------------------------------- MODULE TestJob -------------------------------
(***************************************************************************)
(* How one test group is accounted for: class JobDispatcher in             *)
(* packages/playwright/src/runner/dispatcher.ts, the loop of the worker    *)
(* process that runs its tests (runTestGroup and _runTest in               *)
(* worker/workerMain.ts), and the messages between the two.                *)
(*                                                                         *)
(* The group starts as one job.  A job ends when the worker says "done" or *)
(* its process exits, and leaves jobs for the tests it did not reach and   *)
(* for the retries.  Module TestDispatcher decides where and when jobs     *)
(* run; jobs of one group never overlap there, so here they run one after  *)
(* the other.  The other groups of the run appear only as failures that    *)
(* count towards maxFailures.                                              *)
(*                                                                         *)
(* Tests are natural numbers in file order.  A status "timedOut" is taken  *)
(* as "failed".                                                            *)
(***************************************************************************)
EXTENDS Integers, Sequences, SequencesExt, FiniteSetsExt

CONSTANTS
  Test,          (* The tests of the file.                                  *)
  SerialSuite,   (* The outermost suites in serial mode, as sets of tests.  *)
  SetupSuite,    (* The suites with a beforeAll hook, as sets of tests.     *)
  Retries,       (* TestCase.retries                                        *)
  Setting,       (* The settings that a run may have, see SettingAssumption. *)
  NoTest         (* undefined                                               *)

(* "fail" a test fails, "snapshot" it fails with an error that must not be  *)
(* retried, "skip" it skips itself, "hook" a beforeAll hook fails, "throw"   *)
(* there is an unhandled error while a test runs, "stray" after a test and   *)
(* its cleanup or before the first one, "load" the file does not load,       *)
(* "rename" the worker does not find a test, "crash" the process dies,       *)
(* "kill" it is killed after a stop, "stop" the run is interrupted,          *)
(* "elsewhere" a test of another group fails.                                *)
AnyFault == {"fail", "snapshot", "skip", "hook", "throw", "stray", "load", "rename",
             "crash", "kill", "stop", "elsewhere"}

ASSUME TestAssumption == Test # {} /\ Test \subseteq Nat /\ IsFiniteSet(Test) /\ NoTest \notin Test
ASSUME SuiteAssumption ==
  /\ SerialSuite \subseteq SUBSET Test
  /\ SetupSuite \subseteq SUBSET Test
  /\ \A a, b \in SerialSuite : a # b => a \cap b = {}
ASSUME RetriesAssumption == Retries \in [Test -> Nat]

(* The tests of the group, the status each is declared with ("failed" for    *)
(* test.fail(), "skipped" for test.skip()), config.maxFailures (0 when there *)
(* is no limit), whether retryStrategy is "isolated" and not "immediate",    *)
(* and what may go wrong.  A serial suite is in one group (testGroups.ts).   *)
ASSUME SettingAssumption ==
  \A one \in Setting :
    /\ one.group \subseteq Test
    /\ \A suite \in SerialSuite : suite \subseteq one.group \/ suite \cap one.group = {}
    /\ one.expected \in [Test -> {"passed", "failed", "skipped"}]
    /\ one.maxFailures \in Nat
    /\ one.isolated \in BOOLEAN
    /\ one.faults \subseteq AnyFault

VARIABLES
  setting,      (* that of this run                                         *)
  queue,        (* the jobs still to run, each a sequence of tests          *)
  phase,        (* "idle" between jobs, "running" while a job runs, "over"  *)
  job,          (* job.tests                                                *)
  remaining,    (* _remainingByTestId                                       *)
  begun,        (* _dataByTestId                                            *)
  failed,       (* _failedTests                                             *)
  nonRetriable, (* _failedWithNonRetriableError, the tests                  *)
  current,      (* _currentlyRunning                                        *)
  results,      (* the status of each result of a test; "started" until its *)
                (* end is reported                                          *)
  expected,     (* TestCase.expectedStatus                                  *)
  failedCount,  (* testRun.failedTestCount                                  *)
  elsewhere,    (* how many of those failed in other groups                 *)
  workerErrors, (* testRun.hasWorkerErrors                                  *)
  stopped,      (* Dispatcher._isStopped                                    *)
  worker,       (* the worker process                                       *)
  wire          (* the messages it sent and the runner has not handled      *)

job_vars    == <<job, remaining, begun, failed, nonRetriable, current>>
report_vars == <<results, expected, failedCount, workerErrors>>
vars == <<setting, queue, phase, job_vars, report_vars, elsewhere, stopped, worker, wire>>

Group       == setting.group
Expected    == setting.expected
MaxFailures == setting.maxFailures
Isolated    == setting.isolated
Faults      == setting.faults

Status == {"passed", "failed", "skipped", "interrupted"}

(* The worker: "loading" the file, "between" tests, "test" from the start of *)
(* a test to the end of its hooks and cleanup, "tail" from there to testEnd, *)
(* "idle" after "done", "none" without a process.  todo is what is left of   *)
(* "entries"; fatal, unhandled, skip and hooked stand for _fatalErrors,      *)
(* _stoppedDueToUnhandledErrorInTestFail, _skipRemainingTestsInSuite and     *)
(* _activeSuites; asked is ProcessHost._didSendStop.                         *)
Worker == [phase : {"none", "loading", "between", "test", "tail", "idle"},
           todo : SUBSET Test, test : Test \cup {NoTest}, status : Status,
           expected : {"passed", "failed", "skipped"}, nonRetriable : BOOLEAN,
           stopped : BOOLEAN, cleaned : BOOLEAN, fatal : BOOLEAN, unhandled : BOOLEAN,
           skip : SUBSET Test, hooked : SUBSET SetupSuite, asked : BOOLEAN]

NoWorker == [phase |-> "none", todo |-> {}, test |-> NoTest, status |-> "passed",
             expected |-> "passed", nonRetriable |-> FALSE,
             stopped |-> FALSE, cleaned |-> FALSE, fatal |-> FALSE, unhandled |-> FALSE,
             skip |-> {}, hooked |-> {}, asked |-> FALSE]

(* The payload of "done", which 'exit' shares.                               *)
Payload == [fatal : BOOLEAN, skip : SUBSET Test, unknown : SUBSET Test,
            unhandled : BOOLEAN, unexpected : BOOLEAN]
Nothing == [fatal |-> FALSE, skip |-> {}, unknown |-> {}, unhandled |-> FALSE, unexpected |-> FALSE]

BeginMessage(t) == [method |-> "testBegin", test |-> t]
EndMessage(t, status, expects, final) ==
  [method |-> "testEnd", test |-> t, status |-> status, expected |-> expects, nonRetriable |-> final]
DoneMessage(method, payload) == [method |-> method, payload |-> payload]

Message ==
  [method : {"testBegin"}, test : Test]
    \cup [method : {"testEnd"}, test : Test, status : Status,
          expected : {"passed", "failed", "skipped"}, nonRetriable : BOOLEAN]
    \cup [method : {"done", "exit"}, payload : Payload]

TypeOK ==
  /\ setting \in Setting
  /\ queue \in Seq(Seq(Test))
  /\ phase \in {"idle", "running", "over"}
  /\ job \in Seq(Test)
  /\ remaining \subseteq ToSet(job)
  /\ begun \subseteq ToSet(job)
  /\ failed \subseteq Test
  /\ nonRetriable \subseteq Test
  /\ current \in Test \cup {NoTest}
  /\ results \in [Test -> Seq(Status \cup {"started"})]
  /\ expected \in [Test -> {"passed", "failed", "skipped"}]
  /\ failedCount \in Nat
  /\ elsewhere \in Nat
  /\ workerErrors \in BOOLEAN
  /\ stopped \in BOOLEAN
  /\ worker \in Worker
  /\ wire \in Seq(Message)

(***************************************************************************)
(* Reporting results.                                                      *)
(***************************************************************************)
(* A result that has begun but not ended has the status "skipped".          *)
StatusOf(result) == IF result = "started" THEN "skipped" ELSE result

(* computeTestCaseOutcome: interruptions and tests that did not run do not   *)
(* count; a test is "skipped" when nothing else is left.                     *)
Outcome(log, expects) ==
  LET counted == {StatusOf(log[i]) : i \in DOMAIN log} \ {"interrupted"}
      asExpected == counted \cap {expects}
      unexpected == counted \ {expects, "skipped"}
  IN  IF unexpected = {}
      THEN IF asExpected \subseteq {"skipped"} THEN "skipped" ELSE "expected"
      ELSE IF asExpected = {} THEN "unexpected" ELSE "flaky"

ReachedMaxFailures(count) == MaxFailures > 0 /\ count >= MaxFailures

WithLast(log, status) == [log EXCEPT ![Len(log)] = status]

(* What the handlers below change, step by step: a snapshot of the results,  *)
(* the counter and the sets of the job.                                      *)
Ledger == [results |-> results, expected |-> expected, count |-> failedCount,
           remaining |-> remaining, failed |-> failed,
           errors |-> FALSE, workerErrors |-> workerErrors]

(* Mutation: a test counts as failing when any result of it failed.          *)
ReportEndFlaky(ledger, t) ==
  IF /\ Outcome(ledger.results[t], ledger.expected[t]) \in {"unexpected", "flaky"}
     /\ Len(ledger.results[t]) > Retries[t]
  THEN [ledger EXCEPT !.count = @ + 1]
  ELSE ledger

ReportEnd(ledger, t) ==
  IF /\ Outcome(ledger.results[t], ledger.expected[t]) = "unexpected"
     /\ Len(ledger.results[t]) > Retries[t]
  THEN [ledger EXCEPT !.count = @ + 1]
  ELSE ledger

(* _failTestWithErrors: the test that is running gets its result finished,   *)
(* any other a result of its own.                                            *)
Fail(ledger, t, status) ==
  LET log   == ledger.results[t]
      ended == IF t \in begun THEN WithLast(log, status) ELSE Append(log, status)
  IN  ReportEnd([ledger EXCEPT !.results = [ledger.results EXCEPT ![t] = ended],
                               !.failed = @ \cup {t}], t)

(* The members of a set of numbers in their order.                           *)
Ascending(S) ==
  [n \in 1..Cardinality(S) |-> CHOOSE t \in S : Cardinality({u \in S : u < t}) = n - 1]

InFileOrder(S) == Ascending(S)

InJobOrder(S) ==
  LET places == Ascending({i \in DOMAIN job : job[i] \in S})
  IN  [n \in DOMAIN places |-> job[places[n]]]

(* A loop over tests.                                                        *)
ForEach(tests, ledger, Step(_, _)) ==
  LET after[n \in 0..Len(tests)] == IF n = 0 THEN ledger ELSE Step(after[n - 1], tests[n])
  IN  after[Len(tests)]

Blame(ledger, t) ==
  IF ReachedMaxFailures(ledger.count) THEN ledger
  ELSE [Fail(ledger, t, IF ledger.errors THEN "failed" ELSE "skipped") EXCEPT !.errors = FALSE]

(* Mutation: the skipped tests still count as remaining.                     *)
MassSkipKept(ledger, tests, withErrors) ==
  LET after == ForEach(InJobOrder(ledger.remaining \cap tests), [ledger EXCEPT !.errors = withErrors], Blame)
  IN  [after EXCEPT !.workerErrors = @ \/ after.errors]

(* _massSkipTestsFromRemaining: the first of the tests takes the blame for   *)
(* the errors, the others are skipped; none is reported once maxFailures is  *)
(* reached.  Errors nobody was blamed for fail the run.                      *)
MassSkip(ledger, tests, withErrors) ==
  LET Skip(l, t) == [Blame(l, t) EXCEPT !.remaining = @ \ {t}]
      after == ForEach(InJobOrder(ledger.remaining \cap tests), [ledger EXCEPT !.errors = withErrors], Skip)
  IN  [after EXCEPT !.workerErrors = @ \/ after.errors]

(***************************************************************************)
(* The end of a job: _onDone.                                              *)
(***************************************************************************)
NothingWentWrong(payload) == remaining = {} /\ failed = {} /\ payload = Nothing

(* Unknown tests fail without a look at maxFailures; fatal errors, failed    *)
(* beforeAll hooks and a worker that died skip tests one after the other.    *)
Settled(payload) ==
  LET Miss(l, t) == Fail([l EXCEPT !.remaining = @ \ {t}], t, "failed")
      renamed == ForEach(InJobOrder(payload.unknown \cap remaining), Ledger, Miss)
      fatal   == IF payload.fatal THEN MassSkip(renamed, Test, TRUE) ELSE renamed
      hook    == MassSkip(fatal, payload.skip, FALSE)
      blamed  == IF current # NoTest THEN {current} ELSE Test
  IN  IF payload.unexpected THEN MassSkip(hook, blamed, TRUE) ELSE hook

(* Mutation: a serial suite goes on after a failure.                         *)
SerialSuitesIgnored(ledger) == {}

SerialSuitesWithFailures(ledger) ==
  {suite \in SerialSuite : suite \cap (ledger.failed \ nonRetriable) # {} /\ suite \cap nonRetriable = {}}

RetryCandidates(ledger) ==
  (ledger.failed \ nonRetriable) \cup UNION SerialSuitesWithFailures(ledger)

HasRetriesLeft(ledger, t) == Len(ledger.results[t]) < Retries[t] + 1

(* What is in a Set comes in the order in which it was first added.          *)
InOrderAdded(added, S) ==
  LET places == Ascending({i \in DOMAIN added : added[i] \in S /\ \A k \in 1..(i - 1) : added[k] # added[i]})
  IN  [n \in DOMAIN places |-> added[places[n]]]

(* The retries in the order of retryCandidates: the tests that failed, in    *)
(* the order in which they did, and then the others of their suites.         *)
RetryOrder(ledger, payload, retries) ==
  InOrderAdded(InFileOrder(failed) \o InJobOrder(payload.unknown) \o InJobOrder(ledger.failed)
                 \o InFileOrder(Test), retries)

NonEmpty(tests) == IF tests = <<>> THEN <<>> ELSE <<tests>>

(* The queue after the job: what remains is next, isolated retries are last. *)
Requeued(ledger, again) ==
  LET rest == InJobOrder(ledger.remaining)
  IN  IF Isolated
      THEN NonEmpty(rest) \o queue \o NonEmpty(again)
      ELSE NonEmpty(rest \o again) \o queue

(***************************************************************************)
(* The runner.                                                             *)
(***************************************************************************)
Init ==
  /\ setting \in Setting
  /\ queue = <<InFileOrder(Group)>>
  /\ phase = "idle"
  /\ job = <<>> /\ remaining = {} /\ begun = {} /\ failed = {} /\ nonRetriable = {}
  /\ current = NoTest
  /\ results = [t \in Test |-> <<>>]
  /\ expected = Expected
  /\ failedCount = 0 /\ elsewhere = 0
  /\ workerErrors = FALSE
  /\ stopped = FALSE
  /\ worker = NoWorker
  /\ wire = <<>>

(* What the counter does to the run: the failure that reaches maxFailures    *)
(* stops the dispatcher, which asks its workers to stop.                     *)
StopsRun(count) == stopped \/ (ReachedMaxFailures(count) /\ ~ReachedMaxFailures(failedCount))

AskedToStop(w, stop) == [w EXCEPT !.asked = @ \/ (stop /\ w.phase # "none")]

AllSkipped(tests) == \A i \in DOMAIN tests : expected[tests[i]] = "skipped"

SkipsWholeJob == queue # <<>> /\ AllSkipped(Head(queue)) /\ ~ReachedMaxFailures(failedCount)

(* skipWholeJob: tests that are all expected to be skipped need no worker.   *)
SkipWholeJob ==
  /\ phase = "idle" /\ ~stopped
  /\ SkipsWholeJob
  /\ LET Report(l, t) ==
           LET log == Append(l.results[t], "skipped")
           IN  ReportEnd([l EXCEPT !.results = [l.results EXCEPT ![t] = log]], t)
         after == ForEach(Head(queue), Ledger, Report)
     IN  results' = after.results /\ failedCount' = after.count
  /\ queue' = Tail(queue)
  /\ UNCHANGED <<phase, job_vars, expected, workerErrors, elsewhere, stopped, worker, wire>>

StartJob ==
  /\ phase = "idle" /\ ~stopped
  /\ queue # <<>> /\ ~SkipsWholeJob
  /\ phase' = "running"
  /\ queue' = Tail(queue)
  /\ job' = Head(queue)
  /\ remaining' = ToSet(Head(queue))
  /\ begun' = {} /\ failed' = {} /\ nonRetriable' = {}
  /\ current' = NoTest
  /\ UNCHANGED <<report_vars, elsewhere, stopped>>

(* runInWorker.  A worker that ran an earlier job is like a fresh one: what  *)
(* it may still have on its mind, an error that came while it was idle, can  *)
(* also come while it loads the file.                                        *)
RunInWorker ==
  /\ StartJob
  /\ worker' = [NoWorker EXCEPT !.phase = "loading", !.todo = ToSet(Head(queue))]
  /\ wire' = <<>>

(* The worker process does not start: onExit(startError).                    *)
WorkerDoesNotStart ==
  /\ "crash" \in Faults
  /\ StartJob
  /\ worker' = NoWorker
  /\ wire' = <<DoneMessage("exit", [Nothing EXCEPT !.unexpected = TRUE])>>

OnTestBegin ==
  /\ phase = "running" /\ wire # <<>> /\ Head(wire).method = "testBegin"
  /\ LET t == Head(wire).test
     IN  IF t \in remaining
         THEN /\ results' = [results EXCEPT ![t] = Append(@, "started")]
              /\ begun' = begun \cup {t}
              /\ current' = t
         ELSE UNCHANGED <<results, begun, current>>
  /\ wire' = Tail(wire)
  /\ UNCHANGED <<queue, phase, job, remaining, failed, nonRetriable, expected, failedCount,
                 workerErrors, elsewhere, stopped, worker>>

(* Mutation: failures are reported as such even after maxFailures.           *)
ReportedStatusAsIs(message) == message.status

(* After maxFailures a test is only shown as started and interrupted.        *)
ReportedStatus(message) ==
  IF ReachedMaxFailures(failedCount) THEN "interrupted" ELSE message.status

OnTestEnd ==
  /\ phase = "running" /\ wire # <<>> /\ Head(wire).method = "testEnd"
  /\ LET t      == Head(wire).test
         status == ReportedStatus(Head(wire))
         isFailure == status \notin {"skipped", Head(wire).expected}
         ledger == [Ledger EXCEPT !.results = [results EXCEPT ![t] = WithLast(@, status)],
                                  !.expected = [expected EXCEPT ![t] = Head(wire).expected]]
         after  == ReportEnd(ledger, t)
     IN  IF t \in begun
         THEN /\ begun' = begun \ {t}
              /\ remaining' = remaining \ {t}
              /\ results' = after.results
              /\ expected' = after.expected
              /\ failed' = IF isFailure THEN failed \cup {t} ELSE failed
              /\ nonRetriable' = IF Head(wire).nonRetriable THEN nonRetriable \cup {t} ELSE nonRetriable
              /\ current' = NoTest
              /\ failedCount' = after.count
              /\ stopped' = StopsRun(after.count)
              /\ worker' = AskedToStop(worker, stopped')
         ELSE UNCHANGED <<begun, remaining, results, expected, failed, nonRetriable, current,
                          failedCount, stopped, worker>>
  /\ wire' = Tail(wire)
  /\ UNCHANGED <<queue, phase, job, workerErrors, elsewhere>>

(* Mutation: the tests of the job that is over are not forgotten.            *)
JobOverUnforgotten ==
  /\ phase' = IF queue' = <<>> \/ stopped' THEN "over" ELSE "idle"
  /\ job' = <<>> /\ failed' = {} /\ nonRetriable' = {}
  /\ current' = NoTest
  /\ worker' = NoWorker
  /\ wire' = <<>>
  /\ UNCHANGED <<remaining, begun>>

(* The job is over: no message is listened to any more, and the dispatcher   *)
(* stops a worker whose job did fail.                                        *)
JobOver ==
  /\ phase' = IF queue' = <<>> \/ stopped' THEN "over" ELSE "idle"
  /\ job' = <<>> /\ remaining' = {} /\ begun' = {} /\ failed' = {} /\ nonRetriable' = {}
  /\ current' = NoTest
  /\ worker' = NoWorker
  /\ wire' = <<>>

OnDone ==
  /\ phase = "running" /\ wire # <<>> /\ Head(wire).method \in {"done", "exit"}
  /\ IF NothingWentWrong(Head(wire).payload)
     THEN UNCHANGED <<queue, report_vars, stopped>>
     ELSE LET settled == Settled(Head(wire).payload)
              suites  == SerialSuitesWithFailures(settled)
              after   == MassSkip(settled, UNION suites, FALSE)
              retries == {t \in RetryCandidates(settled) : HasRetriesLeft(after, t)}
          IN  /\ results' = after.results
              /\ failedCount' = after.count
              /\ workerErrors' = after.workerErrors
              /\ stopped' = StopsRun(after.count)
              /\ queue' = IF stopped' THEN queue ELSE Requeued(after, RetryOrder(settled, Head(wire).payload, retries))
              /\ UNCHANGED expected
  /\ JobOver
  /\ UNCHANGED elsewhere

(* The last job was skipped as a whole, or the run was stopped in between.   *)
RunIsOver ==
  /\ phase = "idle" /\ (queue = <<>> \/ stopped)
  /\ phase' = "over"
  /\ UNCHANGED <<queue, job_vars, report_vars, elsewhere, stopped, worker, wire>>

(* A test of another group fails for good.                                   *)
FailElsewhere ==
  /\ "elsewhere" \in Faults
  /\ phase # "over" /\ elsewhere = 0
  /\ elsewhere' = elsewhere + 1
  /\ failedCount' = failedCount + 1
  /\ stopped' = StopsRun(failedCount')
  /\ worker' = AskedToStop(worker, stopped')
  /\ UNCHANGED <<queue, phase, job_vars, results, expected, workerErrors, wire>>

(* Ctrl+C, a global timeout.                                                 *)
StopRun ==
  /\ "stop" \in Faults
  /\ phase # "over" /\ ~stopped
  /\ stopped' = TRUE
  /\ worker' = AskedToStop(worker, TRUE)
  /\ UNCHANGED <<queue, phase, job_vars, report_vars, elsewhere, wire>>

(***************************************************************************)
(* The worker process.                                                     *)
(***************************************************************************)
runner_vars == <<queue, phase, job_vars, report_vars, elsewhere, stopped>>

Send(messages) == wire' = wire \o messages

(* Mutation: a worker that was stopped does not answer.                      *)
DoneUnlessStopped(w, unknown) ==
  /\ Send(IF w.stopped THEN <<>>
          ELSE <<DoneMessage("done", [fatal |-> w.fatal, skip |-> w.skip \cap w.todo, unknown |-> unknown,
                                      unhandled |-> w.unhandled, unexpected |-> FALSE])>>)
  /\ worker' = [w EXCEPT !.phase = "idle", !.fatal = FALSE, !.skip = {}]

Done(w, unknown) ==
  /\ Send(<<DoneMessage("done", [fatal |-> w.fatal, skip |-> w.skip \cap w.todo, unknown |-> unknown,
                                 unhandled |-> w.unhandled, unexpected |-> FALSE])>>)
  /\ worker' = [w EXCEPT !.phase = "idle", !.fatal = FALSE, !.skip = {}]

LoadFile ==
  /\ worker.phase = "loading"
  /\ worker' = [worker EXCEPT !.phase = "between", !.cleaned = FALSE, !.hooked = {}]
  /\ UNCHANGED <<runner_vars, wire>>

FailToLoadFile ==
  /\ "load" \in Faults
  /\ worker.phase = "loading"
  /\ Done([worker EXCEPT !.fatal = TRUE, !.stopped = TRUE], {})
  /\ UNCHANGED runner_vars

(* Some test titles are not what they were in the runner.                    *)
MissTests ==
  /\ "rename" \in Faults
  /\ worker.phase = "loading"
  /\ \E unknown \in SUBSET worker.todo \ {{}} : Done([worker EXCEPT !.stopped = TRUE], unknown)
  /\ UNCHANGED runner_vars

KeepsRunning(w) == w.phase = "between" /\ w.todo # {} /\ ~(w.stopped /\ w.cleaned)

FirstOf(w) == Min(w.todo)

(* A skipped test with a successor that takes care of the cleanup.           *)
PassOverTest ==
  /\ KeepsRunning(worker)
  /\ LET t == FirstOf(worker)
     IN  /\ Expected[t] = "skipped"
         /\ worker.todo # {t}
         /\ Send(<<BeginMessage(t), EndMessage(t, "skipped", "skipped", FALSE)>>)
         /\ worker' = [worker EXCEPT !.todo = @ \ {t}]
  /\ UNCHANGED runner_vars

(* A worker that was stopped does not run the test, but cleans up after it.  *)
BeginTest ==
  /\ KeepsRunning(worker)
  /\ LET t == FirstOf(worker)
     IN  /\ Send(<<BeginMessage(t)>>)
         /\ worker' = [worker EXCEPT
              !.phase = "test", !.todo = @ \ {t}, !.test = t, !.expected = Expected[t],
              !.nonRetriable = FALSE,
              !.status = IF worker.stopped \/ Expected[t] = "skipped" THEN "skipped" ELSE "passed"]
  /\ UNCHANGED runner_vars

(* Mutation: the worker stops after a failure but does not clean up.         *)
AfterTestUncleaned(w) ==
  [w EXCEPT !.phase = "tail", !.cleaned = w.stopped,
            !.stopped = w.stopped \/ w.status \notin {"skipped", w.expected}]

(* After the hooks: a failure stops the worker, a stopped worker cleans up.  *)
AfterTest(w) ==
  LET isStopped == w.stopped \/ w.status \notin {"skipped", w.expected}
  IN  [w EXCEPT !.phase = "tail", !.stopped = isStopped, !.cleaned = isStopped]

HooksOf(t) == {suite \in SetupSuite : t \in suite}

(* The test, its hooks and the cleanup come to an end.  What was interrupted *)
(* or has failed stays so.                                                   *)
FinishTest ==
  /\ worker.phase = "test"
  /\ worker' = AfterTest(IF worker.status = "passed"
                         THEN [worker EXCEPT !.hooked = @ \cup HooksOf(worker.test)]
                         ELSE worker)
  /\ UNCHANGED <<runner_vars, wire>>

(* It fails, in the test or in a hook after it; or, when the test was not    *)
(* run, in the cleanup.                                                      *)
FailTest ==
  /\ "fail" \in Faults
  /\ worker.phase = "test" /\ worker.status \in {"passed", "skipped"}
  /\ worker' = AfterTest([worker EXCEPT !.status = "failed", !.hooked = @ \cup HooksOf(worker.test)])
  /\ UNCHANGED <<runner_vars, wire>>

(* A snapshot is missing and was written.                                    *)
FailForGood ==
  /\ "snapshot" \in Faults
  /\ worker.phase = "test" /\ worker.status = "passed"
  /\ worker' = AfterTest([worker EXCEPT !.status = "failed", !.nonRetriable = TRUE,
                                        !.hooked = @ \cup HooksOf(worker.test)])
  /\ UNCHANGED <<runner_vars, wire>>

(* test.skip() inside the test.                                              *)
SkipItself ==
  /\ "skip" \in Faults
  /\ worker.phase = "test" /\ worker.status = "passed"
  /\ worker' = AfterTest([worker EXCEPT !.status = "skipped", !.expected = "skipped",
                                        !.hooked = @ \cup HooksOf(worker.test)])
  /\ UNCHANGED <<runner_vars, wire>>

(* A beforeAll hook that has not run yet fails; the rest of its suite is not *)
(* to be run.                                                                *)
FailHook ==
  /\ "hook" \in Faults
  /\ worker.phase = "test" /\ worker.status = "passed"
  /\ \E suite \in HooksOf(worker.test) \ worker.hooked :
       worker' = AfterTest([worker EXCEPT !.status = "failed",
                                          !.skip = IF @ = {} THEN suite ELSE @,
                                          !.hooked = @ \cup HooksOf(worker.test)])
  /\ UNCHANGED <<runner_vars, wire>>

EndTest ==
  /\ worker.phase = "tail"
  /\ Send(<<EndMessage(worker.test, worker.status, worker.expected, worker.nonRetriable)>>)
  /\ worker' = [worker EXCEPT !.phase = "between", !.test = NoTest]
  /\ UNCHANGED runner_vars

FinishGroup ==
  /\ worker.phase = "between" /\ ~KeepsRunning(worker)
  /\ Done(worker, {})
  /\ UNCHANGED runner_vars

(* unhandledError with a test to blame: it fails, and the worker stops.      *)
ThrowInTest ==
  /\ \/ worker.phase = "test" /\ "throw" \in Faults
     \/ worker.phase = "tail" /\ "stray" \in Faults
  /\ ~worker.unhandled
  /\ worker' = [worker EXCEPT !.unhandled = TRUE, !.stopped = TRUE,
                              !.status = IF @ \in {"passed", "skipped"} THEN "failed" ELSE @]
  /\ UNCHANGED <<runner_vars, wire>>

(* unhandledError without one.                                               *)
ThrowBetweenTests ==
  /\ "stray" \in Faults
  /\ worker.phase \in {"loading", "between"} /\ ~worker.fatal
  /\ worker' = [worker EXCEPT !.fatal = TRUE, !.stopped = TRUE]
  /\ UNCHANGED <<runner_vars, wire>>

(* The message to stop arrives: _stop interrupts the current test.           *)
ReceiveStop ==
  /\ worker.asked /\ ~worker.stopped
  /\ worker' = [worker EXCEPT !.stopped = TRUE,
                  !.status = IF worker.phase \in {"test", "tail"} /\ @ = "passed" THEN "interrupted" ELSE @]
  /\ UNCHANGED <<runner_vars, wire>>

(* The process is gone, and with it the messages that did not get through.   *)
ProcessExits ==
  /\ worker.phase # "none"
  /\ \E n \in 0..Len(wire) :
       wire' = Append(SubSeq(wire, 1, n), DoneMessage("exit", [Nothing EXCEPT !.unexpected = ~worker.asked]))
  /\ worker' = NoWorker
  /\ UNCHANGED runner_vars

Crash == "crash" \in Faults /\ ~worker.asked /\ ProcessExits

Kill == "kill" \in Faults /\ worker.asked /\ ProcessExits

RunnerHandles == (OnTestBegin \/ OnTestEnd \/ OnDone) /\ UNCHANGED setting

RunnerStarts == (SkipWholeJob \/ RunInWorker \/ RunIsOver) /\ UNCHANGED setting

WorkerGoesOn ==
  /\ LoadFile \/ PassOverTest \/ BeginTest \/ FinishTest \/ EndTest \/ FinishGroup
  /\ UNCHANGED setting

Fault ==
  /\ \/ WorkerDoesNotStart \/ FailElsewhere \/ StopRun
     \/ FailToLoadFile \/ MissTests
     \/ FailTest \/ FailForGood \/ SkipItself \/ FailHook
     \/ ThrowInTest \/ ThrowBetweenTests
     \/ ReceiveStop \/ Crash \/ Kill
  /\ UNCHANGED setting

Terminated == phase = "over" /\ UNCHANGED vars

Next == RunnerStarts \/ RunnerHandles \/ WorkerGoesOn \/ Fault \/ Terminated

(* The event loop of the runner gets to every message, and a worker gets on  *)
(* with its tests: they have timeouts.  Handling a message takes it off the  *)
(* wire, which is all that has to be said.                                   *)
Receive == phase = "running" /\ wire # <<>> /\ wire' \in {Tail(wire), <<>>}

Fairness == WF_vars(RunnerStarts) /\ WF_wire(Receive) /\ WF_vars(WorkerGoesOn)

Spec == Init /\ [][Next]_vars
FairSpec == Spec /\ Fairness

(***************************************************************************)
(* Properties.                                                             *)
(***************************************************************************)
Ran(result) == result \in {"passed", "failed"}

OutcomeOf(t) == Outcome(results[t], expected[t])

(* No test is in two jobs, or twice in one: whatever mixture of remaining    *)
(* tests, failed tests and whole serial suites _onDone queues.               *)
NoTestTwice ==
  /\ \A i \in DOMAIN queue : IsInjective(queue[i])
  /\ \A i, k \in DOMAIN queue : i # k => ToSet(queue[i]) \cap ToSet(queue[k]) = {}
  /\ \A i \in DOMAIN queue : ToSet(queue[i]) \cap ToSet(job) = {}

(* A test runs at most once more often than it may be retried, also when it  *)
(* is retried for the sake of its serial suite.                              *)
RetriesAreBounded == \A t \in Test : Len(results[t]) <= Retries[t] + 1

(* A test.fail() test whose snapshot is missing marks its serial suite as    *)
(* not to be retried while the suite goes on; a later failure is retried     *)
(* alone, and then, from a job of its own, once more with the suite.         *)
MayComeApart == Isolated /\ "snapshot" \in Faults /\ SerialSuite # {}

NoTestTooOften == MayComeApart \/ (NoTestTwice /\ RetriesAreBounded)

(* "These will only be retried together, because they have the same          *)
(* "retries" setting and the same number of previous runs" (comment in       *)
(* _onDone): of a serial suite that is to run again, the tests that do not   *)
(* wait in the same job as the others have had their turn in this round.     *)
SerialSuiteInStep ==
  phase = "idle" =>
    \A suite \in SerialSuite : \A i \in DOMAIN queue : \A s, t \in suite :
      s \in ToSet(queue[i]) =>
        Len(results[t]) = Len(results[s]) + (IF t \in ToSet(queue[i]) THEN 0 ELSE 1)

(* "If one of the tests fails, all subsequent tests are skipped"             *)
(* (docs/src/test-retries-js.md, "Serial mode"): a test of a serial suite    *)
(* passes only in a round in which no earlier test of the suite failed.      *)
SerialSuiteStops ==
  \A suite \in SerialSuite : \A s, t \in suite : \A i \in DOMAIN results[t] :
    s < t /\ results[t][i] = "passed" /\ i \in DOMAIN results[s] =>
      results[s][i] \in {"skipped", Expected[s]}

(* A serial suite runs as one: it stops at its first failure and is retried  *)
(* as a whole, if its tests do have the same "retries" setting and no        *)
(* snapshot is missing.                                                      *)
SerialSuitesRunAsOne ==
  /\ "snapshot" \notin Faults
  /\ \A suite \in SerialSuite : \A s, t \in suite : Retries[s] = Retries[t]
  => SerialSuiteInStep /\ SerialSuiteStops

(* The counter behind maxFailures is exact: it counts each test that failed  *)
(* all its retries, once, and nothing else.                                  *)
CountIsExact ==
  failedCount = elsewhere + Cardinality({t \in Test :
    OutcomeOf(t) = "unexpected" /\ Len(results[t]) > Retries[t] /\ Last(results[t]) # "started"})

(* TestRun.result() is "passed": "Everything went as expected"               *)
(* (docs/src/test-reporter-api/class-reporter.md).                           *)
RunPassed ==
  /\ ~workerErrors
  /\ ~ReachedMaxFailures(failedCount)
  /\ \A t \in Test : OutcomeOf(t) # "unexpected"

(* A run that was not stopped and passed has run every test that is not      *)
(* expected to be skipped: none is lost between jobs, retries and workers.   *)
PassedMeansRan ==
  phase = "over" /\ ~stopped /\ RunPassed =>
    \A t \in Group : expected[t] # "skipped" => \E i \in DOMAIN results[t] : Ran(results[t][i])

NoSerialSuite == \A suite \in SerialSuite : suite \cap Group = {}

(* The same for isolated retries, when no error arrives between two tests,   *)
(* no snapshot is missing, all tests are expected to pass and may be retried *)
(* equally often, and no test of a group with serial suites is renamed.      *)
(* Otherwise a test can be skipped for the failures of others until it has   *)
(* no retries left, while those others do not count as failed in the end.    *)
PassedMeansRanIfIsolated ==
  /\ Isolated /\ Faults \cap {"stray", "snapshot"} = {}
  /\ \A s, t \in Group : Retries[s] = Retries[t] /\ Expected[t] = "passed"
  /\ "rename" \notin Faults \/ NoSerialSuite
  => PassedMeansRan

(* Every result that began is ended when its job is over, unless the run was *)
(* stopped: then a worker can die too late for anyone to be blamed.          *)
NoResultLeftOpen ==
  phase # "running" /\ ~stopped => \A t \in Test : \A i \in DOMAIN results[t] : results[t][i] # "started"

(* The results of a group add up, whatever crashed, was retried or came late: *)
(* each is closed, and the failures are counted once.                        *)
ResultsAddUp == NoResultLeftOpen /\ (MayComeApart \/ CountIsExact)

(* The tests that the worker did not find, when its answer is the next to be *)
(* handled.                                                                  *)
NotFound == IF wire # <<>> /\ Head(wire).method = "done" THEN Head(wire).payload.unknown ELSE {}

(* "Do not show more than one error to avoid confusion" (comment in          *)
(* _onTestEnd): once maxFailures is reached, no test is reported as failed,  *)
(* however many messages of it are still on their way.  Only the tests that  *)
(* a worker did not find are, which _onDone fails without a look at it.      *)
NoFailureAfterMax ==
  [][ReachedMaxFailures(failedCount) =>
       \A t \in Test \ NotFound : \A i \in DOMAIN results'[t] :
         results'[t][i] = "failed" => i \in DOMAIN results[t] /\ results[t][i] = "failed"]_vars

(* Every run of a group comes to an end: each job is answered, and leaves    *)
(* less behind than it was given.                                            *)
RunEnds == <>(phase = "over")
=============================================================================
