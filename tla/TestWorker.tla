----------------------------- MODULE TestWorker -----------------------------
(***************************************************************************)
(* One worker process runs the tests of a group: WorkerMain._runTest with  *)
(* its hooks (packages/playwright/src/worker/workerMain.ts), the fixtures  *)
(* (worker/fixtureRunner.ts) and the time slots (worker/timeoutManager.ts, *)
(* worker/testInfo.ts).  Module TestJob is the dispatcher's view of it.    *)
(*                                                                         *)
(* A test goes through the stages of "at".  Within a stage the worker sets *)
(* up the fixtures of a function, calls it, and tears fixtures down; the   *)
(* functions are the user's and may return, throw, skip or time out.       *)
(* _stop() and unhandled errors come while the worker awaits something.    *)
(***************************************************************************)
EXTENDS Naturals, Sequences, FiniteSets

CONSTANTS
  LastTest,      (* The tests of the group are 1 .. LastTest, in file order. *)
  Expect,        (* The expectedStatus of each test, from its annotations.   *)
  Suite, SuitesOf,        (* The suites of a test, outermost first.          *)
  Hook,
  BeforeAll, AfterAll,    (* The hooks of a suite, in declaration order.     *)
  BeforeEach, AfterEach,  (* The hooks around a test, in the order they run. *)
  Fixture, Scope, Deps,   (* registration.scope, registration.deps           *)
  OwnSlot,       (* Fixtures with a time slot of their own: those of worker  *)
                 (* scope and those with a timeout option.                   *)
  Automatic,          (* Automatic fixtures.                                      *)
  Params,        (* The fixtures a test or a hook names.                     *)
  None           (* undefined                                                *)

Test == 1 .. LastTest
AllHook == UNION {{h \in Hook : \E i \in DOMAIN BeforeAll[s] : BeforeAll[s][i] = h}
                    \cup {h \in Hook : \E i \in DOMAIN AfterAll[s] : AfterAll[s][i] = h}
                  : s \in Suite}

ASSUME GroupAssumption ==
  /\ LastTest \in Nat \ {0}
  /\ Expect \in [Test -> {"passed", "failed", "skipped"}]
  /\ SuitesOf \in [Test -> Seq(Suite)]
  /\ BeforeAll \in [Suite -> Seq(Hook)] /\ AfterAll \in [Suite -> Seq(Hook)]
  /\ BeforeEach \in [Test -> Seq(Hook)] /\ AfterEach \in [Test -> Seq(Hook)]
  /\ \A t \in Test : /\ \A i \in DOMAIN BeforeEach[t] : BeforeEach[t][i] \notin AllHook
                     /\ \A i \in DOMAIN AfterEach[t] : AfterEach[t][i] \notin AllHook
  /\ \A r, s \in Suite : \A i \in DOMAIN BeforeAll[r], j \in DOMAIN BeforeAll[s] :
       BeforeAll[r][i] = BeforeAll[s][j] => r = s
  /\ Hook \cap Test = {} /\ None \notin Hook \cup Test \cup Fixture

ASSUME FixtureAssumption ==
  /\ Scope \in [Fixture -> {"test", "worker"}]
  /\ Deps \in [Fixture -> Seq(Fixture)]
  /\ \A f \in Fixture : Scope[f] = "worker" =>
       /\ f \in OwnSlot
       /\ \A i \in DOMAIN Deps[f] : Scope[Deps[f][i]] = "worker"
  /\ OwnSlot \subseteq Fixture /\ Automatic \subseteq Fixture
  /\ Fixture \cap {"test", "after", "hook", "cleanup", "close"} = {}
  /\ Params \in [Hook \cup Test -> SUBSET Fixture]

VARIABLES
  (* The place in the code. *)
  test,         (* The test that runs, or ran last.                          *)
  at,           (* The stage of _runTest, runTestGroup or gracefullyClose.   *)
  suites,       (* Suites the stage has still to visit, in order.            *)
  hooks,        (* Hooks it has still to run, in order.                      *)
  phase,        (* What goes on in it: nothing, "resolve", "call", "clean".  *)
  fn,           (* The hook or test whose parameters are resolved or that is *)
                (* called; the fixtures of a hook are cleaned after it.      *)
  need, left,   (* Fixtures still to be set up, or to be torn down.          *)
  cur,          (* The fixture whose own code is running.                    *)
  error,        (* How the hook ended: "none", "error" or "skip"; when a     *)
                (* teardown after it failed first: "errorLater", "skipLater".*)
  threw,        (* firstError of the stage is set.                           *)
  due,          (* shouldRunAfterEachHooks                                   *)
  (* TestInfoImpl. *)
  status, expected,
  interrupted,  (* _interruptedPromise is resolved.                          *)
  exhausted,    (* Time slots with no time left.                             *)
  (* WorkerMain and FixtureRunner. *)
  stopped,      (* _isStopped                                                *)
  cleaned,      (* _didRunFullCleanup                                        *)
  active,       (* _activeSuites                                             *)
  inherited,    (* Active suites whose extraAnnotations hold a skip.         *)
  inst,         (* instanceForId: set-up, provided, failed, or no instance.  *)
  usages,       (* Fixture._usages                                           *)
  (* What happened so far. *)
  called,       (* Hooks of all tests called so far, and what was called     *)
                (* since the current test began.                             *)
  made,         (* Worker fixtures whose code has ever been called.          *)
  lost          (* "beforeAll" hooks that a skip in a teardown kept from     *)
                (* running.                                                  *)

place == <<suites, hooks, phase, fn, need, left, cur, error, threw>>
info == <<status, expected, interrupted, exhausted>>
worker == <<stopped, cleaned, active, inherited>>
registry == <<inst, usages>>
history == <<called, made, lost>>
vars == <<test, at, place, due, info, worker, registry, history>>

(* Mutation: the scope is not looked at.                                     *)
RegisteredAnywhere(scope) == {f \in Fixture : inst[f] # "none" /\ scope \in {"test", "worker"}}
Registered(scope) == {f \in Fixture : inst[f] # "none" /\ Scope[f] = scope}
NextTest == IF test < LastTest THEN test + 1 ELSE None
EnclosingNext == IF NextTest = None THEN {}
                 ELSE {s \in Suite : \E i \in DOMAIN SuitesOf[NextTest] : SuitesOf[NextTest][i] = s}
IsFailure == status # "skipped" /\ status # expected

(* The fixtures a function needs: its own and the automatic ones with all    *)
(* they depend on.  "beforeAll" and "afterAll" hooks set up only the         *)
(* automatic fixtures of worker scope.                                       *)
DependsOn(f) == {Deps[f][i] : i \in DOMAIN Deps[f]}
AutoFor(x) == IF x \in AllHook THEN {f \in Automatic : Scope[f] = "worker"} ELSE Automatic
Needed(x) ==
  {f \in Fixture : \A closed \in SUBSET Fixture :
     (/\ Params[x] \cup AutoFor(x) \subseteq closed
      /\ \A g \in closed : DependsOn(g) \subseteq closed) => f \in closed}

(* The time slot of what runs: a fixture's own, or that of its runnable.     *)
StageSlot == CASE at \in {"beforeAll", "afterAll", "cleanAll"}  -> "hook"
               [] at \in {"after", "afterEach", "tearDown"}     -> "after"
               [] at \in {"cleanTest", "cleanWorker"}           -> "cleanup"
               [] at \in {"closeTest", "closeWorker"}           -> "close"
               [] OTHER                                         -> "test"
SlotOf(f) == IF f \in OwnSlot THEN f ELSE StageSlot

(***************************************************************************)
(* Moving through the stages.                                              *)
(***************************************************************************)
Innermost(t) == [i \in 1 .. Len(SuitesOf[t]) |-> SuitesOf[t][Len(SuitesOf[t]) + 1 - i]]

Go(stage) ==
  /\ at' = stage
  /\ suites' = CASE stage = "beforeAll"                -> SuitesOf[test]
                 [] stage \in {"afterAll", "cleanAll"} -> Innermost(test)
                 [] OTHER                              -> <<>>
  /\ hooks' = CASE stage = "beforeEach"       -> BeforeEach[test]
                [] stage = "afterEach" /\ due -> AfterEach[test]
                [] OTHER                      -> <<>>
  /\ left' = CASE stage \in {"tearDown", "cleanTest", "closeTest"} -> Registered("test")
               [] stage \in {"cleanWorker", "closeWorker"}         -> Registered("worker")
               [] OTHER                                            -> {}
  /\ phase' = CASE stage = "params" -> "resolve"
                [] stage \in {"tearDown", "cleanTest", "closeTest", "cleanWorker", "closeWorker"}
                                    -> "clean"
                [] OTHER            -> "idle"
  /\ fn' = IF stage = "params" THEN test ELSE None
  /\ need' = IF stage = "params" THEN Needed(test) ELSE {}
  /\ cur' = None /\ error' = "none" /\ threw' = FALSE

(* The function fn, or the set-up of its fixtures, is over: a hook of all    *)
(* tests goes on to tear down the test fixtures it used, a skip keeps the    *)
(* other hooks around a test from running, and after the test function come  *)
(* the hooks that follow it.                                                 *)
FunctionOver(how) ==
  \/ /\ fn \in Test
     /\ Go("after")
  \/ /\ fn \in AllHook
     /\ phase' = "clean" /\ left' = Registered("test") /\ error' = how
     /\ need' = {} /\ cur' = None
     /\ UNCHANGED <<at, suites, hooks, fn, threw>>
  \/ /\ fn \in Hook \ AllHook
     /\ phase' = "idle" /\ fn' = None /\ need' = {} /\ cur' = None
     /\ threw' = (threw \/ how # "none")
     /\ hooks' = IF how = "skip" THEN <<>> ELSE hooks
     /\ UNCHANGED <<at, suites, left, error>>

(* A callback of the user, or a step of the worker, comes to its end:        *)
(* _runWithTimeout.  The first failure decides the status of the test; an    *)
(* interrupted test does not time out.                                       *)
Failing(how) == IF status \in {"passed", "skipped"} THEN how ELSE status
CallbackEnds(how, slot) ==
  \/ how = "returns"   /\ UNCHANGED info
  \/ how = "throws"    /\ status' = Failing("failed") /\ UNCHANGED <<expected, interrupted, exhausted>>
  \/ /\ how = "skips"
     /\ status' = IF status = "passed" THEN "skipped" ELSE status
     /\ expected' = "skipped"
     /\ UNCHANGED <<interrupted, exhausted>>
  \/ /\ how = "timesOut"
     /\ status' = IF interrupted THEN status ELSE Failing("timedOut")
     /\ exhausted' = exhausted \cup {slot}
     /\ UNCHANGED <<expected, interrupted>>
ErrorOf(how) == CASE how = "returns" -> "none" [] how = "skips" -> "skip" [] OTHER -> "error"

(* All tests of the suite inherit a skip from its "beforeAll" hook.          *)
(* Mutation: the suites around it inherit the skip as well.                  *)
InheritOutwards(how) ==
  inherited' = IF how = "skips"
               THEN inherited \cup {SuitesOf[test][i] : i \in DOMAIN SuitesOf[test]}
               ELSE inherited
Inherit(how) ==
  inherited' = IF how = "skips" /\ at = "beforeAll"
               THEN inherited \cup {s \in active : \E i \in DOMAIN BeforeAll[s] : BeforeAll[s][i] = fn}
               ELSE inherited

(***************************************************************************)
(* Fixtures.                                                               *)
(***************************************************************************)
Failed(f) == inst[f] \in {"none", "failed"}

(* _setupInternal visits the dependencies in order, up to the first that has *)
(* failed, and becomes a user of each.                                       *)
UsedBy(f) ==
  {Deps[f][i] : i \in {k \in DOMAIN Deps[f] : /\ inst[Deps[f][k]] # "none"
                                              /\ \A j \in 1 .. k - 1 : ~Failed(Deps[f][j])}}

(* One iteration of the loop in resolveParametersForFunction: an instance is *)
(* reused whatever became of it; one with a failed dependency fails with no  *)
(* error of its own.  Declaration order decides between independent fixtures *)
(* and is left open.                                                         *)
SetUp(f) ==
  /\ phase = "resolve" /\ cur = None /\ f \in need /\ DependsOn(f) \cap need = {}
  /\ need' = need \ {f}
  /\ IF inst[f] # "none" THEN UNCHANGED <<cur, registry, made>>
     ELSE /\ usages' = [d \in Fixture |-> IF d = f THEN {}
                                         ELSE IF d \in UsedBy(f) THEN usages[d] \cup {f}
                                         ELSE usages[d]]
          /\ IF \E d \in DependsOn(f) : Failed(d)
             THEN inst' = [inst EXCEPT ![f] = "failed"] /\ UNCHANGED <<cur, made>>
             ELSE /\ inst' = [inst EXCEPT ![f] = "setup"]
                  /\ cur' = f
                  /\ made' = IF Scope[f] = "worker" THEN made \cup {f} ELSE made
  /\ UNCHANGED <<test, at, due, info, worker, called, lost>>
  /\ UNCHANGED <<suites, hooks, phase, fn, left, error, threw>>

(* The code of the fixture calls use(), throws, calls test.skip(), or has no *)
(* time left: then the worker leaves it running.                             *)
SetUpEnds(how) ==
  /\ phase = "resolve" /\ cur # None
  /\ CallbackEnds(how, SlotOf(cur)) /\ Inherit(how)
  /\ inst' = CASE how = "returns"             -> [inst EXCEPT ![cur] = "provided"]
               [] how \in {"throws", "skips"} -> [inst EXCEPT ![cur] = "failed"]
               [] how = "timesOut"            -> inst
  /\ IF how = "returns" THEN cur' = None /\ UNCHANGED <<at, suites, hooks, phase, fn, need, left, error, threw>>
     ELSE FunctionOver(ErrorOf(how))
  /\ UNCHANGED <<test, due, stopped, cleaned, active, usages, history>>

(* A fixture that was left running calls use() or throws after all.          *)
LateSetUp(f) ==
  /\ inst[f] = "setup" /\ f # cur
  /\ \E end \in {"provided", "failed"} : inst' = [inst EXCEPT ![f] = end]
  /\ UNCHANGED <<test, at, place, due, info, worker, usages, history>>

(* _collectFixturesInTeardownOrder: users first.                             *)
Removable == {f \in left : usages[f] \cap left = {}}

(* The finally block of Fixture.teardown.  Mutation: it forgets the usages.   *)
DropKeepingUsages(f) ==
  /\ left' = left \ {f}
  /\ inst' = [inst EXCEPT ![f] = "none"]
  /\ usages' = usages
Drop(f) ==
  /\ left' = left \ {f}
  /\ inst' = [inst EXCEPT ![f] = "none"]
  /\ usages' = [d \in Fixture |-> usages[d] \ {f}]

(* Only a fixture that was provided and has time left runs its teardown.     *)
TearDown(f) ==
  /\ phase = "clean" /\ cur = None /\ f \in Removable
  /\ IF inst[f] = "provided" /\ SlotOf(f) \notin exhausted
     THEN cur' = f /\ UNCHANGED <<left, registry, exhausted>>
     ELSE Drop(f) /\ exhausted' = exhausted \ {f} /\ UNCHANGED cur
  /\ UNCHANGED <<test, at, due, status, expected, interrupted, worker, history>>
  /\ UNCHANGED <<suites, hooks, phase, fn, need, error, threw>>

(* A teardown may throw, skip or run out of time as well; when the worker    *)
(* closes, where skips are not allowed, one is an error like any other.      *)
(* teardownScope keeps its first error, and _runAllHooksForSuite throws that *)
(* one from its finally, whatever the hook had thrown.                       *)
TearDownFails(how) ==
  error' = CASE error \in {"errorLater", "skipLater"} -> error
             [] how = "skips"                         -> "skipLater"
             [] OTHER                                 -> "errorLater"
TearDownEnds(how) ==
  /\ phase = "clean" /\ cur # None
  /\ how = "skips" => at \notin {"closeTest", "closeWorker"}
  /\ \E slots \in {exhausted \cup (IF how = "timesOut" THEN {SlotOf(cur)} ELSE {})} :
       exhausted' = slots \ {cur}
  /\ status' = CASE how = "returns" -> status
                 [] how = "throws"  -> Failing("failed")
                 [] how = "skips"   -> IF status = "passed" THEN "skipped" ELSE status
                 [] OTHER           -> IF interrupted THEN status ELSE Failing("timedOut")
  /\ expected' = IF how = "skips" THEN "skipped" ELSE expected
  /\ IF how = "returns" THEN UNCHANGED error ELSE TearDownFails(how)
  /\ Drop(cur) /\ cur' = None
  /\ UNCHANGED <<test, at, due, interrupted, worker, history>>
  /\ UNCHANGED <<suites, hooks, phase, fn, need, threw>>

(* The end of teardownScope, in a hook or as a stage of its own.             *)
AfterCleaning == CASE at = "tearDown"    -> "afterAll"
                   [] at = "cleanTest"   -> "cleanAll"
                   [] at = "cleanWorker" -> "end"
                   [] at = "closeTest"   -> "closeWorker"
                   [] OTHER              -> "closed"
SkipsOthers == error \in {"skip", "skipLater"} /\ at = "beforeAll"
Cleaned ==
  /\ phase = "clean" /\ cur = None /\ left = {}
  /\ IF fn # None
     THEN /\ phase' = "idle" /\ fn' = None /\ error' = "none"
          /\ threw' = (threw \/ error # "none")
          /\ hooks' = IF SkipsOthers THEN <<>> ELSE hooks
          /\ lost' = IF SkipsOthers /\ error = "skipLater"
                     THEN lost \cup {hooks[i] : i \in DOMAIN hooks}
                     ELSE lost
          /\ UNCHANGED <<at, suites, need, left, cur>>
     ELSE Go(AfterCleaning) /\ UNCHANGED lost
  /\ UNCHANGED <<test, due, info, worker, registry, called, made>>

(***************************************************************************)
(* Hooks and tests.                                                        *)
(***************************************************************************)
(* resolveParametersAndRunFunction, and the same for the test function: it   *)
(* is called unless one of the fixtures it names has failed.                 *)
Call ==
  /\ phase = "resolve" /\ cur = None /\ need = {}
  /\ IF \E f \in Params[fn] : Failed(f)
     THEN FunctionOver("none") /\ UNCHANGED called
     ELSE /\ phase' = "call" /\ called' = called \cup {fn}
          /\ UNCHANGED <<at, suites, hooks, fn, need, left, cur, error, threw>>
  /\ UNCHANGED <<test, due, info, worker, registry, made, lost>>

CallEnds(how) ==
  /\ phase = "call"
  /\ CallbackEnds(how, StageSlot) /\ Inherit(how)
  /\ FunctionOver(ErrorOf(how))
  /\ UNCHANGED <<test, due, stopped, cleaned, active, registry, history>>

(* The next hook: one for all tests has a time slot to itself; one around a  *)
(* test is passed over when there is no time left for it.                    *)
RunHook ==
  /\ phase = "idle" /\ hooks # <<>>
  /\ hooks' = Tail(hooks)
  /\ IF Head(hooks) \notin AllHook /\ StageSlot \in exhausted
     THEN UNCHANGED <<phase, fn, need, exhausted>>
     ELSE /\ fn' = Head(hooks) /\ phase' = "resolve" /\ need' = Needed(Head(hooks))
          /\ exhausted' = IF Head(hooks) \in AllHook THEN exhausted \ {"hook"} ELSE exhausted
  /\ UNCHANGED <<test, at, due, status, expected, interrupted, worker, registry, history>>
  /\ UNCHANGED <<suites, left, cur, error, threw>>

(* _runBeforeAllHooksForSuite                                                *)
EnterSuite ==
  /\ at = "beforeAll" /\ phase = "idle" /\ hooks = <<>> /\ suites # <<>> /\ ~threw
  /\ suites' = Tail(suites)
  /\ active' = active \cup {Head(suites)}
  /\ hooks' = IF Head(suites) \in active THEN <<>> ELSE BeforeAll[Head(suites)]
  /\ UNCHANGED <<test, at, due, info, stopped, cleaned, inherited, registry, history>>
  /\ UNCHANGED <<phase, fn, need, left, cur, error, threw>>

(* _runAfterAllHooksForSuite: unless the next test is in the suite as well,  *)
(* and in any case when the test has failed or the worker stops.             *)
Leaves(s) == s \notin EnclosingNext \/ IsFailure \/ at = "cleanAll"
LeaveSuite ==
  /\ at \in {"afterAll", "cleanAll"} /\ phase = "idle" /\ hooks = <<>> /\ suites # <<>>
  /\ suites' = Tail(suites)
  /\ LET s == Head(suites)
     IN  IF s \in active /\ Leaves(s)
         THEN active' = active \ {s} /\ inherited' = inherited \ {s} /\ hooks' = AfterAll[s]
         ELSE UNCHANGED <<active, inherited, hooks>>
  /\ UNCHANGED <<test, at, due, info, stopped, cleaned, registry, history>>
  /\ UNCHANGED <<phase, fn, need, left, cur, error, threw>>

(***************************************************************************)
(* The stages of a test.                                                   *)
(***************************************************************************)
(* The loop of runTestGroup and the start of _runTest.  A skipped test takes *)
(* the fast path unless it has to clean up.                                  *)
IsSkipped(t) == \/ Expect[t] = "skipped"
                \/ \E i \in DOMAIN SuitesOf[t] : SuitesOf[t][i] \in inherited
EnclosingAfter(t) == IF t = LastTest THEN {}
                     ELSE {SuitesOf[t + 1][i] : i \in DOMAIN SuitesOf[t + 1]}
(* Mutation: a skipped test never has to clean up.                           *)
NothingToRun(t) == t \notin Test
HasAfterAllToRun(t) ==
  \E i \in DOMAIN SuitesOf[t] : /\ SuitesOf[t][i] \in active \ EnclosingAfter(t)
                                /\ AfterAll[SuitesOf[t][i]] # <<>>
BeginTest ==
  /\ at \in {"between", "next"} /\ test < LastTest /\ ~(stopped /\ cleaned)
  /\ test' = test + 1 /\ due' = FALSE /\ interrupted' = FALSE /\ called' = called \cap AllHook
  /\ exhausted' = exhausted \cap Fixture
  /\ expected' = IF IsSkipped(test + 1) THEN "skipped" ELSE Expect[test + 1]
  /\ IF IsSkipped(test + 1) /\ test + 1 < LastTest /\ ~HasAfterAllToRun(test + 1)
     THEN at' = "next" /\ status' = "skipped"
     ELSE at' = "begin" /\ status' = "passed"
  /\ UNCHANGED <<place, worker, registry, made, lost>>

(* A stopped worker, and a last test that is skipped, only clean up.         *)
(* Mutation: the stop is not asked for again.                                *)
TracingStartedAnyway ==
  /\ at = "begin"
  /\ IF expected = "skipped"
     THEN status' = "skipped" /\ Go("after")
     ELSE UNCHANGED status /\ Go("folders")
  /\ UNCHANGED <<test, due, expected, interrupted, exhausted, worker, registry, history>>
TracingStarted ==
  /\ at = "begin"
  /\ IF stopped \/ expected = "skipped"
     THEN status' = "skipped" /\ Go("after")
     ELSE UNCHANGED status /\ Go("folders")
  /\ UNCHANGED <<test, due, expected, interrupted, exhausted, worker, registry, history>>

FoldersRemoved ==
  /\ at = "folders" /\ Go("beforeAll")
  /\ UNCHANGED <<test, due, info, worker, registry, history>>

(* An error in a "beforeAll" hook, thrown when the hooks of its suite are    *)
(* over, or in a "beforeEach" hook, leads straight to the after hooks.       *)
BeforeAllDone ==
  /\ at = "beforeAll" /\ phase = "idle" /\ hooks = <<>>
  /\ \/ threw /\ Go("after") /\ UNCHANGED due
     \/ ~threw /\ suites = <<>> /\ Go("beforeEach") /\ due' = TRUE
  /\ UNCHANGED <<test, info, worker, registry, history>>

BeforeEachDone ==
  /\ at = "beforeEach" /\ phase = "idle" /\ hooks = <<>>
  /\ Go(IF threw THEN "after" ELSE "params")
  /\ UNCHANGED <<test, due, info, worker, registry, history>>

(* _didFinishTestFunction, whose callbacks collect artifacts.                *)
TestFunctionFinished(how) ==
  /\ at = "after" /\ how # "skips"
  /\ CallbackEnds(how, "after") /\ Go("afterEach")
  /\ UNCHANGED <<test, due, worker, registry, history>>

AfterEachDone ==
  /\ at = "afterEach" /\ phase = "idle" /\ hooks = <<>> /\ Go("tearDown")
  /\ UNCHANGED <<test, due, info, worker, registry, history>>

(* A failure stops the worker, and a stopped worker cleans up everything.    *)
AfterAllDone ==
  /\ at = "afterAll" /\ phase = "idle" /\ hooks = <<>> /\ suites = <<>>
  /\ stopped' = (stopped \/ IsFailure)
  /\ cleaned' = (cleaned \/ stopped')
  /\ Go(IF stopped' THEN "cleanTest" ELSE "end")
  /\ UNCHANGED <<test, due, info, active, inherited, registry, history>>

CleanAllDone ==
  /\ at = "cleanAll" /\ phase = "idle" /\ hooks = <<>> /\ suites = <<>> /\ Go("cleanWorker")
  /\ UNCHANGED <<test, due, info, worker, registry, history>>

(* The trace is saved and the test reported: testEnd.                        *)
EndTest ==
  /\ at = "end" /\ Go("between")
  /\ UNCHANGED <<test, due, info, worker, registry, history>>

(* Mutation: the loop does not break after the full cleanup.                 *)
GroupDoneAtLast ==
  /\ at \in {"between", "next"} /\ test = LastTest /\ Go("done")
  /\ UNCHANGED <<test, due, info, worker, registry, history>>
GroupDone ==
  /\ at \in {"between", "next"} /\ Go("done")
  /\ \/ test = LastTest
     \/ stopped /\ cleaned
  /\ UNCHANGED <<test, due, info, worker, registry, history>>

(***************************************************************************)
(* Stopping.                                                               *)
(***************************************************************************)
(* Only here does the worker wait for anything but its own code.             *)
Awaits == cur # None \/ phase = "call" \/ at \in {"begin", "folders", "after", "end"}
Closing == at \in {"between", "next", "done", "closeTest", "closeWorker", "closed"}

(* TimeoutManager.interrupt() ends what runs within a time slot; its code    *)
(* goes on without anybody waiting for it.  Folders are removed outside of   *)
(* any slot, so that the test runs to its end.                               *)
AbortRunning ==
  \/ phase \in {"resolve", "call"} /\ FunctionOver("error") /\ UNCHANGED <<registry, exhausted>>
  \/ /\ phase = "clean"
     /\ Drop(cur) /\ exhausted' = exhausted \ {cur} /\ cur' = None
     /\ TearDownFails("timesOut")
     /\ UNCHANGED <<at, suites, hooks, phase, fn, need, threw>>
  \/ /\ at \in {"begin", "after"} /\ Go(IF at = "begin" THEN "after" ELSE "afterEach")
     /\ UNCHANGED <<registry, exhausted>>
  \/ at \in {"folders", "end"} /\ UNCHANGED <<at, place, registry, exhausted>>

(* _stop(): the dispatcher stops the run, or an error that belongs to no     *)
(* test is caught between two tests.                                         *)
Stop ==
  /\ ~stopped /\ stopped' = TRUE
  /\ \/ /\ at = "between" /\ UNCHANGED <<at, place, info, registry>>
     \/ /\ Awaits /\ ~Closing
        /\ interrupted' = TRUE
        /\ status' = IF status = "passed" THEN "interrupted" ELSE status
        /\ AbortRunning /\ UNCHANGED expected
  /\ UNCHANGED <<test, due, cleaned, active, inherited, history>>

(* unhandledError(): the worker stops, unless the error is a failed expect() *)
(* in a test that is expected to fail.                                       *)
UnhandledError ==
  /\ Awaits /\ ~Closing
  /\ status' = Failing("failed")
  /\ \/ /\ stopped \/ expected = "failed"
        /\ UNCHANGED <<at, place, interrupted, exhausted, stopped, registry>>
     \/ ~stopped /\ stopped' = TRUE /\ interrupted' = TRUE /\ AbortRunning
  /\ UNCHANGED <<test, due, expected, cleaned, active, inherited, history>>

(* gracefullyClose(): waits for the group and tears down what is left.       *)
Close ==
  /\ at = "done" /\ Go("closeTest")
  /\ stopped' = TRUE /\ status' = "passed" /\ interrupted' = FALSE
  /\ exhausted' = exhausted \cap Fixture
  /\ UNCHANGED <<test, due, expected, cleaned, active, inherited, registry, history>>

Ending == {"returns", "throws", "skips", "timesOut"}

Init ==
  /\ test = 0 /\ at = "between" /\ due = FALSE
  /\ suites = <<>> /\ hooks = <<>> /\ phase = "idle" /\ fn = None
  /\ need = {} /\ left = {} /\ cur = None /\ error = "none" /\ threw = FALSE
  /\ status = "skipped" /\ expected = "skipped" /\ interrupted = FALSE /\ exhausted = {}
  /\ stopped = FALSE /\ cleaned = FALSE /\ active = {} /\ inherited = {}
  /\ inst = [f \in Fixture |-> "none"] /\ usages = [f \in Fixture |-> {}]
  /\ called = {} /\ made = {} /\ lost = {}

FixtureStep ==
  \/ \E f \in Fixture : SetUp(f) \/ TearDown(f)
  \/ \E how \in Ending : SetUpEnds(how) \/ TearDownEnds(how)
  \/ Cleaned
HookStep ==
  \/ RunHook \/ Call \/ EnterSuite \/ LeaveSuite
  \/ \E how \in Ending : CallEnds(how)
StageStep ==
  \/ BeginTest \/ TracingStarted \/ FoldersRemoved \/ BeforeAllDone \/ BeforeEachDone
  \/ AfterEachDone \/ AfterAllDone \/ CleanAllDone \/ EndTest \/ GroupDone \/ Close
  \/ \E how \in Ending : TestFunctionFinished(how)
Step == FixtureStep \/ HookStep \/ StageStep
Next == Step \/ Stop \/ UnhandledError \/ \E f \in Fixture : LateSetUp(f)

(* Every callback ends, or its time slot does, and the process is closed     *)
(* when the run is over.  Nothing has to stop the worker.                    *)
Fairness == WF_vars(Step)
Spec == Init /\ [][Next]_vars /\ Fairness

(***************************************************************************)
(* Properties.                                                             *)
(***************************************************************************)
Stage == {"between", "next", "begin", "folders", "beforeAll", "beforeEach", "params", "after",
          "afterEach", "tearDown", "afterAll", "cleanTest", "cleanAll", "cleanWorker", "end",
          "done", "closeTest", "closeWorker", "closed"}

(* Every variable has its type.                                              *)
TypeOK ==
  /\ test \in 0 .. LastTest /\ at \in Stage /\ due \in BOOLEAN
  /\ suites \in Seq(Suite) /\ hooks \in Seq(Hook)
  /\ phase \in {"idle", "resolve", "call", "clean"}
  /\ fn \in Hook \cup Test \cup {None} /\ cur \in Fixture \cup {None}
  /\ need \subseteq Fixture /\ left \subseteq Fixture
  /\ error \in {"none", "error", "skip", "errorLater", "skipLater"} /\ threw \in BOOLEAN
  /\ status \in {"passed", "failed", "timedOut", "skipped", "interrupted"}
  /\ expected \in {"passed", "failed", "skipped"}
  /\ interrupted \in BOOLEAN
  /\ exhausted \subseteq Fixture \cup {"test", "after", "hook", "cleanup", "close"}
  /\ stopped \in BOOLEAN /\ cleaned \in BOOLEAN
  /\ active \subseteq Suite /\ inherited \subseteq active
  /\ inst \in [Fixture -> {"none", "setup", "provided", "failed"}]
  /\ usages \in [Fixture -> SUBSET Fixture]
  /\ called \subseteq Hook \cup Test /\ made \subseteq Fixture /\ lost \subseteq Hook

(* The "fixture integrity" of fixtureRunner.ts:153: what uses a fixture is   *)
(* torn down before it, whatever failed or ran out of time on the way.       *)
FixtureIntegrity ==
  /\ \A f \in Fixture : inst[f] = "none" => usages[f] = {}
  /\ phase = "clean" /\ cur # None => usages[cur] = {}

(* No test fixture is left between two tests ("Did not teardown test scope", *)
(* fixtureRunner.ts:180); after the full cleanup and at the end none at all. *)
NothingIsLeftBehind ==
  /\ at \in {"between", "next", "begin", "folders", "done"} => Registered("test") = {}
  /\ \/ at = "closed"
     \/ cleaned /\ at \in {"end", "between", "done"}
     => Registered("test") \cup Registered("worker") = {}

(* Fixtures are torn down in order and completely.                           *)
FixturesAreCleaned == FixtureIntegrity /\ NothingIsLeftBehind

(* A suite that had its "beforeAll" hooks still has a test to come that will *)
(* run its "afterAll" hooks, if it has any (workerMain.ts:60): skipped tests *)
(* on the fast path, failures and stops lose none.                           *)
SuitesAreLeft ==
  at \in {"between", "next"} => \A s \in active : AfterAll[s] # <<>> => s \in EnclosingNext

(* What cannot be helped once an earlier test that was declared to fail has  *)
(* ended as expected: a worker fixture that failed in it stays as it is, and *)
(* a "beforeAll" hook whose fixtures failed in it is not called again.       *)
WorkerFixtureFailed(h) == \E f \in Needed(h) : Scope[f] = "worker" /\ inst[f] = "failed"
FailedEarlier(s, h) ==
  Needed(h) # {} /\ \E t \in 1 .. test - 1 :
    Expect[t] = "failed" /\ \E i \in DOMAIN SuitesOf[t] : SuitesOf[t][i] = s

(* A "beforeAll" hook of a suite is called before its tests, or it has       *)
(* failed before it was called.                                              *)
BeforeAllDealtWith(s, h) ==
  h \in called \/ WorkerFixtureFailed(h) \/ FailedEarlier(s, h)
SuitesOfTest(t) == {SuitesOf[t][i] : i \in DOMAIN SuitesOf[t]}

(* When a test function is called all its fixtures are there, but for worker *)
(* fixtures that ran out of time in such a test, and all hooks before it     *)
(* have been called, but for "beforeAll" hooks that were lost to a skip in   *)
(* the teardown after another one, which no test inherits: an error there    *)
(* loses none.                                                               *)
TestRunsPrepared ==
  phase = "call" /\ fn \in Test =>
    /\ \A f \in Params[fn] : inst[f] = "provided" \/ (Scope[f] = "worker" /\ f \in exhausted)
    /\ SuitesOfTest(fn) \subseteq active
    /\ \A i \in DOMAIN BeforeEach[fn] :
         BeforeEach[fn][i] \in called \/ WorkerFixtureFailed(BeforeEach[fn][i])
    /\ \A s \in SuitesOfTest(fn) : \A i \in DOMAIN BeforeAll[s] :
         BeforeAll[s][i] \in lost \/ BeforeAllDealtWith(s, BeforeAll[s][i])

(* "Once started with beforeEach, we must run all afterEach hooks as well"   *)
(* (workerMain.ts:399): unless there is no time left, a hook skips, or a     *)
(* fixture it needs fails, runs out of time or is interrupted.               *)
AfterEachFollows ==
  at = "tearDown" /\ (\E i \in DOMAIN BeforeEach[test] : BeforeEach[test][i] \in called) =>
    \A i \in DOMAIN AfterEach[test] :
      \/ AfterEach[test][i] \in called
      \/ "after" \in exhausted \/ expected = "skipped"
      \/ interrupted /\ Needed(AfterEach[test][i]) # {}
      \/ \E f \in Needed(AfterEach[test][i]) : Failed(f) \/ f \in exhausted

(* What comes before has its counterpart after: no afterAll hook of a suite   *)
(* and no afterEach hook of a test is lost.                                  *)
AfterHooksFollow == SuitesAreLeft /\ AfterEachFollows

(* A test runs between all its hooks, however many of them fail, skip or hang. *)
HooksSurroundTests == TestRunsPrepared /\ AfterHooksFollow

(* A test that ends otherwise than expected is the last this worker runs: a  *)
(* stopped worker calls no other test function.                              *)
FailingTestIsLast ==
  /\ at \in {"between", "done"} /\ IsFailure => stopped
  /\ phase = "call" /\ fn \in Test /\ stopped => interrupted

(* A worker fixture is set up once per worker (docs/src/test-fixtures-js.md),*)
(* and never again after its teardown.                                       *)
WorkerFixtureOnce ==
  [][\A f \in Fixture : Scope[f] = "worker" /\ inst[f] = "none" /\ inst'[f] = "setup"
       => f \notin made]_vars

(* Whatever fails, hangs or is stopped, the worker comes to its end.         *)
WorkerCloses == <>(at = "closed")

(* Contradicted.  A test is reported as passed when it has run: "passed"     *)
(* means that everything went as expected.                                   *)
PassedMeansTestRan ==
  at = "between" /\ test # 0 /\ status = "passed" /\ expected = "passed" => test \in called
=============================================================================
