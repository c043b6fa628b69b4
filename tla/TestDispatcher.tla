--------------------------- MODULE TestDispatcher ---------------------------
(***************************************************************************)
(* The scheduler of the test runner: class Dispatcher in                   *)
(* packages/playwright/src/runner/dispatcher.ts and the worker processes   *)
(* it owns (runner/processHost.ts, runner/workerHost.ts).                  *)
(*                                                                         *)
(* A job is a group of tests to run in one worker; how a job accounts for  *)
(* its tests is the subject of module TestJob.  Here a job ends with or    *)
(* without a failure and leaves at most two jobs behind: the tests it did  *)
(* not reach, and the retries.                                             *)
(*                                                                         *)
(* Everything the dispatcher does between two awaits is one turn of the    *)
(* event loop.  _scheduleJobs is a loop inside such a turn: while          *)
(* "scheduling" is true, only the iterations of that loop are possible.    *)
(***************************************************************************)
EXTENDS Integers, Sequences, FiniteSets

CONSTANTS
  Slot,           (* The worker slots, as many as config.workers.            *)
  Group,          (* The test groups passed to run().                        *)
  Hash,           (* Worker hashes.                                          *)
  Project,        (* Project ids.                                            *)
  Lock,           (* Lock names.                                             *)
  HashOf,         (* TestGroup.workerHash                                    *)
  ProjectOf,      (* TestGroup.projectId                                     *)
  LocksOf,        (* TestGroup.locks                                         *)
  LimitOf,        (* _workerLimitPerProjectId; 0 where there is no limit     *)
  Skipped,        (* Groups all of whose tests are expected to be skipped.   *)
  Budget,         (* How often each group can still be queued: its tests and *)
                  (* their retries bound it.                                 *)
  Isolated,       (* retryStrategy is "isolated" and not "immediate".        *)
  Interruptible,  (* stop() may come before the end: maxFailures, Ctrl+C.    *)
  NoJob           (* undefined                                               *)

ASSUME SlotAssumption == Slot # {} /\ IsFiniteSet(Slot)
ASSUME GroupAssumption ==
  /\ HashOf \in [Group -> Hash]
  /\ ProjectOf \in [Group -> Project]
  /\ LocksOf \in [Group -> SUBSET Lock]
  /\ LimitOf \in [Project -> Nat]
  /\ Skipped \subseteq Group
  /\ Group # {} /\ IsFiniteSet(Group)
  /\ Hash # {}
  /\ Budget \in [Group -> Nat]
ASSUME FlagAssumption == Isolated \in BOOLEAN /\ Interruptible \in BOOLEAN

(* "isolated" is membership in _isolatedJobs; "retried" marks the jobs that  *)
(* stem from an isolated one, which the code does not distinguish.           *)
Job == [group : Group, isolated : BOOLEAN, retried : BOOLEAN, skipped : BOOLEAN, budget : Nat]

ASSUME NoJobAssumption == NoJob \notin Job

VARIABLES
  queue,      (* _queue                                                      *)
  job,        (* jobDispatcher.job of each slot                              *)
  phase,      (* where _runJobInWorker of the slot is: "free", "skipped" to   *)
              (* return at once, "stopping", "starting" or "running"         *)
  worker,     (* the WorkerHost of each slot and its process                 *)
  count,      (* _queuedOrRunningHashCount                                   *)
  stopped,    (* _isStopped                                                  *)
  finished,   (* _finished                                                   *)
  scheduling  (* inside _scheduleJobs                                        *)

vars == <<queue, job, phase, worker, count, stopped, finished, scheduling>>

(* process: "none" before the host exists and after its 'exit' event,         *)
(* "starting" until 'ready', "ready", "exited" from the exit of the process   *)
(* until the host emits 'exit', after the artifacts folder is removed.        *)
Worker == [process : {"none", "starting", "ready", "exited"}, hash : Hash,
           didSendStop : BOOLEAN, didFail : BOOLEAN]

TypeOK ==
  /\ queue \in Seq(Job)
  /\ job \in [Slot -> Job \cup {NoJob}]
  /\ phase \in [Slot -> {"free", "skipped", "stopping", "starting", "running"}]
  /\ worker \in [Slot -> Worker]
  /\ count \in [Hash -> Int]
  /\ stopped \in BOOLEAN
  /\ finished \in BOOLEAN
  /\ scheduling \in BOOLEAN
  /\ \A s \in Slot : phase[s] = "free" <=> job[s] = NoJob

(***************************************************************************)
(* Choosing a job and a slot.                                              *)
(***************************************************************************)
Busy == {s \in Slot : job[s] # NoJob}

RunningIn(project) == {s \in Busy : ProjectOf[job[s].group] = project}

(* Mutation: retries do not wait.                                            *)
CanRunEagerly(j) ==
  /\ \A s \in Busy : LocksOf[j.group] \cap LocksOf[job[s].group] = {}
  /\ LimitOf[ProjectOf[j.group]] > 0 =>
       Cardinality(RunningIn(ProjectOf[j.group])) < LimitOf[ProjectOf[j.group]]

CanRun(j) ==
  /\ j.isolated => Busy = {}
  /\ \A s \in Busy : LocksOf[j.group] \cap LocksOf[job[s].group] = {}
  /\ LimitOf[ProjectOf[j.group]] > 0 =>
       Cardinality(RunningIn(ProjectOf[j.group])) < LimitOf[ProjectOf[j.group]]

IsFirstJobToRun(i) ==
  /\ CanRun(queue[i])
  /\ \A k \in 1..(i - 1) : ~CanRun(queue[k])

CanReuse(s, hash) ==
  worker[s].process # "none" /\ worker[s].hash = hash /\ ~worker[s].didSendStop

(* A free slot whose worker has the hash, or else any free slot.            *)
IsSlotFor(s, hash) ==
  /\ s \notin Busy
  /\ (\E r \in Slot \ Busy : CanReuse(r, hash)) => CanReuse(s, hash)

(* splice(i, 1)                                                             *)
Without(q, i) == [k \in 1..(Len(q) - 1) |-> IF k < i THEN q[k] ELSE q[k + 1]]

(***************************************************************************)
(* Workers.                                                                *)
(***************************************************************************)
NoWorker(w)  == [w EXCEPT !.process = "none", !.didSendStop = FALSE, !.didFail = FALSE]
Created(hash) == [process |-> "starting", hash |-> hash, didSendStop |-> FALSE, didFail |-> FALSE]

(* ProcessHost.stop: nothing is sent to a process that is known to be gone. *)
Stopping(w) == IF w.process \in {"starting", "ready"} THEN [w EXCEPT !.didSendStop = TRUE] ELSE w

(* Another turn can begin: the loop is over and no job is about to return.  *)
Idle == ~scheduling /\ \A s \in Slot : phase[s] # "skipped"

(* Mutation: the stop signal is not looked at.                               *)
CheckFinishedDeaf(q, busy) == finished \/ (q = <<>> /\ busy = {})

(* _checkFinished, with the queue and the busy slots of the moment.         *)
CheckFinished(q, busy) == finished \/ ((q = <<>> \/ stopped) /\ busy = {})

(* Mutations: the slot is not cleared; nothing takes the place of the job.   *)
KeepSlot(s, q) ==
  /\ phase' = [phase EXCEPT ![s] = "free"]
  /\ queue' = q
  /\ finished' = CheckFinished(q, Busy \ {s})
  /\ scheduling' = TRUE
  /\ UNCHANGED job
ReleaseSlotOnly(s, q) ==
  /\ job' = [job EXCEPT ![s] = NoJob]
  /\ phase' = [phase EXCEPT ![s] = "free"]
  /\ queue' = q
  /\ finished' = CheckFinished(q, Busy \ {s})
  /\ UNCHANGED scheduling

(* Steps 5 and 6 of _scheduleJob: the slot is released, more is scheduled.  *)
ReleaseSlot(s, q) ==
  /\ job' = [job EXCEPT ![s] = NoJob]
  /\ phase' = [phase EXCEPT ![s] = "free"]
  /\ queue' = q
  /\ finished' = CheckFinished(q, Busy \ {s})
  /\ scheduling' = TRUE

(***************************************************************************)
(* run(): the jobs are queued in some order, and the first are scheduled.   *)
(* A run that begins after maxFailures was reached is stopped at once.      *)
(***************************************************************************)
InitialJob(g) ==
  [group |-> g, isolated |-> FALSE, retried |-> FALSE, skipped |-> g \in Skipped, budget |-> Budget[g]]

Init ==
  /\ queue \in {q \in [1..Cardinality(Group) -> {InitialJob(g) : g \in Group}] :
                  \A g \in Group : \E i \in DOMAIN q : q[i] = InitialJob(g)}
  /\ job = [s \in Slot |-> NoJob]
  /\ phase = [s \in Slot |-> "free"]
  /\ worker = [s \in Slot |-> NoWorker(Created(CHOOSE h \in Hash : TRUE))]
  /\ count = [h \in Hash |-> Cardinality({g \in Group : HashOf[g] = h})]
  /\ stopped \in (IF Interruptible THEN BOOLEAN ELSE {FALSE})
  /\ finished = stopped
  /\ scheduling = TRUE

(***************************************************************************)
(* One iteration of _scheduleJobs: a job and a slot are claimed, and        *)
(* _runJobInWorker runs up to its first await.                              *)
(***************************************************************************)
Claim(i, s) ==
  /\ scheduling
  /\ ~stopped
  /\ IsFirstJobToRun(i)
  /\ IsSlotFor(s, HashOf[queue[i].group])
  /\ queue' = Without(queue, i)
  /\ job' = [job EXCEPT ![s] = queue[i]]
  /\ UNCHANGED <<count, stopped, finished, scheduling>>

SkipWholeJob(i, s) ==
  /\ Claim(i, s)
  /\ queue[i].skipped
  /\ phase' = [phase EXCEPT ![s] = "skipped"]
  /\ UNCHANGED worker

RunInSameWorker(i, s) ==
  /\ Claim(i, s)
  /\ ~queue[i].skipped
  /\ CanReuse(s, HashOf[queue[i].group])
  /\ phase' = [phase EXCEPT ![s] = "running"]
  /\ UNCHANGED worker

StartWorker(i, s) ==
  /\ Claim(i, s)
  /\ ~queue[i].skipped
  /\ worker[s].process = "none"
  /\ phase' = [phase EXCEPT ![s] = "starting"]
  /\ worker' = [worker EXCEPT ![s] = Created(HashOf[queue[i].group])]

RestartWorker(i, s) ==
  /\ Claim(i, s)
  /\ ~queue[i].skipped
  /\ worker[s].process # "none"
  /\ ~CanReuse(s, HashOf[queue[i].group])
  /\ phase' = [phase EXCEPT ![s] = "stopping"]
  /\ worker' = [worker EXCEPT ![s] = Stopping(worker[s])]

NothingToSchedule ==
  /\ scheduling
  /\ stopped \/ Busy = Slot \/ \A i \in DOMAIN queue : ~CanRun(queue[i])
  /\ scheduling' = FALSE
  /\ UNCHANGED <<queue, job, phase, worker, count, stopped, finished>>

(* The promise of a job that was skipped resolves without another event.    *)
SkippedJobReturns(s) ==
  /\ ~scheduling
  /\ phase[s] = "skipped"
  /\ ReleaseSlot(s, queue)
  /\ UNCHANGED <<worker, count, stopped>>

(***************************************************************************)
(* A job is over: steps 3 to 6.                                             *)
(***************************************************************************)
Leftover(j, isolated, skipped, budget) ==
  [group |-> j.group, isolated |-> isolated, retried |-> j.retried \/ isolated,
   skipped |-> skipped, budget |-> budget]

(* What a failed job leaves: <<remainingJob, isolatedRetriesJob>>, each a    *)
(* queue of at most one job.  Together they share what is left of the budget. *)
Queued(j, isolated) ==
  UNION {{<<Leftover(j, isolated, skipped, n)>> : n \in 0..(j.budget - 1)} : skipped \in BOOLEAN}
Remaining(j) == {<<>>} \cup Queued(j, FALSE)
Retries(j)   == {<<>>} \cup IF Isolated THEN Queued(j, TRUE) ELSE {}
Weight(q) == IF q = <<>> THEN 0 ELSE q[1].budget + 1

Leftovers(j) ==
  {left \in Remaining(j) \X Retries(j) : Weight(left[1]) + Weight(left[2]) \in {0, j.budget}}

(* _isWorkerRedundant, when the job that is over is no longer counted.      *)
IsWorkerRedundant(h) ==
  Cardinality({r \in Slot : CanReuse(r, h)}) > count[h] - 1

(* Mutation: the jobs that are queued again are not counted.                 *)
JobOverUncounted(s, w, failed, left) ==
  /\ worker' = [worker EXCEPT ![s] = IF failed THEN [Stopping(w) EXCEPT !.didFail = TRUE] ELSE w]
  /\ count' = [count EXCEPT ![HashOf[job[s].group]] = @ - 1]
  /\ ReleaseSlot(s, IF stopped THEN queue ELSE left[1] \o queue \o left[2])
  /\ UNCHANGED stopped

(* w is the worker as the event that ended the job leaves it.               *)
JobOver(s, w, failed, left) ==
  LET h == HashOf[job[s].group]
      requeued == IF stopped THEN << <<>>, <<>> >> ELSE left
  IN  /\ worker' = [worker EXCEPT ![s] =
                      IF w.process = "none" THEN w
                      ELSE IF failed THEN [Stopping(w) EXCEPT !.didFail = TRUE]
                      ELSE IF IsWorkerRedundant(h) THEN Stopping(w) ELSE w]
      /\ count' = [count EXCEPT ![h] = @ - 1 + Len(requeued[1]) + Len(requeued[2])]
      /\ ReleaseSlot(s, requeued[1] \o queue \o requeued[2])
      /\ UNCHANGED stopped

JobDone(s) ==
  /\ Idle
  /\ phase[s] = "running"
  /\ worker[s].process = "ready"
  /\ \/ JobOver(s, worker[s], FALSE, << <<>>, <<>> >>)
     \/ \E left \in Leftovers(job[s]) : JobOver(s, worker[s], TRUE, left)

(***************************************************************************)
(* Worker processes.                                                        *)
(***************************************************************************)
(* Mutation: "Check stopped signal after async hop" is missing.              *)
WorkerReadyUnchecked(s) ==
  /\ Idle
  /\ worker[s].process = "starting"
  /\ worker' = [worker EXCEPT ![s].process = "ready"]
  /\ phase' = [phase EXCEPT ![s] = "running"]
  /\ UNCHANGED <<queue, job, finished, scheduling, count, stopped>>

WorkerReady(s) ==
  /\ Idle
  /\ worker[s].process = "starting"
  /\ worker' = [worker EXCEPT ![s].process = "ready"]
  /\ IF stopped
     THEN ReleaseSlot(s, queue)
     ELSE /\ phase' = [phase EXCEPT ![s] = "running"]
          /\ UNCHANGED <<queue, job, finished, scheduling>>
  /\ UNCHANGED <<count, stopped>>

(* The process is gone.  Before 'ready' this fails the job at once; later   *)
(* on nobody notices until the host emits 'exit'.                           *)
ProcessExited(s) ==
  LET gone == [worker[s] EXCEPT !.process = "exited"]
  IN  /\ Idle
      /\ \/ /\ worker[s].process = "starting" /\ ~stopped
            /\ \E left \in Leftovers(job[s]) : JobOver(s, gone, TRUE, left)
         \/ /\ worker[s].process = "starting" /\ stopped
            /\ worker' = [worker EXCEPT ![s] = gone]
            /\ ReleaseSlot(s, queue)
            /\ UNCHANGED <<count, stopped>>
         \/ /\ worker[s].process = "ready"
            /\ worker' = [worker EXCEPT ![s] = gone]
            /\ UNCHANGED <<queue, job, phase, count, stopped, finished, scheduling>>

(* The 'exit' event of the host.  An exit that was asked for is no error.   *)
WorkerExited(s) ==
  LET none == NoWorker(worker[s])
  IN  /\ Idle
      /\ worker[s].process = "exited"
      /\ \/ /\ phase[s] = "running"
            /\ \/ worker[s].didSendStop /\ JobOver(s, none, FALSE, << <<>>, <<>> >>)
               \/ \E left \in Leftovers(job[s]) : JobOver(s, none, TRUE, left)
         \/ /\ phase[s] = "stopping" /\ stopped
            /\ worker' = [worker EXCEPT ![s] = none]
            /\ ReleaseSlot(s, queue)
            /\ UNCHANGED <<count, stopped>>
         \/ /\ phase[s] = "stopping" /\ ~stopped
            /\ worker' = [worker EXCEPT ![s] = Created(HashOf[job[s].group])]
            /\ phase' = [phase EXCEPT ![s] = "starting"]
            /\ UNCHANGED <<queue, job, count, stopped, finished, scheduling>>
         \/ /\ phase[s] = "free"
            /\ worker' = [worker EXCEPT ![s] = none]
            /\ finished' = IF stopped /\ \A r \in Slot \ {s} : worker[r].process = "none"
                           THEN CheckFinished(queue, Busy) ELSE finished
            /\ UNCHANGED <<queue, job, phase, count, stopped, scheduling>>

(* stop(): from maxFailures, an interrupt, or the end of the run.           *)
Stop ==
  /\ Idle
  /\ ~stopped
  /\ Interruptible \/ finished
  /\ stopped' = TRUE
  /\ worker' = [s \in Slot |-> Stopping(worker[s])]
  /\ UNCHANGED <<queue, job, phase, count, finished, scheduling>>

Terminated ==
  /\ finished /\ stopped /\ Idle
  /\ \A s \in Slot : worker[s].process = "none"
  /\ UNCHANGED vars

ScheduleJob ==
  \E i \in DOMAIN queue, s \in Slot :
    \/ SkipWholeJob(i, s)
    \/ RunInSameWorker(i, s)
    \/ StartWorker(i, s)
    \/ RestartWorker(i, s)

Next ==
  \/ ScheduleJob
  \/ NothingToSchedule
  \/ \E s \in Slot : SkippedJobReturns(s)
  \/ \E s \in Slot : JobDone(s)
  \/ \E s \in Slot : WorkerReady(s)
  \/ \E s \in Slot : ProcessExited(s)
  \/ \E s \in Slot : WorkerExited(s)
  \/ Stop
  \/ Terminated

(* A turn always runs to its end.  A worker gets ready, ends its job (tests *)
(* have timeouts) and exits once it is asked to (or is killed); run() is    *)
(* followed by stop().  Nobody is obliged to crash.                         *)
Fairness ==
  /\ WF_vars(ScheduleJob \/ NothingToSchedule)
  /\ \A s \in Slot : /\ WF_vars(SkippedJobReturns(s))
                     /\ WF_vars(JobDone(s))
                     /\ WF_vars(WorkerReady(s))
                     /\ WF_vars(worker[s].didSendStop /\ ProcessExited(s))
                     /\ WF_vars(WorkerExited(s))
  /\ WF_vars(finished /\ Stop)

Spec == Init /\ [][Next]_vars /\ Fairness

(***************************************************************************)
(* Properties.                                                             *)
(***************************************************************************)

(* The dispatcher as a pool of jobs: the order of the queue is gone, and so  *)
(* are the workers and the turns of the event loop.                          *)
Pool == INSTANCE JobPool WITH
  waiting  <- {queue[i] : i \in DOMAIN queue},
  held     <- job,
  closed   <- stopped,
  returned <- finished,
  Nobody   <- NoJob

(* Whatever the workers do, the dispatcher does what is promised of it: jobs *)
(* that share a lock never run together, no project takes more slots than    *)
(* its limit, retries run alone and last, no queued job is lost, nothing is  *)
(* taken or left after a stop, and run() returns with nothing left at work.  *)
ActsAsPool == Pool!Spec

(* "Retries are run at the end, after all other tests have finished, one by *)
(* one" (docs/src/test-api/class-testconfig.md): a slot that works on an    *)
(* isolated retry, or on what such a job left behind, is the only busy one, *)
(* and only retries are queued behind it.                                   *)
RetriesRunAlone ==
  \A s \in Busy : job[s].retried =>
    /\ Busy = {s}
    /\ \A i \in DOMAIN queue : queue[i].retried

(* Two jobs that share a lock never run at the same time, whatever was      *)
(* skipped, crashed or requeued in between.                                 *)
LocksAreExclusive ==
  \A r, s \in Busy : r # s => LocksOf[job[r].group] \cap LocksOf[job[s].group] = {}

(* A project never has more busy slots than its "workers" option allows.    *)
ProjectLimitHolds ==
  \A p \in Project : LimitOf[p] > 0 => Cardinality(RunningIn(p)) <= LimitOf[p]

(* As long as jobs are queued, some job is running: locks, limits and        *)
(* isolation never make all of them wait for each other.                    *)
NotEveryoneWaits ==
  ~scheduling /\ ~stopped /\ queue # <<>> => Busy # {}

(* The counter that decides whether a worker is redundant never falls short  *)
(* of the jobs that are queued or running: no worker is stopped in vain.    *)
CountCoversJobs ==
  \A h \in Hash :
    Cardinality({i \in DOMAIN queue : HashOf[queue[i].group] = h})
      + Cardinality({s \in Busy : HashOf[job[s].group] = h}) <= count[h]

(* A job runs only in a worker of its own hash, even when the worker had to *)
(* be stopped, or died, while the job was waiting for it.                   *)
WorkerFitsJob ==
  \A s \in Busy : phase[s] \in {"starting", "running"} =>
    worker[s].process # "none" /\ worker[s].hash = HashOf[job[s].group]

(* Workers are kept for the jobs there are, and jobs get the worker they ask  *)
(* for.                                                                     *)
WorkersServeJobs == CountCoversJobs /\ WorkerFitsJob

(* run() returns only when no slot is busy, and nothing is left unless the  *)
(* run was stopped.                                                         *)
FinishedMeansOver ==
  finished => Busy = {} /\ (queue = <<>> \/ stopped)

(* "No more running jobs after stop": no worker is created and no job is    *)
(* sent to a worker once the run is stopped, across both async hops.        *)
NothingStartsAfterStop ==
  [][stopped => \A s \in Slot :
       /\ phase'[s] = "running" => phase[s] = "running"
       /\ worker'[s].process = "starting" => worker[s].process = "starting"]_vars

(* Every run returns, and every worker process is gone after it.            *)
RunFinishes == <>[](finished /\ \A s \in Slot : worker[s].process = "none")
=============================================================================
