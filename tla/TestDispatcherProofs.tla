------------------------ MODULE TestDispatcherProofs ------------------------
(***************************************************************************)
(* Proofs about TestDispatcher, for any number of slots, groups, hashes,   *)
(* projects and locks.                                                     *)
(***************************************************************************)
EXTENDS TestDispatcher, FiniteSetTheorems, TLAPS

(***************************************************************************)
(* The queue: what splice, unshift and push do to it.                      *)
(***************************************************************************)
LEMMA WithoutIsQueue ==
  ASSUME NEW q \in Seq(Job), NEW i \in DOMAIN q
  PROVE  /\ Without(q, i) \in Seq(Job)
         /\ DOMAIN Without(q, i) = 1..(Len(q) - 1)
         /\ \A k \in 1..(Len(q) - 1) :
              /\ k < i => Without(q, i)[k] = q[k]
              /\ k >= i => Without(q, i)[k] = q[k + 1]
              /\ k \in DOMAIN q /\ k + 1 \in DOMAIN q
<1>1. Len(q) - 1 \in Nat /\ DOMAIN q = 1..Len(q)
  OBVIOUS
<1>2. \A k \in 1..(Len(q) - 1) : q[k] \in Job /\ q[k + 1] \in Job
  BY <1>1
<1>3. Without(q, i) \in [1..(Len(q) - 1) -> Job]
  BY <1>1, <1>2 DEF Without
<1> QED
  BY <1>1, <1>2, <1>3 DEF Without

LEMMA RequeueIsQueue ==
  ASSUME NEW a \in Seq(Job), NEW q \in Seq(Job), NEW b \in Seq(Job)
  PROVE  /\ a \o q \o b \in Seq(Job)
         /\ Len(a \o q \o b) = Len(a) + Len(q) + Len(b)
         /\ \A i \in 1..Len(a) : (a \o q \o b)[i] = a[i]
         /\ \A i \in 1..Len(q) : (a \o q \o b)[Len(a) + i] = q[i]
         /\ \A i \in 1..Len(b) : (a \o q \o b)[Len(a) + Len(q) + i] = b[i]
OBVIOUS

(* What a job leaves is of its group, and less.                              *)
LessThan(x, j) == x.group = j.group /\ x.budget < j.budget

LEMMA QueuedType ==
  ASSUME NEW j \in Job, NEW isolated \in BOOLEAN, NEW q \in Queued(j, isolated)
  PROVE  \E x \in Job : /\ q = <<x>> /\ x.isolated = isolated /\ x.retried = (j.retried \/ isolated)
                      /\ LessThan(x, j)
<1>1. PICK skipped \in BOOLEAN, n \in 0..(j.budget - 1) : q = <<Leftover(j, isolated, skipped, n)>>
  BY Zenon DEF Queued
<1>2. n \in Nat
  BY DEF Job
<1>3. Leftover(j, isolated, skipped, n) \in Job
  BY <1>2 DEF Leftover, Job
<1>4. LessThan(Leftover(j, isolated, skipped, n), j)
  BY <1>2 DEF Leftover, LessThan, Job
<1> QED
  BY <1>1, <1>3, <1>4 DEF Leftover

LEMMA RemainingType ==
  ASSUME NEW j \in Job, NEW q \in Remaining(j), q # <<>>
  PROVE  \E x \in Job : q = <<x>> /\ ~x.isolated /\ x.retried = j.retried /\ LessThan(x, j)
<1>1. q \in Queued(j, FALSE)
  BY Zenon DEF Remaining
<1>2. PICK x \in Job : /\ q = <<x>> /\ x.isolated = FALSE /\ x.retried = (j.retried \/ FALSE)
                     /\ LessThan(x, j)
  BY <1>1, QueuedType
<1>3. x.retried = j.retried
  BY <1>2 DEF Job
<1> QED
  BY <1>2, <1>3

LEMMA RetriesType ==
  ASSUME NEW j \in Job, NEW q \in Retries(j), q # <<>>
  PROVE  \E x \in Job : q = <<x>> /\ x.isolated /\ x.retried /\ LessThan(x, j)
<1>1. q \in Queued(j, TRUE)
  BY Zenon DEF Retries
<1>2. PICK x \in Job : /\ q = <<x>> /\ x.isolated = TRUE /\ x.retried = (j.retried \/ TRUE)
                     /\ LessThan(x, j)
  BY <1>1, QueuedType
<1> QED
  BY <1>2

LEMMA LeftoversType ==
  ASSUME NEW j \in Job, NEW left \in Leftovers(j)
  PROVE  /\ left[1] \in Seq(Job) /\ left[2] \in Seq(Job)
         /\ Len(left[1]) \in {0, 1} /\ Len(left[2]) \in {0, 1}
         /\ \A i \in 1..Len(left[1]) :
              ~left[1][i].isolated /\ left[1][i].retried = j.retried /\ LessThan(left[1][i], j)
         /\ \A i \in 1..Len(left[2]) : left[2][i].isolated /\ left[2][i].retried /\ LessThan(left[2][i], j)
<1>1. left[1] \in Remaining(j) /\ left[2] \in Retries(j)
  BY DEF Leftovers
<1>2. /\ left[1] \in Seq(Job)
      /\ Len(left[1]) \in {0, 1}
      /\ \A i \in 1..Len(left[1]) :
           ~left[1][i].isolated /\ left[1][i].retried = j.retried /\ LessThan(left[1][i], j)
  <2>1. CASE left[1] = <<>>
    BY <2>1
  <2>2. CASE left[1] # <<>>
    <3>1. PICK x \in Job : left[1] = <<x>> /\ ~x.isolated /\ x.retried = j.retried /\ LessThan(x, j)
      BY <1>1, <2>2, RemainingType
    <3> QED
      BY <3>1
  <2> QED
    BY <2>1, <2>2
<1>3. /\ left[2] \in Seq(Job)
      /\ Len(left[2]) \in {0, 1}
      /\ \A i \in 1..Len(left[2]) : left[2][i].isolated /\ left[2][i].retried /\ LessThan(left[2][i], j)
  <2>1. CASE left[2] = <<>>
    BY <2>1
  <2>2. CASE left[2] # <<>>
    <3>1. PICK x \in Job : left[2] = <<x>> /\ x.isolated /\ x.retried /\ LessThan(x, j)
      BY <1>1, <2>2, RetriesType
    <3> QED
      BY <3>1
  <2> QED
    BY <2>1, <2>2
<1> QED
  BY <1>2, <1>3

LEMMA NothingLeft ==
  ASSUME NEW j \in Job
  PROVE  << <<>>, <<>> >> \in Leftovers(j)
<1>1. <<>> \in Remaining(j) /\ <<>> \in Retries(j)
  BY Zenon DEF Remaining, Retries
<1>2. Weight(<<>>) = 0
  BY DEF Weight
<1> QED
  BY <1>1, <1>2 DEF Leftovers

(***************************************************************************)
(* What a step does to the queue and the slots.                            *)
(***************************************************************************)
Released(s) ==
  /\ job' = [job EXCEPT ![s] = NoJob]
  /\ phase' = [phase EXCEPT ![s] = "free"]
  /\ \E left \in Leftovers(job[s]) : queue' = left[1] \o queue \o left[2]
  /\ stopped => queue' = queue
  /\ finished' = CheckFinished(queue', Busy \ {s})
  /\ scheduling' = TRUE
  /\ stopped' = stopped

Untouched ==
  /\ UNCHANGED <<queue, job>>
  /\ stopped => stopped'
  /\ scheduling' = scheduling \/ NothingToSchedule
  /\ finished' = finished \/ finished' = CheckFinished(queue, Busy)

(* A worker is being started exactly while a job waits for it.              *)
PhaseMatchesProcess ==
  \A s \in Slot : /\ worker[s].process = "starting" <=> phase[s] = "starting"
                  /\ phase[s] = "running" => worker[s].process \in {"ready", "exited"}

LEMMA ReleaseQueue ==
  ASSUME TypeOK, NEW s \in Busy, ReleaseSlot(s, queue), UNCHANGED stopped
  PROVE  Released(s)
<1>1. job[s] \in Job
  BY DEF Busy, TypeOK
<1>2. queue \in Seq(Job) /\ <<>> \o queue \o <<>> = queue
  BY DEF TypeOK
<1>3. << <<>>, <<>> >> \in Leftovers(job[s])
  BY <1>1, NothingLeft
<1>4. \E left \in Leftovers(job[s]) : queue' = left[1] \o queue \o left[2]
  BY <1>2, <1>3 DEF ReleaseSlot
<1> QED
  BY <1>4 DEF ReleaseSlot, Released

LEMMA JobOverReleases ==
  ASSUME TypeOK, NEW s \in Busy, NEW w, NEW failed, NEW left \in Leftovers(job[s]),
         JobOver(s, w, failed, left)
  PROVE  Released(s)
<1>1. CASE stopped
  <2>1. ReleaseSlot(s, <<>> \o queue \o <<>>) /\ UNCHANGED stopped
    BY <1>1 DEF JobOver
  <2>2. <<>> \o queue \o <<>> = queue
    BY DEF TypeOK
  <2> QED
    BY <2>1, <2>2, ReleaseQueue
<1>2. CASE ~stopped
  <2>1. ReleaseSlot(s, left[1] \o queue \o left[2]) /\ UNCHANGED stopped
    BY <1>2 DEF JobOver
  <2> QED
    BY <1>2, <2>1 DEF ReleaseSlot, Released
<1> QED
  BY <1>1, <1>2

LEMMA StepCases ==
  ASSUME TypeOK, PhaseMatchesProcess, [Next]_vars
  PROVE  \/ \E i \in DOMAIN queue, s \in Slot : Claim(i, s)
         \/ \E s \in Busy : Released(s)
         \/ Untouched
<1> DEFINE Goal == \/ \E i \in DOMAIN queue, s \in Slot : Claim(i, s)
                   \/ \E s \in Busy : Released(s)
                   \/ Untouched
<1>0. \A s \in Slot : /\ phase[s] # "free" => s \in Busy
                      /\ s \in Busy => job[s] \in Job /\ << <<>>, <<>> >> \in Leftovers(job[s])
  BY NothingLeft DEF TypeOK, Busy
<1>1. ASSUME NEW i \in DOMAIN queue, NEW s \in Slot,
             \/ SkipWholeJob(i, s)
             \/ RunInSameWorker(i, s)
             \/ StartWorker(i, s)
             \/ RestartWorker(i, s)
      PROVE  Goal
  BY <1>1, Zenon DEF SkipWholeJob, RunInSameWorker, StartWorker, RestartWorker
<1>2. CASE NothingToSchedule
  BY <1>2 DEF NothingToSchedule, Untouched
<1>3. ASSUME NEW s \in Slot, SkippedJobReturns(s)
      PROVE  Goal
  <2>1. s \in Busy /\ ReleaseSlot(s, queue) /\ UNCHANGED stopped
    BY <1>0, <1>3 DEF SkippedJobReturns
  <2> QED
    BY <2>1, ReleaseQueue
<1>4. ASSUME NEW s \in Slot, JobDone(s)
      PROVE  Goal
  <2>1. s \in Busy
    BY <1>0, <1>4 DEF JobDone
  <2>2. \E w, failed : \E left \in Leftovers(job[s]) : JobOver(s, w, failed, left)
    BY <1>0, <1>4, <2>1, Zenon DEF JobDone
  <2> QED
    BY <2>1, <2>2, JobOverReleases
<1>5. ASSUME NEW s \in Slot, WorkerReady(s)
      PROVE  Goal
  <2>1. s \in Busy
    BY <1>0, <1>5 DEF WorkerReady, PhaseMatchesProcess
  <2>2. CASE stopped
    <3>1. ReleaseSlot(s, queue) /\ UNCHANGED stopped
      BY <1>5, <2>2 DEF WorkerReady
    <3> QED
      BY <2>1, <3>1, ReleaseQueue
  <2>3. CASE ~stopped
    BY <1>5, <2>3 DEF WorkerReady, Untouched
  <2> QED
    BY <2>2, <2>3
<1>6. ASSUME NEW s \in Slot, ProcessExited(s)
      PROVE  Goal
  <2>1. CASE worker[s].process = "starting" /\ ~stopped
    <3>1. s \in Busy
      BY <1>0, <2>1 DEF PhaseMatchesProcess
    <3>2. \E w, failed : \E left \in Leftovers(job[s]) : JobOver(s, w, failed, left)
      BY <1>6, <2>1, Zenon DEF ProcessExited
    <3> QED
      BY <3>1, <3>2, JobOverReleases
  <2>2. CASE worker[s].process = "starting" /\ stopped
    <3>1. s \in Busy
      BY <1>0, <2>2 DEF PhaseMatchesProcess
    <3>2. ReleaseSlot(s, queue) /\ UNCHANGED stopped
      BY <1>6, <2>2 DEF ProcessExited
    <3> QED
      BY <3>1, <3>2, ReleaseQueue
  <2>3. CASE worker[s].process # "starting"
    BY <1>6, <2>3 DEF ProcessExited, Untouched
  <2> QED
    BY <2>1, <2>2, <2>3
<1>7. ASSUME NEW s \in Slot, WorkerExited(s)
      PROVE  Goal
  <2>1. CASE phase[s] = "running"
    <3>1. s \in Busy
      BY <1>0, <2>1
    <3>2. \E w, failed : \E left \in Leftovers(job[s]) : JobOver(s, w, failed, left)
      BY <1>0, <1>7, <2>1, <3>1, Zenon DEF WorkerExited
    <3> QED
      BY <3>1, <3>2, JobOverReleases
  <2>2. CASE phase[s] = "stopping" /\ stopped
    <3>1. s \in Busy
      BY <1>0, <2>2
    <3>2. ReleaseSlot(s, queue) /\ UNCHANGED stopped
      BY <1>7, <2>2 DEF WorkerExited
    <3> QED
      BY <3>1, <3>2, ReleaseQueue
  <2>3. CASE phase[s] = "stopping" /\ ~stopped
    BY <1>7, <2>3 DEF WorkerExited, Untouched
  <2>4. CASE phase[s] \notin {"running", "stopping"}
    BY <1>7, <2>4 DEF WorkerExited, Untouched
  <2> QED
    BY <2>1, <2>2, <2>3, <2>4
<1>8. CASE Stop
  BY <1>8 DEF Stop, Untouched
<1>9. CASE UNCHANGED vars
  BY <1>9 DEF vars, Untouched
<1> QED
  BY <1>1, <1>2, <1>3, <1>4, <1>5, <1>6, <1>7, <1>8, <1>9, Zenon DEF Next, ScheduleJob, Terminated

(***************************************************************************)
(* Types, and the worker of each job.                                      *)
(***************************************************************************)
LEMMA WorkerHelpers ==
  ASSUME NEW w \in Worker, NEW h \in Hash
  PROVE  /\ NoWorker(w) \in Worker /\ NoWorker(w).process = "none"
         /\ Created(h) \in Worker /\ Created(h).process = "starting" /\ Created(h).hash = h
         /\ Stopping(w) \in Worker /\ Stopping(w).process = w.process /\ Stopping(w).hash = w.hash
         /\ [Stopping(w) EXCEPT !.didFail = TRUE] \in Worker
         /\ [Stopping(w) EXCEPT !.didFail = TRUE].process = w.process
BY DEF NoWorker, Created, Stopping, Worker

LEMMA JobOverWorker ==
  ASSUME TypeOK, NEW s \in Busy, NEW w \in Worker, w.process # "starting", NEW failed \in BOOLEAN,
         NEW left \in Leftovers(job[s]), JobOver(s, w, failed, left)
  PROVE  /\ \E x \in Worker : worker' = [worker EXCEPT ![s] = x] /\ x.process # "starting"
         /\ count' \in [Hash -> Int]
<1>1. \E x \in Worker : worker' = [worker EXCEPT ![s] = x] /\ x.process # "starting"
  <2>1. CASE w.process = "none"
    BY <2>1 DEF JobOver
  <2>2. CASE w.process # "none" /\ failed
    BY <2>2, WorkerHelpers DEF JobOver, Worker
  <2>3. CASE w.process # "none" /\ ~failed
    BY <2>3, WorkerHelpers DEF JobOver, Worker
  <2> QED
    BY <2>1, <2>2, <2>3
<1>2. job[s] \in Job /\ HashOf[job[s].group] \in Hash
  BY GroupAssumption DEF TypeOK, Busy, Job
<1>3. Len(left[1]) \in Nat /\ Len(left[2]) \in Nat
  BY <1>2, LeftoversType
<1>4. \E d \in Int : count' = [count EXCEPT ![HashOf[job[s].group]] = d]
  <2> DEFINE c == count[HashOf[job[s].group]]
  <2>1. c \in Int
    BY <1>2 DEF TypeOK
  <2>2. CASE stopped
    <3>1. count' = [count EXCEPT ![HashOf[job[s].group]] = c - 1 + Len(<<>>) + Len(<<>>)]
      BY <2>2 DEF JobOver
    <3>2. c - 1 + Len(<<>>) + Len(<<>>) \in Int
      BY <2>1
    <3> QED
      BY <3>1, <3>2
  <2>3. CASE ~stopped
    <3>1. count' = [count EXCEPT ![HashOf[job[s].group]] = c - 1 + Len(left[1]) + Len(left[2])]
      BY <2>3 DEF JobOver
    <3>2. c - 1 + Len(left[1]) + Len(left[2]) \in Int
      <4>1. \A x \in Int : \A y, z \in Nat : x - 1 + y + z \in Int
        OBVIOUS
      <4> QED
        BY <1>3, <2>1, <4>1, Zenon
    <3> QED
      BY <3>1, <3>2
  <2> QED
    BY <2>2, <2>3
<1>5. count' \in [Hash -> Int]
  BY <1>4 DEF TypeOK
<1> QED
  BY <1>1, <1>5

LEMMA QueueType ==
  ASSUME TypeOK, PhaseMatchesProcess, [Next]_vars
  PROVE  /\ queue' \in Seq(Job)
         /\ job' \in [Slot -> Job \cup {NoJob}]
         /\ finished' \in BOOLEAN
<1>1. ASSUME NEW i \in DOMAIN queue, NEW s \in Slot, Claim(i, s)
      PROVE  queue' \in Seq(Job) /\ job' \in [Slot -> Job \cup {NoJob}] /\ finished' \in BOOLEAN
  BY <1>1, WithoutIsQueue DEF Claim, TypeOK
<1>2. ASSUME NEW s \in Busy, Released(s)
      PROVE  queue' \in Seq(Job) /\ job' \in [Slot -> Job \cup {NoJob}] /\ finished' \in BOOLEAN
  <2>1. job[s] \in Job
    BY DEF TypeOK, Busy
  <2>2. PICK left \in Leftovers(job[s]) : queue' = left[1] \o queue \o left[2]
    BY <1>2 DEF Released
  <2>3. queue' \in Seq(Job)
    BY <2>1, <2>2, LeftoversType, RequeueIsQueue DEF TypeOK
  <2> QED
    BY <1>2, <2>3 DEF Released, TypeOK, CheckFinished
<1>3. CASE Untouched
  BY <1>3 DEF Untouched, TypeOK, CheckFinished
<1> QED
  BY <1>1, <1>2, <1>3, StepCases

(* The part of the state that belongs to one slot.                          *)
SlotTypes ==
  /\ phase \in [Slot -> {"free", "skipped", "stopping", "starting", "running"}]
  /\ worker \in [Slot -> Worker]
  /\ count \in [Hash -> Int]
  /\ stopped \in BOOLEAN
  /\ scheduling \in BOOLEAN
  /\ \A s \in Slot : phase[s] = "free" <=> job[s] = NoJob
  /\ PhaseMatchesProcess

LEMMA ReleaseKeepsTypes ==
  ASSUME TypeOK, PhaseMatchesProcess, NEW s \in Busy, NEW q, ReleaseSlot(s, q), UNCHANGED stopped,
         count' \in [Hash -> Int],
         \E x \in Worker : worker' = [worker EXCEPT ![s] = x] /\ x.process # "starting"
  PROVE  SlotTypes'
BY DEF TypeOK, PhaseMatchesProcess, ReleaseSlot, SlotTypes, Busy, Job

LEMMA JobOverKeepsTypes ==
  ASSUME TypeOK, PhaseMatchesProcess, NEW s \in Busy, NEW w \in Worker, w.process # "starting",
         NEW failed \in BOOLEAN, NEW left \in Leftovers(job[s]), JobOver(s, w, failed, left)
  PROVE  SlotTypes'
<1>1. /\ \E x \in Worker : worker' = [worker EXCEPT ![s] = x] /\ x.process # "starting"
      /\ count' \in [Hash -> Int]
  BY JobOverWorker
<1>2. \E q : ReleaseSlot(s, q)
  BY Zenon DEF JobOver
<1>3. UNCHANGED stopped
  BY DEF JobOver
<1> QED
  BY <1>1, <1>2, <1>3, ReleaseKeepsTypes

LEMMA SlotTypesKept ==
  ASSUME TypeOK, PhaseMatchesProcess, [Next]_vars
  PROVE  SlotTypes'
<1>0. \A s \in Slot : /\ worker[s] \in Worker
                      /\ phase[s] # "free" <=> s \in Busy
                      /\ s \in Busy => job[s] \in Job /\ << <<>>, <<>> >> \in Leftovers(job[s])
                      /\ s \in Busy => HashOf[job[s].group] \in Hash
  BY NothingLeft, GroupAssumption DEF TypeOK, Busy, Job
<1>1. ASSUME NEW i \in DOMAIN queue, NEW s \in Slot, Claim(i, s),
             NEW x \in {"skipped", "stopping", "running"}, phase' = [phase EXCEPT ![s] = x],
             \/ UNCHANGED worker /\ (x = "running" => CanReuse(s, HashOf[queue[i].group]))
             \/ worker' = [worker EXCEPT ![s] = Stopping(worker[s])] /\ x = "stopping"
      PROVE  SlotTypes'
  <2>1. queue[i] \in Job /\ queue[i] # NoJob
    BY NoJobAssumption DEF TypeOK
  <2>2. phase[s] = "free" /\ worker[s].process # "starting"
    BY <1>0, <1>1 DEF Claim, IsSlotFor, PhaseMatchesProcess
  <2>3. \E y \in Worker : /\ worker' = [worker EXCEPT ![s] = y]
                          /\ y.process # "starting"
                          /\ x = "running" => y.process \in {"ready", "exited"}
    <3>1. CASE UNCHANGED worker
      BY <1>1, <2>2, <3>1 DEF TypeOK, CanReuse, Worker
    <3>2. CASE worker' = [worker EXCEPT ![s] = Stopping(worker[s])] /\ x = "stopping"
      BY <1>0, <2>2, <3>2, WorkerHelpers DEF Worker
    <3> QED
      BY <1>1, <3>1, <3>2
  <2>4. job' = [job EXCEPT ![s] = queue[i]] /\ UNCHANGED <<count, stopped, scheduling>>
    BY <1>1 DEF Claim
  <2> QED
    BY <1>1, <2>1, <2>2, <2>3, <2>4 DEF TypeOK, PhaseMatchesProcess, SlotTypes
<1>2. ASSUME NEW i \in DOMAIN queue, NEW s \in Slot,
             \/ SkipWholeJob(i, s)
             \/ RunInSameWorker(i, s)
             \/ RestartWorker(i, s)
      PROVE  SlotTypes'
  BY <1>1, <1>2 DEF SkipWholeJob, RunInSameWorker, RestartWorker
<1>3. ASSUME NEW i \in DOMAIN queue, NEW s \in Slot, StartWorker(i, s)
      PROVE  SlotTypes'
  <2>0. queue[i] \in Job /\ queue[i] # NoJob
    BY NoJobAssumption DEF TypeOK
  <2>1. HashOf[queue[i].group] \in Hash
    BY <2>0, GroupAssumption DEF Job
  <2>2. Created(HashOf[queue[i].group]) \in Worker
        /\ Created(HashOf[queue[i].group]).process = "starting"
    BY <2>1 DEF Created, Worker
  <2>3. /\ job' = [job EXCEPT ![s] = queue[i]]
        /\ phase' = [phase EXCEPT ![s] = "starting"]
        /\ worker' = [worker EXCEPT ![s] = Created(HashOf[queue[i].group])]
        /\ UNCHANGED <<count, stopped, scheduling>>
    BY <1>3 DEF StartWorker, Claim
  <2> QED
    BY <2>0, <2>2, <2>3 DEF TypeOK, PhaseMatchesProcess, SlotTypes
<1>4. CASE NothingToSchedule
  BY <1>4 DEF NothingToSchedule, TypeOK, PhaseMatchesProcess, SlotTypes
<1>5. ASSUME NEW s \in Slot, SkippedJobReturns(s)
      PROVE  SlotTypes'
  <2>1. /\ s \in Busy /\ ReleaseSlot(s, queue) /\ UNCHANGED <<worker, count, stopped>>
        /\ worker[s].process # "starting"
    BY <1>0, <1>5 DEF SkippedJobReturns, PhaseMatchesProcess
  <2>2. \E x \in Worker : worker' = [worker EXCEPT ![s] = x] /\ x.process # "starting"
    BY <1>0, <2>1 DEF TypeOK
  <2> QED
    BY <2>1, <2>2, ReleaseKeepsTypes DEF TypeOK
<1>6. ASSUME NEW s \in Slot, JobDone(s)
      PROVE  SlotTypes'
  <2>1. s \in Busy /\ worker[s].process = "ready"
    BY <1>0, <1>6 DEF JobDone
  <2>2. \E failed \in BOOLEAN, left \in Leftovers(job[s]) : JobOver(s, worker[s], failed, left)
    BY <1>0, <1>6, <2>1, Zenon DEF JobDone
  <2> QED
    BY <1>0, <2>1, <2>2, JobOverKeepsTypes
<1>7. ASSUME NEW s \in Slot, WorkerReady(s)
      PROVE  SlotTypes'
  <2>1. s \in Busy /\ phase[s] = "starting"
    BY <1>0, <1>7 DEF WorkerReady, PhaseMatchesProcess
  <2>2. /\ [worker[s] EXCEPT !.process = "ready"] \in Worker
        /\ [worker[s] EXCEPT !.process = "ready"].process = "ready"
    BY <1>0 DEF Worker
  <2>3. worker' = [worker EXCEPT ![s] = [worker[s] EXCEPT !.process = "ready"]]
    BY <1>7 DEF WorkerReady, TypeOK
  <2>4. CASE stopped
    <3>1. ReleaseSlot(s, queue) /\ UNCHANGED <<count, stopped>>
      BY <1>7, <2>4 DEF WorkerReady
    <3> QED
      BY <2>1, <2>2, <2>3, <3>1, ReleaseKeepsTypes DEF TypeOK
  <2>5. CASE ~stopped
    <3>1. phase' = [phase EXCEPT ![s] = "running"] /\ UNCHANGED <<job, scheduling, count, stopped>>
      BY <1>7, <2>5 DEF WorkerReady
    <3> QED
      BY <2>1, <2>2, <2>3, <3>1 DEF TypeOK, PhaseMatchesProcess, SlotTypes
  <2> QED
    BY <2>4, <2>5
<1>8. ASSUME NEW s \in Slot, ProcessExited(s)
      PROVE  SlotTypes'
  <2> DEFINE gone == [worker[s] EXCEPT !.process = "exited"]
  <2>1. gone \in Worker /\ gone.process = "exited"
    BY <1>0 DEF Worker
  <2>2. CASE worker[s].process = "starting" /\ ~stopped
    <3>1. s \in Busy
      BY <1>0, <2>2 DEF PhaseMatchesProcess
    <3>2. \E failed \in BOOLEAN, left \in Leftovers(job[s]) : JobOver(s, gone, failed, left)
      BY <1>8, <2>2, Zenon DEF ProcessExited
    <3> QED
      BY <2>1, <3>1, <3>2, JobOverKeepsTypes
  <2>3. CASE worker[s].process = "starting" /\ stopped
    <3>1. s \in Busy
      BY <1>0, <2>3 DEF PhaseMatchesProcess
    <3>2. worker' = [worker EXCEPT ![s] = gone] /\ ReleaseSlot(s, queue) /\ UNCHANGED <<count, stopped>>
      BY <1>8, <2>3 DEF ProcessExited
    <3> QED
      BY <2>1, <3>1, <3>2, ReleaseKeepsTypes DEF TypeOK
  <2>4. CASE worker[s].process # "starting"
    <3>1. /\ worker' = [worker EXCEPT ![s] = gone]
          /\ UNCHANGED <<job, phase, count, stopped, scheduling>>
      BY <1>8, <2>4 DEF ProcessExited
    <3>2. phase[s] # "starting"
      BY <2>4 DEF PhaseMatchesProcess
    <3> QED
      BY <2>1, <3>1, <3>2 DEF TypeOK, PhaseMatchesProcess, SlotTypes
  <2> QED
    BY <2>2, <2>3, <2>4
<1>9. ASSUME NEW s \in Slot, WorkerExited(s)
      PROVE  SlotTypes'
  <2>1. NoWorker(worker[s]) \in Worker /\ NoWorker(worker[s]).process = "none"
    BY <1>0 DEF NoWorker, Worker
  <2>2. CASE phase[s] = "running"
    <3>1. \E failed \in BOOLEAN, left \in Leftovers(job[s]) : JobOver(s, NoWorker(worker[s]), failed, left)
      BY <1>0, <1>9, <2>2, Zenon DEF WorkerExited
    <3> QED
      BY <1>0, <2>1, <2>2, <3>1, JobOverKeepsTypes
  <2>3. CASE phase[s] = "stopping" /\ stopped
    <3>1. /\ worker' = [worker EXCEPT ![s] = NoWorker(worker[s])]
          /\ ReleaseSlot(s, queue)
          /\ UNCHANGED <<count, stopped>>
      BY <1>9, <2>3 DEF WorkerExited
    <3> QED
      BY <1>0, <2>1, <2>3, <3>1, ReleaseKeepsTypes DEF TypeOK
  <2>4. CASE phase[s] = "stopping" /\ ~stopped
    <3> DEFINE h == HashOf[job[s].group]
    <3>1. /\ worker' = [worker EXCEPT ![s] = Created(h)]
          /\ phase' = [phase EXCEPT ![s] = "starting"]
          /\ UNCHANGED <<job, count, stopped, scheduling>>
      BY <1>9, <2>4 DEF WorkerExited
    <3>2. Created(h) \in Worker /\ Created(h).process = "starting"
      BY <1>0, <2>4 DEF Created, Worker
    <3> QED
      BY <2>4, <3>1, <3>2 DEF TypeOK, PhaseMatchesProcess, SlotTypes
  <2>5. CASE phase[s] = "free"
    <3>1. /\ worker' = [worker EXCEPT ![s] = NoWorker(worker[s])]
          /\ UNCHANGED <<job, phase, count, stopped, scheduling>>
      BY <1>9, <2>5 DEF WorkerExited
    <3> QED
      BY <2>1, <2>5, <3>1 DEF TypeOK, PhaseMatchesProcess, SlotTypes
  <2> QED
    BY <1>9, <2>2, <2>3, <2>4, <2>5 DEF WorkerExited
<1>10. CASE Stop
  <2>1. \A s \in Slot : Stopping(worker[s]) \in Worker /\ Stopping(worker[s]).process = worker[s].process
    BY <1>0 DEF Stopping, Worker
  <2> QED
    BY <1>10, <2>1 DEF Stop, TypeOK, PhaseMatchesProcess, SlotTypes
<1>11. CASE UNCHANGED vars
  BY <1>11 DEF vars, TypeOK, PhaseMatchesProcess, SlotTypes
<1> QED
  BY <1>2, <1>3, <1>4, <1>5, <1>6, <1>7, <1>8, <1>9, <1>10, <1>11, Zenon
     DEF Next, ScheduleJob, Terminated

LEMMA InitTypes ==
  ASSUME Init
  PROVE  TypeOK /\ PhaseMatchesProcess
<1>1. Cardinality(Group) \in Nat
  BY GroupAssumption, FS_CardinalityType
<1>2. \A g \in Group : InitialJob(g) \in Job
  BY GroupAssumption DEF InitialJob, Job
<1>3. queue \in Seq(Job)
  <2>1. queue \in [1..Cardinality(Group) -> {InitialJob(g) : g \in Group}]
    BY Zenon DEF Init
  <2>2. \A i \in 1..Cardinality(Group) : queue[i] \in Job
    BY <1>2, <2>1
  <2> QED
    BY <1>1, <2>1, <2>2
<1>4. count \in [Hash -> Int]
  <2>1. ASSUME NEW h \in Hash
        PROVE  Cardinality({g \in Group : HashOf[g] = h}) \in Int
    <3>1. IsFiniteSet({g \in Group : HashOf[g] = h})
      BY GroupAssumption, FS_Subset
    <3> QED
      BY <3>1, FS_CardinalityType
  <2> QED
    BY <2>1 DEF Init
<1>5. (CHOOSE h \in Hash : TRUE) \in Hash
  BY GroupAssumption
<1>6. NoWorker(Created(CHOOSE h \in Hash : TRUE)) \in Worker
      /\ NoWorker(Created(CHOOSE h \in Hash : TRUE)).process = "none"
  BY <1>5 DEF NoWorker, Created, Worker
<1>7. stopped \in BOOLEAN /\ finished \in BOOLEAN
  BY DEF Init
<1> QED
  BY <1>3, <1>4, <1>6, <1>7 DEF Init, TypeOK, PhaseMatchesProcess

LEMMA TypesKept ==
  ASSUME TypeOK, PhaseMatchesProcess, [Next]_vars
  PROVE  TypeOK' /\ PhaseMatchesProcess'
BY QueueType, SlotTypesKept DEF SlotTypes, TypeOK

(* Every turn of the dispatcher and every event of a worker keeps the types  *)
(* of the fields of class Dispatcher; a slot is claimed exactly while        *)
(* _runJobInWorker works on it.                                              *)
THEOREM TypeCorrect == Spec => []TypeOK
<1>1. Init => TypeOK /\ PhaseMatchesProcess
  BY InitTypes
<1>2. TypeOK /\ PhaseMatchesProcess /\ [Next]_vars => (TypeOK /\ PhaseMatchesProcess)'
  BY TypesKept
<1> QED
  BY <1>1, <1>2, PTL DEF Spec

(***************************************************************************)
(* Busy slots.                                                             *)
(***************************************************************************)
LEMMA BusyAfterClaim ==
  ASSUME TypeOK, NEW i \in DOMAIN queue, NEW s \in Slot, Claim(i, s)
  PROVE  /\ s \notin Busy /\ Busy' = Busy \cup {s}
         /\ queue[i] \in Job /\ job'[s] = queue[i]
         /\ \A r \in Busy : job'[r] = job[r]
<1>1. queue[i] \in Job /\ queue[i] # NoJob
  BY NoJobAssumption DEF TypeOK
<1>2. job' = [job EXCEPT ![s] = queue[i]] /\ s \notin Busy
  BY DEF Claim, IsSlotFor
<1> QED
  BY <1>1, <1>2 DEF TypeOK, Busy

LEMMA BusyAfterRelease ==
  ASSUME TypeOK, NEW s \in Busy, Released(s)
  PROVE  /\ Busy' = Busy \ {s}
         /\ \A r \in Busy' : job'[r] = job[r]
BY DEF TypeOK, Busy, Released

(* With no slot busy, every job can run: limits are positive where they     *)
(* exist.                                                                   *)
LEMMA EveryJobCanRunAlone ==
  ASSUME TypeOK, NEW i \in DOMAIN queue, Busy = {}
  PROVE  CanRun(queue[i])
<1>1. queue[i] \in Job
  BY DEF TypeOK
<1>2. LimitOf[ProjectOf[queue[i].group]] \in Nat
  BY <1>1, GroupAssumption DEF Job
<1>3. RunningIn(ProjectOf[queue[i].group]) = {}
  BY DEF RunningIn
<1>4. Cardinality(RunningIn(ProjectOf[queue[i].group])) = 0
  BY <1>3, FS_EmptySet
<1> QED
  BY <1>2, <1>4 DEF CanRun

(***************************************************************************)
(* Isolated retries run alone.  The queue holds the first attempts, then    *)
(* the retries; only what a retry left behind may precede the retries, and  *)
(* then no slot is busy.                                                    *)
(***************************************************************************)
RetriesAreLast ==
  \A i, k \in DOMAIN queue : i < k /\ queue[i].isolated => queue[k].isolated

IsolatedAreRetries ==
  /\ \A i \in DOMAIN queue : queue[i].isolated => queue[i].retried
  /\ \A s \in Busy : job[s].isolated => job[s].retried

RetriedRunsBeforeIsolated ==
  \A s \in Busy : job[s].retried =>
    /\ Busy = {s}
    /\ \A i \in DOMAIN queue : queue[i].isolated

RemainderOfRetryIsNext ==
  \A i \in DOMAIN queue : queue[i].retried /\ ~queue[i].isolated =>
    /\ Busy = {}
    /\ \A k \in DOMAIN queue : k # i => queue[k].isolated

RetryInv ==
  /\ RetriesAreLast
  /\ IsolatedAreRetries
  /\ RetriedRunsBeforeIsolated
  /\ RemainderOfRetryIsNext

LEMMA ClaimKeepsRetryInv ==
  ASSUME TypeOK, RetryInv, NEW i \in DOMAIN queue, NEW s \in Slot, Claim(i, s)
  PROVE  RetryInv'
<1>1. /\ s \notin Busy /\ Busy' = Busy \cup {s}
      /\ queue[i] \in Job /\ job'[s] = queue[i]
      /\ \A r \in Busy : job'[r] = job[r]
  BY BusyAfterClaim
<1>2. /\ queue' = Without(queue, i)
      /\ queue[i].isolated => Busy = {}
  BY DEF Claim, IsFirstJobToRun, CanRun
<1>3. /\ DOMAIN queue' = 1..(Len(queue) - 1)
      /\ DOMAIN queue = 1..Len(queue)
      /\ Len(queue) \in Nat
      /\ \A k \in DOMAIN queue' :
           /\ k < i => queue'[k] = queue[k]
           /\ k >= i => queue'[k] = queue[k + 1]
           /\ k \in DOMAIN queue /\ k + 1 \in DOMAIN queue
  <2>1. queue \in Seq(Job) /\ i \in DOMAIN queue
    BY DEF TypeOK
  <2>2. DOMAIN queue = 1..Len(queue) /\ Len(queue) \in Nat
    BY <2>1
  <2>3. /\ DOMAIN queue' = 1..(Len(queue) - 1)
        /\ \A k \in 1..(Len(queue) - 1) :
             /\ k < i => queue'[k] = queue[k]
             /\ k >= i => queue'[k] = queue[k + 1]
             /\ k \in DOMAIN queue /\ k + 1 \in DOMAIN queue
    BY <1>2, <2>1, WithoutIsQueue, Zenon
  <2> QED
    BY <2>2, <2>3, Zenon
(* The entry that was at x, now at k.                                       *)
<1>a. ASSUME NEW k \in DOMAIN queue'
      PROVE  \E x \in DOMAIN queue :
               /\ queue'[k] = queue[x]
               /\ k < i => x = k
               /\ k >= i => x = k + 1
  <2>1. k \in Int /\ i \in Int
    BY <1>3
  <2>2. CASE k < i
    BY <1>3, <2>1, <2>2
  <2>3. CASE k >= i
    BY <1>3, <2>1, <2>3
  <2> QED
    BY <2>1, <2>2, <2>3
<1>4. Busy = {} => i = 1
  <2>1. \A k \in 1..(i - 1) : ~CanRun(queue[k])
    BY DEF Claim, IsFirstJobToRun
  <2> QED
    BY <1>3, <2>1, EveryJobCanRunAlone
<1>5. RetriesAreLast'
  <2> SUFFICES ASSUME NEW a \in DOMAIN queue', NEW b \in DOMAIN queue', a < b, queue'[a].isolated
               PROVE  queue'[b].isolated
    BY DEF RetriesAreLast
  <2>1. PICK x \in DOMAIN queue : queue'[a] = queue[x] /\ (a < i => x = a) /\ (a >= i => x = a + 1)
    BY <1>a
  <2>2. PICK y \in DOMAIN queue : queue'[b] = queue[y] /\ (b < i => y = b) /\ (b >= i => y = b + 1)
    BY <1>a
  <2>3. x < y
    BY <1>3, <2>1, <2>2
  <2> QED
    BY <2>1, <2>2, <2>3 DEF RetryInv, RetriesAreLast
<1>6. IsolatedAreRetries'
  BY <1>1, <1>a DEF RetryInv, IsolatedAreRetries
<1>7. RetriedRunsBeforeIsolated'
  <2>1. ASSUME NEW r \in Busy, job[r].retried
        PROVE  FALSE
    <3>1. queue[i].isolated
      BY <2>1 DEF RetryInv, RetriedRunsBeforeIsolated
    <3> QED
      BY <1>2, <3>1
  <2>2. ASSUME queue[i].retried
        PROVE  Busy' = {s} /\ \A k \in DOMAIN queue' : queue'[k].isolated
    <3>1. Busy = {}
      BY <1>2, <2>2 DEF RetryInv, RemainderOfRetryIsNext
    <3>2. i = 1
      BY <1>4, <3>1
    <3>3. \A k \in DOMAIN queue : k # 1 => queue[k].isolated
      <4>1. CASE queue[1].isolated
        BY <1>3, <3>2, <4>1 DEF RetryInv, RetriesAreLast
      <4>2. CASE ~queue[1].isolated
        BY <2>2, <3>2, <4>2 DEF RetryInv, RemainderOfRetryIsNext
      <4> QED
        BY <4>1, <4>2
    <3> QED
      BY <1>1, <1>3, <3>1, <3>2, <3>3
  <2> QED
    BY <1>1, <2>1, <2>2 DEF RetriedRunsBeforeIsolated
<1>8. RemainderOfRetryIsNext'
  <2> SUFFICES ASSUME NEW a \in DOMAIN queue', queue'[a].retried, ~queue'[a].isolated
               PROVE  FALSE
    BY DEF RemainderOfRetryIsNext
  <2>1. PICK x \in DOMAIN queue : queue'[a] = queue[x] /\ x # i
    BY <1>3, <1>a
  <2>2. Busy = {} /\ queue[i].isolated
    BY <2>1 DEF RetryInv, RemainderOfRetryIsNext
  <2>3. i < x
    BY <1>3, <1>4, <2>1, <2>2
  <2>4. queue[x].isolated
    BY <2>2, <2>3 DEF RetryInv, RetriesAreLast
  <2> QED
    BY <2>1, <2>4
<1> QED
  BY <1>5, <1>6, <1>7, <1>8 DEF RetryInv

LEMMA ReleaseKeepsRetryInv ==
  ASSUME TypeOK, RetryInv, NEW s \in Busy, Released(s)
  PROVE  RetryInv'
<1>1. /\ Busy' = Busy \ {s}
      /\ \A r \in Busy' : job'[r] = job[r]
  BY BusyAfterRelease
<1>2. job[s] \in Job
  BY DEF TypeOK, Busy
<1>3. PICK left \in Leftovers(job[s]) : queue' = left[1] \o queue \o left[2]
  BY DEF Released
<1> DEFINE a == left[1]
           b == left[2]
<1>4. /\ a \in Seq(Job) /\ b \in Seq(Job)
      /\ Len(a) \in {0, 1} /\ Len(b) \in {0, 1}
      /\ \A i \in 1..Len(a) : ~a[i].isolated /\ a[i].retried = job[s].retried
      /\ \A i \in 1..Len(b) : b[i].isolated /\ b[i].retried
  BY <1>2, LeftoversType
<1>5. queue \in Seq(Job)
  BY DEF TypeOK
<1> HIDE DEF a, b
<1>6. /\ queue' \in Seq(Job)
      /\ Len(queue') = Len(a) + Len(queue) + Len(b)
      /\ \A i \in 1..Len(a) : queue'[i] = a[i]
      /\ \A i \in 1..Len(queue) : queue'[Len(a) + i] = queue[i]
      /\ \A i \in 1..Len(b) : queue'[Len(a) + Len(queue) + i] = b[i]
  <2>1. queue' = a \o queue \o b
    BY <1>3 DEF a, b
  <2> QED
    BY <1>4, <1>5, <2>1, RequeueIsQueue
<1>7. DOMAIN queue' = 1..Len(queue') /\ DOMAIN queue = 1..Len(queue) /\ Len(queue) \in Nat
  BY <1>5, <1>6
(* Every entry is the remaining job, an old entry, or the retries.          *)
<1>8. ASSUME NEW i \in DOMAIN queue'
      PROVE  \/ i \in 1..Len(a) /\ queue'[i] = a[i]
             \/ \E k \in DOMAIN queue : i = Len(a) + k /\ queue'[i] = queue[k]
             \/ \E k \in 1..Len(b) : i = Len(a) + Len(queue) + k /\ queue'[i] = b[k]
  <2>1. i \in 1..(Len(a) + Len(queue) + Len(b)) /\ Len(a) \in Nat /\ Len(b) \in Nat
    BY <1>4, <1>6, <1>7
  <2>2. CASE i <= Len(a)
    BY <1>6, <2>1, <2>2
  <2>3. CASE i > Len(a) /\ i <= Len(a) + Len(queue)
    <3>1. i - Len(a) \in 1..Len(queue) /\ i = Len(a) + (i - Len(a))
      BY <1>7, <2>1, <2>3
    <3> QED
      BY <1>6, <1>7, <3>1
  <2>4. CASE i > Len(a) + Len(queue)
    <3> DEFINE k == i - (Len(a) + Len(queue))
    <3>1. k \in 1..Len(b) /\ i = Len(a) + Len(queue) + k
      BY <1>7, <2>1, <2>4
    <3> QED
      BY <1>6, <3>1
  <2> QED
    BY <1>7, <2>1, <2>2, <2>3, <2>4
<1>9. RetriesAreLast'
  <2> SUFFICES ASSUME NEW x \in DOMAIN queue', NEW y \in DOMAIN queue', x < y, queue'[x].isolated
               PROVE  queue'[y].isolated
    BY DEF RetriesAreLast
  <2>1. CASE \E k \in 1..Len(b) : y = Len(a) + Len(queue) + k /\ queue'[y] = b[k]
    BY <1>4, <2>1
  <2>2. CASE \E k \in DOMAIN queue : y = Len(a) + k /\ queue'[y] = queue[k]
    <3>1. PICK k \in DOMAIN queue : y = Len(a) + k /\ queue'[y] = queue[k]
      BY <2>2
    <3>2. PICK m \in DOMAIN queue : x = Len(a) + m /\ queue'[x] = queue[m]
      BY <1>4, <1>7, <1>8, <3>1
    <3>3. m < k
      BY <1>4, <1>7, <3>1, <3>2
    <3> QED
      BY <3>1, <3>2, <3>3 DEF RetryInv, RetriesAreLast
  <2>3. CASE y \in 1..Len(a) /\ queue'[y] = a[y]
    BY <1>4, <1>7, <2>3
  <2> QED
    BY <1>8, <2>1, <2>2, <2>3
<1>10. IsolatedAreRetries'
  <2>1. \A i \in DOMAIN queue' : queue'[i].isolated => queue'[i].retried
    BY <1>4, <1>8 DEF RetryInv, IsolatedAreRetries
  <2>2. \A r \in Busy' : job'[r].isolated => job'[r].retried
    BY <1>1 DEF RetryInv, IsolatedAreRetries
  <2> QED
    BY <2>1, <2>2 DEF IsolatedAreRetries
<1>11. RetriedRunsBeforeIsolated'
  BY <1>1 DEF RetryInv, RetriedRunsBeforeIsolated
<1>12. RemainderOfRetryIsNext'
  <2> SUFFICES ASSUME NEW x \in DOMAIN queue', queue'[x].retried, ~queue'[x].isolated
               PROVE  Busy' = {} /\ \A y \in DOMAIN queue' : y # x => queue'[y].isolated
    BY DEF RemainderOfRetryIsNext
  <2>1. x \in 1..Len(a) /\ queue'[x] = a[x]
    BY <1>4, <1>8 DEF RetryInv, RemainderOfRetryIsNext
  <2>2. job[s].retried
    BY <1>4, <2>1
  <2>3. Busy = {s} /\ \A i \in DOMAIN queue : queue[i].isolated
    BY <2>2 DEF RetryInv, RetriedRunsBeforeIsolated
  <2>4. \A y \in DOMAIN queue' : y # x => queue'[y].isolated
    BY <1>4, <1>7, <1>8, <2>1, <2>3
  <2> QED
    BY <1>1, <2>3, <2>4
<1> QED
  BY <1>9, <1>10, <1>11, <1>12 DEF RetryInv

LEMMA RetryInvKept ==
  ASSUME TypeOK, PhaseMatchesProcess, RetryInv, [Next]_vars
  PROVE  RetryInv'
<1>1. CASE Untouched
  BY <1>1 DEF Untouched, RetryInv, RetriesAreLast, IsolatedAreRetries, RetriedRunsBeforeIsolated,
              RemainderOfRetryIsNext, Busy
<1> QED
  BY <1>1, StepCases, ClaimKeepsRetryInv, ReleaseKeepsRetryInv

LEMMA InitRetryInv ==
  ASSUME Init
  PROVE  RetryInv
<1>1. Busy = {}
  BY DEF Init, Busy
<1>2. queue \in [1..Cardinality(Group) -> {InitialJob(g) : g \in Group}]
  BY Zenon DEF Init
<1>3. \A i \in DOMAIN queue : ~queue[i].isolated /\ ~queue[i].retried
  BY <1>2 DEF InitialJob
<1> QED
  BY <1>1, <1>3 DEF RetryInv, RetriesAreLast, IsolatedAreRetries, RetriedRunsBeforeIsolated,
     RemainderOfRetryIsNext

(* Retries with the "isolated" strategy run after all first attempts and one *)
(* by one, whatever fails, crashes or is requeued meanwhile.                 *)
THEOREM RetriesAlone == Spec => []RetriesRunAlone
<1>1. Init => TypeOK /\ PhaseMatchesProcess /\ RetryInv
  BY InitTypes, InitRetryInv
<1>2. TypeOK /\ PhaseMatchesProcess /\ RetryInv /\ [Next]_vars
        => (TypeOK /\ PhaseMatchesProcess /\ RetryInv)'
  BY TypesKept, RetryInvKept
<1>3. RetryInv => RetriesRunAlone
  BY DEF RetryInv, RetriesRunAlone, RetriedRunsBeforeIsolated, IsolatedAreRetries
<1> QED
  BY <1>1, <1>2, <1>3, PTL DEF Spec

(***************************************************************************)
(* Locks and project limits.                                               *)
(***************************************************************************)
LEMMA LocksKept ==
  ASSUME TypeOK, PhaseMatchesProcess, LocksAreExclusive, [Next]_vars
  PROVE  LocksAreExclusive'
<1>1. ASSUME NEW i \in DOMAIN queue, NEW s \in Slot, Claim(i, s)
      PROVE  LocksAreExclusive'
  <2>1. /\ Busy' = Busy \cup {s}
        /\ job'[s] = queue[i]
        /\ \A r \in Busy : job'[r] = job[r]
    BY <1>1, BusyAfterClaim
  <2>2. \A r \in Busy : LocksOf[queue[i].group] \cap LocksOf[job[r].group] = {}
    BY <1>1 DEF Claim, IsFirstJobToRun, CanRun
  <2>3. \A r \in Busy : LocksOf[job[r].group] \cap LocksOf[queue[i].group] = {}
    BY <2>2
  <2> QED
    BY <2>1, <2>2, <2>3 DEF LocksAreExclusive
<1>2. ASSUME NEW s \in Busy, Released(s)
      PROVE  LocksAreExclusive'
  BY <1>2, BusyAfterRelease DEF LocksAreExclusive
<1>3. CASE Untouched
  BY <1>3 DEF Untouched, LocksAreExclusive, Busy
<1> QED
  BY <1>1, <1>2, <1>3, StepCases

(* _findFirstJobToRun never lets two jobs that share a lock run together.    *)
THEOREM LocksExclusive == Spec => []LocksAreExclusive
<1>1. Init => TypeOK /\ PhaseMatchesProcess /\ LocksAreExclusive
  BY InitTypes DEF Init, LocksAreExclusive, Busy
<1>2. TypeOK /\ PhaseMatchesProcess /\ LocksAreExclusive /\ [Next]_vars
        => (TypeOK /\ PhaseMatchesProcess /\ LocksAreExclusive)'
  BY TypesKept, LocksKept
<1> QED
  BY <1>1, <1>2, PTL DEF Spec

LEMMA LimitKept ==
  ASSUME TypeOK, PhaseMatchesProcess, ProjectLimitHolds, [Next]_vars
  PROVE  ProjectLimitHolds'
<1>0. \A p : IsFiniteSet(RunningIn(p)) /\ Cardinality(RunningIn(p)) \in Nat
  <2>1. \A p : RunningIn(p) \subseteq Slot
    BY DEF RunningIn, Busy
  <2> QED
    BY <2>1, SlotAssumption, FS_Subset, FS_CardinalityType
<1>1. ASSUME NEW i \in DOMAIN queue, NEW s \in Slot, Claim(i, s)
      PROVE  ProjectLimitHolds'
  <2>1. /\ s \notin Busy /\ Busy' = Busy \cup {s}
        /\ job'[s] = queue[i]
        /\ \A r \in Busy : job'[r] = job[r]
    BY <1>1, BusyAfterClaim
  <2> SUFFICES ASSUME NEW p \in Project, LimitOf[p] > 0
               PROVE  Cardinality(RunningIn(p)') <= LimitOf[p]
    BY DEF ProjectLimitHolds
  <2>2. CASE ProjectOf[queue[i].group] = p
    <3>1. Cardinality(RunningIn(p)) < LimitOf[p]
      BY <1>1, <2>2 DEF Claim, IsFirstJobToRun, CanRun
    <3>2. RunningIn(p)' = RunningIn(p) \cup {s} /\ s \notin RunningIn(p)
      BY <2>1, <2>2 DEF RunningIn
    <3>3. Cardinality(RunningIn(p)') = Cardinality(RunningIn(p)) + 1
      BY <1>0, <3>2, FS_AddElement
    <3>4. LimitOf[p] \in Nat
      BY GroupAssumption
    <3> QED
      BY <1>0, <3>1, <3>3, <3>4
  <2>3. CASE ProjectOf[queue[i].group] # p
    <3>1. RunningIn(p)' = RunningIn(p)
      BY <2>1, <2>3 DEF RunningIn
    <3> QED
      BY <3>1 DEF ProjectLimitHolds
  <2> QED
    BY <2>2, <2>3
<1>2. ASSUME NEW s \in Busy, Released(s)
      PROVE  ProjectLimitHolds'
  <2> SUFFICES ASSUME NEW p \in Project, LimitOf[p] > 0
               PROVE  Cardinality(RunningIn(p)') <= LimitOf[p]
    BY DEF ProjectLimitHolds
  <2>1. RunningIn(p)' \subseteq RunningIn(p)
    BY <1>2, BusyAfterRelease DEF RunningIn
  <2>2. /\ Cardinality(RunningIn(p)') \in Nat
        /\ Cardinality(RunningIn(p)') <= Cardinality(RunningIn(p))
    BY <1>0, <2>1, FS_Subset, FS_CardinalityType
  <2>3. LimitOf[p] \in Nat /\ Cardinality(RunningIn(p)) <= LimitOf[p]
    BY GroupAssumption DEF ProjectLimitHolds
  <2> QED
    BY <1>0, <2>2, <2>3
<1>3. CASE Untouched
  BY <1>3 DEF Untouched, ProjectLimitHolds, RunningIn, Busy
<1> QED
  BY <1>1, <1>2, <1>3, StepCases

(* No project ever has more busy slots than its "workers" option allows.     *)
THEOREM ProjectLimit == Spec => []ProjectLimitHolds
<1>1. Init => TypeOK /\ PhaseMatchesProcess /\ ProjectLimitHolds
  <2> SUFFICES ASSUME Init
               PROVE  TypeOK /\ PhaseMatchesProcess /\ ProjectLimitHolds
    OBVIOUS
  <2>1. \A p : RunningIn(p) = {}
    BY DEF Init, RunningIn, Busy
  <2>2. \A p \in Project : LimitOf[p] > 0 => 0 <= LimitOf[p]
    BY GroupAssumption
  <2> QED
    BY <2>1, <2>2, InitTypes, FS_EmptySet DEF ProjectLimitHolds
<1>2. TypeOK /\ PhaseMatchesProcess /\ ProjectLimitHolds /\ [Next]_vars
        => (TypeOK /\ PhaseMatchesProcess /\ ProjectLimitHolds)'
  BY TypesKept, LimitKept
<1> QED
  BY <1>1, <1>2, PTL DEF Spec

(***************************************************************************)
(* Progress of the queue and the end of the run.                           *)
(***************************************************************************)
LEMMA WaitingKept ==
  ASSUME TypeOK, PhaseMatchesProcess, NotEveryoneWaits, [Next]_vars
  PROVE  NotEveryoneWaits'
<1>1. ASSUME NEW i \in DOMAIN queue, NEW s \in Slot, Claim(i, s)
      PROVE  NotEveryoneWaits'
  BY <1>1 DEF Claim, NotEveryoneWaits
<1>2. ASSUME NEW s \in Busy, Released(s)
      PROVE  NotEveryoneWaits'
  BY <1>2 DEF Released, NotEveryoneWaits
<1>3. CASE Untouched
  <2> SUFFICES ASSUME ~scheduling', ~stopped', queue' # <<>>
               PROVE  Busy' # {}
    BY DEF NotEveryoneWaits
  <2>1. queue' = queue /\ Busy' = Busy /\ ~stopped /\ queue # <<>>
    BY <1>3 DEF Untouched, Busy
  <2>2. CASE scheduling' = scheduling
    BY <2>1, <2>2 DEF NotEveryoneWaits
  <2>3. CASE NothingToSchedule
    <3>1. CASE Busy = Slot
      BY <2>1, <3>1, SlotAssumption
    <3>2. CASE \A i \in DOMAIN queue : ~CanRun(queue[i])
      <4>1. 1 \in DOMAIN queue
        BY <2>1 DEF TypeOK
      <4> QED
        BY <2>1, <3>2, <4>1, EveryJobCanRunAlone
    <3> QED
      BY <2>1, <2>3, <3>1, <3>2 DEF NothingToSchedule
  <2> QED
    BY <1>3, <2>2, <2>3 DEF Untouched
<1> QED
  BY <1>1, <1>2, <1>3, StepCases

(* The scheduler never goes idle with queued jobs and no job running: no     *)
(* combination of locks, limits and isolated retries deadlocks a run.        *)
THEOREM SomebodyRuns == Spec => []NotEveryoneWaits
<1>1. Init => TypeOK /\ PhaseMatchesProcess /\ NotEveryoneWaits
  BY InitTypes DEF Init, NotEveryoneWaits
<1>2. TypeOK /\ PhaseMatchesProcess /\ NotEveryoneWaits /\ [Next]_vars
        => (TypeOK /\ PhaseMatchesProcess /\ NotEveryoneWaits)'
  BY TypesKept, WaitingKept
<1> QED
  BY <1>1, <1>2, PTL DEF Spec

LEMMA FinishedKept ==
  ASSUME TypeOK, PhaseMatchesProcess, FinishedMeansOver, [Next]_vars
  PROVE  FinishedMeansOver'
<1>1. ASSUME NEW i \in DOMAIN queue, NEW s \in Slot, Claim(i, s)
      PROVE  FinishedMeansOver'
  <2>1. ~stopped /\ finished' = finished /\ queue # <<>>
    BY <1>1 DEF Claim, TypeOK
  <2> QED
    BY <2>1 DEF FinishedMeansOver
<1>2. ASSUME NEW s \in Busy, Released(s)
      PROVE  FinishedMeansOver'
  <2>1. ~finished
    BY DEF FinishedMeansOver
  <2>2. finished' => (queue' = <<>> \/ stopped') /\ Busy' = {}
    BY <1>2, <2>1, BusyAfterRelease DEF Released, CheckFinished
  <2> QED
    BY <2>2 DEF FinishedMeansOver
<1>3. CASE Untouched
  BY <1>3 DEF Untouched, FinishedMeansOver, CheckFinished, Busy, TypeOK
<1> QED
  BY <1>1, <1>2, <1>3, StepCases

(* run() returns only when no slot is busy, with nothing left to do unless   *)
(* the run was stopped.                                                      *)
THEOREM FinishedIsOver == Spec => []FinishedMeansOver
<1>1. Init => TypeOK /\ PhaseMatchesProcess /\ FinishedMeansOver
  <2> SUFFICES ASSUME Init
               PROVE  TypeOK /\ PhaseMatchesProcess /\ FinishedMeansOver
    OBVIOUS
  <2>1. Busy = {}
    BY DEF Init, Busy
  <2>2. finished => stopped
    BY Zenon DEF Init
  <2> QED
    BY <2>1, <2>2, InitTypes DEF FinishedMeansOver
<1>2. TypeOK /\ PhaseMatchesProcess /\ FinishedMeansOver /\ [Next]_vars
        => (TypeOK /\ PhaseMatchesProcess /\ FinishedMeansOver)'
  BY TypesKept, FinishedKept
<1> QED
  BY <1>1, <1>2, PTL DEF Spec

(***************************************************************************)
(* Stop.  Both hops of _runJobInWorker ask again whether the run was        *)
(* stopped, and no job is claimed any more.                                 *)
(***************************************************************************)
StaysStill(s) ==
  /\ phase'[s] = "running" => phase[s] = "running"
  /\ worker'[s].process = "starting" => worker[s].process = "starting"

(* A job that ends frees its slot and leaves no worker starting.             *)
LEMMA JobOverStartsNothing ==
  ASSUME TypeOK, NEW s \in Slot, NEW w \in Worker, w.process # "starting",
         NEW failed \in BOOLEAN, NEW left, JobOver(s, w, failed, left), NEW r \in Slot
  PROVE  StaysStill(r)
<1>1. phase' = [phase EXCEPT ![s] = "free"]
  BY DEF JobOver, ReleaseSlot
<1>2. worker'[r] = worker[r] \/ worker'[r].process # "starting"
  BY DEF JobOver, Stopping, TypeOK, Worker
<1> QED
  BY <1>1, <1>2 DEF StaysStill, TypeOK

(* No worker is created and no job is sent to a worker in a stopped run.     *)
THEOREM StopIsFinal == Spec => NothingStartsAfterStop
<1>1. TypeOK /\ [Next]_vars => (stopped => \A r \in Slot : StaysStill(r))
  <2> SUFFICES ASSUME TypeOK, [Next]_vars, stopped, NEW r \in Slot
               PROVE  StaysStill(r)
    OBVIOUS
  <2>1. CASE ScheduleJob
    BY <2>1 DEF ScheduleJob, SkipWholeJob, RunInSameWorker, StartWorker, RestartWorker, Claim
  <2>2. CASE NothingToSchedule
    BY <2>2 DEF NothingToSchedule, StaysStill
  <2>3. ASSUME NEW s \in Slot, SkippedJobReturns(s) PROVE StaysStill(r)
    BY <2>3 DEF SkippedJobReturns, ReleaseSlot, StaysStill, TypeOK
  <2>4. ASSUME NEW s \in Slot, JobDone(s) PROVE StaysStill(r)
    <3>1. worker[s] \in Worker /\ worker[s].process # "starting"
      BY <2>4 DEF JobDone, TypeOK
    <3> QED
      BY <2>4, <3>1, JobOverStartsNothing DEF JobDone
  <2>5. ASSUME NEW s \in Slot, WorkerReady(s) PROVE StaysStill(r)
    BY <2>5 DEF WorkerReady, ReleaseSlot, StaysStill, TypeOK, Worker
  <2>6. ASSUME NEW s \in Slot, ProcessExited(s) PROVE StaysStill(r)
    BY <2>6 DEF ProcessExited, ReleaseSlot, StaysStill, TypeOK, Worker
  <2>7. ASSUME NEW s \in Slot, WorkerExited(s) PROVE StaysStill(r)
    <3> DEFINE none == NoWorker(worker[s])
    <3>1. none \in Worker /\ none.process = "none"
      BY DEF NoWorker, TypeOK, Worker
    <3>2. CASE phase[s] = "running"
      <4>1. PICK failed \in BOOLEAN : \E left : JobOver(s, none, failed, left)
        BY <2>7, <3>2 DEF WorkerExited
      <4>2. PICK left : JobOver(s, none, failed, left)
        BY <4>1
      <4> QED
        BY <3>1, <4>2, JobOverStartsNothing
    <3>3. CASE phase[s] # "running"
      BY <2>7, <3>1, <3>3 DEF WorkerExited, ReleaseSlot, StaysStill, TypeOK
    <3> QED
      BY <3>2, <3>3
  <2>8. CASE Stop
    BY <2>8 DEF Stop, Stopping, StaysStill, TypeOK, Worker
  <2>9. CASE UNCHANGED vars
    BY <2>9 DEF vars, StaysStill
  <2> QED
    BY <2>1, <2>2, <2>3, <2>4, <2>5, <2>6, <2>7, <2>8, <2>9 DEF Next, Terminated
<1>2. TypeOK /\ [Next]_vars => [stopped => \A s \in Slot :
       /\ phase'[s] = "running" => phase[s] = "running"
       /\ worker'[s].process = "starting" => worker[s].process = "starting"]_vars
  BY <1>1 DEF StaysStill
<1> QED
  BY <1>2, TypeCorrect, PTL DEF Spec, NothingStartsAfterStop

(***************************************************************************)
(* The worker fits the job.                                                *)
(***************************************************************************)
LEMMA ReleaseKeepsFit ==
  ASSUME TypeOK, WorkerFitsJob, NEW s \in Busy, NEW q, ReleaseSlot(s, q),
         NEW x, worker' = [worker EXCEPT ![s] = x]
  PROVE  WorkerFitsJob'
BY DEF TypeOK, WorkerFitsJob, ReleaseSlot, Busy

LEMMA JobOverKeepsFit ==
  ASSUME TypeOK, WorkerFitsJob, NEW s \in Busy, NEW w, NEW failed, NEW left, JobOver(s, w, failed, left)
  PROVE  WorkerFitsJob'
<1>1. \E x : worker' = [worker EXCEPT ![s] = x]
  BY Zenon DEF JobOver
<1>2. \E q : ReleaseSlot(s, q)
  BY Zenon DEF JobOver
<1> QED
  BY <1>1, <1>2, ReleaseKeepsFit

LEMMA FitKept ==
  ASSUME TypeOK, PhaseMatchesProcess, WorkerFitsJob, [Next]_vars
  PROVE  WorkerFitsJob'
<1>0. \A s \in Slot : phase[s] # "free" <=> s \in Busy
  BY DEF TypeOK, Busy
<1>1. ASSUME NEW i \in DOMAIN queue, NEW s \in Slot, Claim(i, s),
             NEW x, phase' = [phase EXCEPT ![s] = x],
             \E y : worker' = [worker EXCEPT ![s] = y],
             x \in {"starting", "running"} =>
               worker'[s].process # "none" /\ worker'[s].hash = HashOf[queue[i].group]
      PROVE  WorkerFitsJob'
  <2>1. job' = [job EXCEPT ![s] = queue[i]]
    BY <1>1 DEF Claim
  <2> QED
    BY <1>1, <2>1 DEF TypeOK, WorkerFitsJob, Busy
<1>2. ASSUME NEW i \in DOMAIN queue, NEW s \in Slot,
             \/ SkipWholeJob(i, s)
             \/ RunInSameWorker(i, s)
             \/ RestartWorker(i, s)
      PROVE  WorkerFitsJob'
  <2>1. worker = [worker EXCEPT ![s] = worker[s]]
    BY DEF TypeOK
  <2>2. CASE SkipWholeJob(i, s)
    BY <1>1, <2>1, <2>2 DEF SkipWholeJob
  <2>3. CASE RunInSameWorker(i, s)
    BY <1>1, <2>1, <2>3 DEF RunInSameWorker, CanReuse
  <2>4. CASE RestartWorker(i, s)
    BY <1>1, <2>4 DEF RestartWorker
  <2> QED
    BY <1>2, <2>2, <2>3, <2>4
<1>3. ASSUME NEW i \in DOMAIN queue, NEW s \in Slot, StartWorker(i, s)
      PROVE  WorkerFitsJob'
  <2>1. worker' = [worker EXCEPT ![s] = Created(HashOf[queue[i].group])]
    BY <1>3 DEF StartWorker
  <2>2. worker'[s].process # "none" /\ worker'[s].hash = HashOf[queue[i].group]
    BY <2>1 DEF Created, TypeOK
  <2> QED
    BY <1>1, <1>3, <2>1, <2>2 DEF StartWorker
<1>4. CASE NothingToSchedule
  BY <1>4 DEF NothingToSchedule, WorkerFitsJob, Busy
<1>5. ASSUME NEW s \in Slot, SkippedJobReturns(s)
      PROVE  WorkerFitsJob'
  <2>1. s \in Busy /\ ReleaseSlot(s, queue) /\ worker' = worker
    BY <1>0, <1>5 DEF SkippedJobReturns
  <2>2. worker' = [worker EXCEPT ![s] = worker[s]]
    BY <2>1 DEF TypeOK
  <2> QED
    BY <2>1, <2>2, ReleaseKeepsFit
<1>6. ASSUME NEW s \in Slot, JobDone(s)
      PROVE  WorkerFitsJob'
  <2>1. s \in Busy
    BY <1>0, <1>6 DEF JobDone
  <2>2. \E w, failed, left : JobOver(s, w, failed, left)
    BY <1>6, Zenon DEF JobDone
  <2> QED
    BY <2>1, <2>2, JobOverKeepsFit
<1>7. ASSUME NEW s \in Slot, WorkerReady(s)
      PROVE  WorkerFitsJob'
  <2>1. s \in Busy /\ phase[s] = "starting" /\ worker[s].hash = HashOf[job[s].group]
    BY <1>0, <1>7 DEF WorkerReady, PhaseMatchesProcess, WorkerFitsJob
  <2>2. worker' = [worker EXCEPT ![s] = [worker[s] EXCEPT !.process = "ready"]]
    BY <1>7 DEF WorkerReady, TypeOK
  <2>3. CASE stopped
    BY <1>7, <2>1, <2>2, <2>3, ReleaseKeepsFit DEF WorkerReady
  <2>4. CASE ~stopped
    <3>1. phase' = [phase EXCEPT ![s] = "running"] /\ job' = job
      BY <1>7, <2>4 DEF WorkerReady
    <3>2. worker'[s].process # "none" /\ worker'[s].hash = worker[s].hash
      BY <2>2 DEF TypeOK, Worker
    <3> QED
      BY <2>1, <2>2, <3>1, <3>2 DEF TypeOK, WorkerFitsJob, Busy
  <2> QED
    BY <2>3, <2>4
<1>8. ASSUME NEW s \in Slot, ProcessExited(s)
      PROVE  WorkerFitsJob'
  <2> DEFINE gone == [worker[s] EXCEPT !.process = "exited"]
  <2>1. CASE worker[s].process = "starting" /\ ~stopped
    <3>1. s \in Busy
      BY <1>0, <2>1 DEF PhaseMatchesProcess
    <3>2. \E w, failed, left : JobOver(s, w, failed, left)
      BY <1>8, <2>1, Zenon DEF ProcessExited
    <3> QED
      BY <3>1, <3>2, JobOverKeepsFit
  <2>2. CASE worker[s].process = "starting" /\ stopped
    <3>1. s \in Busy
      BY <1>0, <2>2 DEF PhaseMatchesProcess
    <3>2. worker' = [worker EXCEPT ![s] = gone] /\ ReleaseSlot(s, queue)
      BY <1>8, <2>2 DEF ProcessExited
    <3> QED
      BY <3>1, <3>2, ReleaseKeepsFit
  <2>3. CASE worker[s].process # "starting"
    <3>1. worker' = [worker EXCEPT ![s] = gone] /\ UNCHANGED <<job, phase>>
      BY <1>8, <2>3 DEF ProcessExited
    <3>2. worker'[s].process # "none" /\ worker'[s].hash = worker[s].hash
      BY <3>1 DEF TypeOK, Worker
    <3> QED
      BY <3>1, <3>2 DEF TypeOK, WorkerFitsJob, Busy
  <2> QED
    BY <2>1, <2>2, <2>3
<1>9. ASSUME NEW s \in Slot, WorkerExited(s)
      PROVE  WorkerFitsJob'
  <2>1. CASE phase[s] = "running"
    <3>1. \E w, failed, left : JobOver(s, w, failed, left)
      BY <1>9, <2>1, Zenon DEF WorkerExited
    <3> QED
      BY <1>0, <2>1, <3>1, JobOverKeepsFit
  <2>2. CASE phase[s] = "stopping" /\ stopped
    <3>1. worker' = [worker EXCEPT ![s] = NoWorker(worker[s])] /\ ReleaseSlot(s, queue)
      BY <1>9, <2>2 DEF WorkerExited
    <3> QED
      BY <1>0, <2>2, <3>1, ReleaseKeepsFit
  <2>3. CASE phase[s] = "stopping" /\ ~stopped
    <3>1. /\ worker' = [worker EXCEPT ![s] = Created(HashOf[job[s].group])]
          /\ phase' = [phase EXCEPT ![s] = "starting"]
          /\ job' = job
      BY <1>9, <2>3 DEF WorkerExited
    <3>2. worker'[s].process # "none" /\ worker'[s].hash = HashOf[job[s].group]
      BY <3>1 DEF TypeOK, Created
    <3> QED
      BY <3>1, <3>2 DEF TypeOK, WorkerFitsJob, Busy
  <2>4. CASE phase[s] = "free"
    <3>1. worker' = [worker EXCEPT ![s] = NoWorker(worker[s])] /\ UNCHANGED <<job, phase>>
      BY <1>9, <2>4 DEF WorkerExited
    <3> QED
      BY <2>4, <3>1 DEF TypeOK, WorkerFitsJob, Busy
  <2> QED
    BY <1>9, <2>1, <2>2, <2>3, <2>4 DEF WorkerExited
<1>10. CASE Stop
  <2>1. \A s \in Slot : /\ Stopping(worker[s]).process = worker[s].process
                        /\ Stopping(worker[s]).hash = worker[s].hash
    BY DEF Stopping, Worker, TypeOK
  <2> QED
    BY <1>10, <2>1 DEF Stop, WorkerFitsJob, Busy
<1>11. CASE UNCHANGED vars
  BY <1>11 DEF vars, WorkerFitsJob, Busy
<1> QED
  BY <1>2, <1>3, <1>4, <1>5, <1>6, <1>7, <1>8, <1>9, <1>10, <1>11, Zenon
     DEF Next, ScheduleJob, Terminated

(* A job is only ever sent to a worker of its own hash, that exists.         *)
THEOREM WorkerFits == Spec => []WorkerFitsJob
<1>1. Init => TypeOK /\ PhaseMatchesProcess /\ WorkerFitsJob
  BY InitTypes DEF Init, WorkerFitsJob, Busy
<1>2. TypeOK /\ PhaseMatchesProcess /\ WorkerFitsJob /\ [Next]_vars
        => (TypeOK /\ PhaseMatchesProcess /\ WorkerFitsJob)'
  BY TypesKept, FitKept
<1> QED
  BY <1>1, <1>2, PTL DEF Spec

(***************************************************************************)
(* The dispatcher is a pool of jobs.                                       *)
(***************************************************************************)
LEMMA PoolSlots ==
  /\ Pool!Working = Busy
  /\ \A p : Pool!WorkingFor(p) = RunningIn(p)
BY DEF Pool!Working, Pool!WorkingFor, Busy, RunningIn

(* What is waiting, as a set.                                               *)
Waiting == {queue[k] : k \in DOMAIN queue}

LEMMA PoolCardinality ==
  ASSUME NEW S
  PROVE  Pool!Cardinality(S) = Cardinality(S)
BY Zenon DEF Pool!Cardinality, Cardinality

LEMMA ClaimTakes ==
  ASSUME TypeOK, RetryInv, RetryInv', NEW i \in DOMAIN queue, NEW s \in Slot, Claim(i, s)
  PROVE  Pool!Next
<1>1. /\ s \notin Busy /\ Busy' = Busy \cup {s}
      /\ queue[i] \in Job /\ job'[s] = queue[i]
      /\ \A r \in Busy : job'[r] = job[r]
  BY BusyAfterClaim
<1>2. /\ ~stopped /\ CanRun(queue[i]) /\ job' = [job EXCEPT ![s] = queue[i]]
      /\ UNCHANGED <<stopped, finished>> /\ queue' = Without(queue, i)
  BY DEF Claim, IsFirstJobToRun
<1>a. /\ queue \in Seq(Job) /\ DOMAIN queue = 1..Len(queue) /\ Len(queue) \in Nat
      /\ i \in Nat
  BY DEF TypeOK
<1>b. /\ DOMAIN queue' = 1..(Len(queue) - 1)
      /\ \A k \in 1..(Len(queue) - 1) :
           /\ k < i => queue'[k] = queue[k]
           /\ k >= i => queue'[k] = queue[k + 1]
           /\ k \in DOMAIN queue /\ k + 1 \in DOMAIN queue
  BY <1>2, <1>a, WithoutIsQueue, Zenon
(* Every other entry stays, and no entry is new.                            *)
<1>c. ASSUME NEW k \in DOMAIN queue, k # i
      PROVE  \E m \in DOMAIN queue' : queue'[m] = queue[k]
  <2>1. k \in Nat
    BY <1>a
  <2>2. CASE k < i
    BY <1>a, <1>b, <2>1, <2>2
  <2>3. CASE k > i
    <3>1. k - 1 \in 1..(Len(queue) - 1) /\ k - 1 >= i /\ (k - 1) + 1 = k
      BY <1>a, <2>1, <2>3
    <3> QED
      BY <1>b, <3>1
  <2> QED
    BY <1>a, <1>c, <2>1, <2>2, <2>3
<1>d. ASSUME NEW m \in DOMAIN queue'
      PROVE  queue'[m] \in Waiting
  <2>1. m \in Nat /\ (m < i \/ m >= i)
    BY <1>a, <1>b
  <2> QED
    BY <1>b, <2>1 DEF Waiting
<1>3. Waiting' \in {Waiting, Waiting \ {queue[i]}}
  <2>1. Waiting' \subseteq Waiting
    BY <1>d DEF Waiting
  <2>2. Waiting \ {queue[i]} \subseteq Waiting'
    BY <1>c DEF Waiting
  <2> QED
    BY <2>1, <2>2
<1>4. \A r \in Busy : ~job[r].retried
  <2> SUFFICES ASSUME NEW r \in Busy, job[r].retried
               PROVE  FALSE
    OBVIOUS
  <2>1. queue[i].isolated
    BY DEF RetryInv, RetriedRunsBeforeIsolated
  <2> QED
    BY <1>2, <2>1 DEF CanRun
<1>5. ASSUME queue[i].retried
      PROVE  Busy = {} /\ \A k \in DOMAIN queue : queue[k].retried
  <2>1. Busy' = {s} /\ \A m \in DOMAIN queue' : queue'[m].isolated
    BY <1>1, <1>5 DEF RetryInv, RetriedRunsBeforeIsolated
  <2>2. \A m \in DOMAIN queue' : queue'[m].retried
    BY <2>1 DEF RetryInv, IsolatedAreRetries
  <2>3. \A k \in DOMAIN queue : queue[k].retried
    BY <1>5, <1>c, <2>2
  <2> QED
    BY <1>1, <2>1, <2>3
<1>6. Pool!MayBegin(queue[i])
  <2>1. /\ \A r \in Pool!Working : LocksOf[queue[i].group] \cap LocksOf[job[r].group] = {}
        /\ \A r \in Pool!Working : ~job[r].retried
    BY <1>2, <1>4, PoolSlots DEF CanRun
  <2>2. LimitOf[ProjectOf[queue[i].group]] > 0 =>
          Pool!Cardinality(Pool!WorkingFor(ProjectOf[queue[i].group])) < LimitOf[ProjectOf[queue[i].group]]
    <3>1. Pool!WorkingFor(ProjectOf[queue[i].group]) = RunningIn(ProjectOf[queue[i].group])
      BY PoolSlots, Zenon
    <3> QED
      BY <1>2, <3>1, PoolCardinality DEF CanRun
  <2>3. queue[i].retried => Pool!Working = {} /\ \A u \in Waiting : u.retried
    BY <1>5, PoolSlots DEF Waiting
  <2> QED
    BY <2>1, <2>2, <2>3 DEF Pool!MayBegin, Waiting
<1>7. PICK t \in {queue[k] : k \in DOMAIN queue} : t = queue[i]
  OBVIOUS
<1>8. Pool!Take(s, t)
  BY <1>1, <1>2, <1>3, <1>6, <1>7, PoolSlots DEF Pool!Take, Waiting
<1> QED
  BY <1>7, <1>8, Zenon DEF Pool!Next

LEMMA ReleaseReleases ==
  ASSUME TypeOK, NEW s \in Busy, Released(s)
  PROVE  Pool!Next
<1>1. PICK left \in Leftovers(job[s]) : queue' = left[1] \o queue \o left[2]
  BY DEF Released
<1>2. job[s] \in Job /\ s \in Slot
  BY DEF TypeOK, Busy
<1> DEFINE a == left[1]
           b == left[2]
<1>3. /\ a \in Seq(Job) /\ b \in Seq(Job)
      /\ Len(a) \in Nat /\ Len(b) \in Nat
      /\ \A i \in 1..Len(a) : a[i].retried = job[s].retried /\ LessThan(a[i], job[s])
      /\ \A i \in 1..Len(b) : b[i].retried /\ LessThan(b[i], job[s])
  BY <1>2, LeftoversType
<1>4. queue \in Seq(Job)
  BY DEF TypeOK
<1> HIDE DEF a, b
<1>5. /\ queue' \in Seq(Job)
      /\ Len(queue') = Len(a) + Len(queue) + Len(b)
      /\ \A i \in 1..Len(a) : queue'[i] = a[i]
      /\ \A i \in 1..Len(queue) : queue'[Len(a) + i] = queue[i]
      /\ \A i \in 1..Len(b) : queue'[Len(a) + Len(queue) + i] = b[i]
  <2>1. queue' = a \o queue \o b
    BY <1>1 DEF a, b
  <2> QED
    BY <1>3, <1>4, <2>1, RequeueIsQueue
<1>6. DOMAIN queue' = 1..Len(queue') /\ DOMAIN queue = 1..Len(queue) /\ Len(queue) \in Nat
  BY <1>4, <1>5
<1>7. Waiting \subseteq Waiting'
  <2> SUFFICES ASSUME NEW k \in DOMAIN queue
               PROVE  queue[k] \in Waiting'
    BY DEF Waiting
  <2>1. Len(a) + k \in DOMAIN queue' /\ queue'[Len(a) + k] = queue[k]
    BY <1>3, <1>5, <1>6
  <2> QED
    BY <2>1 DEF Waiting
<1>8. ASSUME NEW i \in DOMAIN queue', queue'[i] \notin Waiting
      PROVE  /\ LessThan(queue'[i], job[s])
             /\ job[s].retried => queue'[i].retried
  <2>1. i \in 1..(Len(a) + Len(queue) + Len(b)) /\ i \in Nat
    BY <1>5, <1>6
  <2>2. CASE i <= Len(a)
    BY <1>3, <1>5, <2>1, <2>2
  <2>3. CASE i > Len(a) /\ i <= Len(a) + Len(queue)
    <3>1. i - Len(a) \in 1..Len(queue) /\ i = Len(a) + (i - Len(a))
      BY <1>3, <1>6, <2>1, <2>3
    <3>2. queue'[i] = queue[i - Len(a)]
      BY <1>5, <3>1
    <3> QED
      BY <1>6, <1>8, <3>1, <3>2 DEF Waiting
  <2>4. CASE i > Len(a) + Len(queue)
    <3> DEFINE k == i - (Len(a) + Len(queue))
    <3>1. k \in 1..Len(b) /\ i = Len(a) + Len(queue) + k
      BY <1>3, <1>6, <2>1, <2>4
    <3>2. queue'[i] = b[k]
      BY <1>5, <3>1
    <3> QED
      BY <1>3, <3>1, <3>2
  <2> QED
    BY <1>3, <1>6, <2>1, <2>2, <2>3, <2>4
<1>9. \A t \in Waiting' \ Waiting :
        t.group = job[s].group /\ t.budget < job[s].budget /\ (job[s].retried => t.retried)
  <2> SUFFICES ASSUME NEW t \in Waiting', t \notin Waiting
               PROVE  t.group = job[s].group /\ t.budget < job[s].budget
                        /\ (job[s].retried => t.retried)
    OBVIOUS
  <2>1. PICK i \in DOMAIN queue' : t = queue'[i]
    BY DEF Waiting
  <2> QED
    BY <1>8, <2>1 DEF LessThan
<1>10. stopped => Waiting' = Waiting
  BY DEF Released, Waiting
<1>11. finished' = (finished \/ Pool!Over(Waiting', Busy \ {s}))
  <2>1. finished' = CheckFinished(queue', Busy \ {s}) /\ stopped' = stopped
    BY DEF Released
  <2>2. queue' = <<>> <=> Waiting' = {}
    <3>1. CASE queue' = <<>>
      BY <3>1 DEF Waiting
    <3>2. CASE queue' # <<>>
      <4>1. Len(queue') # 0 /\ Len(queue') \in Nat
        BY <1>5, <3>2
      <4>2. 1 \in DOMAIN queue'
        BY <1>6, <4>1
      <4>3. queue'[1] \in Waiting'
        BY <4>2 DEF Waiting
      <4> QED
        BY <3>2, <4>3
    <3> QED
      BY <3>1, <3>2
  <2> QED
    BY <2>1, <2>2 DEF CheckFinished, Pool!Over
<1>12. Pool!Release(s)
  BY <1>7, <1>9, <1>10, <1>11, PoolSlots DEF Released, Pool!Release, Waiting
<1> QED
  BY <1>2, <1>12 DEF Pool!Next

LEMMA UntouchedIsPool ==
  ASSUME TypeOK, TypeOK', Untouched, stopped' = stopped \/ finished' = finished
  PROVE  Pool!Next \/ UNCHANGED Pool!vars
<1>1. UNCHANGED <<queue, job>> /\ Waiting' = Waiting
  BY DEF Untouched, Waiting
<1>2. CASE stopped' = stopped /\ finished' = finished
  BY <1>1, <1>2 DEF Pool!vars, Waiting
<1>3. CASE stopped' # stopped
  <2>1. ~stopped /\ stopped' = TRUE /\ finished' = finished
    BY <1>3 DEF Untouched, TypeOK
  <2> QED
    BY <1>1, <2>1 DEF Pool!Close, Pool!Next, Waiting
<1>4. CASE stopped' = stopped /\ finished' # finished
  <2>1. ~finished /\ finished' = TRUE /\ (queue = <<>> \/ stopped) /\ Busy = {}
    BY <1>4 DEF Untouched, CheckFinished, TypeOK
  <2>2. queue = <<>> => Waiting = {}
    BY DEF Waiting
  <2>3. Pool!Return
    BY <1>1, <1>4, <2>1, <2>2, PoolSlots DEF Pool!Return, Pool!Over, Waiting
  <2> QED
    BY <2>3 DEF Pool!Next
<1> QED
  BY <1>2, <1>3, <1>4

(* Only stop() stops the run, and it does not return from it.               *)
LEMMA StopLeavesFinished ==
  ASSUME [Next]_vars
  PROVE  stopped' = stopped \/ finished' = finished
<1>1. ASSUME NEW s \in Slot,
             SkippedJobReturns(s) \/ JobDone(s) \/ WorkerReady(s) \/ ProcessExited(s) \/ WorkerExited(s)
      PROVE  stopped' = stopped
  BY <1>1, Zenon DEF SkippedJobReturns, JobDone, WorkerReady, ProcessExited, WorkerExited, JobOver
<1>2. CASE ScheduleJob \/ NothingToSchedule \/ Stop \/ Terminated \/ UNCHANGED vars
  BY <1>2 DEF ScheduleJob, SkipWholeJob, RunInSameWorker, StartWorker, RestartWorker, Claim,
              NothingToSchedule, Stop, Terminated, vars
<1> QED
  BY <1>1, <1>2, Zenon DEF Next

LEMMA PoolStep ==
  ASSUME TypeOK, TypeOK', PhaseMatchesProcess, RetryInv, RetryInv', [Next]_vars
  PROVE  Pool!Next \/ UNCHANGED Pool!vars
BY StepCases, ClaimTakes, ReleaseReleases, UntouchedIsPool, StopLeavesFinished

LEMMA PoolInit ==
  ASSUME Init
  PROVE  Pool!Init
<1>1. TypeOK
  BY InitTypes
<1>2. \A i \in DOMAIN queue : \E g \in Group : queue[i] = InitialJob(g)
  BY DEF Init
<1>3. \A i \in DOMAIN queue : queue[i] \in Job /\ ~queue[i].retried
  BY <1>1, <1>2 DEF TypeOK, InitialJob
<1>4. stopped \in BOOLEAN
  BY <1>1 DEF TypeOK
<1> QED
  BY <1>3, <1>4 DEF Init, Pool!Init

(* The dispatcher does what is promised of a pool of jobs: every step of its *)
(* queue, its workers and its turns is a step of the pool, or none.         *)
THEOREM PoolImplemented == Spec => ActsAsPool
<1>1. Init => TypeOK /\ PhaseMatchesProcess /\ RetryInv /\ Pool!Init
  BY InitTypes, InitRetryInv, PoolInit
<1>2. TypeOK /\ PhaseMatchesProcess /\ RetryInv /\ [Next]_vars
        => (TypeOK /\ PhaseMatchesProcess /\ RetryInv)'
  BY TypesKept, RetryInvKept
<1>3. TypeOK /\ TypeOK' /\ PhaseMatchesProcess /\ RetryInv /\ RetryInv' /\ [Next]_vars
        => [Pool!Next]_(Pool!vars)
  BY PoolStep
<1> QED
  BY <1>1, <1>2, <1>3, PTL DEF Spec, ActsAsPool, Pool!Spec

(***************************************************************************)
(* The hash counter.                                                       *)
(***************************************************************************)
OfHash(q, h)  == {i \in DOMAIN q : HashOf[q[i].group] = h}
QueuedFor(h)  == OfHash(queue, h)
WorkingFor(h) == {s \in Busy : HashOf[job[s].group] = h}

(* A step that releases a slot puts a and b around the queue, jobs of the    *)
(* same hash, and counts them in place of the job that is over.              *)
Recounted(s, a, b) ==
  LET h == HashOf[job[s].group] IN
  /\ job' = [job EXCEPT ![s] = NoJob]
  /\ queue' = a \o queue \o b
  /\ \A i \in 1..Len(a) : HashOf[a[i].group] = h
  /\ \A i \in 1..Len(b) : HashOf[b[i].group] = h
  /\ count'[h] >= count[h] - 1 + Len(a) + Len(b)
  /\ \A g \in Hash \ {h} : count'[g] = count[g]

LEMMA ReleaseRecounts ==
  ASSUME TypeOK, NEW s \in Busy, ReleaseSlot(s, queue), UNCHANGED count
  PROVE  \E a, b \in Seq(Job) : Recounted(s, a, b)
<1>1. queue \in Seq(Job) /\ <<>> \o queue \o <<>> = queue
  BY DEF TypeOK
<1>2. HashOf[job[s].group] \in Hash
  BY GroupAssumption DEF TypeOK, Busy, Job
<1>3. count[HashOf[job[s].group]] \in Int
  BY <1>2 DEF TypeOK
<1>4. <<>> \in Seq(Job) /\ Len(<<>>) = 0
  OBVIOUS
<1>5. Recounted(s, <<>>, <<>>)
  BY <1>1, <1>3, <1>4 DEF Recounted, ReleaseSlot
<1> QED
  BY <1>4, <1>5

LEMMA JobOverRecounts ==
  ASSUME TypeOK, NEW s \in Busy, NEW w, NEW failed, NEW left \in Leftovers(job[s]),
         JobOver(s, w, failed, left)
  PROVE  \E a, b \in Seq(Job) : Recounted(s, a, b)
<1> DEFINE h == HashOf[job[s].group]
<1>1. job[s] \in Job /\ h \in Hash
  BY GroupAssumption DEF TypeOK, Busy, Job
<1>2. count \in [Hash -> Int] /\ count[h] \in Int
  BY <1>1 DEF TypeOK
<1>3. ASSUME NEW a \in Seq(Job), NEW b \in Seq(Job),
             \A i \in 1..Len(a) : a[i].group = job[s].group,
             \A i \in 1..Len(b) : b[i].group = job[s].group,
             count' = [count EXCEPT ![h] = @ - 1 + Len(a) + Len(b)],
             ReleaseSlot(s, a \o queue \o b)
      PROVE  Recounted(s, a, b)
  <2>1. count'[h] = count[h] - 1 + Len(a) + Len(b) /\ \A g \in Hash \ {h} : count'[g] = count[g]
    BY <1>1, <1>2, <1>3
  <2>2. count'[h] >= count[h] - 1 + Len(a) + Len(b)
    <3>1. \A x \in Int : \A y, z \in Nat : x - 1 + y + z >= x - 1 + y + z
      OBVIOUS
    <3>2. Len(a) \in Nat /\ Len(b) \in Nat
      OBVIOUS
    <3> HIDE DEF h
    <3> QED
      BY <1>2, <2>1, <3>1, <3>2
  <2>3. /\ \A i \in 1..Len(a) : HashOf[a[i].group] = HashOf[job[s].group]
        /\ \A i \in 1..Len(b) : HashOf[b[i].group] = HashOf[job[s].group]
    BY <1>3
  <2>4. job' = [job EXCEPT ![s] = NoJob] /\ queue' = a \o queue \o b
    BY <1>3 DEF ReleaseSlot
  <2> QED
    BY <2>1, <2>2, <2>3, <2>4, Zenon DEF Recounted
<1>4. CASE stopped
  <2>1. <<>> \in Seq(Job) /\ Len(<<>>) = 0 /\ \A i \in 1..Len(<<>>) : FALSE
    OBVIOUS
  <2>2. /\ count' = [count EXCEPT ![h] = @ - 1 + Len(<<>>) + Len(<<>>)]
        /\ ReleaseSlot(s, <<>> \o queue \o <<>>)
    BY <1>4 DEF JobOver
  <2>3. Recounted(s, <<>>, <<>>)
    BY <1>3, <2>1, <2>2
  <2> QED
    BY <2>1, <2>3
<1>5. CASE ~stopped
  <2>1. /\ left[1] \in Seq(Job) /\ \A i \in 1..Len(left[1]) : left[1][i].group = job[s].group
        /\ left[2] \in Seq(Job) /\ \A i \in 1..Len(left[2]) : left[2][i].group = job[s].group
    BY <1>1, LeftoversType DEF LessThan
  <2>2. /\ count' = [count EXCEPT ![h] = @ - 1 + Len(left[1]) + Len(left[2])]
        /\ ReleaseSlot(s, left[1] \o queue \o left[2])
    BY <1>5 DEF JobOver
  <2>3. Recounted(s, left[1], left[2])
    BY <1>3, <2>1, <2>2
  <2> QED
    BY <2>1, <2>3
<1> QED
  BY <1>4, <1>5

LEMMA CountCases ==
  ASSUME TypeOK, PhaseMatchesProcess, [Next]_vars
  PROVE  \/ \E i \in DOMAIN queue, s \in Slot : Claim(i, s)
         \/ \E s \in Busy : \E a, b \in Seq(Job) : Recounted(s, a, b)
         \/ UNCHANGED <<queue, job, count>>
<1> DEFINE Goal == \/ \E i \in DOMAIN queue, s \in Slot : Claim(i, s)
                   \/ \E s \in Busy : \E a, b \in Seq(Job) : Recounted(s, a, b)
                   \/ UNCHANGED <<queue, job, count>>
<1>0. \A s \in Slot : /\ phase[s] # "free" => s \in Busy
                      /\ s \in Busy => << <<>>, <<>> >> \in Leftovers(job[s])
  BY NothingLeft DEF TypeOK, Busy
<1>a. ASSUME NEW s \in Busy, ReleaseSlot(s, queue) /\ UNCHANGED count
      PROVE  Goal
  BY <1>a, ReleaseRecounts
<1>b. ASSUME NEW s \in Busy, \E w, failed : \E left \in Leftovers(job[s]) : JobOver(s, w, failed, left)
      PROVE  Goal
  BY <1>b, JobOverRecounts
<1>1. CASE ScheduleJob
  BY <1>1, Zenon DEF ScheduleJob, SkipWholeJob, RunInSameWorker, StartWorker, RestartWorker
<1>2. ASSUME NEW s \in Slot, SkippedJobReturns(s)
      PROVE  Goal
  BY <1>0, <1>a, <1>2 DEF SkippedJobReturns
<1>3. ASSUME NEW s \in Slot, JobDone(s)
      PROVE  Goal
  <2>1. s \in Busy
    BY <1>0, <1>3 DEF JobDone
  <2>2. \E w, failed : \E left \in Leftovers(job[s]) : JobOver(s, w, failed, left)
    BY <1>0, <1>3, <2>1, Zenon DEF JobDone
  <2> QED
    BY <1>b, <2>1, <2>2
<1>4. ASSUME NEW s \in Slot, WorkerReady(s)
      PROVE  Goal
  <2>1. s \in Busy
    BY <1>0, <1>4 DEF WorkerReady, PhaseMatchesProcess
  <2> QED
    BY <1>a, <1>4, <2>1 DEF WorkerReady
<1>5. ASSUME NEW s \in Slot, ProcessExited(s)
      PROVE  Goal
  <2>1. CASE worker[s].process = "starting"
    <3>1. s \in Busy
      BY <1>0, <2>1 DEF PhaseMatchesProcess
    <3>2. CASE stopped
      BY <1>a, <1>5, <2>1, <3>1, <3>2 DEF ProcessExited
    <3>3. CASE ~stopped
      <4>1. \E w, failed : \E left \in Leftovers(job[s]) : JobOver(s, w, failed, left)
        BY <1>5, <2>1, <3>3, Zenon DEF ProcessExited
      <4> QED
        BY <1>b, <3>1, <4>1
    <3> QED
      BY <3>2, <3>3
  <2>2. CASE worker[s].process # "starting"
    BY <1>5, <2>2 DEF ProcessExited
  <2> QED
    BY <2>1, <2>2
<1>6. ASSUME NEW s \in Slot, WorkerExited(s)
      PROVE  Goal
  <2>1. CASE phase[s] = "running"
    <3>1. s \in Busy
      BY <1>0, <2>1
    <3>2. \E w, failed : \E left \in Leftovers(job[s]) : JobOver(s, w, failed, left)
      BY <1>0, <1>6, <2>1, <3>1, Zenon DEF WorkerExited
    <3> QED
      BY <1>b, <3>1, <3>2
  <2>2. CASE phase[s] = "stopping" /\ stopped
    BY <1>0, <1>a, <1>6, <2>2 DEF WorkerExited
  <2>3. CASE ~(phase[s] = "running" \/ (phase[s] = "stopping" /\ stopped))
    BY <1>6, <2>3 DEF WorkerExited
  <2> QED
    BY <2>1, <2>2, <2>3
<1>7. CASE NothingToSchedule \/ Stop \/ UNCHANGED vars
  BY <1>7 DEF NothingToSchedule, Stop, vars
<1> QED
  BY <1>1, <1>2, <1>3, <1>4, <1>5, <1>6, <1>7, Zenon DEF Next, Terminated

(* The sets that are counted are finite.                                     *)
LEMMA FiniteQueue ==
  ASSUME NEW q \in Seq(Job), NEW h
  PROVE  IsFiniteSet(OfHash(q, h)) /\ Cardinality(OfHash(q, h)) \in Nat
<1>1. Len(q) \in Nat /\ DOMAIN q = 1..Len(q)
  OBVIOUS
<1>2. IsFiniteSet(1..Len(q)) /\ OfHash(q, h) \subseteq 1..Len(q)
  BY <1>1, FS_Interval DEF OfHash
<1> QED
  BY <1>2, FS_Subset, FS_CardinalityType

LEMMA FiniteSlots ==
  ASSUME NEW S \in SUBSET Slot
  PROVE  IsFiniteSet(S) /\ Cardinality(S) \in Nat
BY SlotAssumption, FS_Subset, FS_CardinalityType

LEMMA CountsAreNat ==
  ASSUME TypeOK, TypeOK', NEW h
  PROVE  /\ IsFiniteSet(QueuedFor(h)) /\ Cardinality(QueuedFor(h)) \in Nat
         /\ IsFiniteSet(WorkingFor(h)) /\ Cardinality(WorkingFor(h)) \in Nat
         /\ Cardinality(QueuedFor(h)') \in Nat /\ Cardinality(WorkingFor(h)') \in Nat
<1>1. queue \in Seq(Job) /\ queue' \in Seq(Job)
  BY DEF TypeOK
<1>2. WorkingFor(h) \in SUBSET Slot /\ WorkingFor(h)' \in SUBSET Slot
  BY DEF WorkingFor, Busy
<1>3. /\ IsFiniteSet(QueuedFor(h)) /\ Cardinality(QueuedFor(h)) \in Nat
      /\ Cardinality(QueuedFor(h)') \in Nat
  BY <1>1, FiniteQueue DEF QueuedFor
<1> QED
  BY <1>2, <1>3, FiniteSlots

(* A claim moves a job from the queue to a slot.                             *)
LEMMA ClaimKeepsCounts ==
  ASSUME TypeOK, TypeOK', NEW i \in DOMAIN queue, NEW s \in Slot, Claim(i, s), NEW h
  PROVE  Cardinality(QueuedFor(h)') + Cardinality(WorkingFor(h)')
           <= Cardinality(QueuedFor(h)) + Cardinality(WorkingFor(h))
<1> DEFINE move == [k \in QueuedFor(h)' |-> IF k < i THEN k ELSE k + 1]
           left == QueuedFor(h) \ {i}
<1>1. /\ queue \in Seq(Job) /\ i \in 1..Len(queue) /\ DOMAIN queue = 1..Len(queue)
      /\ queue' = Without(queue, i)
  BY DEF TypeOK, Claim
<1>2. /\ DOMAIN queue' = 1..(Len(queue) - 1)
      /\ \A k \in 1..(Len(queue) - 1) : /\ k < i => queue'[k] = queue[k]
                                        /\ k >= i => queue'[k] = queue[k + 1]
  BY <1>1, WithoutIsQueue
<1>3. \A k \in QueuedFor(h)' : k \in 1..(Len(queue) - 1) /\ HashOf[queue'[k].group] = h
  BY <1>2 DEF QueuedFor, OfHash
<1>4. move \in Injection(QueuedFor(h)', left)
  <2>1. \A k \in QueuedFor(h)' : move[k] \in left
    BY <1>1, <1>2, <1>3 DEF QueuedFor, OfHash
  <2>2. \A k, l \in QueuedFor(h)' : move[k] = move[l] => k = l
    BY <1>1, <1>3
  <2>3. move \in [QueuedFor(h)' -> left]
    BY <2>1
  <2> QED
    BY <2>2, <2>3 DEF Injection, IsInjective
<1>5. IsFiniteSet(left) /\ Cardinality(left) \in Nat /\ Cardinality(QueuedFor(h)') <= Cardinality(left)
  <2>1. IsFiniteSet(left) /\ Cardinality(left) \in Nat
    BY CountsAreNat, FS_RemoveElement, FS_CardinalityType
  <2> QED
    BY <1>4, <2>1, FS_Injection
<1>6. /\ s \notin Busy /\ Busy' = Busy \cup {s} /\ job'[s] = queue[i]
      /\ \A r \in Busy : job'[r] = job[r]
  BY BusyAfterClaim
<1>7. CASE HashOf[queue[i].group] = h
  <2>1. Cardinality(left) = Cardinality(QueuedFor(h)) - 1
    <3>1. i \in QueuedFor(h)
      BY <1>1, <1>7 DEF QueuedFor, OfHash
    <3> QED
      BY <3>1, CountsAreNat, FS_RemoveElement
  <2>2. WorkingFor(h)' = WorkingFor(h) \cup {s} /\ s \notin WorkingFor(h)
    BY <1>6, <1>7 DEF WorkingFor
  <2>3. Cardinality(WorkingFor(h)') = Cardinality(WorkingFor(h)) + 1
    BY <2>2, CountsAreNat, FS_AddElement
  <2> QED
    BY <1>5, <2>1, <2>3, CountsAreNat
<1>8. CASE HashOf[queue[i].group] # h
  <2>1. WorkingFor(h)' = WorkingFor(h)
    BY <1>6, <1>8 DEF WorkingFor
  <2>2. Cardinality(left) <= Cardinality(QueuedFor(h))
    BY CountsAreNat, FS_Subset
  <2> QED
    BY <1>5, <2>1, <2>2, CountsAreNat
<1> QED
  BY <1>7, <1>8

(* Of a longer queue, what is counted lies in front, in the middle or behind. *)
LEMMA RequeueCounts ==
  ASSUME NEW a \in Seq(Job), NEW q \in Seq(Job), NEW b \in Seq(Job), NEW h
  PROVE  /\ Cardinality(OfHash(a \o q \o b, h)) <= Cardinality(OfHash(q, h)) + Len(a) + Len(b)
         /\ OfHash(a, h) = {} /\ OfHash(b, h) = {} =>
              Cardinality(OfHash(a \o q \o b, h)) <= Cardinality(OfHash(q, h))
<1> DEFINE long == a \o q \o b
           Middle == {Len(a) + i : i \in OfHash(q, h)}
           Front == 1..Len(a)
           Behind == (Len(a) + Len(q) + 1)..(Len(a) + Len(q) + Len(b))
<1>1. /\ Len(a) \in Nat /\ Len(q) \in Nat /\ Len(b) \in Nat
      /\ DOMAIN a = 1..Len(a) /\ DOMAIN q = 1..Len(q) /\ DOMAIN b = 1..Len(b)
      /\ DOMAIN long = 1..(Len(a) + Len(q) + Len(b))
      /\ \A i \in 1..Len(a) : long[i] = a[i]
      /\ \A i \in 1..Len(q) : long[Len(a) + i] = q[i]
      /\ \A i \in 1..Len(b) : long[Len(a) + Len(q) + i] = b[i]
  <2>1. Len(long) = Len(a) + Len(q) + Len(b) /\ long \in Seq(Job)
    BY RequeueIsQueue
  <2>2. DOMAIN long = 1..Len(long)
    BY <2>1
  <2> QED
    BY <2>1, <2>2, RequeueIsQueue
<1>2. IsFiniteSet(OfHash(q, h)) /\ Cardinality(OfHash(q, h)) \in Nat
  BY FiniteQueue
<1>3. /\ IsFiniteSet(Middle) /\ Cardinality(Middle) \in Nat
      /\ Cardinality(Middle) <= Cardinality(OfHash(q, h))
  <2> DEFINE move == [i \in OfHash(q, h) |-> Len(a) + i]
  <2>1. move \in Surjection(OfHash(q, h), Middle)
    BY DEF Surjection
  <2> HIDE DEF move
  <2> QED
    BY <1>2, <2>1, FS_Surjection, FS_CardinalityType
<1>4. \A i \in OfHash(long, h) :
        \/ i \in Middle
        \/ i \in Front /\ i \in OfHash(a, h)
        \/ i \in Behind /\ (i - Len(a) - Len(q)) \in OfHash(b, h)
  <2> SUFFICES ASSUME NEW i \in OfHash(long, h)
               PROVE  \/ i \in Middle
                      \/ i \in Front /\ i \in OfHash(a, h)
                      \/ i \in Behind /\ (i - Len(a) - Len(q)) \in OfHash(b, h)
    OBVIOUS
  <2>1. i \in 1..(Len(a) + Len(q) + Len(b)) /\ HashOf[long[i].group] = h
    BY <1>1 DEF OfHash
  <2>2. CASE i <= Len(a)
    BY <1>1, <2>1, <2>2 DEF OfHash
  <2>3. CASE i > Len(a) /\ i <= Len(a) + Len(q)
    <3>1. i - Len(a) \in 1..Len(q) /\ i = Len(a) + (i - Len(a))
      BY <1>1, <2>1, <2>3
    <3> QED
      BY <1>1, <2>1, <3>1 DEF OfHash
  <2>4. CASE i > Len(a) + Len(q)
    <3>1. i - Len(a) - Len(q) \in 1..Len(b) /\ i = Len(a) + Len(q) + (i - Len(a) - Len(q))
      BY <1>1, <2>1, <2>4
    <3>2. (i - Len(a) - Len(q)) \in OfHash(b, h)
      BY <1>1, <2>1, <3>1 DEF OfHash
    <3>3. i \in Behind
      BY <1>1, <2>1, <2>4
    <3> QED
      BY <3>2, <3>3
  <2> QED
    BY <1>1, <2>1, <2>2, <2>3, <2>4
<1>5. /\ IsFiniteSet(Front) /\ Cardinality(Front) = Len(a)
      /\ IsFiniteSet(Behind) /\ Cardinality(Behind) = Len(b)
  <2>1. IsFiniteSet(Front) /\ Cardinality(Front) = IF 1 > Len(a) THEN 0 ELSE Len(a) - 1 + 1
    <3> DEFINE last == Len(a)
    <3>1. last \in Nat
      BY <1>1
    <3> HIDE DEF last
    <3>2. IsFiniteSet(1..last) /\ Cardinality(1..last) = IF 1 > last THEN 0 ELSE last - 1 + 1
      BY <3>1, FS_Interval
    <3> QED
      BY <3>2 DEF last
  <2> DEFINE lo == Len(a) + Len(q) + 1   hi == Len(a) + Len(q) + Len(b)
  <2>2. lo \in Int /\ hi \in Int
    BY <1>1
  <2>3. IsFiniteSet(lo..hi) /\ Cardinality(lo..hi) = IF lo > hi THEN 0 ELSE hi - lo + 1
    <3> HIDE DEF lo, hi
    <3> QED
      BY <2>2, FS_Interval
  <2> QED
    BY <1>1, <2>1, <2>3
<1> HIDE DEF long, Front, Behind
<1>6. Cardinality(OfHash(long, h)) <= Cardinality(OfHash(q, h)) + Len(a) + Len(b)
  <2>1. /\ IsFiniteSet(Front \cup Behind)
        /\ Cardinality(Front \cup Behind) <= Len(a) + Len(b) /\ Cardinality(Front \cup Behind) \in Nat
    <3>1. Front \cap Behind = {} /\ Cardinality({}) = 0
      BY <1>1, FS_EmptySet DEF Front, Behind
    <3>2. /\ IsFiniteSet(Front \cup Behind)
          /\ Cardinality(Front \cup Behind) = Len(a) + Len(b) - Cardinality(Front \cap Behind)
      BY <1>5, FS_Union
    <3>3. Cardinality(Front \cup Behind) = Len(a) + Len(b) - 0
      BY <3>1, <3>2
    <3>4. Len(a) \in Nat /\ Len(b) \in Nat
      OBVIOUS
    <3> QED
      BY <3>2, <3>3, <3>4
  <2>2. /\ IsFiniteSet(Middle \cup (Front \cup Behind))
        /\ Cardinality(Middle \cup (Front \cup Behind)) \in Nat
        /\ Cardinality(Middle \cup (Front \cup Behind)) <= Cardinality(OfHash(q, h)) + Len(a) + Len(b)
    <3> DEFINE M == Middle   E == Front \cup Behind
    <3>1. /\ IsFiniteSet(M \cup E) /\ Cardinality(M \cup E) = Cardinality(M) + Cardinality(E) - Cardinality(M \cap E)
          /\ Cardinality(M \cap E) \in Nat /\ Cardinality(M \cup E) \in Nat
      BY <1>3, <2>1, FS_Union, FS_Intersection, FS_CardinalityType
    <3> HIDE DEF M, E
    <3>2. Cardinality(M \cup E) <= Cardinality(OfHash(q, h)) + Len(a) + Len(b)
      BY <1>1, <1>2, <1>3, <2>1, <3>1 DEF M, E
    <3> QED
      BY <3>1, <3>2 DEF M, E
  <2>3. OfHash(long, h) \subseteq Middle \cup (Front \cup Behind)
    BY <1>4
  <2>4. /\ Cardinality(OfHash(long, h)) \in Nat
        /\ Cardinality(OfHash(long, h)) <= Cardinality(Middle \cup (Front \cup Behind))
    BY <2>2, <2>3, FS_Subset, FS_CardinalityType
  <2> QED
    BY <1>1, <1>2, <2>2, <2>4
<1>7. OfHash(a, h) = {} /\ OfHash(b, h) = {} => Cardinality(OfHash(long, h)) <= Cardinality(OfHash(q, h))
  <2> SUFFICES ASSUME OfHash(a, h) = {}, OfHash(b, h) = {}
               PROVE  Cardinality(OfHash(long, h)) <= Cardinality(OfHash(q, h))
    OBVIOUS
  <2>1. OfHash(long, h) \subseteq Middle
    BY <1>4
  <2>2. Cardinality(OfHash(long, h)) \in Nat /\ Cardinality(OfHash(long, h)) <= Cardinality(Middle)
    BY <1>3, <2>1, FS_Subset, FS_CardinalityType
  <2> QED
    BY <1>2, <1>3, <2>2
<1> QED
  BY <1>6, <1>7 DEF long

LEMMA ReleaseKeepsCounts ==
  ASSUME TypeOK, TypeOK', CountCoversJobs, NEW s \in Busy, NEW a \in Seq(Job), NEW b \in Seq(Job),
         Recounted(s, a, b)
  PROVE  CountCoversJobs'
<1> DEFINE mine == HashOf[job[s].group]
<1>1. mine \in Hash
  BY GroupAssumption DEF TypeOK, Busy, Job
<1>2. Busy' = Busy \ {s} /\ \A r \in Busy' : job'[r] = job[r]
  BY DEF Recounted, TypeOK, Busy
<1> SUFFICES ASSUME NEW h \in Hash
             PROVE  Cardinality(QueuedFor(h)') + Cardinality(WorkingFor(h)') <= count'[h]
  BY DEF CountCoversJobs, QueuedFor, OfHash, WorkingFor
<1>3. Cardinality(QueuedFor(h)) + Cardinality(WorkingFor(h)) <= count[h]
  BY DEF CountCoversJobs, QueuedFor, OfHash, WorkingFor
<1>4. /\ count[h] \in Int /\ count'[h] \in Int /\ Len(a) \in Nat /\ Len(b) \in Nat
      /\ Cardinality(QueuedFor(h)) \in Nat /\ Cardinality(WorkingFor(h)) \in Nat
      /\ IsFiniteSet(WorkingFor(h))
  BY CountsAreNat DEF TypeOK
<1>5. Cardinality(QueuedFor(h)') \in Nat /\ Cardinality(WorkingFor(h)') \in Nat
  BY CountsAreNat
<1>6. CASE h = mine
  <2>1. Cardinality(QueuedFor(h)') <= Cardinality(QueuedFor(h)) + Len(a) + Len(b)
    <3>1. queue' = a \o queue \o b /\ queue \in Seq(Job)
      BY DEF Recounted, TypeOK
    <3> QED
      BY <3>1, RequeueCounts DEF QueuedFor
  <2>2. Cardinality(WorkingFor(h)') = Cardinality(WorkingFor(h)) - 1
    <3>1. WorkingFor(h)' = WorkingFor(h) \ {s} /\ s \in WorkingFor(h)
      BY <1>2, <1>6 DEF WorkingFor
    <3> QED
      BY <1>4, <3>1, FS_RemoveElement
  <2>3. count'[h] >= count[h] - 1 + Len(a) + Len(b)
    BY <1>6 DEF Recounted
  <2>4. \A q0, q1, w0, w1, n0, n1, x, y \in Int :
          (q0 + w0 <= n0 /\ q1 <= q0 + x + y /\ w1 = w0 - 1 /\ n1 >= n0 - 1 + x + y) => q1 + w1 <= n1
    OBVIOUS
  <2> HIDE DEF mine
  <2> QED
    BY ONLY <1>3, <1>4, <1>5, <2>1, <2>2, <2>3, <2>4
<1>7. CASE h # mine
  <2>1. Cardinality(QueuedFor(h)') <= Cardinality(QueuedFor(h))
    <3>1. queue' = a \o queue \o b /\ queue \in Seq(Job)
      BY DEF Recounted, TypeOK
    <3>2. OfHash(a, h) = {} /\ OfHash(b, h) = {}
      <4>1. DOMAIN a = 1..Len(a) /\ DOMAIN b = 1..Len(b)
        OBVIOUS
      <4> QED
        BY <1>7, <4>1 DEF Recounted, OfHash
    <3> QED
      BY <3>1, <3>2, RequeueCounts DEF QueuedFor
  <2>2. Cardinality(WorkingFor(h)') <= Cardinality(WorkingFor(h))
    <3>1. WorkingFor(h)' \subseteq WorkingFor(h)
      BY <1>2 DEF WorkingFor
    <3> QED
      BY <1>4, <3>1, FS_Subset
  <2>3. count'[h] = count[h]
    BY <1>7 DEF Recounted
  <2> QED
    BY <1>3, <1>4, <1>5, <2>1, <2>2, <2>3
<1> QED
  BY <1>6, <1>7

LEMMA CountKept ==
  ASSUME TypeOK, PhaseMatchesProcess, CountCoversJobs, [Next]_vars
  PROVE  CountCoversJobs'
<1>0. TypeOK'
  BY TypesKept
<1>1. ASSUME NEW i \in DOMAIN queue, NEW s \in Slot, Claim(i, s)
      PROVE  CountCoversJobs'
  <2> SUFFICES ASSUME NEW h \in Hash
               PROVE  Cardinality(QueuedFor(h)') + Cardinality(WorkingFor(h)') <= count'[h]
    BY DEF CountCoversJobs, QueuedFor, OfHash, WorkingFor
  <2>1. Cardinality(QueuedFor(h)') + Cardinality(WorkingFor(h)')
          <= Cardinality(QueuedFor(h)) + Cardinality(WorkingFor(h))
    BY <1>0, <1>1, ClaimKeepsCounts
  <2>2. Cardinality(QueuedFor(h)) + Cardinality(WorkingFor(h)) <= count[h]
    BY DEF CountCoversJobs, QueuedFor, OfHash, WorkingFor
  <2>3. count'[h] = count[h]
    BY <1>1 DEF Claim
  <2> DEFINE x == Cardinality(QueuedFor(h)') + Cardinality(WorkingFor(h)')
             y == Cardinality(QueuedFor(h)) + Cardinality(WorkingFor(h))
  <2>4. x \in Nat /\ y \in Nat /\ count[h] \in Int
    BY <1>0, CountsAreNat DEF TypeOK
  <2> QED
    BY <2>1, <2>2, <2>3, <2>4
<1>2. ASSUME NEW s \in Busy, NEW a \in Seq(Job), NEW b \in Seq(Job), Recounted(s, a, b)
      PROVE  CountCoversJobs'
  BY <1>0, <1>2, ReleaseKeepsCounts
<1>3. CASE UNCHANGED <<queue, job, count>>
  BY <1>3 DEF CountCoversJobs, Busy
<1> QED
  BY <1>1, <1>2, <1>3, CountCases

(* Every group is queued once at first.                                      *)
LEMMA InitCounts == Init => CountCoversJobs
<1> SUFFICES ASSUME Init, NEW h \in Hash
             PROVE  Cardinality(QueuedFor(h)) + Cardinality(WorkingFor(h)) <= count[h]
  BY DEF CountCoversJobs, QueuedFor, OfHash, WorkingFor
<1> DEFINE n == Cardinality(Group)
           groups == {g \in Group : HashOf[g] = h}
           of == [i \in 1..n |-> queue[i].group]
           ofHash == [i \in QueuedFor(h) |-> queue[i].group]
<1>1. /\ DOMAIN queue = 1..n
      /\ \A i \in 1..n : \E g \in Group : queue[i] = InitialJob(g)
      /\ \A g \in Group : \E i \in 1..n : queue[i] = InitialJob(g)
  BY DEF Init
<1>2. \A g : InitialJob(g).group = g
  BY DEF InitialJob
<1>3. IsFiniteSet(1..n) /\ Cardinality(1..n) = n /\ n \in Nat
  BY GroupAssumption, FS_CardinalityType, FS_Interval
<1>4. of \in Injection(1..n, Group)
  <2>1. of \in Surjection(1..n, Group)
    BY <1>1, <1>2 DEF Surjection
  <2> HIDE DEF of
  <2> QED
    BY <1>3, <2>1, GroupAssumption, FS_Surjection
<1>5. ofHash \in Injection(QueuedFor(h), groups)
  <2>1. \A i \in QueuedFor(h) : i \in 1..n /\ queue[i].group \in groups
    BY <1>1, <1>2 DEF QueuedFor, OfHash
  <2>2. \A i, k \in 1..n : queue[i].group = queue[k].group => i = k
    <3>1. \A i, k \in 1..n : of[i] = of[k] => i = k
      BY <1>4 DEF Injection, IsInjective
    <3> QED
      BY <3>1
  <2> QED
    BY <2>1, <2>2 DEF Injection, IsInjective
<1>6. IsFiniteSet(groups) /\ Cardinality(groups) \in Nat
  BY GroupAssumption, FS_Subset, FS_CardinalityType
<1>7. Cardinality(QueuedFor(h)) \in Nat /\ Cardinality(QueuedFor(h)) <= Cardinality(groups)
  <2> HIDE DEF ofHash
  <2> QED
    BY <1>5, <1>6, FS_Injection, FS_CardinalityType
<1>8. Cardinality(WorkingFor(h)) = 0
  <2>1. WorkingFor(h) = {}
    BY DEF WorkingFor, Busy, Init
  <2> QED
    BY <2>1, FS_EmptySet
<1>9. count[h] = Cardinality(groups)
  BY DEF Init
<1> QED
  BY <1>6, <1>7, <1>8, <1>9

(* However jobs are skipped, fail, crash or come back in the queue, the hash *)
(* counter covers those that are queued or running, so that no worker is     *)
(* stopped that is still needed (_isWorkerRedundant).                        *)
THEOREM CountCovers == Spec => []CountCoversJobs
<1>1. Init => TypeOK /\ PhaseMatchesProcess /\ CountCoversJobs
  BY InitTypes, InitCounts
<1>2. TypeOK /\ PhaseMatchesProcess /\ CountCoversJobs /\ [Next]_vars
        => (TypeOK /\ PhaseMatchesProcess /\ CountCoversJobs)'
  BY TypesKept, CountKept
<1> QED
  BY <1>1, <1>2, PTL DEF Spec

(* However workers are stopped, restarted or die, no worker that is needed is *)
(* redundant, and no job runs in a worker made for others.                   *)
THEOREM WorkersServe == Spec => []WorkersServeJobs
BY CountCovers, WorkerFits, PTL DEF WorkersServeJobs
=============================================================================
