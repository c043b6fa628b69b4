------------------------------- MODULE JobPool -------------------------------
(***************************************************************************)
(* What the scheduler of the test runner promises, without its queue, its  *)
(* worker processes and its event loop: a pool of jobs and the slots that  *)
(* work on them.  TestDispatcher implements it.                            *)
(*                                                                         *)
(* A job is a record: the "group" its tests are from, its "budget", which  *)
(* bounds how much work it may still leave, and whether it is "retried",   *)
(* one of the isolated retries, which come last and run alone.             *)
(***************************************************************************)
EXTENDS Naturals, FiniteSets

CONSTANTS
  Slot, Job,
  ProjectOf,      (* The project of a group.                                 *)
  LocksOf,        (* The locks it needs.                                     *)
  LimitOf,        (* How many slots a project may take; 0 for any number.    *)
  Nobody          (* No job.                                                 *)

VARIABLES
  waiting,        (* The jobs that are still to be done.                     *)
  held,           (* The job each slot works on.                             *)
  closed,         (* The run was stopped.                                    *)
  returned        (* run() has returned.                                     *)

vars == <<waiting, held, closed, returned>>

Working == {s \in Slot : held[s] # Nobody}
WorkingFor(project) == {s \in Working : ProjectOf[held[s].group] = project}

(* Before any result is known nothing is a retry.                            *)
Init ==
  /\ waiting \subseteq Job /\ \A t \in waiting : ~t.retried
  /\ held = [s \in Slot |-> Nobody]
  /\ closed \in BOOLEAN
  /\ returned = closed

(* A job shares no lock with those at work, its project has a slot to spare, *)
(* and a retry has nobody at work beside it and only retries behind it.      *)
MayBegin(t) ==
  /\ \A s \in Working : LocksOf[t.group] \cap LocksOf[held[s].group] = {}
  /\ LimitOf[ProjectOf[t.group]] > 0 =>
       Cardinality(WorkingFor(ProjectOf[t.group])) < LimitOf[ProjectOf[t.group]]
  /\ \A s \in Working : ~held[s].retried
  /\ t.retried => Working = {} /\ \A u \in waiting : u.retried

Take(s, t) ==
  /\ ~closed
  /\ s \notin Working /\ t \in waiting /\ MayBegin(t)
  /\ held' = [held EXCEPT ![s] = t]
  /\ waiting' \in {waiting, waiting \ {t}}
  /\ UNCHANGED <<closed, returned>>

Over(jobs, working) == working = {} /\ (jobs = {} \/ closed)

(* A slot is done with its job, which leaves less than it was; and nothing   *)
(* once the run is stopped.  The last one returns from run().                *)
Release(s) ==
  /\ s \in Working
  /\ held' = [held EXCEPT ![s] = Nobody]
  /\ waiting \subseteq waiting'
  /\ closed => waiting' = waiting
  /\ \A t \in waiting' \ waiting :
       t.group = held[s].group /\ t.budget < held[s].budget /\ (held[s].retried => t.retried)
  /\ returned' = (returned \/ Over(waiting', Working \ {s}))
  /\ UNCHANGED closed

Close ==
  /\ ~closed /\ closed' = TRUE
  /\ UNCHANGED <<waiting, held, returned>>

Return ==
  /\ ~returned /\ Over(waiting, Working) /\ returned' = TRUE
  /\ UNCHANGED <<waiting, held, closed>>

Next ==
  \/ \E s \in Slot : (\E t \in waiting : Take(s, t)) \/ Release(s)
  \/ Close
  \/ Return

Spec == Init /\ [][Next]_vars
=============================================================================
