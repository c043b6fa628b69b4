-------------------------- MODULE MCTestDispatcher --------------------------
(* Small instances of TestDispatcher.                                       *)
EXTENDS TestDispatcher, TLC

CONSTANTS s1, s2, g1, g2, g3, h1, h2, p1, p2, lock

TwoHashes    == g1 :> h1 @@ g2 :> h1 @@ g3 :> h2
TwoProjects  == g1 :> p1 @@ g2 :> p1 @@ g3 :> p2
SharedLock   == g1 :> {lock} @@ g2 :> {} @@ g3 :> {lock}
SecondTwice  == [g \in Group |-> IF g = g2 THEN 2 ELSE 1]
OneWorker    == p1 :> 1 @@ p2 :> 0
=============================================================================
