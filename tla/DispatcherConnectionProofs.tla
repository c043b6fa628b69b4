--------------------- MODULE DispatcherConnectionProofs ---------------------
(***************************************************************************)
(* Proofs about DispatcherConnection, for any objects, scopes, buckets and  *)
(* calls: every call is answered once, the dispatchers are one tree that    *)
(* the buckets list, and the client has the same tree once it has read what *)
(* is on the wire.                                                          *)
(***************************************************************************)
EXTENDS DispatcherConnection, SequenceTheorems, FunctionTheorems, FiniteSetTheorems,
        WellFoundedInduction, TLAPS

(***************************************************************************)
(* Numbers and lists.                                                      *)
(***************************************************************************)
(* A set of numbers that passes from each to the next up to a bound holds    *)
(* all of them.                                                              *)
LEMMA UpTo ==
  ASSUME NEW N \in Nat, NEW P, 0 \in P, \A k \in 0..N : k \in P /\ k < N => k + 1 \in P
  PROVE  \A k \in 0..N : k \in P
<1> DEFINE Bad == {k \in 0..N : k \notin P}
<1> SUFFICES ASSUME Bad # {} PROVE FALSE
  OBVIOUS
<1>1. Bad \subseteq Nat
  OBVIOUS
<1>2. PICK k \in Bad : \A m \in Bad : ~(<<m, k>> \in OpToRel(<, Nat))
  BY ONLY Bad # {}, <1>1, WFMin, NatLessThanWellFounded, Zenon
<1>3. \A m \in Bad : ~(m < k)
  BY <1>1, <1>2 DEF OpToRel
<1> HIDE DEF Bad
<1>4. k \in 0..N /\ k \notin P /\ k # 0
  BY DEF Bad
<1>5. k - 1 \in 0..N /\ k - 1 < N /\ k - 1 + 1 = k
  BY <1>4
<1>6. k - 1 \notin Bad
  BY <1>3, <1>5
<1>7. k - 1 \in P
  BY <1>5, <1>6 DEF Bad
<1> QED
  BY <1>4, <1>5, <1>7

(* The numbers of a set below one of them: its rank.                         *)
Smaller(S, t) == {u \in S : u < t}

(* Ascending lists each number of a finite set once.                         *)
LEMMA AscendingFacts ==
  ASSUME NEW S \in SUBSET Nat, IsFiniteSet(S)
  PROVE  /\ Ascending(S) \in [1..Cardinality(S) -> S]
         /\ \A t \in S : \E n \in 1..Cardinality(S) : Ascending(S)[n] = t
         /\ \A n, m \in 1..Cardinality(S) : Ascending(S)[n] = Ascending(S)[m] => n = m
         /\ Cardinality(S) \in Nat
<1> DEFINE rank == [t \in S |-> Cardinality(Smaller(S, t))]
           c == Cardinality(S)
           Ranks == 0..(c - 1)
<1>0. \A u \in S : u \in Nat
  OBVIOUS
<1>1. c \in Nat
  BY FS_CardinalityType
<1>2. \A t \in S : /\ IsFiniteSet(Smaller(S, t)) /\ Cardinality(Smaller(S, t)) \in Nat
                   /\ Cardinality(Smaller(S, t)) < c
  <2> TAKE t \in S
  <2>1. Smaller(S, t) \subseteq S /\ t \notin Smaller(S, t)
    BY <1>0 DEF Smaller
  <2>2. IsFiniteSet(Smaller(S, t)) /\ Cardinality(Smaller(S, t)) <= c /\ (c = Cardinality(Smaller(S, t)) => S = Smaller(S, t))
    BY <2>1, FS_Subset
  <2>3. Cardinality(Smaller(S, t)) \in Nat
    BY <2>2, FS_CardinalityType
  <2> QED
    BY <1>1, <2>1, <2>2, <2>3
<1>3. \A s, t \in S : s < t => Cardinality(Smaller(S, s)) < Cardinality(Smaller(S, t))
  <2> SUFFICES ASSUME NEW s \in S, NEW t \in S, s < t
               PROVE  Cardinality(Smaller(S, s)) < Cardinality(Smaller(S, t))
    OBVIOUS
  <2>a. s \in Int /\ t \in Int /\ \A u \in S : u \in Int
    BY <1>0
  <2>b. \A u \in S : u < s => u < t
    BY <2>a
  <2>c. Smaller(S, s) \subseteq Smaller(S, t)
    BY <2>b DEF Smaller
  <2>d. s \in Smaller(S, t)
    BY DEF Smaller
  <2>e. s \notin Smaller(S, s)
    BY <2>a DEF Smaller
  <2>1. Smaller(S, s) \subseteq Smaller(S, t) /\ s \in Smaller(S, t) /\ s \notin Smaller(S, s)
    BY <2>c, <2>d, <2>e
  <2>2. Cardinality(Smaller(S, s)) <= Cardinality(Smaller(S, t)) /\ Cardinality(Smaller(S, s)) # Cardinality(Smaller(S, t))
    BY <1>2, <2>1, FS_Subset
  <2> QED
    BY <1>2, <2>2
<1>4. rank \in Injection(S, Ranks)
  <2>1. rank \in [S -> Ranks]
    BY <1>1, <1>2
  <2>2. \A s, t \in S : rank[s] = rank[t] => s = t
    <3> SUFFICES ASSUME NEW s \in S, NEW t \in S, s # t PROVE rank[s] # rank[t]
      OBVIOUS
    <3>1. s < t \/ t < s
      BY <1>0
    <3> QED
      BY <1>2, <1>3, <3>1
  <2> QED
    BY <2>1, <2>2, Fun_IsInj
<1>5. IsFiniteSet(Ranks) /\ Cardinality(Ranks) = c
  <2>1. 0 \in Int /\ c - 1 \in Int /\ (IF 0 > c - 1 THEN 0 ELSE c - 1 - 0 + 1) = c
    BY <1>1
  <2> HIDE DEF c
  <2> QED
    BY <2>1, FS_Interval
<1> HIDE DEF rank, Ranks
<1>6. rank \in Surjection(S, Ranks)
  <2> HIDE DEF c
  <2> QED
    BY <1>4, <1>5, FS_Injection DEF c
<1>7. \A r \in Ranks : \E t \in S : rank[t] = r
  BY <1>6 DEF Surjection
<1>8. /\ \A s, t \in S : rank[s] = rank[t] => s = t
      /\ rank \in [S -> Ranks]
  BY <1>4, Fun_InjectionProperties
<1>14. \A t \in S : rank[t] = Cardinality(Smaller(S, t))
  BY DEF rank
<1>9. \A n \in 1..c : Ascending(S)[n] \in S /\ rank[Ascending(S)[n]] = n - 1
  <2> SUFFICES ASSUME NEW n \in 1..c
               PROVE  Ascending(S)[n] \in S /\ rank[Ascending(S)[n]] = n - 1
    OBVIOUS
  <2>1. n - 1 \in Ranks
    BY <1>1 DEF Ranks
  <2>2. \E t \in S : Cardinality(Smaller(S, t)) = n - 1
    BY <1>7, <1>14, <2>1
  <2>3. Ascending(S)[n] = CHOOSE t \in S : Cardinality(Smaller(S, t)) = n - 1
    BY DEF Ascending, Smaller
  <2> DEFINE Q(t) == Cardinality(Smaller(S, t)) = n - 1
  <2>5. \E t \in S : Q(t)
    BY <2>2
  <2>6. Ascending(S)[n] = CHOOSE t \in S : Q(t)
    BY <2>3
  <2> HIDE DEF Q
  <2>7. Ascending(S)[n] \in S /\ Q(Ascending(S)[n])
    BY ONLY <2>5, <2>6, Zenon
  <2>4. Ascending(S)[n] \in S /\ Cardinality(Smaller(S, Ascending(S)[n])) = n - 1
    BY <2>7 DEF Q
  <2> QED
    BY <1>14, <2>4
<1>10. DOMAIN Ascending(S) = 1..c /\ Ascending(S) = [n \in 1..c |-> Ascending(S)[n]]
  <2> DEFINE At(n) == CHOOSE t \in S : Cardinality({u \in S : u < t}) = n - 1
  <2>1. Ascending(S) = [n \in 1..c |-> At(n)]
    BY DEF Ascending
  <2> HIDE DEF At
  <2> QED
    BY ONLY <2>1
<1>11. Ascending(S) \in [1..c -> S]
  BY <1>9, <1>10
<1>12. ASSUME NEW t \in S PROVE \E n \in 1..c : Ascending(S)[n] = t
  <2>1. rank[t] \in Ranks
    BY <1>8
  <2> DEFINE n == rank[t] + 1
  <2>2. n \in 1..c /\ n - 1 = rank[t]
    BY <1>1, <2>1 DEF Ranks
  <2> HIDE DEF n, c
  <2>3. Ascending(S)[n] \in S /\ rank[Ascending(S)[n]] = rank[t]
    BY ONLY <1>9, <2>2
  <2>4. Ascending(S)[n] = t
    BY ONLY <1>8, <2>3, t \in S
  <2> QED
    BY <2>2, <2>4
<1>13. ASSUME NEW n \in 1..c, NEW m \in 1..c, Ascending(S)[n] = Ascending(S)[m] PROVE n = m
  <2>1. n - 1 = m - 1
    BY <1>9, <1>13
  <2> QED
    BY <1>1, <2>1
<1> QED
  BY <1>1, <1>11, <1>12, <1>13

LEMMA MinFacts ==
  ASSUME NEW S \in SUBSET Nat, S # {}
  PROVE  Min(S) \in S /\ \A t \in S : Min(S) <= t
<1>1. PICK k \in S : \A m \in S : ~(<<m, k>> \in OpToRel(<, Nat))
  BY ONLY S \in SUBSET Nat, S # {}, WFMin, NatLessThanWellFounded, Zenon
<1>2. \A m \in S : ~(m < k)
  BY <1>1 DEF OpToRel
<1>3. \A m \in S : k <= m
  BY <1>2
<1> QED
  BY <1>3 DEF Min

(* A list without some objects has the others, once if they were there once. *)
LEMMA WithoutFacts ==
  ASSUME NEW list \in Seq(Object), NEW lost
  PROVE  /\ Without(list, lost) \in Seq(Object)
         /\ ToSet(Without(list, lost)) = ToSet(list) \ lost
         /\ IsInjective(list) => IsInjective(Without(list, lost))
         /\ Len(Without(list, lost)) \in Nat /\ Len(list) \in Nat
         /\ Len(Without(list, lost)) <= Len(list)
         /\ (\E i \in DOMAIN list : list[i] \in lost) => Len(Without(list, lost)) < Len(list)
<1> DEFINE P == {i \in DOMAIN list : list[i] \notin lost}
           places == Ascending(P)
           kept == Without(list, lost)
<1>1. P \in SUBSET Nat /\ IsFiniteSet(P) /\ P \subseteq 1..Len(list) /\ Len(list) \in Nat /\ DOMAIN list = 1..Len(list)
  <2>1. Len(list) \in Nat /\ P \subseteq 1..Len(list) /\ DOMAIN list = 1..Len(list)
    OBVIOUS
  <2>2. IsFiniteSet(1..Len(list)) /\ 1..Len(list) \subseteq Nat
    BY <2>1, FS_Interval
  <2> HIDE DEF P
  <2> QED
    BY <2>1, <2>2, FS_Subset
<1>2. /\ places \in [1..Cardinality(P) -> P] /\ Cardinality(P) \in Nat
      /\ \A t \in P : \E n \in 1..Cardinality(P) : places[n] = t
      /\ \A n, m \in 1..Cardinality(P) : places[n] = places[m] => n = m
  <2> HIDE DEF P
  <2> QED
    BY <1>1, AscendingFacts
<1>3. kept = [n \in DOMAIN places |-> list[places[n]]]
  BY DEF Without
<1> HIDE DEF places, kept
<1>4. kept \in [1..Cardinality(P) -> Object]
  BY <1>1, <1>2, <1>3
<1>5. kept \in Seq(Object)
  <2> HIDE DEF P
  <2> QED
    BY <1>2, <1>4, SeqDef
<1>6. ToSet(kept) = ToSet(list) \ lost
  <2>1. DOMAIN kept = 1..Cardinality(P)
    BY <1>4
  <2>2. ASSUME NEW t \in ToSet(kept) PROVE t \in ToSet(list) \ lost
    BY <1>2, <1>3, <1>4 DEF ToSet
  <2>3. ASSUME NEW t \in ToSet(list) \ lost PROVE t \in ToSet(kept)
    <3>1. PICK i \in DOMAIN list : list[i] = t
      BY DEF ToSet
    <3>2. i \in P
      BY <2>3, <3>1
    <3>3. PICK n \in 1..Cardinality(P) : places[n] = i
      BY <1>2, <3>2
    <3>4. kept[n] = t
      BY <1>2, <1>3, <3>1, <3>3
    <3> QED
      BY <2>1, <3>4 DEF ToSet
  <2> QED
    BY <2>2, <2>3
<1>7. IsInjective(list) => IsInjective(kept)
  <2> SUFFICES ASSUME IsInjective(list), NEW n \in DOMAIN kept, NEW m \in DOMAIN kept, kept[n] = kept[m]
               PROVE  n = m
    BY DEF IsInjective
  <2>1. n \in 1..Cardinality(P) /\ m \in 1..Cardinality(P)
    BY <1>4
  <2>2. places[n] \in DOMAIN list /\ places[m] \in DOMAIN list /\ list[places[n]] = list[places[m]]
    BY <1>2, <1>3, <2>1
  <2>3. places[n] = places[m]
    BY <2>2 DEF IsInjective
  <2> QED
    BY <1>2, <2>1, <2>3
<1>8. Len(kept) = Cardinality(P)
  BY <1>2, <1>4, <1>5
<1>9. /\ IsFiniteSet(1..Len(list)) /\ Cardinality(1..Len(list)) = Len(list)
      /\ Cardinality(P) <= Cardinality(1..Len(list))
      /\ (Cardinality(1..Len(list)) = Cardinality(P) => P = 1..Len(list))
  <2>1. 1 \in Int /\ Len(list) \in Int /\ (IF 1 > Len(list) THEN 0 ELSE Len(list) - 1 + 1) = Len(list)
    BY <1>1
  <2>2. IsFiniteSet(1..Len(list)) /\ Cardinality(1..Len(list)) = Len(list)
    BY <2>1, FS_Interval
  <2> HIDE DEF P
  <2> QED
    BY <1>1, <2>2, FS_Subset
<1>10. (\E i \in DOMAIN list : list[i] \in lost) => P # 1..Len(list)
  BY <1>1
<1> HIDE DEF P
<1>11. Without(list, lost) = kept
  BY DEF kept
<1> QED
  BY <1>1, <1>2, <1>5, <1>6, <1>7, <1>8, <1>9, <1>10, <1>11

(***************************************************************************)
(* Trees, messages and states of the server.                               *)
(***************************************************************************)
Tree == [Object -> SUBSET Object]

AnyMessage ==
       [method : {"__create__", "__adopt__"}, guid : Object, child : Object, refs : SUBSET Object]
  \cup [method : {"__dispose__"}, guid : Object, reason : {"none", "gc"}, refs : SUBSET Object]
  \cup [method : {"event"}, guid : Object, refs : SUBSET Object]
  \cup [method : {"response"}, id : Call, refs : SUBSET Object]

Message == {m \in AnyMessage : m.method \in {"__create__", "__adopt__"} => m.child \in Below[m.guid]}

(* The order of the kinds of objects is respected: no object is below itself *)
(* by a detour.                                                              *)
Ordered(tree) ==
  \A o \in Object : (tree[o] # {} => o \in tree[o]) /\ \A p \in tree[o] : o \in Below[p]

(* Ancestors are live, with their own ancestors, and in one line.            *)
Complete(tree) ==
  \A o \in Object : \A p \in tree[o] :
    /\ tree[p] # {} /\ tree[p] \subseteq tree[o]
    /\ \A q \in tree[o] : p \in tree[q] \/ q \in tree[p]

OfKind(tree, k) == {o \in Object : tree[o] # {} /\ BucketOf[o] = k}
Listed(tree, lists) ==
  /\ lists \in [Bucket -> Seq(Object)]
  /\ \A k \in Bucket : ToSet(lists[k]) = OfKind(tree, k) /\ IsInjective(lists[k])
Short(list) == DisposeCount > 0 => Len(list) <= MaxDispatchers

GoodTree(tree) == tree \in Tree /\ Ordered(tree) /\ Complete(tree)

Sound(s) ==
  /\ GoodTree(s.up) /\ Listed(s.up, s.bucket) /\ s.out \in Seq(Message)
  /\ \A k \in Bucket : Short(s.bucket[k])

(* What a turn adds to the wire, which are never responses.                  *)
NoResponse(x) == x \in Seq(Message) /\ \A i \in DOMAIN x : x[i].method # "response"
Extends(s, t) == \E x \in Seq(Message) : NoResponse(x) /\ t.out = s.out \o x

LEMMA BelowFacts ==
  /\ \A o \in Object : Below[o] \subseteq Object /\ o \in Below[o] /\ BucketOf[o] \in Bucket
  /\ \A o, p, q \in Object : p \in Below[o] /\ q \in Below[p] => q \in Below[o]
  /\ \A o, p \in Object : p \in Below[o] /\ o \in Below[p] => p = o
<1>1. Below \in [Object -> SUBSET Object] /\ BucketOf \in [Object -> Bucket]
  BY RootAssumption, BucketAssumption
<1> QED
  BY <1>1, BelowAssumption

LEMMA GrownFacts ==
  ASSUME NEW tree \in Tree, Ordered(tree), NEW p \in Object, NEW o \in Object, o \in Below[p]
  PROVE  /\ Grown(tree, p, o) \in Tree /\ Ordered(Grown(tree, p, o))
         /\ Complete(tree) /\ tree[o] = {} => Complete(Grown(tree, p, o))
<1> DEFINE t == Grown(tree, p, o)
<1>1. t \in Tree /\ t[o] = tree[p] \cup {o} /\ \A g \in Object \ {o} : t[g] = tree[g]
  BY DEF Grown, Tree
<1> HIDE DEF t
<1>2. Ordered(t)
  <2> SUFFICES ASSUME NEW g \in Object
               PROVE  (t[g] # {} => g \in t[g]) /\ \A q \in t[g] : g \in Below[q]
    BY DEF Ordered
  <2>1. CASE g # o
    BY <1>1, <2>1 DEF Ordered
  <2>2. CASE g = o
    <3>1. \A q \in tree[p] : q \in Object /\ p \in Below[q]
      BY DEF Ordered, Tree
    <3> QED
      BY <1>1, <2>2, <3>1, BelowFacts
  <2> QED
    BY <2>1, <2>2
<1>3. ASSUME Complete(tree), tree[o] = {} PROVE Complete(t)
  <2>1. \A g \in Object : o \notin tree[g]
    BY <1>3 DEF Complete
  <2> SUFFICES ASSUME NEW g \in Object, NEW q \in t[g]
               PROVE  /\ t[q] # {} /\ t[q] \subseteq t[g]
                      /\ \A r \in t[g] : q \in t[r] \/ r \in t[q]
    BY DEF Complete
  <2>2. CASE g # o
    <3>1. t[g] = tree[g] /\ \A r \in t[g] : r # o /\ r \in Object /\ t[r] = tree[r]
      BY <1>1, <2>1, <2>2 DEF Tree
    <3> QED
      BY <1>3, <3>1 DEF Complete
  <2>3. CASE g = o
    <3>1. \A r \in tree[p] : r # o /\ r \in Object /\ t[r] = tree[r]
      BY <1>1, <2>1 DEF Tree
    <3>2. CASE q = o
      BY <1>1, <2>3, <3>2
    <3>3. CASE q # o
      <4>1. q \in tree[p]
        BY <1>1, <2>3, <3>3
      <4>2. tree[q] # {} /\ tree[q] \subseteq tree[p] /\ \A r \in tree[p] : q \in tree[r] \/ r \in tree[q]
        BY <1>3, <4>1 DEF Complete
      <4> QED
        BY <1>1, <2>3, <3>1, <4>1, <4>2
    <3> QED
      BY <3>2, <3>3
  <2> QED
    BY <2>2, <2>3
<1> QED
  BY <1>1, <1>2, <1>3 DEF t

LEMMA MovedFacts ==
  ASSUME NEW tree \in Tree, Ordered(tree), NEW p \in Object, NEW o \in Object, o \in Below[p]
  PROVE  /\ Moved(tree, p, o) \in Tree /\ Ordered(Moved(tree, p, o))
         /\ \A g \in Object : Moved(tree, p, o)[g] = {} <=> tree[g] = {}
         /\ Complete(tree) /\ p # o => Complete(Moved(tree, p, o))
<1> DEFINE t == Moved(tree, p, o)
<1>1. /\ t \in Tree
      /\ \A g \in Object : o \in tree[g] => t[g] = (tree[g] \ tree[o]) \cup {o} \cup tree[p]
      /\ \A g \in Object : o \notin tree[g] => t[g] = tree[g]
  BY DEF Moved, Tree
<1> HIDE DEF t
<1>2. Ordered(t)
  <2> SUFFICES ASSUME NEW g \in Object
               PROVE  (t[g] # {} => g \in t[g]) /\ \A q \in t[g] : g \in Below[q]
    BY DEF Ordered
  <2>1. CASE o \notin tree[g]
    BY <1>1, <2>1 DEF Ordered
  <2>2. CASE o \in tree[g]
    <3>1. g \in tree[g] /\ g \in Below[o]
      BY <2>2 DEF Ordered
    <3>2. g \in tree[o] => g = o
      BY <3>1, BelowFacts DEF Ordered
    <3>3. \A q \in tree[p] : q \in Object /\ p \in Below[q]
      BY DEF Ordered, Tree
    <3>4. \A q \in tree[p] : g \in Below[q]
      BY <3>1, <3>3, BelowFacts
    <3>5. \A q \in tree[g] : g \in Below[q]
      BY DEF Ordered
    <3> QED
      BY <1>1, <2>2, <3>1, <3>2, <3>4, <3>5
  <2> QED
    BY <2>1, <2>2
<1>3. \A g \in Object : t[g] = {} <=> tree[g] = {}
  BY <1>1
<1>4. ASSUME Complete(tree), p # o PROVE Complete(t)
  <2>1. o \notin tree[p]
    BY <1>4, BelowFacts DEF Ordered
  <2>2. \A q \in tree[p] : q \in Object /\ o \notin tree[q] /\ t[q] = tree[q]
    BY <1>1, <1>4, <2>1 DEF Complete, Tree
  <2> SUFFICES ASSUME NEW g \in Object, NEW q \in t[g]
               PROVE  /\ t[q] # {} /\ t[q] \subseteq t[g]
                      /\ \A r \in t[g] : q \in t[r] \/ r \in t[q]
    BY DEF Complete
  <2>3. CASE o \notin tree[g]
    <3>1. t[g] = tree[g] /\ \A r \in tree[g] : r \in Object /\ o \notin tree[r] /\ t[r] = tree[r]
      BY <1>1, <1>4, <2>3 DEF Complete, Tree
    <3> QED
      BY <1>4, <3>1 DEF Complete
  <2>4. CASE o \in tree[g]
    <3>1. t[g] = (tree[g] \ tree[o]) \cup {o} \cup tree[p]
      BY <1>1, <2>4
    <3>2. tree[o] # {} /\ o \in tree[o] /\ tree[o] \subseteq tree[g]
      BY <1>4, <2>4 DEF Complete, Ordered
    <3>3. \A r \in (tree[g] \ tree[o]) \cup {o} :
            /\ r \in Object /\ r \in tree[g] /\ o \in tree[r] /\ tree[r] \subseteq tree[g]
            /\ t[r] = (tree[r] \ tree[o]) \cup {o} \cup tree[p]
      <4> TAKE r \in (tree[g] \ tree[o]) \cup {o}
      <4>1. r \in Object /\ r \in tree[g]
        BY <2>4 DEF Tree
      <4>2. o \in tree[r] /\ tree[r] \subseteq tree[g]
        BY <1>4, <2>4, <3>2, <4>1 DEF Complete
      <4> QED
        BY <1>1, <4>1, <4>2
    <3>4. CASE q \in tree[p]
      <4>1. tree[q] # {} /\ tree[q] \subseteq tree[p] /\ \A r \in tree[p] : q \in tree[r] \/ r \in tree[q]
        BY <1>4, <3>4 DEF Complete
      <4>2. \A r \in (tree[g] \ tree[o]) \cup {o} : q \in t[r]
        BY <3>3, <3>4
      <4> QED
        BY <2>2, <3>1, <3>4, <4>1, <4>2
    <3>5. CASE q \in (tree[g] \ tree[o]) \cup {o}
      <4>1. t[q] # {} /\ t[q] \subseteq t[g]
        BY <3>1, <3>3, <3>5
      <4>2. \A r \in tree[p] : r \in t[q]
        BY <3>3, <3>5
      <4>3. ASSUME NEW r \in (tree[g] \ tree[o]) \cup {o} PROVE q \in t[r] \/ r \in t[q]
        <5>1. q \in tree[r] \/ r \in tree[q]
          BY <1>4, <3>3, <3>5 DEF Complete
        <5> QED
          BY <3>3, <3>5, <5>1
      <4> QED
        BY <3>1, <4>1, <4>2, <4>3
    <3> QED
      BY <3>1, <3>4, <3>5
  <2> QED
    BY <2>3, <2>4
<1> QED
  BY <1>1, <1>2, <1>3, <1>4 DEF t

(* The tree without some objects, and with them goes what is under them.     *)
WithoutAll(tree, lost) == [g \in Object |-> IF g \in lost THEN {} ELSE tree[g]]
Takes(tree, lost) == \A g \in Object : \A q \in tree[g] : q \in lost => g \in lost

LEMMA LostFacts ==
  ASSUME NEW tree \in Tree, NEW lost, Takes(tree, lost)
  PROVE  LET t == WithoutAll(tree, lost)
         IN  /\ t \in Tree
             /\ Ordered(tree) => Ordered(t)
             /\ Complete(tree) => Complete(t)
<1> DEFINE t == WithoutAll(tree, lost)
<1>1. t \in Tree /\ \A g \in Object : t[g] = IF g \in lost THEN {} ELSE tree[g]
  BY DEF WithoutAll, Tree
<1> HIDE DEF t
<1>2. Ordered(tree) => Ordered(t)
  BY <1>1 DEF Ordered
<1>3. ASSUME Complete(tree) PROVE Complete(t)
  <2> SUFFICES ASSUME NEW g \in Object, NEW q \in t[g]
               PROVE  /\ t[q] # {} /\ t[q] \subseteq t[g]
                      /\ \A r \in t[g] : q \in t[r] \/ r \in t[q]
    BY DEF Complete
  <2>1. t[g] = tree[g] /\ g \notin lost
    BY <1>1
  <2>2. \A r \in tree[g] : r \in Object /\ tree[r] # {} /\ tree[r] \subseteq tree[g]
    BY <1>3 DEF Complete, Tree
  <2>3. \A r \in tree[g] : t[r] = tree[r]
    BY <1>1, <2>1, <2>2 DEF Takes
  <2>4. \A r \in tree[g] : q \in tree[r] \/ r \in tree[q]
    BY <1>3, <2>1 DEF Complete
  <2> QED
    BY <2>1, <2>2, <2>3, <2>4
<1> QED
  BY <1>1, <1>2, <1>3 DEF t

LEMMA PrunedFacts ==
  ASSUME NEW tree \in Tree, NEW o
  PROVE  /\ Pruned(tree, o) = WithoutAll(tree, Under(tree, o))
         /\ Under(tree, o) = {g \in Object : o \in tree[g]}
         /\ Complete(tree) => Takes(tree, Under(tree, o))
<1>1. DOMAIN tree = Object
  BY DEF Tree
<1>2. Under(tree, o) = {g \in Object : o \in tree[g]}
  BY <1>1 DEF Under
<1>3. Complete(tree) => Takes(tree, Under(tree, o))
  BY <1>2 DEF Takes, Complete
<1> QED
  BY <1>1, <1>2, <1>3 DEF Pruned, WithoutAll

(***************************************************************************)
(* The steps of a turn.                                                    *)
(***************************************************************************)
LEMMA MessageFacts ==
  ASSUME NEW p \in Object, NEW o \in Object, NEW refs \in SUBSET Object
  PROVE  /\ o \in Below[p] => CreateMessage(p, o, refs) \in Message /\ AdoptMessage(p, o) \in Message
         /\ \A reason \in {"none", "gc"} : DisposeMessage(o, reason) \in Message
         /\ EventMessage(o, refs) \in Message
         /\ \A c \in Call : ResponseMessage(c, refs) \in Message
BY DEF CreateMessage, AdoptMessage, DisposeMessage, EventMessage, ResponseMessage, Message, AnyMessage

LEMMA OneMore ==
  ASSUME NEW s, s.out \in Seq(Message), NEW t, NEW m \in Message, m.method # "response",
         t.out = Append(s.out, m)
  PROVE  Extends(s, t) /\ t.out \in Seq(Message)
<1>1. /\ t.out \in Seq(Message) /\ t.out = s.out \o <<m>>
  BY AppendProperties, AppendIsConcat
<1>2. NoResponse(<<m>>)
  BY DEF NoResponse
<1>3. <<m>> \in Seq(Message)
  OBVIOUS
<1> QED
  BY <1>1, <1>2, <1>3 DEF Extends

LEMMA NothingMore ==
  ASSUME NEW s, s.out \in Seq(Message), NEW t, t.out = s.out
  PROVE  Extends(s, t)
<1>1. <<>> \in Seq(Message) /\ s.out \o <<>> = s.out
  BY ConcatEmptySeq, EmptySeq
<1>2. NoResponse(<<>>)
  BY DEF NoResponse
<1> QED
  BY <1>1, <1>2 DEF Extends

LEMMA MoreAndMore ==
  ASSUME NEW s, NEW t, NEW u, s.out \in Seq(Message), Extends(s, t), Extends(t, u)
  PROVE  Extends(s, u)
<1>1. PICK x \in Seq(Message) : NoResponse(x) /\ t.out = s.out \o x
  BY DEF Extends
<1>2. PICK y \in Seq(Message) : NoResponse(y) /\ u.out = t.out \o y
  BY DEF Extends
<1>3. x \o y \in Seq(Message) /\ u.out = s.out \o (x \o y)
  <2>1. \A a \in Seq(Message) : (a \o x) \o y = a \o (x \o y)
    BY ONLY x \in Seq(Message), y \in Seq(Message), ConcatAssociative
  <2>2. u.out = (s.out \o x) \o y
    BY <1>1, <1>2
  <2> QED
    BY <2>1, <2>2, ConcatProperties
<1>4. NoResponse(x \o y)
  <2>1. /\ Len(x) \in Nat /\ Len(y) \in Nat /\ DOMAIN x = 1..Len(x) /\ DOMAIN y = 1..Len(y)
        /\ DOMAIN (x \o y) = 1..(Len(x) + Len(y))
        /\ \A i \in 1..(Len(x) + Len(y)) : (x \o y)[i] = IF i <= Len(x) THEN x[i] ELSE y[i - Len(x)]
    BY <1>3, ConcatProperties, LenProperties
  <2> SUFFICES ASSUME NEW i \in 1..(Len(x) + Len(y)) PROVE (x \o y)[i].method # "response"
    BY <1>3, <2>1 DEF NoResponse
  <2>2. CASE i <= Len(x)
    <3>1. i \in 1..Len(x)
      BY <2>1, <2>2
    <3> QED
      BY <1>1, <2>1, <2>2, <3>1 DEF NoResponse
  <2>3. CASE ~(i <= Len(x))
    <3>1. i - Len(x) \in 1..Len(y)
      BY <2>1, <2>3
    <3> QED
      BY <1>2, <2>1, <2>3, <3>1 DEF NoResponse
  <2> QED
    BY <2>2, <2>3
<1> QED
  BY <1>3, <1>4 DEF Extends

LEMMA WithoutListed ==
  ASSUME NEW tree \in Tree, NEW lists, Listed(tree, lists), NEW lost
  PROVE  LET fewer == [k \in Bucket |-> Without(lists[k], lost)]
         IN  /\ Listed(WithoutAll(tree, lost), fewer)
             /\ \A k \in Bucket : /\ Len(fewer[k]) \in Nat /\ Len(lists[k]) \in Nat
                                  /\ Len(fewer[k]) <= Len(lists[k])
                                  /\ (\E i \in DOMAIN lists[k] : lists[k][i] \in lost) =>
                                       Len(fewer[k]) < Len(lists[k])
<1> DEFINE fewer == [k \in Bucket |-> Without(lists[k], lost)]
<1>1. \A k \in Bucket :
        /\ fewer[k] = Without(lists[k], lost) /\ fewer[k] \in Seq(Object)
        /\ ToSet(fewer[k]) = ToSet(lists[k]) \ lost
        /\ IsInjective(fewer[k])
        /\ Len(fewer[k]) \in Nat /\ Len(lists[k]) \in Nat
        /\ Len(fewer[k]) <= Len(lists[k])
        /\ (\E i \in DOMAIN lists[k] : lists[k][i] \in lost) => Len(fewer[k]) < Len(lists[k])
  <2> TAKE k \in Bucket
  <2>1. lists[k] \in Seq(Object) /\ IsInjective(lists[k])
    BY DEF Listed
  <2>2. fewer[k] = Without(lists[k], lost)
    OBVIOUS
  <2> HIDE DEF fewer
  <2> QED
    BY ONLY <2>1, <2>2, WithoutFacts
<1>2. fewer \in [Bucket -> Seq(Object)]
  BY <1>1
<1> HIDE DEF fewer
<1>3. \A k \in Bucket : ToSet(fewer[k]) = OfKind(WithoutAll(tree, lost), k)
  BY <1>1 DEF Listed, OfKind, WithoutAll
<1> QED
  BY <1>1, <1>2, <1>3 DEF Listed, fewer

LEMMA DisposedFacts ==
  ASSUME NEW s, Sound(s), NEW o \in Object, NEW reason \in {"none", "gc"}
  PROVE  LET t == Disposed(s, o, reason)
         IN  /\ Sound(t) /\ Extends(s, t)
             /\ t.up = Pruned(s.up, o)
             /\ t.out = Append(s.out, DisposeMessage(o, reason))
<1> DEFINE lost == Under(s.up, o)
           t    == Disposed(s, o, reason)
<1>1. /\ t.up = WithoutAll(s.up, lost) /\ t.up = Pruned(s.up, o) /\ Takes(s.up, lost)
      /\ t.bucket = [k \in Bucket |-> Without(s.bucket[k], lost)]
      /\ t.out = Append(s.out, DisposeMessage(o, reason))
  BY PrunedFacts DEF Disposed, Sound, GoodTree
<1> HIDE DEF t
<1>2. GoodTree(t.up)
  BY <1>1, LostFacts DEF Sound, GoodTree
<1>3. Listed(t.up, t.bucket) /\ \A k \in Bucket : Short(t.bucket[k])
  <2>1. s.up \in Tree /\ Listed(s.up, s.bucket)
    BY DEF Sound, GoodTree
  <2> DEFINE fewer == [k \in Bucket |-> Without(s.bucket[k], lost)]
  <2>2. /\ Listed(WithoutAll(s.up, lost), fewer)
        /\ \A k \in Bucket : /\ Len(fewer[k]) \in Nat /\ Len(s.bucket[k]) \in Nat
                             /\ Len(fewer[k]) <= Len(s.bucket[k])
    BY ONLY <2>1, WithoutListed
  <2>3. t.bucket = fewer
    BY <1>1
  <2> HIDE DEF lost, fewer
  <2> QED
    BY <1>1, <2>2, <2>3, BucketAssumption DEF Sound, Short
<1>4. DisposeMessage(o, reason) \in Message /\ DisposeMessage(o, reason).method # "response"
  BY MessageFacts DEF DisposeMessage
<1>5. Extends(s, t) /\ t.out \in Seq(Message)
  <2>1. s.out \in Seq(Message)
    BY DEF Sound
  <2> QED
    BY ONLY <1>1, <1>4, <2>1, OneMore
<1> QED
  BY <1>1, <1>2, <1>3, <1>5 DEF Sound, t

(* The constructor before it looks for something to collect.                 *)
Placed(s, p, o, refs) ==
  [up     |-> Grown(s.up, p, o),
   bucket |-> [s.bucket EXCEPT ![BucketOf[o]] = Append(@, o)],
   out    |-> Append(s.out, CreateMessage(p, o, refs))]

LEMMA PlacedFacts ==
  ASSUME NEW s, Sound(s), NEW p \in Object, NEW o \in Object, o \in Below[p], s.up[o] = {},
         NEW refs \in SUBSET Object
  PROVE  LET t == Placed(s, p, o, refs)
             b == BucketOf[o]
         IN  /\ GoodTree(t.up) /\ Listed(t.up, t.bucket) /\ t.out \in Seq(Message) /\ Extends(s, t)
             /\ t.up = Grown(s.up, p, o) /\ t.out = Append(s.out, CreateMessage(p, o, refs))
             /\ \A k \in Bucket \ {b} : t.bucket[k] = s.bucket[k]
             /\ b \in Bucket /\ Len(t.bucket[b]) \in Nat /\ t.bucket[b][Len(t.bucket[b])] = o
             /\ DisposeCount > 0 => Len(t.bucket[b]) <= MaxDispatchers + 1
<1> DEFINE t == Placed(s, p, o, refs)
           b == BucketOf[o]
           list == s.bucket[b]
<1>1. /\ t.up = Grown(s.up, p, o) /\ t.out = Append(s.out, CreateMessage(p, o, refs))
      /\ t.bucket = [s.bucket EXCEPT ![b] = Append(list, o)]
  BY DEF Placed
<1>2. b \in Bucket /\ list \in Seq(Object) /\ s.bucket \in [Bucket -> Seq(Object)]
  BY BelowFacts DEF Sound, Listed
<1> HIDE DEF t, b
<1>3. GoodTree(t.up)
  BY <1>1, GrownFacts DEF Sound, GoodTree
<1>4. t.out \in Seq(Message) /\ Extends(s, t)
  <2>1. CreateMessage(p, o, refs) \in Message /\ CreateMessage(p, o, refs).method # "response" /\ s.out \in Seq(Message)
    BY MessageFacts DEF CreateMessage, Sound
  <2> QED
    BY ONLY <1>1, <2>1, OneMore
<1>5. /\ t.bucket \in [Bucket -> Seq(Object)] /\ t.bucket[b] = Append(list, o)
      /\ \A k \in Bucket \ {b} : t.bucket[k] = s.bucket[k]
  <2>1. Append(list, o) \in Seq(Object)
    BY <1>2
  <2> QED
    BY <1>1, <1>2, <2>1
<1>6. /\ ToSet(list) = OfKind(s.up, b) /\ IsInjective(list)
      /\ \A k \in Bucket : ToSet(s.bucket[k]) = OfKind(s.up, k) /\ IsInjective(s.bucket[k])
  BY <1>2 DEF Sound, Listed
<1> HIDE DEF list
<1>7. /\ Len(list) \in Nat /\ DOMAIN list = 1..Len(list)
      /\ Len(Append(list, o)) = Len(list) + 1 /\ DOMAIN Append(list, o) = 1..(Len(list) + 1)
      /\ \A i \in 1..Len(list) : Append(list, o)[i] = list[i]
      /\ Append(list, o)[Len(list) + 1] = o
  BY <1>2, AppendProperties, LenProperties
<1>8. ToSet(Append(list, o)) = ToSet(list) \cup {o}
  <2>1. \A i \in 1..(Len(list) + 1) : i \in 1..Len(list) \/ i = Len(list) + 1
    BY <1>7
  <2>2. Len(list) + 1 \in 1..(Len(list) + 1) /\ \A i \in 1..Len(list) : i \in 1..(Len(list) + 1)
    BY <1>7
  <2> QED
    BY <1>7, <2>1, <2>2 DEF ToSet
<1>9. o \notin ToSet(list)
  BY <1>6 DEF OfKind
<1>10. IsInjective(Append(list, o))
  <2> SUFFICES ASSUME NEW i \in 1..(Len(list) + 1), NEW j \in 1..(Len(list) + 1),
                      Append(list, o)[i] = Append(list, o)[j]
               PROVE  i = j
    BY <1>7 DEF IsInjective
  <2>1. \A n \in 1..(Len(list) + 1) : n = Len(list) + 1 \/ (n \in 1..Len(list) /\ list[n] # o)
    BY <1>7, <1>9 DEF ToSet
  <2>2. CASE i = Len(list) + 1 \/ j = Len(list) + 1
    BY <1>7, <2>1, <2>2
  <2>3. CASE i # Len(list) + 1 /\ j # Len(list) + 1
    <3>1. i \in DOMAIN list /\ j \in DOMAIN list /\ list[i] = list[j]
      BY <1>7, <2>1, <2>3
    <3> QED
      BY <1>6, <3>1 DEF IsInjective
  <2> QED
    BY <2>2, <2>3
<1>11. \A g \in Object : t.up[g] # {} <=> (g = o \/ s.up[g] # {})
  BY <1>1 DEF Grown, Sound, GoodTree, Tree
<1>12. Listed(t.up, t.bucket)
  <2> SUFFICES ASSUME NEW k \in Bucket
               PROVE  ToSet(t.bucket[k]) = OfKind(t.up, k) /\ IsInjective(t.bucket[k])
    BY <1>5 DEF Listed
  <2>1. CASE k # b
    <3>1. OfKind(t.up, k) = OfKind(s.up, k)
      BY <1>11, <2>1 DEF OfKind, b
    <3> QED
      BY <1>5, <1>6, <2>1, <3>1
  <2>2. CASE k = b
    <3>1. OfKind(t.up, b) = OfKind(s.up, b) \cup {o}
      BY <1>11 DEF OfKind, b
    <3> QED
      BY <1>5, <1>6, <1>8, <1>10, <2>2, <3>1
  <2> QED
    BY <2>1, <2>2
<1>13. DisposeCount > 0 => Len(t.bucket[b]) <= MaxDispatchers + 1
  <2>1. Short(list)
    BY <1>2 DEF Sound, list
  <2> QED
    BY <1>5, <1>7, <2>1, BucketAssumption DEF Short
<1> QED
  BY <1>1, <1>2, <1>3, <1>4, <1>5, <1>7, <1>12, <1>13 DEF t, b

LEMMA CollectedFacts ==
  ASSUME NEW s, NEW k \in Bucket, GoodTree(s.up), Listed(s.up, s.bucket), s.out \in Seq(Message),
         \A b \in Bucket \ {k} : Short(s.bucket[b]),
         DisposeCount > 0 => Len(s.bucket[k]) <= MaxDispatchers + 1
  PROVE  /\ Sound(Collected(s, k)) /\ Extends(s, Collected(s, k))
         /\ Len(s.bucket[k]) <= MaxDispatchers => Collected(s, k) = s
         /\ \A g \in Object : Collected(s, k).up[g] = s.up[g] \/ Collected(s, k).up[g] = {}
<1> DEFINE list  == s.bucket[k]
           lost  == {g \in Object : \E i \in 1..DisposeCount : list[i] \in s.up[g]}
           F     == {i \in 1..DisposeCount : \A j \in 1..(i - 1) : list[j] \notin s.up[list[i]]}
           first == Ascending(F)
           x     == [n \in DOMAIN first |-> DisposeMessage(list[first[n]], "gc")]
           fewer == [b \in Bucket |-> Without(s.bucket[b], lost)]
           t     == Collected(s, k)
<1>1. /\ list \in Seq(Object) /\ Len(list) \in Nat /\ DOMAIN list = 1..Len(list)
      /\ DisposeCount \in Nat /\ MaxDispatchers \in Nat /\ DisposeCount <= MaxDispatchers
      /\ \A i \in 1..Len(list) : list[i] \in Object /\ list[i] \in OfKind(s.up, k)
  <2>1. list \in Seq(Object)
    BY DEF Listed
  <2>2. Len(list) \in Nat /\ DOMAIN list = 1..Len(list) /\ \A i \in 1..Len(list) : list[i] \in Object
    BY <2>1, LenProperties, ElementOfSeq
  <2>3. \A i \in 1..Len(list) : list[i] \in ToSet(list)
    BY <2>2 DEF ToSet
  <2> QED
    BY <2>1, <2>2, <2>3, BucketAssumption DEF Listed
<1>2. CASE Len(list) <= MaxDispatchers
  <2>1. t = s
    BY <1>2 DEF Collected
  <2>2. Short(list) /\ \A b \in Bucket : b = k \/ Short(s.bucket[b])
    BY <1>2 DEF Short
  <2>3. Extends(s, s)
    BY NothingMore
  <2> QED
    BY <2>1, <2>2, <2>3 DEF Sound
<1>3. CASE ~(Len(list) <= MaxDispatchers)
  <2>2. t = [up |-> WithoutAll(s.up, lost), bucket |-> fewer, out |-> s.out \o x]
    BY <1>3, Zenon DEF Collected, WithoutAll
  <2> HIDE DEF x, fewer, t
  <2>3. t.up = WithoutAll(s.up, lost) /\ t.bucket = fewer /\ t.out = s.out \o x
    BY <2>2
  <2>1. Takes(s.up, lost)
    BY DEF Takes, GoodTree, Complete
  <2>4. GoodTree(t.up)
    <3> HIDE DEF lost
    <3> QED
      BY <2>1, <2>3, LostFacts DEF GoodTree
  <2>5. /\ Listed(t.up, t.bucket)
        /\ \A b \in Bucket : /\ Len(t.bucket[b]) \in Nat /\ Len(s.bucket[b]) \in Nat
                             /\ Len(t.bucket[b]) <= Len(s.bucket[b])
                             /\ (\E i \in DOMAIN s.bucket[b] : s.bucket[b][i] \in lost) =>
                                   Len(t.bucket[b]) < Len(s.bucket[b])
    <3>1. s.up \in Tree
      BY DEF GoodTree
    <3>2. /\ Listed(WithoutAll(s.up, lost), fewer)
          /\ \A b \in Bucket : /\ Len(fewer[b]) \in Nat /\ Len(s.bucket[b]) \in Nat
                               /\ Len(fewer[b]) <= Len(s.bucket[b])
                               /\ (\E i \in DOMAIN s.bucket[b] : s.bucket[b][i] \in lost) =>
                                     Len(fewer[b]) < Len(s.bucket[b])
      <4> HIDE DEF lost
      <4> QED
        BY ONLY <3>1, Listed(s.up, s.bucket), WithoutListed DEF fewer
    <3> HIDE DEF lost
    <3> QED
      BY <2>3, <3>2
  <2>6. ASSUME NEW b \in Bucket PROVE Short(t.bucket[b])
    <3>1. CASE b # k
      <4>1. Short(s.bucket[b]) /\ Len(t.bucket[b]) <= Len(s.bucket[b]) /\ Len(t.bucket[b]) \in Nat /\ Len(s.bucket[b]) \in Nat
        BY <2>5, <3>1
      <4>2. MaxDispatchers \in Nat
        BY <1>1
      <4> QED
        BY ONLY <4>1, <4>2 DEF Short
    <3>2. CASE b = k /\ DisposeCount > 0
      <4>1. 1 \in 1..DisposeCount /\ 1 \in 1..Len(list)
        BY <1>1, <1>3, <3>2
      <4>2. list[1] \in Object /\ s.up[list[1]] # {}
        BY <1>1, <4>1 DEF OfKind
      <4>3. list[1] \in lost
        BY <4>1, <4>2 DEF GoodTree, Ordered
      <4> HIDE DEF lost
      <4>4. Len(t.bucket[k]) < Len(s.bucket[k]) /\ Len(t.bucket[k]) \in Nat /\ Len(s.bucket[k]) \in Nat
        BY <1>1, <2>5, <4>1, <4>3
      <4>5. Len(s.bucket[k]) <= MaxDispatchers + 1 /\ MaxDispatchers \in Nat
        BY <1>1, <3>2
      <4> QED
        BY ONLY <3>2, <4>4, <4>5 DEF Short
    <3>3. CASE ~(DisposeCount > 0)
      BY <3>3 DEF Short
    <3> QED
      BY <3>1, <3>2, <3>3
  <2>7. x \in Seq(Message) /\ NoResponse(x)
    <3>1. F \in SUBSET Nat /\ IsFiniteSet(F) /\ F \subseteq 1..DisposeCount
      <4>1. F \subseteq 1..DisposeCount /\ 1..DisposeCount \subseteq Nat
        BY <1>1
      <4>2. IsFiniteSet(1..DisposeCount)
        BY <1>1, FS_Interval
      <4> HIDE DEF F
      <4> QED
        BY <4>1, <4>2, FS_Subset
    <3>2. first \in [1..Cardinality(F) -> F] /\ Cardinality(F) \in Nat
      <4> HIDE DEF F
      <4> QED
        BY <3>1, AscendingFacts
    <3>3. \A i \in 1..DisposeCount : DisposeMessage(list[i], "gc") \in Message
      <4>1. \A i \in 1..DisposeCount : list[i] \in Object
        BY <1>1, <1>3
      <4> HIDE DEF list
      <4> QED
        BY <4>1, MessageFacts
    <3> USE DEF x
    <3> HIDE DEF first, F, list
    <3>4. x \in [1..Cardinality(F) -> Message] /\ \A i \in DOMAIN x : x[i].method # "response"
      BY <3>1, <3>2, <3>3 DEF DisposeMessage
    <3> HIDE DEF x
    <3>5. x \in Seq(Message)
      BY <3>2, <3>4, SeqDef
    <3> QED
      BY <3>4, <3>5 DEF NoResponse
  <2>8. t.out \in Seq(Message) /\ Extends(s, t)
    BY <2>3, <2>7, ConcatProperties DEF Extends
  <2>9. \A g \in Object : t.up[g] = s.up[g] \/ t.up[g] = {}
    <3> HIDE DEF lost
    <3> QED
      BY <2>3 DEF WithoutAll
  <2> QED
    BY <1>3, <2>4, <2>5, <2>6, <2>8, <2>9 DEF Sound, t
<1> QED
  BY <1>2, <1>3

LEMMA CreatedFacts ==
  ASSUME NEW s, Sound(s), NEW p \in Object, NEW o \in Object, o \in Below[p], s.up[o] = {},
         NEW refs \in SUBSET Object
  PROVE  /\ Sound(Created(s, p, o, refs)) /\ Extends(s, Created(s, p, o, refs))
         /\ \A g \in Object \ {o} : s.up[g] = {} => Created(s, p, o, refs).up[g] = {}
<1> DEFINE t == Placed(s, p, o, refs)
           b == BucketOf[o]
<1>1. /\ GoodTree(t.up) /\ Listed(t.up, t.bucket) /\ t.out \in Seq(Message) /\ Extends(s, t)
      /\ \A k \in Bucket \ {b} : t.bucket[k] = s.bucket[k]
      /\ b \in Bucket /\ (DisposeCount > 0 => Len(t.bucket[b]) <= MaxDispatchers + 1)
      /\ t.up = Grown(s.up, p, o)
  BY PlacedFacts
<1>2. Created(s, p, o, refs) = Collected(t, b)
  BY DEF Created, Placed
<1>3. b \in Bucket /\ s.out \in Seq(Message) /\ \A k \in Bucket \ {b} : Short(t.bucket[k])
  BY <1>1, BelowFacts DEF Sound
<1>6. \A g \in Object \ {o} : t.up[g] = s.up[g]
  BY <1>1 DEF Grown, Sound, GoodTree, Tree
<1> HIDE DEF t, b
<1>4. /\ Sound(Collected(t, b)) /\ Extends(t, Collected(t, b))
      /\ \A g \in Object : Collected(t, b).up[g] = t.up[g] \/ Collected(t, b).up[g] = {}
  BY ONLY <1>1, <1>3, CollectedFacts
<1>5. Extends(s, Collected(t, b))
  BY ONLY <1>1, <1>3, <1>4, MoreAndMore
<1> QED
  BY <1>2, <1>4, <1>5, <1>6

LEMMA PresentFacts ==
  ASSUME NEW s, Sound(s), NEW p \in Object, NEW o \in Object, o \in Below[p]
  PROVE  /\ Sound(Present(s, p, o)) /\ Extends(s, Present(s, p, o))
         /\ \A g \in Object \ {o} : s.up[g] = {} => Present(s, p, o).up[g] = {}
<1>1. CASE s.up[o] = {}
  <2>1. Present(s, p, o) = Created(s, p, o, {})
    BY <1>1 DEF Present
  <2> QED
    BY <1>1, <2>1, CreatedFacts
<1>2. CASE s.up[o] # {}
  BY <1>2, NothingMore DEF Present, Sound
<1> QED
  BY <1>1, <1>2

LEMMA AdoptedFacts ==
  ASSUME NEW s, Sound(s), NEW p \in Object, NEW o \in Object, o \in Below[p], o # p
  PROVE  Sound(AdoptedBy(s, p, o)) /\ Extends(s, AdoptedBy(s, p, o))
<1> DEFINE t == AdoptedBy(s, p, o)
<1>1. CASE s.up[o] \ {o} = s.up[p]
  BY <1>1, NothingMore DEF AdoptedBy, Sound
<1>2. CASE s.up[o] \ {o} # s.up[p]
  <2>1. /\ t = [s EXCEPT !.up = Moved(s.up, p, o), !.out = Append(@, AdoptMessage(p, o))]
    BY <1>2 DEF AdoptedBy
  <2> HIDE DEF t
  <2>2. t.up = Moved(s.up, p, o) /\ t.bucket = s.bucket /\ t.out = Append(s.out, AdoptMessage(p, o))
    BY <2>1
  <2>3. GoodTree(t.up) /\ \A g \in Object : t.up[g] = {} <=> s.up[g] = {}
    BY <2>2, MovedFacts DEF Sound, GoodTree
  <2>4. Listed(t.up, t.bucket)
    BY <2>2, <2>3 DEF Sound, Listed, OfKind
  <2>5. AdoptMessage(p, o) \in Message /\ AdoptMessage(p, o).method # "response" /\ s.out \in Seq(Message)
    BY MessageFacts DEF AdoptMessage, Sound
  <2>6. Extends(s, t) /\ t.out \in Seq(Message)
    BY ONLY <2>2, <2>5, OneMore
  <2>7. Sound(t)
    BY <2>2, <2>3, <2>4, <2>6 DEF Sound
  <2> QED
    BY <2>6, <2>7 DEF t
<1> QED
  BY <1>1, <1>2

(* The scope of an object is one that the code names, a live one if any is.  *)
LEMMA ScopeFacts ==
  ASSUME NEW s, NEW o \in Object \ {Root}
  PROVE  /\ ScopeFor(s, o) \in Object /\ o \in Below[ScopeFor(s, o)]
         /\ \E i \in DOMAIN Scopes[o] : ScopeFor(s, o) = Scopes[o][i]
         /\ (\E p \in ToSet(Scopes[o]) : s.up[p] # {}) => s.up[ScopeFor(s, o)] # {}
<1> DEFINE live == {i \in DOMAIN Scopes[o] : s.up[Scopes[o][i]] # {}}
<1>1. /\ Scopes[o] \in Seq(Object) /\ Scopes[o] # <<>>
  BY ScopeAssumption
<1>2. /\ Len(Scopes[o]) \in 1..Len(Scopes[o]) /\ DOMAIN Scopes[o] = 1..Len(Scopes[o])
      /\ \A i \in 1..Len(Scopes[o]) : Scopes[o][i] \in Object
  BY <1>1, ElementOfSeq
<1>3. live # {} => Min(live) \in live
  <2>1. live \in SUBSET Nat
    BY <1>2
  <2> HIDE DEF live
  <2> QED
    BY <2>1, MinFacts
<1>4. ScopeFor(s, o) = Scopes[o][IF live = {} THEN Len(Scopes[o]) ELSE Min(live)]
  BY DEF ScopeFor
<1>5. PICK i \in DOMAIN Scopes[o] : ScopeFor(s, o) = Scopes[o][i] /\ (live # {} => i \in live)
  BY <1>2, <1>3, <1>4
<1>6. (\E p \in ToSet(Scopes[o]) : s.up[p] # {}) => live # {}
  BY DEF ToSet
<1>7. ScopeFor(s, o) \in Object /\ o \in Below[ScopeFor(s, o)]
  BY <1>2, <1>5, BelowAssumption
<1> QED
  BY <1>5, <1>6, <1>7

LEMMA FromFacts ==
  ASSUME NEW s, Sound(s), NEW o \in Object, o # Root \/ s.up[o] # {}
  PROVE  Sound(From(s, o)) /\ Extends(s, From(s, o))
<1> DEFINE scope == ScopeFor(s, o)
           part  == CHOOSE f \in Adopted[o] : TRUE
<1>1. CASE s.up[o] # {}
  <2>1. From(s, o) = s
    BY <1>1 DEF From
  <2> QED
    BY <2>1, NothingMore DEF Sound
<1>2. CASE s.up[o] = {} /\ Adopted[o] = {}
  <2>1. From(s, o) = Created(s, scope, o, {})
    BY <1>2 DEF From
  <2>2. scope \in Object /\ o \in Below[scope]
    BY <1>2, ScopeFacts
  <2> HIDE DEF scope
  <2> QED
    BY <1>2, <2>1, <2>2, CreatedFacts
<1>3. CASE s.up[o] = {} /\ Adopted[o] # {}
  <2>1. part \in Adopted[o]
    BY <1>3
  <2> DEFINE t == Present(s, scope, part)
             u == Created(t, scope, o, {part})
  <2>2. From(s, o) = AdoptedBy(u, o, part)
    BY <1>3 DEF From
  <2>3. scope \in Object /\ o \in Below[scope]
    BY <1>3, ScopeFacts
  <2> HIDE DEF scope, part
  <2>4. part \in Object /\ part # o /\ part \in Below[o]
    BY <2>1, RootAssumption, BelowAssumption
  <2>5. part \in Below[scope]
    BY <2>3, <2>4, BelowFacts
  <2>6. Sound(t) /\ Extends(s, t) /\ t.up[o] = {}
    BY <1>3, <2>3, <2>4, <2>5, PresentFacts
  <2> HIDE DEF t
  <2>7. Sound(u) /\ Extends(t, u)
    BY <2>3, <2>4, <2>6, CreatedFacts
  <2> HIDE DEF u
  <2>8. Sound(AdoptedBy(u, o, part)) /\ Extends(u, AdoptedBy(u, o, part))
    BY <2>4, <2>7, AdoptedFacts
  <2>9. s.out \in Seq(Message)
    BY DEF Sound
  <2>10. Extends(s, u)
    BY ONLY <2>6, <2>7, <2>9, MoreAndMore
  <2>11. Extends(s, AdoptedBy(u, o, part))
    BY ONLY <2>8, <2>9, <2>10, MoreAndMore
  <2> QED
    BY <2>2, <2>8, <2>11
<1> QED
  BY <1>1, <1>2, <1>3

LEMMA EmittedFacts ==
  ASSUME NEW s, Sound(s), NEW o \in Object, NEW refs \in SUBSET Object
  PROVE  Sound(Emitted(s, o, refs)) /\ Extends(s, Emitted(s, o, refs)) /\ Emitted(s, o, refs).up = s.up
<1> DEFINE t == Emitted(s, o, refs)
<1>1. t.up = s.up /\ t.bucket = s.bucket /\ t.out = Append(s.out, EventMessage(o, refs))
  BY DEF Emitted
<1>2. EventMessage(o, refs) \in Message /\ EventMessage(o, refs).method # "response" /\ s.out \in Seq(Message)
  BY MessageFacts DEF EventMessage, Sound
<1> HIDE DEF t
<1>3. Extends(s, t) /\ t.out \in Seq(Message)
  BY ONLY <1>1, <1>2, OneMore
<1> QED
  BY <1>1, <1>3 DEF Sound, t

LEMMA ClosedFacts ==
  ASSUME NEW s, Sound(s), NEW o \in Object
  PROVE  Sound(Closed(s, o)) /\ Extends(s, Closed(s, o))
<1> DEFINE t == Emitted(s, o, {})
<1>1. Sound(t) /\ Extends(s, t)
  BY EmittedFacts
<1> HIDE DEF t
<1>2. Sound(Disposed(t, o, "none")) /\ Extends(t, Disposed(t, o, "none"))
  BY <1>1, DisposedFacts
<1>3. s.out \in Seq(Message)
  BY DEF Sound
<1>4. Extends(s, Disposed(t, o, "none"))
  BY ONLY <1>1, <1>2, <1>3, MoreAndMore
<1> QED
  BY <1>2, <1>4 DEF Closed, t

(***************************************************************************)
(* Types.                                                                  *)
(***************************************************************************)
ServerMessage == [method : {"call"}, id : Call, guid : Object] \cup [method : {"__abort__"}, id : Call]

TypeInv ==
  /\ TypeOK /\ Sound(Server)
  /\ Ordered(mirror)
  /\ toServer \in Seq(ServerMessage)
  /\ link # "open" => toServer = <<>> /\ toClient = <<>> /\ callbacks = {}

LEMMA InitTypes == Init => TypeInv
<1> SUFFICES ASSUME Init PROVE TypeInv
  OBVIOUS
<1>1. /\ Root \in Object /\ BucketOf[Root] \in Bucket
      /\ up = [o \in Object |-> IF o = Root THEN {o} ELSE {}]
      /\ bucket = [k \in Bucket |-> IF k = BucketOf[Root] THEN <<Root>> ELSE <<>>]
  BY RootAssumption, BucketAssumption DEF Init
<1>2. /\ up \in [Object -> SUBSET Object] /\ up[Root] = {Root}
      /\ \A o \in Object \ {Root} : up[o] = {}
  BY <1>1
<1>3. bucket \in [Bucket -> Seq(Object)]
  <2>1. <<Root>> \in Seq(Object) /\ <<>> \in Seq(Object)
    BY <1>1
  <2> QED
    BY <1>1, <2>1
<1>4. TypeOK
  <2>1. NewCall \in CallState
    BY <1>1 DEF NewCall, CallState, Phase
  <2>2. call \in [Call -> CallState]
    BY <2>1 DEF Init
  <2> QED
    BY <1>1, <1>2, <1>3, <2>2 DEF TypeOK, Init
<1>5. GoodTree(up)
  BY <1>2, BelowFacts DEF GoodTree, Tree, Ordered, Complete
<1>6. Listed(up, bucket) /\ \A k \in Bucket : Short(bucket[k])
  <2>1. \A k \in Bucket : k # BucketOf[Root] => bucket[k] = <<>> /\ OfKind(up, k) = {}
    BY <1>1, <1>2 DEF OfKind
  <2>2. bucket[BucketOf[Root]] = <<Root>> /\ OfKind(up, BucketOf[Root]) = {Root}
    BY <1>1, <1>2 DEF OfKind
  <2>3. /\ ToSet(<<>>) = {} /\ IsInjective(<<>>) /\ Short(<<>>)
        /\ ToSet(<<Root>>) = {Root} /\ IsInjective(<<Root>>) /\ Short(<<Root>>)
    BY BucketAssumption DEF ToSet, IsInjective, Short
  <2> QED
    BY <1>3, <2>1, <2>2, <2>3 DEF Listed
<1>7. toClient \in Seq(Message) /\ toServer \in Seq(ServerMessage) /\ mirror = up /\ link = "open"
  BY DEF Init
<1> QED
  BY <1>4, <1>5, <1>6, <1>7 DEF TypeInv, Sound, Server, GoodTree

LEMMA StaleTypes ==
  ASSUME NEW s, NEW calls \in [Call -> CallState]
  PROVE  /\ Stale(s, calls) \in [Call -> CallState]
         /\ \A c \in Call : /\ Stale(s, calls)[c].phase = calls[c].phase
                            /\ Stale(s, calls)[c].target = calls[c].target
                            /\ Stale(s, calls)[c].aborted = calls[c].aborted
<1>1. \A c \in Call : \A b \in BOOLEAN : [calls[c] EXCEPT !.stale = b] \in CallState
  BY DEF CallState
<1> QED
  BY <1>1 DEF Stale, CallState

LEMMA EndedTypes ==
  ASSUME TypeOK, NEW c \in Call, NEW result \in SUBSET Object
  PROVE  /\ Ended(c, result) \in [Call -> CallState]
         /\ Ended(c, result)[c].phase = "after" /\ Ended(c, result)[c].target = call[c].target
         /\ \A d \in Call \ {c} : Ended(c, result)[d] = call[d]
<1> DEFINE entry == [call[c] EXCEPT !.phase = "after", !.stale = FALSE, !.result = result]
<1>1. call \in [Call -> CallState] /\ call[c] \in CallState
  BY DEF TypeOK
<1>2. entry \in CallState /\ entry.phase = "after" /\ entry.target = call[c].target
  BY <1>1 DEF CallState, Phase
<1>3. Ended(c, result) = [call EXCEPT ![c] = entry]
  BY DEF Ended
<1> HIDE DEF entry
<1> QED
  BY <1>1, <1>2, <1>3

(* What a turn does to the state of the server.                              *)
TurnTo(s, calls) ==
  /\ Turn(s, calls) /\ Sound(s) /\ Extends(Server, s) /\ calls \in [Call -> CallState]
  /\ gone' \subseteq Object
  /\ UNCHANGED <<toServer, client_vars>>

LEMMA TurnTypes ==
  ASSUME TypeInv, NEW s, NEW calls, TurnTo(s, calls), link' \in {link, "closed"}, link # "open" => link' # "open",
         link = "open" => link' = link
  PROVE  TypeInv'
<1>1. up' = s.up /\ bucket' = s.bucket /\ toClient' \in {s.out, <<>>} /\ call' = Stale(s, calls)
  BY DEF TurnTo, Turn, Sent
<1>2. /\ GoodTree(s.up) /\ Listed(s.up, s.bucket) /\ s.out \in Seq(Message)
      /\ \A k \in Bucket : Short(s.bucket[k])
  BY DEF TurnTo, Sound
<1>3. toClient' \in Seq(Message)
  <2>1. <<>> \in Seq(Message)
    BY EmptySeq
  <2> QED
    BY <1>1, <1>2, <2>1
<1>4. Sound(Server')
  BY <1>1, <1>2, <1>3 DEF Sound, Server
<1>5. call' \in [Call -> CallState]
  BY <1>1, StaleTypes DEF TurnTo
<1>6. UNCHANGED <<toServer, mirror, held, callbacks, signalled>> /\ gone' \subseteq Object
  BY DEF TurnTo, client_vars
<1>7. /\ up' \in [Object -> SUBSET Object] /\ bucket' \in [Bucket -> Seq(Object)]
      /\ \A o \in Object : up'[o] # {} => o \in up'[o]
  BY <1>1, <1>2 DEF GoodTree, Tree, Ordered, Listed
<1>8. TypeOK'
  BY <1>5, <1>6, <1>7 DEF TypeInv, TypeOK
<1>9. link' # "open" => toClient' = <<>>
  BY DEF TurnTo, Turn, Sent
<1> QED
  BY <1>4, <1>6, <1>8, <1>9 DEF TypeInv

(* Every action but those of the client and of dispatch() is a turn.         *)
LEMMA TurnsAreTurns ==
  ASSUME TypeInv
  PROVE  /\ \A c \in Call, o \in Object :
              HandlerReturns(c, o) => TurnTo(From(Server, o), Ended(c, {o})) /\ UNCHANGED link
         /\ \A c \in Call : HandlerDisposes(c) =>
              TurnTo(Disposed(Server, call[c].target, "none"), Ended(c, {})) /\ UNCHANGED link
         /\ \A o \in Published : Publish(o) =>
              TurnTo(Emitted(From(Server, o), Root, {o}), call) /\ UNCHANGED link
         /\ \A o \in Closable : CloseObject(o) =>
              TurnTo(IF up[o] = {} THEN Server ELSE Closed(Server, o), call) /\ UNCHANGED link
         /\ \A o \in Closable : ReportClosed(o) =>
              TurnTo(Closed(Emitted(From(Server, o), Root, {o}), o), call) /\ UNCHANGED link
         /\ DisposeRoot => TurnTo(Disposed(Server, Root, "none"), call) /\ link = "closing" /\ link' = "closed"
<1>1. Sound(Server) /\ Server.out \in Seq(Message) /\ TypeOK
  BY DEF TypeInv, Sound
<1>2. /\ Root \in Object /\ Below \in [Object -> SUBSET Object]
      /\ Published \subseteq Object \ {Root} /\ Closable \subseteq Object \ {Root}
      /\ \A t \in Object : \A o \in Returned[t] : o # Root
  BY RootAssumption
<1>3. gone \subseteq Object /\ call \in [Call -> CallState] /\ \A c \in Call : call[c].target \in Object
  BY <1>1 DEF TypeOK, CallState
<1>4. ASSUME NEW c \in Call, NEW o \in Object, HandlerReturns(c, o)
      PROVE  TurnTo(From(Server, o), Ended(c, {o})) /\ UNCHANGED link
  <2>1. o # Root
    BY <1>2, <1>3, <1>4 DEF HandlerReturns
  <2>2. Sound(From(Server, o)) /\ Extends(Server, From(Server, o))
    BY <1>1, <2>1, FromFacts
  <2> QED
    BY <1>1, <1>3, <1>4, <2>2, EndedTypes DEF HandlerReturns, TurnTo
<1>5. ASSUME NEW c \in Call, HandlerDisposes(c)
      PROVE  TurnTo(Disposed(Server, call[c].target, "none"), Ended(c, {})) /\ UNCHANGED link
  <2>1. Sound(Disposed(Server, call[c].target, "none")) /\ Extends(Server, Disposed(Server, call[c].target, "none"))
    BY <1>1, <1>3, DisposedFacts
  <2> QED
    BY <1>1, <1>2, <1>3, <1>5, <2>1, EndedTypes DEF HandlerDisposes, TurnTo
<1>6. ASSUME NEW o \in Published \cup Closable
      PROVE  LET s == Emitted(From(Server, o), Root, {o}) IN Sound(s) /\ Extends(Server, s) /\ o \in Object
  <2> DEFINE t == From(Server, o)
             s == Emitted(t, Root, {o})
  <2>1. Sound(t) /\ Extends(Server, t)
    BY <1>1, <1>2, FromFacts
  <2> HIDE DEF t
  <2>2. Sound(s) /\ Extends(t, s)
    BY <1>2, <2>1, EmittedFacts
  <2> HIDE DEF s
  <2>3. Extends(Server, s)
    BY ONLY <1>1, <2>1, <2>2, MoreAndMore
  <2> QED
    BY <1>2, <2>2, <2>3 DEF s, t
<1>7. ASSUME NEW o \in Published, Publish(o)
      PROVE  TurnTo(Emitted(From(Server, o), Root, {o}), call) /\ UNCHANGED link
  BY <1>3, <1>6, <1>7 DEF Publish, TurnTo
<1>8. ASSUME NEW o \in Closable, CloseObject(o)
      PROVE  TurnTo(IF up[o] = {} THEN Server ELSE Closed(Server, o), call) /\ UNCHANGED link
  <2>1. Sound(Closed(Server, o)) /\ Extends(Server, Closed(Server, o))
    BY <1>1, <1>2, ClosedFacts
  <2>2. Extends(Server, Server)
    BY <1>1, NothingMore
  <2>3. Below[o] \subseteq Object
    BY <1>2
  <2>4. UNCHANGED <<toServer, client_vars, link>> /\ gone' \subseteq Object
    BY <1>3, <1>8, <2>3 DEF CloseObject
  <2>5. CASE up[o] = {}
    BY <1>1, <1>3, <1>8, <2>2, <2>4, <2>5 DEF CloseObject, TurnTo
  <2>6. CASE up[o] # {}
    BY <1>3, <1>8, <2>1, <2>4, <2>6 DEF CloseObject, TurnTo
  <2> QED
    BY <2>5, <2>6
<1>9. ASSUME NEW o \in Closable, ReportClosed(o)
      PROVE  TurnTo(Closed(Emitted(From(Server, o), Root, {o}), o), call) /\ UNCHANGED link
  <2> DEFINE s == Emitted(From(Server, o), Root, {o})
  <2>1. Sound(s) /\ Extends(Server, s) /\ o \in Object
    BY <1>6
  <2>2. Turn(Closed(s, o), call) /\ UNCHANGED <<gone, toServer, client_vars, link>>
    BY <1>9 DEF ReportClosed
  <2> HIDE DEF s
  <2>3. Sound(Closed(s, o)) /\ Extends(s, Closed(s, o))
    BY <2>1, ClosedFacts
  <2>4. Extends(Server, Closed(s, o))
    BY ONLY <1>1, <2>1, <2>3, MoreAndMore
  <2>5. TurnTo(Closed(s, o), call) /\ UNCHANGED link
    BY <1>3, <2>2, <2>3, <2>4 DEF TurnTo
  <2> QED
    BY <2>5 DEF s
<1>10. ASSUME DisposeRoot
       PROVE  TurnTo(Disposed(Server, Root, "none"), call) /\ link = "closing" /\ link' = "closed"
  <2>1. Sound(Disposed(Server, Root, "none")) /\ Extends(Server, Disposed(Server, Root, "none"))
    BY <1>1, <1>2, DisposedFacts
  <2> QED
    BY <1>3, <1>10, <2>1 DEF DisposeRoot, TurnTo
<1> QED
  BY <1>4, <1>5, <1>7, <1>8, <1>9, <1>10

LEMMA AppliedFacts ==
  ASSUME NEW tree \in Tree, Ordered(tree), NEW m \in Message
  PROVE  Applied(tree, m) \in Tree /\ Ordered(Applied(tree, m))
<1>1. CASE ~CanRead(tree, m)
  BY <1>1 DEF Applied
<1>2. CASE CanRead(tree, m) /\ m.method \in {"__create__", "__adopt__"}
  <2>1. m.guid \in Object /\ m.child \in Object /\ m.child \in Below[m.guid]
    BY <1>2 DEF Message, AnyMessage
  <2>2. Applied(tree, m) \in {Grown(tree, m.guid, m.child), Moved(tree, m.guid, m.child)}
    BY <1>2 DEF Applied
  <2> QED
    BY <2>1, <2>2, GrownFacts, MovedFacts
<1>3. CASE CanRead(tree, m) /\ m.method = "__dispose__"
  <2>1. Applied(tree, m) = Pruned(tree, m.guid)
    BY <1>3 DEF Applied
  <2>2. Pruned(tree, m.guid) \in Tree /\ Ordered(Pruned(tree, m.guid))
    BY DEF Pruned, Tree, Ordered
  <2> QED
    BY <2>1, <2>2
<1>4. CASE CanRead(tree, m) /\ m.method \notin {"__create__", "__adopt__", "__dispose__"}
  BY <1>4 DEF Applied
<1> QED
  BY <1>1, <1>2, <1>3, <1>4

LEMMA ReceiveTypes ==
  ASSUME TypeInv, Receive
  PROVE  TypeInv'
<1> DEFINE m == Head(toClient)
<1>1. /\ toClient \in Seq(Message) /\ toClient # <<>>
      /\ mirror \in Tree /\ Ordered(mirror) /\ held \subseteq Object
      /\ \A o \in Object : mirror[o] # {} => o \in mirror[o] /\ o \in held
  BY DEF TypeInv, TypeOK, Sound, Server, Receive, Tree
<1>2. m \in Message /\ toClient' = Tail(toClient) /\ toClient' \in Seq(Message)
  BY <1>1, HeadTailProperties DEF Receive
<1>3. mirror' = Applied(mirror, m) /\ held' = StillHeld(m) /\ callbacks' \subseteq callbacks
  BY DEF Receive
<1> HIDE DEF m
<1>4. mirror' \in Tree /\ Ordered(mirror')
  BY <1>1, <1>2, <1>3, AppliedFacts
<1>5. held' \subseteq Object /\ \A o \in Object : mirror'[o] # {} => o \in held'
  <2>1. CASE ~CanRead(mirror, m) \/ m.method \notin {"__create__", "__adopt__", "__dispose__"}
    BY <1>1, <1>3, <2>1 DEF Applied, StillHeld
  <2>2. CASE CanRead(mirror, m) /\ m.method = "__create__"
    <3>1. m.child \in Object /\ mirror' = Grown(mirror, m.guid, m.child) /\ held' = held \cup {m.child}
      BY <1>2, <1>3, <2>2 DEF Applied, StillHeld, Message, AnyMessage
    <3> QED
      BY <1>1, <3>1 DEF Grown, Tree
  <2>3. CASE CanRead(mirror, m) /\ m.method = "__adopt__"
    <3>1. /\ m.guid \in Object /\ m.child \in Object /\ m.child \in Below[m.guid]
          /\ mirror' = Moved(mirror, m.guid, m.child) /\ held' = held
      BY <1>2, <1>3, <2>3 DEF Applied, StillHeld, Message, AnyMessage
    <3>2. \A o \in Object : mirror'[o] = {} <=> mirror[o] = {}
      BY <1>1, <3>1, MovedFacts
    <3> QED
      BY <1>1, <3>1, <3>2
  <2>4. CASE CanRead(mirror, m) /\ m.method = "__dispose__"
    <3>1. mirror' = Pruned(mirror, m.guid) /\ held' \in {held, held \ Under(mirror, m.guid)}
      BY <1>3, <2>4 DEF Applied, StillHeld
    <3>2. DOMAIN mirror = Object
      BY <1>1 DEF Tree
    <3> QED
      BY <1>1, <3>1, <3>2 DEF Pruned, Under
  <2> QED
    BY <2>1, <2>2, <2>3, <2>4
<1>6. UNCHANGED <<up, bucket, gone, call, toServer, signalled, link>>
  BY DEF Receive, tree_vars
<1>7. Sound(Server')
  BY <1>2, <1>6 DEF TypeInv, Sound, Server
<1>8. TypeOK'
  BY <1>3, <1>4, <1>5, <1>6 DEF TypeInv, TypeOK, Tree, Ordered
<1>9. link' = "open"
  BY <1>1, <1>6 DEF TypeInv
<1> QED
  BY <1>4, <1>6, <1>7, <1>8, <1>9 DEF TypeInv

(* A call can only change its entry, and an answer only adds itself.         *)
LEMMA AnsweredTypes ==
  ASSUME TypeInv, NEW c \in Call, NEW refs \in SUBSET Object, Answered(c, refs)
  PROVE  /\ call' \in [Call -> CallState] /\ toClient' \in Seq(Message)
         /\ link # "open" => toClient' = <<>>
         /\ call'[c].phase = "over" /\ \A d \in Call \ {c} : call'[d] = call[d]
<1> DEFINE entry == [NewCall EXCEPT !.phase = "over"]
<1>1. entry \in CallState /\ entry.phase = "over" /\ call \in [Call -> CallState]
  BY RootAssumption DEF NewCall, CallState, Phase, TypeInv, TypeOK
<1>2. call' = [call EXCEPT ![c] = entry]
  BY DEF Answered
<1> HIDE DEF entry
<1>3. call' \in [Call -> CallState] /\ call'[c].phase = "over" /\ \A d \in Call \ {c} : call'[d] = call[d]
  BY <1>1, <1>2
<1>4. ResponseMessage(c, refs) \in Message /\ toClient \in Seq(Message)
  BY MessageFacts, RootAssumption DEF TypeInv, Sound, Server
<1>5. toClient' \in Seq(Message) /\ (link # "open" => toClient' = <<>>)
  BY <1>4, AppendProperties, EmptySeq DEF Answered, Sent
<1> QED
  BY <1>3, <1>5

(* TypeInv reads the variables that are not listed only through these facts. *)
LEMMA CallTypes ==
  ASSUME TypeInv, call' \in [Call -> CallState], toClient' \in Seq(Message), toServer' \in Seq(ServerMessage),
         callbacks' \subseteq Call, signalled' \subseteq Call,
         UNCHANGED <<up, bucket, gone, mirror, held>>, link' \in {"open", "closing", "closed"},
         link' # "open" => toServer' = <<>> /\ toClient' = <<>> /\ callbacks' = {}
  PROVE  TypeInv'
<1>1. Sound(Server')
  BY DEF TypeInv, Sound, Server
<1>2. TypeOK'
  BY DEF TypeInv, TypeOK
<1> QED
  BY <1>1, <1>2 DEF TypeInv

LEMMA StepKeepsTypes == TypeInv /\ [Next]_vars => TypeInv'
<1> SUFFICES ASSUME TypeInv, [Next]_vars PROVE TypeInv'
  OBVIOUS
<1>0. /\ call \in [Call -> CallState] /\ toClient \in Seq(Message) /\ toServer \in Seq(ServerMessage)
      /\ callbacks \subseteq Call /\ signalled \subseteq Call /\ link \in {"open", "closing", "closed"}
      /\ \A c \in Call : call[c] \in CallState
      /\ link # "open" => toServer = <<>> /\ toClient = <<>> /\ callbacks = {}
      /\ held \subseteq Object
  BY DEF TypeInv, TypeOK, Sound, Server
<1>1. ASSUME NEW c \in Call, NEW o \in Object, SendCall(c, o) PROVE TypeInv'
  <2> DEFINE entry == [call[c] EXCEPT !.phase = "sent", !.target = o]
  <2>1. entry \in CallState
    BY <1>0 DEF CallState, Phase
  <2>2. call' = [call EXCEPT ![c] = entry]
    BY <1>1 DEF SendCall
  <2> HIDE DEF entry
  <2>3. call' \in [Call -> CallState]
    BY <1>0, <2>1, <2>2
  <2>4. CallMessage(c, o) \in ServerMessage
    BY DEF CallMessage, ServerMessage
  <2>5. toServer' \in Seq(ServerMessage)
    BY <1>0, <1>1, <2>4, AppendProperties DEF SendCall
  <2> QED
    BY <1>0, <1>1, <2>3, <2>5, CallTypes DEF SendCall, tree_vars
<1>2. ASSUME NEW c \in Call, AbortCall(c) PROVE TypeInv'
  <2>1. AbortMessage(c) \in ServerMessage
    BY DEF AbortMessage, ServerMessage
  <2>2. toServer' \in Seq(ServerMessage)
    BY <1>0, <1>2, <2>1, AppendProperties DEF AbortCall
  <2>3. link = "open"
    BY <1>0, <1>2 DEF AbortCall
  <2> QED
    BY <1>0, <1>2, <2>2, <2>3, CallTypes DEF AbortCall, tree_vars
<1>3. CASE Receive
  BY <1>3, ReceiveTypes
<1>4. CASE Dispatch
  <2> DEFINE m == Head(toServer)
  <2>1. m \in ServerMessage /\ toServer' = Tail(toServer) /\ toServer' \in Seq(ServerMessage) /\ link = "open"
    BY <1>0, <1>4, HeadTailProperties DEF Dispatch
  <2>2. UNCHANGED <<gone, mirror, held, callbacks, signalled, link>>
    BY <1>4 DEF Dispatch, client_vars
  <2>3. ReceiveCall(m) \/ ReceiveAbort(m)
    BY <1>4 DEF Dispatch
  <2> HIDE DEF m
  <2>4. m.id \in Call
    BY <2>1 DEF ServerMessage
  <2>5. CASE ReceiveCall(m) /\ up[m.guid] = {}
    <3>1. Answered(m.id, {})
      BY <2>5 DEF ReceiveCall
    <3>2. call' \in [Call -> CallState] /\ toClient' \in Seq(Message)
      BY <2>4, <3>1, AnsweredTypes
    <3> QED
      BY <1>0, <2>1, <2>2, <3>1, <3>2, CallTypes DEF Answered, tree_vars
  <2>6. CASE ReceiveCall(m) /\ up[m.guid] # {}
    <3> DEFINE entry == [call[m.id] EXCEPT !.phase = "before"]
    <3>1. entry \in CallState
      BY <1>0, <2>4 DEF CallState, Phase
    <3>2. call' = [call EXCEPT ![m.id] = entry] /\ UNCHANGED <<up, bucket, toClient>>
      BY <2>6 DEF ReceiveCall, tree_vars
    <3> HIDE DEF entry
    <3>3. call' \in [Call -> CallState]
      BY <1>0, <3>1, <3>2
    <3> QED
      BY <1>0, <2>1, <2>2, <3>2, <3>3, CallTypes
  <2>7. CASE ReceiveAbort(m)
    <3> DEFINE b     == call[m.id].phase \in {"before", "running", "after"}
               entry == [call[m.id] EXCEPT !.aborted = b]
    <3>0. \A x \in BOOLEAN : [call[m.id] EXCEPT !.aborted = x] \in CallState
      BY <1>0, <2>4 DEF CallState
    <3>1. entry \in CallState
      <4>1. b \in BOOLEAN
        OBVIOUS
      <4> HIDE DEF b
      <4> QED
        BY <3>0, <4>1
    <3>2. call' = [call EXCEPT ![m.id] = entry] /\ UNCHANGED <<up, bucket, toClient>>
      BY <2>7 DEF ReceiveAbort, tree_vars
    <3> HIDE DEF entry
    <3>3. call' \in [Call -> CallState]
      BY <1>0, <3>1, <3>2
    <3> QED
      BY <1>0, <2>1, <2>2, <3>2, <3>3, CallTypes
  <2> QED
    BY <2>3, <2>5, <2>6, <2>7
<1>5. ASSUME NEW c \in Call, EndBefore(c) PROVE TypeInv'
  <2>1. UNCHANGED <<up, bucket, gone, toClient, toServer, mirror, held, callbacks, signalled, link>>
    BY <1>5 DEF EndBefore, tree_vars, client_vars
  <2>2. call' = Ended(c, {}) \/ call' = [call EXCEPT ![c].phase = "running"]
    BY <1>5 DEF EndBefore
  <2> DEFINE entry == [call[c] EXCEPT !.phase = "running"]
  <2>3. entry \in CallState /\ (call' = Ended(c, {}) \/ call' = [call EXCEPT ![c] = entry])
    BY <1>0, <2>2 DEF CallState, Phase
  <2> HIDE DEF entry
  <2>4. call' \in [Call -> CallState]
    BY <1>0, <2>3, EndedTypes DEF TypeInv
  <2> QED
    BY <1>0, <2>1, <2>4, CallTypes
<1>6. ASSUME NEW c \in Call, HandlerEnds(c) PROVE TypeInv'
  <2>1. UNCHANGED <<up, bucket, gone, toClient, toServer, mirror, held, callbacks, signalled, link>>
    BY <1>6 DEF HandlerEnds, tree_vars, client_vars
  <2>2. call' \in [Call -> CallState]
    BY <1>6, EndedTypes DEF HandlerEnds, TypeInv
  <2> QED
    BY <1>0, <2>1, <2>2, CallTypes
<1>7. ASSUME NEW c \in Call, EndAfter(c) PROVE TypeInv'
  <2>1. Answered(c, call[c].result) /\ UNCHANGED <<gone, toServer, mirror, held, callbacks, signalled, link>>
    BY <1>7 DEF EndAfter, client_vars
  <2>2. call[c].result \in SUBSET Object
    BY <1>0 DEF CallState
  <2>3. call' \in [Call -> CallState] /\ toClient' \in Seq(Message) /\ (link # "open" => toClient' = <<>>)
    BY <2>1, <2>2, AnsweredTypes
  <2> QED
    BY <1>0, <2>1, <2>3, CallTypes DEF Answered, tree_vars
<1>8. CASE Disconnect
  <2>1. /\ link' = "closing" /\ callbacks' = {} /\ toServer' = <<>> /\ toClient' = <<>>
        /\ mirror' = [o \in Object |-> {}] /\ held' = {} /\ UNCHANGED <<up, bucket, gone, signalled>>
        /\ call' = Stopped
    BY <1>8 DEF Disconnect, tree_vars
  <2>2. Stopped \in [Call -> CallState]
    <3>1. \A c \in Call : \A b \in BOOLEAN : [call[c] EXCEPT !.aborted = b] \in CallState
      BY <1>0 DEF CallState
    <3> QED
      BY <1>0, <3>1 DEF Stopped, CallState
  <2>3. Ordered(mirror') /\ toClient' \in Seq(Message) /\ toServer' \in Seq(ServerMessage)
    BY <2>1, EmptySeq DEF Ordered
  <2>4. Sound(Server')
    BY <2>1, <2>3 DEF TypeInv, Sound, Server
  <2>5. TypeOK'
    BY <2>1, <2>2 DEF TypeInv, TypeOK
  <2> QED
    BY <2>1, <2>3, <2>4, <2>5 DEF TypeInv
<1>9. CASE \/ \E c \in Call, o \in Object : HandlerReturns(c, o)
           \/ \E c \in Call : HandlerDisposes(c)
           \/ \E o \in Published : Publish(o)
           \/ \E o \in Closable : CloseObject(o) \/ ReportClosed(o)
           \/ DisposeRoot
  <2>1. ASSUME NEW s, NEW calls, TurnTo(s, calls), UNCHANGED link \/ (link = "closing" /\ link' = "closed")
        PROVE  TypeInv'
    BY <2>1, TurnTypes
  <2> QED
    BY <1>9, <2>1, TurnsAreTurns
<1>10. CASE UNCHANGED vars
  BY <1>0, <1>10, CallTypes DEF vars, tree_vars, client_vars
<1> QED
  BY <1>1, <1>2, <1>3, <1>4, <1>5, <1>6, <1>7, <1>8, <1>9, <1>10 DEF Next

LEMMA TypeInvHolds == Spec => []TypeInv
<1>1. Init => TypeInv
  BY InitTypes
<1>2. TypeInv /\ [Next]_vars => TypeInv'
  BY StepKeepsTypes
<1> QED
  BY <1>1, <1>2, PTL DEF Spec

(* The tree, the buckets, the calls and what the client holds keep their     *)
(* types, and an object of the client's tree is held until it is collected.  *)
THEOREM TypesHold == Spec => []TypeOK
<1>1. TypeInv => TypeOK
  BY DEF TypeInv
<1> QED
  BY <1>1, TypeInvHolds, PTL

(* The buckets list the dispatchers of their kind, once each, and no more    *)
(* than the collector allows (registerDispatcher,                            *)
(* maybeDisposeStaleDispatchers), whatever the buckets' limits are.          *)
THEOREM BucketsListTheTree == Spec => []BucketsMatchTree
<1>1. TypeInv => BucketsMatchTree
  BY DEF TypeInv, Sound, Server, Listed, Short, OfKind, BucketsMatchTree
<1> QED
  BY <1>1, TypeInvHolds, PTL

(***************************************************************************)
(* Answers.                                                                *)
(***************************************************************************)
(* The places of a list with the call, or the response, of an id.            *)
At(list, method, c) == {i \in DOMAIN list : list[i].method = method /\ list[i].id = c}
Single(S) == \E i : S = {i}

(* A call is on its way, or at work, or answered: it has a callback as long  *)
(* as its answer was not read, and its answer is on the wire once.           *)
AnswerOK(c) ==
  LET asks    == At(toServer, "call", c)
      answers == At(toClient, "response", c)
  IN  /\ asks = {} \/ (Single(asks) /\ call[c].phase = "sent")
      /\ call[c].phase \in {"sent", "before", "running", "after"} => c \in callbacks
      /\ call[c].phase = "new" => c \notin callbacks
      /\ IF c \in callbacks /\ call[c].phase = "over" THEN Single(answers) ELSE answers = {}

AnswersOK == link = "open" => \A c \in Call : AnswerOK(c)

LEMMA NotSingle == ~Single({})
BY DEF Single

LEMMA AtAppend ==
  ASSUME NEW S, NEW list \in Seq(S), NEW m \in S, NEW method, NEW c
  PROVE  /\ ~(m.method = method /\ m.id = c) => At(Append(list, m), method, c) = At(list, method, c)
         /\ m.method = method /\ m.id = c /\ At(list, method, c) = {} => Single(At(Append(list, m), method, c))
<1>1. /\ Len(list) \in Nat /\ DOMAIN list = 1..Len(list)
      /\ DOMAIN Append(list, m) = 1..(Len(list) + 1)
      /\ \A i \in 1..Len(list) : Append(list, m)[i] = list[i]
      /\ Append(list, m)[Len(list) + 1] = m
  BY AppendProperties, LenProperties
<1> DEFINE n == Len(list) + 1
           longer == Append(list, m)
<1>2. /\ DOMAIN longer = DOMAIN list \cup {n} /\ n \notin DOMAIN list /\ longer[n] = m
      /\ \A i \in DOMAIN list : longer[i] = list[i]
  BY <1>1
<1> HIDE DEF n, longer
<1>3. ~(m.method = method /\ m.id = c) => At(longer, method, c) = At(list, method, c)
  BY <1>2 DEF At
<1>4. m.method = method /\ m.id = c /\ At(list, method, c) = {} => At(longer, method, c) = {n}
  BY <1>2 DEF At
<1> QED
  BY <1>3, <1>4 DEF Single, longer

LEMMA AtTail ==
  ASSUME NEW S, NEW list \in Seq(S), list # <<>>, NEW method, NEW c
  PROVE  LET m == Head(list)
             before == At(list, method, c)
             after  == At(Tail(list), method, c)
         IN  /\ before = {} => after = {} /\ ~(m.method = method /\ m.id = c)
             /\ Single(before) /\ m.method = method /\ m.id = c => after = {}
             /\ Single(before) /\ ~(m.method = method /\ m.id = c) => Single(after)
<1> DEFINE before == At(list, method, c)
           after  == At(Tail(list), method, c)
           m == Head(list)
<1>1. /\ Len(list) \in Nat /\ Len(list) > 0 /\ DOMAIN list = 1..Len(list)
      /\ DOMAIN Tail(list) = 1..(Len(list) - 1)
      /\ \A i \in 1..(Len(list) - 1) : Tail(list)[i] = list[i + 1]
      /\ m = list[1]
  BY HeadTailProperties, LenProperties, EmptySeq
<1> HIDE DEF m
<1>2. \A i \in after : i \in Nat /\ i + 1 \in before /\ i + 1 # 1
  BY <1>1 DEF At
<1>3. \A j \in before : j \in Nat /\ (j = 1 \/ j - 1 \in after)
  <2> SUFFICES ASSUME NEW j \in before, j # 1 PROVE j - 1 \in after
    BY <1>1 DEF At
  <2>1. j \in 1..Len(list) /\ list[j].method = method /\ list[j].id = c
    BY <1>1 DEF At
  <2>2. j - 1 \in 1..(Len(list) - 1) /\ Tail(list)[j - 1] = list[j - 1 + 1] /\ j - 1 + 1 = j
    BY <1>1, <2>1
  <2> QED
    BY <1>1, <2>1, <2>2 DEF At
<1>4. 1 \in before <=> m.method = method /\ m.id = c
  BY <1>1 DEF At
<1> HIDE DEF before, after
<1>5. before = {} => after = {} /\ ~(m.method = method /\ m.id = c)
  BY <1>2, <1>4
<1>6. ASSUME Single(before), m.method = method /\ m.id = c PROVE after = {}
  <2>1. \A j \in before : j = 1
    BY <1>4, <1>6 DEF Single
  <2> QED
    BY <1>2, <2>1
<1>7. ASSUME Single(before), ~(m.method = method /\ m.id = c) PROVE Single(after)
  <2>1. PICK j : before = {j}
    BY <1>7 DEF Single
  <2>2. j \in Nat /\ j - 1 \in after
    BY <1>3, <1>4, <1>7, <2>1
  <2>3. \A i \in after : i + 1 = j /\ i \in Nat
    BY <1>2, <2>1
  <2>4. after = {j - 1}
    BY <2>2, <2>3
  <2> QED
    BY <2>4 DEF Single
<1> QED
  BY <1>5, <1>6, <1>7 DEF before, after, m

LEMMA AtMore ==
  ASSUME NEW list \in Seq(Message), NEW x \in Seq(Message), NoResponse(x), NEW c
  PROVE  At(list \o x, "response", c) = At(list, "response", c)
<1>1. /\ Len(list) \in Nat /\ Len(x) \in Nat /\ DOMAIN list = 1..Len(list) /\ DOMAIN x = 1..Len(x)
      /\ DOMAIN (list \o x) = 1..(Len(list) + Len(x))
      /\ \A i \in 1..(Len(list) + Len(x)) : (list \o x)[i] = IF i <= Len(list) THEN list[i] ELSE x[i - Len(list)]
  BY ConcatProperties, LenProperties
<1>2. ASSUME NEW i \in 1..(Len(list) + Len(x)), ~(i <= Len(list)) PROVE (list \o x)[i].method # "response"
  <2>1. i - Len(list) \in 1..Len(x)
    BY <1>1, <1>2
  <2> QED
    BY <1>1, <1>2, <2>1 DEF NoResponse
<1>3. \A i \in 1..Len(list) : i \in 1..(Len(list) + Len(x)) /\ i <= Len(list)
  BY <1>1
<1>4. \A i \in 1..(Len(list) + Len(x)) : i <= Len(list) => i \in 1..Len(list)
  BY <1>1
<1> QED
  BY <1>1, <1>2, <1>3, <1>4 DEF At

(* A step that leaves the wire to the server, the callbacks and the answers, *)
(* and moves calls only while they are at work.                              *)
LEMMA AnswersStay ==
  ASSUME AnswersOK, link' = "open" => link = "open",
         link = "open" => UNCHANGED <<toServer, callbacks>>,
         link = "open" => \A c \in Call : At(toClient', "response", c) = At(toClient, "response", c),
         \A c \in Call : \/ call'[c].phase = call[c].phase
                         \/ {call'[c].phase, call[c].phase} \subseteq {"before", "running", "after"}
  PROVE  AnswersOK'
<1> SUFFICES ASSUME link' = "open", NEW c \in Call PROVE AnswerOK(c)'
  BY DEF AnswersOK
<1>1. AnswerOK(c) /\ toServer' = toServer /\ callbacks' = callbacks /\ At(toClient', "response", c) = At(toClient, "response", c)
  BY DEF AnswersOK
<1>2. CASE call'[c].phase = call[c].phase
  BY <1>1, <1>2 DEF AnswerOK
<1>3. CASE {call'[c].phase, call[c].phase} \subseteq {"before", "running", "after"}
  BY <1>1, <1>3 DEF AnswerOK
<1> QED
  BY <1>2, <1>3

LEMMA AnswersInit == Init => AnswersOK
<1> SUFFICES ASSUME Init, NEW c \in Call PROVE AnswerOK(c)
  BY DEF AnswersOK
<1>1. call[c].phase = "new" /\ callbacks = {} /\ toServer = <<>> /\ toClient = <<>>
  BY DEF Init, NewCall
<1>2. At(toServer, "call", c) = {} /\ At(toClient, "response", c) = {}
  BY <1>1 DEF At
<1> QED
  BY <1>1, <1>2 DEF AnswerOK

(* The answer of a call goes on the wire at the end of its work.             *)
LEMMA AnswersAnswered ==
  ASSUME TypeInv, AnswersOK, NEW d \in Call, NEW refs \in SUBSET Object, Answered(d, refs),
         UNCHANGED <<callbacks, link>>,
         link = "open" => /\ call[d].phase # "new" /\ call[d].phase # "over"
                          /\ At(toServer', "call", d) = {}
                          /\ \A c \in Call \ {d} : \/ At(toServer', "call", c) = At(toServer, "call", c)
                                                   \/ At(toServer', "call", c) = {}
                                                   \/ (Single(At(toServer', "call", c)) /\ Single(At(toServer, "call", c)))
  PROVE  AnswersOK'
<1> SUFFICES ASSUME link = "open", NEW c \in Call PROVE AnswerOK(c)'
  BY DEF AnswersOK
<1>1. AnswerOK(c) /\ AnswerOK(d)
  BY DEF AnswersOK
<1>2. /\ toClient \in Seq(Message) /\ ResponseMessage(d, refs) \in Message
      /\ toClient' = Append(toClient, ResponseMessage(d, refs))
      /\ ResponseMessage(d, refs).method = "response" /\ ResponseMessage(d, refs).id = d
  BY MessageFacts, RootAssumption DEF TypeInv, Sound, Server, Answered, Sent, ResponseMessage
<1>3. call'[d].phase = "over" /\ \A e \in Call \ {d} : call'[e] = call[e]
  BY AnsweredTypes
<1>4. call[d].phase \in {"sent", "before", "running", "after"}
  <2>1. call[d].phase \in Phase
    BY DEF TypeInv, TypeOK, CallState
  <2> QED
    BY <2>1 DEF Phase
<1>5. CASE c = d
  <2>1. At(toClient, "response", d) = {}
    BY <1>1, <1>4 DEF AnswerOK
  <2>2. Single(At(toClient', "response", d))
    BY <1>2, <2>1, AtAppend
  <2> QED
    BY <1>1, <1>3, <1>4, <1>5, <2>2 DEF AnswerOK
<1>6. CASE c # d
  <2>1. At(toClient', "response", c) = At(toClient, "response", c)
    BY <1>2, <1>6, AtAppend
  <2> QED
    BY <1>1, <1>3, <1>6, <2>1, NotSingle DEF AnswerOK
<1> QED
  BY <1>5, <1>6

LEMMA AnswersStep == TypeInv /\ AnswersOK /\ [Next]_vars => AnswersOK'
<1> SUFFICES ASSUME TypeInv, AnswersOK, [Next]_vars PROVE AnswersOK'
  OBVIOUS
<1>0. /\ call \in [Call -> CallState] /\ toClient \in Seq(Message) /\ toServer \in Seq(ServerMessage)
      /\ \A c \in Call : call[c] \in CallState /\ call[c].phase \in Phase
      /\ link # "open" => toServer = <<>> /\ toClient = <<>> /\ callbacks = {}
  BY DEF TypeInv, TypeOK, Sound, Server, CallState
<1>1. ASSUME NEW d \in Call, NEW o \in Object, SendCall(d, o) PROVE AnswersOK'
  <2>1. /\ call'[d].phase = "sent" /\ \A c \in Call \ {d} : call'[c] = call[c]
    BY <1>0, <1>1 DEF SendCall, CallState
  <2>2. /\ CallMessage(d, o) \in ServerMessage /\ CallMessage(d, o).method = "call" /\ CallMessage(d, o).id = d
        /\ toServer' = Append(toServer, CallMessage(d, o))
        /\ callbacks' = callbacks \cup {d} /\ toClient' = toClient /\ link = "open" /\ call[d].phase = "new"
    BY <1>1 DEF CallMessage, ServerMessage, SendCall
  <2> SUFFICES ASSUME NEW c \in Call PROVE AnswerOK(c)'
    BY DEF AnswersOK
  <2>3. AnswerOK(c)
    BY <2>2 DEF AnswersOK
  <2>4. CASE c = d
    <3>1. At(toServer, "call", d) = {}
      BY <2>2, <2>3, <2>4 DEF AnswerOK
    <3>2. Single(At(toServer', "call", d))
      BY <1>0, <2>2, <3>1, AtAppend
    <3> QED
      BY <2>1, <2>2, <2>3, <2>4, <3>2 DEF AnswerOK
  <2>5. CASE c # d
    <3>1. At(toServer', "call", c) = At(toServer, "call", c)
      BY <1>0, <2>2, <2>5, AtAppend
    <3> QED
      BY <2>1, <2>2, <2>3, <2>5, <3>1 DEF AnswerOK
  <2> QED
    BY <2>4, <2>5
<1>2. ASSUME NEW d \in Call, AbortCall(d) PROVE AnswersOK'
  <2>1. /\ AbortMessage(d) \in ServerMessage /\ AbortMessage(d).method # "call"
        /\ toServer' = Append(toServer, AbortMessage(d))
        /\ UNCHANGED <<call, toClient, callbacks, link>>
    BY <1>2 DEF AbortMessage, ServerMessage, AbortCall
  <2>2. \A c \in Call : At(toServer', "call", c) = At(toServer, "call", c)
    BY <1>0, <2>1, AtAppend
  <2> QED
    BY <2>1, <2>2 DEF AnswersOK, AnswerOK
<1>3. CASE Receive
  <2> DEFINE m == Head(toClient)
  <2>1. /\ toClient # <<>> /\ toClient' = Tail(toClient) /\ m \in Message
        /\ callbacks' = IF m.method = "response" THEN callbacks \ {m.id} ELSE callbacks
        /\ UNCHANGED <<call, toServer, link>>
    BY <1>0, <1>3, HeadTailProperties DEF Receive
  <2> SUFFICES ASSUME link = "open", NEW c \in Call PROVE AnswerOK(c)'
    BY <2>1 DEF AnswersOK
  <2>2. AnswerOK(c)
    BY DEF AnswersOK
  <2> DEFINE before == At(toClient, "response", c)
             after  == At(Tail(toClient), "response", c)
  <2>3. /\ before = {} => after = {} /\ ~(m.method = "response" /\ m.id = c)
        /\ Single(before) /\ m.method = "response" /\ m.id = c => after = {}
        /\ Single(before) /\ ~(m.method = "response" /\ m.id = c) => Single(after)
    BY <1>0, <2>1, AtTail
  <2> HIDE DEF m
  <2>4. before = At(toClient, "response", c) /\ after = At(toClient', "response", c)
    BY <2>1
  <2> HIDE DEF before, after
  <2>5. CASE m.method = "response" /\ m.id = c
    BY <2>1, <2>2, <2>3, <2>4, <2>5 DEF AnswerOK
  <2>6. CASE ~(m.method = "response" /\ m.id = c)
    <3>1. c \in callbacks' <=> c \in callbacks
      BY <2>1, <2>6
    <3> QED
      BY <2>1, <2>2, <2>3, <2>4, <2>6, <3>1 DEF AnswerOK
  <2> QED
    BY <2>5, <2>6
<1>4. CASE Dispatch
  <2> DEFINE m == Head(toServer)
  <2>1. m \in ServerMessage /\ toServer # <<>> /\ toServer' = Tail(toServer) /\ link = "open" /\ UNCHANGED <<callbacks, link>>
    BY <1>0, <1>4, HeadTailProperties DEF Dispatch, client_vars
  <2>2. ReceiveCall(m) \/ ReceiveAbort(m)
    BY <1>4 DEF Dispatch
  <2>3. \A c \in Call :
          /\ At(toServer, "call", c) = {} => At(toServer', "call", c) = {} /\ ~(m.method = "call" /\ m.id = c)
          /\ Single(At(toServer, "call", c)) /\ m.method = "call" /\ m.id = c => At(toServer', "call", c) = {}
          /\ Single(At(toServer, "call", c)) /\ ~(m.method = "call" /\ m.id = c) => Single(At(toServer', "call", c))
    BY <1>0, <2>1, AtTail
  <2> HIDE DEF m
  <2>4. m.id \in Call /\ \A c \in Call : AnswerOK(c)
    BY <2>1 DEF ServerMessage, AnswersOK
  <2>5. CASE ReceiveCall(m)
    <3>1. m.method = "call"
      BY <2>5 DEF ReceiveCall
    <3>2. call[m.id].phase = "sent" /\ At(toServer', "call", m.id) = {}
      BY <2>3, <2>4, <3>1 DEF AnswerOK
    <3>3. \A c \in Call \ {m.id} : \/ At(toServer', "call", c) = {}
                                       \/ (Single(At(toServer', "call", c)) /\ Single(At(toServer, "call", c)))
      BY <2>3, <2>4 DEF AnswerOK
    <3>4. CASE up[m.guid] = {}
      <4>1. Answered(m.id, {})
        BY <2>5, <3>4 DEF ReceiveCall
      <4> QED
        BY <2>1, <2>4, <3>2, <3>3, <4>1, AnswersAnswered
    <3>5. CASE up[m.guid] # {}
      <4>1. call' = [call EXCEPT ![m.id].phase = "before"] /\ toClient' = toClient
        BY <2>5, <3>5 DEF ReceiveCall
      <4>2. call'[m.id].phase = "before" /\ \A c \in Call \ {m.id} : call'[c] = call[c]
        BY <1>0, <2>4, <4>1 DEF CallState
      <4> SUFFICES ASSUME NEW c \in Call PROVE AnswerOK(c)'
        BY DEF AnswersOK
      <4>3. CASE c = m.id
        BY <2>1, <2>4, <3>2, <4>1, <4>2, <4>3 DEF AnswerOK
      <4>4. CASE c # m.id
        BY <2>1, <2>4, <3>3, <4>1, <4>2, <4>4, NotSingle DEF AnswerOK
      <4> QED
        BY <4>3, <4>4
    <3> QED
      BY <3>4, <3>5
  <2>6. CASE ReceiveAbort(m)
    <3>1. m.method = "__abort__" /\ toClient' = toClient
      BY <2>6 DEF ReceiveAbort
    <3>2. \A c \in Call : call'[c].phase = call[c].phase
      BY <1>0, <2>4, <2>6 DEF ReceiveAbort, CallState
    <3> SUFFICES ASSUME NEW c \in Call PROVE AnswerOK(c)'
      BY DEF AnswersOK
    <3> QED
      BY <2>1, <2>3, <2>4, <3>1, <3>2 DEF AnswerOK
  <2> QED
    BY <2>2, <2>5, <2>6
<1>5. ASSUME NEW d \in Call, EndBefore(d) PROVE AnswersOK'
  <2>1. UNCHANGED <<toClient, toServer, callbacks, link>> /\ call[d].phase = "before"
    BY <1>5 DEF EndBefore, client_vars
  <2>2. call' = Ended(d, {}) \/ call' = [call EXCEPT ![d].phase = "running"]
    BY <1>5 DEF EndBefore
  <2>3. call'[d].phase \in {"running", "after"} /\ \A c \in Call \ {d} : call'[c] = call[c]
    <3>1. CASE call' = Ended(d, {})
      BY <3>1, EndedTypes DEF TypeInv
    <3>2. CASE call' = [call EXCEPT ![d].phase = "running"]
      BY <1>0, <3>2 DEF CallState
    <3> QED
      BY <2>2, <3>1, <3>2
  <2> QED
    BY <2>1, <2>3, AnswersStay
<1>6. ASSUME NEW d \in Call, HandlerEnds(d) PROVE AnswersOK'
  <2>1. UNCHANGED <<toClient, toServer, callbacks, link>> /\ call[d].phase = "running" /\ call' = Ended(d, {})
    BY <1>6 DEF HandlerEnds, client_vars
  <2>2. call'[d].phase = "after" /\ \A c \in Call \ {d} : call'[c] = call[c]
    BY <2>1, EndedTypes DEF TypeInv
  <2> QED
    BY <2>1, <2>2, AnswersStay
<1>7. ASSUME NEW d \in Call, EndAfter(d) PROVE AnswersOK'
  <2>1. Answered(d, call[d].result) /\ UNCHANGED <<toServer, callbacks, link>> /\ call[d].phase = "after"
    BY <1>7 DEF EndAfter, client_vars
  <2>2. call[d].result \in SUBSET Object
    BY <1>0 DEF CallState
  <2>3. link = "open" => At(toServer, "call", d) = {}
    BY <2>1 DEF AnswersOK, AnswerOK
  <2> QED
    BY <2>1, <2>2, <2>3, AnswersAnswered
<1>8. CASE Disconnect
  BY <1>8 DEF Disconnect, AnswersOK
<1>9. CASE \/ \E c \in Call, o \in Object : HandlerReturns(c, o)
           \/ \E c \in Call : HandlerDisposes(c)
           \/ \E o \in Published : Publish(o)
           \/ \E o \in Closable : CloseObject(o) \/ ReportClosed(o)
           \/ DisposeRoot
  <2> DEFINE Moves(calls) == \A c \in Call : \/ calls[c].phase = call[c].phase
                                             \/ {calls[c].phase, call[c].phase} \subseteq {"before", "running", "after"}
  <2>1. ASSUME NEW s, NEW calls, TurnTo(s, calls), Moves(calls), UNCHANGED link \/ link' # "open"
        PROVE  AnswersOK'
    <3>1. call' = Stale(s, calls) /\ calls \in [Call -> CallState] /\ UNCHANGED <<toServer, callbacks>>
      BY <2>1 DEF TurnTo, Turn, client_vars
    <3>2. Moves(call')
      BY <2>1, <3>1, StaleTypes
    <3>3. ASSUME link = "open" PROVE \A c \in Call : At(toClient', "response", c) = At(toClient, "response", c)
      <4>1. PICK x \in Seq(Message) : NoResponse(x) /\ s.out = toClient \o x
        BY <2>1 DEF TurnTo, Extends, Server
      <4>2. toClient' = toClient \o x
        BY <2>1, <3>3, <4>1 DEF TurnTo, Turn, Sent
      <4> QED
        BY <1>0, <4>1, <4>2, AtMore
    <3>4. link' = "open" => link = "open"
      BY <2>1
    <3> QED
      BY <3>1, <3>2, <3>3, <3>4, AnswersStay
  <2>2. Moves(call)
    OBVIOUS
  <2>3. \A c \in Call : \A r \in SUBSET Object : call[c].phase = "running" => Moves(Ended(c, r))
    BY EndedTypes DEF TypeInv
  <2>4. /\ \A c \in Call, o \in Object : HandlerReturns(c, o) => Moves(Ended(c, {o}))
        /\ \A c \in Call : HandlerDisposes(c) => Moves(Ended(c, {}))
    BY <2>3 DEF HandlerReturns, HandlerDisposes
  <2> HIDE DEF Moves
  <2> QED
    BY <1>9, <2>1, <2>2, <2>4, TurnsAreTurns
<1>10. CASE UNCHANGED vars
  BY <1>10, AnswersStay DEF vars, client_vars
<1> QED
  BY <1>1, <1>2, <1>3, <1>4, <1>5, <1>6, <1>7, <1>8, <1>9, <1>10 DEF Next

(* Every response finds its callback and every callback gets one response,   *)
(* whatever is aborted, disposed or closed in between (dispatch() of         *)
(* connection.ts and of dispatcher.ts).                                      *)
THEOREM CallsHaveOneAnswer == Spec => []OneAnswerPerCall
<1>1. AnswersOK => OneAnswerPerCall
  <2> SUFFICES ASSUME AnswersOK, link = "open", NEW c \in Call
               PROVE  Cardinality(Responses(c)) = IF c \in callbacks /\ call[c].phase = "over" THEN 1 ELSE 0
    BY DEF OneAnswerPerCall
  <2>1. Responses(c) = At(toClient, "response", c)
    BY DEF Responses, At
  <2>2. IF c \in callbacks /\ call[c].phase = "over" THEN Single(Responses(c)) ELSE Responses(c) = {}
    BY <2>1 DEF AnswersOK, AnswerOK
  <2>3. Single(Responses(c)) => Cardinality(Responses(c)) = 1
    BY FS_Singleton DEF Single
  <2>4. Responses(c) = {} => Cardinality(Responses(c)) = 0
    BY FS_EmptySet
  <2> QED
    BY <2>2, <2>3, <2>4
<1>2. Init => AnswersOK
  BY AnswersInit
<1>3. TypeInv /\ AnswersOK /\ [Next]_vars => AnswersOK'
  BY AnswersStep
<1> QED
  BY <1>1, <1>2, <1>3, TypeInvHolds, PTL DEF Spec

(***************************************************************************)
(* What the client makes of the messages on the wire.                      *)
(***************************************************************************)
(* The messages of x, read one after the other, turn the tree a into b, and  *)
(* each is about objects that are known by then.  The path of trees stands   *)
(* for the recursion of ReadBy.                                              *)
Path(a, x, b, path) ==
  /\ path[0] = a /\ path[Len(x)] = b
  /\ \A i \in 1..Len(x) : /\ path[i] = Applied(path[i - 1], x[i])
                          /\ x[i].method # "response" => CanRead(path[i - 1], x[i])

Leads(a, x, b) == \E path \in [0..Len(x) -> Tree] : Path(a, x, b, path)

LEMMA LeadsNowhere ==
  ASSUME NEW a \in Tree
  PROVE  Leads(a, <<>>, a)
<1> DEFINE path == [n \in 0..0 |-> a]
<1>1. path \in [0..Len(<<>>) -> Tree] /\ Path(a, <<>>, a, path)
  BY DEF Path
<1> QED
  BY <1>1 DEF Leads

(* Messages that follow others.                                              *)
LEMMA LeadsOn ==
  ASSUME NEW S, NEW a \in Tree, NEW b \in Tree, NEW c \in Tree, NEW x \in Seq(S), NEW y \in Seq(S),
         Leads(a, x, b), Leads(b, y, c)
  PROVE  Leads(a, x \o y, c)
<1>1. PICK p \in [0..Len(x) -> Tree] : Path(a, x, b, p)
  BY DEF Leads
<1>2. PICK q \in [0..Len(y) -> Tree] : Path(b, y, c, q)
  BY DEF Leads
<1> DEFINE n == Len(x)
           k == Len(y)
           z == x \o y
           path == [i \in 0..(n + k) |-> IF i <= n THEN p[i] ELSE q[i - n]]
<1>3. /\ n \in Nat /\ k \in Nat /\ Len(z) = n + k
      /\ \A i \in 1..(n + k) : z[i] = IF i <= n THEN x[i] ELSE y[i - n]
  BY ConcatProperties, LenProperties
<1> HIDE DEF n, k, z
<1>4. path \in [0..(n + k) -> Tree]
  <2> SUFFICES ASSUME NEW i \in 0..(n + k) PROVE (IF i <= n THEN p[i] ELSE q[i - n]) \in Tree
    OBVIOUS
  <2>1. i <= n => i \in 0..n
    BY <1>3
  <2>2. ~(i <= n) => i - n \in 0..k
    BY <1>3
  <2> QED
    BY <2>1, <2>2 DEF n, k
<1>5. p[0] = a /\ p[n] = b /\ q[0] = b /\ q[k] = c
  BY <1>1, <1>2 DEF Path, n, k
<1>6. path[0] = a /\ path[n + k] = c
  <2>1. path[0] = a
    BY <1>3, <1>5
  <2>2. CASE k = 0
    <3>1. n + k = n /\ n <= n /\ n \in 0..(n + k)
      BY <1>3, <2>2
    <3>2. path[n + k] = p[n]
      BY <3>1
    <3>3. q[k] = q[0]
      BY <2>2
    <3> HIDE DEF path
    <3> QED
      BY ONLY <1>5, <2>1, <3>2, <3>3
  <2>3. CASE k # 0
    <3>1. ~(n + k <= n) /\ n + k - n = k /\ n + k \in 0..(n + k)
      BY <1>3, <2>3
    <3>2. path[n + k] = q[k]
      <4>1. \A j \in 0..(n + k) : ~(j <= n) => path[j] = q[j - n]
        OBVIOUS
      <4> HIDE DEF path
      <4>2. path[n + k] = q[n + k - n]
        BY <1>3, <3>1, <4>1
      <4> QED
        BY <3>1, <4>2
    <3> HIDE DEF path
    <3> QED
      BY ONLY <1>5, <2>1, <3>2
  <2> HIDE DEF path
  <2> QED
    BY ONLY <1>3, <2>1, <2>2, <2>3
<1>7. ASSUME NEW i \in 1..(n + k)
      PROVE  /\ path[i] = Applied(path[i - 1], z[i])
             /\ z[i].method # "response" => CanRead(path[i - 1], z[i])
  <2>0. i - 1 \in 0..(n + k) /\ i \in 0..(n + k)
    BY <1>3
  <2>1. CASE i <= n
    <3>1. i \in 1..n /\ i - 1 <= n
      BY <1>3, <2>1
    <3>2. path[i] = p[i] /\ path[i - 1] = p[i - 1] /\ z[i] = x[i]
      BY <1>3, <2>0, <2>1, <3>1
    <3>3. p[i] = Applied(p[i - 1], x[i]) /\ (x[i].method # "response" => CanRead(p[i - 1], x[i]))
      BY <1>1, <3>1 DEF Path, n
    <3> QED
      BY <3>2, <3>3
  <2>2. CASE ~(i <= n)
    <3>1. i - n \in 1..k /\ (i - n) - 1 = (i - 1) - n /\ (i - 1 <= n => i - 1 = n /\ i - n - 1 = 0)
      BY <1>3, <2>2
    <3>2. path[i] = q[i - n] /\ z[i] = y[i - n]
      BY <1>3, <2>0, <2>2
    <3>3. path[i - 1] = q[(i - n) - 1]
      BY <1>5, <2>0, <3>1
    <3>4. q[i - n] = Applied(q[(i - n) - 1], y[i - n]) /\ (y[i - n].method # "response" => CanRead(q[(i - n) - 1], y[i - n]))
      BY <1>2, <3>1 DEF Path, k
    <3> QED
      BY <3>2, <3>3, <3>4
  <2> QED
    BY <2>1, <2>2
<1> HIDE DEF path
<1>8. path \in [0..Len(z) -> Tree] /\ Path(a, z, c, path)
  BY <1>3, <1>4, <1>6, <1>7 DEF Path
<1> QED
  BY <1>8 DEF Leads, z

LEMMA LeadsOneMore ==
  ASSUME NEW S, NEW a \in Tree, NEW b \in Tree, NEW x \in Seq(S), NEW m \in S, Leads(a, x, b),
         Applied(b, m) \in Tree, m.method # "response" => CanRead(b, m)
  PROVE  Leads(a, Append(x, m), Applied(b, m))
<1> DEFINE path == [n \in 0..1 |-> IF n = 0 THEN b ELSE Applied(b, m)]
<1>1. <<m>> \in Seq(S) /\ Len(<<m>>) = 1 /\ <<m>>[1] = m /\ Append(x, m) = x \o <<m>>
  BY AppendIsConcat
<1>2. path \in [0..1 -> Tree] /\ path[0] = b /\ path[1] = Applied(b, m)
  OBVIOUS
<1> HIDE DEF path
<1>3. Path(b, <<m>>, Applied(b, m), path)
  <2>1. \A i \in 1..1 : i = 1 /\ i - 1 = 0
    OBVIOUS
  <2> QED
    BY <1>1, <1>2, <2>1 DEF Path
<1>4. Leads(b, <<m>>, Applied(b, m))
  BY <1>1, <1>2, <1>3 DEF Leads
<1> QED
  BY <1>1, <1>4, LeadsOn

(* The client reads the first of them.                                       *)
LEMMA LeadsFromHead ==
  ASSUME NEW S, NEW a \in Tree, NEW b \in Tree, NEW x \in Seq(S), x # <<>>, Leads(a, x, b)
  PROVE  /\ Leads(Applied(a, Head(x)), Tail(x), b)
         /\ Head(x).method # "response" => CanRead(a, Head(x))
<1>1. PICK p \in [0..Len(x) -> Tree] : Path(a, x, b, p)
  BY DEF Leads
<1> DEFINE n == Len(x) - 1
           q == [i \in 0..n |-> p[i + 1]]
<1>2. /\ n \in Nat /\ Len(x) = n + 1 /\ Len(Tail(x)) = n /\ Head(x) = x[1]
      /\ \A i \in 1..n : Tail(x)[i] = x[i + 1]
  BY HeadTailProperties, LenProperties, EmptySeq
<1> HIDE DEF n
<1>3. q \in [0..n -> Tree]
  <2>1. \A i \in 0..n : i + 1 \in 0..(n + 1)
    BY <1>2
  <2> QED
    BY <1>2, <2>1
<1>4. /\ p[0] = a /\ p[n + 1] = b
      /\ \A i \in 1..(n + 1) : /\ p[i] = Applied(p[i - 1], x[i])
                               /\ x[i].method # "response" => CanRead(p[i - 1], x[i])
  BY <1>1, <1>2 DEF Path
<1>5. p[1] = Applied(a, Head(x)) /\ (Head(x).method # "response" => CanRead(a, Head(x)))
  <2>1. 1 \in 1..(n + 1) /\ 1 - 1 = 0
    BY <1>2
  <2> QED
    BY <1>2, <1>4, <2>1
<1>6. q[0] = Applied(a, Head(x)) /\ q[n] = b
  BY <1>2, <1>4, <1>5
<1>7. ASSUME NEW i \in 1..n
      PROVE  /\ q[i] = Applied(q[i - 1], Tail(x)[i])
             /\ Tail(x)[i].method # "response" => CanRead(q[i - 1], Tail(x)[i])
  <2>1. i + 1 \in 1..(n + 1) /\ (i + 1) - 1 = i /\ i - 1 \in 0..n /\ i \in 0..n /\ (i - 1) + 1 = i
    BY <1>2
  <2>2. q[i] = p[i + 1] /\ q[i - 1] = p[(i + 1) - 1] /\ Tail(x)[i] = x[i + 1]
    BY <1>2, <2>1
  <2> QED
    BY <1>4, <2>1, <2>2
<1> HIDE DEF q
<1>8. q \in [0..Len(Tail(x)) -> Tree] /\ Path(Applied(a, Head(x)), Tail(x), b, q)
  BY <1>2, <1>3, <1>6, <1>7 DEF Path
<1> QED
  BY <1>5, <1>8 DEF Leads

(* ReadBy goes along the path.                                               *)
LEMMA LeadsToWhatIsRead ==
  ASSUME NEW S, NEW a \in Tree, NEW b \in Tree, NEW x \in Seq(S), Leads(a, x, b)
  PROVE  ReadBy(a, x) = b
<1>1. PICK p \in [0..Len(x) -> Tree] : Path(a, x, b, p)
  BY DEF Leads
<1> DEFINE Reads(f) == f = [n \in 0..Len(x) |-> IF n = 0 THEN a ELSE Applied(f[n - 1], x[n])]
           after == CHOOSE f : Reads(f)
           P == {n \in 0..Len(x) : after[n] = p[n]}
<1>0. Len(x) \in Nat
  OBVIOUS
<1>2. Reads(p)
  <2>1. ASSUME NEW n \in 0..Len(x) PROVE p[n] = IF n = 0 THEN a ELSE Applied(p[n - 1], x[n])
    <3>1. n # 0 => n \in 1..Len(x)
      BY <1>0
    <3> QED
      BY <1>1, <3>1 DEF Path
  <2> QED
    BY <2>1
<1>3. ReadBy(a, x) = after[Len(x)]
  BY DEF ReadBy
<1>4. Reads(after)
  <2> HIDE DEF Reads
  <2> QED
    BY <1>2
<1>5. \A n \in 0..Len(x) : after[n] = IF n = 0 THEN a ELSE Applied(after[n - 1], x[n])
  <2> HIDE DEF after
  <2> QED
    BY <1>4
<1>6. \A n \in 0..Len(x) : p[n] = IF n = 0 THEN a ELSE Applied(p[n - 1], x[n])
  BY <1>2
<1> HIDE DEF after, Reads
<1>7. 0 \in P
  BY <1>0, <1>5, <1>6
<1>8. \A n \in 0..Len(x) : n \in P /\ n < Len(x) => n + 1 \in P
  <2> SUFFICES ASSUME NEW n \in 0..Len(x), n \in P, n < Len(x) PROVE n + 1 \in P
    OBVIOUS
  <2>1. n + 1 \in 0..Len(x) /\ n + 1 # 0 /\ (n + 1) - 1 = n
    BY <1>0
  <2> QED
    BY <1>5, <1>6, <2>1
<1> HIDE DEF P
<1>9. \A n \in 0..Len(x) : n \in P
  BY ONLY <1>0, <1>7, <1>8, UpTo
<1>10. Len(x) \in P
  BY <1>0, <1>9
<1> QED
  BY <1>1, <1>3, <1>10 DEF P, Path

(***************************************************************************)
(* The steps of a turn as long as the scopes are kept: the tree hangs from  *)
(* the root, the scopes stay, and the client can follow.                    *)
(***************************************************************************)
Rooted(tree) ==
  \A o \in Object : tree[o] # {} => Root \in tree[o] /\ \A p \in tree[o] : p = o \/ Scoping(p)

Keeps(s, t)  == \A g \in Object : Scoping(g) /\ s.up[g] # {} => t.up[g] # {}
Tracks(s, t) == \A a \in Tree : Leads(a, s.out, s.up) => Leads(a, t.out, t.up)

(* A bucket that is too long has nothing but objects without children.       *)
LEMMA KeptBuckets ==
  ASSUME ScopesAreKept, NEW tree, NEW lists, Listed(tree, lists), NEW k \in Bucket,
         ~(Len(lists[k]) <= MaxDispatchers), NEW i \in DOMAIN lists[k]
  PROVE  ~Scoping(lists[k][i])
<1> DEFINE list == lists[k]
           kind == {g \in Object : BucketOf[g] = BucketOf[list[i]]}
<1>1. list \in Seq(Object) /\ IsInjective(list) /\ ToSet(list) = OfKind(tree, k)
  BY DEF Listed
<1> HIDE DEF list
<1>2. /\ Len(list) \in Nat /\ DOMAIN list = 1..Len(list)
      /\ \A j \in 1..Len(list) : list[j] \in Object /\ BucketOf[list[j]] = k
  <2>1. Len(list) \in Nat /\ DOMAIN list = 1..Len(list)
    BY <1>1, LenProperties
  <2>2. \A j \in 1..Len(list) : list[j] \in ToSet(list)
    BY <2>1 DEF ToSet
  <2> QED
    BY <1>1, <2>1, <2>2 DEF OfKind
<1>3. i \in 1..Len(list) /\ list[i] \in Object /\ ~(Len(list) <= MaxDispatchers)
  BY <1>2 DEF list
<1> SUFFICES ASSUME Scoping(list[i]) PROVE FALSE
  BY DEF list
<1>4. IsFiniteSet(kind) /\ Cardinality(kind) <= MaxDispatchers
  BY <1>3 DEF ScopesAreKept
<1>5. list \in [1..Len(list) -> kind]
  <2>1. list \in [1..Len(list) -> Object]
    BY <1>1
  <2> QED
    BY <1>2, <1>3, <2>1
<1> HIDE DEF kind
<1>6. list \in Injection(1..Len(list), kind)
  BY <1>1, <1>2, <1>5, Fun_IsInj DEF IsInjective
<1>7. Cardinality(1..Len(list)) <= Cardinality(kind)
  BY <1>4, <1>6, FS_Injection
<1>8. Cardinality(1..Len(list)) = Len(list)
  <2>1. 1 \in Int /\ Len(list) \in Int /\ (IF 1 > Len(list) THEN 0 ELSE Len(list) - 1 + 1) = Len(list)
    BY <1>2
  <2> QED
    BY <2>1, FS_Interval
<1>9. Cardinality(kind) \in Nat /\ MaxDispatchers \in Nat
  BY <1>4, FS_CardinalityType, BucketAssumption
<1> QED
  BY <1>2, <1>3, <1>4, <1>7, <1>8, <1>9

(* The C objects d have no children, are in the tree once each, are all that *)
(* is lost, and x disposes of one after the other.                           *)
Leaves(tree, C, d, x, lost) ==
  /\ d \in [1..C -> Object] /\ Len(x) = C
  /\ \A i, j \in 1..C : d[i] = d[j] => i = j
  /\ \A i \in 1..C : /\ tree[d[i]] # {} /\ x[i] = DisposeMessage(d[i], "gc")
                     /\ \A g \in Object : d[i] \in tree[g] <=> g = d[i]
  /\ \A g \in Object : g \in lost <=> \E i \in 1..C : g = d[i]

LEMMA LeavesAreDisposed ==
  ASSUME NEW tree \in Tree, NEW C \in Nat, NEW d, NEW x \in Seq(Message), NEW lost,
         Leaves(tree, C, d, x, lost)
  PROVE  Leads(tree, x, WithoutAll(tree, lost))
<1> USE DEF Leaves
<1> DEFINE Left(n) == WithoutAll(tree, {d[i] : i \in 1..n})
           path == [n \in 0..C |-> Left(n)]
<1>1. \A n \in 0..C : Left(n) \in Tree /\ \A g \in Object : Left(n)[g] = IF \E i \in 1..n : g = d[i] THEN {} ELSE tree[g]
  BY DEF WithoutAll, Tree
<1>2. Left(0) = tree
  <2>1. \A g \in Object : Left(0)[g] = tree[g]
    <3>1. 0 \in 0..C /\ ~(\E i \in 1..0 : TRUE)
      OBVIOUS
    <3> HIDE DEF Left
    <3> QED
      BY <1>1, <3>1
  <2>2. Left(0) \in [Object -> SUBSET Object] /\ tree \in [Object -> SUBSET Object]
    <3>1. 0 \in 0..C
      OBVIOUS
    <3> HIDE DEF Left
    <3> QED
      BY <1>1, <3>1 DEF Tree
  <2> HIDE DEF Left
  <2> QED
    BY <2>1, <2>2
<1>3. ASSUME NEW n \in 1..C
      PROVE  /\ Left(n) = Applied(Left(n - 1), x[n])
             /\ CanRead(Left(n - 1), x[n])
  <2>1. n - 1 \in 0..C /\ n \in 0..C /\ n \in Nat
    OBVIOUS
  <2>2. \A i \in 1..n : i \in 1..C /\ (i = n \/ i \in 1..(n - 1))
    BY <2>1
  <2>3. \A i \in 1..(n - 1) : i \in 1..n /\ i # n
    BY <2>1
  <2> HIDE DEF Left
  <2>4. /\ Left(n) \in Tree /\ \A g \in Object : Left(n)[g] = IF \E i \in 1..n : g = d[i] THEN {} ELSE tree[g]
        /\ Left(n - 1) \in Tree
        /\ \A g \in Object : Left(n - 1)[g] = IF \E i \in 1..(n - 1) : g = d[i] THEN {} ELSE tree[g]
    BY <1>1, <2>1
  <2>5. Left(n - 1)[d[n]] # {}
    BY <2>2, <2>3, <2>4
  <2>6. CanRead(Left(n - 1), x[n]) /\ x[n].method = "__dispose__" /\ x[n].guid = d[n]
    BY <2>5 DEF CanRead, Mentions, IsBound, DisposeMessage
  <2>7. Applied(Left(n - 1), x[n]) = Pruned(Left(n - 1), d[n])
    BY <2>6 DEF Applied
  <2>8. ASSUME NEW g \in Object PROVE Left(n)[g] = IF d[n] \in Left(n - 1)[g] THEN {} ELSE Left(n - 1)[g]
    <3>1. CASE \E i \in 1..(n - 1) : g = d[i]
      BY <2>3, <2>4, <3>1
    <3>2. CASE ~\E i \in 1..(n - 1) : g = d[i]
      <4>1. Left(n - 1)[g] = tree[g] /\ (d[n] \in tree[g] <=> g = d[n])
        BY <2>4, <3>2
      <4>2. (\E i \in 1..n : g = d[i]) <=> g = d[n]
        BY <2>2, <3>2
      <4> QED
        BY <2>4, <4>1, <4>2
    <3> QED
      BY <3>1, <3>2
  <2>9. DOMAIN Left(n - 1) = Object /\ Left(n) = [g \in Object |-> Left(n)[g]]
    BY <2>4 DEF Tree
  <2>10. Left(n) = Pruned(Left(n - 1), d[n])
    BY <2>8, <2>9 DEF Pruned
  <2> QED
    BY <2>6, <2>7, <2>10
<1>4. path \in [0..C -> Tree] /\ path[0] = tree /\ path[C] = Left(C) /\ \A n \in 1..C : path[n] = Left(n) /\ path[n - 1] = Left(n - 1)
  <2>1. \A n \in 1..C : n \in 0..C /\ n - 1 \in 0..C
    OBVIOUS
  <2> HIDE DEF Left
  <2> QED
    BY <1>1, <1>2, <2>1
<1>5. Left(C) = WithoutAll(tree, lost)
  BY <1>1 DEF WithoutAll
<1> HIDE DEF Left, path
<1>6. Path(tree, x, Left(C), path)
  BY <1>3, <1>4 DEF Path
<1> QED
  BY <1>4, <1>5, <1>6 DEF Leads

LEMMA CollectedKeeps ==
  ASSUME ScopesAreKept, NEW s, NEW k \in Bucket, GoodTree(s.up), Listed(s.up, s.bucket),
         s.out \in Seq(Message), Rooted(s.up)
  PROVE  LET t == Collected(s, k)
             o == s.bucket[k][Len(s.bucket[k])]
         IN  /\ Rooted(t.up) /\ Keeps(s, t) /\ Tracks(s, t)
             /\ Len(s.bucket[k]) # 0 => t.up[o] # {}
<1> DEFINE list  == s.bucket[k]
           lost  == {g \in Object : \E i \in 1..DisposeCount : list[i] \in s.up[g]}
           F     == {i \in 1..DisposeCount : \A j \in 1..(i - 1) : list[j] \notin s.up[list[i]]}
           first == Ascending(F)
           x     == [n \in DOMAIN first |-> DisposeMessage(list[first[n]], "gc")]
           fewer == [b \in Bucket |-> Without(s.bucket[b], lost)]
           t     == Collected(s, k)
           o     == list[Len(list)]
<1>1. /\ list \in Seq(Object) /\ Len(list) \in Nat /\ DOMAIN list = 1..Len(list) /\ IsInjective(list)
      /\ DisposeCount \in Nat /\ MaxDispatchers \in Nat /\ DisposeCount <= MaxDispatchers
      /\ \A i \in 1..Len(list) : list[i] \in Object /\ s.up[list[i]] # {}
  <2>1. list \in Seq(Object) /\ IsInjective(list)
    BY DEF Listed
  <2>2. Len(list) \in Nat /\ DOMAIN list = 1..Len(list)
    BY <2>1, LenProperties
  <2>3. \A i \in 1..Len(list) : list[i] \in ToSet(list)
    BY <2>2 DEF ToSet
  <2>4. ToSet(list) = OfKind(s.up, k)
    BY DEF Listed
  <2> HIDE DEF list
  <2> QED
    BY <2>1, <2>2, <2>3, <2>4, BucketAssumption DEF OfKind
<1>2. CASE Len(list) <= MaxDispatchers
  <2>1. t = s
    BY <1>2 DEF Collected
  <2>2. Len(list) # 0 => s.up[o] # {}
    <3>1. Len(list) # 0 => Len(list) \in 1..Len(list)
      BY <1>1
    <3> HIDE DEF list
    <3> QED
      BY <1>1, <3>1
  <2> QED
    BY <2>1, <2>2 DEF Keeps, Tracks
<1>3. CASE ~(Len(list) <= MaxDispatchers)
  <2>1. t = [up |-> WithoutAll(s.up, lost), bucket |-> fewer, out |-> s.out \o x]
    BY <1>3, Zenon DEF Collected, WithoutAll
  <2>2. \A i \in DOMAIN list : ~Scoping(list[i])
    BY <1>3, KeptBuckets
  <2>3. \A i \in 1..DisposeCount : i \in 1..Len(list)
    BY <1>1, <1>3
  <2>4. \A i \in 1..DisposeCount : \A g \in Object : list[i] \in s.up[g] <=> g = list[i]
    BY <1>1, <2>2, <2>3 DEF Rooted, GoodTree, Ordered
  <2>5. F = 1..DisposeCount
    <3> SUFFICES ASSUME NEW i \in 1..DisposeCount, NEW j \in 1..(i - 1), list[j] \in s.up[list[i]] PROVE FALSE
      OBVIOUS
    <3>1. j \in 1..DisposeCount /\ i # j
      BY <1>1
    <3>2. list[i] = list[j]
      BY <1>1, <2>3, <2>4, <3>1
    <3> QED
      BY <1>1, <2>3, <3>1, <3>2 DEF IsInjective
  <2> DEFINE C == Cardinality(F)
             d == [n \in 1..C |-> list[first[n]]]
  <2>6. /\ first \in [1..C -> F] /\ C \in Nat
        /\ \A i \in F : \E n \in 1..C : first[n] = i
        /\ \A n, m \in 1..C : first[n] = first[m] => n = m
    <3>1. 1..DisposeCount \in SUBSET Nat /\ IsFiniteSet(1..DisposeCount)
      <4>1. 1 \in Int /\ DisposeCount \in Int /\ 1..DisposeCount \subseteq Nat
        BY <1>1
      <4> QED
        BY ONLY <4>1, FS_Interval
    <3> HIDE DEF F
    <3> QED
      BY <2>5, <3>1, AscendingFacts
  <2> HIDE DEF t, fewer, first, F
  <2>7. d \in [1..C -> Object] /\ \A n \in 1..C : d[n] = list[first[n]] /\ first[n] \in 1..DisposeCount
    <3> HIDE DEF C, list
    <3> QED
      BY <1>1, <2>3, <2>5, <2>6
  <2>8. \A i, j \in 1..C : d[i] = d[j] => i = j
    <3> HIDE DEF C, d, list
    <3> QED
      BY <1>1, <2>3, <2>6, <2>7 DEF IsInjective
  <2>9. lost = {d[i] : i \in 1..C}
    <3>1. \A g \in Object : g \in lost <=> \E i \in 1..DisposeCount : g = list[i]
      BY <2>4
    <3>2. \A g \in Object : (\E i \in 1..DisposeCount : g = list[i]) <=> (\E n \in 1..C : g = d[n])
      <4> HIDE DEF C, d, list
      <4> QED
        BY <2>5, <2>6, <2>7
    <3>3. lost \subseteq Object
      OBVIOUS
    <3> HIDE DEF C, d, list, lost
    <3> QED
      BY <2>7, <3>1, <3>2, <3>3
  <2>10. \A g \in lost : \E i \in 1..DisposeCount : g = list[i]
    BY <2>4
  <2>11. /\ \A i \in 1..C : s.up[d[i]] # {}
         /\ \A i \in 1..C : \A g \in Object : d[i] \in s.up[g] <=> g = d[i]
    <3> HIDE DEF C, d, list
    <3> QED
      BY <1>1, <2>3, <2>4, <2>7
  <2>12. x \in Seq(Message) /\ Len(x) = C /\ \A i \in 1..C : x[i] = DisposeMessage(d[i], "gc")
    <3>1. DOMAIN first = 1..C
      BY <2>6
    <3>2. x = [n \in 1..C |-> DisposeMessage(d[n], "gc")]
      BY <3>1
    <3>3. \A n \in 1..C : DisposeMessage(d[n], "gc") \in Message
      <4> HIDE DEF d, C
      <4> QED
        BY <2>7, MessageFacts
    <3> HIDE DEF x, d, C
    <3>4. x \in [1..C -> Message]
      BY <3>2, <3>3
    <3>5. x \in Seq(Message)
      BY <2>6, <3>4, SeqDef
    <3> QED
      BY <2>6, <3>2, <3>4, <3>5
  <2> HIDE DEF x, d, C, lost, list
  <2>13. t.up = WithoutAll(s.up, lost) /\ t.out = s.out \o x /\ s.up \in Tree
    BY <2>1 DEF GoodTree
  <2>14. \A g \in Object : t.up[g] = IF g \in lost THEN {} ELSE s.up[g]
    BY <2>13 DEF WithoutAll
  <2>15. Rooted(t.up)
    BY <2>14 DEF Rooted
  <2>16. Keeps(s, t)
    BY <1>1, <2>2, <2>3, <2>10, <2>14 DEF Keeps
  <2>17. t.up[o] # {}
    <3>1. Len(list) \in 1..Len(list) /\ o \in Object /\ ~(Len(list) \in 1..DisposeCount)
      BY <1>1, <1>3
    <3>2. o \notin lost
      BY <1>1, <2>3, <2>10, <3>1 DEF IsInjective
    <3> QED
      BY <1>1, <2>14, <3>1, <3>2
  <2>18. Leads(s.up, x, t.up)
    <3>1. s.up \in Tree /\ C \in Nat /\ x \in Seq(Message)
      BY <2>6, <2>12, <2>13
    <3>2. \A g \in Object : g \in lost <=> \E i \in 1..C : g = d[i]
      BY <2>9
    <3>3. Leaves(s.up, C, d, x, lost)
      BY <2>7, <2>8, <2>11, <2>12, <3>2 DEF Leaves
    <3>4. Leads(s.up, x, WithoutAll(s.up, lost))
      BY <3>1, <3>3, LeavesAreDisposed
    <3> QED
      BY <2>13, <3>4
  <2>19. t.up \in Tree
    BY <2>13 DEF WithoutAll, Tree
  <2>20. Tracks(s, t)
    <3> SUFFICES ASSUME NEW a \in Tree, Leads(a, s.out, s.up) PROVE Leads(a, t.out, t.up)
      BY DEF Tracks
    <3> QED
      BY <2>12, <2>13, <2>18, <2>19, LeadsOn
  <2> QED
    BY <2>15, <2>16, <2>17, <2>20 DEF t, list
<1> QED
  BY <1>2, <1>3

LEMMA CreatedKeeps ==
  ASSUME ScopesAreKept, NEW s, Sound(s), Rooted(s.up), NEW p \in Object, NEW o \in Object, o \in Below[p],
         s.up[o] = {}, s.up[p] # {}, Scoping(p), NEW refs \in SUBSET Object, \A r \in refs : s.up[r] # {}
  PROVE  LET t == Created(s, p, o, refs)
         IN  Rooted(t.up) /\ Keeps(s, t) /\ Tracks(s, t) /\ t.up[o] # {}
<1> DEFINE u == Placed(s, p, o, refs)
           t == Created(s, p, o, refs)
           b == BucketOf[o]
           m == CreateMessage(p, o, refs)
<1>1. /\ GoodTree(u.up) /\ Listed(u.up, u.bucket) /\ u.out \in Seq(Message)
      /\ b \in Bucket /\ u.up = Grown(s.up, p, o) /\ u.out = Append(s.out, m)
      /\ Len(u.bucket[b]) \in Nat /\ u.bucket[b][Len(u.bucket[b])] = o
  BY PlacedFacts
<1>2. t = Collected(u, b)
  BY DEF Created, Placed
<1>3. s.up \in Tree /\ s.out \in Seq(Message)
  BY DEF Sound, GoodTree
<1>4. /\ m \in Message /\ m.method = "__create__" /\ m.guid = p /\ m.child = o /\ m.refs = refs
  BY MessageFacts DEF CreateMessage
<1> HIDE DEF u, t, b, m
<1>5. u.up[o] = s.up[p] \cup {o} /\ \A g \in Object \ {o} : u.up[g] = s.up[g]
  BY <1>1, <1>3 DEF Grown, Tree
<1>6. Rooted(u.up)
  BY <1>5 DEF Rooted
<1>7. Keeps(s, u)
  BY <1>5 DEF Keeps
<1>8. CanRead(s.up, m) /\ Applied(s.up, m) = u.up
  BY <1>1, <1>4 DEF CanRead, Mentions, IsBound, Applied
<1>9. Tracks(s, u)
  <2> SUFFICES ASSUME NEW a \in Tree, Leads(a, s.out, s.up) PROVE Leads(a, u.out, u.up)
    BY DEF Tracks
  <2>1. u.up \in Tree
    BY <1>1 DEF GoodTree
  <2> QED
    BY <1>1, <1>3, <1>4, <1>8, <2>1, LeadsOneMore
<1>10. Len(u.bucket[b]) # 0
  <2>1. o \in ToSet(u.bucket[b]) /\ u.bucket[b] \in Seq(Object)
    BY <1>1, <1>5 DEF Listed, OfKind, b
  <2> HIDE DEF b
  <2> QED
    BY <2>1 DEF ToSet
<1>11. Rooted(t.up) /\ Keeps(u, t) /\ Tracks(u, t) /\ t.up[o] # {}
  BY <1>1, <1>2, <1>6, <1>10, CollectedKeeps
<1>12. Keeps(s, t) /\ Tracks(s, t)
  BY <1>7, <1>9, <1>11 DEF Keeps, Tracks
<1> QED
  BY <1>11, <1>12 DEF t

LEMMA AdoptedKeeps ==
  ASSUME NEW s, Sound(s), Rooted(s.up), NEW p \in Object, NEW o \in Object, o \in Below[p], o # p,
         s.up[o] # {}, s.up[p] # {}, Scoping(p), Scoping(o)
  PROVE  LET t == AdoptedBy(s, p, o)
         IN  Rooted(t.up) /\ Keeps(s, t) /\ Tracks(s, t) /\ \A g \in Object : t.up[g] = {} <=> s.up[g] = {}
<1> DEFINE t == AdoptedBy(s, p, o)
           m == AdoptMessage(p, o)
<1>1. CASE s.up[o] \ {o} = s.up[p]
  BY <1>1 DEF AdoptedBy, Keeps, Tracks
<1>2. CASE s.up[o] \ {o} # s.up[p]
  <2>1. t = [s EXCEPT !.up = Moved(s.up, p, o), !.out = Append(@, m)]
    BY <1>2 DEF AdoptedBy
  <2>2. m \in Message /\ m.method = "__adopt__" /\ m.guid = p /\ m.child = o /\ m.refs = {o}
    BY MessageFacts DEF AdoptMessage
  <2> HIDE DEF t, m
  <2>3. t.up = Moved(s.up, p, o) /\ t.out = Append(s.out, m)
    BY <2>1
  <2>4. s.up \in Tree /\ Ordered(s.up) /\ s.out \in Seq(Message)
    BY DEF Sound, GoodTree
  <2>5. t.up \in Tree /\ \A g \in Object : t.up[g] = {} <=> s.up[g] = {}
    BY <2>3, <2>4, MovedFacts
  <2>6. \A g \in Object : t.up[g] = IF o \in s.up[g] THEN (s.up[g] \ s.up[o]) \cup {o} \cup s.up[p] ELSE s.up[g]
    BY <2>3, <2>4 DEF Moved, Tree
  <2>7. Rooted(t.up)
    <3> SUFFICES ASSUME NEW g \in Object, t.up[g] # {}
                 PROVE  Root \in t.up[g] /\ \A q \in t.up[g] : q = g \/ Scoping(q)
      BY DEF Rooted
    <3>1. /\ \A q \in s.up[g] : Root \in s.up[g] /\ (q = g \/ Scoping(q))
          /\ \A q \in s.up[p] : q = p \/ Scoping(q)
          /\ Root \in s.up[p]
      BY DEF Rooted
    <3> QED
      BY <2>6, <3>1
  <2>8. CanRead(s.up, m) /\ Applied(s.up, m) = t.up
    BY <2>2, <2>3 DEF CanRead, Mentions, IsBound, Applied
  <2>9. Tracks(s, t)
    <3> SUFFICES ASSUME NEW a \in Tree, Leads(a, s.out, s.up) PROVE Leads(a, t.out, t.up)
      BY DEF Tracks
    <3> QED
      BY <2>2, <2>3, <2>4, <2>5, <2>8, LeadsOneMore
  <2> QED
    BY <2>5, <2>7, <2>9 DEF Keeps, t
<1> QED
  BY <1>1, <1>2

(* from() leaves a dispatcher for its object.                                *)
LEMMA FromKeeps ==
  ASSUME ScopesAreKept, NEW s, Sound(s), Rooted(s.up), NEW o \in Object \ {Root},
         \E p \in ToSet(Scopes[o]) : s.up[p] # {}
  PROVE  LET t == From(s, o)
         IN  Rooted(t.up) /\ Keeps(s, t) /\ Tracks(s, t) /\ t.up[o] # {}
<1> DEFINE scope == ScopeFor(s, o)
           part  == CHOOSE f \in Adopted[o] : TRUE
<1>1. CASE s.up[o] # {}
  BY <1>1 DEF From, Keeps, Tracks
<1>2. /\ scope \in Object /\ o \in Below[scope] /\ s.up[scope] # {} /\ Scoping(scope)
  BY ScopeFacts DEF ToSet, Scoping
<1>3. CASE s.up[o] = {} /\ Adopted[o] = {}
  <2>1. From(s, o) = Created(s, scope, o, {})
    BY <1>3 DEF From
  <2> HIDE DEF scope
  <2> QED
    BY <1>2, <1>3, <2>1, CreatedKeeps
<1>4. CASE s.up[o] = {} /\ Adopted[o] # {}
  <2>1. part \in Adopted[o] /\ Scoping(o)
    BY <1>4 DEF Scoping
  <2> DEFINE t == Present(s, scope, part)
             u == Created(t, scope, o, {part})
             v == AdoptedBy(u, o, part)
  <2>2. From(s, o) = v
    BY <1>4 DEF From
  <2> HIDE DEF scope, part
  <2>3. part \in Object /\ part # o /\ part \in Below[o] /\ Scoping(part)
    BY <2>1, RootAssumption, BelowAssumption DEF Scoping
  <2>4. part \in Below[scope]
    BY <1>2, <2>3, BelowFacts
  <2>5. Sound(t) /\ t.up[o] = {}
    BY <1>2, <1>4, <2>3, <2>4, PresentFacts
  <2>6. Rooted(t.up) /\ Keeps(s, t) /\ Tracks(s, t) /\ t.up[part] # {}
    <3>1. CASE s.up[part] # {}
      BY <3>1 DEF Present, Keeps, Tracks
    <3>2. CASE s.up[part] = {}
      <4>1. t = Created(s, scope, part, {})
        BY <3>2 DEF Present
      <4> HIDE DEF t
      <4> QED
        BY <1>2, <2>3, <2>4, <3>2, <4>1, CreatedKeeps
    <3> QED
      BY <3>1, <3>2
  <2> HIDE DEF t
  <2>7. t.up[scope] # {}
    BY <1>2, <2>6 DEF Keeps
  <2>8. Sound(u) /\ Rooted(u.up) /\ Keeps(t, u) /\ Tracks(t, u) /\ u.up[o] # {}
    <3>1. {part} \in SUBSET Object /\ \A r \in {part} : t.up[r] # {}
      BY <2>3, <2>6
    <3>2. scope \in Object /\ o \in Object /\ o \in Below[scope] /\ Scoping(scope)
      BY <1>2
    <3>3. Sound(u)
      BY <2>5, <3>1, <3>2, CreatedFacts
    <3>4. Rooted(u.up) /\ Keeps(t, u) /\ Tracks(t, u) /\ u.up[o] # {}
      BY <2>5, <2>6, <2>7, <3>1, <3>2, CreatedKeeps
    <3> QED
      BY <3>3, <3>4
  <2>9. u.up[part] # {}
    BY <2>3, <2>6, <2>8 DEF Keeps
  <2> HIDE DEF u
  <2>10. Rooted(v.up) /\ Keeps(u, v) /\ Tracks(u, v) /\ v.up[o] # {}
    BY <2>1, <2>3, <2>8, <2>9, AdoptedKeeps
  <2> HIDE DEF v
  <2>11. Keeps(s, v) /\ Tracks(s, v)
    BY <2>6, <2>8, <2>10 DEF Keeps, Tracks
  <2> QED
    BY <2>2, <2>10, <2>11
<1> QED
  BY <1>1, <1>3, <1>4

(* A dispose takes what is below the object, and nothing else.               *)
LEMMA DisposedKeeps ==
  ASSUME NEW s, Sound(s), Rooted(s.up), NEW o \in Object, s.up[o] # {}, NEW reason \in {"none", "gc"}
  PROVE  LET t == Disposed(s, o, reason)
         IN  /\ Rooted(t.up) /\ Tracks(s, t)
             /\ \A g \in Object \ Below[o] : t.up[g] = s.up[g]
<1> DEFINE t == Disposed(s, o, reason)
           m == DisposeMessage(o, reason)
<1>1. Sound(t) /\ t.up = Pruned(s.up, o) /\ t.out = Append(s.out, m)
  BY DisposedFacts
<1>2. s.up \in Tree /\ Ordered(s.up) /\ s.out \in Seq(Message) /\ t.up \in Tree
  BY <1>1 DEF Sound, GoodTree
<1>3. m \in Message /\ m.method = "__dispose__" /\ m.guid = o /\ m.refs = {}
  BY MessageFacts DEF DisposeMessage
<1> HIDE DEF t, m
<1>4. \A g \in Object : t.up[g] = IF o \in s.up[g] THEN {} ELSE s.up[g]
  BY <1>1, <1>2 DEF Pruned, Tree
<1>5. Rooted(t.up)
  BY <1>4 DEF Rooted
<1>6. \A g \in Object \ Below[o] : t.up[g] = s.up[g]
  BY <1>2, <1>4 DEF Ordered
<1>7. CanRead(s.up, m) /\ Applied(s.up, m) = t.up
  BY <1>1, <1>3 DEF CanRead, Mentions, IsBound, Applied
<1>8. Tracks(s, t)
  <2> SUFFICES ASSUME NEW a \in Tree, Leads(a, s.out, s.up) PROVE Leads(a, t.out, t.up)
    BY DEF Tracks
  <2> QED
    BY <1>1, <1>2, <1>3, <1>7, LeadsOneMore
<1> QED
  BY <1>5, <1>6, <1>8 DEF t

LEMMA EmittedKeeps ==
  ASSUME NEW s, Sound(s), NEW o \in Object, NEW refs \in SUBSET Object, s.up[o] # {}, \A r \in refs : s.up[r] # {}
  PROVE  Tracks(s, Emitted(s, o, refs))
<1> DEFINE t == Emitted(s, o, refs)
           m == EventMessage(o, refs)
<1>1. t.up = s.up /\ t.out = Append(s.out, m)
  BY DEF Emitted
<1>2. s.up \in Tree /\ s.out \in Seq(Message)
  BY DEF Sound, GoodTree
<1>3. m \in Message /\ m.method = "event" /\ m.guid = o /\ m.refs = refs
  BY MessageFacts DEF EventMessage
<1> HIDE DEF t, m
<1>4. CanRead(s.up, m) /\ Applied(s.up, m) = t.up
  BY <1>1, <1>3 DEF CanRead, Mentions, IsBound, Applied
<1> SUFFICES ASSUME NEW a \in Tree, Leads(a, s.out, s.up) PROVE Leads(a, t.out, t.up)
  BY DEF Tracks, t
<1> QED
  BY <1>1, <1>2, <1>3, <1>4, LeadsOneMore

LEMMA ClosedKeeps ==
  ASSUME NEW s, Sound(s), Rooted(s.up), NEW o \in Object, s.up[o] # {}
  PROVE  LET t == Closed(s, o)
         IN  /\ Rooted(t.up) /\ Tracks(s, t)
             /\ \A g \in Object \ Below[o] : t.up[g] = s.up[g]
<1> DEFINE u == Emitted(s, o, {})
           t == Closed(s, o)
<1>1. Sound(u) /\ u.up = s.up /\ Tracks(s, u)
  BY EmittedFacts, EmittedKeeps
<1>2. t = Disposed(u, o, "none")
  BY DEF Closed
<1> HIDE DEF u, t
<1>3. Rooted(t.up) /\ Tracks(u, t) /\ \A g \in Object \ Below[o] : t.up[g] = u.up[g]
  BY <1>1, <1>2, DisposedKeeps
<1> QED
  BY <1>1, <1>3 DEF Tracks, t

(***************************************************************************)
(* The whole tree, and the client that follows it.                         *)
(***************************************************************************)
(* A method at work was called on a dispatcher that is there unless the call *)
(* is stale; as long as its object exists, a scope has its dispatcher, and   *)
(* after the end of the connection no method of it is left that was not told *)
(* to stop.                                                                  *)
CallKept(c) ==
  call[c].phase \in {"before", "running"} =>
    /\ ~call[c].stale => up[call[c].target] # {}
    /\ call[c].target \notin gone /\ Scoping(call[c].target) =>
         link # "closed" /\ up[call[c].target] # {} /\ (link = "closing" => call[c].aborted)

AskIsKept(i) ==
  LET m == toServer[i]
  IN  m.method = "call" /\ call[m.id].phase = "sent" => call[m.id].target = m.guid

WholeInv ==
  /\ Rooted(up)
  /\ link # "closed" => up[Root] # {}
  /\ \A o \in gone : Below[o] \subseteq gone
  /\ \A i \in DOMAIN toServer : AskIsKept(i)
  /\ \A c \in Call : CallKept(c)
  /\ link = "open" => Leads(mirror, toClient, up)

LEMMA WholeInit == Init => WholeInv
<1> SUFFICES ASSUME Init PROVE WholeInv
  OBVIOUS
<1>1. /\ Root \in Object /\ up[Root] = {Root} /\ \A o \in Object \ {Root} : up[o] = {}
      /\ up \in Tree /\ mirror = up /\ toClient = <<>> /\ toServer = <<>> /\ gone = {}
  BY RootAssumption DEF Init, Tree
<1>2. Rooted(up)
  BY <1>1 DEF Rooted
<1>3. Leads(mirror, toClient, up)
  BY <1>1, LeadsNowhere
<1>4. \A c \in Call : call[c].phase = "new"
  BY DEF Init, NewCall
<1> QED
  BY <1>1, <1>2, <1>3, <1>4 DEF WholeInv, CallKept

LEMMA StaleKnows ==
  ASSUME NEW s, NEW calls \in [Call -> CallState], NEW c \in Call, ~Stale(s, calls)[c].stale,
         calls[c].phase \in {"before", "running"}
  PROVE  s.up[calls[c].target] # {}
<1> DEFINE b == calls[c].stale \/ (calls[c].phase \in {"before", "running"} /\ s.up[calls[c].target] = {})
<1>1. Stale(s, calls)[c] = [calls[c] EXCEPT !.stale = b]
  BY DEF Stale
<1>2. \A x : [calls[c] EXCEPT !.stale = x].stale = x
  BY DEF CallState
<1>3. Stale(s, calls)[c].stale = b
  BY <1>1, <1>2
<1> QED
  BY <1>3

(* A turn that keeps the scopes of what exists, and the root.                *)
LEMMA TurnKeepsWhole ==
  ASSUME TypeInv, WholeInv, NEW s, NEW calls, TurnTo(s, calls), link' = link,
         Rooted(s.up), Tracks(Server, s), link # "closed" => s.up[Root] # {},
         gone \subseteq gone', \A o \in gone' : Below[o] \subseteq gone',
         \A g \in Object : Scoping(g) /\ up[g] # {} /\ g \notin gone' => s.up[g] # {},
         \A c \in Call : calls[c] = call[c] \/ calls[c].phase = "after"
  PROVE  WholeInv'
<1>1. /\ up' = s.up /\ call' = Stale(s, calls) /\ calls \in [Call -> CallState]
      /\ toServer' = toServer /\ mirror' = mirror
      /\ link = "open" => toClient' = s.out
  BY DEF TurnTo, Turn, Sent, client_vars
<1>2. \A c \in Call : /\ call'[c].phase = calls[c].phase /\ call'[c].target = calls[c].target
                      /\ call'[c].aborted = calls[c].aborted
  BY <1>1, StaleTypes
<1>3. ASSUME NEW c \in Call PROVE CallKept(c)'
  <2> SUFFICES ASSUME call'[c].phase \in {"before", "running"}
               PROVE  /\ ~call'[c].stale => up'[call'[c].target] # {}
                      /\ call'[c].target \notin gone' /\ Scoping(call'[c].target) =>
                           link' # "closed" /\ up'[call'[c].target] # {} /\ (link' = "closing" => call'[c].aborted)
    BY DEF CallKept
  <2>1. calls[c] = call[c] /\ CallKept(c) /\ call[c].phase \in {"before", "running"} /\ call[c].target \in Object
    BY <1>1, <1>2 DEF WholeInv, CallState
  <2>2. ~call'[c].stale => s.up[calls[c].target] # {}
    BY <1>1, <1>2, StaleKnows
  <2> QED
    BY <1>1, <1>2, <2>1, <2>2 DEF CallKept
<1>4. ASSUME NEW i \in DOMAIN toServer PROVE AskIsKept(i)'
  <2>1. AskIsKept(i) /\ toServer \in Seq(ServerMessage) /\ toServer[i] \in ServerMessage
    BY DEF WholeInv, TypeInv
  <2>2. toServer[i].method = "call" => toServer[i].id \in Call
    BY <2>1 DEF ServerMessage
  <2> QED
    BY <1>1, <1>2, <2>1, <2>2 DEF AskIsKept
<1>5. ASSUME link = "open" PROVE Leads(mirror, s.out, s.up)
  <2>1. mirror \in Tree /\ Leads(mirror, toClient, up)
    BY <1>5 DEF TypeInv, TypeOK, Tree, WholeInv
  <2> QED
    BY <2>1 DEF Tracks, Server
<1> QED
  BY <1>1, <1>3, <1>4, <1>5 DEF WholeInv

(* A step that leaves the tree alone.                                        *)
LEMMA CallsKeepWhole ==
  ASSUME TypeInv, WholeInv, UNCHANGED <<up, gone, mirror, toClient, link>>,
         \A i \in DOMAIN toServer' : AskIsKept(i)', \A c \in Call : CallKept(c)'
  PROVE  WholeInv'
BY DEF WholeInv

LEMMA EndedKept ==
  ASSUME TypeInv, WholeInv, UNCHANGED <<up, gone, link, toServer>>, call' \in [Call -> CallState],
         \A c \in Call : \/ call'[c] = call[c]
                         \/ call'[c].phase = "after"
                         \/ call'[c].phase = "running" /\ call[c].phase = "before" /\ call'[c].target = call[c].target
                            /\ call'[c].stale = call[c].stale /\ call'[c].aborted = call[c].aborted
  PROVE  (\A i \in DOMAIN toServer' : AskIsKept(i)') /\ \A c \in Call : CallKept(c)'
<1>1. ASSUME NEW c \in Call PROVE CallKept(c)'
  <2>1. CallKept(c)
    BY DEF WholeInv
  <2>2. CASE call'[c] = call[c]
    BY <2>1, <2>2 DEF CallKept
  <2>3. CASE call'[c].phase = "after"
    BY <2>3 DEF CallKept
  <2>4. CASE call'[c].phase = "running" /\ call[c].phase = "before" /\ call'[c].target = call[c].target
             /\ call'[c].stale = call[c].stale /\ call'[c].aborted = call[c].aborted
    BY <2>1, <2>4 DEF CallKept
  <2> QED
    BY <2>2, <2>3, <2>4
<1>2. ASSUME NEW i \in DOMAIN toServer PROVE AskIsKept(i)'
  <2>1. AskIsKept(i) /\ toServer \in Seq(ServerMessage) /\ toServer[i] \in ServerMessage
    BY DEF WholeInv, TypeInv
  <2>2. toServer[i].method = "call" => toServer[i].id \in Call
    BY <2>1 DEF ServerMessage
  <2> QED
    BY <2>1, <2>2 DEF AskIsKept
<1> QED
  BY <1>1, <1>2

(* The turns of the server.                                                  *)
LEMMA TurnsKeepWhole ==
  ASSUME ScopesAreKept, TypeInv, WholeInv
  PROVE  /\ \A c \in Call, o \in Object : HandlerReturns(c, o) => WholeInv'
         /\ \A c \in Call : HandlerDisposes(c) => WholeInv'
         /\ \A o \in Published : Publish(o) => WholeInv'
         /\ \A o \in Closable : CloseObject(o) => WholeInv'
         /\ \A o \in Closable : ReportClosed(o) => WholeInv'
<1>0. /\ Sound(Server) /\ Server.up = up /\ Rooted(up) /\ TypeOK
      /\ \A o \in gone : Below[o] \subseteq gone
      /\ gone \subseteq Object /\ call \in [Call -> CallState] /\ \A c \in Call : call[c].target \in Object
  BY DEF TypeInv, WholeInv, Server, TypeOK, CallState
<1>1. /\ Root \in Object /\ Scoping(Root)
      /\ Published \cup Closable \cup Disposable \subseteq Object \ {Root}
      /\ \A t \in Object : Returned[t] \subseteq Object \ {Root}
  BY RootAssumption DEF Scoping
<1>2. \A o \in Object \ {Root} : Root \notin Below[o]
  BY BelowAssumption
<1>3. \A o \in Object : gone \subseteq gone \cup Below[o] /\ \A p \in gone \cup Below[o] : Below[p] \subseteq gone \cup Below[o]
  BY <1>0, BelowAssumption
<1>4. Tracks(Server, Server)
  BY DEF Tracks
<1>5. ASSUME NEW c \in Call, NEW o \in Object, HandlerReturns(c, o) PROVE WholeInv'
  <2> DEFINE s == From(Server, o)
             t == call[c].target
  <2>1. /\ TurnTo(s, Ended(c, {o})) /\ link' = link /\ gone' = gone
    BY <1>5, TurnsAreTurns DEF HandlerReturns
  <2>2. call[c].phase = "running" /\ t \notin gone /\ o \in Returned[t] /\ t \in Object
    BY <1>0, <1>5 DEF HandlerReturns
  <2>3. Scoping(t) /\ o \in Object \ {Root}
    BY <1>1, <2>2 DEF Scoping
  <2>4. link # "closed" /\ up[t] # {} /\ up[Root] # {}
    BY <2>2, <2>3 DEF WholeInv, CallKept
  <2>5. \E p \in ToSet(Scopes[o]) : up[p] # {}
    <3>1. ToSet(Scopes[o]) \cap {Root, t} # {}
      BY <2>2, ScopeAssumption
    <3> QED
      BY <2>4, <3>1
  <2> HIDE DEF s
  <2>6. Rooted(s.up) /\ Keeps(Server, s) /\ Tracks(Server, s)
    BY <1>0, <2>3, <2>5, FromKeeps DEF s
  <2>7. s.up[Root] # {} /\ \A g \in Object : Scoping(g) /\ up[g] # {} => s.up[g] # {}
    BY <1>0, <1>1, <2>4, <2>6 DEF Keeps
  <2>8. \A d \in Call : Ended(c, {o})[d] = call[d] \/ Ended(c, {o})[d].phase = "after"
    BY <1>0, EndedTypes
  <2> QED
    BY <1>0, <2>1, <2>6, <2>7, <2>8, TurnKeepsWhole
<1>6. ASSUME NEW c \in Call, HandlerDisposes(c) PROVE WholeInv'
  <2> DEFINE o == call[c].target
             s == Disposed(Server, o, "none")
  <2>1. /\ TurnTo(s, Ended(c, {})) /\ link' = link /\ gone' = gone \cup Below[o]
    BY <1>6, TurnsAreTurns DEF HandlerDisposes
  <2>2. call[c].phase = "running" /\ ~call[c].stale /\ o \in Object \ {Root}
    BY <1>1, <1>6 DEF HandlerDisposes
  <2>3. up[o] # {}
    BY <2>2 DEF WholeInv, CallKept
  <2> HIDE DEF s, o
  <2>4. Rooted(s.up) /\ Tracks(Server, s) /\ \A g \in Object \ Below[o] : s.up[g] = up[g]
    BY <1>0, <2>2, <2>3, DisposedKeeps DEF s
  <2>5. link # "closed" => s.up[Root] # {}
    BY <1>1, <1>2, <2>2, <2>4 DEF WholeInv
  <2>6. \A d \in Call : Ended(c, {})[d] = call[d] \/ Ended(c, {})[d].phase = "after"
    BY <1>0, EndedTypes
  <2> QED
    BY <1>0, <1>3, <2>1, <2>2, <2>4, <2>5, <2>6, TurnKeepsWhole
<1>7. ASSUME NEW o \in Published, link # "closed"
      PROVE  LET s == From(Server, o)
                 t == Emitted(s, Root, {o})
             IN  /\ Sound(t) /\ Rooted(t.up) /\ Tracks(Server, t) /\ t.up[Root] # {} /\ t.up[o] # {}
                 /\ \A g \in Object : Scoping(g) /\ up[g] # {} => t.up[g] # {}
  <2> DEFINE s == From(Server, o)
             t == Emitted(s, Root, {o})
  <2>1. o \in Object \ {Root} /\ up[Root] # {} /\ Root \in ToSet(Scopes[o])
    BY <1>1, <1>7, ScopeAssumption DEF WholeInv
  <2>2. Sound(s) /\ Rooted(s.up) /\ Keeps(Server, s) /\ Tracks(Server, s) /\ s.up[o] # {}
    BY <1>0, <2>1, FromFacts, FromKeeps
  <2> HIDE DEF s
  <2>3. s.up[Root] # {} /\ \A g \in Object : Scoping(g) /\ up[g] # {} => s.up[g] # {}
    BY <1>0, <1>1, <2>1, <2>2 DEF Keeps
  <2>4. Sound(t) /\ t.up = s.up /\ Tracks(s, t)
    BY <1>1, <2>1, <2>2, <2>3, EmittedFacts, EmittedKeeps
  <2> HIDE DEF t
  <2>5. Tracks(Server, t)
    BY <2>2, <2>4 DEF Tracks
  <2> QED
    BY <2>2, <2>3, <2>4, <2>5 DEF t, s
<1>8. ASSUME NEW o \in Published, Publish(o) PROVE WholeInv'
  <2> DEFINE s == Emitted(From(Server, o), Root, {o})
  <2>1. TurnTo(s, call) /\ link' = link /\ gone' = gone /\ link # "closed"
    BY <1>8, TurnsAreTurns DEF Publish
  <2>2. /\ Rooted(s.up) /\ Tracks(Server, s) /\ s.up[Root] # {}
        /\ \A g \in Object : Scoping(g) /\ up[g] # {} => s.up[g] # {}
    BY <1>7, <2>1
  <2> HIDE DEF s
  <2> QED
    BY <1>0, <2>1, <2>2, TurnKeepsWhole
<1>9. ASSUME NEW o \in Closable, CloseObject(o) PROVE WholeInv'
  <2> DEFINE s == IF up[o] = {} THEN Server ELSE Closed(Server, o)
  <2>1. TurnTo(s, call) /\ link' = link /\ gone' = gone \cup Below[o]
    BY <1>9, TurnsAreTurns DEF CloseObject
  <2>2. o \in Object \ {Root}
    BY <1>1
  <2>3. Rooted(s.up) /\ Tracks(Server, s) /\ \A g \in Object \ Below[o] : s.up[g] = up[g]
    <3>1. CASE up[o] = {}
      BY <1>0, <1>4, <3>1
    <3>2. CASE up[o] # {}
      BY <1>0, <2>2, <3>2, ClosedKeeps
    <3> QED
      BY <3>1, <3>2
  <2> HIDE DEF s
  <2>4. link # "closed" => s.up[Root] # {}
    BY <1>1, <1>2, <2>2, <2>3 DEF WholeInv
  <2> QED
    BY <1>0, <1>3, <2>1, <2>2, <2>3, <2>4, TurnKeepsWhole
<1>10. ASSUME NEW o \in Closable, ReportClosed(o) PROVE WholeInv'
  <2> DEFINE t == Emitted(From(Server, o), Root, {o})
             s == Closed(t, o)
  <2>1. TurnTo(s, call) /\ link' = link /\ gone' = gone /\ link # "closed" /\ o \in Published /\ o \in gone
    BY <1>10, TurnsAreTurns DEF ReportClosed
  <2>2. o \in Object \ {Root} /\ Below[o] \subseteq gone
    BY <1>0, <1>1, <2>1
  <2>3. /\ Sound(t) /\ Rooted(t.up) /\ Tracks(Server, t) /\ t.up[Root] # {} /\ t.up[o] # {}
        /\ \A g \in Object : Scoping(g) /\ up[g] # {} => t.up[g] # {}
    BY <1>7, <2>1
  <2> HIDE DEF t
  <2>4. Rooted(s.up) /\ Tracks(t, s) /\ \A g \in Object \ Below[o] : s.up[g] = t.up[g]
    BY <2>2, <2>3, ClosedKeeps
  <2> HIDE DEF s
  <2>5. Tracks(Server, s) /\ s.up[Root] # {}
    BY <1>1, <1>2, <2>2, <2>3, <2>4 DEF Tracks
  <2>6. \A g \in Object : Scoping(g) /\ up[g] # {} /\ g \notin gone => s.up[g] # {}
    BY <2>2, <2>3, <2>4
  <2> QED
    BY <1>0, <2>1, <2>4, <2>5, <2>6, TurnKeepsWhole
<1> QED
  BY <1>5, <1>6, <1>8, <1>9, <1>10

(* The client and the messages between.                                      *)
LEMMA WiresKeepWhole ==
  ASSUME TypeInv, WholeInv
  PROVE  /\ Receive => WholeInv'
         /\ \A c \in Call, refs \in SUBSET Object :
              Answered(c, refs) /\ UNCHANGED <<gone, mirror, link>> /\ (toServer' = toServer \/ toServer' = Tail(toServer))
              /\ (toServer' # toServer => toServer # <<>>)
              => WholeInv'
<1>0. /\ toClient \in Seq(Message) /\ toServer \in Seq(ServerMessage) /\ mirror \in Tree /\ up \in Tree
      /\ call \in [Call -> CallState]
      /\ \A i \in DOMAIN toServer : toServer[i] \in ServerMessage
  BY DEF TypeInv, TypeOK, Sound, Server, Tree
<1>1. \A m \in ServerMessage : m.method = "call" => m.id \in Call
  BY DEF ServerMessage
<1>2. ASSUME Receive PROVE WholeInv'
  <2>1. /\ toClient # <<>> /\ toClient' = Tail(toClient) /\ mirror' = Applied(mirror, Head(toClient))
        /\ UNCHANGED <<up, gone, call, toServer, link>>
    BY <1>2 DEF Receive, tree_vars
  <2>2. (link = "open" => Leads(mirror', toClient', up))
    BY <1>0, <2>1, LeadsFromHead DEF WholeInv
  <2> QED
    BY <2>1, <2>2 DEF WholeInv, AskIsKept, CallKept
<1>3. ASSUME NEW d \in Call, NEW refs \in SUBSET Object, Answered(d, refs), UNCHANGED <<gone, mirror, link>>,
             toServer' = toServer \/ toServer' = Tail(toServer), toServer' # toServer => toServer # <<>>
      PROVE  WholeInv'
  <2>1. /\ up' = up /\ call'[d].phase = "over" /\ \A c \in Call \ {d} : call'[c] = call[c]
        /\ link = "open" => toClient' = Append(toClient, ResponseMessage(d, refs))
    BY <1>3, AnsweredTypes DEF Answered, tree_vars, Sent
  <2>2. /\ ResponseMessage(d, refs) \in Message /\ ResponseMessage(d, refs).method = "response"
        /\ Applied(up, ResponseMessage(d, refs)) = up
    BY MessageFacts, RootAssumption DEF ResponseMessage, Applied
  <2>3. link = "open" => Leads(mirror, toClient', up)
    BY <1>0, <2>1, <2>2, LeadsOneMore DEF WholeInv
  <2>4. ASSUME NEW c \in Call PROVE CallKept(c)'
    BY <1>3, <2>1 DEF CallKept, WholeInv
  <2>5. ASSUME NEW i \in DOMAIN toServer' PROVE AskIsKept(i)'
    <3>1. \E j \in DOMAIN toServer : toServer'[i] = toServer[j]
      <4>1. CASE toServer' = toServer
        BY <4>1
      <4>2. CASE toServer' # toServer
        <5>1. toServer' = Tail(toServer) /\ toServer # <<>>
          BY <1>3, <4>2
        <5>2. /\ Len(toServer) \in Nat /\ DOMAIN toServer = 1..Len(toServer)
              /\ i \in 1..(Len(toServer) - 1) /\ toServer'[i] = toServer[i + 1]
          BY <1>0, <5>1, HeadTailProperties, LenProperties
        <5>3. i + 1 \in DOMAIN toServer
          BY <5>2
        <5> QED
          BY <5>2, <5>3
      <4> QED
        BY <4>1, <4>2
    <3>2. PICK j \in DOMAIN toServer : toServer'[i] = toServer[j]
      BY <3>1
    <3>3. AskIsKept(j) /\ toServer[j] \in ServerMessage
      BY <1>0 DEF WholeInv
    <3> QED
      BY <1>1, <2>1, <3>2, <3>3 DEF AskIsKept
  <2> QED
    BY <1>3, <2>1, <2>3, <2>4, <2>5 DEF WholeInv
<1> QED
  BY <1>2, <1>3

LEMMA WholeStep == ScopesAreKept /\ TypeInv /\ AnswersOK /\ WholeInv /\ [Next]_vars => WholeInv'
<1> SUFFICES ASSUME ScopesAreKept, TypeInv, AnswersOK, WholeInv, [Next]_vars PROVE WholeInv'
  OBVIOUS
<1>0. /\ call \in [Call -> CallState] /\ toServer \in Seq(ServerMessage)
      /\ \A c \in Call : call[c] \in CallState
      /\ link # "open" => toServer = <<>> /\ callbacks = {}
      /\ \A i \in DOMAIN toServer : AskIsKept(i) /\ toServer[i] \in ServerMessage
      /\ \A c \in Call : CallKept(c)
      /\ \A m \in ServerMessage : m.id \in Call
  BY DEF TypeInv, TypeOK, WholeInv, ServerMessage
<1>a. ASSUME NEW m \in ServerMessage, toServer' = Append(toServer, m), NEW i \in DOMAIN toServer'
      PROVE  (i \in DOMAIN toServer /\ toServer'[i] = toServer[i]) \/ toServer'[i] = m
  <2>1. /\ Len(toServer) \in Nat /\ DOMAIN toServer = 1..Len(toServer) /\ DOMAIN toServer' = 1..(Len(toServer) + 1)
        /\ \A j \in 1..Len(toServer) : toServer'[j] = toServer[j]
        /\ toServer'[Len(toServer) + 1] = m
    BY <1>0, <1>a, AppendProperties, LenProperties
  <2>2. i \in 1..Len(toServer) \/ i = Len(toServer) + 1
    BY <2>1
  <2> QED
    BY <2>1, <2>2
<1>1. ASSUME NEW d \in Call, NEW o \in Object, SendCall(d, o) PROVE WholeInv'
  <2>1. /\ call'[d].phase = "sent" /\ call'[d].target = o /\ \A c \in Call \ {d} : call'[c] = call[c]
        /\ UNCHANGED <<up, gone, mirror, toClient, link>> /\ link = "open" /\ call[d].phase = "new"
    BY <1>0, <1>1 DEF SendCall, CallState, tree_vars
  <2>2. /\ CallMessage(d, o) \in ServerMessage /\ CallMessage(d, o).id = d /\ CallMessage(d, o).guid = o
        /\ toServer' = Append(toServer, CallMessage(d, o))
    BY <1>1 DEF CallMessage, ServerMessage, SendCall
  <2>3. At(toServer, "call", d) = {}
    BY <2>1 DEF AnswersOK, AnswerOK
  <2>4. ASSUME NEW i \in DOMAIN toServer' PROVE AskIsKept(i)'
    <3>1. CASE i \in DOMAIN toServer /\ toServer'[i] = toServer[i]
      <4>1. toServer[i].method = "call" => toServer[i].id \in Call \ {d}
        BY <1>0, <2>3, <3>1 DEF At
      <4> QED
        BY <1>0, <2>1, <3>1, <4>1 DEF AskIsKept
    <3>2. CASE toServer'[i] = CallMessage(d, o)
      BY <2>1, <2>2, <3>2 DEF AskIsKept
    <3> QED
      BY <1>a, <2>2, <3>1, <3>2
  <2>5. ASSUME NEW c \in Call PROVE CallKept(c)'
    BY <1>0, <2>1 DEF CallKept
  <2> QED
    BY <2>1, <2>4, <2>5, CallsKeepWhole
<1>2. ASSUME NEW d \in Call, AbortCall(d) PROVE WholeInv'
  <2>1. /\ AbortMessage(d) \in ServerMessage /\ AbortMessage(d).method # "call"
        /\ toServer' = Append(toServer, AbortMessage(d))
        /\ UNCHANGED <<up, gone, call, mirror, toClient, link>>
    BY <1>2 DEF AbortMessage, ServerMessage, AbortCall, tree_vars
  <2>2. ASSUME NEW i \in DOMAIN toServer' PROVE AskIsKept(i)'
    <3>1. CASE i \in DOMAIN toServer /\ toServer'[i] = toServer[i]
      BY <1>0, <2>1, <3>1 DEF AskIsKept
    <3>2. CASE toServer'[i] = AbortMessage(d)
      BY <2>1, <3>2 DEF AskIsKept
    <3> QED
      BY <1>a, <2>1, <3>1, <3>2
  <2> QED
    BY <1>0, <2>1, <2>2, CallsKeepWhole DEF CallKept
<1>3. CASE Receive
  BY <1>3, WiresKeepWhole
<1>4. CASE Dispatch
  <2> DEFINE m == Head(toServer)
  <2>1. /\ m \in ServerMessage /\ toServer # <<>> /\ toServer' = Tail(toServer) /\ link = "open"
        /\ UNCHANGED <<gone, mirror, link>>
    BY <1>0, <1>4, HeadTailProperties DEF Dispatch, client_vars
  <2>2. ReceiveCall(m) \/ ReceiveAbort(m)
    BY <1>4 DEF Dispatch
  <2>3. 1 \in DOMAIN toServer /\ m = toServer[1]
    BY <1>0, <2>1
  <2>4. ASSUME NEW i \in DOMAIN toServer' PROVE \E j \in DOMAIN toServer : toServer'[i] = toServer[j]
    <3>1. /\ Len(toServer) \in Nat /\ DOMAIN toServer = 1..Len(toServer)
          /\ i \in 1..(Len(toServer) - 1) /\ toServer'[i] = toServer[i + 1]
      BY <1>0, <2>1, HeadTailProperties, LenProperties
    <3>2. i + 1 \in DOMAIN toServer
      BY <3>1
    <3> QED
      BY <3>1, <3>2
  <2> HIDE DEF m
  <2>5. m.id \in Call /\ AskIsKept(1)
    BY <1>0, <2>1, <2>3
  <2>6. CASE ReceiveCall(m) /\ up[m.guid] = {}
    <3>1. Answered(m.id, {})
      BY <2>6 DEF ReceiveCall
    <3> QED
      BY <2>1, <2>5, <3>1, WiresKeepWhole
  <2>7. CASE ReceiveCall(m) /\ up[m.guid] # {}
    <3>1. /\ m.method = "call" /\ UNCHANGED <<up, toClient>> /\ call' = [call EXCEPT ![m.id].phase = "before"]
      BY <2>7 DEF ReceiveCall, tree_vars
    <3>2. /\ call'[m.id].phase = "before" /\ call'[m.id].target = call[m.id].target
          /\ \A c \in Call \ {m.id} : call'[c] = call[c]
      BY <1>0, <2>5, <3>1 DEF CallState
    <3>3. call[m.id].phase = "sent"
      <4>1. 1 \in At(toServer, "call", m.id)
        BY <2>3, <3>1 DEF At
      <4> QED
        BY <2>1, <2>5, <4>1 DEF AnswersOK, AnswerOK
    <3>4. call[m.id].target = m.guid
      BY <2>3, <2>5, <3>1, <3>3 DEF AskIsKept
    <3>5. ASSUME NEW c \in Call PROVE CallKept(c)'
      <4>1. CASE c = m.id
        BY <2>1, <2>7, <3>1, <3>2, <3>4, <4>1 DEF CallKept
      <4>2. CASE c # m.id
        BY <1>0, <2>1, <3>1, <3>2, <4>2 DEF CallKept
      <4> QED
        BY <4>1, <4>2
    <3>6. ASSUME NEW i \in DOMAIN toServer' PROVE AskIsKept(i)'
      <4>1. PICK j \in DOMAIN toServer : toServer'[i] = toServer[j]
        BY <2>4
      <4> QED
        BY <1>0, <2>5, <3>2, <4>1 DEF AskIsKept
    <3> QED
      BY <2>1, <3>1, <3>5, <3>6, CallsKeepWhole
  <2>8. CASE ReceiveAbort(m)
    <3>1. UNCHANGED <<up, toClient>>
      BY <2>8 DEF ReceiveAbort, tree_vars
    <3> DEFINE b == call[m.id].phase \in {"before", "running", "after"}
    <3>2. call' = [call EXCEPT ![m.id].aborted = b]
      BY <2>8 DEF ReceiveAbort
    <3> HIDE DEF b
    <3>3. \A c \in Call : call'[c].phase = call[c].phase /\ call'[c].target = call[c].target /\ call'[c].stale = call[c].stale
      BY <1>0, <2>5, <3>2 DEF CallState
    <3>5. ASSUME NEW c \in Call PROVE CallKept(c)'
      BY <1>0, <2>1, <3>1, <3>3 DEF CallKept
    <3>6. ASSUME NEW i \in DOMAIN toServer' PROVE AskIsKept(i)'
      <4>1. PICK j \in DOMAIN toServer : toServer'[i] = toServer[j]
        BY <2>4
      <4> QED
        BY <1>0, <3>3, <4>1 DEF AskIsKept
    <3> QED
      BY <2>1, <3>1, <3>5, <3>6, CallsKeepWhole
  <2> QED
    BY <2>2, <2>6, <2>7, <2>8
<1>5. ASSUME NEW d \in Call, EndBefore(d) PROVE WholeInv'
  <2>1. UNCHANGED <<up, gone, toClient, toServer, mirror, link>> /\ call[d].phase = "before"
    BY <1>5 DEF EndBefore, tree_vars, client_vars
  <2>2. CASE call' = Ended(d, {})
    <3>1. call' \in [Call -> CallState] /\ \A c \in Call : call'[c] = call[c] \/ call'[c].phase = "after"
      BY <2>2, EndedTypes DEF TypeInv
    <3> QED
      BY <2>1, <3>1, EndedKept, CallsKeepWhole
  <2>3. CASE call' = [call EXCEPT ![d].phase = "running"]
    <3>1. /\ call'[d].phase = "running" /\ call'[d].target = call[d].target
          /\ call'[d].stale = call[d].stale /\ call'[d].aborted = call[d].aborted
          /\ \A c \in Call \ {d} : call'[c] = call[c]
      BY <1>0, <2>3 DEF CallState
    <3>2. call' \in [Call -> CallState]
      BY <1>5, StepKeepsTypes DEF TypeInv, TypeOK
    <3> QED
      BY <2>1, <3>1, <3>2, EndedKept, CallsKeepWhole
  <2> QED
    BY <1>5, <2>2, <2>3 DEF EndBefore
<1>6. ASSUME NEW d \in Call, HandlerEnds(d) PROVE WholeInv'
  <2>1. UNCHANGED <<up, gone, toClient, toServer, mirror, link>> /\ call' = Ended(d, {})
    BY <1>6 DEF HandlerEnds, tree_vars, client_vars
  <2>2. call' \in [Call -> CallState] /\ \A c \in Call : call'[c] = call[c] \/ call'[c].phase = "after"
    BY <2>1, EndedTypes DEF TypeInv
  <2> QED
    BY <2>1, <2>2, EndedKept, CallsKeepWhole
<1>7. ASSUME NEW d \in Call, EndAfter(d) PROVE WholeInv'
  <2>1. Answered(d, call[d].result) /\ UNCHANGED <<gone, toServer, mirror, link>>
    BY <1>7 DEF EndAfter, client_vars
  <2>2. call[d].result \in SUBSET Object
    BY <1>0 DEF CallState
  <2> QED
    BY <2>1, <2>2, WiresKeepWhole
<1>8. CASE Disconnect
  <2>1. /\ link' = "closing" /\ toServer' = <<>> /\ UNCHANGED <<up, gone>> /\ call' = Stopped
    BY <1>8 DEF Disconnect, tree_vars
  <2>2. ASSUME NEW c \in Call PROVE CallKept(c)'
    <3> DEFINE b == call[c].aborted \/ (call[c].phase \in {"before", "running", "after"} /\ up[call[c].target] # {})
    <3>1. call'[c] = [call[c] EXCEPT !.aborted = b]
      BY <2>1 DEF Stopped
    <3>2. /\ call'[c].phase = call[c].phase /\ call'[c].target = call[c].target /\ call'[c].stale = call[c].stale
          /\ call'[c].aborted = b
      <4> HIDE DEF b
      <4> QED
        BY <1>0, <3>1 DEF CallState
    <3> QED
      BY <1>0, <2>1, <3>2 DEF CallKept
  <2> QED
    BY <1>8, <2>1, <2>2 DEF WholeInv, Disconnect
<1>9. CASE DisposeRoot
  <2> DEFINE s == Disposed(Server, Root, "none")
  <2>1. /\ TurnTo(s, call) /\ link = "closing" /\ link' = "closed" /\ gone' = gone
        /\ \A c \in Call : call[c].aborted => call[c].phase \notin {"before", "running"}
    BY <1>9, TurnsAreTurns DEF DisposeRoot
  <2>2. s.up = Pruned(up, Root)
    BY RootAssumption, DisposedFacts DEF TypeInv, Server
  <2>3. \A g \in Object : s.up[g] = {}
    BY <2>2 DEF Pruned, WholeInv, Rooted, TypeInv, TypeOK
  <2> HIDE DEF s
  <2>4. up' = s.up /\ call' = Stale(s, call) /\ toServer' = toServer
    BY <2>1 DEF TurnTo, Turn
  <2>5. \A c \in Call : call'[c].phase = call[c].phase /\ call'[c].target = call[c].target
    BY <1>0, <2>4, StaleTypes
  <2>6. ASSUME NEW c \in Call PROVE CallKept(c)'
    <3>1. ~call'[c].stale /\ call'[c].phase \in {"before", "running"} => up'[call'[c].target] # {}
      BY <1>0, <2>4, <2>5, StaleKnows
    <3> QED
      BY <1>0, <2>1, <2>5, <3>1 DEF CallKept
  <2>7. Rooted(up')
    BY <2>3, <2>4 DEF Rooted
  <2>8. toServer = <<>>
    BY <1>0, <2>1
  <2> QED
    BY <2>1, <2>4, <2>6, <2>7, <2>8 DEF WholeInv
<1>10. CASE UNCHANGED vars
  BY <1>10 DEF vars, tree_vars, client_vars, WholeInv, AskIsKept, CallKept
<1> QED
  BY <1>1, <1>2, <1>3, <1>4, <1>5, <1>6, <1>7, <1>8, <1>9, <1>10, TurnsKeepWhole DEF Next

LEMMA WholeHolds ==
  ASSUME ScopesAreKept
  PROVE  Spec => [](TypeInv /\ WholeInv)
<1>1. Init => TypeInv /\ AnswersOK /\ WholeInv
  BY InitTypes, AnswersInit, WholeInit
<1>2. (TypeInv /\ AnswersOK /\ WholeInv) /\ [Next]_vars => (TypeInv /\ AnswersOK /\ WholeInv)'
  BY ScopesAreKept, StepKeepsTypes, AnswersStep, WholeStep
<1> QED
  BY <1>1, <1>2, PTL DEF Spec

(* As long as no bucket of scopes overflows, the dispatchers are one tree    *)
(* under the root, whose parts are disposed with it, and the buckets list    *)
(* exactly that tree (Dispatcher constructor, adopt, _disposeRecursively,    *)
(* stopPendingOperations).                                                   *)
THEOREM TreeStaysWhole ==
  ASSUME ScopesAreKept
  PROVE  Spec => []TreeIsWhole
<1>1. TypeInv /\ WholeInv => TreeIsWhole
  <2> SUFFICES ASSUME TypeInv, WholeInv PROVE TreeIsWhole
    OBVIOUS
  <2>1. BucketsMatchTree
    BY DEF TypeInv, Sound, Server, Listed, Short, OfKind, BucketsMatchTree
  <2>2. NoOrphans
    BY DEF TypeInv, Sound, Server, GoodTree, Complete, WholeInv, Rooted, NoOrphans
  <2> QED
    BY <2>1, <2>2 DEF TreeIsWhole
<1> QED
  BY <1>1, WholeHolds, PTL

(* Then the client can also follow: every message about the tree finds the   *)
(* objects it mentions, and what is on the wire leads to the server's tree   *)
(* (Connection.dispatch of connection.ts).                                   *)
THEOREM ClientFollows ==
  ASSUME ScopesAreKept
  PROVE  Spec => []ClientKeepsUp
<1>1. TypeInv /\ WholeInv => ClientKeepsUp
  <2> SUFFICES ASSUME TypeInv, WholeInv PROVE ClientKeepsUp
    OBVIOUS
  <2>1. /\ toClient \in Seq(Message) /\ mirror \in Tree /\ up \in Tree
        /\ link = "open" => Leads(mirror, toClient, up)
        /\ toClient # <<>> => link = "open"
    BY DEF TypeInv, TypeOK, Sound, Server, Tree, WholeInv
  <2>2. ClientFollowsServer
    BY <2>1, LeadsToWhatIsRead DEF ClientFollowsServer
  <2>3. MessagesAreBound
    BY <2>1, LeadsFromHead DEF MessagesAreBound
  <2> QED
    BY <2>2, <2>3 DEF ClientKeepsUp
<1> QED
  BY <1>1, WholeHolds, PTL

=============================================================================
