---------------------------- MODULE TestJobProofs ----------------------------
(***************************************************************************)
(* Proofs about TestJob, for any group of tests, suites, retries and faults: *)
(* what the runner writes down about the tests adds up, no test runs more   *)
(* often than it may, and a serial suite runs as one.                       *)
(***************************************************************************)
EXTENDS TestJob, SequenceTheorems, FunctionTheorems, FiniteSetTheorems,
        WellFoundedInduction, TLAPS

(***************************************************************************)
(* Numbers, recursion and order.                                           *)
(***************************************************************************)
(* A predicate, here the set of numbers it holds of, is true of all numbers  *)
(* up to a bound if it passes from each to the next.                         *)
LEMMA UpTo ==
  ASSUME NEW N \in Nat, NEW P, 0 \in P, \A k \in 0..N : k \in P /\ k < N => k + 1 \in P
  PROVE  \A k \in 0..N : k \in P
<1> DEFINE Bad == {k \in 0..N : k \notin P}
<1> SUFFICES ASSUME Bad # {} PROVE FALSE
  OBVIOUS
<1>1. Bad \subseteq Nat
  OBVIOUS
<1>2. PICK k \in Bad : \A m \in Bad : ~(<<m, k>> \in OpToRel(<, Nat))
  BY ONLY Bad # {}, <1>1, WFMin, NatLessThanWellFounded, Zenon
<1>3. \A m \in Bad : ~(m < k)
  BY <1>1, <1>2 DEF OpToRel
<1> HIDE DEF Bad
<1>4. k \in 0..N /\ k \notin P /\ k # 0
  BY DEF Bad
<1>5. k - 1 \in 0..N /\ k - 1 < N /\ k - 1 + 1 = k
  BY <1>4
<1>6. k - 1 \notin Bad
  BY <1>3, <1>5
<1>7. k - 1 \in P
  BY <1>5, <1>6 DEF Bad
<1> QED
  BY <1>4, <1>5, <1>7

RunsOf(S, base, step, k) ==
  {g \in [0..k -> S] : g[0] = base /\ \A n \in 1..k : g[n] = step[<<g[n-1], n>>]}

LEMMA Recursion ==
  ASSUME NEW S, NEW base \in S, NEW N \in Nat, NEW step \in [S \X (1..N) -> S]
  PROVE  RunsOf(S, base, step, N) # {}
<1> DEFINE Runs(k) == {g \in [0..k -> S] : g[0] = base /\ \A n \in 1..k : g[n] = step[<<g[n-1], n>>]}
           P == {k \in 0..N : Runs(k) # {}}
<1>1. 0 \in P
  <2> DEFINE g == [n \in 0..0 |-> base]
  <2>1. g \in [0..0 -> S] /\ g[0] = base /\ \A n \in 1..0 : FALSE
    OBVIOUS
  <2> HIDE DEF g
  <2>2. g \in Runs(0)
    BY <2>1
  <2> QED
    BY <2>2
<1>2. ASSUME NEW k \in 0..N, k \in P, k < N PROVE k + 1 \in P
  <2>1. PICK g : g \in Runs(k)
    BY <1>2
  <2> DEFINE h == [n \in 0..(k + 1) |-> IF n = k + 1 THEN step[<<g[k], k + 1>>] ELSE g[n]]
  <2>2. step[<<g[k], k + 1>>] \in S
    BY <1>2, <2>1
  <2>3. h \in [0..(k+1) -> S]
    BY <1>2, <2>1, <2>2
  <2>4. \A n \in 0..k : h[n] = g[n]
    BY <1>2
  <2>5. h[k + 1] = step[<<g[k], k + 1>>]
    BY <1>2
  <2> HIDE DEF h
  <2>6. h[0] = base
    BY <1>2, <2>1, <2>4
  <2>7. ASSUME NEW n \in 1..(k + 1) PROVE h[n] = step[<<h[n-1], n>>]
    <3>1. n - 1 \in 0..k /\ h[n - 1] = g[n - 1]
      BY <1>2, <2>4
    <3>2. CASE n = k + 1
      BY <1>2, <3>1, <3>2, <2>5
    <3>3. CASE n \in 1..k
      BY <2>1, <3>1, <3>3, <2>4
    <3> QED
      BY <1>2, <3>2, <3>3
  <2>8. h \in Runs(k + 1)
    BY <2>3, <2>6, <2>7
  <2> QED
    BY <1>2, <2>8
<1>3. N \in P
  <2> HIDE DEF P
  <2> QED
    BY <1>1, <1>2, UpTo
<1> QED
  BY <1>3 DEF RunsOf

(* The members of a finite set of numbers in their order are these members,  *)
(* once each.                                                                *)
Below(S, t) == {u \in S : u < t}

LEMMA AscendingFacts ==
  ASSUME NEW S \in SUBSET Nat, IsFiniteSet(S)
  PROVE  /\ Ascending(S) \in [1..Cardinality(S) -> S]
         /\ \A t \in S : \E n \in 1..Cardinality(S) : Ascending(S)[n] = t
         /\ \A n, m \in 1..Cardinality(S) : Ascending(S)[n] = Ascending(S)[m] => n = m
         /\ Cardinality(S) \in Nat
<1> DEFINE rank == [t \in S |-> Cardinality(Below(S, t))]
           c == Cardinality(S)
           Ranks == 0..(c - 1)
<1>0. \A u \in S : u \in Nat
  OBVIOUS
<1>1. c \in Nat
  BY FS_CardinalityType
<1>2. \A t \in S : /\ IsFiniteSet(Below(S, t)) /\ Cardinality(Below(S, t)) \in Nat
                   /\ Cardinality(Below(S, t)) < c
  <2> TAKE t \in S
  <2>1. Below(S, t) \subseteq S /\ t \notin Below(S, t)
    BY <1>0 DEF Below
  <2>2. IsFiniteSet(Below(S, t)) /\ Cardinality(Below(S, t)) <= c /\ (c = Cardinality(Below(S, t)) => S = Below(S, t))
    BY <2>1, FS_Subset
  <2>3. Cardinality(Below(S, t)) \in Nat
    BY <2>2, FS_CardinalityType
  <2> QED
    BY <1>1, <2>1, <2>2, <2>3
<1>3. \A s, t \in S : s < t => Cardinality(Below(S, s)) < Cardinality(Below(S, t))
  <2> SUFFICES ASSUME NEW s \in S, NEW t \in S, s < t
               PROVE  Cardinality(Below(S, s)) < Cardinality(Below(S, t))
    OBVIOUS
  <2>a. s \in Int /\ t \in Int /\ \A u \in S : u \in Int
    BY <1>0
  <2>b. \A u \in S : u < s => u < t
    BY <2>a
  <2>c. Below(S, s) \subseteq Below(S, t)
    BY <2>b DEF Below
  <2>d. s \in Below(S, t)
    BY DEF Below
  <2>e. s \notin Below(S, s)
    BY <2>a DEF Below
  <2>1. Below(S, s) \subseteq Below(S, t) /\ s \in Below(S, t) /\ s \notin Below(S, s)
    BY <2>c, <2>d, <2>e
  <2>2. Cardinality(Below(S, s)) <= Cardinality(Below(S, t)) /\ Cardinality(Below(S, s)) # Cardinality(Below(S, t))
    BY <1>2, <2>1, FS_Subset
  <2> QED
    BY <1>2, <2>2
<1>4. rank \in Injection(S, Ranks)
  <2>1. rank \in [S -> Ranks]
    BY <1>1, <1>2
  <2>2. \A s, t \in S : rank[s] = rank[t] => s = t
    <3> SUFFICES ASSUME NEW s \in S, NEW t \in S, s # t PROVE rank[s] # rank[t]
      OBVIOUS
    <3>1. s < t \/ t < s
      BY <1>0
    <3> QED
      BY <1>2, <1>3, <3>1
  <2> QED
    BY <2>1, <2>2, Fun_IsInj
<1>5. IsFiniteSet(Ranks) /\ Cardinality(Ranks) = c
  <2>1. 0 \in Int /\ c - 1 \in Int /\ (IF 0 > c - 1 THEN 0 ELSE c - 1 - 0 + 1) = c
    BY <1>1
  <2> HIDE DEF c
  <2> QED
    BY <2>1, FS_Interval
<1> HIDE DEF rank, Ranks
<1>6. rank \in Surjection(S, Ranks)
  <2> HIDE DEF c
  <2> QED
    BY <1>4, <1>5, FS_Injection DEF c
<1>7. \A r \in Ranks : \E t \in S : rank[t] = r
  BY <1>6 DEF Surjection
<1>8. /\ \A s, t \in S : rank[s] = rank[t] => s = t
      /\ rank \in [S -> Ranks]
  BY <1>4, Fun_InjectionProperties
<1>14. \A t \in S : rank[t] = Cardinality(Below(S, t))
  BY DEF rank
<1>9. \A n \in 1..c : Ascending(S)[n] \in S /\ rank[Ascending(S)[n]] = n - 1
  <2> SUFFICES ASSUME NEW n \in 1..c
               PROVE  Ascending(S)[n] \in S /\ rank[Ascending(S)[n]] = n - 1
    OBVIOUS
  <2>1. n - 1 \in Ranks
    BY <1>1 DEF Ranks
  <2>2. \E t \in S : Cardinality(Below(S, t)) = n - 1
    BY <1>7, <1>14, <2>1
  <2>3. Ascending(S)[n] = CHOOSE t \in S : Cardinality(Below(S, t)) = n - 1
    BY DEF Ascending, Below
  <2> DEFINE Q(t) == Cardinality(Below(S, t)) = n - 1
  <2>5. \E t \in S : Q(t)
    BY <2>2
  <2>6. Ascending(S)[n] = CHOOSE t \in S : Q(t)
    BY <2>3
  <2> HIDE DEF Q
  <2>7. Ascending(S)[n] \in S /\ Q(Ascending(S)[n])
    BY ONLY <2>5, <2>6, Zenon
  <2>4. Ascending(S)[n] \in S /\ Cardinality(Below(S, Ascending(S)[n])) = n - 1
    BY <2>7 DEF Q
  <2> QED
    BY <1>14, <2>4
<1>10. DOMAIN Ascending(S) = 1..c /\ Ascending(S) = [n \in 1..c |-> Ascending(S)[n]]
  <2> DEFINE At(n) == CHOOSE t \in S : Cardinality({u \in S : u < t}) = n - 1
  <2>1. Ascending(S) = [n \in 1..c |-> At(n)]
    BY DEF Ascending
  <2> HIDE DEF At
  <2> QED
    BY ONLY <2>1
<1>11. Ascending(S) \in [1..c -> S]
  BY <1>9, <1>10
<1>12. ASSUME NEW t \in S PROVE \E n \in 1..c : Ascending(S)[n] = t
  <2>1. rank[t] \in Ranks
    BY <1>8
  <2>2. PICK n \in 1..c : n - 1 = rank[t]
    BY <1>1, <2>1 DEF Ranks
  <2>3. Ascending(S)[n] = t
    BY <1>8, <1>9, <2>2
  <2> QED
    BY <2>3
<1>13. ASSUME NEW n \in 1..c, NEW m \in 1..c, Ascending(S)[n] = Ascending(S)[m] PROVE n = m
  <2>1. n - 1 = m - 1
    BY <1>9, <1>13
  <2> QED
    BY <1>1, <2>1
<1> QED
  BY <1>1, <1>11, <1>12, <1>13

LEMMA MinFacts ==
  ASSUME NEW S \in SUBSET Nat, S # {}
  PROVE  Min(S) \in S /\ \A t \in S : Min(S) <= t
<1>1. PICK k \in S : \A m \in S : ~(<<m, k>> \in OpToRel(<, Nat))
  BY WFMin, NatLessThanWellFounded
<1>2. \A m \in S : ~(m < k)
  BY <1>1 DEF OpToRel
<1>3. \A m \in S : k <= m
  BY <1>2
<1> QED
  BY <1>3 DEF Min

(* What InJobOrder makes of a set are the tests of the job in that set.      *)
LEMMA JobOrderFacts ==
  ASSUME job \in Seq(Test), NEW S
  PROVE  /\ InJobOrder(S) \in Seq(Test)
         /\ ToSet(InJobOrder(S)) = ToSet(job) \cap S
         /\ IsInjective(job) => IsInjective(InJobOrder(S))
<1> DEFINE P == {i \in DOMAIN job : job[i] \in S}
           places == Ascending(P)
<1>1. P \in SUBSET Nat /\ IsFiniteSet(P) /\ P \subseteq 1..Len(job)
  <2>1. Len(job) \in Nat /\ P \subseteq 1..Len(job)
    OBVIOUS
  <2>2. IsFiniteSet(1..Len(job)) /\ 1..Len(job) \subseteq Nat
    BY <2>1, FS_Interval
  <2> HIDE DEF P
  <2> QED
    BY <2>1, <2>2, FS_Subset
<1>2. /\ places \in [1..Cardinality(P) -> P] /\ Cardinality(P) \in Nat
      /\ \A t \in P : \E n \in 1..Cardinality(P) : places[n] = t
      /\ \A n, m \in 1..Cardinality(P) : places[n] = places[m] => n = m
  <2> HIDE DEF P
  <2> QED
    BY <1>1, AscendingFacts
<1>3. InJobOrder(S) = [n \in DOMAIN places |-> job[places[n]]]
  BY DEF InJobOrder
<1> HIDE DEF places
<1>4. InJobOrder(S) \in [1..Cardinality(P) -> Test]
  BY <1>1, <1>2, <1>3
<1>5. InJobOrder(S) \in Seq(Test)
  <2> HIDE DEF P
  <2> QED
    BY <1>2, <1>4, SeqDef
<1>6. ToSet(InJobOrder(S)) = ToSet(job) \cap S
  <2>1. DOMAIN InJobOrder(S) = 1..Cardinality(P)
    BY <1>4
  <2>2. ASSUME NEW t \in ToSet(InJobOrder(S)) PROVE t \in ToSet(job) \cap S
    BY <1>2, <1>3, <1>4 DEF ToSet
  <2>3. ASSUME NEW t \in ToSet(job) \cap S PROVE t \in ToSet(InJobOrder(S))
    <3>1. PICK i \in DOMAIN job : job[i] = t
      BY DEF ToSet
    <3>2. i \in P
      BY <3>1
    <3>3. PICK n \in 1..Cardinality(P) : places[n] = i
      BY <1>2, <3>2
    <3>4. InJobOrder(S)[n] = t
      BY <1>2, <1>3, <3>1, <3>3
    <3> QED
      BY <2>1, <3>4 DEF ToSet
  <2> QED
    BY <2>2, <2>3
<1>7. IsInjective(job) => IsInjective(InJobOrder(S))
  <2> SUFFICES ASSUME IsInjective(job), NEW n \in DOMAIN InJobOrder(S), NEW m \in DOMAIN InJobOrder(S),
                      InJobOrder(S)[n] = InJobOrder(S)[m]
               PROVE  n = m
    BY DEF IsInjective
  <2>1. n \in 1..Cardinality(P) /\ m \in 1..Cardinality(P)
    BY <1>4
  <2>2. places[n] \in DOMAIN job /\ places[m] \in DOMAIN job /\ job[places[n]] = job[places[m]]
    BY <1>2, <1>3, <2>1
  <2>3. places[n] = places[m]
    BY <2>2 DEF IsInjective
  <2> QED
    BY <1>2, <2>1, <2>3
<1> QED
  BY <1>5, <1>6, <1>7

(* What a Set makes of a sequence is each of its members, once.              *)
LEMMA OrderAddedFacts ==
  ASSUME NEW added \in Seq(Test), NEW S, S \subseteq ToSet(added)
  PROVE  /\ InOrderAdded(added, S) \in Seq(Test)
         /\ ToSet(InOrderAdded(added, S)) = S
         /\ IsInjective(InOrderAdded(added, S))
<1> DEFINE P == {i \in DOMAIN added : added[i] \in S /\ \A k \in 1..(i - 1) : added[k] # added[i]}
           places == Ascending(P)
           order == InOrderAdded(added, S)
<1>1. P \in SUBSET Nat /\ IsFiniteSet(P) /\ P \subseteq 1..Len(added)
  <2>1. Len(added) \in Nat /\ P \subseteq 1..Len(added)
    OBVIOUS
  <2>2. IsFiniteSet(1..Len(added)) /\ 1..Len(added) \subseteq Nat
    BY <2>1, FS_Interval
  <2> HIDE DEF P
  <2> QED
    BY <2>1, <2>2, FS_Subset
<1>2. /\ places \in [1..Cardinality(P) -> P] /\ Cardinality(P) \in Nat
      /\ \A t \in P : \E n \in 1..Cardinality(P) : places[n] = t
      /\ \A n, m \in 1..Cardinality(P) : places[n] = places[m] => n = m
  <2> HIDE DEF P
  <2> QED
    BY <1>1, AscendingFacts
<1>3. order = [n \in DOMAIN places |-> added[places[n]]]
  BY DEF InOrderAdded
<1>4. \A i, k \in P : added[i] = added[k] => i = k
  <2> SUFFICES ASSUME NEW i \in P, NEW k \in P, added[i] = added[k], i # k PROVE FALSE
    OBVIOUS
  <2>1. i \in Nat /\ k \in Nat /\ i >= 1 /\ k >= 1
    OBVIOUS
  <2>2. i \in 1..(k - 1) \/ k \in 1..(i - 1)
    BY <2>1
  <2> QED
    BY <2>2
<1>5. \A t \in S : \E i \in P : added[i] = t
  <2> TAKE t \in S
  <2> DEFINE Places == {i \in 1..Len(added) : added[i] = t}
  <2>1. Places \in SUBSET Nat /\ Places # {}
    BY DEF ToSet
  <2>2. Min(Places) \in Places /\ \A i \in Places : Min(Places) <= i
    <3> HIDE DEF Places
    <3> QED
      BY <2>1, MinFacts
  <2>3. \A k \in 1..(Min(Places) - 1) : added[k] # added[Min(Places)]
    BY <2>2
  <2> QED
    BY <2>2, <2>3
<1>6. \A i \in P : added[i] \in S /\ added[i] \in Test
  OBVIOUS
<1> HIDE DEF places, P, order
<1>7. order \in [1..Cardinality(P) -> Test]
  BY <1>2, <1>3, <1>6
<1>8. order \in Seq(Test)
  BY <1>2, <1>7, SeqDef
<1>9. DOMAIN order = 1..Cardinality(P) /\ \A n \in 1..Cardinality(P) : order[n] = added[places[n]] /\ places[n] \in P
  BY <1>2, <1>3, <1>7
<1>10. ToSet(order) \subseteq S
  BY <1>6, <1>9 DEF ToSet
<1>11. S \subseteq ToSet(order)
  <2> SUFFICES ASSUME NEW t \in S PROVE \E n \in DOMAIN order : order[n] = t
    BY DEF ToSet
  <2>1. PICK i \in P : added[i] = t
    BY <1>5
  <2>2. PICK n \in 1..Cardinality(P) : places[n] = i
    BY <1>2, <2>1
  <2> QED
    BY <1>9, <2>1, <2>2
<1>12. IsInjective(order)
  <2> SUFFICES ASSUME NEW n \in DOMAIN order, NEW m \in DOMAIN order, order[n] = order[m] PROVE n = m
    BY DEF IsInjective
  <2>1. places[n] = places[m]
    BY <1>4, <1>9
  <2> QED
    BY <1>2, <1>9, <2>1
<1> QED
  BY <1>8, <1>10, <1>11, <1>12 DEF order

LEMMA FileOrderFacts ==
  ASSUME NEW S \in SUBSET Test
  PROVE  /\ InFileOrder(S) \in Seq(Test)
         /\ ToSet(InFileOrder(S)) = S
         /\ IsInjective(InFileOrder(S))
<1>1. S \in SUBSET Nat /\ IsFiniteSet(S)
  BY TestAssumption, FS_Subset
<1>2. /\ Ascending(S) \in [1..Cardinality(S) -> S] /\ Cardinality(S) \in Nat
      /\ \A t \in S : \E n \in 1..Cardinality(S) : Ascending(S)[n] = t
      /\ \A n, m \in 1..Cardinality(S) : Ascending(S)[n] = Ascending(S)[m] => n = m
  BY <1>1, AscendingFacts
<1>3. Ascending(S) \in Seq(Test)
  BY <1>2, SeqDef
<1>4. DOMAIN Ascending(S) = 1..Cardinality(S)
  BY <1>2
<1> QED
  BY <1>2, <1>3, <1>4 DEF InFileOrder, ToSet, IsInjective

(***************************************************************************)
(* Ledgers, and the loops over them.                                       *)
(***************************************************************************)
Results == [Test -> Seq(Status \cup {"started"})]
Expects == {"passed", "failed", "skipped"}

Ledgers ==
  [results : Results, expected : [Test -> Expects], count : Nat, remaining : SUBSET Test,
   failed : SUBSET Test, errors : BOOLEAN, workerErrors : BOOLEAN]

(* A log counts as a failure of its test when it is final.                   *)
Final(log, expects, t) == Outcome(log, expects) = "unexpected" /\ Len(log) > Retries[t]

Ended(log, t, status) == IF t \in begun THEN WithLast(log, status) ELSE Append(log, status)

(* What a step of the loops does: test t is done with, and unless maxFailures *)
(* was reached it has one result more, or its last one ended; it takes the    *)
(* blame for an error.                                                       *)
Closes(l, t, m) ==
  /\ m.expected = l.expected
  /\ m.remaining = l.remaining \ {t}
  /\ \/ /\ ReachedMaxFailures(l.count)
        /\ m.results = l.results /\ m.count = l.count /\ m.failed = l.failed
     \/ \E status \in {"failed", "skipped"} :
          /\ m.results = [l.results EXCEPT ![t] = Ended(l.results[t], t, status)]
          /\ m.failed = l.failed \cup {t}
          /\ m.count = IF Final(m.results[t], l.expected[t], t) THEN l.count + 1 ELSE l.count
          /\ l.errors => status = "failed"

SkipStep(l, t) == [Blame(l, t) EXCEPT !.remaining = @ \ {t}]

MissStep(l, t) == Fail([l EXCEPT !.remaining = @ \ {t}], t, "failed")

LEMMA AppendFacts ==
  ASSUME NEW S, NEW log \in Seq(S), NEW e \in S
  PROVE  /\ Append(log, e) \in Seq(S)
         /\ Len(log) \in Nat /\ DOMAIN log = 1..Len(log)
         /\ DOMAIN Append(log, e) = 1..(Len(log) + 1) /\ Len(Append(log, e)) = Len(log) + 1
         /\ Append(log, e)[Len(log) + 1] = e
         /\ \A i \in DOMAIN Append(log, e) :
              i = Len(log) + 1 \/ (i \in DOMAIN log /\ i \in 1..Len(log) /\ Append(log, e)[i] = log[i])
<1>1. /\ Append(log, e) \in Seq(S) /\ Len(Append(log, e)) = Len(log) + 1
      /\ \A i \in 1.. Len(log) : Append(log, e)[i] = log[i]
      /\ Append(log, e)[Len(log)+1] = e
  BY AppendProperties
<1>2. Len(log) \in Nat /\ DOMAIN log = 1..Len(log) /\ DOMAIN Append(log, e) = 1..Len(Append(log, e))
  BY <1>1, LenProperties
<1> QED
  BY <1>1, <1>2

LEMMA WithLastFacts ==
  ASSUME NEW S, NEW log \in Seq(S), NEW status \in S
  PROVE  /\ WithLast(log, status) \in Seq(S)
         /\ Len(WithLast(log, status)) = Len(log)
         /\ log # <<>> => WithLast(log, status)[Len(log)] = status
         /\ \A i \in DOMAIN log : i # Len(log) => WithLast(log, status)[i] = log[i]
<1>1. CASE log = <<>>
  <2>1. WithLast(log, status) = log
    BY <1>1 DEF WithLast
  <2> QED
    BY <1>1, <2>1
<1>2. CASE log # <<>>
  <2>1. Len(log) \in 1..Len(log)
    BY <1>2
  <2> QED
    BY <1>2, <2>1 DEF WithLast
<1> QED
  BY <1>1, <1>2

LEMMA EndedFacts ==
  ASSUME NEW log \in Seq(Status \cup {"started"}), NEW t, NEW status \in Status
  PROVE  /\ Ended(log, t, status) \in Seq(Status \cup {"started"})
         /\ Len(Ended(log, t, status)) = IF t \in begun THEN Len(log) ELSE Len(log) + 1
         /\ t \notin begun \/ log # <<>> => Ended(log, t, status)[Len(Ended(log, t, status))] = status
         /\ \A i \in DOMAIN Ended(log, t, status) :
              i # Len(Ended(log, t, status)) => i \in DOMAIN log /\ Ended(log, t, status)[i] = log[i]
<1> DEFINE S == Status \cup {"started"}
<1>0. status \in S
  OBVIOUS
<1> HIDE DEF S
<1>1. CASE t \in begun
  <2>1. Ended(log, t, status) = WithLast(log, status)
    BY <1>1 DEF Ended
  <2>2. DOMAIN WithLast(log, status) = DOMAIN log
    BY DEF WithLast
  <2>3. log \in Seq(S)
    BY DEF S
  <2>4. /\ WithLast(log, status) \in Seq(S)
        /\ Len(WithLast(log, status)) = Len(log)
        /\ log # <<>> => WithLast(log, status)[Len(log)] = status
        /\ \A i \in DOMAIN log : i # Len(log) => WithLast(log, status)[i] = log[i]
    BY ONLY <1>0, <2>3, WithLastFacts
  <2> QED
    BY <1>1, <2>1, <2>2, <2>4 DEF S
<1>2. CASE t \notin begun
  <2>1. Ended(log, t, status) = Append(log, status)
    BY <1>2 DEF Ended
  <2>2. log \in Seq(S)
    BY DEF S
  <2>3. /\ Append(log, status) \in Seq(S)
        /\ Len(Append(log, status)) = Len(log) + 1
        /\ Append(log, status)[Len(log) + 1] = status
        /\ DOMAIN Append(log, status) = 1..(Len(log) + 1)
        /\ \A i \in 1..Len(log) : Append(log, status)[i] = log[i]
    BY <1>0, <2>2, AppendProperties
  <2>4. DOMAIN log = 1..Len(log) /\ Len(log) \in Nat
    BY <2>2
  <2>5. \A i \in 1..(Len(log) + 1) : i # Len(log) + 1 => i \in 1..Len(log)
    BY <2>4
  <2> QED
    BY <1>2, <2>1, <2>3, <2>4, <2>5 DEF S
<1> QED
  BY <1>1, <1>2

LEMMA FailFacts ==
  ASSUME NEW l \in Ledgers, NEW t \in Test, NEW status \in Status
  PROVE  LET m == Fail(l, t, status)
         IN  /\ m \in Ledgers
             /\ m.expected = l.expected /\ m.remaining = l.remaining
             /\ m.errors = l.errors /\ m.workerErrors = l.workerErrors
             /\ m.results = [l.results EXCEPT ![t] = Ended(l.results[t], t, status)]
             /\ m.failed = l.failed \cup {t}
             /\ m.count = IF Final(m.results[t], l.expected[t], t) THEN l.count + 1 ELSE l.count
<1> DEFINE ended == Ended(l.results[t], t, status)
           r == [l.results EXCEPT ![t] = ended]
           k == [l EXCEPT !.results = r, !.failed = @ \cup {t}]
<1>1. ended \in Seq(Status \cup {"started"})
  BY EndedFacts DEF Ledgers, Results
<1>2. Fail(l, t, status) = ReportEnd(k, t)
  BY DEF Fail, Ended
<1> HIDE DEF ended
<1>3. r \in Results /\ r[t] = ended
  BY <1>1 DEF Ledgers, Results
<1> HIDE DEF r
<1>4. /\ k \in Ledgers /\ k.results = r /\ k.failed = l.failed \cup {t} /\ k.count = l.count
      /\ k.expected = l.expected /\ k.remaining = l.remaining
      /\ k.errors = l.errors /\ k.workerErrors = l.workerErrors
  BY <1>3 DEF Ledgers
<1> HIDE DEF k
<1> DEFINE m == ReportEnd(k, t)
<1>5. /\ m \in Ledgers /\ m.results = k.results /\ m.failed = k.failed
      /\ m.expected = k.expected /\ m.remaining = k.remaining
      /\ m.errors = k.errors /\ m.workerErrors = k.workerErrors
      /\ m.count = IF Final(k.results[t], k.expected[t], t) THEN k.count + 1 ELSE k.count
  BY <1>4 DEF ReportEnd, Final, Ledgers
<1> HIDE DEF m
<1> QED
  BY <1>2, <1>4, <1>5 DEF m, r, ended

LEMMA SkipStepFacts ==
  ASSUME NEW l \in Ledgers, NEW t \in Test
  PROVE  /\ SkipStep(l, t) \in Ledgers
         /\ Closes(l, t, SkipStep(l, t))
         /\ SkipStep(l, t).workerErrors = l.workerErrors
         /\ ReachedMaxFailures(l.count) =>
              SkipStep(l, t).results = l.results /\ SkipStep(l, t).count = l.count
<1>1. CASE ReachedMaxFailures(l.count)
  <2>1. SkipStep(l, t) = [l EXCEPT !.remaining = @ \ {t}]
    BY <1>1 DEF SkipStep, Blame
  <2> QED
    BY <1>1, <2>1 DEF Closes, Ledgers
<1>2. CASE ~ReachedMaxFailures(l.count)
  <2>1. PICK status \in {"failed", "skipped"} : status = IF l.errors THEN "failed" ELSE "skipped"
    OBVIOUS
  <2> DEFINE m == Fail(l, t, status)
  <2>2. SkipStep(l, t) = [[m EXCEPT !.errors = FALSE] EXCEPT !.remaining = @ \ {t}]
    BY <1>2, <2>1 DEF SkipStep, Blame
  <2>3. /\ m \in Ledgers
        /\ m.expected = l.expected /\ m.remaining = l.remaining
        /\ m.errors = l.errors /\ m.workerErrors = l.workerErrors
        /\ m.results = [l.results EXCEPT ![t] = Ended(l.results[t], t, status)]
        /\ m.failed = l.failed \cup {t}
        /\ m.count = IF Final(m.results[t], l.expected[t], t) THEN l.count + 1 ELSE l.count
    <3>1. status \in Status
      BY DEF Status
    <3> QED
      BY ONLY <3>1, l \in Ledgers, t \in Test, FailFacts
  <2> HIDE DEF m
  <2>4. /\ SkipStep(l, t) \in Ledgers
        /\ SkipStep(l, t).expected = m.expected
        /\ SkipStep(l, t).remaining = m.remaining \ {t}
        /\ SkipStep(l, t).results = m.results /\ SkipStep(l, t).failed = m.failed
        /\ SkipStep(l, t).count = m.count
        /\ SkipStep(l, t).workerErrors = m.workerErrors
    BY <2>2, <2>3 DEF Ledgers
  <2>5. Closes(l, t, SkipStep(l, t))
    BY <2>1, <2>3, <2>4 DEF Closes
  <2> QED
    BY <1>2, <2>3, <2>4, <2>5
<1> QED
  BY <1>1, <1>2

LEMMA MissStepFacts ==
  ASSUME NEW l \in Ledgers, NEW t \in Test
  PROVE  /\ MissStep(l, t) \in Ledgers
         /\ Closes(l, t, MissStep(l, t))
         /\ MissStep(l, t).workerErrors = l.workerErrors
<1> DEFINE k == [l EXCEPT !.remaining = @ \ {t}]
           m == Fail(k, t, "failed")
<1>1. /\ k \in Ledgers /\ k.remaining = l.remaining \ {t}
      /\ k.results = l.results /\ k.failed = l.failed /\ k.count = l.count
      /\ k.expected = l.expected /\ k.errors = l.errors /\ k.workerErrors = l.workerErrors
  BY DEF Ledgers
<1>2. MissStep(l, t) = m
  BY DEF MissStep
<1> HIDE DEF k
<1>3. /\ m \in Ledgers
      /\ m.expected = k.expected /\ m.remaining = k.remaining
      /\ m.errors = k.errors /\ m.workerErrors = k.workerErrors
      /\ m.results = [k.results EXCEPT ![t] = Ended(k.results[t], t, "failed")]
      /\ m.failed = k.failed \cup {t}
      /\ m.count = IF Final(m.results[t], k.expected[t], t) THEN k.count + 1 ELSE k.count
  BY <1>1, FailFacts DEF Status
<1> HIDE DEF m
<1> QED
  BY <1>1, <1>2, <1>3 DEF Closes

(* One test after the other is closed, from ledger l to ledger m.            *)
ClosesAll(tests, l, m) ==
  \E f \in [0..Len(tests) -> Ledgers] :
    /\ f[0] = l /\ f[Len(tests)] = m
    /\ \A n \in 1..Len(tests) : Closes(f[n - 1], tests[n], f[n])

SkipLoop(tests, l) ==
  LET after[n \in 0..Len(tests)] == IF n = 0 THEN l ELSE SkipStep(after[n - 1], tests[n])
  IN  after[Len(tests)]

MissLoop(tests, l) ==
  LET after[n \in 0..Len(tests)] == IF n = 0 THEN l ELSE MissStep(after[n - 1], tests[n])
  IN  after[Len(tests)]

LEMMA SkipLoopCloses ==
  ASSUME NEW l \in Ledgers, NEW tests \in Seq(Test)
  PROVE  /\ SkipLoop(tests, l) \in Ledgers /\ ClosesAll(tests, l, SkipLoop(tests, l))
         /\ ReachedMaxFailures(l.count) => SkipLoop(tests, l).results = l.results
<1> DEFINE N == Len(tests)
           step == [x \in Ledgers \X (1..N) |-> SkipStep(x[1], tests[x[2]])]
           Body(g) == [n \in 0..N |-> IF n = 0 THEN l ELSE SkipStep(g[n - 1], tests[n])]
           f == CHOOSE g : g = Body(g)
<1>1. N \in Nat /\ \A n \in 1..N : tests[n] \in Test
  OBVIOUS
<1> HIDE DEF N
<1>2. step \in [Ledgers \X (1..N) -> Ledgers]
  BY <1>1, SkipStepFacts
<1>3. \A k \in Ledgers : \A n \in 1..N : step[<<k, n>>] = SkipStep(k, tests[n])
  OBVIOUS
<1> HIDE DEF step
<1>4. RunsOf(Ledgers, l, step, N) # {}
  BY <1>1, <1>2, Recursion
<1>5. PICK h \in [0..N -> Ledgers] : h[0] = l /\ \A n \in 1..N : h[n] = step[<<h[n - 1], n>>]
  BY <1>4 DEF RunsOf
<1>6. \A n \in 1..N : h[n] = SkipStep(h[n - 1], tests[n])
  <2> TAKE n \in 1..N
  <2>1. n - 1 \in 0..N
    BY <1>1
  <2> QED
    BY <1>3, <1>5, <2>1
<1>7. h = Body(h)
  BY <1>1, <1>5, <1>6
<1>8. f = Body(f)
  BY <1>7, Zenon
<1>9. /\ DOMAIN Body(f) = 0..N /\ Body(f)[0] = l
      /\ \A n \in 1..N : Body(f)[n] = SkipStep(f[n - 1], tests[n])
  BY ONLY <1>1
<1>10. SkipLoop(tests, l) = f[N]
  BY DEF SkipLoop, N
<1> HIDE DEF Body, f
<1>11. /\ DOMAIN f = 0..N /\ f[0] = l
       /\ \A n \in 1..N : f[n] = SkipStep(f[n - 1], tests[n])
  BY ONLY <1>8, <1>9, Zenon
<1>12. f = [n \in 0..N |-> f[n]]
  BY ONLY <1>8, <1>11 DEF Body
<1> DEFINE P == {n \in 0..N : f[n] \in Ledgers}
<1>13. 0 \in P
  BY <1>1, <1>11
<1>14. ASSUME NEW k \in 0..N, k \in P, k < N PROVE k + 1 \in P
  <2>1. k + 1 \in 1..N /\ k + 1 - 1 = k
    BY <1>1, <1>14
  <2>2. f[k + 1] = SkipStep(f[k], tests[k + 1])
    BY ONLY <1>11, <2>1
  <2>3. f[k] \in Ledgers
    BY <1>14
  <2>4. SkipStep(f[k], tests[k + 1]) \in Ledgers
    BY <1>1, <2>1, <2>3, SkipStepFacts
  <2> QED
    BY <2>1, <2>2, <2>4
<1>15. \A k \in 0..N : f[k] \in Ledgers
  <2>1. \A k \in 0..N : k \in P
    <3> HIDE DEF P
    <3> QED
      BY <1>1, <1>13, <1>14, UpTo
  <2> QED
    BY <2>1
<1>16. f \in [0..N -> Ledgers]
  BY ONLY <1>12, <1>15
<1>17. \A n \in 1..N : Closes(f[n - 1], tests[n], f[n])
  <2> TAKE n \in 1..N
  <2>1. n - 1 \in 0..N
    BY <1>1
  <2> QED
    BY <1>1, <1>11, <1>15, <2>1, SkipStepFacts
<1> DEFINE Q == {n \in 0..N : f[n].results = l.results /\ f[n].count = l.count}
<1>18. ASSUME ReachedMaxFailures(l.count) PROVE f[N].results = l.results
  <2>1. 0 \in Q
    BY <1>1, <1>11
  <2>2. ASSUME NEW k \in 0..N, k \in Q, k < N PROVE k + 1 \in Q
    <3>1. k + 1 \in 1..N /\ k + 1 - 1 = k /\ k + 1 \in 0..N
      BY <1>1, <2>2
    <3>2. f[k + 1] = SkipStep(f[k], tests[k + 1])
      BY ONLY <1>11, <3>1
    <3>3. f[k] \in Ledgers /\ f[k].results = l.results /\ f[k].count = l.count
      BY <1>15, <2>2
    <3>4. ReachedMaxFailures(f[k].count) /\ tests[k + 1] \in Test
      BY <1>1, <1>18, <3>1, <3>3
    <3>5. /\ SkipStep(f[k], tests[k + 1]).results = f[k].results
          /\ SkipStep(f[k], tests[k + 1]).count = f[k].count
      BY ONLY <3>3, <3>4, SkipStepFacts
    <3> QED
      BY <3>1, <3>2, <3>3, <3>5
  <2>3. \A k \in 0..N : k \in Q
    <3> HIDE DEF Q
    <3> QED
      BY <1>1, <2>1, <2>2, UpTo
  <2> QED
    BY <1>1, <2>3
<1> QED
  BY <1>1, <1>10, <1>11, <1>15, <1>16, <1>17, <1>18 DEF ClosesAll, N

LEMMA MissLoopCloses ==
  ASSUME NEW l \in Ledgers, NEW tests \in Seq(Test)
  PROVE  /\ MissLoop(tests, l) \in Ledgers /\ ClosesAll(tests, l, MissLoop(tests, l))
         /\ tests # <<>> => \E k \in Ledgers : MissLoop(tests, l) = MissStep(k, tests[Len(tests)])
<1> DEFINE N == Len(tests)
           step == [x \in Ledgers \X (1..N) |-> MissStep(x[1], tests[x[2]])]
           Body(g) == [n \in 0..N |-> IF n = 0 THEN l ELSE MissStep(g[n - 1], tests[n])]
           f == CHOOSE g : g = Body(g)
<1>1. N \in Nat /\ \A n \in 1..N : tests[n] \in Test
  OBVIOUS
<1> HIDE DEF N
<1>2. step \in [Ledgers \X (1..N) -> Ledgers]
  BY <1>1, MissStepFacts
<1>3. \A k \in Ledgers : \A n \in 1..N : step[<<k, n>>] = MissStep(k, tests[n])
  OBVIOUS
<1> HIDE DEF step
<1>4. RunsOf(Ledgers, l, step, N) # {}
  BY <1>1, <1>2, Recursion
<1>5. PICK h \in [0..N -> Ledgers] : h[0] = l /\ \A n \in 1..N : h[n] = step[<<h[n - 1], n>>]
  BY <1>4 DEF RunsOf
<1>6. \A n \in 1..N : h[n] = MissStep(h[n - 1], tests[n])
  <2> TAKE n \in 1..N
  <2>1. n - 1 \in 0..N
    BY <1>1
  <2> QED
    BY <1>3, <1>5, <2>1
<1>7. h = Body(h)
  BY <1>1, <1>5, <1>6
<1>8. f = Body(f)
  BY <1>7, Zenon
<1>9. /\ DOMAIN Body(f) = 0..N /\ Body(f)[0] = l
      /\ \A n \in 1..N : Body(f)[n] = MissStep(f[n - 1], tests[n])
  BY ONLY <1>1
<1>10. MissLoop(tests, l) = f[N]
  BY DEF MissLoop, N
<1> HIDE DEF Body, f
<1>11. /\ DOMAIN f = 0..N /\ f[0] = l
       /\ \A n \in 1..N : f[n] = MissStep(f[n - 1], tests[n])
  BY ONLY <1>8, <1>9, Zenon
<1>12. f = [n \in 0..N |-> f[n]]
  BY ONLY <1>8, <1>11 DEF Body
<1> DEFINE P == {n \in 0..N : f[n] \in Ledgers}
<1>13. 0 \in P
  BY <1>1, <1>11
<1>14. ASSUME NEW k \in 0..N, k \in P, k < N PROVE k + 1 \in P
  <2>1. k + 1 \in 1..N /\ k + 1 - 1 = k
    BY <1>1, <1>14
  <2>2. f[k + 1] = MissStep(f[k], tests[k + 1])
    BY ONLY <1>11, <2>1
  <2>3. f[k] \in Ledgers
    BY <1>14
  <2>4. MissStep(f[k], tests[k + 1]) \in Ledgers
    BY <1>1, <2>1, <2>3, MissStepFacts
  <2> QED
    BY <2>1, <2>2, <2>4
<1>15. \A k \in 0..N : f[k] \in Ledgers
  <2>1. \A k \in 0..N : k \in P
    <3> HIDE DEF P
    <3> QED
      BY <1>1, <1>13, <1>14, UpTo
  <2> QED
    BY <2>1
<1>16. f \in [0..N -> Ledgers]
  BY ONLY <1>12, <1>15
<1>17. \A n \in 1..N : Closes(f[n - 1], tests[n], f[n])
  <2> TAKE n \in 1..N
  <2>1. n - 1 \in 0..N
    BY <1>1
  <2> QED
    BY <1>1, <1>11, <1>15, <2>1, MissStepFacts
<1>18. ASSUME tests # <<>> PROVE \E k \in Ledgers : f[N] = MissStep(k, tests[N])
  <2>1. N \in 1..N /\ N - 1 \in 0..N
    BY <1>18 DEF N
  <2> QED
    BY <1>11, <1>15, <2>1
<1> QED
  BY <1>1, <1>10, <1>11, <1>15, <1>16, <1>17, <1>18 DEF ClosesAll, N

(* The results of tests that were declared to be skipped.                    *)
ReportStep(l, t) ==
  ReportEnd([l EXCEPT !.results = [l.results EXCEPT ![t] = Append(l.results[t], "skipped")]], t)

Reports(l, t, m) ==
  /\ m.expected = l.expected
  /\ m.results = [l.results EXCEPT ![t] = Append(l.results[t], "skipped")]
  /\ m.count = IF Final(m.results[t], l.expected[t], t) THEN l.count + 1 ELSE l.count

ReportsAll(tests, l, m) ==
  \E f \in [0..Len(tests) -> Ledgers] :
    /\ f[0] = l /\ f[Len(tests)] = m
    /\ \A n \in 1..Len(tests) : Reports(f[n - 1], tests[n], f[n])

ReportLoop(tests, l) ==
  LET after[n \in 0..Len(tests)] == IF n = 0 THEN l ELSE ReportStep(after[n - 1], tests[n])
  IN  after[Len(tests)]

LEMMA ReportStepFacts ==
  ASSUME NEW l \in Ledgers, NEW t \in Test
  PROVE  ReportStep(l, t) \in Ledgers /\ Reports(l, t, ReportStep(l, t))
<1> DEFINE log == Append(l.results[t], "skipped")
           r == [l.results EXCEPT ![t] = log]
           k == [l EXCEPT !.results = r]
           m == ReportEnd(k, t)
<1>1. log \in Seq(Status \cup {"started"})
  BY DEF Ledgers, Results, Status
<1>2. ReportStep(l, t) = m
  BY DEF ReportStep
<1> HIDE DEF log
<1>3. r \in Results /\ r[t] = log
  BY <1>1 DEF Ledgers, Results
<1> HIDE DEF r
<1>4. /\ k \in Ledgers /\ k.results = r /\ k.count = l.count /\ k.expected = l.expected
  BY <1>3 DEF Ledgers
<1> HIDE DEF k
<1>5. /\ m \in Ledgers /\ m.results = k.results /\ m.expected = k.expected
      /\ m.count = IF Final(k.results[t], k.expected[t], t) THEN k.count + 1 ELSE k.count
  BY <1>4 DEF ReportEnd, Final, Ledgers
<1> HIDE DEF m
<1> QED
  BY <1>2, <1>4, <1>5 DEF Reports, r, log

LEMMA ReportLoopReports ==
  ASSUME NEW l \in Ledgers, NEW tests \in Seq(Test)
  PROVE  ReportLoop(tests, l) \in Ledgers /\ ReportsAll(tests, l, ReportLoop(tests, l))
<1> DEFINE N == Len(tests)
           step == [x \in Ledgers \X (1..N) |-> ReportStep(x[1], tests[x[2]])]
           Body(g) == [n \in 0..N |-> IF n = 0 THEN l ELSE ReportStep(g[n - 1], tests[n])]
           f == CHOOSE g : g = Body(g)
<1>1. N \in Nat /\ \A n \in 1..N : tests[n] \in Test
  OBVIOUS
<1> HIDE DEF N
<1>2. step \in [Ledgers \X (1..N) -> Ledgers]
  BY <1>1, ReportStepFacts
<1>3. \A k \in Ledgers : \A n \in 1..N : step[<<k, n>>] = ReportStep(k, tests[n])
  OBVIOUS
<1> HIDE DEF step
<1>4. RunsOf(Ledgers, l, step, N) # {}
  BY <1>1, <1>2, Recursion
<1>5. PICK h \in [0..N -> Ledgers] : h[0] = l /\ \A n \in 1..N : h[n] = step[<<h[n - 1], n>>]
  BY <1>4 DEF RunsOf
<1>6. \A n \in 1..N : h[n] = ReportStep(h[n - 1], tests[n])
  <2> TAKE n \in 1..N
  <2>1. n - 1 \in 0..N
    BY <1>1
  <2> QED
    BY <1>3, <1>5, <2>1
<1>7. h = Body(h)
  BY <1>1, <1>5, <1>6
<1>8. f = Body(f)
  BY <1>7, Zenon
<1>9. /\ DOMAIN Body(f) = 0..N /\ Body(f)[0] = l
      /\ \A n \in 1..N : Body(f)[n] = ReportStep(f[n - 1], tests[n])
  BY ONLY <1>1
<1>10. ReportLoop(tests, l) = f[N]
  BY DEF ReportLoop, N
<1> HIDE DEF Body, f
<1>11. /\ DOMAIN f = 0..N /\ f[0] = l
       /\ \A n \in 1..N : f[n] = ReportStep(f[n - 1], tests[n])
  BY ONLY <1>8, <1>9, Zenon
<1>12. f = [n \in 0..N |-> f[n]]
  BY ONLY <1>8, <1>11 DEF Body
<1> DEFINE P == {n \in 0..N : f[n] \in Ledgers}
<1>13. 0 \in P
  BY <1>1, <1>11
<1>14. ASSUME NEW k \in 0..N, k \in P, k < N PROVE k + 1 \in P
  <2>1. k + 1 \in 1..N /\ k + 1 - 1 = k
    BY <1>1, <1>14
  <2>2. f[k + 1] = ReportStep(f[k], tests[k + 1])
    BY ONLY <1>11, <2>1
  <2>3. f[k] \in Ledgers
    BY <1>14
  <2>4. ReportStep(f[k], tests[k + 1]) \in Ledgers
    BY <1>1, <2>1, <2>3, ReportStepFacts
  <2> QED
    BY <2>1, <2>2, <2>4
<1>15. \A k \in 0..N : f[k] \in Ledgers
  <2>1. \A k \in 0..N : k \in P
    <3> HIDE DEF P
    <3> QED
      BY <1>1, <1>13, <1>14, UpTo
  <2> QED
    BY <2>1
<1>16. f \in [0..N -> Ledgers]
  BY ONLY <1>12, <1>15
<1>17. \A n \in 1..N : Reports(f[n - 1], tests[n], f[n])
  <2> TAKE n \in 1..N
  <2>1. n - 1 \in 0..N
    BY <1>1
  <2> QED
    BY <1>1, <1>11, <1>15, <2>1, ReportStepFacts
<1> QED
  BY <1>1, <1>10, <1>11, <1>15, <1>16, <1>17 DEF ReportsAll, N

(***************************************************************************)
(* What holds of a ledger at every step of the loops.                      *)
(***************************************************************************)
(* It is about the tests of the job, and a result is open only while its     *)
(* test is running and not closed yet.                                       *)
OpenIn(l) ==
  \A t \in Test : \A i \in DOMAIN l.results[t] :
    l.results[t][i] = "started" =>
      i = Len(l.results[t]) /\ t \in begun /\ (t \in l.remaining \/ ReachedMaxFailures(l.count))

LedgerOK(l) ==
  /\ l \in Ledgers
  /\ l.expected = expected
  /\ l.count >= failedCount
  /\ l.remaining \subseteq remaining
  /\ l.failed \subseteq ToSet(job) /\ l.failed \cap l.remaining = {}
  /\ \A t \in Test \ remaining : l.results[t] = results[t]
  /\ OpenIn(l)

(* The tests that are counted as failures.                                   *)
Finals(log, expects) ==
  {t \in Test : Final(log[t], expects[t], t) /\ Last(log[t]) # "started"}

(* No test has too many results, those to come included, and the counter is  *)
(* exact.                                                                    *)
LedgerExact(l) ==
  /\ \A t \in Test : Len(l.results[t]) <= Retries[t] + 1
  /\ \A t \in l.remaining :
       IF t \in begun THEN l.results[t] # <<>> /\ Last(l.results[t]) = "started"
       ELSE Len(l.results[t]) <= Retries[t]
  /\ l.count = elsewhere + Cardinality(Finals(l.results, l.expected))

LEMMA MaxIsNumber ==
  ASSUME setting \in Setting
  PROVE  MaxFailures \in Nat
BY SettingAssumption DEF MaxFailures

LEMMA ReachedStays ==
  ASSUME setting \in Setting, NEW n \in Nat, NEW m \in Nat, n <= m, ReachedMaxFailures(n)
  PROVE  ReachedMaxFailures(m)
BY MaxIsNumber DEF ReachedMaxFailures

LEMMA ClosesKeeps ==
  ASSUME TypeOK, NEW l, LedgerOK(l), NEW m \in Ledgers, NEW t \in remaining, Closes(l, t, m)
  PROVE  LedgerOK(m)
<1>1. /\ l \in Ledgers /\ t \in Test /\ remaining \subseteq ToSet(job) /\ setting \in Setting
      /\ remaining \subseteq Test
  BY DEF TypeOK, LedgerOK, ToSet
<1>2. m.expected = expected /\ m.remaining = l.remaining \ {t}
  BY DEF Closes, LedgerOK
<1>3. m.count >= l.count /\ l.count \in Nat /\ m.count \in Nat /\ failedCount \in Nat
  BY <1>1 DEF Closes, Ledgers, TypeOK
<1>4. m.failed \subseteq ToSet(job) /\ m.failed \cap m.remaining = {}
  BY <1>1, <1>2 DEF Closes, LedgerOK
<1>5. m.remaining \subseteq remaining
  BY <1>2 DEF LedgerOK
<1>6. \A u \in Test : u # t => m.results[u] = l.results[u]
  BY <1>1 DEF Closes, Ledgers, Results
<1>7. \A u \in Test \ remaining : m.results[u] = results[u]
  BY <1>1, <1>6 DEF LedgerOK
<1>8. OpenIn(m)
  <2> SUFFICES ASSUME NEW u \in Test, NEW i \in DOMAIN m.results[u], m.results[u][i] = "started"
               PROVE  /\ i = Len(m.results[u]) /\ u \in begun
                      /\ u \in m.remaining \/ ReachedMaxFailures(m.count)
    BY DEF OpenIn
  <2>1. CASE ReachedMaxFailures(l.count) /\ m.results = l.results /\ m.count = l.count
    BY <2>1 DEF LedgerOK, OpenIn
  <2>2. CASE u # t
    <3>1. m.results[u] = l.results[u]
      BY <1>6, <2>2
    <3>2. i = Len(l.results[u]) /\ u \in begun /\ (u \in l.remaining \/ ReachedMaxFailures(l.count))
      BY <3>1 DEF LedgerOK, OpenIn
    <3>3. ReachedMaxFailures(l.count) => ReachedMaxFailures(m.count)
      BY <1>1, <1>3, ReachedStays
    <3> QED
      BY <1>2, <2>2, <3>1, <3>2, <3>3
  <2>3. ASSUME u = t, NEW status \in {"failed", "skipped"},
               m.results = [l.results EXCEPT ![t] = Ended(l.results[t], t, status)]
        PROVE  FALSE
    <3>1. m.results[t] = Ended(l.results[t], t, status) /\ l.results[t] \in Seq(Status \cup {"started"})
      BY <1>1, <2>3 DEF Ledgers, Results
    <3>2. status \in Status /\ status # "started"
      BY DEF Status
    <3>3. /\ Len(Ended(l.results[t], t, status)) = IF t \in begun THEN Len(l.results[t]) ELSE Len(l.results[t]) + 1
          /\ t \notin begun \/ l.results[t] # <<>> =>
               Ended(l.results[t], t, status)[Len(Ended(l.results[t], t, status))] = status
          /\ \A k \in DOMAIN Ended(l.results[t], t, status) :
               k # Len(Ended(l.results[t], t, status)) =>
                 k \in DOMAIN l.results[t] /\ Ended(l.results[t], t, status)[k] = l.results[t][k]
          /\ Ended(l.results[t], t, status) \in Seq(Status \cup {"started"})
      BY ONLY <3>1, <3>2, EndedFacts
    <3>4. i \in DOMAIN Ended(l.results[t], t, status) /\ Ended(l.results[t], t, status)[i] = "started"
      BY <2>3, <3>1
    <3>5. i # Len(Ended(l.results[t], t, status))
      BY <3>1, <3>2, <3>3, <3>4
    <3>6. i \in DOMAIN l.results[t] /\ l.results[t][i] = "started"
      BY <3>3, <3>4, <3>5
    <3>7. i = Len(l.results[t]) /\ t \in begun
      BY <1>1, <3>6 DEF LedgerOK, OpenIn
    <3> QED
      BY <3>3, <3>5, <3>7
  <2> QED
    BY <2>1, <2>2, <2>3 DEF Closes
<1> QED
  BY <1>1, <1>2, <1>3, <1>4, <1>5, <1>7, <1>8 DEF LedgerOK

LEMMA FinalsFinite ==
  ASSUME NEW log, NEW expects
  PROVE  IsFiniteSet(Finals(log, expects)) /\ Cardinality(Finals(log, expects)) \in Nat
<1>1. Finals(log, expects) \subseteq Test
  BY DEF Finals
<1>2. IsFiniteSet(Finals(log, expects))
  BY <1>1, TestAssumption, FS_Subset
<1> QED
  BY <1>2, FS_CardinalityType

(* The counter stays exact when the log of one test that did not count       *)
(* changes, if it counts a final one.                                        *)
LEMMA CountOneMore ==
  ASSUME NEW r \in Results, NEW s \in Results, NEW e, NEW t \in Test,
         \A u \in Test : u # t => s[u] = r[u],
         ~Final(r[t], e[t], t) \/ Last(r[t]) = "started",
         s[t] # <<>> /\ Last(s[t]) # "started"
  PROVE  Cardinality(Finals(s, e)) =
           Cardinality(Finals(r, e)) + (IF Final(s[t], e[t], t) THEN 1 ELSE 0)
<1>1. t \notin Finals(r, e)
  BY DEF Finals
<1>2. CASE Final(s[t], e[t], t)
  <2>1. Finals(s, e) = Finals(r, e) \cup {t}
    BY <1>2 DEF Finals
  <2>2. IsFiniteSet(Finals(r, e)) /\ Cardinality(Finals(r, e)) \in Nat
    BY FinalsFinite
  <2>3. Cardinality(Finals(r, e) \cup {t}) = Cardinality(Finals(r, e)) + 1
    BY <1>1, <2>2, FS_AddElement
  <2> QED
    BY <1>2, <2>1, <2>3
<1>3. CASE ~Final(s[t], e[t], t)
  <2>1. Finals(s, e) = Finals(r, e)
    BY <1>1, <1>3 DEF Finals
  <2>2. Cardinality(Finals(r, e)) \in Nat
    BY FinalsFinite
  <2> QED
    BY <1>3, <2>1, <2>2
<1> QED
  BY <1>2, <1>3

LEMMA ClosesExact ==
  ASSUME TypeOK, NEW l \in Ledgers, LedgerExact(l), NEW m \in Ledgers, NEW t \in l.remaining,
         Closes(l, t, m)
  PROVE  LedgerExact(m)
<1>1. t \in Test /\ elsewhere \in Nat /\ l.remaining \subseteq Test /\ Retries[t] \in Nat
  BY RetriesAssumption DEF TypeOK, Ledgers
<1>2. m.expected = l.expected /\ m.remaining = l.remaining \ {t}
  BY DEF Closes
<1>3. CASE m.results = l.results /\ m.count = l.count
  BY <1>2, <1>3 DEF LedgerExact
<1>4. ASSUME NEW status \in {"failed", "skipped"},
             m.results = [l.results EXCEPT ![t] = Ended(l.results[t], t, status)],
             m.count = IF Final(m.results[t], l.expected[t], t) THEN l.count + 1 ELSE l.count
      PROVE  LedgerExact(m)
  <2> DEFINE log == l.results[t]
             ended == Ended(log, t, status)
  <2>1. log \in Seq(Status \cup {"started"}) /\ m.results[t] = ended
    BY <1>1, <1>4 DEF Ledgers, Results
  <2>2. status \in Status /\ status # "started"
    BY DEF Status
  <2>3. /\ ended \in Seq(Status \cup {"started"})
        /\ Len(ended) = IF t \in begun THEN Len(log) ELSE Len(log) + 1
        /\ t \notin begun \/ log # <<>> => ended[Len(ended)] = status
    BY ONLY <2>1, <2>2, EndedFacts
  <2>4. IF t \in begun THEN log # <<>> /\ Last(log) = "started" /\ Len(log) <= Retries[t] + 1
        ELSE Len(log) <= Retries[t]
    BY <1>1 DEF LedgerExact
  <2> HIDE DEF ended, log
  <2>5. Len(log) \in Nat /\ (log # <<>> => Len(log) > 0)
    BY <2>1
  <2>6. Len(ended) <= Retries[t] + 1 /\ ended # <<>> /\ ended[Len(ended)] = status
    BY <1>1, <2>3, <2>4, <2>5
  <2>7. \A u \in Test : u # t => m.results[u] = l.results[u]
    BY <1>4, <1>1 DEF Ledgers, Results
  <2>8. \A u \in Test : Len(m.results[u]) <= Retries[u] + 1
    BY <2>1, <2>6, <2>7 DEF LedgerExact
  <2>9. \A u \in m.remaining :
          IF u \in begun THEN m.results[u] # <<>> /\ Last(m.results[u]) = "started"
          ELSE Len(m.results[u]) <= Retries[u]
    BY <1>1, <1>2, <2>7 DEF LedgerExact
  <2>10. Last(ended) # "started"
    BY <2>2, <2>6 DEF Last
  <2>11. ~Final(log, l.expected[t], t) \/ Last(log) = "started"
    BY <1>1, <2>4, <2>5 DEF Final
  <2>12. l.results \in Results /\ m.results \in Results
    BY DEF Ledgers
  <2>13. Cardinality(Finals(m.results, l.expected)) =
           Cardinality(Finals(l.results, l.expected)) + (IF Final(m.results[t], l.expected[t], t) THEN 1 ELSE 0)
    BY <1>1, <2>1, <2>6, <2>7, <2>10, <2>11, <2>12, CountOneMore DEF log
  <2>14. m.count = elsewhere + Cardinality(Finals(m.results, m.expected))
    <3>1. Cardinality(Finals(l.results, l.expected)) \in Nat
      BY FinalsFinite
    <3>2. l.count = elsewhere + Cardinality(Finals(l.results, l.expected))
      BY DEF LedgerExact
    <3> QED
      BY <1>1, <1>2, <1>4, <2>13, <3>1, <3>2
  <2> QED
    BY <2>8, <2>9, <2>14 DEF LedgerExact
<1> QED
  BY <1>3, <1>4 DEF Closes

LEMMA LoopKeeps ==
  ASSUME TypeOK, NEW l, LedgerOK(l), NEW tests \in Seq(Test), ToSet(tests) \subseteq l.remaining,
         NEW m, ClosesAll(tests, l, m)
  PROVE  /\ LedgerOK(m)
         /\ m.remaining = l.remaining \ ToSet(tests)
         /\ LedgerExact(l) /\ IsInjective(tests) => LedgerExact(m)
<1>1. PICK f \in [0..Len(tests) -> Ledgers] :
             /\ f[0] = l /\ f[Len(tests)] = m
             /\ \A n \in 1..Len(tests) : Closes(f[n - 1], tests[n], f[n])
  BY DEF ClosesAll
<1> DEFINE N == Len(tests)
           Closed(k) == {tests[i] : i \in 1..k}
           P == {k \in 0..N : LedgerOK(f[k]) /\ f[k].remaining = l.remaining \ Closed(k)}
           Q == {k \in 0..N : LedgerExact(f[k])}
<1>2. N \in Nat /\ DOMAIN tests = 1..N /\ \A n \in 1..N : tests[n] \in l.remaining /\ tests[n] \in remaining
  BY DEF ToSet, LedgerOK
<1>3. 0 \in P
  <2>1. Closed(0) = {}
    OBVIOUS
  <2> HIDE DEF Closed
  <2> QED
    BY <1>1, <1>2, <2>1
<1>4. ASSUME NEW k \in 0..N, k \in P, k < N PROVE k + 1 \in P
  <2>1. k + 1 \in 1..N /\ k + 1 - 1 = k /\ k + 1 \in 0..N
    BY <1>2, <1>4
  <2>2. Closes(f[k], tests[k + 1], f[k + 1])
    BY <1>1, <2>1
  <2>3. Closed(k + 1) = Closed(k) \cup {tests[k + 1]}
    BY <2>1
  <2> HIDE DEF Closed
  <2>4. LedgerOK(f[k + 1])
    BY <1>1, <1>2, <1>4, <2>1, <2>2, ClosesKeeps
  <2>5. f[k + 1].remaining = l.remaining \ Closed(k + 1)
    BY <1>4, <2>2, <2>3 DEF Closes
  <2> QED
    BY <2>1, <2>4, <2>5
<1>5. \A k \in 0..N : k \in P
  <2> HIDE DEF P
  <2> QED
    BY <1>2, <1>3, <1>4, UpTo
<1>6. Closed(N) = ToSet(tests)
  BY <1>2 DEF ToSet
<1>7. ASSUME LedgerExact(l), IsInjective(tests) PROVE LedgerExact(m)
  <2>1. 0 \in Q
    BY <1>1, <1>2, <1>7
  <2>2. ASSUME NEW k \in 0..N, k \in Q, k < N PROVE k + 1 \in Q
    <3>1. k + 1 \in 1..N /\ k + 1 - 1 = k /\ k + 1 \in 0..N
      BY <1>2, <2>2
    <3>2. Closes(f[k], tests[k + 1], f[k + 1])
      BY <1>1, <3>1
    <3>3. tests[k + 1] \notin Closed(k)
      BY <1>2, <1>7, <3>1 DEF IsInjective
    <3>4. tests[k + 1] \in f[k].remaining
      BY <1>2, <1>5, <3>1, <3>3
    <3>5. LedgerExact(f[k]) /\ f[k] \in Ledgers /\ f[k + 1] \in Ledgers
      BY <1>1, <2>2, <3>1
    <3>6. LedgerExact(f[k + 1])
      BY <3>2, <3>4, <3>5, ClosesExact
    <3> QED
      BY <3>1, <3>6
  <2>3. \A k \in 0..N : k \in Q
    <3> HIDE DEF Q
    <3> QED
      BY <1>2, <2>1, <2>2, UpTo
  <2> QED
    BY <1>1, <1>2, <2>3
<1> QED
  BY <1>1, <1>2, <1>5, <1>6, <1>7

(* The loops leave the results of other tests alone.                         *)
LEMMA LoopLeaves ==
  ASSUME NEW l \in Ledgers, NEW tests \in Seq(Test), NEW m, ClosesAll(tests, l, m)
  PROVE  \A t \in Test \ ToSet(tests) : m.results[t] = l.results[t]
<1> SUFFICES ASSUME NEW t \in Test, t \notin ToSet(tests)
             PROVE  m.results[t] = l.results[t]
  OBVIOUS
<1>1. PICK f \in [0..Len(tests) -> Ledgers] :
             /\ f[0] = l /\ f[Len(tests)] = m
             /\ \A n \in 1..Len(tests) : Closes(f[n - 1], tests[n], f[n])
  BY DEF ClosesAll
<1> DEFINE N == Len(tests)
           P == {k \in 0..N : f[k].results[t] = l.results[t]}
<1>2. N \in Nat /\ \A n \in 1..N : tests[n] # t
  BY DEF ToSet
<1>3. 0 \in P
  BY <1>1, <1>2
<1>4. ASSUME NEW k \in 0..N, k \in P, k < N PROVE k + 1 \in P
  <2>1. k + 1 \in 1..N /\ k + 1 - 1 = k /\ k + 1 \in 0..N
    BY <1>2, <1>4
  <2>2. Closes(f[k], tests[k + 1], f[k + 1])
    BY <1>1, <2>1
  <2>3. f[k] \in Ledgers /\ tests[k + 1] # t
    BY <1>1, <1>2, <2>1
  <2>4. f[k + 1].results[t] = f[k].results[t]
    BY <2>2, <2>3 DEF Closes, Ledgers, Results
  <2> QED
    BY <1>4, <2>1, <2>4
<1>5. \A k \in 0..N : k \in P
  <2> HIDE DEF P
  <2> QED
    BY <1>2, <1>3, <1>4, UpTo
<1> QED
  BY <1>1, <1>2, <1>5

LEMMA LedgerReached ==
  ASSUME TypeOK, NEW l, LedgerOK(l), ReachedMaxFailures(failedCount)
  PROVE  ReachedMaxFailures(l.count)
<1>1. failedCount \in Nat /\ l.count \in Nat /\ failedCount <= l.count /\ setting \in Setting
  BY DEF TypeOK, LedgerOK, Ledgers
<1> QED
  BY <1>1, ReachedStays

LEMMA MassSkipFacts ==
  ASSUME TypeOK, NEW l, LedgerOK(l), NEW tests, NEW e \in BOOLEAN
  PROVE  /\ LedgerOK(MassSkip(l, tests, e))
         /\ MassSkip(l, tests, e).remaining = l.remaining \ tests
         /\ LedgerExact(l) /\ IsInjective(job) => LedgerExact(MassSkip(l, tests, e))
         /\ ReachedMaxFailures(l.count) => MassSkip(l, tests, e).results = l.results
<1> DEFINE base == [l EXCEPT !.errors = e]
           order == InJobOrder(l.remaining \cap tests)
           after == SkipLoop(order, base)
           m == [after EXCEPT !.workerErrors = @ \/ after.errors]
<1>1. MassSkip(l, tests, e) = m
  BY DEF MassSkip, ForEach, SkipLoop, SkipStep
<1>2. job \in Seq(Test) /\ remaining \subseteq ToSet(job)
  BY DEF TypeOK
<1>3. order \in Seq(Test) /\ ToSet(order) = ToSet(job) \cap (l.remaining \cap tests)
      /\ (IsInjective(job) => IsInjective(order))
  BY <1>2, JobOrderFacts
<1>4. ToSet(order) = l.remaining \cap tests
  BY <1>2, <1>3 DEF LedgerOK
<1>5. /\ base \in Ledgers /\ base.results = l.results /\ base.count = l.count
      /\ base.remaining = l.remaining /\ base.failed = l.failed /\ base.expected = l.expected
  BY DEF LedgerOK, Ledgers
<1> HIDE DEF base, order
<1>6. LedgerOK(base) /\ (LedgerExact(l) => LedgerExact(base))
  BY <1>5 DEF LedgerOK, LedgerExact, OpenIn
<1>7. /\ after \in Ledgers /\ ClosesAll(order, base, after)
      /\ ReachedMaxFailures(base.count) => after.results = base.results
  BY <1>3, <1>5, SkipLoopCloses
<1> HIDE DEF after
<1>8. /\ LedgerOK(after) /\ after.remaining = base.remaining \ ToSet(order)
      /\ LedgerExact(base) /\ IsInjective(order) => LedgerExact(after)
  BY <1>3, <1>4, <1>5, <1>6, <1>7, LoopKeeps
<1>9. /\ m \in Ledgers /\ m.results = after.results /\ m.count = after.count
      /\ m.remaining = after.remaining /\ m.failed = after.failed /\ m.expected = after.expected
  BY <1>7 DEF Ledgers
<1> HIDE DEF m
<1>10. LedgerOK(m) /\ (LedgerExact(after) => LedgerExact(m))
  BY <1>8, <1>9 DEF LedgerOK, LedgerExact, OpenIn
<1> QED
  BY <1>1, <1>3, <1>4, <1>5, <1>6, <1>7, <1>8, <1>9, <1>10

LEMMA SettledFacts ==
  ASSUME TypeOK, LedgerOK(Ledger), NEW payload \in Payload
  PROVE  /\ LedgerOK(Settled(payload))
         /\ payload.unexpected /\ current # NoTest => current \notin Settled(payload).remaining
         /\ LedgerExact(Ledger) /\ IsInjective(job) => LedgerExact(Settled(payload))
         /\ ReachedMaxFailures(failedCount) =>
              \A t \in Test \ payload.unknown : Settled(payload).results[t] = results[t]
<1> DEFINE order == InJobOrder(payload.unknown \cap remaining)
           renamed == MissLoop(order, Ledger)
           fatal == IF payload.fatal THEN MassSkip(renamed, Test, TRUE) ELSE renamed
           hook == MassSkip(fatal, payload.skip, FALSE)
           blamed == IF current # NoTest THEN {current} ELSE Test
           end == IF payload.unexpected THEN MassSkip(hook, blamed, TRUE) ELSE hook
<1>1. Settled(payload) = end
  BY DEF Settled, ForEach, MissLoop, MissStep
<1>2. job \in Seq(Test) /\ remaining \subseteq ToSet(job) /\ Ledger.remaining = remaining
      /\ Ledger.results = results /\ Ledger.count = failedCount
  BY DEF TypeOK, Ledger
<1>3. order \in Seq(Test) /\ ToSet(order) = payload.unknown \cap remaining
      /\ (IsInjective(job) => IsInjective(order))
  <2>1. order \in Seq(Test) /\ ToSet(order) = ToSet(job) \cap (payload.unknown \cap remaining)
        /\ (IsInjective(job) => IsInjective(order))
    BY <1>2, JobOrderFacts
  <2> QED
    BY <1>2, <2>1
<1> HIDE DEF order
<1>4. Ledger \in Ledgers
  BY DEF LedgerOK
<1>5. renamed \in Ledgers /\ ClosesAll(order, Ledger, renamed)
  BY <1>3, <1>4, MissLoopCloses
<1> HIDE DEF renamed
<1>6. LedgerOK(renamed) /\ (LedgerExact(Ledger) /\ IsInjective(order) => LedgerExact(renamed))
  BY <1>2, <1>3, <1>5, LoopKeeps
<1>7. \A t \in Test \ payload.unknown : renamed.results[t] = results[t]
  BY <1>2, <1>3, <1>4, <1>5, LoopLeaves
<1>8. ReachedMaxFailures(failedCount) => ReachedMaxFailures(renamed.count)
  BY <1>6, LedgerReached
<1>9. /\ LedgerOK(fatal) /\ (LedgerExact(renamed) /\ IsInjective(job) => LedgerExact(fatal))
      /\ ReachedMaxFailures(renamed.count) => fatal.results = renamed.results
  BY <1>6, MassSkipFacts
<1>10. ReachedMaxFailures(failedCount) => ReachedMaxFailures(fatal.count)
  BY <1>9, LedgerReached
<1> HIDE DEF fatal
<1>11. /\ LedgerOK(hook) /\ (LedgerExact(fatal) /\ IsInjective(job) => LedgerExact(hook))
       /\ ReachedMaxFailures(fatal.count) => hook.results = fatal.results
  BY <1>9, MassSkipFacts
<1>12. ReachedMaxFailures(failedCount) => ReachedMaxFailures(hook.count)
  BY <1>11, LedgerReached
<1> HIDE DEF hook, blamed
<1>13. /\ LedgerOK(end) /\ (LedgerExact(hook) /\ IsInjective(job) => LedgerExact(end))
       /\ ReachedMaxFailures(hook.count) => end.results = hook.results
       /\ payload.unexpected => end.remaining = hook.remaining \ blamed
  BY <1>11, MassSkipFacts
<1> HIDE DEF end
<1>14. payload.unexpected /\ current # NoTest => current \notin end.remaining
  BY <1>13 DEF blamed
<1> QED
  BY <1>1, <1>3, <1>6, <1>7, <1>8, <1>9, <1>10, <1>11, <1>12, <1>13, <1>14

(***************************************************************************)
(* The invariant: what is on the wire.                                     *)
(***************************************************************************)
(* The worker has a test from testBegin to testEnd.                          *)
WorkerTestOK == worker.phase \in {"test", "tail"} => worker.test \in Test

(* Between jobs there is no worker and nothing is known of tests.            *)
IdleOK ==
  phase # "running" =>
    /\ worker = NoWorker /\ wire = <<>>
    /\ job = <<>> /\ remaining = {} /\ begun = {} /\ failed = {} /\ nonRetriable = {}
    /\ current = NoTest

(* One test at most has begun: the current one.                              *)
BegunOK == begun = (IF current = NoTest THEN {} ELSE {current}) /\ begun \subseteq remaining

MayFollow(a, b) ==
  \/ a.method = "testBegin" /\ b.method = "testEnd" /\ b.test = a.test
  \/ a.method = "testEnd" /\ b.method \in {"testBegin", "done"}
  \/ a.method # "exit" /\ b.method = "exit"

Shaped(w) == \A i \in 1..(Len(w) - 1) : MayFollow(w[i], w[i + 1])

WireShape == Shaped(wire)

(* The next message fits what was handled.                                   *)
WireHead ==
  wire # <<>> =>
    /\ wire[1].method = "testEnd" => begun \subseteq {wire[1].test}
    /\ wire[1].method \in {"testBegin", "done"} => begun = {}

(* The last message fits what the worker is at.                              *)
WireEnd ==
  phase = "running" =>
    /\ worker.phase \in {"test", "tail"} =>
         \/ wire = <<>> /\ begun \subseteq {worker.test}
         \/ wire # <<>> /\ wire[Len(wire)].method = "testBegin" /\ wire[Len(wire)].test = worker.test
    /\ worker.phase \in {"loading", "between"} =>
         \/ wire = <<>> /\ begun = {}
         \/ wire # <<>> /\ wire[Len(wire)].method = "testEnd"
    /\ worker.phase = "idle" => wire # <<>> /\ wire[Len(wire)].method = "done"
    /\ worker.phase = "none" => wire # <<>> /\ wire[Len(wire)].method = "exit"

(* A process that exits unasked is reported as such, and no message says it  *)
(* of one that did not.                                                      *)
ExitsOK ==
  /\ worker.asked => stopped /\ worker.phase # "none"
  /\ \A i \in DOMAIN wire :
       /\ wire[i].method = "exit" =>
            /\ \/ stopped
               \/ wire[i].payload.unexpected
            /\ wire[i].payload.unknown = {}
       /\ wire[i].method = "done" => ~wire[i].payload.unexpected

WireOK == WorkerTestOK /\ IdleOK /\ BegunOK /\ WireShape /\ WireHead /\ WireEnd /\ ExitsOK

(***************************************************************************)
(* The invariant: the results.                                             *)
(***************************************************************************)
(* The failure that reaches maxFailures stops the run.                       *)
MaxStops == ReachedMaxFailures(failedCount) => stopped

(* A result is open while its test is running.                               *)
OpenOK ==
  IF phase = "over" THEN NoResultLeftOpen
  ELSE \A t \in Test : \A i \in DOMAIN results[t] :
         results[t][i] = "started" => i = Len(results[t]) /\ t \in begun

FailedOK == failed \subseteq ToSet(job) /\ failed \cap remaining = {}

(* What holds for any suites and settings.                                   *)
Inv == TypeOK /\ WireOK /\ MaxStops /\ OpenOK /\ FailedOK

(***************************************************************************)
(* The invariant: the jobs, and how often tests run.                       *)
(***************************************************************************)
(* The tests of a queue; of a set of tests that wait, all are in one job.    *)
AllOf(jobs) == UNION {ToSet(jobs[i]) : i \in DOMAIN jobs}
InOne(jobs, S) ==
  \A i, k \in DOMAIN jobs : ToSet(jobs[i]) \cap S # {} /\ ToSet(jobs[k]) \cap S # {} => i = k
EachOnce(jobs) ==
  /\ \A i \in DOMAIN jobs : IsInjective(jobs[i])
  /\ \A t \in Test : InOne(jobs, {t})

(* The tests that are still to run.                                          *)
Waiting == AllOf(queue) \cup (remaining \ begun)

JobsOK == EachOnce(queue) /\ AllOf(queue) \cap ToSet(job) = {} /\ IsInjective(job)

(* Immediate retries leave one job at a time.                                *)
OneJob == ~Isolated => Len(queue) <= 1 /\ (phase = "running" => queue = <<>>)

(* A serial suite is in one job.                                             *)
SuiteWhole ==
  Isolated =>
    \A suite \in SerialSuite :
      /\ InOne(queue, suite)
      /\ ToSet(job) \cap suite # {} => AllOf(queue) \cap suite = {}

(* No test of a sequence of messages ends for good.                          *)
Retriable(w) == \A i \in DOMAIN w : w[i].method = "testEnd" => ~w[i].nonRetriable

(* No snapshot is missing unless it can be.                                  *)
SnapshotsOK ==
  "snapshot" \notin Faults => nonRetriable = {} /\ ~worker.nonRetriable /\ Retriable(wire)

LogsOK ==
  /\ \A t \in Test : Len(results[t]) <= Retries[t] + 1
  /\ \A t \in Waiting : Len(results[t]) <= Retries[t]
  /\ phase = "running" => \A t \in begun : results[t] # <<>> /\ Last(results[t]) = "started"

CountOK == failedCount = elsewhere + Cardinality(Finals(results, expected))

ExactOK == JobsOK /\ OneJob /\ SuiteWhole /\ LogsOK /\ CountOK

IInv == Inv /\ SnapshotsOK /\ (MayComeApart \/ ExactOK)

(***************************************************************************)
(* Init and the steps of the worker.                                       *)
(***************************************************************************)
LEMMA NoWorkerFacts ==
  NoWorker \in Worker /\ NoWorker.phase = "none" /\ NoWorker.asked = FALSE
BY DEF NoWorker, Worker, Status

LEMMA MessageFacts ==
  /\ \A t \in Test : BeginMessage(t) \in Message /\ BeginMessage(t).method = "testBegin" /\ BeginMessage(t).test = t
  /\ \A t \in Test : \A status \in Status : \A expects \in Expects : \A final \in BOOLEAN :
       /\ EndMessage(t, status, expects, final) \in Message
       /\ EndMessage(t, status, expects, final).method = "testEnd"
       /\ EndMessage(t, status, expects, final).test = t
       /\ EndMessage(t, status, expects, final).nonRetriable = final
  /\ \A payload \in Payload : \A method \in {"done", "exit"} :
       /\ DoneMessage(method, payload) \in Message
       /\ DoneMessage(method, payload).method = method
       /\ DoneMessage(method, payload).payload = payload
BY DEF BeginMessage, EndMessage, DoneMessage, Message, Expects

LEMMA MessageParts ==
  ASSUME NEW m \in Message
  PROVE  /\ m.method \in {"testBegin", "testEnd", "done", "exit"}
         /\ m.method \in {"testBegin", "testEnd"} => m.test \in Test
         /\ m.method = "testEnd" => m.status \in Status /\ m.expected \in Expects /\ m.nonRetriable \in BOOLEAN
         /\ m.method \in {"done", "exit"} => m.payload \in Payload
BY DEF Message, Expects

LEMMA SendFacts ==
  ASSUME NEW w \in Seq(Message), Shaped(w), NEW m \in Message, w = <<>> \/ MayFollow(w[Len(w)], m)
  PROVE  /\ w \o <<m>> \in Seq(Message) /\ w \o <<m>> # <<>>
         /\ Len(w \o <<m>>) = Len(w) + 1
         /\ Shaped(w \o <<m>>)
         /\ (w \o <<m>>)[1] = IF w = <<>> THEN m ELSE w[1]
         /\ (w \o <<m>>)[Len(w) + 1] = m
         /\ \A i \in DOMAIN (w \o <<m>>) : (i \in DOMAIN w /\ (w \o <<m>>)[i] = w[i]) \/ (w \o <<m>>)[i] = m
<1>1. /\ w \o <<m>> \in Seq(Message) /\ Len(w \o <<m>>) = Len(w) + 1
      /\ \A i \in 1..Len(w) : (w \o <<m>>)[i] = w[i]
      /\ (w \o <<m>>)[Len(w) + 1] = m
      /\ DOMAIN (w \o <<m>>) = 1..(Len(w) + 1)
      /\ Len(w) \in Nat /\ DOMAIN w = 1..Len(w)
      /\ (w # <<>> => Len(w) > 0)
  OBVIOUS
<1> DEFINE v == w \o <<m>>
<1> HIDE DEF v
<1>2. Shaped(v)
  <2> SUFFICES ASSUME NEW i \in 1..(Len(v) - 1) PROVE MayFollow(v[i], v[i + 1])
    BY DEF Shaped
  <2>1. CASE i = Len(w)
    <3>1. v[i] = w[Len(w)] /\ v[i + 1] = m /\ w # <<>>
      BY <1>1, <2>1 DEF v
    <3> QED
      BY <3>1
  <2>2. CASE i \in 1..(Len(w) - 1)
    <3>1. i \in 1..Len(w) /\ i + 1 \in 1..Len(w)
      BY <1>1, <2>2
    <3>2. v[i] = w[i] /\ v[i + 1] = w[i + 1]
      BY <1>1, <3>1 DEF v
    <3> QED
      BY <2>2, <3>2 DEF Shaped
  <2>3. Len(v) = Len(w) + 1 /\ Len(w) \in Nat
    BY <1>1 DEF v
  <2>4. i = Len(w) \/ i \in 1..(Len(w) - 1)
    BY ONLY <2>3, i \in 1..(Len(v) - 1)
  <2> QED
    BY <2>1, <2>2, <2>4
<1> QED
  BY <1>1, <1>2 DEF v

LEMMA InitInv ==
  ASSUME Init
  PROVE  Inv
<1>1. Group \in SUBSET Test /\ Expected \in [Test -> {"passed", "failed", "skipped"}] /\ setting \in Setting
  BY SettingAssumption DEF Init, Group, Expected
<1>2. InFileOrder(Group) \in Seq(Test)
  BY <1>1, FileOrderFacts
<1>3. TypeOK
  <2>1. queue \in Seq(Seq(Test)) /\ job \in Seq(Test) /\ wire \in Seq(Message)
    BY <1>2 DEF Init
  <2>2. results \in [Test -> Seq(Status \cup {"started"})]
    BY DEF Init
  <2>3. worker \in Worker
    BY NoWorkerFacts DEF Init
  <2> QED
    BY <1>1, <2>1, <2>2, <2>3 DEF Init, TypeOK, ToSet
<1>4. WireOK
  BY NoWorkerFacts DEF Init, WireOK, WorkerTestOK, IdleOK, BegunOK, WireShape, Shaped, WireHead, WireEnd, ExitsOK
<1>5. MaxStops
  <2>1. MaxFailures \in Nat /\ failedCount = 0
    BY <1>1, MaxIsNumber DEF Init
  <2> QED
    BY <2>1 DEF MaxStops, ReachedMaxFailures
<1>6. OpenOK /\ FailedOK
  BY DEF Init, OpenOK, FailedOK
<1> QED
  BY <1>3, <1>4, <1>5, <1>6 DEF Inv

LEMMA WorkerIsRunning ==
  ASSUME WireOK, worker.phase # "none"
  PROVE  phase = "running"
BY NoWorkerFacts DEF WireOK, IdleOK

(* Steps of the worker only have to keep to the protocol of the wire.        *)
LEMMA WorkerStepKeeps ==
  ASSUME Inv, UNCHANGED <<runner_vars, setting>>, phase = "running",
         worker' \in Worker, wire' \in Seq(Message),
         WorkerTestOK', WireShape', WireHead', WireEnd', ExitsOK'
  PROVE  Inv'
<1> USE DEF runner_vars, job_vars, report_vars
<1>1. TypeOK'
  BY DEF Inv, TypeOK
<1>2. WireOK'
  BY DEF Inv, WireOK, IdleOK, BegunOK
<1>3. MaxStops' /\ FailedOK'
  BY DEF Inv, MaxStops, FailedOK, ReachedMaxFailures, MaxFailures
<1>4. OpenOK'
  BY DEF Inv, OpenOK, NoResultLeftOpen
<1> QED
  BY <1>1, <1>2, <1>3, <1>4 DEF Inv

(* Those that send nothing.                                                  *)
LEMMA QuietStepKeeps ==
  ASSUME Inv, UNCHANGED <<runner_vars, wire, setting>>, phase = "running", worker' \in Worker,
         worker'.asked = worker.asked,
         \/ worker.phase \in {"loading", "between"} /\ worker'.phase \in {"loading", "between"}
         \/ worker.phase \in {"test", "tail"} /\ worker'.phase \in {"test", "tail"} /\ worker'.test = worker.test
         \/ worker'.phase = worker.phase /\ worker'.test = worker.test
  PROVE  Inv'
<1> USE DEF runner_vars, job_vars, report_vars
<1>1. WorkerTestOK' /\ WireShape' /\ WireHead' /\ ExitsOK'
  BY DEF Inv, WireOK, WorkerTestOK, WireShape, WireHead, ExitsOK
<1>2. WireEnd'
  BY DEF Inv, WireOK, WireEnd
<1>3. wire' \in Seq(Message)
  BY DEF Inv, TypeOK
<1> QED
  BY <1>1, <1>2, <1>3, WorkerStepKeeps

(* The worker's own records stay what they are.                              *)
LEMMA AfterTestFacts ==
  ASSUME NEW w \in Worker
  PROVE  /\ AfterTest(w) \in Worker /\ AfterTest(w).phase = "tail" /\ AfterTest(w).test = w.test
         /\ AfterTest(w).asked = w.asked /\ AfterTest(w).nonRetriable = w.nonRetriable
         /\ AfterTest(w).status = w.status /\ AfterTest(w).expected = w.expected /\ AfterTest(w).todo = w.todo
         /\ AfterTest(w).stopped = (w.stopped \/ w.status \notin {"skipped", w.expected})
         /\ AfterTest(w).cleaned = AfterTest(w).stopped /\ AfterTest(w).skip = w.skip
BY DEF AfterTest, Worker

LEMMA HooksFacts ==
  ASSUME NEW t
  PROVE  HooksOf(t) \subseteq SetupSuite /\ HooksOf(t) \subseteq SUBSET Test
BY SuiteAssumption DEF HooksOf

LEMMA QuietWorkerSteps ==
  ASSUME Inv, setting' = setting,
         \/ LoadFile \/ FinishTest \/ FailTest \/ FailForGood \/ SkipItself \/ FailHook
         \/ ThrowInTest \/ ThrowBetweenTests \/ ReceiveStop
  PROVE  Inv'
<1>1. worker \in Worker /\ WireOK /\ worker.test \in Test \cup {NoTest} /\ worker.hooked \subseteq SetupSuite
      /\ worker.skip \subseteq Test
  BY DEF Inv, TypeOK, Worker
<1>2. worker.asked => worker.phase # "none"
  BY <1>1 DEF WireOK, ExitsOK
<1> DEFINE Keeps == /\ UNCHANGED <<runner_vars, wire>> /\ worker.phase # "none" /\ worker' \in Worker
                    /\ worker'.asked = worker.asked
                    /\ \/ worker.phase \in {"loading", "between"} /\ worker'.phase \in {"loading", "between"}
                       \/ worker.phase \in {"test", "tail"} /\ worker'.phase \in {"test", "tail"}
                          /\ worker'.test = worker.test
                       \/ worker'.phase = worker.phase /\ worker'.test = worker.test
<1>3. CASE LoadFile
  <2>1. Keeps
    BY <1>1, <1>3 DEF LoadFile, Worker
  <2> QED
    BY <1>1, <2>1, QuietStepKeeps, WorkerIsRunning
<1>4. CASE FinishTest
  <2> DEFINE w == IF worker.status = "passed"
                  THEN [worker EXCEPT !.hooked = @ \cup HooksOf(worker.test)] ELSE worker
  <2>1. w \in Worker /\ w.test = worker.test /\ w.asked = worker.asked
    BY <1>1, HooksFacts DEF Worker
  <2>2. worker' = AfterTest(w) /\ worker.phase = "test" /\ UNCHANGED <<runner_vars, wire>>
    BY <1>4 DEF FinishTest
  <2> HIDE DEF w
  <2>3. Keeps
    BY <2>1, <2>2, AfterTestFacts
  <2> QED
    BY <1>1, <2>3, QuietStepKeeps, WorkerIsRunning
<1>5. CASE FailTest
  <2> DEFINE w == [worker EXCEPT !.status = "failed", !.hooked = @ \cup HooksOf(worker.test)]
  <2>1. w \in Worker /\ w.test = worker.test /\ w.asked = worker.asked
    BY <1>1, HooksFacts DEF Worker, Status
  <2>2. worker' = AfterTest(w) /\ worker.phase = "test" /\ UNCHANGED <<runner_vars, wire>>
    BY <1>5 DEF FailTest
  <2> HIDE DEF w
  <2>3. Keeps
    BY <2>1, <2>2, AfterTestFacts
  <2> QED
    BY <1>1, <2>3, QuietStepKeeps, WorkerIsRunning
<1>6. CASE FailForGood
  <2> DEFINE w == [worker EXCEPT !.status = "failed", !.nonRetriable = TRUE,
                                 !.hooked = @ \cup HooksOf(worker.test)]
  <2>1. w \in Worker /\ w.test = worker.test /\ w.asked = worker.asked
    BY <1>1, HooksFacts DEF Worker, Status
  <2>2. worker' = AfterTest(w) /\ worker.phase = "test" /\ UNCHANGED <<runner_vars, wire>>
    BY <1>6 DEF FailForGood
  <2> HIDE DEF w
  <2>3. Keeps
    BY <2>1, <2>2, AfterTestFacts
  <2> QED
    BY <1>1, <2>3, QuietStepKeeps, WorkerIsRunning
<1>7. CASE SkipItself
  <2> DEFINE w == [worker EXCEPT !.status = "skipped", !.expected = "skipped",
                                 !.hooked = @ \cup HooksOf(worker.test)]
  <2>1. w \in Worker /\ w.test = worker.test /\ w.asked = worker.asked
    BY <1>1, HooksFacts DEF Worker, Status
  <2>2. worker' = AfterTest(w) /\ worker.phase = "test" /\ UNCHANGED <<runner_vars, wire>>
    BY <1>7 DEF SkipItself
  <2> HIDE DEF w
  <2>3. Keeps
    BY <2>1, <2>2, AfterTestFacts
  <2> QED
    BY <1>1, <2>3, QuietStepKeeps, WorkerIsRunning
<1>8. CASE FailHook
  <2>1. PICK suite \in HooksOf(worker.test) \ worker.hooked :
          worker' = AfterTest([worker EXCEPT !.status = "failed",
                                             !.skip = IF @ = {} THEN suite ELSE @,
                                             !.hooked = @ \cup HooksOf(worker.test)])
    BY <1>8 DEF FailHook
  <2> DEFINE skip == IF worker.skip = {} THEN suite ELSE worker.skip
             hooked == worker.hooked \cup HooksOf(worker.test)
             w == [worker EXCEPT !.status = "failed", !.skip = skip, !.hooked = hooked]
  <2>5. suite \subseteq Test /\ hooked \in SUBSET SetupSuite
    BY <1>1, HooksFacts
  <2>6. skip \in SUBSET Test
    BY <1>1, <2>5
  <2>3. worker' = AfterTest(w) /\ worker.phase = "test" /\ UNCHANGED <<runner_vars, wire>>
    <3>1. worker' = AfterTest(w)
      BY <2>1
    <3>2. worker.phase = "test" /\ UNCHANGED <<runner_vars, wire>>
      BY <1>8, Zenon DEF FailHook
    <3> QED
      BY <3>1, <3>2
  <2> HIDE DEF skip, hooked
  <2>2. w \in Worker /\ w.test = worker.test /\ w.asked = worker.asked
    BY <1>1, <2>5, <2>6 DEF Worker, Status
  <2> HIDE DEF w
  <2>4. Keeps
    BY <2>2, <2>3, AfterTestFacts
  <2> QED
    BY <1>1, <2>4, QuietStepKeeps, WorkerIsRunning
<1>9. CASE ThrowInTest
  <2>1. Keeps
    BY <1>1, <1>9 DEF ThrowInTest, Worker, Status
  <2> QED
    BY <1>1, <2>1, QuietStepKeeps, WorkerIsRunning
<1>10. CASE ThrowBetweenTests
  <2>1. Keeps
    BY <1>1, <1>10 DEF ThrowBetweenTests, Worker
  <2> QED
    BY <1>1, <2>1, QuietStepKeeps, WorkerIsRunning
<1>11. CASE ReceiveStop
  <2>1. Keeps
    BY <1>1, <1>2, <1>11 DEF ReceiveStop, Worker, Status
  <2> QED
    BY <1>1, <2>1, QuietStepKeeps, WorkerIsRunning
<1> QED
  BY <1>3, <1>4, <1>5, <1>6, <1>7, <1>8, <1>9, <1>10, <1>11

FieldsOfInv ==
  Inv => /\ worker \in Worker /\ wire \in Seq(Message) /\ WireShape /\ WireHead /\ WireEnd /\ ExitsOK
         /\ WorkerTestOK /\ IdleOK /\ BegunOK /\ setting \in Setting

LEMMA InvFields == FieldsOfInv
BY DEF FieldsOfInv, Inv, TypeOK, WireOK

(* The first test of a worker.                                               *)
LEMMA FirstFacts ==
  ASSUME worker \in Worker, worker.todo # {}
  PROVE  /\ FirstOf(worker) \in worker.todo /\ FirstOf(worker) \in Test
         /\ \A t \in worker.todo : FirstOf(worker) <= t
<1>1. worker.todo \subseteq Test /\ worker.todo \in SUBSET Nat
  BY TestAssumption DEF Worker
<1> QED
  BY <1>1, MinFacts DEF FirstOf

LEMMA PassOverTestKeeps ==
  ASSUME Inv, setting' = setting, PassOverTest
  PROVE  Inv'
<1> DEFINE t == FirstOf(worker)
           b == BeginMessage(t)
           e == EndMessage(t, "skipped", "skipped", FALSE)
<1>1. /\ worker \in Worker /\ wire \in Seq(Message) /\ WireShape /\ WireHead /\ WireEnd /\ ExitsOK
      /\ WorkerTestOK /\ IdleOK /\ setting \in Setting
  BY InvFields DEF FieldsOfInv
<1>2. /\ worker.phase = "between" /\ worker.todo # {}
      /\ wire' = wire \o <<b, e>> /\ worker' = [worker EXCEPT !.todo = @ \ {t}]
      /\ UNCHANGED runner_vars
  BY DEF PassOverTest, KeepsRunning, Send
<1>3. phase = "running"
  BY <1>2, WorkerIsRunning DEF Inv
<1>4. t \in Test
  BY <1>1, <1>2, FirstFacts
<1>5. /\ b \in Message /\ b.method = "testBegin" /\ b.test = t
      /\ e \in Message /\ e.method = "testEnd" /\ e.test = t
  <2>1. b \in Message /\ b.method = "testBegin" /\ b.test = t
    BY <1>4, MessageFacts
  <2>2. e = [method |-> "testEnd", test |-> t, status |-> "skipped", expected |-> "skipped", nonRetriable |-> FALSE]
    BY DEF EndMessage
  <2> HIDE DEF b, e, t
  <2>3. e \in Message /\ e.method = "testEnd" /\ e.test = t
    BY <1>4, <2>2 DEF Message, Status
  <2> QED
    BY <2>1, <2>3
<1> HIDE DEF b, e, t
<1>6. wire = <<>> \/ MayFollow(wire[Len(wire)], b)
  BY <1>1, <1>2, <1>3, <1>5 DEF WireEnd, MayFollow
<1> DEFINE v == wire \o <<b>>
<1>7. /\ v \in Seq(Message) /\ v # <<>> /\ Len(v) = Len(wire) + 1 /\ Shaped(v)
      /\ v[1] = (IF wire = <<>> THEN b ELSE wire[1]) /\ v[Len(v)] = b
      /\ \A i \in DOMAIN v : (i \in DOMAIN wire /\ v[i] = wire[i]) \/ v[i] = b
  BY <1>1, <1>5, <1>6, SendFacts DEF WireShape
<1>8. wire' = v \o <<e>>
  <2>3. <<b>> \in Seq(Message) /\ <<e>> \in Seq(Message)
    BY <1>5
  <2>4. Append(<<b>>, e) = <<b>> \o <<e>>
    BY <1>5, <2>3, AppendIsConcat
  <2>5. <<b, e>> = Append(<<b>>, e)
    <3>1. /\ Append(<<b>>, e) \in Seq(Message) /\ Len(Append(<<b>>, e)) = 2
          /\ Append(<<b>>, e)[1] = b /\ Append(<<b>>, e)[2] = e
      BY <1>5, <2>3, AppendProperties
    <3>2. <<b, e>> \in Seq(Message) /\ Len(<<b, e>>) = 2
      BY <1>5
    <3> QED
      BY <3>1, <3>2, SeqEqual
  <2>1. <<b, e>> = <<b>> \o <<e>> /\ <<b>> \in Seq(Message) /\ <<e>> \in Seq(Message)
    BY <2>3, <2>4, <2>5
  <2>2. wire \o (<<b>> \o <<e>>) = (wire \o <<b>>) \o <<e>>
    BY <1>1, <2>1, ConcatAssociative
  <2> QED
    BY <1>2, <2>1, <2>2
<1> HIDE DEF v
<1>9. MayFollow(v[Len(v)], e)
  BY <1>5, <1>7 DEF MayFollow
<1>10. /\ wire' \in Seq(Message) /\ wire' # <<>> /\ Len(wire') = Len(v) + 1 /\ Shaped(wire')
       /\ wire'[1] = v[1] /\ wire'[Len(wire')] = e
       /\ \A i \in DOMAIN wire' : (i \in DOMAIN v /\ wire'[i] = v[i]) \/ wire'[i] = e
  BY <1>5, <1>7, <1>8, <1>9, SendFacts
<1>11. worker' \in Worker /\ worker'.phase = "between" /\ worker'.asked = worker.asked
  BY <1>1, <1>2 DEF Worker
<1>12. UNCHANGED <<phase, begun, stopped>>
  BY <1>2 DEF runner_vars, job_vars
<1>13. WorkerTestOK' /\ WireShape'
  BY <1>10, <1>11 DEF WorkerTestOK, WireShape
<1>14. WireHead'
  <2>1. CASE wire = <<>>
    <3>1. begun = {}
      BY <1>1, <1>2, <1>3, <2>1 DEF WireEnd
    <3> QED
      BY <1>12, <3>1 DEF WireHead
  <2>2. CASE wire # <<>>
    <3>1. wire'[1] = wire[1]
      BY <1>7, <1>10, <2>2
    <3> QED
      BY <1>1, <1>12, <2>2, <3>1 DEF WireHead
  <2> QED
    BY <2>1, <2>2
<1>15. WireEnd'
  BY <1>5, <1>10, <1>11 DEF WireEnd
<1>16. ExitsOK'
  BY <1>1, <1>2, <1>5, <1>7, <1>10, <1>11, <1>12 DEF ExitsOK
<1> QED
  BY <1>2, <1>3, <1>10, <1>11, <1>13, <1>14, <1>15, <1>16, WorkerStepKeeps

(* A step that sends one message.                                            *)
LEMMA SendingStepKeeps ==
  ASSUME Inv, UNCHANGED <<runner_vars, setting>>, worker.phase # "none", worker' \in Worker,
         NEW m, m \in Message, wire' = wire \o <<m>>, worker'.asked = worker.asked,
         \/ /\ worker.phase \in {"loading", "between"} /\ m.method = "testBegin"
            /\ worker'.phase = "test" /\ worker'.test = m.test
         \/ /\ worker.phase = "tail" /\ m.method = "testEnd" /\ worker.test = m.test
            /\ worker'.phase = "between"
         \/ /\ worker.phase \in {"loading", "between"} /\ m.method = "done" /\ ~m.payload.unexpected
            /\ worker'.phase = "idle"
  PROVE  Inv'
<1>1. /\ worker \in Worker /\ wire \in Seq(Message) /\ WireShape /\ WireHead /\ WireEnd /\ ExitsOK
      /\ WorkerTestOK /\ IdleOK /\ setting \in Setting
  BY InvFields DEF FieldsOfInv
<1>2. phase = "running"
  BY WorkerIsRunning DEF Inv
<1>3. wire = <<>> \/ MayFollow(wire[Len(wire)], m)
  BY <1>1, <1>2 DEF WireEnd, MayFollow
<1>4. /\ wire' \in Seq(Message) /\ wire' # <<>> /\ Len(wire') = Len(wire) + 1 /\ Shaped(wire')
      /\ wire'[1] = (IF wire = <<>> THEN m ELSE wire[1]) /\ wire'[Len(wire')] = m
      /\ \A i \in DOMAIN wire' : (i \in DOMAIN wire /\ wire'[i] = wire[i]) \/ wire'[i] = m
  BY <1>1, <1>3, SendFacts DEF WireShape
<1>5. UNCHANGED <<phase, begun, stopped>>
  BY DEF runner_vars, job_vars
<1>6. WorkerTestOK' /\ WireShape'
  BY <1>4, MessageParts DEF WorkerTestOK, WireShape
<1>7. WireHead'
  <2>1. CASE wire = <<>>
    BY <1>1, <1>2, <1>4, <1>5, <2>1 DEF WireEnd, WireHead
  <2>2. CASE wire # <<>>
    BY <1>1, <1>4, <1>5, <2>2 DEF WireHead
  <2> QED
    BY <2>1, <2>2
<1>8. WireEnd'
  BY <1>4 DEF WireEnd
<1>9. ExitsOK'
  BY <1>1, <1>4, <1>5 DEF ExitsOK
<1> QED
  BY <1>2, <1>4, <1>6, <1>7, <1>8, <1>9, WorkerStepKeeps

LEMMA BeginTestKeeps ==
  ASSUME Inv, setting' = setting, BeginTest
  PROVE  Inv'
<1> DEFINE t == FirstOf(worker)
<1>1. worker \in Worker /\ setting \in Setting
  BY InvFields DEF FieldsOfInv
<1>2. worker.phase = "between" /\ worker.todo # {} /\ wire' = wire \o <<BeginMessage(t)>> /\ UNCHANGED runner_vars
  BY DEF BeginTest, KeepsRunning, Send
<1>3. t \in Test
  BY <1>1, <1>2, FirstFacts
<1>4. Expected[t] \in {"passed", "failed", "skipped"}
  BY <1>1, <1>3, SettingAssumption DEF Expected
<1>5. worker' \in Worker /\ worker'.phase = "test" /\ worker'.test = t /\ worker'.asked = worker.asked
  <2>1. worker' = [worker EXCEPT !.phase = "test", !.todo = @ \ {t}, !.test = t, !.expected = Expected[t],
              !.nonRetriable = FALSE,
              !.status = IF worker.stopped \/ Expected[t] = "skipped" THEN "skipped" ELSE "passed"]
    BY DEF BeginTest
  <2> HIDE DEF t
  <2> QED
    BY <1>1, <1>3, <1>4, <2>1 DEF Worker, Status
<1>6. BeginMessage(t) \in Message /\ BeginMessage(t).method = "testBegin" /\ BeginMessage(t).test = t
  BY <1>3, MessageFacts
<1> HIDE DEF t
<1> QED
  BY <1>2, <1>5, <1>6, SendingStepKeeps

LEMMA EndTestKeeps ==
  ASSUME Inv, setting' = setting, EndTest
  PROVE  Inv'
<1> DEFINE m == EndMessage(worker.test, worker.status, worker.expected, worker.nonRetriable)
<1>1. worker \in Worker /\ WorkerTestOK
  BY InvFields DEF FieldsOfInv
<1>2. worker.phase = "tail" /\ wire' = wire \o <<m>> /\ UNCHANGED runner_vars
      /\ worker' = [worker EXCEPT !.phase = "between", !.test = NoTest]
  BY DEF EndTest, Send
<1>3. worker.test \in Test /\ worker.status \in Status /\ worker.expected \in Expects /\ worker.nonRetriable \in BOOLEAN
  BY <1>1, <1>2 DEF WorkerTestOK, Worker, Expects
<1>4. m \in Message /\ m.method = "testEnd" /\ m.test = worker.test
  BY <1>3, MessageFacts
<1>5. worker' \in Worker /\ worker'.phase = "between" /\ worker'.asked = worker.asked
  BY <1>1, <1>2 DEF Worker
<1> HIDE DEF m
<1> QED
  BY <1>2, <1>4, <1>5, SendingStepKeeps

LEMMA DoneKeeps ==
  ASSUME Inv, UNCHANGED <<runner_vars, setting>>, worker.phase \in {"loading", "between"},
         NEW w \in Worker, w.asked = worker.asked, NEW unknown \in SUBSET Test, Done(w, unknown)
  PROVE  Inv'
<1> DEFINE payload == [fatal |-> w.fatal, skip |-> w.skip \cap w.todo, unknown |-> unknown,
                       unhandled |-> w.unhandled, unexpected |-> FALSE]
           m == DoneMessage("done", payload)
<1>1. wire' = wire \o <<m>> /\ worker' = [w EXCEPT !.phase = "idle", !.fatal = FALSE, !.skip = {}]
  BY DEF Done, Send
<1>2. payload \in Payload
  BY DEF Payload, Worker
<1>3. m \in Message /\ m.method = "done" /\ m.payload.unexpected = FALSE
  BY <1>2, MessageFacts
<1>4. worker' \in Worker /\ worker'.phase = "idle" /\ worker'.asked = worker.asked
  BY <1>1 DEF Worker
<1> HIDE DEF m, payload
<1> QED
  BY <1>1, <1>3, <1>4, SendingStepKeeps

LEMMA DoneSteps ==
  ASSUME Inv, setting' = setting, FailToLoadFile \/ MissTests \/ FinishGroup
  PROVE  Inv'
<1>1. worker \in Worker
  BY InvFields DEF FieldsOfInv
<1>2. CASE FailToLoadFile
  <2> DEFINE w == [worker EXCEPT !.fatal = TRUE, !.stopped = TRUE]
  <2>1. w \in Worker /\ w.asked = worker.asked
    BY <1>1 DEF Worker
  <2>2. Done(w, {}) /\ worker.phase = "loading" /\ UNCHANGED runner_vars
    BY <1>2 DEF FailToLoadFile
  <2> HIDE DEF w
  <2> QED
    BY <2>1, <2>2, DoneKeeps
<1>3. CASE MissTests
  <2> DEFINE w == [worker EXCEPT !.stopped = TRUE]
  <2>1. w \in Worker /\ w.asked = worker.asked /\ worker.todo \subseteq Test
    BY <1>1 DEF Worker
  <2>2. PICK unknown \in SUBSET worker.todo \ {{}} : Done(w, unknown)
    BY <1>3 DEF MissTests
  <2>3. worker.phase = "loading" /\ UNCHANGED runner_vars /\ unknown \in SUBSET Test
    BY <1>3, <2>1, <2>2 DEF MissTests
  <2> HIDE DEF w
  <2> QED
    BY <2>1, <2>2, <2>3, DoneKeeps
<1>4. CASE FinishGroup
  BY <1>1, <1>4, DoneKeeps DEF FinishGroup
<1> QED
  BY <1>2, <1>3, <1>4

LEMMA ProcessExitsKeeps ==
  ASSUME Inv, setting' = setting, ProcessExits
  PROVE  Inv'
<1>1. /\ worker \in Worker /\ wire \in Seq(Message) /\ WireShape /\ WireHead /\ WireEnd /\ ExitsOK
  BY InvFields DEF FieldsOfInv
<1>2. worker.phase # "none" /\ worker' = NoWorker /\ UNCHANGED runner_vars
  BY DEF ProcessExits
<1>3. phase = "running"
  BY <1>2, WorkerIsRunning DEF Inv
<1> DEFINE payload == [Nothing EXCEPT !.unexpected = ~worker.asked]
           m == DoneMessage("exit", payload)
<1>4. payload \in Payload /\ payload.unknown = {} /\ payload.unexpected = ~worker.asked
  BY <1>1 DEF Payload, Nothing, Worker
<1>5. m \in Message /\ m.method = "exit" /\ m.payload = payload
  BY <1>4, MessageFacts
<1>6. PICK n \in 0..Len(wire) : wire' = Append(SubSeq(wire, 1, n), m)
  BY DEF ProcessExits
<1> HIDE DEF m, payload
<1> DEFINE w == SubSeq(wire, 1, n)
<1>7. /\ w \in Seq(Message) /\ Len(w) = n /\ n \in Nat /\ \A i \in 1..n : w[i] = wire[i] /\ i \in DOMAIN wire
  BY <1>1
<1>8. wire' = w \o <<m>>
  BY <1>5, <1>6, <1>7
<1> HIDE DEF w
<1>9. Shaped(w)
  <2> SUFFICES ASSUME NEW i \in 1..(Len(w) - 1) PROVE MayFollow(w[i], w[i + 1])
    BY DEF Shaped
  <2>1. i \in 1..n /\ i + 1 \in 1..n /\ i \in 1..(Len(wire) - 1)
    BY <1>1, <1>7
  <2>2. w[i] = wire[i] /\ w[i + 1] = wire[i + 1]
    BY <1>7, <2>1
  <2> QED
    BY <1>1, <2>1, <2>2 DEF WireShape, Shaped
<1>10. w = <<>> \/ MayFollow(w[Len(w)], m)
  <2> SUFFICES ASSUME w # <<>> PROVE w[n].method # "exit"
    BY <1>5, <1>7 DEF MayFollow
  <2>1. n \in 1..Len(wire) /\ w[n] = wire[n]
    BY <1>7
  <2>2. CASE n = Len(wire)
    <3>1. wire[Len(wire)].method # "exit"
      <4>1. wire # <<>> /\ worker.phase \in {"test", "tail", "loading", "between", "idle"}
        BY <1>1, <1>2, <2>1 DEF Worker
      <4> QED
        BY <1>1, <1>3, <4>1 DEF WireEnd
    <3> QED
      BY <2>1, <2>2, <3>1
  <2>3. CASE n \in 1..(Len(wire) - 1)
    BY <1>1, <2>1, <2>3 DEF WireShape, Shaped, MayFollow
  <2> QED
    BY <2>1, <2>2, <2>3
<1>11. /\ wire' \in Seq(Message) /\ wire' # <<>> /\ Len(wire') = n + 1 /\ Shaped(wire')
       /\ wire'[1] = (IF w = <<>> THEN m ELSE w[1]) /\ wire'[Len(wire')] = m
       /\ \A i \in DOMAIN wire' : (i \in DOMAIN w /\ wire'[i] = w[i]) \/ wire'[i] = m
  BY <1>5, <1>7, <1>8, <1>9, <1>10, SendFacts
<1>12. UNCHANGED <<phase, begun, stopped>>
  BY <1>2 DEF runner_vars, job_vars
<1>13. WorkerTestOK' /\ WireShape'
  BY <1>2, <1>11, NoWorkerFacts DEF WorkerTestOK, WireShape
<1>14. WireHead'
  <2>1. CASE w = <<>>
    BY <1>5, <1>11, <2>1 DEF WireHead
  <2>2. CASE w # <<>>
    <3>1. wire'[1] = wire[1] /\ wire # <<>>
      BY <1>7, <1>11, <2>2
    <3> QED
      BY <1>1, <1>12, <3>1 DEF WireHead
  <2> QED
    BY <2>1, <2>2
<1>15. WireEnd'
  BY <1>2, <1>5, <1>11, NoWorkerFacts DEF WireEnd
<1>16. ExitsOK'
  <2>1. ASSUME NEW i \in DOMAIN wire', wire'[i] # m
        PROVE  i \in DOMAIN wire /\ wire'[i] = wire[i]
    BY <1>7, <1>11, <2>1
  <2>2. ~worker'.asked
    BY <1>2, NoWorkerFacts
  <2>3. m.payload.unexpected \/ stopped
    BY <1>1, <1>4, <1>5 DEF ExitsOK
  <2> QED
    BY <1>1, <1>4, <1>5, <1>12, <2>1, <2>2, <2>3 DEF ExitsOK
<1> QED
  BY <1>2, <1>3, <1>11, <1>13, <1>14, <1>15, <1>16, NoWorkerFacts, WorkerStepKeeps

(***************************************************************************)
(* The steps of the runner between jobs.                                   *)
(***************************************************************************)
LEMMA SkippedIsExpected ==
  ASSUME NEW log \in Seq(Status \cup {"started"})
  PROVE  Outcome(Append(log, "skipped"), "skipped") # "unexpected"
<1> DEFINE w == Append(log, "skipped")
           counted == {StatusOf(w[i]) : i \in DOMAIN w} \ {"interrupted"}
<1>1. Len(log) + 1 \in DOMAIN w /\ w[Len(log) + 1] = "skipped"
  BY DEF Status
<1>2. StatusOf("skipped") = "skipped"
  BY DEF StatusOf
<1>3. "skipped" \in counted
  BY <1>1, <1>2
<1>4. counted \cap {"skipped"} # {}
  BY <1>3
<1>5. Outcome(w, "skipped") =
        IF counted \ {"skipped", "skipped"} = {}
        THEN IF counted \cap {"skipped"} \subseteq {"skipped"} THEN "skipped" ELSE "expected"
        ELSE IF counted \cap {"skipped"} = {} THEN "unexpected" ELSE "flaky"
  BY DEF Outcome
<1> HIDE DEF counted
<1> QED
  BY <1>4, <1>5

LEMMA LedgerTyped ==
  ASSUME TypeOK
  PROVE  /\ Ledger \in Ledgers
         /\ Ledger.results = results /\ Ledger.expected = expected /\ Ledger.count = failedCount
         /\ Ledger.remaining = remaining /\ Ledger.failed = failed
BY DEF TypeOK, Ledger, Ledgers, Results, Expects, ToSet

LEMMA ReportFacts ==
  ASSUME TypeOK, NEW tests \in Seq(Test), \A i \in DOMAIN tests : expected[tests[i]] = "skipped",
         NEW m, ReportsAll(tests, Ledger, m)
  PROVE  /\ m.results \in Results /\ m.count = failedCount
         /\ \A t \in Test \ ToSet(tests) : m.results[t] = results[t]
         /\ \A t \in Test : \A i \in DOMAIN m.results[t] :
              (i \in DOMAIN results[t] /\ m.results[t][i] = results[t][i]) \/ m.results[t][i] = "skipped"
         /\ IsInjective(tests) => \A t \in ToSet(tests) : m.results[t] = Append(results[t], "skipped")
<1>1. PICK f \in [0..Len(tests) -> Ledgers] :
             /\ f[0] = Ledger /\ f[Len(tests)] = m
             /\ \A n \in 1..Len(tests) : Reports(f[n - 1], tests[n], f[n])
  BY DEF ReportsAll
<1> DEFINE N == Len(tests)
           Done0(k) == {tests[i] : i \in 1..k}
           Same(k) == /\ f[k].count = failedCount /\ f[k].expected = expected
                      /\ \A t \in Test \ Done0(k) : f[k].results[t] = results[t]
                      /\ \A t \in Test : \A i \in DOMAIN f[k].results[t] :
                           \/ i \in DOMAIN results[t] /\ f[k].results[t][i] = results[t][i]
                           \/ f[k].results[t][i] = "skipped"
           Once(k) == \A t \in Done0(k) : f[k].results[t] = Append(results[t], "skipped")
           P == {k \in 0..N : Same(k)}
           Q == {k \in 0..N : Once(k)}
<1>2. N \in Nat /\ DOMAIN tests = 1..N /\ \A n \in 1..N : tests[n] \in Test /\ expected[tests[n]] = "skipped"
  OBVIOUS
<1>3. Ledger.results = results /\ Ledger.expected = expected /\ Ledger.count = failedCount
  BY LedgerTyped
<1>4. Done0(0) = {} /\ \A k \in 0..N : k < N => Done0(k + 1) = Done0(k) \cup {tests[k + 1]}
  BY <1>2
<1>5. Done0(N) = ToSet(tests)
  BY <1>2 DEF ToSet
<1> HIDE DEF Done0, N
<1>6. 0 \in P
  BY <1>1, <1>2, <1>3
<1>7. ASSUME NEW k \in 0..N, k < N PROVE /\ k + 1 \in 0..N /\ tests[k + 1] \in Test
                                         /\ f[k] \in Ledgers /\ f[k + 1] \in Ledgers
                                         /\ Reports(f[k], tests[k + 1], f[k + 1])
  <2>1. k + 1 \in 1..N /\ k + 1 - 1 = k /\ k + 1 \in 0..N
    BY <1>2, <1>7
  <2> QED
    BY <1>1, <1>2, <2>1 DEF N
<1>8. ASSUME NEW k \in 0..N, k \in P, k < N PROVE k + 1 \in P
  <2> DEFINE u == tests[k + 1]
             log == f[k].results[u]
  <2>1. /\ k + 1 \in 0..N /\ u \in Test /\ f[k] \in Ledgers /\ f[k + 1] \in Ledgers
        /\ Reports(f[k], u, f[k + 1]) /\ Same(k)
    BY <1>7, <1>8
  <2>2. expected[u] = "skipped"
    <3>1. k + 1 \in 1..N
      BY <1>2, <1>8
    <3> QED
      BY <1>2, <3>1
  <2> HIDE DEF u
  <2>3. log \in Seq(Status \cup {"started"})
    BY <2>1 DEF Ledgers, Results
  <2>4. /\ f[k + 1].results = [f[k].results EXCEPT ![u] = Append(log, "skipped")]
        /\ f[k + 1].expected = expected
        /\ f[k + 1].count = IF Final(f[k + 1].results[u], "skipped", u) THEN f[k].count + 1 ELSE f[k].count
    BY <2>1, <2>2 DEF Reports
  <2>5. /\ f[k + 1].results[u] = Append(log, "skipped")
        /\ \A t \in Test : t # u => f[k + 1].results[t] = f[k].results[t]
    BY <2>1, <2>4 DEF Ledgers, Results
  <2>6. ~Final(f[k + 1].results[u], "skipped", u)
    BY <2>3, <2>5, SkippedIsExpected DEF Final
  <2>7. f[k + 1].count = failedCount
    BY <2>1, <2>4, <2>6
  <2>8. \A t \in Test \ Done0(k + 1) : f[k + 1].results[t] = results[t]
    BY <1>4, <1>8, <2>1, <2>5 DEF u
  <2>9. ASSUME NEW t \in Test, NEW i \in DOMAIN f[k + 1].results[t]
        PROVE  \/ i \in DOMAIN results[t] /\ f[k + 1].results[t][i] = results[t][i]
               \/ f[k + 1].results[t][i] = "skipped"
    <3>1. CASE t # u
      BY <2>1, <2>5, <2>9, <3>1
    <3>2. CASE t = u
      <4>3. "skipped" \in Status \cup {"started"}
        BY DEF Status
      <4>1. /\ Append(log, "skipped")[Len(log) + 1] = "skipped"
            /\ \A n \in DOMAIN Append(log, "skipped") :
                 n = Len(log) + 1 \/ (n \in DOMAIN log /\ Append(log, "skipped")[n] = log[n])
        <5> HIDE DEF log
        <5> QED
          BY ONLY <2>3, <4>3, AppendFacts
      <4>2. i \in DOMAIN Append(log, "skipped")
        BY <2>5, <2>9, <3>2
      <4> QED
        BY <2>1, <2>5, <3>2, <4>1, <4>2
    <3> QED
      BY <3>1, <3>2
  <2> QED
    BY <2>1, <2>4, <2>7, <2>8, <2>9
<1>9. \A k \in 0..N : k \in P
  <2> HIDE DEF P
  <2> QED
    BY <1>2, <1>6, <1>8, UpTo
<1>10. ASSUME IsInjective(tests) PROVE \A t \in Done0(N) : f[N].results[t] = Append(results[t], "skipped")
  <2>1. 0 \in Q
    BY <1>2, <1>4
  <2>2. ASSUME NEW k \in 0..N, k \in Q, k < N PROVE k + 1 \in Q
    <3> DEFINE u == tests[k + 1]
    <3>1. /\ k + 1 \in 0..N /\ u \in Test /\ f[k] \in Ledgers
          /\ Reports(f[k], u, f[k + 1]) /\ Same(k)
      BY <1>7, <1>9, <2>2
    <3>2. u \notin Done0(k)
      BY <1>2, <1>10, <2>2 DEF IsInjective, Done0
    <3> HIDE DEF u
    <3>3. f[k + 1].results[u] = Append(results[u], "skipped")
      BY <3>1, <3>2 DEF Reports, Ledgers, Results
    <3>4. \A t \in Test : t # u => f[k + 1].results[t] = f[k].results[t]
      BY <3>1 DEF Reports, Ledgers, Results
    <3>5. Done0(k + 1) = Done0(k) \cup {u} /\ Done0(k) \subseteq Test
      BY <1>2, <1>4, <2>2 DEF u, Done0
    <3>6. Once(k + 1)
      BY <2>2, <3>3, <3>4, <3>5
    <3> QED
      BY <3>1, <3>6
  <2>3. \A k \in 0..N : k \in Q
    <3> HIDE DEF Q
    <3> QED
      BY <1>2, <2>1, <2>2, UpTo
  <2> QED
    BY <1>2, <2>3
<1>11. N \in P /\ f[N] = m /\ m \in Ledgers
  BY <1>1, <1>2, <1>9 DEF N
<1> QED
  BY <1>5, <1>10, <1>11 DEF Ledgers

SkipWholeJobWith(after) ==
  results' = after.results /\ failedCount' = after.count

LEMMA SkipWholeJobDoes ==
  ASSUME TypeOK, SkipWholeJob
  PROVE  /\ \E after \in Ledgers : ReportsAll(Head(queue), Ledger, after) /\ SkipWholeJobWith(after)
         /\ Head(queue) \in Seq(Test) /\ queue' = Tail(queue) /\ queue # <<>>
         /\ \A i \in DOMAIN Head(queue) : expected[Head(queue)[i]] = "skipped"
<1>1. queue # <<>> /\ \A i \in DOMAIN Head(queue) : expected[Head(queue)[i]] = "skipped"
  BY DEF SkipWholeJob, SkipsWholeJob, AllSkipped
<1>2. Head(queue) \in Seq(Test) /\ Ledger \in Ledgers
  BY <1>1, LedgerTyped DEF TypeOK
<1> DEFINE after == ReportLoop(Head(queue), Ledger)
<1>3. after \in Ledgers /\ ReportsAll(Head(queue), Ledger, after)
  BY <1>2, ReportLoopReports
<1>4. results' = after.results /\ failedCount' = after.count
  BY DEF SkipWholeJob, ForEach, ReportLoop, ReportStep
<1> HIDE DEF after
<1> QED
  BY <1>1, <1>2, <1>3, <1>4 DEF SkipWholeJob, SkipWholeJobWith

LEMMA SkipWholeJobKeeps ==
  ASSUME Inv, setting' = setting, SkipWholeJob
  PROVE  Inv'
<1>1. TypeOK
  BY DEF Inv
<1>2. PICK after \in Ledgers : ReportsAll(Head(queue), Ledger, after) /\ SkipWholeJobWith(after)
  BY <1>1, SkipWholeJobDoes
<1>3. /\ Head(queue) \in Seq(Test) /\ queue' = Tail(queue) /\ queue # <<>>
      /\ \A i \in DOMAIN Head(queue) : expected[Head(queue)[i]] = "skipped"
  BY <1>1, SkipWholeJobDoes
<1>4. /\ results' \in Results /\ failedCount' = failedCount
      /\ \A t \in Test : \A i \in DOMAIN results'[t] :
           (i \in DOMAIN results[t] /\ results'[t][i] = results[t][i]) \/ results'[t][i] = "skipped"
  BY <1>1, <1>2, <1>3, ReportFacts DEF SkipWholeJobWith
<1>5. UNCHANGED <<phase, job_vars, expected, workerErrors, elsewhere, stopped, worker, wire>> /\ phase = "idle"
  BY DEF SkipWholeJob
<1>6. TypeOK'
  BY <1>1, <1>3, <1>4, <1>5 DEF TypeOK, job_vars, Results
<1>7. WireOK'
  BY <1>5 DEF Inv, WireOK, WorkerTestOK, IdleOK, BegunOK, WireShape, WireHead, WireEnd, ExitsOK, job_vars
<1>8. MaxStops' /\ FailedOK'
  BY <1>4, <1>5 DEF Inv, MaxStops, FailedOK, ReachedMaxFailures, MaxFailures, job_vars
<1>9. OpenOK'
  BY <1>4, <1>5 DEF Inv, WireOK, IdleOK, OpenOK, job_vars
<1> QED
  BY <1>6, <1>7, <1>8, <1>9 DEF Inv

LEMMA StartJobFacts ==
  ASSUME Inv, setting' = setting, StartJob
  PROVE  /\ queue # <<>> /\ phase = "idle" /\ phase' = "running" /\ queue' \in Seq(Seq(Test))
         /\ job' \in Seq(Test) /\ job' = Head(queue) /\ queue' = Tail(queue) /\ remaining' = ToSet(job')
         /\ begun' = {} /\ failed' = {} /\ nonRetriable' = {} /\ current' = NoTest
         /\ UNCHANGED <<report_vars, elsewhere, stopped>> /\ ~stopped
         /\ ToSet(job') \subseteq Test
BY DEF StartJob, Inv, TypeOK, ToSet

LEMMA StartsKeep ==
  ASSUME Inv, setting' = setting, RunInWorker \/ WorkerDoesNotStart
  PROVE  Inv'
<1>1. StartJob
  BY DEF RunInWorker, WorkerDoesNotStart
<1>2. /\ queue # <<>> /\ phase = "idle" /\ phase' = "running" /\ queue' \in Seq(Seq(Test))
      /\ job' \in Seq(Test) /\ job' = Head(queue) /\ remaining' = ToSet(job')
      /\ begun' = {} /\ failed' = {} /\ nonRetriable' = {} /\ current' = NoTest
      /\ UNCHANGED <<report_vars, elsewhere, stopped>>
      /\ ToSet(job') \subseteq Test
  BY <1>1, StartJobFacts
<1>3. /\ worker' \in Worker /\ wire' \in Seq(Message) /\ worker'.asked = FALSE
      /\ \/ worker'.phase = "loading" /\ wire' = <<>>
         \/ /\ worker'.phase = "none" /\ Len(wire') = 1
            /\ wire'[1].method = "exit" /\ wire'[1].payload.unexpected /\ wire'[1].payload.unknown = {}
  <2>1. CASE RunInWorker
    <3>1. worker' = [NoWorker EXCEPT !.phase = "loading", !.todo = ToSet(job')] /\ wire' = <<>>
      BY <1>2, <2>1 DEF RunInWorker
    <3>2. worker' \in Worker /\ worker'.asked = FALSE /\ worker'.phase = "loading"
      BY <1>2, <3>1, NoWorkerFacts DEF Worker
    <3>3. wire' \in Seq(Message) /\ wire' = <<>>
      BY <3>1
    <3> QED
      BY <3>2, <3>3
  <2>2. CASE WorkerDoesNotStart
    <3> DEFINE payload == [Nothing EXCEPT !.unexpected = TRUE]
               m == DoneMessage("exit", payload)
    <3>1. payload \in Payload /\ payload.unexpected /\ payload.unknown = {}
      BY DEF Payload, Nothing
    <3>2. m \in Message /\ m.method = "exit" /\ m.payload = payload
      BY <3>1, MessageFacts
    <3>3. worker' = NoWorker /\ wire' = <<m>>
      BY <2>2 DEF WorkerDoesNotStart
    <3> HIDE DEF m, payload
    <3>4. wire' \in Seq(Message) /\ Len(wire') = 1 /\ wire'[1] = m
      BY <3>2, <3>3
    <3>5. wire'[1].payload = payload
      BY <3>2, <3>4
    <3>6. wire'[1].payload.unexpected /\ wire'[1].payload.unknown = {}
      BY <3>1, <3>5
    <3>7. wire'[1].method = "exit"
      BY <3>2, <3>4
    <3>8. worker' \in Worker /\ worker'.asked = FALSE /\ worker'.phase = "none"
      BY <3>3, NoWorkerFacts
    <3> QED
      BY ONLY <3>4, <3>6, <3>7, <3>8, Zenon
  <2> QED
    BY <2>1, <2>2
<1>4. TypeOK'
  BY <1>2, <1>3 DEF Inv, TypeOK, report_vars
<1>5. WireOK'
  <2>1. WorkerTestOK' /\ IdleOK' /\ BegunOK' /\ WireHead' /\ WireEnd'
    BY <1>2, <1>3 DEF WorkerTestOK, IdleOK, BegunOK, WireHead, WireEnd
  <2>2. WireShape'
    BY <1>3 DEF WireShape, Shaped
  <2>3. ExitsOK'
    BY <1>3 DEF ExitsOK
  <2> QED
    BY <2>1, <2>2, <2>3 DEF WireOK
<1>6. MaxStops' /\ FailedOK'
  BY <1>2 DEF Inv, MaxStops, FailedOK, ReachedMaxFailures, MaxFailures, report_vars
<1>7. OpenOK'
  BY <1>2 DEF Inv, WireOK, IdleOK, OpenOK, report_vars
<1> QED
  BY <1>4, <1>5, <1>6, <1>7 DEF Inv

LEMMA AskedFacts ==
  ASSUME worker \in Worker, NEW stop \in BOOLEAN
  PROVE  /\ AskedToStop(worker, stop) \in Worker
         /\ AskedToStop(worker, stop).phase = worker.phase
         /\ AskedToStop(worker, stop).test = worker.test
         /\ AskedToStop(worker, stop).nonRetriable = worker.nonRetriable
         /\ AskedToStop(worker, stop).status = worker.status
         /\ AskedToStop(worker, stop).expected = worker.expected
         /\ AskedToStop(worker, stop).stopped = worker.stopped
         /\ AskedToStop(worker, stop).todo = worker.todo
         /\ AskedToStop(worker, stop).asked => worker.asked \/ (stop /\ worker.phase # "none")
         /\ worker = NoWorker => AskedToStop(worker, stop) = NoWorker
<1>1. AskedToStop(worker, stop) = [worker EXCEPT !.asked = @ \/ (stop /\ worker.phase # "none")]
  BY DEF AskedToStop
<1>2. (worker.asked \/ (stop /\ worker.phase # "none")) \in BOOLEAN
  OBVIOUS
<1>3. ASSUME worker = NoWorker PROVE AskedToStop(worker, stop) = NoWorker
  <2>1. worker.asked = FALSE /\ worker.phase = "none"
    BY <1>3, NoWorkerFacts
  <2>2. (worker.asked \/ (stop /\ worker.phase # "none")) = FALSE
    BY <2>1
  <2>3. AskedToStop(worker, stop) = [NoWorker EXCEPT !.asked = FALSE]
    BY <1>1, <1>3, <2>2
  <2> QED
    BY <2>3 DEF NoWorker
<1>4. ASSUME NEW b \in BOOLEAN
      PROVE  LET w == [worker EXCEPT !.asked = b]
             IN  /\ w \in Worker /\ w.phase = worker.phase /\ w.test = worker.test
                 /\ w.nonRetriable = worker.nonRetriable /\ w.status = worker.status
                 /\ w.expected = worker.expected /\ w.stopped = worker.stopped /\ w.todo = worker.todo
                 /\ w.asked = b
  BY DEF Worker
<1> QED
  BY <1>1, <1>2, <1>3, <1>4

LEMMA StopsFacts ==
  ASSUME TypeOK, MaxStops, NEW n \in Nat
  PROVE  /\ StopsRun(n) \in BOOLEAN /\ (stopped => StopsRun(n))
         /\ ReachedMaxFailures(n) => StopsRun(n)
BY DEF TypeOK, StopsRun, MaxStops

LEMMA StopsKeep ==
  ASSUME Inv, setting' = setting, RunIsOver \/ FailElsewhere \/ StopRun
  PROVE  Inv'
<1>1. TypeOK /\ MaxStops /\ worker \in Worker
  BY DEF Inv, TypeOK
<1>2. CASE RunIsOver
  <2>1. /\ UNCHANGED <<queue, job_vars, report_vars, elsewhere, stopped, worker, wire>>
        /\ phase = "idle" /\ phase' = "over"
    BY <1>2 DEF RunIsOver
  <2>2. TypeOK' /\ WireOK' /\ MaxStops' /\ FailedOK'
    BY <1>1, <2>1 DEF Inv, TypeOK, WireOK, WorkerTestOK, IdleOK, BegunOK, WireShape, WireHead, WireEnd, ExitsOK,
                      MaxStops, FailedOK, ReachedMaxFailures, MaxFailures, job_vars, report_vars
  <2>3. OpenOK'
    BY <2>1 DEF Inv, WireOK, IdleOK, OpenOK, NoResultLeftOpen, job_vars, report_vars
  <2> QED
    BY <2>2, <2>3 DEF Inv
<1>3. ASSUME phase # "over", stopped' \in BOOLEAN, stopped => stopped', worker' = AskedToStop(worker, stopped'),
             failedCount' \in Nat, ReachedMaxFailures(failedCount') => stopped', elsewhere' \in Nat,
             UNCHANGED <<queue, phase, job_vars, results, expected, workerErrors, wire>>
      PROVE  Inv'
  <2>1. /\ worker' \in Worker /\ worker'.phase = worker.phase /\ worker'.test = worker.test
        /\ worker'.asked => worker.asked \/ (stopped' /\ worker.phase # "none")
        /\ worker = NoWorker => worker' = NoWorker
    BY <1>1, <1>3, AskedFacts
  <2>2. TypeOK'
    BY <1>1, <1>3, <2>1 DEF TypeOK, job_vars
  <2>3. WireOK'
    BY <1>3, <2>1 DEF Inv, WireOK, WorkerTestOK, IdleOK, BegunOK, WireShape, WireHead, WireEnd, ExitsOK, job_vars
  <2>4. MaxStops' /\ FailedOK'
    BY <1>3 DEF Inv, MaxStops, FailedOK, ReachedMaxFailures, MaxFailures, job_vars
  <2>5. OpenOK'
    BY <1>3 DEF Inv, OpenOK, NoResultLeftOpen, job_vars
  <2> QED
    BY <2>2, <2>3, <2>4, <2>5 DEF Inv
<1>4. CASE FailElsewhere
  <2>1. /\ elsewhere' = elsewhere + 1 /\ failedCount' = failedCount + 1
        /\ stopped' = StopsRun(failedCount') /\ worker' = AskedToStop(worker, stopped') /\ phase # "over"
        /\ UNCHANGED <<queue, phase, job_vars, results, expected, workerErrors, wire>>
    BY <1>4 DEF FailElsewhere
  <2>2. failedCount' \in Nat /\ elsewhere' \in Nat
    BY <1>1, <2>1 DEF TypeOK
  <2> QED
    BY <1>1, <1>3, <2>1, <2>2, StopsFacts
<1>5. CASE StopRun
  <2>1. /\ stopped' = TRUE /\ worker' = AskedToStop(worker, stopped') /\ phase # "over"
        /\ UNCHANGED <<queue, phase, job_vars, report_vars, elsewhere, wire>>
    BY <1>5 DEF StopRun
  <2> QED
    BY <1>1, <1>3, <2>1 DEF TypeOK, report_vars
<1> QED
  BY <1>2, <1>4, <1>5

(***************************************************************************)
(* The messages during a job.                                              *)
(***************************************************************************)
LEMMA TailFacts ==
  ASSUME NEW w \in Seq(Message), w # <<>>, Shaped(w)
  PROVE  /\ Tail(w) \in Seq(Message) /\ Head(w) = w[1] /\ w[1] \in Message
         /\ \A i \in DOMAIN Tail(w) : i + 1 \in DOMAIN w /\ Tail(w)[i] = w[i + 1]
         /\ Shaped(Tail(w))
         /\ Tail(w) = <<>> => w[Len(w)] = w[1]
         /\ Tail(w) # <<>> => MayFollow(w[1], Tail(w)[1]) /\ Tail(w)[Len(Tail(w))] = w[Len(w)]
<1>1. /\ Tail(w) \in Seq(Message) /\ Len(Tail(w)) = Len(w) - 1 /\ Len(w) \in Nat /\ Len(w) > 0
      /\ DOMAIN Tail(w) = 1..(Len(w) - 1) /\ DOMAIN w = 1..Len(w)
      /\ \A i \in 1..(Len(w) - 1) : Tail(w)[i] = w[i + 1]
      /\ Head(w) = w[1] /\ w[1] \in Message
  OBVIOUS
<1> DEFINE v == Tail(w)
<1> HIDE DEF v
<1>2. Shaped(v)
  <2> SUFFICES ASSUME NEW i \in 1..(Len(v) - 1) PROVE MayFollow(v[i], v[i + 1])
    BY DEF Shaped
  <2>1. i \in 1..(Len(w) - 1) /\ i + 1 \in 1..(Len(w) - 1)
    BY <1>1 DEF v
  <2>2. v[i] = w[i + 1] /\ v[i + 1] = w[i + 1 + 1]
    BY <1>1, <2>1 DEF v
  <2> QED
    BY <1>1, <2>1, <2>2 DEF Shaped
<1>3. v = <<>> => Len(w) = 1
  <2>1. Len(v) = Len(w) - 1 /\ Len(w) \in Nat
    BY <1>1 DEF v
  <2> QED
    BY ONLY <2>1
<1>4. v # <<>> => MayFollow(w[1], v[1]) /\ v[Len(v)] = w[Len(w)]
  <2> SUFFICES ASSUME v # <<>> PROVE MayFollow(w[1], v[1]) /\ v[Len(v)] = w[Len(w)]
    OBVIOUS
  <2>1. Len(v) > 0 /\ Len(v) = Len(w) - 1
    BY <1>1 DEF v
  <2>2. v[1] = w[2] /\ 1 \in 1..(Len(w) - 1)
    BY <1>1, <2>1 DEF v
  <2>3. v[Len(v)] = w[Len(v) + 1] /\ Len(v) + 1 = Len(w)
    BY <1>1, <2>1 DEF v
  <2> QED
    BY <2>2, <2>3 DEF Shaped
<1> QED
  BY <1>1, <1>2, <1>3, <1>4 DEF v

LEMMA HandledKeeps ==
  ASSUME Inv, phase = "running", phase' = "running", wire # <<>>, wire' = Tail(wire),
         worker' \in Worker, worker'.phase = worker.phase, worker'.test = worker.test,
         worker'.asked => stopped' /\ worker.phase # "none", stopped => stopped',
         \/ wire[1].method = "testBegin" /\ begun' \subseteq {wire[1].test}
         \/ wire[1].method = "testEnd" /\ begun' = {}
  PROVE  /\ WorkerTestOK' /\ WireShape' /\ WireHead' /\ WireEnd' /\ ExitsOK'
         /\ wire' \in Seq(Message)
<1>1. /\ worker \in Worker /\ wire \in Seq(Message) /\ WireShape /\ WireHead /\ WireEnd /\ ExitsOK /\ WorkerTestOK
  BY InvFields DEF FieldsOfInv
<1>2. /\ wire' \in Seq(Message) /\ Shaped(wire')
      /\ \A i \in DOMAIN wire' : i + 1 \in DOMAIN wire /\ wire'[i] = wire[i + 1]
      /\ wire' = <<>> => wire[Len(wire)] = wire[1]
      /\ wire' # <<>> => MayFollow(wire[1], wire'[1]) /\ wire'[Len(wire')] = wire[Len(wire)]
  BY <1>1, TailFacts DEF WireShape
<1>3. WorkerTestOK' /\ WireShape'
  BY <1>1, <1>2 DEF WorkerTestOK, WireShape
<1>4. WireHead'
  BY <1>2 DEF WireHead, MayFollow
<1>5. WireEnd'
  <2>1. CASE wire' = <<>>
    <3>1. wire[Len(wire)] = wire[1]
      BY <1>2, <2>1
    <3>2. /\ worker.phase \in {"test", "tail"} => begun' \subseteq {worker.test}
          /\ worker.phase \in {"loading", "between"} => begun' = {}
          /\ worker.phase \notin {"idle", "none"}
      BY <1>1, <3>1 DEF WireEnd
    <3> QED
      BY <2>1, <3>2 DEF WireEnd
  <2>2. CASE wire' # <<>>
    <3>1. wire'[Len(wire')] = wire[Len(wire)]
      BY <1>2, <2>2
    <3> QED
      BY <1>1, <2>2, <3>1 DEF WireEnd
  <2> QED
    BY <2>1, <2>2
<1>6. ExitsOK'
  BY <1>1, <1>2 DEF ExitsOK
<1> QED
  BY <1>2, <1>3, <1>4, <1>5, <1>6

LEMMA OnTestBeginFacts ==
  ASSUME Inv, setting' = setting, OnTestBegin
  PROVE  /\ phase = "running" /\ wire # <<>> /\ wire[1].method = "testBegin" /\ wire' = Tail(wire)
         /\ wire[1].test \in Test /\ begun = {} /\ current = NoTest
         /\ IF wire[1].test \in remaining
            THEN /\ results' = [results EXCEPT ![wire[1].test] = Append(@, "started")]
                 /\ begun' = {wire[1].test} /\ current' = wire[1].test
            ELSE results' = results /\ begun' = {} /\ current' = NoTest
         /\ UNCHANGED <<queue, phase, job, remaining, failed, nonRetriable, expected, failedCount,
                        workerErrors, elsewhere, stopped, worker>>
<1>1. wire \in Seq(Message) /\ WireHead /\ BegunOK
  BY InvFields DEF FieldsOfInv
<1>2. phase = "running" /\ wire # <<>> /\ Head(wire).method = "testBegin" /\ wire' = Tail(wire)
  BY DEF OnTestBegin
<1>3. Head(wire) = wire[1] /\ wire[1] \in Message
  BY <1>1, <1>2
<1>4. wire[1].test \in Test
  BY <1>2, <1>3, MessageParts
<1>5. begun = {}
  BY <1>1, <1>2, <1>3 DEF WireHead
<1>6. current = NoTest
  BY <1>1, <1>5 DEF BegunOK
<1> QED
  BY <1>2, <1>3, <1>4, <1>5, <1>6 DEF OnTestBegin

LEMMA OnTestBeginKeeps ==
  ASSUME Inv, setting' = setting, OnTestBegin
  PROVE  Inv'
<1> DEFINE t == wire[1].test
<1>1. /\ phase = "running" /\ wire # <<>> /\ wire[1].method = "testBegin" /\ wire' = Tail(wire)
      /\ t \in Test /\ begun = {} /\ current = NoTest
      /\ IF t \in remaining
         THEN results' = [results EXCEPT ![t] = Append(@, "started")] /\ begun' = {t} /\ current' = t
         ELSE results' = results /\ begun' = {} /\ current' = NoTest
      /\ UNCHANGED <<queue, phase, job, remaining, failed, nonRetriable, expected, failedCount,
                     workerErrors, elsewhere, stopped, worker>>
  BY OnTestBeginFacts
<1> HIDE DEF t
<1>2. TypeOK /\ ExitsOK /\ WireOK /\ OpenOK
  BY DEF Inv, WireOK
<1>3. /\ WorkerTestOK' /\ WireShape' /\ WireHead' /\ WireEnd' /\ ExitsOK' /\ wire' \in Seq(Message)
  <2>1. worker' \in Worker /\ begun' \subseteq {t}
    BY <1>1, <1>2 DEF TypeOK
  <2>2. worker'.asked => stopped' /\ worker.phase # "none"
    BY <1>1, <1>2 DEF ExitsOK
  <2> QED
    BY <1>1, <2>1, <2>2, HandledKeeps DEF t
<1>4. results' \in Results
  <2>1. results \in Results /\ results[t] \in Seq(Status \cup {"started"})
    BY <1>1, <1>2 DEF TypeOK, Results
  <2>2. Append(results[t], "started") \in Seq(Status \cup {"started"})
    BY <2>1, AppendFacts
  <2> QED
    BY <1>1, <2>1, <2>2 DEF Results
<1>5. TypeOK'
  <2>1. begun' \subseteq ToSet(job) /\ current' \in Test \cup {NoTest}
    BY <1>1, <1>2 DEF TypeOK
  <2> QED
    BY <1>1, <1>2, <1>3, <1>4, <2>1 DEF TypeOK, Results
<1>6. WireOK'
  <2>1. IdleOK'
    BY <1>1 DEF IdleOK
  <2>2. BegunOK'
    BY <1>1, TestAssumption DEF BegunOK
  <2> QED
    BY <1>3, <2>1, <2>2 DEF WireOK
<1>7. MaxStops' /\ FailedOK'
  BY <1>1 DEF Inv, MaxStops, FailedOK, ReachedMaxFailures, MaxFailures
<1>8. OpenOK'
  <2> SUFFICES ASSUME NEW u \in Test, NEW i \in DOMAIN results'[u], results'[u][i] = "started"
               PROVE  i = Len(results'[u]) /\ u \in begun'
    BY <1>1 DEF OpenOK
  <2>1. ~(u \in DOMAIN results /\ i \in DOMAIN results[u] /\ results[u][i] = "started")
    BY <1>1, <1>2 DEF OpenOK
  <2>2. t \in remaining /\ u = t /\ results'[u] = Append(results[u], "started")
        /\ results[u] \in Seq(Status \cup {"started"})
    BY <1>1, <1>2, <2>1 DEF TypeOK
  <2>3. /\ Len(results'[u]) = Len(results[u]) + 1
        /\ i = Len(results[u]) + 1 \/ (i \in DOMAIN results[u] /\ results'[u][i] = results[u][i])
    BY <2>2, AppendFacts
  <2>4. DOMAIN results = Test
    BY <1>2 DEF TypeOK
  <2> QED
    BY <1>1, <2>1, <2>2, <2>3, <2>4
<1> QED
  BY <1>5, <1>6, <1>7, <1>8 DEF Inv

(* What OnTestEnd does with the message of a test that has begun.            *)
EndOf(m) ==
  LET t      == m.test
      status == ReportedStatus(m)
      ledger == [Ledger EXCEPT !.results = [results EXCEPT ![t] = WithLast(@, status)],
                               !.expected = [expected EXCEPT ![t] = m.expected]]
  IN  ReportEnd(ledger, t)

LEMMA EndOfFacts ==
  ASSUME TypeOK, NEW m \in Message, m.method = "testEnd"
  PROVE  /\ EndOf(m) \in Ledgers
         /\ EndOf(m).results = [results EXCEPT ![m.test] = WithLast(results[m.test], ReportedStatus(m))]
         /\ EndOf(m).expected = [expected EXCEPT ![m.test] = m.expected]
         /\ EndOf(m).count = IF Final(EndOf(m).results[m.test], m.expected, m.test)
                             THEN failedCount + 1 ELSE failedCount
         /\ ReportedStatus(m) \in Status
<1> DEFINE t == m.test
           status == ReportedStatus(m)
           log == WithLast(results[t], status)
           r == [results EXCEPT ![t] = log]
           e == [expected EXCEPT ![t] = m.expected]
           k == [Ledger EXCEPT !.results = r, !.expected = e]
           n == ReportEnd(k, t)
<1>1. t \in Test /\ status \in Status /\ m.expected \in Expects
  BY MessageParts DEF ReportedStatus, Status
<1>2. EndOf(m) = n
  BY DEF EndOf
<1> HIDE DEF status, t
<1>3. log \in Seq(Status \cup {"started"})
  <2>1. results[t] \in Seq(Status \cup {"started"}) /\ status \in Status \cup {"started"}
    BY <1>1 DEF TypeOK
  <2> QED
    BY ONLY <2>1, WithLastFacts
<1> HIDE DEF log
<1>4. r \in Results /\ r[t] = log /\ e \in [Test -> Expects] /\ e[t] = m.expected
  BY <1>1, <1>3 DEF TypeOK, Results, Expects
<1> HIDE DEF r, e
<1>5. /\ k \in Ledgers /\ k.results = r /\ k.expected = e /\ k.count = failedCount
  BY <1>4, LedgerTyped DEF Ledgers
<1> HIDE DEF k
<1>6. /\ n \in Ledgers /\ n.results = k.results /\ n.expected = k.expected
      /\ n.count = IF Final(k.results[t], k.expected[t], t) THEN k.count + 1 ELSE k.count
  BY <1>5 DEF ReportEnd, Final, Ledgers
<1> HIDE DEF n
<1> QED
  BY <1>1, <1>2, <1>4, <1>5, <1>6 DEF r, e, log, status, t

LEMMA OnTestEndFacts ==
  ASSUME Inv, setting' = setting, OnTestEnd
  PROVE  /\ phase = "running" /\ wire # <<>> /\ wire[1].method = "testEnd" /\ wire' = Tail(wire)
         /\ wire[1] \in Message /\ wire[1].test \in Test /\ begun \subseteq {wire[1].test}
         /\ begun' = {} /\ current' = NoTest
         /\ \/ /\ begun = {wire[1].test} /\ current = wire[1].test /\ wire[1].test \in remaining
               /\ remaining' = remaining \ {wire[1].test}
               /\ results' = EndOf(wire[1]).results /\ expected' = EndOf(wire[1]).expected
               /\ failedCount' = EndOf(wire[1]).count
               /\ failed' = IF ReportedStatus(wire[1]) \notin {"skipped", wire[1].expected}
                            THEN failed \cup {wire[1].test} ELSE failed
               /\ nonRetriable' = IF wire[1].nonRetriable THEN nonRetriable \cup {wire[1].test} ELSE nonRetriable
               /\ stopped' = StopsRun(failedCount') /\ worker' = AskedToStop(worker, stopped')
            \/ /\ begun = {} /\ current = NoTest
               /\ UNCHANGED <<remaining, results, expected, failed, nonRetriable, failedCount, stopped, worker>>
         /\ UNCHANGED <<queue, phase, job, workerErrors, elsewhere>>
<1>1. wire \in Seq(Message) /\ WireHead /\ BegunOK
  BY InvFields DEF FieldsOfInv
<1>2. phase = "running" /\ wire # <<>> /\ Head(wire).method = "testEnd" /\ wire' = Tail(wire)
  BY DEF OnTestEnd
<1>3. Head(wire) = wire[1] /\ wire[1] \in Message
  BY <1>1, <1>2
<1> DEFINE m == wire[1]
<1>4. m.test \in Test /\ m.test # NoTest
  BY <1>2, <1>3, MessageParts, TestAssumption
<1>5. begun \subseteq {m.test}
  BY <1>1, <1>2, <1>3 DEF WireHead
<1>6. /\ IF m.test \in begun
         THEN /\ begun' = begun \ {m.test}
              /\ remaining' = remaining \ {m.test}
              /\ results' = EndOf(m).results /\ expected' = EndOf(m).expected
              /\ failed' = IF ReportedStatus(m) \notin {"skipped", m.expected} THEN failed \cup {m.test} ELSE failed
              /\ nonRetriable' = IF m.nonRetriable THEN nonRetriable \cup {m.test} ELSE nonRetriable
              /\ current' = NoTest
              /\ failedCount' = EndOf(m).count
              /\ stopped' = StopsRun(failedCount')
              /\ worker' = AskedToStop(worker, stopped')
         ELSE UNCHANGED <<begun, remaining, results, expected, failed, nonRetriable, current,
                          failedCount, stopped, worker>>
      /\ UNCHANGED <<queue, phase, job, workerErrors, elsewhere>>
  BY <1>3 DEF OnTestEnd, EndOf
<1> HIDE DEF m
<1>7. CASE m.test \in begun
  <2>1. begun = {m.test} /\ current = m.test /\ m.test \in remaining
    BY <1>1, <1>5, <1>7 DEF BegunOK
  <2> QED
    BY <1>2, <1>3, <1>4, <1>5, <1>6, <1>7, <2>1 DEF m
<1>8. CASE m.test \notin begun
  <2>1. begun = {} /\ current = NoTest
    BY <1>1, <1>5, <1>8 DEF BegunOK
  <2> QED
    BY <1>2, <1>3, <1>4, <1>5, <1>6, <1>8, <2>1 DEF m
<1> QED
  BY <1>7, <1>8

LEMMA OnTestEndKeeps ==
  ASSUME Inv, setting' = setting, OnTestEnd
  PROVE  Inv'
<1> DEFINE m == wire[1]
           t == m.test
<1>1. /\ phase = "running" /\ wire # <<>> /\ m.method = "testEnd" /\ wire' = Tail(wire)
      /\ m \in Message /\ t \in Test /\ begun \subseteq {t} /\ begun' = {} /\ current' = NoTest
      /\ \/ /\ begun = {t} /\ current = t /\ t \in remaining
            /\ remaining' = remaining \ {t}
            /\ results' = EndOf(m).results /\ expected' = EndOf(m).expected
            /\ failedCount' = EndOf(m).count
            /\ failed' = IF ReportedStatus(m) \notin {"skipped", m.expected} THEN failed \cup {t} ELSE failed
            /\ nonRetriable' = IF m.nonRetriable THEN nonRetriable \cup {t} ELSE nonRetriable
            /\ stopped' = StopsRun(failedCount') /\ worker' = AskedToStop(worker, stopped')
         \/ /\ begun = {} /\ current = NoTest
            /\ UNCHANGED <<remaining, results, expected, failed, nonRetriable, failedCount, stopped, worker>>
      /\ UNCHANGED <<queue, phase, job, workerErrors, elsewhere>>
  BY OnTestEndFacts
<1>2. TypeOK /\ MaxStops /\ ExitsOK /\ WireOK /\ OpenOK /\ FailedOK
  BY DEF Inv, WireOK
<1>3. /\ EndOf(m) \in Ledgers
      /\ EndOf(m).results = [results EXCEPT ![t] = WithLast(results[t], ReportedStatus(m))]
      /\ EndOf(m).expected = [expected EXCEPT ![t] = m.expected]
      /\ ReportedStatus(m) \in Status
  BY <1>1, <1>2, EndOfFacts
<1> HIDE DEF m, t
<1>4. /\ results' \in Results /\ expected' \in [Test -> Expects] /\ failedCount' \in Nat
      /\ remaining' \subseteq remaining /\ failed' \subseteq failed \cup {t} /\ nonRetriable' \subseteq nonRetriable \cup {t}
  BY <1>1, <1>2, <1>3 DEF TypeOK, Ledgers, Results, Expects
<1>5. /\ worker' \in Worker /\ worker'.phase = worker.phase /\ worker'.test = worker.test
      /\ worker'.asked => stopped' /\ worker.phase # "none"
      /\ stopped => stopped'
      /\ stopped' \in BOOLEAN
  <2>1. worker \in Worker /\ stopped \in BOOLEAN /\ (worker.asked => stopped /\ worker.phase # "none")
    BY <1>2 DEF TypeOK, ExitsOK
  <2>2. StopsRun(failedCount') \in BOOLEAN /\ (stopped => StopsRun(failedCount'))
    BY <1>2, <1>4, StopsFacts
  <2> QED
    BY <1>1, <2>1, <2>2, AskedFacts
<1>6. /\ WorkerTestOK' /\ WireShape' /\ WireHead' /\ WireEnd' /\ ExitsOK' /\ wire' \in Seq(Message)
  BY <1>1, <1>5, HandledKeeps DEF m
<1>7. TypeOK'
  BY <1>1, <1>2, <1>4, <1>5, <1>6 DEF TypeOK, Results, Expects
<1>8. WireOK'
  BY <1>1, <1>6 DEF WireOK, IdleOK, BegunOK
<1>9. MaxStops'
  <2>1. CASE stopped' = StopsRun(failedCount')
    <3>1. ReachedMaxFailures(failedCount') => StopsRun(failedCount')
      BY <1>2, <1>4, StopsFacts
    <3> QED
      BY <2>1, <3>1 DEF MaxStops, ReachedMaxFailures, MaxFailures
  <2>2. CASE UNCHANGED <<failedCount, stopped>>
    BY <1>2, <2>2 DEF MaxStops, ReachedMaxFailures, MaxFailures
  <2> QED
    BY <1>1, <2>1, <2>2
<1>10. FailedOK'
  BY <1>1, <1>2 DEF FailedOK, TypeOK
<1>11. OpenOK'
  <2> SUFFICES ASSUME NEW u \in Test, NEW i \in DOMAIN results'[u], results'[u][i] = "started"
               PROVE  FALSE
    BY <1>1 DEF OpenOK
  <2>1. CASE results' = results /\ begun = {}
    BY <1>1, <1>2, <2>1 DEF OpenOK
  <2>2. CASE results' = [results EXCEPT ![t] = WithLast(results[t], ReportedStatus(m))]
    <3>1. CASE u # t
      <4>1. results'[u] = results[u]
        BY <1>1, <1>2, <2>2, <3>1 DEF TypeOK
      <4> QED
        BY <1>1, <1>2, <3>1, <4>1 DEF OpenOK
    <3>2. CASE u = t
      <4>1. results'[u] = WithLast(results[t], ReportedStatus(m)) /\ results[t] \in Seq(Status \cup {"started"})
        BY <1>1, <1>2, <2>2, <3>2 DEF TypeOK
      <4>2. ReportedStatus(m) \in Status \cup {"started"} /\ ReportedStatus(m) # "started"
        BY <1>3 DEF Status
      <4>3. /\ DOMAIN WithLast(results[t], ReportedStatus(m)) = DOMAIN results[t]
            /\ Len(WithLast(results[t], ReportedStatus(m))) = Len(results[t])
            /\ results[t] # <<>> => WithLast(results[t], ReportedStatus(m))[Len(results[t])] = ReportedStatus(m)
            /\ \A k \in DOMAIN results[t] : k # Len(results[t]) =>
                 WithLast(results[t], ReportedStatus(m))[k] = results[t][k]
        BY <4>1, <4>2, WithLastFacts DEF WithLast
      <4>4. i \in DOMAIN results[t] /\ results[t] # <<>>
        BY <4>1, <4>3
      <4>5. i # Len(results[t])
        BY <4>1, <4>2, <4>3, <4>4
      <4>6. results[t][i] = "started"
        BY <4>1, <4>3, <4>4, <4>5
      <4> QED
        BY <1>1, <1>2, <4>4, <4>5, <4>6 DEF OpenOK
    <3> QED
      BY <3>1, <3>2
  <2> QED
    BY <1>1, <1>3, <2>1, <2>2
<1> QED
  BY <1>7, <1>8, <1>9, <1>10, <1>11 DEF Inv

(***************************************************************************)
(* The end of a job.                                                       *)
(***************************************************************************)
(* The ledger that _onDone ends with, and the tests it retries.              *)
AfterSuites(payload) ==
  MassSkip(Settled(payload), UNION SerialSuitesWithFailures(Settled(payload)), FALSE)

Retried(payload) ==
  {t \in RetryCandidates(Settled(payload)) : HasRetriesLeft(AfterSuites(payload), t)}

Again(payload) == RetryOrder(Settled(payload), payload, Retried(payload))

SettlesTo(payload) ==
  /\ results' = AfterSuites(payload).results
  /\ failedCount' = AfterSuites(payload).count
  /\ workerErrors' = AfterSuites(payload).workerErrors
  /\ stopped' = StopsRun(AfterSuites(payload).count)
  /\ queue' = IF stopped' THEN queue ELSE Requeued(AfterSuites(payload), Again(payload))
  /\ UNCHANGED expected

LEMMA OnDoneFacts ==
  ASSUME Inv, OnDone
  PROVE  /\ phase = "running" /\ wire # <<>> /\ wire[1].method \in {"done", "exit"}
         /\ wire[1] \in Message /\ wire[1].payload \in Payload
         /\ \/ NothingWentWrong(wire[1].payload) /\ UNCHANGED <<queue, report_vars, stopped>>
            \/ ~NothingWentWrong(wire[1].payload) /\ SettlesTo(wire[1].payload)
         /\ JobOver /\ UNCHANGED elsewhere
<1>1. wire \in Seq(Message)
  BY InvFields DEF FieldsOfInv
<1>2. phase = "running" /\ wire # <<>> /\ Head(wire).method \in {"done", "exit"}
  BY DEF OnDone
<1>3. Head(wire) = wire[1] /\ wire[1] \in Message
  BY <1>1, <1>2
<1>4. wire[1].payload \in Payload
  BY <1>2, <1>3, MessageParts
<1>5. /\ IF NothingWentWrong(Head(wire).payload)
         THEN UNCHANGED <<queue, report_vars, stopped>>
         ELSE SettlesTo(Head(wire).payload)
      /\ JobOver /\ UNCHANGED elsewhere
  BY DEF OnDone, SettlesTo, AfterSuites, Retried, Again
<1> QED
  BY <1>2, <1>3, <1>4, <1>5

LEMMA LedgerIsOK ==
  ASSUME Inv, phase = "running"
  PROVE  LedgerOK(Ledger)
<1>1. TypeOK /\ FailedOK /\ OpenOK /\ begun \subseteq remaining
  BY DEF Inv, WireOK, BegunOK
<1>2. /\ Ledger \in Ledgers
      /\ Ledger.results = results /\ Ledger.expected = expected /\ Ledger.count = failedCount
      /\ Ledger.remaining = remaining /\ Ledger.failed = failed
  BY <1>1, LedgerTyped
<1>3. OpenIn(Ledger)
  BY <1>1, <1>2 DEF OpenOK, OpenIn
<1>4. failedCount >= failedCount
  BY <1>1 DEF TypeOK
<1> QED
  BY <1>1, <1>2, <1>3, <1>4 DEF LedgerOK, FailedOK

LEMMA AfterSuitesFacts ==
  ASSUME Inv, phase = "running", NEW payload \in Payload
  PROVE  /\ LedgerOK(Settled(payload)) /\ LedgerOK(AfterSuites(payload))
         /\ AfterSuites(payload).remaining =
              Settled(payload).remaining \ UNION SerialSuitesWithFailures(Settled(payload))
         /\ payload.unexpected /\ current # NoTest => current \notin AfterSuites(payload).remaining
         /\ LedgerExact(Ledger) /\ IsInjective(job) => LedgerExact(AfterSuites(payload))
         /\ ReachedMaxFailures(failedCount) =>
              \A t \in Test \ payload.unknown : AfterSuites(payload).results[t] = results[t]
         /\ Retried(payload) \in SUBSET Test
<1> DEFINE s == Settled(payload)
           u == UNION SerialSuitesWithFailures(s)
           a == MassSkip(s, u, FALSE)
<1>1. TypeOK /\ LedgerOK(Ledger)
  BY LedgerIsOK DEF Inv
<1>2. /\ LedgerOK(s)
      /\ payload.unexpected /\ current # NoTest => current \notin s.remaining
      /\ LedgerExact(Ledger) /\ IsInjective(job) => LedgerExact(s)
      /\ ReachedMaxFailures(failedCount) =>
           \A t \in Test \ payload.unknown : s.results[t] = results[t]
  BY <1>1, SettledFacts
<1>3. u \subseteq Test
  BY SuiteAssumption DEF SerialSuitesWithFailures
<1>4. s.failed \subseteq Test
  BY <1>1, <1>2 DEF LedgerOK, Ledgers
<1>5. AfterSuites(payload) = a
  BY DEF AfterSuites
<1>6. Retried(payload) \subseteq (s.failed \ nonRetriable) \cup u
  BY DEF Retried, RetryCandidates
<1> HIDE DEF s, u
<1>7. /\ LedgerOK(a) /\ a.remaining = s.remaining \ u
      /\ LedgerExact(s) /\ IsInjective(job) => LedgerExact(a)
      /\ ReachedMaxFailures(s.count) => a.results = s.results
  BY <1>1, <1>2, MassSkipFacts
<1>8. ReachedMaxFailures(failedCount) => ReachedMaxFailures(s.count)
  BY <1>1, <1>2, LedgerReached
<1> HIDE DEF a
<1> QED
  BY <1>2, <1>3, <1>4, <1>5, <1>6, <1>7, <1>8 DEF s, u

LEMMA AgainFacts ==
  ASSUME TypeOK, NEW payload, Retried(payload) \in SUBSET Test
  PROVE  /\ Again(payload) \in Seq(Test)
         /\ ToSet(Again(payload)) = Retried(payload)
         /\ IsInjective(Again(payload))
<1> DEFINE s == Settled(payload)
           first == InFileOrder(failed) \o InJobOrder(payload.unknown)
           second == first \o InJobOrder(s.failed)
           added == second \o InFileOrder(Test)
<1>1. /\ InFileOrder(failed) \in Seq(Test) /\ InJobOrder(payload.unknown) \in Seq(Test)
      /\ InJobOrder(s.failed) \in Seq(Test) /\ InFileOrder(Test) \in Seq(Test) /\ ToSet(InFileOrder(Test)) = Test
  BY FileOrderFacts, JobOrderFacts DEF TypeOK
<1>2. Again(payload) = InOrderAdded(added, Retried(payload))
  BY DEF Again, RetryOrder
<1>3. first \in Seq(Test)
  BY <1>1, ConcatProperties
<1> HIDE DEF first
<1>4. second \in Seq(Test)
  BY <1>1, <1>3, ConcatProperties
<1> HIDE DEF second
<1>5. added \in Seq(Test) /\ Test \subseteq ToSet(added)
  <2>1. added \in Seq(Test)
    BY <1>1, <1>4, ConcatProperties
  <2>2. Range(added) = Range(second) \cup Range(InFileOrder(Test))
    BY <1>1, <1>4, RangeConcatenation
  <2>3. \A f : ToSet(f) = Range(f)
    BY DEF Range, ToSet
  <2> QED
    BY <1>1, <2>1, <2>2, <2>3
<1> HIDE DEF added
<1> QED
  BY <1>2, <1>5, OrderAddedFacts

LEMMA NonEmptyFacts ==
  ASSUME NEW S, NEW s \in Seq(S)
  PROVE  NonEmpty(s) \in Seq(Seq(S))
BY DEF NonEmpty

LEMMA RequeuedTyped ==
  ASSUME TypeOK, NEW l, NEW again \in Seq(Test)
  PROVE  Requeued(l, again) \in Seq(Seq(Test))
<1> DEFINE rest == InJobOrder(l.remaining)
<1>1. rest \in Seq(Test) /\ again \in Seq(Test) /\ queue \in Seq(Seq(Test))
  BY JobOrderFacts DEF TypeOK
<1>2. Requeued(l, again) = IF Isolated THEN NonEmpty(rest) \o queue \o NonEmpty(again)
                           ELSE NonEmpty(rest \o again) \o queue
  BY DEF Requeued
<1> HIDE DEF rest
<1>3. rest \o again \in Seq(Test)
  BY <1>1, ConcatProperties
<1>4. NonEmpty(rest) \in Seq(Seq(Test)) /\ NonEmpty(again) \in Seq(Seq(Test)) /\ NonEmpty(rest \o again) \in Seq(Seq(Test))
  BY <1>1, <1>3, NonEmptyFacts
<1> HIDE DEF NonEmpty
<1>5. NonEmpty(rest) \o queue \in Seq(Seq(Test)) /\ NonEmpty(rest \o again) \o queue \in Seq(Seq(Test))
  BY <1>1, <1>4, ConcatProperties
<1>6. NonEmpty(rest) \o queue \o NonEmpty(again) \in Seq(Seq(Test))
  BY <1>4, <1>5, ConcatProperties
<1> QED
  BY <1>2, <1>5, <1>6

LEMMA OnDoneKeeps ==
  ASSUME Inv, setting' = setting, OnDone
  PROVE  Inv'
<1> DEFINE p == wire[1].payload
           a == AfterSuites(p)
<1>1. /\ phase = "running" /\ wire # <<>> /\ wire[1].method \in {"done", "exit"}
      /\ p \in Payload
      /\ \/ NothingWentWrong(p) /\ UNCHANGED <<queue, report_vars, stopped>>
         \/ SettlesTo(p)
      /\ JobOver /\ UNCHANGED elsewhere
  BY OnDoneFacts
<1> HIDE DEF p
<1>2. TypeOK /\ MaxStops /\ WireOK /\ OpenOK /\ WireHead /\ ExitsOK /\ BegunOK
  BY DEF Inv, WireOK
<1>3. /\ phase' = (IF queue' = <<>> \/ stopped' THEN "over" ELSE "idle")
      /\ job' = <<>> /\ remaining' = {} /\ begun' = {} /\ failed' = {} /\ nonRetriable' = {}
      /\ current' = NoTest /\ worker' = NoWorker /\ wire' = <<>>
  BY <1>1 DEF JobOver
<1>4. /\ LedgerOK(a) /\ (p.unexpected /\ current # NoTest => current \notin a.remaining)
      /\ Retried(p) \in SUBSET Test
  BY <1>1, AfterSuitesFacts
<1>5. a \in Ledgers /\ OpenIn(a)
  BY <1>4 DEF LedgerOK
<1>6. /\ queue' \in Seq(Seq(Test)) /\ results' \in Results /\ expected' \in [Test -> Expects]
      /\ failedCount' \in Nat /\ workerErrors' \in BOOLEAN /\ stopped' \in BOOLEAN
      /\ ReachedMaxFailures(failedCount') => stopped'
      /\ stopped => stopped'
  <2>1. CASE UNCHANGED <<queue, report_vars, stopped>>
    BY <1>2, <2>1 DEF TypeOK, report_vars, Results, Expects, MaxStops
  <2>2. CASE SettlesTo(p)
    <3>1. Requeued(a, Again(p)) \in Seq(Seq(Test)) /\ queue \in Seq(Seq(Test))
      BY <1>2, <1>4, AgainFacts, RequeuedTyped DEF TypeOK
    <3>2. /\ a.results \in Results /\ a.count \in Nat /\ a.workerErrors \in BOOLEAN
          /\ expected \in [Test -> Expects]
      BY <1>2, <1>5 DEF Ledgers, TypeOK, Expects
    <3>3. StopsRun(a.count) \in BOOLEAN /\ (stopped => StopsRun(a.count))
          /\ (ReachedMaxFailures(a.count) => StopsRun(a.count))
      BY <1>2, <3>2, StopsFacts
    <3> QED
      BY <2>2, <3>1, <3>2, <3>3 DEF SettlesTo
  <2> QED
    BY <1>1, <2>1, <2>2
<1>7. TypeOK'
  <2>1. /\ phase' \in {"idle", "running", "over"} /\ job' \in Seq(Test) /\ worker' \in Worker /\ wire' \in Seq(Message)
        /\ setting' \in Setting /\ elsewhere' \in Nat
    BY <1>1, <1>2, <1>3, NoWorkerFacts DEF TypeOK
  <2> QED
    BY <1>3, <1>6, <2>1 DEF TypeOK, Results, Expects, ToSet
<1>8. WireOK'
  BY <1>3, NoWorkerFacts DEF WireOK, WorkerTestOK, IdleOK, BegunOK, WireShape, Shaped, WireHead, WireEnd, ExitsOK
<1>9. MaxStops' /\ FailedOK'
  BY <1>3, <1>6 DEF MaxStops, FailedOK, ReachedMaxFailures, MaxFailures
<1>10. ASSUME ~stopped', NEW t \in Test, NEW i \in DOMAIN results'[t], results'[t][i] = "started" PROVE FALSE
  <2>1. CASE NothingWentWrong(p) /\ UNCHANGED <<queue, report_vars, stopped>>
    <3>1. begun = {} /\ results' = results
      BY <1>2, <2>1 DEF NothingWentWrong, BegunOK, report_vars
    <3> QED
      BY <1>1, <1>2, <1>10, <3>1 DEF OpenOK
  <2>2. CASE SettlesTo(p)
    <3>1. ~ReachedMaxFailures(a.count) /\ results' = a.results /\ ~stopped
      <4>1. a.count \in Nat
        BY <1>5 DEF Ledgers
      <4>2. stopped' = StopsRun(a.count) /\ results' = a.results
        BY <2>2 DEF SettlesTo
      <4> QED
        BY <1>2, <1>10, <4>1, <4>2, StopsFacts
    <3>2. t \in begun /\ t \in a.remaining
      BY <1>5, <1>10, <3>1 DEF OpenIn
    <3>3. current # NoTest /\ current = t
      BY <1>2, <3>2 DEF BegunOK
    <3>4. wire[1].method = "exit"
      BY <1>1, <1>2, <3>2 DEF WireHead
    <3>5. p.unexpected
      <4>1. 1 \in DOMAIN wire
        BY <1>1, <1>2 DEF TypeOK
      <4> QED
        BY <1>2, <3>1, <3>4, <4>1 DEF ExitsOK, p
    <3> QED
      BY <1>4, <3>2, <3>3, <3>5
  <2> QED
    BY <1>1, <2>1, <2>2
<1>11. OpenOK'
  <2>1. phase' # "over" => ~stopped'
    BY <1>3
  <2> QED
    BY <1>10, <2>1 DEF OpenOK, NoResultLeftOpen
<1> QED
  BY <1>7, <1>8, <1>9, <1>11 DEF Inv

(***************************************************************************)
(* The invariant holds of every state.                                     *)
(***************************************************************************)
LEMMA StepKeepsInv ==
  ASSUME Inv, [Next]_vars
  PROVE  Inv'
<1>1. CASE UNCHANGED vars
  BY <1>1 DEF vars, job_vars, report_vars, Inv, TypeOK, WireOK, WorkerTestOK, IdleOK, BegunOK, WireShape, WireHead,
              WireEnd, ExitsOK, MaxStops, OpenOK, NoResultLeftOpen, FailedOK, ReachedMaxFailures, MaxFailures
<1>2. CASE RunnerStarts
  BY <1>2, SkipWholeJobKeeps, StartsKeep, StopsKeep DEF RunnerStarts
<1>3. CASE RunnerHandles
  BY <1>3, OnTestBeginKeeps, OnTestEndKeeps, OnDoneKeeps DEF RunnerHandles
<1>4. CASE WorkerGoesOn
  BY <1>4, QuietWorkerSteps, PassOverTestKeeps, BeginTestKeeps, EndTestKeeps, DoneSteps DEF WorkerGoesOn
<1>5. CASE Fault
  BY <1>5, StartsKeep, StopsKeep, DoneSteps, QuietWorkerSteps, ProcessExitsKeeps DEF Fault, Crash, Kill
<1> QED
  BY <1>1, <1>2, <1>3, <1>4, <1>5 DEF Next, Terminated

LEMMA InvHolds == Spec => []Inv
<1>1. Init => Inv
  BY InitInv
<1>2. Inv /\ [Next]_vars => Inv'
  BY StepKeepsInv
<1> QED
  BY <1>1, <1>2, PTL DEF Spec

(* The state of the runner, of the worker and of the wire between them stays *)
(* well-formed.                                                              *)
THEOREM TypesHold == Spec => []TypeOK
<1>1. Inv => TypeOK
  BY DEF Inv
<1> QED
  BY <1>1, InvHolds, PTL

LEMMA InvCloses ==
  ASSUME Inv
  PROVE  NoResultLeftOpen
BY DEF Inv, OpenOK, WireOK, IdleOK, NoResultLeftOpen

(* _onTestEnd and _onDone: no result is left open when a job is over,        *)
(* whatever the worker did or did not say of it.                             *)
THEOREM ResultsAreClosed == Spec => []NoResultLeftOpen
<1>1. Inv => NoResultLeftOpen
  BY InvCloses
<1> QED
  BY <1>1, InvHolds, PTL

(***************************************************************************)
(* No failure is reported once maxFailures is reached.                     *)
(***************************************************************************)
(* A step with a new failure, one of a test that the worker did not find     *)
(* left aside.                                                               *)
StaysQuiet ==
  \A t \in Test \ NotFound : \A i \in DOMAIN results'[t] :
    results'[t][i] = "failed" => i \in DOMAIN results[t] /\ results[t][i] = "failed"

LEMMA StepStaysQuiet ==
  ASSUME Inv, [Next]_vars, ReachedMaxFailures(failedCount)
  PROVE  StaysQuiet
<1>1. CASE UNCHANGED results
  BY <1>1 DEF StaysQuiet
<1>2. CASE SkipWholeJob
  <2>1. SkipsWholeJob
    BY <1>2, Zenon DEF SkipWholeJob
  <2> QED
    BY <2>1 DEF SkipsWholeJob
<1>3. CASE OnTestBegin /\ UNCHANGED setting
  <2>1. CASE results' = results
    BY <1>1, <2>1
  <2>2. CASE results' = [results EXCEPT ![wire[1].test] = Append(@, "started")] /\ wire[1].test \in Test
    <3> SUFFICES ASSUME NEW t \in Test, NEW i \in DOMAIN results'[t], results'[t][i] = "failed"
                 PROVE  i \in DOMAIN results[t] /\ results[t][i] = "failed"
      BY DEF StaysQuiet
    <3>1. results[t] \in Seq(Status \cup {"started"}) /\ DOMAIN results = Test
      BY DEF Inv, TypeOK
    <3>2. CASE results'[t] = results[t]
      BY <3>2
    <3>3. CASE results'[t] = Append(results[t], "started")
      <4>1. /\ Append(results[t], "started")[Len(results[t]) + 1] = "started"
            /\ \A n \in DOMAIN Append(results[t], "started") :
                 n = Len(results[t]) + 1 \/ (n \in DOMAIN results[t] /\ Append(results[t], "started")[n] = results[t][n])
        BY <3>1, AppendFacts
      <4> QED
        BY <3>3, <4>1
    <3> QED
      BY <2>2, <3>1, <3>2, <3>3
  <2> QED
    BY <1>3, <2>1, <2>2, OnTestBeginFacts
<1>4. CASE OnTestEnd /\ UNCHANGED setting
  <2> DEFINE m == wire[1]
             t == m.test
  <2>1. /\ m \in Message /\ m.method = "testEnd" /\ t \in Test
        /\ results' = EndOf(m).results \/ results' = results
    BY <1>4, OnTestEndFacts
  <2>2. TypeOK
    BY DEF Inv
  <2>3. EndOf(m).results = [results EXCEPT ![t] = WithLast(results[t], ReportedStatus(m))]
    BY <2>1, <2>2, EndOfFacts
  <2>4. ReportedStatus(m) = "interrupted"
    BY DEF ReportedStatus
  <2> HIDE DEF m, t
  <2>5. CASE results' = [results EXCEPT ![t] = WithLast(results[t], "interrupted")]
    <3> SUFFICES ASSUME NEW u \in Test, NEW i \in DOMAIN results'[u], results'[u][i] = "failed"
                 PROVE  i \in DOMAIN results[u] /\ results[u][i] = "failed"
      BY DEF StaysQuiet
    <3>1. CASE results'[u] = results[u]
      BY <3>1
    <3>2. CASE results'[u] = WithLast(results[u], "interrupted")
      <4>1. /\ DOMAIN WithLast(results[u], "interrupted") = DOMAIN results[u]
            /\ i \in DOMAIN results[u] => WithLast(results[u], "interrupted")[i] \in {"interrupted", results[u][i]}
        BY <2>2 DEF WithLast, TypeOK
      <4> QED
        BY <3>2, <4>1
    <3> QED
      BY <2>1, <2>2, <2>5, <3>1, <3>2 DEF TypeOK
  <2> QED
    BY <1>1, <2>1, <2>3, <2>4, <2>5
<1>5. CASE OnDone /\ UNCHANGED setting
  <2> DEFINE p == wire[1].payload
  <2>1. /\ phase = "running" /\ wire # <<>> /\ wire[1].method \in {"done", "exit"} /\ p \in Payload
        /\ \/ UNCHANGED <<queue, report_vars, stopped>>
           \/ SettlesTo(p)
    BY <1>5, OnDoneFacts
  <2>2. CASE UNCHANGED <<queue, report_vars, stopped>>
    BY <1>1, <2>2 DEF report_vars
  <2>3. CASE SettlesTo(p)
    <3>1. \A t \in Test \ p.unknown : AfterSuites(p).results[t] = results[t]
      BY <2>1, AfterSuitesFacts
    <3>2. p.unknown \subseteq NotFound
      <4>1. Head(wire) = wire[1] /\ 1 \in DOMAIN wire /\ ExitsOK
        BY <2>1, InvFields DEF FieldsOfInv
      <4>2. wire[1].method = "exit" => p.unknown = {}
        BY <4>1 DEF ExitsOK
      <4> QED
        BY <2>1, <4>1, <4>2 DEF NotFound
    <3> QED
      BY <2>3, <3>1, <3>2 DEF SettlesTo, StaysQuiet
  <2> QED
    BY <2>1, <2>2, <2>3
<1>6. CASE RunInWorker \/ WorkerDoesNotStart \/ RunIsOver
  BY <1>1, <1>6 DEF RunInWorker, WorkerDoesNotStart, RunIsOver, StartJob, report_vars
<1>7. CASE WorkerGoesOn
  BY <1>1, <1>7 DEF WorkerGoesOn, LoadFile, PassOverTest, BeginTest, FinishTest, EndTest, FinishGroup, runner_vars, report_vars
<1>8. CASE Fault
  <2>1. CASE WorkerDoesNotStart
    BY <1>1, <2>1 DEF WorkerDoesNotStart, StartJob, report_vars
  <2>2. CASE FailElsewhere \/ StopRun
    BY <1>1, <2>2 DEF FailElsewhere, StopRun, report_vars
  <2>3. CASE UNCHANGED runner_vars
    BY <1>1, <2>3 DEF runner_vars, report_vars
  <2>4. FailToLoadFile \/ MissTests \/ ThrowInTest \/ ThrowBetweenTests \/ ReceiveStop \/ Crash \/ Kill => UNCHANGED runner_vars
    BY DEF FailToLoadFile, MissTests, ThrowInTest, ThrowBetweenTests, ReceiveStop, Crash, Kill, ProcessExits
  <2>5. FailTest \/ FailForGood \/ SkipItself \/ FailHook => UNCHANGED runner_vars
    BY Zenon DEF FailTest, FailForGood, SkipItself, FailHook, runner_vars
  <2> QED
    BY <1>8, <2>1, <2>2, <2>3, <2>4, <2>5 DEF Fault
<1> QED
  BY <1>1, <1>2, <1>3, <1>4, <1>5, <1>6, <1>7, <1>8 DEF Next, RunnerStarts, RunnerHandles, Terminated, vars, report_vars

(* _onTestEnd, _massSkipTestsFromRemaining and skipWholeJob: once            *)
(* maxFailures is reached, no test is reported as failed any more, except    *)
(* those the worker did not find.                                            *)
THEOREM QuietAfterMax == Spec => NoFailureAfterMax
<1>1. Inv /\ [Next]_vars => [ReachedMaxFailures(failedCount) => StaysQuiet]_vars
  BY StepStaysQuiet
<1>2. Spec => [][ReachedMaxFailures(failedCount) => StaysQuiet]_vars
  BY <1>1, InvHolds, PTL DEF Spec
<1> QED
  BY <1>2 DEF NoFailureAfterMax, StaysQuiet

(***************************************************************************)
(* No snapshot is missing.                                                 *)
(***************************************************************************)
(* The worker at the end of a test and its hooks, before AfterTest.          *)
HooksDone(w) ==
  /\ w \in Worker /\ worker' = AfterTest(w)
  /\ w.test = worker.test /\ w.todo = worker.todo /\ w.stopped = worker.stopped
  /\ w.nonRetriable = worker.nonRetriable \/ "snapshot" \in Faults
  /\ w.skip = worker.skip \/ w.status = "failed"
  /\ \/ w.status = worker.status /\ w.expected = worker.expected
     \/ w.status = "failed" /\ w.expected = worker.expected
     \/ w.status = "skipped" /\ w.expected = "skipped"

LEMMA TestStepFacts ==
  ASSUME Inv, FinishTest \/ FailTest \/ FailForGood \/ SkipItself \/ FailHook
  PROVE  /\ \E w \in Worker : HooksDone(w)
         /\ worker.phase = "test" /\ UNCHANGED <<runner_vars, wire>>
<1>1. worker \in Worker /\ worker.hooked \subseteq SetupSuite /\ worker.skip \subseteq Test
  BY DEF Inv, TypeOK, Worker
<1>2. CASE FinishTest
  <2> DEFINE w == IF worker.status = "passed"
                  THEN [worker EXCEPT !.hooked = @ \cup HooksOf(worker.test)] ELSE worker
  <2>1. /\ w \in Worker /\ w.test = worker.test /\ w.todo = worker.todo /\ w.stopped = worker.stopped
        /\ w.nonRetriable = worker.nonRetriable /\ w.status = worker.status /\ w.expected = worker.expected
        /\ w.skip = worker.skip
    BY <1>1, HooksFacts DEF Worker
  <2>2. worker' = AfterTest(w) /\ worker.phase = "test" /\ UNCHANGED <<runner_vars, wire>>
    BY <1>2 DEF FinishTest
  <2> HIDE DEF w
  <2> QED
    BY <2>1, <2>2 DEF HooksDone
<1>3. CASE FailTest
  <2> DEFINE w == [worker EXCEPT !.status = "failed", !.hooked = @ \cup HooksOf(worker.test)]
  <2>1. /\ w \in Worker /\ w.test = worker.test /\ w.todo = worker.todo /\ w.stopped = worker.stopped
        /\ w.nonRetriable = worker.nonRetriable /\ w.status = "failed" /\ w.expected = worker.expected
    BY <1>1, HooksFacts DEF Worker, Status
  <2>2. worker' = AfterTest(w) /\ worker.phase = "test" /\ UNCHANGED <<runner_vars, wire>>
    BY <1>3 DEF FailTest
  <2> HIDE DEF w
  <2> QED
    BY <2>1, <2>2 DEF HooksDone
<1>4. CASE FailForGood
  <2> DEFINE w == [worker EXCEPT !.status = "failed", !.nonRetriable = TRUE,
                                 !.hooked = @ \cup HooksOf(worker.test)]
  <2>1. /\ w \in Worker /\ w.test = worker.test /\ w.todo = worker.todo /\ w.stopped = worker.stopped
        /\ w.status = "failed" /\ w.expected = worker.expected
    BY <1>1, HooksFacts DEF Worker, Status
  <2>2. worker' = AfterTest(w) /\ worker.phase = "test" /\ UNCHANGED <<runner_vars, wire>> /\ "snapshot" \in Faults
    BY <1>4 DEF FailForGood
  <2> HIDE DEF w
  <2> QED
    BY <2>1, <2>2 DEF HooksDone
<1>5. CASE SkipItself
  <2> DEFINE w == [worker EXCEPT !.status = "skipped", !.expected = "skipped",
                                 !.hooked = @ \cup HooksOf(worker.test)]
  <2>1. /\ w \in Worker /\ w.test = worker.test /\ w.todo = worker.todo /\ w.stopped = worker.stopped
        /\ w.nonRetriable = worker.nonRetriable /\ w.status = "skipped" /\ w.expected = "skipped"
        /\ w.skip = worker.skip
    BY <1>1, HooksFacts DEF Worker, Status
  <2>2. worker' = AfterTest(w) /\ worker.phase = "test" /\ UNCHANGED <<runner_vars, wire>>
    BY <1>5 DEF SkipItself
  <2> HIDE DEF w
  <2> QED
    BY <2>1, <2>2 DEF HooksDone
<1>6. CASE FailHook
  <2>1. PICK suite \in HooksOf(worker.test) \ worker.hooked :
          worker' = AfterTest([worker EXCEPT !.status = "failed",
                                             !.skip = IF @ = {} THEN suite ELSE @,
                                             !.hooked = @ \cup HooksOf(worker.test)])
    BY <1>6 DEF FailHook
  <2> DEFINE skip == IF worker.skip = {} THEN suite ELSE worker.skip
             hooked == worker.hooked \cup HooksOf(worker.test)
             w == [worker EXCEPT !.status = "failed", !.skip = skip, !.hooked = hooked]
  <2>2. suite \subseteq Test /\ hooked \in SUBSET SetupSuite
    BY <1>1, HooksFacts
  <2>3. skip \in SUBSET Test
    BY <1>1, <2>2
  <2>5. worker' = AfterTest(w) /\ worker.phase = "test" /\ UNCHANGED <<runner_vars, wire>>
    <3>1. worker' = AfterTest(w)
      BY <2>1
    <3>2. worker.phase = "test" /\ UNCHANGED <<runner_vars, wire>>
      BY <1>6, Zenon DEF FailHook
    <3> QED
      BY <3>1, <3>2
  <2> HIDE DEF skip, hooked
  <2>4. /\ w.test = worker.test /\ w.todo = worker.todo /\ w.stopped = worker.stopped
        /\ w.nonRetriable = worker.nonRetriable /\ w.status = "failed" /\ w.expected = worker.expected
    BY <1>1 DEF Worker
  <2>6. w \in Worker
    BY <1>1, <2>2, <2>3 DEF Worker, Status
  <2> HIDE DEF w
  <2> QED
    BY <2>4, <2>5, <2>6 DEF HooksDone
<1> QED
  BY <1>2, <1>3, <1>4, <1>5, <1>6

(* What the other steps of the worker do: they send messages and leave the   *)
(* runner alone.                                                             *)
LEMMA SendingFacts ==
  ASSUME Inv
  PROVE  /\ PassOverTest =>
              /\ worker.phase = "between" /\ worker.todo # {} /\ FirstOf(worker) \in Test
              /\ Expected[FirstOf(worker)] = "skipped"
              /\ \E b, e \in Message :
                   /\ b = BeginMessage(FirstOf(worker)) /\ e = EndMessage(FirstOf(worker), "skipped", "skipped", FALSE)
                   /\ wire' = (wire \o <<b>>) \o <<e>>
              /\ worker' = [worker EXCEPT !.todo = @ \ {FirstOf(worker)}]
         /\ BeginTest =>
              /\ worker.phase = "between" /\ worker.todo # {} /\ FirstOf(worker) \in Test
              /\ BeginMessage(FirstOf(worker)) \in Message /\ wire' = wire \o <<BeginMessage(FirstOf(worker))>>
              /\ worker' \in Worker /\ worker'.phase = "test" /\ worker'.test = FirstOf(worker)
              /\ worker'.todo = worker.todo \ {FirstOf(worker)}
              /\ worker'.skip = worker.skip /\ ~(worker.stopped /\ worker.cleaned)
              /\ ~worker'.nonRetriable /\ worker'.stopped = worker.stopped
              /\ worker'.status = (IF worker.stopped \/ Expected[FirstOf(worker)] = "skipped" THEN "skipped" ELSE "passed")
              /\ worker'.expected = Expected[FirstOf(worker)]
         /\ EndTest =>
              /\ worker.phase = "tail" /\ worker.test \in Test
              /\ \E e \in Message :
                   /\ e = EndMessage(worker.test, worker.status, worker.expected, worker.nonRetriable)
                   /\ wire' = wire \o <<e>>
              /\ worker' = [worker EXCEPT !.phase = "between", !.test = NoTest]
         /\ PassOverTest \/ BeginTest \/ EndTest => UNCHANGED runner_vars
<1>1. worker \in Worker /\ WorkerTestOK /\ setting \in Setting /\ wire \in Seq(Message)
  BY InvFields DEF FieldsOfInv
<1> DEFINE t == FirstOf(worker)
<1>2. ASSUME PassOverTest
      PROVE  /\ worker.phase = "between" /\ worker.todo # {} /\ t \in Test
             /\ Expected[t] = "skipped"
             /\ \E b, e \in Message :
                  /\ b = BeginMessage(t) /\ e = EndMessage(t, "skipped", "skipped", FALSE)
                  /\ wire' = (wire \o <<b>>) \o <<e>>
             /\ worker' = [worker EXCEPT !.todo = @ \ {t}] /\ UNCHANGED runner_vars
  <2> DEFINE b == BeginMessage(t)
             e == EndMessage(t, "skipped", "skipped", FALSE)
  <2>1. /\ worker.phase = "between" /\ worker.todo # {}
        /\ wire' = wire \o <<b, e>> /\ worker' = [worker EXCEPT !.todo = @ \ {t}]
        /\ UNCHANGED runner_vars /\ Expected[t] = "skipped"
    BY <1>2 DEF PassOverTest, KeepsRunning, Send
  <2>2. t \in Test
    BY <1>1, <2>1, FirstFacts
  <2>3. b \in Message
    BY <2>2, MessageFacts
  <2>4. e \in Message
    BY <2>2 DEF EndMessage, Message, Status
  <2> HIDE DEF b, e, t
  <2>5. <<b, e>> = <<b>> \o <<e>> /\ <<b>> \in Seq(Message) /\ <<e>> \in Seq(Message)
    <3>1. <<b>> \in Seq(Message) /\ <<e>> \in Seq(Message)
      BY <2>3, <2>4
    <3>2. Append(<<b>>, e) = <<b>> \o <<e>>
      BY <2>4, <3>1, AppendIsConcat
    <3>3. /\ Append(<<b>>, e) \in Seq(Message) /\ Len(Append(<<b>>, e)) = 2
          /\ Append(<<b>>, e)[1] = b /\ Append(<<b>>, e)[2] = e
      BY <2>4, <3>1, AppendProperties
    <3>4. <<b, e>> \in Seq(Message) /\ Len(<<b, e>>) = 2
      BY <2>3, <2>4
    <3>5. <<b, e>> = Append(<<b>>, e)
      BY <3>3, <3>4, SeqEqual
    <3> QED
      BY <3>1, <3>2, <3>5
  <2>6. (wire \o <<b>>) \o <<e>> = wire \o (<<b>> \o <<e>>)
    BY <1>1, <2>5, ConcatAssociative
  <2> QED
    BY <2>1, <2>2, <2>3, <2>4, <2>5, <2>6 DEF b, e
<1>3. ASSUME BeginTest
      PROVE  /\ worker.phase = "between" /\ worker.todo # {} /\ t \in Test
             /\ BeginMessage(t) \in Message /\ wire' = wire \o <<BeginMessage(t)>>
             /\ worker' \in Worker /\ worker'.phase = "test" /\ worker'.test = t
             /\ worker'.todo = worker.todo \ {t}
             /\ worker'.skip = worker.skip /\ ~(worker.stopped /\ worker.cleaned)
             /\ ~worker'.nonRetriable /\ worker'.stopped = worker.stopped
             /\ worker'.status = (IF worker.stopped \/ Expected[t] = "skipped" THEN "skipped" ELSE "passed")
             /\ worker'.expected = Expected[t]
             /\ UNCHANGED runner_vars
  <2>1. /\ worker.phase = "between" /\ worker.todo # {} /\ wire' = wire \o <<BeginMessage(t)>> /\ UNCHANGED runner_vars
        /\ ~(worker.stopped /\ worker.cleaned)
    BY <1>3 DEF BeginTest, KeepsRunning, Send
  <2>2. t \in Test
    BY <1>1, <2>1, FirstFacts
  <2>3. Expected[t] \in {"passed", "failed", "skipped"}
    BY <1>1, <2>2, SettingAssumption DEF Expected
  <2>4. worker' = [worker EXCEPT !.phase = "test", !.todo = @ \ {t}, !.test = t, !.expected = Expected[t],
              !.nonRetriable = FALSE,
              !.status = IF worker.stopped \/ Expected[t] = "skipped" THEN "skipped" ELSE "passed"]
    BY <1>3 DEF BeginTest
  <2>5. BeginMessage(t) \in Message
    BY <2>2, MessageFacts
  <2> HIDE DEF t
  <2>6. /\ worker' \in Worker /\ worker'.phase = "test" /\ worker'.test = t
        /\ worker'.todo = worker.todo \ {t} /\ worker'.skip = worker.skip
        /\ ~worker'.nonRetriable /\ worker'.stopped = worker.stopped
        /\ worker'.status = (IF worker.stopped \/ Expected[t] = "skipped" THEN "skipped" ELSE "passed")
        /\ worker'.expected = Expected[t]
    BY <1>1, <2>2, <2>3, <2>4 DEF Worker, Status
  <2> QED
    BY <2>1, <2>2, <2>5, <2>6
<1>4. ASSUME EndTest
      PROVE  /\ worker.phase = "tail" /\ worker.test \in Test
             /\ \E e \in Message :
                  /\ e = EndMessage(worker.test, worker.status, worker.expected, worker.nonRetriable)
                  /\ wire' = wire \o <<e>>
             /\ worker' = [worker EXCEPT !.phase = "between", !.test = NoTest]
             /\ UNCHANGED runner_vars
  <2> DEFINE e == EndMessage(worker.test, worker.status, worker.expected, worker.nonRetriable)
  <2>1. worker.phase = "tail" /\ wire' = wire \o <<e>> /\ UNCHANGED runner_vars
        /\ worker' = [worker EXCEPT !.phase = "between", !.test = NoTest]
    BY <1>4 DEF EndTest, Send
  <2>2. worker.test \in Test /\ worker.status \in Status /\ worker.expected \in Expects /\ worker.nonRetriable \in BOOLEAN
    BY <1>1, <2>1 DEF WorkerTestOK, Worker, Expects
  <2>3. e \in Message
    BY <2>2, MessageFacts
  <2> QED
    BY <2>1, <2>2, <2>3
<1> QED
  BY <1>2, <1>3, <1>4

LEMMA DoneFacts ==
  ASSUME Inv, FailToLoadFile \/ MissTests \/ FinishGroup
  PROVE  /\ worker.phase \in {"loading", "between"} /\ UNCHANGED runner_vars
         /\ \E m \in Message : m.method = "done" /\ wire' = wire \o <<m>> /\ m.payload.skip \subseteq worker.skip
         /\ worker' \in Worker /\ worker'.phase = "idle"
         /\ worker'.nonRetriable = worker.nonRetriable
<1>1. worker \in Worker
  BY InvFields DEF FieldsOfInv
<1>2. ASSUME NEW w \in Worker, w.nonRetriable = worker.nonRetriable, w.skip = worker.skip, NEW unknown \in SUBSET Test, Done(w, unknown)
      PROVE  /\ \E m \in Message : m.method = "done" /\ wire' = wire \o <<m>> /\ m.payload.skip \subseteq worker.skip
             /\ worker' \in Worker /\ worker'.phase = "idle"
             /\ worker'.nonRetriable = worker.nonRetriable
  <2> DEFINE payload == [fatal |-> w.fatal, skip |-> w.skip \cap w.todo, unknown |-> unknown,
                         unhandled |-> w.unhandled, unexpected |-> FALSE]
             m == DoneMessage("done", payload)
  <2>1. wire' = wire \o <<m>> /\ worker' = [w EXCEPT !.phase = "idle", !.fatal = FALSE, !.skip = {}]
    BY <1>2 DEF Done, Send
  <2>2. payload \in Payload /\ payload.skip \subseteq worker.skip
    BY <1>2 DEF Payload, Worker
  <2>3. m \in Message /\ m.method = "done" /\ m.payload = payload
    BY <2>2, MessageFacts
  <2>4. worker' \in Worker /\ worker'.phase = "idle" /\ worker'.nonRetriable = w.nonRetriable
    BY <1>2, <2>1 DEF Worker
  <2> HIDE DEF m, payload
  <2> QED
    BY <1>2, <2>1, <2>2, <2>3, <2>4
<1>3. CASE FailToLoadFile
  <2> DEFINE w == [worker EXCEPT !.fatal = TRUE, !.stopped = TRUE]
  <2>1. w \in Worker /\ w.nonRetriable = worker.nonRetriable /\ w.skip = worker.skip
    BY <1>1 DEF Worker
  <2>2. Done(w, {}) /\ worker.phase = "loading" /\ UNCHANGED runner_vars
    BY <1>3 DEF FailToLoadFile
  <2> HIDE DEF w
  <2> QED
    BY <1>2, <2>1, <2>2
<1>4. CASE MissTests
  <2> DEFINE w == [worker EXCEPT !.stopped = TRUE]
  <2>1. w \in Worker /\ w.nonRetriable = worker.nonRetriable /\ w.skip = worker.skip /\ worker.todo \subseteq Test
    BY <1>1 DEF Worker
  <2>2. PICK unknown \in SUBSET worker.todo \ {{}} : Done(w, unknown)
    BY <1>4 DEF MissTests
  <2>3. worker.phase = "loading" /\ UNCHANGED runner_vars /\ unknown \in SUBSET Test
    BY <1>4, <2>1, <2>2 DEF MissTests
  <2> HIDE DEF w
  <2> QED
    BY <1>2, <2>1, <2>2, <2>3
<1>5. CASE FinishGroup
  BY <1>1, <1>2, <1>5 DEF FinishGroup
<1> QED
  BY <1>3, <1>4, <1>5

LEMMA ExitFacts ==
  ASSUME Inv, ProcessExits
  PROVE  /\ worker.phase # "none" /\ phase = "running" /\ worker' = NoWorker /\ UNCHANGED runner_vars
         /\ \E n \in 0..Len(wire) : \E m \in Message :
              /\ m.method = "exit" /\ wire' = SubSeq(wire, 1, n) \o <<m>>
              /\ m.payload.unexpected = ~worker.asked /\ m.payload.unknown = {} /\ m.payload.skip = {}
              /\ ~m.payload.fatal /\ ~m.payload.unhandled
<1>1. worker \in Worker /\ wire \in Seq(Message)
  BY InvFields DEF FieldsOfInv
<1>2. worker.phase # "none" /\ worker' = NoWorker /\ UNCHANGED runner_vars
  BY DEF ProcessExits
<1>3. phase = "running"
  BY <1>2, WorkerIsRunning DEF Inv
<1> DEFINE payload == [Nothing EXCEPT !.unexpected = ~worker.asked]
           m == DoneMessage("exit", payload)
<1>4. /\ payload \in Payload /\ payload.unknown = {} /\ payload.unexpected = ~worker.asked
      /\ payload.skip = {} /\ ~payload.fatal /\ ~payload.unhandled
  BY <1>1 DEF Payload, Nothing, Worker
<1>5. m \in Message /\ m.method = "exit" /\ m.payload = payload
  BY <1>4, MessageFacts
<1>6. PICK n \in 0..Len(wire) : wire' = Append(SubSeq(wire, 1, n), m)
  BY DEF ProcessExits
<1> HIDE DEF m, payload
<1>7. SubSeq(wire, 1, n) \in Seq(Message)
  BY <1>1
<1>8. wire' = SubSeq(wire, 1, n) \o <<m>>
  BY <1>5, <1>6, <1>7, AppendIsConcat
<1> QED
  BY <1>2, <1>3, <1>4, <1>5, <1>8

LEMMA RetriableFacts ==
  ASSUME NEW w \in Seq(Message), Retriable(w)
  PROVE  /\ \A m \in Message : (m.method = "testEnd" => ~m.nonRetriable) => Retriable(w \o <<m>>)
         /\ \A m \in Message : w \o <<m>> \in Seq(Message)
         /\ w # <<>> => Retriable(Tail(w))
         /\ \A n \in 0..Len(w) : SubSeq(w, 1, n) \in Seq(Message) /\ Retriable(SubSeq(w, 1, n))
<1>1. ASSUME NEW m \in Message, m.method = "testEnd" => ~m.nonRetriable
      PROVE  Retriable(w \o <<m>>)
  <2>1. \A i \in DOMAIN (w \o <<m>>) : (i \in DOMAIN w /\ (w \o <<m>>)[i] = w[i]) \/ (w \o <<m>>)[i] = m
    OBVIOUS
  <2> QED
    BY <1>1, <2>1 DEF Retriable
<1>2. ASSUME w # <<>> PROVE Retriable(Tail(w))
  <2>1. \A i \in DOMAIN Tail(w) : i + 1 \in DOMAIN w /\ Tail(w)[i] = w[i + 1]
    BY <1>2
  <2> QED
    BY <2>1 DEF Retriable
<1>3. ASSUME NEW n \in 0..Len(w) PROVE SubSeq(w, 1, n) \in Seq(Message) /\ Retriable(SubSeq(w, 1, n))
  <2>1. SubSeq(w, 1, n) \in Seq(Message) /\ \A i \in DOMAIN SubSeq(w, 1, n) : i \in DOMAIN w /\ SubSeq(w, 1, n)[i] = w[i]
    OBVIOUS
  <2> QED
    BY <2>1 DEF Retriable
<1>4. \A m \in Message : w \o <<m>> \in Seq(Message)
  OBVIOUS
<1> QED
  BY <1>1, <1>2, <1>3, <1>4

LEMMA SnapshotsStep ==
  ASSUME Inv, SnapshotsOK, [Next]_vars
  PROVE  SnapshotsOK'
<1>1. CASE UNCHANGED vars
  BY <1>1 DEF vars, job_vars, SnapshotsOK, Retriable, Faults
<1>2. ASSUME ~UNCHANGED vars PROVE setting' = setting
  BY <1>2 DEF Next, RunnerStarts, RunnerHandles, WorkerGoesOn, Fault, Terminated
<1> SUFFICES ASSUME setting' = setting, "snapshot" \notin Faults
             PROVE  nonRetriable' = {} /\ ~worker'.nonRetriable /\ Retriable(wire')
  BY <1>1, <1>2 DEF SnapshotsOK, Retriable, Faults
<1>3. /\ nonRetriable = {} /\ ~worker.nonRetriable /\ Retriable(wire) /\ wire \in Seq(Message) /\ worker \in Worker
      /\ IdleOK
  BY InvFields DEF SnapshotsOK, FieldsOfInv
<1>4. ~NoWorker.nonRetriable
  BY DEF NoWorker
<1>5. CASE SkipWholeJob \/ RunIsOver \/ StopRun \/ FailElsewhere
  <2>1. UNCHANGED <<nonRetriable, wire>>
    BY <1>5, Zenon DEF SkipWholeJob, RunIsOver, StopRun, FailElsewhere, job_vars
  <2>2. worker' = worker \/ \E stop \in BOOLEAN : worker' = AskedToStop(worker, stop)
    BY <1>5, Zenon DEF SkipWholeJob, RunIsOver, StopRun, FailElsewhere, StopsRun
  <2> QED
    BY <1>3, <2>1, <2>2, AskedFacts
<1>6. CASE RunInWorker \/ WorkerDoesNotStart
  <2>1. nonRetriable' = {}
    BY <1>6, Zenon DEF RunInWorker, WorkerDoesNotStart, StartJob
  <2>2. CASE RunInWorker
    <3>1. worker' = [NoWorker EXCEPT !.phase = "loading", !.todo = ToSet(Head(queue))] /\ wire' = <<>>
      BY <2>2 DEF RunInWorker
    <3>2. worker'.nonRetriable = NoWorker.nonRetriable
      BY <3>1, NoWorkerFacts DEF Worker
    <3> QED
      BY <1>4, <2>1, <3>1, <3>2 DEF Retriable
  <2>3. CASE WorkerDoesNotStart
    <3> DEFINE m == DoneMessage("exit", [Nothing EXCEPT !.unexpected = TRUE])
    <3>1. worker' = NoWorker /\ wire' = <<m>>
      BY <2>3 DEF WorkerDoesNotStart
    <3>2. m.method = "exit"
      BY DEF DoneMessage
    <3> HIDE DEF m
    <3> QED
      BY <1>4, <2>1, <3>1, <3>2 DEF Retriable
  <2> QED
    BY <1>6, <2>2, <2>3
<1>7. CASE OnTestBegin
  <2>1. UNCHANGED <<nonRetriable, worker>> /\ wire # <<>> /\ wire' = Tail(wire)
    BY <1>7 DEF OnTestBegin
  <2> QED
    BY <1>3, <2>1, RetriableFacts
<1>8. CASE OnTestEnd
  <2>1. /\ wire # <<>> /\ wire[1].method = "testEnd" /\ wire' = Tail(wire)
        /\ nonRetriable' = (IF wire[1].nonRetriable THEN nonRetriable \cup {wire[1].test} ELSE nonRetriable)
           \/ nonRetriable' = nonRetriable
        /\ (worker' = AskedToStop(worker, stopped') /\ stopped' = StopsRun(failedCount')) \/ worker' = worker
    BY <1>8, OnTestEndFacts
  <2>2. 1 \in DOMAIN wire
    BY <1>3, <2>1
  <2>3. ~wire[1].nonRetriable
    BY <1>3, <2>1, <2>2 DEF Retriable
  <2>4. ~worker'.nonRetriable
    <3>1. StopsRun(failedCount') \in BOOLEAN
      BY DEF StopsRun, Inv, TypeOK
    <3> QED
      BY <1>3, <2>1, <3>1, AskedFacts
  <2> QED
    BY <1>3, <2>1, <2>3, <2>4, RetriableFacts
<1>9. CASE OnDone
  <2>1. nonRetriable' = {} /\ worker' = NoWorker /\ wire' = <<>>
    BY <1>9, OnDoneFacts DEF JobOver
  <2> QED
    BY <1>4, <2>1 DEF Retriable
<1>10. CASE LoadFile \/ ThrowInTest \/ ThrowBetweenTests \/ ReceiveStop
  <2>1. UNCHANGED <<runner_vars, wire>> /\ worker'.nonRetriable = worker.nonRetriable
    BY <1>3, <1>10 DEF LoadFile, ThrowInTest, ThrowBetweenTests, ReceiveStop, Worker
  <2> QED
    BY <1>3, <2>1 DEF runner_vars, job_vars
<1>11. CASE FinishTest \/ FailTest \/ FailForGood \/ SkipItself \/ FailHook
  <2>1. PICK w \in Worker : HooksDone(w)
    BY <1>11, TestStepFacts
  <2>2. UNCHANGED <<runner_vars, wire>>
    BY <1>11, TestStepFacts
  <2>3. worker'.nonRetriable = w.nonRetriable /\ w.nonRetriable = worker.nonRetriable
    BY <2>1, AfterTestFacts DEF HooksDone
  <2> QED
    BY <1>3, <2>2, <2>3 DEF runner_vars, job_vars
<1>12. CASE PassOverTest \/ BeginTest \/ EndTest
  <2>1. UNCHANGED nonRetriable
    BY <1>12, SendingFacts DEF runner_vars, job_vars
  <2>2. ~worker'.nonRetriable
    BY <1>3, <1>12, SendingFacts DEF Worker
  <2>3. CASE PassOverTest
    <3>1. PICK b, e \in Message :
             /\ b = BeginMessage(FirstOf(worker)) /\ e = EndMessage(FirstOf(worker), "skipped", "skipped", FALSE)
             /\ wire' = (wire \o <<b>>) \o <<e>>
      BY <2>3, SendingFacts
    <3>2. b.method # "testEnd" /\ ~e.nonRetriable
      BY <3>1 DEF BeginMessage, EndMessage
    <3>3. Retriable(wire \o <<b>>) /\ wire \o <<b>> \in Seq(Message)
      BY <1>3, <3>2, RetriableFacts
    <3>4. Retriable(wire')
      BY <3>1, <3>2, <3>3, RetriableFacts
    <3> QED
      BY <1>3, <2>1, <2>2, <3>4
  <2>4. CASE BeginTest
    <3>1. BeginMessage(FirstOf(worker)) \in Message /\ BeginMessage(FirstOf(worker)).method # "testEnd"
          /\ wire' = wire \o <<BeginMessage(FirstOf(worker))>>
      BY <2>4, SendingFacts DEF BeginMessage
    <3> QED
      BY <1>3, <2>1, <2>2, <3>1, RetriableFacts
  <2>5. CASE EndTest
    <3>1. PICK e \in Message :
             /\ e = EndMessage(worker.test, worker.status, worker.expected, worker.nonRetriable)
             /\ wire' = wire \o <<e>>
      BY <2>5, SendingFacts
    <3>2. ~e.nonRetriable
      BY <1>3, <3>1 DEF EndMessage
    <3> QED
      BY <1>3, <2>1, <2>2, <3>1, <3>2, RetriableFacts
  <2> QED
    BY <1>12, <2>3, <2>4, <2>5
<1>13. CASE FailToLoadFile \/ MissTests \/ FinishGroup
  <2>1. UNCHANGED nonRetriable /\ ~worker'.nonRetriable
    BY <1>3, <1>13, DoneFacts DEF runner_vars, job_vars
  <2>2. PICK m \in Message : m.method = "done" /\ wire' = wire \o <<m>>
    BY <1>13, DoneFacts
  <2> QED
    BY <1>3, <2>1, <2>2, RetriableFacts
<1>14. CASE ProcessExits
  <2>1. UNCHANGED nonRetriable /\ ~worker'.nonRetriable
    BY <1>3, <1>4, <1>14, ExitFacts DEF runner_vars, job_vars
  <2>2. PICK n \in 0..Len(wire) : \E m \in Message : m.method = "exit" /\ wire' = SubSeq(wire, 1, n) \o <<m>>
    BY <1>14, ExitFacts
  <2>3. PICK m \in Message : m.method = "exit" /\ wire' = SubSeq(wire, 1, n) \o <<m>>
    BY <2>2
  <2>4. SubSeq(wire, 1, n) \in Seq(Message) /\ Retriable(SubSeq(wire, 1, n))
    BY <1>3, RetriableFacts
  <2> QED
    BY <1>3, <2>1, <2>3, <2>4, RetriableFacts
<1>15. CASE UNCHANGED vars
  BY <1>3, <1>15 DEF vars, job_vars
<1> QED
  BY <1>5, <1>6, <1>7, <1>8, <1>9, <1>10, <1>11, <1>12, <1>13, <1>14, <1>15
     DEF Next, RunnerStarts, RunnerHandles, WorkerGoesOn, Fault, Terminated, Crash, Kill

(***************************************************************************)
(* How the queue is put together.                                          *)
(***************************************************************************)
LEMMA ConcatJobs ==
  ASSUME NEW a \in Seq(Seq(Test)), NEW b \in Seq(Seq(Test))
  PROVE  /\ a \o b \in Seq(Seq(Test))
         /\ AllOf(a \o b) = AllOf(a) \cup AllOf(b)
         /\ \A S : InOne(a, S) /\ InOne(b, S) /\ (AllOf(a) \cap S = {} \/ AllOf(b) \cap S = {}) => InOne(a \o b, S)
         /\ EachOnce(a) /\ EachOnce(b) /\ AllOf(a) \cap AllOf(b) = {} => EachOnce(a \o b)
<1> DEFINE c == a \o b
<1>1. /\ c \in Seq(Seq(Test)) /\ Len(c) = Len(a) + Len(b) /\ Len(a) \in Nat /\ Len(b) \in Nat
      /\ DOMAIN c = 1..(Len(a) + Len(b)) /\ DOMAIN a = 1..Len(a) /\ DOMAIN b = 1..Len(b)
      /\ \A i \in 1..Len(a) : c[i] = a[i]
      /\ \A i \in 1..Len(b) : c[i + Len(a)] = b[i]
  BY ConcatProperties
<1> HIDE DEF c
<1>2. \A i \in DOMAIN c : \/ i \in DOMAIN a /\ c[i] = a[i]
                          \/ i > Len(a) /\ i - Len(a) \in DOMAIN b /\ c[i] = b[i - Len(a)]
  <2> TAKE i \in DOMAIN c
  <2>1. CASE i <= Len(a)
    BY <1>1, <2>1
  <2>2. CASE i > Len(a)
    <3>2. i \in 1..(Len(a) + Len(b)) /\ Len(a) \in Nat /\ Len(b) \in Nat
      BY <1>1
    <3>1. i - Len(a) \in 1..Len(b) /\ (i - Len(a)) + Len(a) = i
      BY ONLY <2>2, <3>2
    <3> QED
      BY <1>1, <2>2, <3>1
  <2> QED
    BY <1>1, <2>1, <2>2
<1>3. AllOf(c) = AllOf(a) \cup AllOf(b)
  <2>1. AllOf(c) \subseteq AllOf(a) \cup AllOf(b)
    BY <1>2 DEF AllOf
  <2>2. AllOf(a) \subseteq AllOf(c)
    BY <1>1 DEF AllOf
  <2>3. AllOf(b) \subseteq AllOf(c)
    <3> SUFFICES ASSUME NEW k \in DOMAIN b PROVE \E i \in DOMAIN c : c[i] = b[k]
      BY DEF AllOf
    <3>1. k \in 1..Len(b) /\ Len(a) \in Nat /\ Len(b) \in Nat
      BY <1>1
    <3>2. k + Len(a) \in 1..(Len(a) + Len(b))
      BY ONLY <3>1
    <3> QED
      BY <1>1, <3>1, <3>2
  <2> QED
    BY <2>1, <2>2, <2>3
<1>4. ASSUME NEW S, InOne(a, S), InOne(b, S), AllOf(a) \cap S = {} \/ AllOf(b) \cap S = {}
      PROVE  InOne(c, S)
  <2> SUFFICES ASSUME NEW i \in DOMAIN c, NEW k \in DOMAIN c, ToSet(c[i]) \cap S # {}, ToSet(c[k]) \cap S # {}
               PROVE  i = k
    BY DEF InOne
  <2>1. CASE AllOf(b) \cap S = {}
    <3>1. i \in DOMAIN a /\ c[i] = a[i] /\ k \in DOMAIN a /\ c[k] = a[k]
      BY <1>2, <2>1 DEF AllOf
    <3> QED
      BY <1>4, <3>1 DEF InOne
  <2>2. CASE AllOf(a) \cap S = {}
    <3>1. /\ i - Len(a) \in DOMAIN b /\ c[i] = b[i - Len(a)]
          /\ k - Len(a) \in DOMAIN b /\ c[k] = b[k - Len(a)]
      BY <1>2, <2>2 DEF AllOf
    <3>2. i - Len(a) = k - Len(a)
      BY <1>4, <3>1 DEF InOne
    <3>3. i \in Int /\ k \in Int /\ Len(a) \in Nat
      BY <1>1
    <3> QED
      BY <3>2, <3>3
  <2> QED
    BY <1>4, <2>1, <2>2
<1>5. ASSUME EachOnce(a), EachOnce(b), AllOf(a) \cap AllOf(b) = {} PROVE EachOnce(c)
  <2>1. \A i \in DOMAIN c : IsInjective(c[i])
    BY <1>2, <1>5 DEF EachOnce
  <2>2. ASSUME NEW t \in Test PROVE InOne(c, {t})
    <3>1. InOne(a, {t}) /\ InOne(b, {t}) /\ (AllOf(a) \cap {t} = {} \/ AllOf(b) \cap {t} = {})
      BY <1>5 DEF EachOnce
    <3> QED
      BY <1>4, <3>1
  <2> QED
    BY <2>1, <2>2 DEF EachOnce
<1> QED
  BY <1>1, <1>3, <1>4, <1>5 DEF c

LEMMA NonEmptyJobs ==
  ASSUME NEW s \in Seq(Test)
  PROVE  /\ NonEmpty(s) \in Seq(Seq(Test)) /\ Len(NonEmpty(s)) <= 1
         /\ AllOf(NonEmpty(s)) = ToSet(s)
         /\ \A S : InOne(NonEmpty(s), S)
         /\ IsInjective(s) => EachOnce(NonEmpty(s))
<1>1. CASE s = <<>>
  BY <1>1 DEF NonEmpty, AllOf, InOne, EachOnce, ToSet
<1>2. CASE s # <<>>
  <2>1. NonEmpty(s) = <<s>>
    BY <1>2 DEF NonEmpty
  <2>2. /\ NonEmpty(s) \in Seq(Seq(Test)) /\ Len(NonEmpty(s)) = 1 /\ DOMAIN NonEmpty(s) = {1}
        /\ NonEmpty(s)[1] = s
    BY <2>1
  <2> QED
    BY <2>2 DEF AllOf, InOne, EachOnce
<1> QED
  BY <1>1, <1>2

LEMMA TailJobs ==
  ASSUME NEW q \in Seq(Seq(Test)), q # <<>>
  PROVE  /\ Tail(q) \in Seq(Seq(Test)) /\ Head(q) \in Seq(Test) /\ Len(Tail(q)) = Len(q) - 1
         /\ AllOf(q) = ToSet(Head(q)) \cup AllOf(Tail(q))
         /\ \A S : InOne(q, S) => InOne(Tail(q), S) /\ (ToSet(Head(q)) \cap S # {} => AllOf(Tail(q)) \cap S = {})
         /\ EachOnce(q) => IsInjective(Head(q)) /\ EachOnce(Tail(q)) /\ ToSet(Head(q)) \cap AllOf(Tail(q)) = {}
<1>1. /\ Tail(q) \in Seq(Seq(Test)) /\ Head(q) \in Seq(Test) /\ Len(Tail(q)) = Len(q) - 1
      /\ Head(q) = q[1] /\ 1 \in DOMAIN q /\ Len(q) \in Nat /\ Len(q) > 0 /\ DOMAIN q = 1..Len(q)
      /\ DOMAIN Tail(q) = 1..(Len(q) - 1)
      /\ \A i \in DOMAIN Tail(q) : Tail(q)[i] = q[i + 1]
  OBVIOUS
<1> DEFINE r == Tail(q)
<1> HIDE DEF r
<1>2. \A i \in DOMAIN r : i + 1 \in DOMAIN q /\ i + 1 # 1 /\ r[i] = q[i + 1] /\ i \in Int
  BY <1>1 DEF r
<1>3. \A i \in DOMAIN q : i = 1 \/ (i - 1 \in DOMAIN r /\ r[i - 1] = q[i])
  <2> SUFFICES ASSUME NEW i \in DOMAIN q, i # 1 PROVE i - 1 \in DOMAIN r /\ r[i - 1] = q[i]
    OBVIOUS
  <2>1. i - 1 \in 1..(Len(q) - 1) /\ (i - 1) + 1 = i
    BY <1>1
  <2> QED
    BY <1>1, <2>1 DEF r
<1>4. AllOf(q) = ToSet(q[1]) \cup AllOf(r)
  <2>1. AllOf(q) \subseteq ToSet(q[1]) \cup AllOf(r)
    BY <1>3 DEF AllOf
  <2>2. ToSet(q[1]) \subseteq AllOf(q) /\ AllOf(r) \subseteq AllOf(q)
    BY <1>1, <1>2 DEF AllOf
  <2> QED
    BY <2>1, <2>2
<1>5. ASSUME NEW S, InOne(q, S) PROVE InOne(r, S) /\ (ToSet(q[1]) \cap S # {} => AllOf(r) \cap S = {})
  <2>1. InOne(r, S)
    <3> SUFFICES ASSUME NEW i \in DOMAIN r, NEW k \in DOMAIN r, ToSet(r[i]) \cap S # {}, ToSet(r[k]) \cap S # {}
                 PROVE  i = k
      BY DEF InOne
    <3>1. i + 1 = k + 1 /\ i \in Int /\ k \in Int
      BY <1>2, <1>5 DEF InOne
    <3> QED
      BY <3>1
  <2>2. ASSUME ToSet(q[1]) \cap S # {}, NEW i \in DOMAIN r PROVE ToSet(r[i]) \cap S = {}
    BY <1>1, <1>2, <1>5, <2>2 DEF InOne
  <2> QED
    BY <2>1, <2>2 DEF AllOf
<1>6. ASSUME EachOnce(q) PROVE IsInjective(q[1]) /\ EachOnce(r) /\ ToSet(q[1]) \cap AllOf(r) = {}
  <2>1. IsInjective(q[1]) /\ \A i \in DOMAIN r : IsInjective(r[i])
    BY <1>1, <1>2, <1>6 DEF EachOnce
  <2>2. \A t \in Test : InOne(r, {t}) /\ (ToSet(q[1]) \cap {t} # {} => AllOf(r) \cap {t} = {})
    BY <1>5, <1>6 DEF EachOnce
  <2>3. ToSet(q[1]) \subseteq Test
    BY <1>1 DEF ToSet
  <2> QED
    BY <2>1, <2>2, <2>3 DEF EachOnce
<1> QED
  BY <1>1, <1>4, <1>5, <1>6 DEF r

(***************************************************************************)
(* Jobs, results and the counter, step by step.                            *)
(***************************************************************************)
LEMMA ExactMeans ==
  ASSUME TypeOK, ExactOK
  PROVE  NoTestTwice /\ RetriesAreBounded /\ CountIsExact
<1>1. NoTestTwice
  <2>1. \A i \in DOMAIN queue : IsInjective(queue[i]) /\ ToSet(queue[i]) \cap ToSet(job) = {}
    BY DEF ExactOK, JobsOK, EachOnce, AllOf
  <2>2. ASSUME NEW i \in DOMAIN queue, NEW k \in DOMAIN queue, i # k
        PROVE  ToSet(queue[i]) \cap ToSet(queue[k]) = {}
    <3>1. ToSet(queue[i]) \subseteq Test
      BY DEF TypeOK, ToSet
    <3>2. \A t \in Test : InOne(queue, {t})
      BY DEF ExactOK, JobsOK, EachOnce
    <3> QED
      BY <2>2, <3>1, <3>2 DEF InOne
  <2> QED
    BY <2>1, <2>2 DEF NoTestTwice
<1>2. RetriesAreBounded
  BY DEF ExactOK, LogsOK, RetriesAreBounded
<1>3. CountIsExact
  BY DEF ExactOK, CountOK, CountIsExact, OutcomeOf, Finals, Final
<1> QED
  BY <1>1, <1>2, <1>3

LEMMA InitExact ==
  ASSUME Init
  PROVE  ExactOK
<1>1. Group \in SUBSET Test
  BY SettingAssumption DEF Init, Group
<1>2. InFileOrder(Group) \in Seq(Test) /\ IsInjective(InFileOrder(Group))
  BY <1>1, FileOrderFacts
<1>3. /\ queue = <<InFileOrder(Group)>> /\ job = <<>> /\ remaining = {} /\ begun = {}
      /\ results = [t \in Test |-> <<>>] /\ failedCount = 0 /\ elsewhere = 0 /\ phase = "idle"
  BY DEF Init
<1>4. ToSet(job) = {}
  BY <1>3 DEF ToSet
<1>5. DOMAIN queue = {1} /\ queue[1] = InFileOrder(Group) /\ Len(queue) = 1
  BY <1>3
<1>6. JobsOK
  BY <1>2, <1>3, <1>4, <1>5 DEF JobsOK, EachOnce, InOne, IsInjective
<1>7. OneJob /\ SuiteWhole
  BY <1>3, <1>4, <1>5 DEF OneJob, SuiteWhole, InOne
<1>8. \A t \in Test : results[t] = <<>> /\ Len(results[t]) = 0 /\ Retries[t] \in Nat
  BY <1>3, RetriesAssumption
<1>9. ToSet(InFileOrder(Group)) \subseteq Test
  BY <1>2 DEF ToSet
<1>10. LogsOK
  BY <1>3, <1>5, <1>8, <1>9 DEF LogsOK, Waiting, AllOf
<1>11. CountOK
  <2>1. Finals(results, expected) = {}
    BY <1>8 DEF Finals, Final
  <2>2. Cardinality({}) = 0
    BY FS_EmptySet
  <2>3. Cardinality(Finals(results, expected)) = 0
    BY <2>1, <2>2
  <2> HIDE DEF Finals
  <2> QED
    BY <1>3, <2>3 DEF CountOK
<1> QED
  BY <1>6, <1>7, <1>10, <1>11 DEF ExactOK

LEMMA QuietExact ==
  ASSUME ExactOK, UNCHANGED <<setting, queue, job, remaining, begun, results, expected, failedCount, elsewhere>>,
         phase' = phase \/ phase' # "running"
  PROVE  ExactOK'
BY DEF ExactOK, JobsOK, EachOnce, InOne, AllOf, OneJob, SuiteWhole, Isolated, LogsOK, Waiting, CountOK

LEMMA FailElsewhereExact ==
  ASSUME Inv, ExactOK, setting' = setting, FailElsewhere
  PROVE  ExactOK'
<1>1. UNCHANGED <<setting, queue, phase, job, remaining, begun, results, expected>>
  BY DEF FailElsewhere, job_vars
<1>2. failedCount' = failedCount + 1 /\ elsewhere' = elsewhere + 1 /\ elsewhere \in Nat
  BY DEF FailElsewhere, Inv, TypeOK
<1>3. CountOK'
  <2>1. Cardinality(Finals(results, expected)) \in Nat
    BY FinalsFinite
  <2>2. failedCount = elsewhere + Cardinality(Finals(results, expected))
    BY DEF ExactOK, CountOK
  <2>3. Finals(results, expected)' = Finals(results, expected)
    BY <1>1 DEF Finals
  <2> QED
    BY <1>2, <2>1, <2>2, <2>3 DEF CountOK
<1> QED
  BY <1>1, <1>3
     DEF ExactOK, JobsOK, EachOnce, InOne, AllOf, OneJob, SuiteWhole, Isolated, LogsOK, Waiting

LEMMA StartJobExact ==
  ASSUME Inv, ExactOK, setting' = setting, StartJob
  PROVE  ExactOK'
<1>1. /\ queue # <<>> /\ phase = "idle" /\ phase' = "running"
      /\ job' = Head(queue) /\ queue' = Tail(queue) /\ remaining' = ToSet(job')
      /\ begun' = {} /\ UNCHANGED <<report_vars, elsewhere>>
  BY StartJobFacts
<1>2. job = <<>> /\ remaining = {} /\ queue \in Seq(Seq(Test))
  BY <1>1 DEF Inv, WireOK, IdleOK, TypeOK
<1> DEFINE rest == Tail(queue)
           first == Head(queue)
<1>3. /\ rest \in Seq(Seq(Test)) /\ Len(rest) = Len(queue) - 1
      /\ AllOf(queue) = ToSet(first) \cup AllOf(rest)
      /\ \A S : InOne(queue, S) => InOne(rest, S) /\ (ToSet(first) \cap S # {} => AllOf(rest) \cap S = {})
      /\ EachOnce(queue) => IsInjective(first) /\ EachOnce(rest) /\ ToSet(first) \cap AllOf(rest) = {}
  BY <1>1, <1>2, TailJobs
<1> HIDE DEF rest, first
<1>4. JobsOK'
  BY <1>1, <1>3 DEF ExactOK, JobsOK, rest, first
<1>5. OneJob'
  <2>1. ASSUME ~Isolated PROVE rest = <<>>
    <3>1. Len(queue) <= 1 /\ Len(queue) \in Nat /\ Len(rest) \in Nat
      BY <1>2, <1>3, <2>1 DEF ExactOK, OneJob
    <3>2. Len(rest) = 0
      BY ONLY <1>3, <3>1
    <3> QED
      BY <1>3, <3>2
  <2>2. queue' = rest /\ Isolated' = Isolated
    BY <1>1 DEF rest, Isolated
  <2>3. ~Isolated => Len(rest) <= 1
    BY <2>1
  <2> QED
    BY <2>1, <2>2, <2>3 DEF OneJob
<1>6. SuiteWhole'
  BY <1>1, <1>3 DEF ExactOK, SuiteWhole, Isolated, rest, first
<1>7. LogsOK'
  <2>1. Waiting' = Waiting
    BY <1>1, <1>2, <1>3 DEF Waiting, rest, first
  <2> QED
    BY <1>1, <2>1 DEF ExactOK, LogsOK, report_vars
<1>8. CountOK'
  BY <1>1 DEF ExactOK, CountOK, report_vars
<1> QED
  BY <1>4, <1>5, <1>6, <1>7, <1>8 DEF ExactOK

LEMMA SkipWholeJobExact ==
  ASSUME Inv, ExactOK, setting' = setting, SkipWholeJob
  PROVE  ExactOK'
<1>1. TypeOK /\ queue \in Seq(Seq(Test)) /\ phase = "idle" /\ job = <<>> /\ remaining = {}
  <2>1. phase = "idle"
    BY Zenon DEF SkipWholeJob
  <2> QED
    BY <2>1 DEF Inv, TypeOK, WireOK, IdleOK
<1>2. PICK after \in Ledgers : ReportsAll(Head(queue), Ledger, after) /\ SkipWholeJobWith(after)
  BY <1>1, SkipWholeJobDoes
<1> DEFINE first == Head(queue)
           rest == Tail(queue)
<1>3. /\ first \in Seq(Test) /\ queue' = rest /\ queue # <<>>
      /\ \A i \in DOMAIN first : expected[first[i]] = "skipped"
  BY <1>1, SkipWholeJobDoes
<1>4. UNCHANGED <<phase, job_vars, expected, elsewhere>>
  BY Zenon DEF SkipWholeJob
<1>5. /\ rest \in Seq(Seq(Test)) /\ Len(rest) = Len(queue) - 1
      /\ AllOf(queue) = ToSet(first) \cup AllOf(rest)
      /\ \A S : InOne(queue, S) => InOne(rest, S) /\ (ToSet(first) \cap S # {} => AllOf(rest) \cap S = {})
      /\ EachOnce(queue) => IsInjective(first) /\ EachOnce(rest) /\ ToSet(first) \cap AllOf(rest) = {}
  BY <1>1, <1>3, TailJobs
<1>6. IsInjective(first) /\ EachOnce(rest) /\ ToSet(first) \cap AllOf(rest) = {}
  BY <1>5 DEF ExactOK, JobsOK
<1>7. /\ results' \in Results /\ failedCount' = failedCount
      /\ \A t \in Test \ ToSet(first) : results'[t] = results[t]
      /\ \A t \in ToSet(first) : results'[t] = Append(results[t], "skipped")
  <2>1. ReportsAll(first, Ledger, after) /\ results' = after.results /\ failedCount' = after.count
    BY <1>2 DEF SkipWholeJobWith
  <2> HIDE DEF first
  <2> QED
    BY <1>1, <1>3, <1>6, <2>1, ReportFacts
<1>8. \A t \in ToSet(first) : t \in Test /\ expected[t] = "skipped" /\ t \in Waiting
  <2>1. \A t \in ToSet(first) : t \in Test /\ expected[t] = "skipped"
    BY <1>3 DEF ToSet
  <2> QED
    BY <1>5, <2>1 DEF Waiting
<1> HIDE DEF first, rest
<1>9. \A t \in ToSet(first) :
        /\ results[t] \in Seq(Status \cup {"started"})
        /\ Len(results[t]) <= Retries[t] /\ Len(results[t]) \in Nat /\ Retries[t] \in Nat
        /\ Len(results'[t]) = Len(results[t]) + 1
        /\ Outcome(results'[t], "skipped") # "unexpected"
  <2> SUFFICES ASSUME NEW t \in ToSet(first)
               PROVE  /\ results[t] \in Seq(Status \cup {"started"})
                      /\ Len(results[t]) <= Retries[t] /\ Len(results[t]) \in Nat /\ Retries[t] \in Nat
                      /\ Len(results'[t]) = Len(results[t]) + 1
                      /\ Outcome(results'[t], "skipped") # "unexpected"
    OBVIOUS
  <2>1. results[t] \in Seq(Status \cup {"started"}) /\ Retries[t] \in Nat
    BY <1>1, <1>8, RetriesAssumption DEF TypeOK
  <2>2. Len(results[t]) <= Retries[t]
    BY <1>8 DEF ExactOK, LogsOK
  <2>3. results'[t] = Append(results[t], "skipped")
    BY <1>7
  <2>4. "skipped" \in Status \cup {"started"}
    BY DEF Status
  <2>5. Len(results[t]) \in Nat /\ Len(results'[t]) = Len(results[t]) + 1
    BY <2>1, <2>3, <2>4, AppendFacts
  <2>6. Outcome(results'[t], "skipped") # "unexpected"
    BY <2>1, <2>3, SkippedIsExpected
  <2> QED
    BY <2>1, <2>2, <2>5, <2>6
<1>10. JobsOK'
  <2>1. AllOf(rest) \cap ToSet(job) = {} /\ IsInjective(job)
    BY <1>5 DEF ExactOK, JobsOK
  <2> QED
    BY <1>3, <1>4, <1>6, <2>1 DEF JobsOK, job_vars
<1>11. OneJob'
  <2>1. ASSUME ~Isolated PROVE Len(rest) <= 1
    <3>1. Len(queue) <= 1 /\ Len(queue) \in Nat
      BY <1>1, <2>1 DEF ExactOK, OneJob
    <3> QED
      BY ONLY <1>5, <3>1
  <2> QED
    BY <1>1, <1>3, <1>4, <2>1 DEF OneJob, Isolated
<1>12. SuiteWhole'
  BY <1>3, <1>4, <1>5 DEF ExactOK, SuiteWhole, Isolated, job_vars
<1>13. LogsOK'
  <2>1. Waiting' = AllOf(rest) /\ AllOf(rest) \subseteq Waiting
    BY <1>1, <1>3, <1>4, <1>5 DEF Waiting, job_vars
  <2>2. \A t \in Test : Len(results'[t]) <= Retries[t] + 1
    <3> TAKE t \in Test
    <3>1. CASE t \in ToSet(first)
      BY <1>9, <3>1
    <3>2. CASE t \notin ToSet(first)
      BY <1>7, <3>2 DEF ExactOK, LogsOK
    <3> QED
      BY <3>1, <3>2
  <2>3. AllOf(rest) \subseteq Test
    BY <1>5 DEF AllOf, ToSet
  <2>4. \A t \in AllOf(rest) : Len(results'[t]) <= Retries[t]
    BY <1>6, <1>7, <2>1, <2>3 DEF ExactOK, LogsOK
  <2> QED
    BY <1>1, <1>4, <2>1, <2>2, <2>4 DEF LogsOK
<1>14. CountOK'
  <2>1. Finals(results', expected) = Finals(results, expected)
    <3>1. \A t \in ToSet(first) : ~Final(results'[t], expected[t], t) /\ ~Final(results[t], expected[t], t)
      BY <1>8, <1>9 DEF Final
    <3> QED
      BY <1>7, <3>1 DEF Finals
  <2> HIDE DEF Finals
  <2> QED
    BY <1>4, <1>7, <2>1 DEF ExactOK, CountOK
<1> QED
  BY <1>10, <1>11, <1>12, <1>13, <1>14 DEF ExactOK

LEMMA OnTestBeginExact ==
  ASSUME Inv, ExactOK, setting' = setting, OnTestBegin
  PROVE  ExactOK'
<1> DEFINE t == wire[1].test
<1>1. /\ phase = "running" /\ t \in Test /\ begun = {}
      /\ IF t \in remaining
         THEN results' = [results EXCEPT ![t] = Append(@, "started")] /\ begun' = {t}
         ELSE results' = results /\ begun' = {}
      /\ UNCHANGED <<queue, phase, job, remaining, expected, failedCount, elsewhere>>
  BY OnTestBeginFacts
<1> HIDE DEF t
<1>2. CASE t \notin remaining
  BY <1>1, <1>2, QuietExact
<1>3. CASE t \in remaining
  <2> DEFINE log == results[t]
  <2>1. /\ log \in Seq(Status \cup {"started"}) /\ Retries[t] \in Nat /\ results \in Results
        /\ results'[t] = Append(log, "started")
        /\ \A u \in Test : u # t => results'[u] = results[u]
    BY <1>1, <1>3, RetriesAssumption DEF Inv, TypeOK, Results
  <2>2. Len(log) <= Retries[t]
    BY <1>1, <1>3 DEF ExactOK, LogsOK, Waiting
  <2> HIDE DEF log
  <2>3. /\ Len(log) \in Nat /\ Len(results'[t]) = Len(log) + 1 /\ results'[t][Len(log) + 1] = "started"
        /\ results'[t] # <<>> /\ Last(results'[t]) = "started"
    <3>1. "started" \in Status \cup {"started"}
      OBVIOUS
    <3>2. /\ Len(log) \in Nat /\ Len(results'[t]) = Len(log) + 1 /\ results'[t][Len(log) + 1] = "started"
      BY <2>1, <3>1, AppendFacts
    <3> QED
      BY <2>1, <3>2 DEF Last
  <2>4. JobsOK' /\ OneJob' /\ SuiteWhole'
    BY <1>1 DEF ExactOK, JobsOK, OneJob, SuiteWhole, Isolated
  <2>5. LogsOK'
    <3>1. Waiting' = Waiting \ {t}
      <4>1. t \notin AllOf(queue)
        <5>1. t \in ToSet(job)
          BY <1>3 DEF Inv, TypeOK
        <5> QED
          BY <5>1 DEF ExactOK, JobsOK
      <4> QED
        BY <1>1, <1>3, <4>1 DEF Waiting
    <3>2. Waiting \subseteq Test
      BY DEF Waiting, AllOf, Inv, TypeOK, ToSet
    <3>3. \A u \in Test : Len(results'[u]) <= Retries[u] + 1
      BY <2>1, <2>2, <2>3 DEF ExactOK, LogsOK
    <3>4. \A u \in Waiting' : Len(results'[u]) <= Retries[u]
      BY <2>1, <3>1, <3>2 DEF ExactOK, LogsOK
    <3> QED
      BY <1>1, <1>3, <2>3, <3>3, <3>4 DEF LogsOK
  <2>6. CountOK'
    <3>1. Finals(results', expected) = Finals(results, expected)
      <4>1. ~Final(log, expected[t], t)
        BY <2>1, <2>2, <2>3 DEF Final
      <4> QED
        BY <2>1, <2>3, <4>1 DEF Finals, log
    <3> HIDE DEF Finals
    <3> QED
      BY <1>1, <3>1 DEF ExactOK, CountOK
  <2> QED
    BY <2>4, <2>5, <2>6 DEF ExactOK
<1> QED
  BY <1>2, <1>3

LEMMA OnTestEndExact ==
  ASSUME Inv, ExactOK, setting' = setting, OnTestEnd
  PROVE  ExactOK'
<1> DEFINE m == wire[1]
           t == m.test
<1>1. /\ phase = "running" /\ m \in Message /\ m.method = "testEnd" /\ t \in Test /\ begun' = {}
      /\ \/ /\ begun = {t} /\ t \in remaining /\ remaining' = remaining \ {t}
            /\ results' = EndOf(m).results /\ expected' = EndOf(m).expected
            /\ failedCount' = EndOf(m).count
         \/ begun = {} /\ UNCHANGED <<remaining, results, expected, failedCount>>
      /\ UNCHANGED <<queue, phase, job, elsewhere>>
  BY OnTestEndFacts
<1>2. TypeOK
  BY DEF Inv
<1>3. /\ EndOf(m) \in Ledgers
      /\ EndOf(m).results = [results EXCEPT ![t] = WithLast(results[t], ReportedStatus(m))]
      /\ EndOf(m).expected = [expected EXCEPT ![t] = m.expected]
      /\ EndOf(m).count = IF Final(EndOf(m).results[t], m.expected, t) THEN failedCount + 1 ELSE failedCount
      /\ ReportedStatus(m) \in Status
  BY <1>1, <1>2, EndOfFacts
<1> DEFINE status == ReportedStatus(m)
<1> HIDE DEF status, m, t
<1>4. CASE begun = {} /\ UNCHANGED <<remaining, results, expected, failedCount>>
  BY <1>1, <1>4, QuietExact
<1>5. CASE /\ begun = {t} /\ t \in remaining /\ remaining' = remaining \ {t}
           /\ results' = EndOf(m).results /\ expected' = EndOf(m).expected
           /\ failedCount' = EndOf(m).count
  <2> DEFINE log == results[t]
  <2>1. /\ log \in Seq(Status \cup {"started"}) /\ Retries[t] \in Nat /\ results \in Results /\ results' \in Results
        /\ results'[t] = WithLast(log, status)
        /\ \A u \in Test : u # t => results'[u] = results[u] /\ expected'[u] = expected[u]
        /\ expected'[t] = m.expected
    <3>1. results \in Results /\ results[t] \in Seq(Status \cup {"started"}) /\ Retries[t] \in Nat /\ expected \in [Test -> Expects]
      BY <1>1, <1>2, RetriesAssumption DEF TypeOK, Results, Expects
    <3>2. results' = [results EXCEPT ![t] = WithLast(results[t], status)] /\ expected' = [expected EXCEPT ![t] = m.expected]
      BY <1>3, <1>5 DEF status
    <3>3. results' \in Results
      BY <1>3, <1>5 DEF Ledgers
    <3> QED
      BY <1>1, <3>1, <3>2, <3>3 DEF Results
  <2>2. log # <<>> /\ Last(log) = "started" /\ Len(log) <= Retries[t] + 1
    BY <1>1, <1>5 DEF ExactOK, LogsOK
  <2> HIDE DEF log
  <2>3. /\ Len(results'[t]) = Len(log) /\ Len(log) \in Nat /\ Len(log) > 0
        /\ results'[t] # <<>> /\ Last(results'[t]) # "started"
    <3>1. status \in Status \cup {"started"} /\ status # "started"
      BY <1>3 DEF Status, status
    <3>4. log \in Seq(Status \cup {"started"}) /\ log # <<>>
      BY <2>1, <2>2
    <3>5. Len(WithLast(log, status)) = Len(log) /\ WithLast(log, status)[Len(log)] = status
      BY ONLY <3>1, <3>4, WithLastFacts
    <3>2. Len(results'[t]) = Len(log) /\ results'[t][Len(log)] = status
      BY <2>1, <3>5
    <3>3. Len(log) \in Nat /\ Len(log) > 0
      BY <2>1, <2>2
    <3> QED
      BY <3>1, <3>2, <3>3 DEF Last
  <2>4. JobsOK' /\ OneJob' /\ SuiteWhole'
    BY <1>1 DEF ExactOK, JobsOK, OneJob, SuiteWhole, Isolated
  <2>5. LogsOK'
    <3>1. Waiting' = Waiting /\ t \notin Waiting
      <4>1. t \notin AllOf(queue)
        <5>1. t \in ToSet(job)
          BY <1>5 DEF Inv, TypeOK
        <5> QED
          BY <5>1 DEF ExactOK, JobsOK
      <4> QED
        BY <1>1, <1>5, <4>1 DEF Waiting
    <3>2. Waiting \subseteq Test
      BY DEF Waiting, AllOf, Inv, TypeOK, ToSet
    <3>3. \A u \in Test : Len(results'[u]) <= Retries[u] + 1
      BY <2>1, <2>2, <2>3 DEF ExactOK, LogsOK
    <3>4. \A u \in Waiting' : Len(results'[u]) <= Retries[u]
      BY <2>1, <3>1, <3>2 DEF ExactOK, LogsOK
    <3> QED
      BY <1>1, <3>3, <3>4 DEF LogsOK
  <2>6. CountOK'
    <3>1. Finals(results, expected') = Finals(results, expected)
      BY <2>1, <2>2 DEF Finals, log
    <3>2. Cardinality(Finals(results', expected')) =
            Cardinality(Finals(results, expected')) + (IF Final(results'[t], expected'[t], t) THEN 1 ELSE 0)
      BY <1>1, <2>1, <2>2, <2>3, CountOneMore DEF log
    <3>3. failedCount' = IF Final(results'[t], expected'[t], t) THEN failedCount + 1 ELSE failedCount
      BY <1>3, <1>5, <2>1
    <3>4. Cardinality(Finals(results, expected)) \in Nat /\ elsewhere \in Nat
      BY <1>2, FinalsFinite DEF TypeOK
    <3>5. failedCount = elsewhere + Cardinality(Finals(results, expected))
      BY DEF ExactOK, CountOK
    <3> HIDE DEF Finals, Final
    <3> QED
      BY <1>1, <3>1, <3>2, <3>3, <3>4, <3>5 DEF CountOK
  <2> QED
    BY <2>4, <2>5, <2>6 DEF ExactOK
<1> QED
  BY <1>1, <1>4, <1>5

LEMMA LedgerIsExact ==
  ASSUME Inv, ExactOK, phase = "running"
  PROVE  LedgerExact(Ledger) /\ IsInjective(job)
<1>1. /\ Ledger.results = results /\ Ledger.expected = expected /\ Ledger.count = failedCount
      /\ Ledger.remaining = remaining
  BY LedgerTyped DEF Inv
<1>2. \A t \in remaining : IF t \in begun THEN results[t] # <<>> /\ Last(results[t]) = "started"
                           ELSE Len(results[t]) <= Retries[t]
  BY DEF ExactOK, LogsOK, Waiting
<1> QED
  BY <1>1, <1>2 DEF ExactOK, LogsOK, JobsOK, CountOK, LedgerExact

(* When the run goes on, no test is left in the middle.                      *)
LEMMA NoneInTheMiddle ==
  ASSUME Inv, OnDone, setting' = setting, ~stopped', SettlesTo(wire[1].payload)
  PROVE  /\ ~ReachedMaxFailures(AfterSuites(wire[1].payload).count)
         /\ begun \cap AfterSuites(wire[1].payload).remaining = {}
<1> DEFINE p == wire[1].payload
           a == AfterSuites(p)
<1>1. /\ phase = "running" /\ wire # <<>> /\ wire[1].method \in {"done", "exit"} /\ p \in Payload
  BY OnDoneFacts
<1>2. TypeOK /\ MaxStops /\ WireHead /\ ExitsOK /\ BegunOK
  BY DEF Inv, WireOK
<1> HIDE DEF p
<1>3. LedgerOK(a) /\ (p.unexpected /\ current # NoTest => current \notin a.remaining)
  BY <1>1, AfterSuitesFacts
<1>4. ~ReachedMaxFailures(a.count) /\ ~stopped
  <2>1. a.count \in Nat
    BY <1>3 DEF LedgerOK, Ledgers
  <2>2. stopped' = StopsRun(a.count)
    BY DEF SettlesTo, p
  <2> QED
    BY <1>2, <2>1, <2>2, StopsFacts
<1>5. ASSUME NEW t \in begun, t \in a.remaining PROVE FALSE
  <2>1. current # NoTest /\ current = t
    BY <1>2, <1>5 DEF BegunOK
  <2>2. wire[1].method = "exit"
    BY <1>1, <1>2, <1>5 DEF WireHead
  <2>3. p.unexpected
    <3>1. 1 \in DOMAIN wire
      BY <1>1, <1>2 DEF TypeOK
    <3> QED
      BY <1>2, <1>4, <2>2, <3>1 DEF ExitsOK, p
  <2> QED
    BY <1>3, <1>5, <2>1, <2>3
<1> QED
  BY <1>4, <1>5 DEF p

(* The queue that a job leaves behind.                                       *)
LEMMA RequeuedFacts ==
  ASSUME Inv, ExactOK, SnapshotsOK, ~MayComeApart, phase = "running", NEW payload \in Payload
  PROVE  LET q == Requeued(AfterSuites(payload), Again(payload))
         IN  /\ q \in Seq(Seq(Test))
             /\ EachOnce(q)
             /\ AllOf(q) = AllOf(queue) \cup AfterSuites(payload).remaining \cup Retried(payload)
             /\ ~Isolated => Len(q) <= 1
             /\ Isolated => \A suite \in SerialSuite : InOne(q, suite)
<1> DEFINE s == Settled(payload)
           a == AfterSuites(payload)
           r == Retried(payload)
           rest == InJobOrder(a.remaining)
           again == Again(payload)
<1>1. /\ LedgerOK(s) /\ LedgerOK(a)
      /\ a.remaining = s.remaining \ UNION SerialSuitesWithFailures(s)
      /\ r \in SUBSET Test
  BY AfterSuitesFacts
<1>2. TypeOK /\ job \in Seq(Test) /\ queue \in Seq(Seq(Test)) /\ remaining \subseteq ToSet(job)
  BY DEF Inv, TypeOK
<1>3. JobsOK /\ OneJob /\ SuiteWhole
  BY DEF ExactOK
<1>4. /\ a.remaining \subseteq ToSet(job) /\ s.failed \subseteq ToSet(job) /\ s.failed \cap a.remaining = {}
  BY <1>1, <1>2 DEF LedgerOK
<1>5. rest \in Seq(Test) /\ ToSet(rest) = a.remaining /\ IsInjective(rest)
  <2>1. rest \in Seq(Test) /\ ToSet(rest) = ToSet(job) \cap a.remaining /\ IsInjective(rest)
    BY <1>2, <1>3, JobOrderFacts DEF JobsOK
  <2> QED
    BY <1>4, <2>1
<1>6. again \in Seq(Test) /\ ToSet(again) = r /\ IsInjective(again)
  BY <1>1, <1>2, AgainFacts
<1>7. Requeued(a, again) = IF Isolated THEN NonEmpty(rest) \o queue \o NonEmpty(again)
                           ELSE NonEmpty(rest \o again) \o queue
  BY DEF Requeued
<1>8. \A t \in r : \/ t \in s.failed \ nonRetriable
                   \/ \E suite \in SerialSuitesWithFailures(s) : t \in suite
  BY DEF Retried, RetryCandidates
<1>9. \A suite \in SerialSuitesWithFailures(s) :
        /\ suite \in SerialSuite /\ suite \cap (s.failed \ nonRetriable) # {} /\ suite \cap nonRetriable = {}
        /\ suite \cap a.remaining = {}
  BY <1>1 DEF SerialSuitesWithFailures
<1> HIDE DEF s, a, r, rest, again
<1>10. r \cap a.remaining = {}
  BY <1>4, <1>8, <1>9
<1>11. CASE ~Isolated
  <2>1. queue = <<>>
    BY <1>3, <1>11 DEF OneJob
  <2> DEFINE both == rest \o again
  <2>2. /\ both \in Seq(Test) /\ Len(both) = Len(rest) + Len(again) /\ Len(rest) \in Nat /\ Len(again) \in Nat
        /\ DOMAIN both = 1..(Len(rest) + Len(again)) /\ DOMAIN rest = 1..Len(rest) /\ DOMAIN again = 1..Len(again)
        /\ \A i \in 1..Len(rest) : both[i] = rest[i]
        /\ \A i \in 1..Len(again) : both[i + Len(rest)] = again[i]
    BY <1>5, <1>6, ConcatProperties
  <2> HIDE DEF both
  <2>3. \A i \in DOMAIN both : \/ i \in DOMAIN rest /\ both[i] = rest[i]
                               \/ i - Len(rest) \in DOMAIN again /\ both[i] = again[i - Len(rest)]
    <3> TAKE i \in DOMAIN both
    <3>1. i \in 1..(Len(rest) + Len(again)) /\ Len(rest) \in Nat /\ Len(again) \in Nat
      BY <2>2
    <3>2. i \in 1..Len(rest) \/ (i - Len(rest) \in 1..Len(again) /\ (i - Len(rest)) + Len(rest) = i)
      BY ONLY <3>1
    <3> QED
      BY <2>2, <3>2
  <2>4. ToSet(both) = a.remaining \cup r
    <3>1. ToSet(both) \subseteq ToSet(rest) \cup ToSet(again)
      BY <2>3 DEF ToSet
    <3>2. ToSet(rest) \subseteq ToSet(both)
      BY <2>2 DEF ToSet
    <3>3. ToSet(again) \subseteq ToSet(both)
      <4> SUFFICES ASSUME NEW i \in DOMAIN again PROVE again[i] \in ToSet(both)
        BY DEF ToSet
      <4>1. i \in 1..Len(again) /\ Len(rest) \in Nat /\ Len(again) \in Nat
        BY <2>2
      <4>2. i + Len(rest) \in 1..(Len(rest) + Len(again))
        BY ONLY <4>1
      <4> QED
        BY <2>2, <4>1, <4>2 DEF ToSet
    <3> QED
      BY <1>5, <1>6, <3>1, <3>2, <3>3
  <2>5. IsInjective(both)
    <3> SUFFICES ASSUME NEW i \in DOMAIN both, NEW k \in DOMAIN both, both[i] = both[k] PROVE i = k
      BY DEF IsInjective
    <3>1. \A n \in DOMAIN rest : rest[n] \in a.remaining
      BY <1>5 DEF ToSet
    <3>2. \A n \in DOMAIN again : again[n] \in r
      BY <1>6 DEF ToSet
    <3>3. i \in Int /\ k \in Int /\ Len(rest) \in Int
      BY <2>2
    <3>4. CASE i \in DOMAIN rest /\ both[i] = rest[i]
      <4>1. k \in DOMAIN rest /\ both[k] = rest[k]
        BY <1>10, <2>3, <3>1, <3>2, <3>4
      <4> QED
        BY <1>5, <3>4, <4>1 DEF IsInjective
    <3>5. CASE i - Len(rest) \in DOMAIN again /\ both[i] = again[i - Len(rest)]
      <4>1. k - Len(rest) \in DOMAIN again /\ both[k] = again[k - Len(rest)]
        BY <1>10, <2>3, <3>1, <3>2, <3>5
      <4>2. i - Len(rest) = k - Len(rest)
        BY <1>6, <3>5, <4>1 DEF IsInjective
      <4> QED
        BY <3>3, <4>2
    <3> QED
      BY <2>3, <3>4, <3>5
  <2>6. /\ NonEmpty(both) \in Seq(Seq(Test)) /\ Len(NonEmpty(both)) <= 1
        /\ AllOf(NonEmpty(both)) = ToSet(both) /\ EachOnce(NonEmpty(both))
    BY <2>2, <2>5, NonEmptyJobs
  <2>7. NonEmpty(both) \o <<>> = NonEmpty(both)
    BY <2>6, ConcatEmptySeq
  <2>8. Requeued(a, again) = NonEmpty(both)
    BY <1>7, <1>11, <2>1, <2>7 DEF both
  <2>9. AllOf(queue) = {}
    BY <2>1 DEF AllOf
  <2> QED
    BY <1>11, <2>4, <2>6, <2>8, <2>9 DEF a, r, again
<1>12. CASE Isolated
  <2> DEFINE q1 == NonEmpty(rest)
             q2 == q1 \o queue
             q3 == NonEmpty(again)
             q == q2 \o q3
  <2>1. /\ q1 \in Seq(Seq(Test)) /\ AllOf(q1) = a.remaining /\ EachOnce(q1) /\ \A S : InOne(q1, S)
    BY <1>5, NonEmptyJobs
  <2>2. /\ q3 \in Seq(Seq(Test)) /\ AllOf(q3) = r /\ EachOnce(q3) /\ \A S : InOne(q3, S)
    BY <1>6, NonEmptyJobs
  <2>3. Requeued(a, again) = q
    BY <1>7, <1>12
  <2> HIDE DEF q1, q3
  <2>4. /\ q2 \in Seq(Seq(Test)) /\ AllOf(q2) = a.remaining \cup AllOf(queue)
        /\ EachOnce(q1) /\ EachOnce(queue) /\ AllOf(q1) \cap AllOf(queue) = {} => EachOnce(q2)
        /\ \A S : InOne(q1, S) /\ InOne(queue, S) /\ (AllOf(q1) \cap S = {} \/ AllOf(queue) \cap S = {}) => InOne(q2, S)
    BY <1>2, <2>1, ConcatJobs
  <2> HIDE DEF q2
  <2>5. /\ q \in Seq(Seq(Test)) /\ AllOf(q) = AllOf(q2) \cup r
        /\ EachOnce(q2) /\ EachOnce(q3) /\ AllOf(q2) \cap AllOf(q3) = {} => EachOnce(q)
        /\ \A S : InOne(q2, S) /\ InOne(q3, S) /\ (AllOf(q2) \cap S = {} \/ AllOf(q3) \cap S = {}) => InOne(q, S)
    BY <2>2, <2>4, ConcatJobs
  <2> HIDE DEF q
  <2>6. \A suite \in SerialSuite : ToSet(job) \cap suite # {} => AllOf(queue) \cap suite = {}
    BY <1>3, <1>12 DEF SuiteWhole
  <2>7. \A suite \in SerialSuitesWithFailures(s) : AllOf(queue) \cap suite = {}
    BY <1>4, <1>9, <2>6
  <2>8. AllOf(queue) \cap ToSet(job) = {} /\ EachOnce(queue)
    BY <1>3 DEF JobsOK
  <2>9. AllOf(queue) \cap r = {}
    BY <1>4, <1>8, <2>7, <2>8
  <2>10. EachOnce(q)
    BY <1>4, <1>10, <2>1, <2>2, <2>4, <2>5, <2>8, <2>9
  <2>11. ASSUME NEW suite \in SerialSuite PROVE InOne(q, suite)
    <3>1. InOne(queue, suite)
      BY <1>3, <1>12 DEF SuiteWhole
    <3>2. nonRetriable = {}
      BY <1>12 DEF MayComeApart, SnapshotsOK
    <3>3. r \cap suite # {} => suite \in SerialSuitesWithFailures(s)
      <4> SUFFICES ASSUME NEW t \in r, t \in suite PROVE suite \in SerialSuitesWithFailures(s)
        OBVIOUS
      <4>1. CASE t \in s.failed \ nonRetriable
        BY <3>2, <4>1 DEF SerialSuitesWithFailures
      <4>2. ASSUME NEW other \in SerialSuitesWithFailures(s), t \in other
            PROVE  suite \in SerialSuitesWithFailures(s)
        BY <1>9, <4>2, SuiteAssumption
      <4> QED
        BY <1>8, <4>1, <4>2
    <3>4. InOne(q2, suite)
      BY <1>4, <2>1, <2>4, <2>6, <3>1
    <3>5. r \cap suite # {} => AllOf(q2) \cap suite = {}
      BY <1>9, <2>4, <2>7, <3>3
    <3> QED
      BY <2>2, <2>5, <3>4, <3>5
  <2> QED
    BY <1>12, <2>3, <2>4, <2>5, <2>10, <2>11 DEF a, r, again
<1> QED
  BY <1>11, <1>12

LEMMA OnDoneExact ==
  ASSUME Inv, ExactOK, SnapshotsOK, ~MayComeApart, setting' = setting, OnDone
  PROVE  ExactOK'
<1> DEFINE p == wire[1].payload
           a == AfterSuites(p)
           r == Retried(p)
           q == Requeued(a, Again(p))
<1>1. /\ phase = "running" /\ p \in Payload
      /\ \/ NothingWentWrong(p) /\ UNCHANGED <<queue, report_vars, stopped>>
         \/ SettlesTo(p)
      /\ JobOver /\ UNCHANGED elsewhere
  BY OnDoneFacts
<1>2. phase' # "running" /\ job' = <<>> /\ remaining' = {} /\ begun' = {}
  BY <1>1 DEF JobOver
<1>3. ToSet(job') = {} /\ IsInjective(job')
  BY <1>2 DEF ToSet, IsInjective
<1>4. TypeOK /\ queue \in Seq(Seq(Test)) /\ JobsOK /\ OneJob /\ SuiteWhole /\ LogsOK
  BY DEF Inv, TypeOK, ExactOK
<1>5. CASE UNCHANGED <<queue, report_vars, stopped>>
  <2>1. Waiting' \subseteq Waiting /\ UNCHANGED <<results, expected, failedCount, elsewhere>>
    BY <1>1, <1>2, <1>5 DEF Waiting, report_vars
  <2>2. JobsOK' /\ OneJob' /\ SuiteWhole'
    BY <1>2, <1>3, <1>4, <1>5 DEF JobsOK, OneJob, SuiteWhole, Isolated
  <2>3. LogsOK' /\ CountOK'
    BY <1>2, <2>1 DEF ExactOK, LogsOK, CountOK
  <2> QED
    BY <2>2, <2>3 DEF ExactOK
<1>6. CASE SettlesTo(p)
  <2>1. /\ results' = a.results /\ failedCount' = a.count /\ expected' = expected
        /\ queue' = IF stopped' THEN queue ELSE q
    BY <1>6 DEF SettlesTo
  <2>2. LedgerOK(a) /\ LedgerExact(a)
    BY <1>1, LedgerIsExact, AfterSuitesFacts
  <2>3. ~stopped' => begun \cap a.remaining = {}
    BY <1>6, NoneInTheMiddle
  <2>4. /\ q \in Seq(Seq(Test)) /\ EachOnce(q) /\ AllOf(q) = AllOf(queue) \cup a.remaining \cup r
        /\ ~Isolated => Len(q) <= 1
        /\ Isolated => \A suite \in SerialSuite : InOne(q, suite)
    BY <1>1, RequeuedFacts
  <2>5. \A t \in r : Len(a.results[t]) < Retries[t] + 1 /\ t \in Test
    BY <1>1, AfterSuitesFacts DEF Retried, HasRetriesLeft
  <2> HIDE DEF a, r, q
  <2>6. JobsOK'
    BY <1>2, <1>3, <1>4, <2>1, <2>4 DEF JobsOK
  <2>7. OneJob'
    <3>1. Isolated' = Isolated
      BY DEF Isolated
    <3>2. ~Isolated => Len(queue') <= 1
      BY <1>4, <2>1, <2>4 DEF OneJob
    <3> QED
      BY <1>2, <3>1, <3>2 DEF OneJob
  <2>8. SuiteWhole'
    <3>1. Isolated' = Isolated
      BY DEF Isolated
    <3>2. Isolated => \A suite \in SerialSuite : InOne(queue', suite)
      BY <1>4, <2>1, <2>4 DEF SuiteWhole
    <3> QED
      BY <1>3, <3>1, <3>2 DEF SuiteWhole
  <2>9. LogsOK'
    <3>1. \A t \in Test : Len(a.results[t]) <= Retries[t] + 1
      BY <2>2 DEF LedgerExact
    <3>2. AllOf(queue) \subseteq Test /\ AllOf(queue) \cap remaining = {}
      <4>1. AllOf(queue) \subseteq Test
        BY <1>4 DEF AllOf, ToSet
      <4>2. remaining \subseteq ToSet(job)
        BY <1>4 DEF TypeOK
      <4> QED
        BY <1>4, <4>1, <4>2 DEF JobsOK
    <3>3. \A t \in AllOf(queue) : a.results[t] = results[t] /\ Len(results[t]) <= Retries[t]
      BY <1>4, <2>2, <3>2 DEF LedgerOK, LogsOK, Waiting
    <3>4. \A t \in r : Len(a.results[t]) <= Retries[t]
      <4> TAKE t \in r
      <4>1. a.results[t] \in Seq(Status \cup {"started"}) /\ Retries[t] \in Nat /\ Len(a.results[t]) < Retries[t] + 1
        BY <2>2, <2>5, RetriesAssumption DEF LedgerOK, Ledgers, Results
      <4>2. Len(a.results[t]) \in Nat
        BY <4>1
      <4> QED
        BY ONLY <4>1, <4>2
    <3>5. ~stopped' => \A t \in a.remaining : Len(a.results[t]) <= Retries[t]
      BY <2>2, <2>3 DEF LedgerExact
    <3>6. Waiting' = AllOf(queue')
      BY <1>2 DEF Waiting
    <3>7. \A t \in Waiting' : Len(results'[t]) <= Retries[t]
      BY <2>1, <2>4, <3>3, <3>4, <3>5, <3>6
    <3> QED
      BY <1>2, <2>1, <3>1, <3>7 DEF LogsOK
  <2>10. CountOK'
    <3>1. a.count = elsewhere + Cardinality(Finals(a.results, a.expected)) /\ a.expected = expected
      BY <2>2 DEF LedgerExact, LedgerOK
    <3> QED
      BY <1>1, <2>1, <3>1 DEF CountOK
  <2> QED
    BY <2>6, <2>7, <2>8, <2>9, <2>10 DEF ExactOK
<1> QED
  BY <1>1, <1>5, <1>6

LEMMA ExactStep ==
  ASSUME Inv, ExactOK, SnapshotsOK, ~MayComeApart, [Next]_vars
  PROVE  ExactOK'
<1>1. CASE UNCHANGED vars
  BY <1>1, QuietExact DEF vars, job_vars, report_vars
<1>2. CASE RunnerStarts
  <2>1. setting' = setting
    BY <1>2 DEF RunnerStarts
  <2>2. CASE SkipWholeJob
    BY <2>1, <2>2, SkipWholeJobExact
  <2>3. CASE RunInWorker
    BY <2>1, <2>3, StartJobExact DEF RunInWorker
  <2>4. CASE RunIsOver
    BY <2>1, <2>4, QuietExact DEF RunIsOver, job_vars, report_vars
  <2> QED
    BY <1>2, <2>2, <2>3, <2>4 DEF RunnerStarts
<1>3. CASE RunnerHandles
  BY <1>3, OnTestBeginExact, OnTestEndExact, OnDoneExact DEF RunnerHandles
<1>4. CASE UNCHANGED <<runner_vars, setting>>
  BY <1>4, QuietExact DEF runner_vars, job_vars, report_vars
<1>5. CASE WorkerGoesOn
  <2>1. LoadFile \/ FinishTest => UNCHANGED runner_vars
    BY Zenon DEF LoadFile, FinishTest, runner_vars
  <2>2. PassOverTest \/ BeginTest \/ EndTest \/ FinishGroup => UNCHANGED runner_vars
    BY SendingFacts, DoneFacts
  <2> QED
    BY <1>4, <1>5, <2>1, <2>2 DEF WorkerGoesOn
<1>6. CASE Fault
  <2>1. CASE WorkerDoesNotStart
    BY <1>6, <2>1, StartJobExact DEF WorkerDoesNotStart, Fault
  <2>2. CASE FailElsewhere
    BY <1>6, <2>2, FailElsewhereExact DEF Fault
  <2>3. CASE StopRun
    BY <1>6, <2>3, QuietExact DEF StopRun, job_vars, report_vars, Fault
  <2>4. FailToLoadFile \/ MissTests \/ ThrowInTest \/ ThrowBetweenTests \/ ReceiveStop \/ Crash \/ Kill => UNCHANGED runner_vars
    BY DEF FailToLoadFile, MissTests, ThrowInTest, ThrowBetweenTests, ReceiveStop, Crash, Kill, ProcessExits
  <2>5. FailTest \/ FailForGood \/ SkipItself \/ FailHook => UNCHANGED runner_vars
    BY TestStepFacts
  <2> QED
    BY <1>4, <1>6, <2>1, <2>2, <2>3, <2>4, <2>5 DEF Fault
<1> QED
  BY <1>1, <1>2, <1>3, <1>5, <1>6 DEF Next, Terminated

LEMMA SettingStays ==
  ASSUME [Next]_vars
  PROVE  setting' = setting
BY DEF Next, vars, RunnerStarts, RunnerHandles, WorkerGoesOn, Fault, Terminated

LEMMA IInvHolds == Spec => []IInv
<1>1. Init => IInv
  <2> SUFFICES ASSUME Init PROVE IInv
    OBVIOUS
  <2>1. SnapshotsOK
    BY DEF Init, SnapshotsOK, NoWorker, Retriable
  <2> QED
    BY <2>1, InitInv, InitExact DEF IInv
<1>2. IInv /\ [Next]_vars => IInv'
  <2> SUFFICES ASSUME IInv, [Next]_vars PROVE IInv'
    OBVIOUS
  <2>1. Inv' /\ SnapshotsOK'
    BY StepKeepsInv, SnapshotsStep DEF IInv
  <2>2. MayComeApart' <=> MayComeApart
    BY SettingStays DEF MayComeApart, Isolated, Faults
  <2>3. ~MayComeApart => ExactOK'
    BY ExactStep DEF IInv
  <2> QED
    BY <2>1, <2>2, <2>3 DEF IInv
<1> QED
  BY <1>1, <1>2, PTL DEF Spec

(* _onDone: no test is in two jobs, or twice in one, and none runs more      *)
(* often than its retries allow, whatever mixture of remaining tests, failed *)
(* tests and whole serial suites is queued again.                            *)
THEOREM TestsRunAsOftenAsAllowed == Spec => []NoTestTooOften
<1>1. IInv => NoTestTooOften
  BY ExactMeans DEF IInv, Inv, NoTestTooOften
<1> QED
  BY <1>1, IInvHolds, PTL

(* _onDone and _onTestEnd: each result is closed when its job is over, and   *)
(* the counter behind maxFailures counts each test that failed all its       *)
(* retries, once.                                                            *)
THEOREM ResultsAreExact == Spec => []ResultsAddUp
<1>1. IInv => ResultsAddUp
  BY ExactMeans, InvCloses DEF IInv, Inv, ResultsAddUp
<1> QED
  BY <1>1, IInvHolds, PTL

(***************************************************************************)
(* The invariant: serial suites.                                           *)
(***************************************************************************)
(* The tests that a sequence of messages is to begin, in file order.         *)
Comes(w, t) == \E i \in DOMAIN w : w[i].method = "testBegin" /\ w[i].test = t
Ascends(w) ==
  \A i, k \in DOMAIN w :
    i < k /\ w[i].method = "testBegin" /\ w[k].method = "testBegin" => w[i].test < w[k].test

(* The tests that the worker has begun, as far as the runner still waits for *)
(* them; they come before those that it has not begun.                       *)
Given == begun \cup {t \in Test : Comes(wire, t)}
Working == worker.phase \notin {"none", "idle"}

OrderOK ==
  /\ Ascends(wire)
  /\ \A t \in Test : Comes(wire, t) => t \in remaining /\ \A u \in begun : u < t
  /\ \A u \in Given, s \in remaining \ Given : u < s
  /\ Working => worker.todo = remaining \ Given

(* After a test that failed no other one of the job passes.                  *)
Bad(m) == m.method = "testEnd" /\ m.status \notin {"skipped", m.expected}
Passes(m) == m.method = "testEnd" /\ m.status = "passed"
HasBad(w) == \E i \in DOMAIN w : Bad(w[i])
NonePasses(w) == \A i \in DOMAIN w : ~Passes(w[i])
NonePassesAfter(w) == \A i, k \in DOMAIN w : i < k /\ Bad(w[i]) => ~Passes(w[k])

(* A message says what a test was declared with, or that it skipped itself.  *)
Honest(m) == m.method = "testEnd" => m.expected \in {Expected[m.test], "skipped"}
AllHonest(w) == \A i \in DOMAIN w : Honest(w[i])

Failing == failed # {} /\ ~ReachedMaxFailures(failedCount)
InTest == worker.phase \in {"test", "tail"}

StreamOK ==
  /\ NonePassesAfter(wire) /\ AllHonest(wire)
  /\ Failing => NonePasses(wire)
  /\ Failing \/ HasBad(wire) => (Working => worker.stopped) /\ (InTest => worker.status # "passed")
  /\ worker.phase = "tail" /\ worker.status \notin {"skipped", worker.expected} => worker.stopped
  /\ InTest => worker.expected \in {Expected[worker.test], "skipped"}

(* The runs of a test that are over, and those it has when a set of tests    *)
(* that wait has run: the same for all tests of a suite.                     *)
Runs(t) == Len(results[t]) - (IF t \in begun THEN 1 ELSE 0)
Due(t, S) == Runs(t) + (IF t \in S THEN 1 ELSE 0)
Level(suite, S) == \A s, t \in suite : Due(s, S) = Due(t, S)

(* The i-th run of a test went well, or the latest one did.                  *)
Good(t, i) == i \in DOMAIN results[t] /\ results[t][i] \in {"skipped", Expected[t]}
LastGood(t) == Good(t, Len(results[t]))

SetsOf(jobs) == {ToSet(jobs[i]) : i \in DOMAIN jobs}
QueueOK ==
  \A suite \in SerialSuite : \A Q \in SetsOf(queue) :
    Q \cap suite # {} => Level(suite, Q) /\ \A t \in suite \ Q : LastGood(t)

JobOK ==
  \A suite \in SerialSuite :
    ToSet(job) \cap suite # {} =>
      /\ Level(suite, remaining)
      /\ \A t \in suite \ remaining : ReachedMaxFailures(failedCount) \/ t \in failed \/ LastGood(t)

(* A test passes after the earlier tests of its suite.                       *)
PassesInTurn ==
  \A suite \in SerialSuite : \A s, t \in suite : \A i \in DOMAIN results[t] :
    s < t /\ results[t][i] = "passed" => Good(s, i)

SuitesOK == QueueOK /\ JobOK /\ PassesInTurn

Alike == \A suite \in SerialSuite : \A s, t \in suite : Retries[s] = Retries[t]

LEMMA MessageSent ==
  ASSUME NEW w \in Seq(Message), NEW m \in Message
  PROVE  /\ w \o <<m>> \in Seq(Message)
         /\ \A t : Comes(w \o <<m>>, t) <=> Comes(w, t) \/ (m.method = "testBegin" /\ m.test = t)
         /\ Ascends(w) /\ (m.method = "testBegin" => \A t \in Test : Comes(w, t) => t < m.test) => Ascends(w \o <<m>>)
         /\ HasBad(w \o <<m>>) <=> HasBad(w) \/ Bad(m)
         /\ NonePasses(w) /\ ~Passes(m) => NonePasses(w \o <<m>>)
         /\ NonePassesAfter(w) /\ (HasBad(w) => ~Passes(m)) => NonePassesAfter(w \o <<m>>)
         /\ AllHonest(w) /\ Honest(m) => AllHonest(w \o <<m>>)
<1> DEFINE v == w \o <<m>>
           n == Len(w)
<1>1. /\ v \in Seq(Message) /\ n \in Nat /\ DOMAIN w = 1..n /\ DOMAIN v = 1..(n + 1)
      /\ (\A i \in 1..n : v[i] = w[i]) /\ v[n + 1] = m
  OBVIOUS
<1> HIDE DEF v, n
<1>2. \A i \in DOMAIN v : (i \in DOMAIN w /\ v[i] = w[i]) \/ (i = n + 1 /\ v[i] = m)
  <2> TAKE i \in DOMAIN v
  <2>1. i \in 1..n \/ i = n + 1
    BY <1>1
  <2> QED
    BY <1>1, <2>1
<1>3. \A i \in DOMAIN w : i \in DOMAIN v /\ v[i] = w[i] /\ i < n + 1
  BY <1>1
<1>4. n + 1 \in DOMAIN v /\ v[n + 1] = m /\ \A i \in DOMAIN v : ~(n + 1 < i) /\ i \in Nat
  BY <1>1
<1>5. \A t : Comes(v, t) <=> Comes(w, t) \/ (m.method = "testBegin" /\ m.test = t)
  BY <1>2, <1>3, <1>4 DEF Comes
<1>6. ASSUME Ascends(w), m.method = "testBegin" => \A t \in Test : Comes(w, t) => t < m.test PROVE Ascends(v)
  <2> SUFFICES ASSUME NEW i \in DOMAIN v, NEW k \in DOMAIN v,
                      i < k, v[i].method = "testBegin", v[k].method = "testBegin"
               PROVE  v[i].test < v[k].test
    BY DEF Ascends
  <2>1. i \in DOMAIN w /\ v[i] = w[i]
    BY <1>2, <1>4
  <2>2. CASE k \in DOMAIN w /\ v[k] = w[k]
    BY <1>6, <2>1, <2>2 DEF Ascends
  <2>3. CASE v[k] = m
    <3>1. Comes(w, w[i].test) /\ w[i] \in Message
      BY <1>1, <2>1 DEF Comes
    <3>2. w[i].test \in Test
      BY <2>1, <3>1, MessageParts
    <3> QED
      BY <1>6, <2>1, <2>3, <3>1, <3>2
  <2> QED
    BY <1>2, <2>2, <2>3
<1>7. HasBad(v) <=> HasBad(w) \/ Bad(m)
  BY <1>2, <1>3, <1>4 DEF HasBad
<1>8. NonePasses(w) /\ ~Passes(m) => NonePasses(v)
  BY <1>2 DEF NonePasses
<1>9. ASSUME NonePassesAfter(w), HasBad(w) => ~Passes(m) PROVE NonePassesAfter(v)
  <2> SUFFICES ASSUME NEW i \in DOMAIN v, NEW k \in DOMAIN v, i < k, Bad(v[i]) PROVE ~Passes(v[k])
    BY DEF NonePassesAfter
  <2>1. i \in DOMAIN w /\ v[i] = w[i]
    BY <1>2, <1>4
  <2>2. HasBad(w)
    BY <2>1 DEF HasBad
  <2> QED
    BY <1>2, <1>9, <2>1, <2>2 DEF NonePassesAfter
<1>10. AllHonest(w) /\ Honest(m) => AllHonest(v)
  BY <1>2 DEF AllHonest
<1> QED
  BY <1>1, <1>5, <1>6, <1>7, <1>8, <1>9, <1>10 DEF v

LEMMA MessageHandled ==
  ASSUME NEW w \in Seq(Message), w # <<>>
  PROVE  /\ Tail(w) \in Seq(Message) /\ w[1] \in Message
         /\ \A t : Comes(w, t) <=> Comes(Tail(w), t) \/ (w[1].method = "testBegin" /\ w[1].test = t)
         /\ Ascends(w) => /\ Ascends(Tail(w))
                          /\ w[1].method = "testBegin" => \A t \in Test : Comes(Tail(w), t) => w[1].test < t
         /\ HasBad(Tail(w)) \/ Bad(w[1]) => HasBad(w)
         /\ NonePasses(w) => NonePasses(Tail(w)) /\ ~Passes(w[1])
         /\ NonePassesAfter(w) => NonePassesAfter(Tail(w)) /\ (Bad(w[1]) => NonePasses(Tail(w)))
         /\ AllHonest(w) => AllHonest(Tail(w)) /\ Honest(w[1])
<1> DEFINE v == Tail(w)
<1>1. /\ v \in Seq(Message) /\ w[1] \in Message /\ Len(w) \in Nat /\ Len(w) > 0
      /\ DOMAIN w = 1..Len(w) /\ DOMAIN v = 1..(Len(w) - 1)
      /\ \A i \in 1..(Len(w) - 1) : v[i] = w[i + 1]
  OBVIOUS
<1> HIDE DEF v
<1>2. 1 \in DOMAIN w /\ \A i \in DOMAIN v : i \in Nat /\ i + 1 \in DOMAIN w /\ v[i] = w[i + 1] /\ 1 < i + 1
  BY <1>1
<1>3. \A i \in DOMAIN w : i = 1 \/ (i - 1 \in DOMAIN v /\ v[i - 1] = w[i])
  <2> TAKE i \in DOMAIN w
  <2>1. i \in 1..Len(w) /\ Len(w) \in Nat
    BY <1>1
  <2>2. i = 1 \/ (i - 1 \in 1..(Len(w) - 1) /\ (i - 1) + 1 = i)
    BY ONLY <2>1
  <2> QED
    BY <1>1, <2>2
<1>4. \A i, k \in DOMAIN v : i < k => i + 1 < k + 1
  BY <1>2
<1>5. \A t : Comes(w, t) <=> Comes(v, t) \/ (w[1].method = "testBegin" /\ w[1].test = t)
  BY <1>2, <1>3 DEF Comes
<1>6. Ascends(w) => /\ Ascends(v)
                    /\ w[1].method = "testBegin" => \A t \in Test : Comes(v, t) => w[1].test < t
  BY <1>2, <1>4 DEF Ascends, Comes
<1>7. HasBad(v) \/ Bad(w[1]) => HasBad(w)
  BY <1>2 DEF HasBad
<1>8. NonePasses(w) => NonePasses(v) /\ ~Passes(w[1])
  BY <1>2 DEF NonePasses
<1>9. NonePassesAfter(w) => NonePassesAfter(v) /\ (Bad(w[1]) => NonePasses(v))
  BY <1>2, <1>4 DEF NonePassesAfter, NonePasses
<1>10. AllHonest(w) => AllHonest(v) /\ Honest(w[1])
  BY <1>2 DEF AllHonest
<1> QED
  BY <1>1, <1>5, <1>6, <1>7, <1>8, <1>9, <1>10 DEF v

LEMMA MessagesLost ==
  ASSUME NEW w \in Seq(Message), NEW n \in 0..Len(w)
  PROVE  LET v == SubSeq(w, 1, n)
         IN  /\ v \in Seq(Message)
             /\ \A t : Comes(v, t) => Comes(w, t)
             /\ Ascends(w) => /\ Ascends(v)
                              /\ \A t, u \in Test : Comes(v, t) /\ Comes(w, u) /\ ~Comes(v, u) => t < u
             /\ NonePasses(w) => NonePasses(v)
             /\ NonePassesAfter(w) => NonePassesAfter(v)
             /\ AllHonest(w) => AllHonest(v)
<1> DEFINE v == SubSeq(w, 1, n)
<1>1. /\ v \in Seq(Message) /\ Len(w) \in Nat /\ DOMAIN w = 1..Len(w) /\ DOMAIN v = 1..n
      /\ (\A i \in 1..n : v[i] = w[i]) /\ n \in Nat /\ n <= Len(w)
  OBVIOUS
<1> HIDE DEF v
<1>2. \A i \in DOMAIN v : i \in DOMAIN w /\ v[i] = w[i]
  BY <1>1
<1>3. \A i \in DOMAIN v, k \in DOMAIN w : k \notin DOMAIN v => i < k
  BY <1>1
<1>4. \A t : Comes(v, t) => Comes(w, t)
  BY <1>2 DEF Comes
<1>5. Ascends(w) => Ascends(v)
  BY <1>2 DEF Ascends
<1>6. ASSUME Ascends(w), NEW t \in Test, NEW u \in Test, Comes(v, t), Comes(w, u), ~Comes(v, u) PROVE t < u
  <2>1. PICK i \in DOMAIN v : v[i].method = "testBegin" /\ v[i].test = t
    BY <1>6 DEF Comes
  <2>2. PICK k \in DOMAIN w : w[k].method = "testBegin" /\ w[k].test = u
    BY <1>6 DEF Comes
  <2>3. k \notin DOMAIN v
    BY <1>2, <1>6, <2>2 DEF Comes
  <2> QED
    BY <1>2, <1>3, <1>6, <2>1, <2>2, <2>3 DEF Ascends
<1>7. NonePasses(w) => NonePasses(v)
  BY <1>2 DEF NonePasses
<1>8. NonePassesAfter(w) => NonePassesAfter(v)
  BY <1>2 DEF NonePassesAfter
<1>9. AllHonest(w) => AllHonest(v)
  BY <1>2 DEF AllHonest
<1> QED
  BY <1>1, <1>4, <1>5, <1>6, <1>7, <1>8, <1>9 DEF v

(* Steps that leave the messages and the tests alone.                        *)
LEMMA QuietOrder ==
  ASSUME OrderOK, UNCHANGED <<wire, begun, remaining>>, Working' => Working /\ worker'.todo = worker.todo
  PROVE  OrderOK'
BY DEF OrderOK, Given, Working, Comes, Ascends

(* The worker begins its first test.                                         *)
LEMMA FirstBegins ==
  ASSUME Inv, OrderOK, worker.phase = "between", worker.todo # {}, NEW t \in Test, t = FirstOf(worker),
         UNCHANGED <<begun, remaining>>, Ascends(wire'),
         \A u : Comes(wire', u) <=> Comes(wire, u) \/ u = t,
         worker'.todo = worker.todo \ {t}
  PROVE  OrderOK'
<1>1. worker \in Worker /\ Working /\ worker.todo = remaining \ Given
  BY InvFields DEF FieldsOfInv, OrderOK, Working
<1>2. t \in remaining /\ t \notin Given /\ \A s \in remaining \ Given : t <= s
  BY <1>1, FirstFacts
<1>3. Given' = Given \cup {t}
  BY DEF Given
<1>4. remaining \subseteq Nat
  <2>1. job \in Seq(Test) /\ remaining \subseteq ToSet(job)
    BY DEF Inv, TypeOK
  <2>2. ToSet(job) \subseteq Test
    BY <2>1 DEF ToSet
  <2> QED
    BY <2>1, <2>2, TestAssumption
<1>5. \A u \in begun : u < t
  BY <1>2 DEF OrderOK, Given
<1>6. ASSUME NEW u \in Given', NEW s \in remaining \ Given' PROVE u < s
  <2>1. s \in remaining \ Given /\ s # t
    BY <1>3, <1>6
  <2>2. CASE u \in Given
    BY <2>1, <2>2 DEF OrderOK
  <2>3. CASE u = t
    BY <1>2, <1>4, <2>1, <2>3
  <2> QED
    BY <1>3, <1>6, <2>2, <2>3
<1>7. \A u \in Test : Comes(wire', u) => u \in remaining /\ \A b \in begun : b < u
  BY <1>2, <1>5 DEF OrderOK
<1>8. worker'.todo = remaining' \ Given'
  BY <1>1, <1>3
<1> QED
  BY <1>6, <1>7, <1>8 DEF OrderOK

LEMMA OrderStep ==
  ASSUME Inv, OrderOK, [Next]_vars
  PROVE  OrderOK'
<1>1. CASE UNCHANGED vars
  BY <1>1, QuietOrder DEF vars, job_vars, Working
<1>2. ASSUME ~UNCHANGED vars PROVE setting' = setting
  BY <1>2 DEF Next, RunnerStarts, RunnerHandles, WorkerGoesOn, Fault, Terminated
<1> SUFFICES ASSUME setting' = setting PROVE OrderOK'
  BY <1>1, <1>2
<1>3. wire \in Seq(Message) /\ worker \in Worker /\ IdleOK /\ BegunOK
  BY InvFields DEF FieldsOfInv
<1>4. NoWorker.phase = "none"
  BY DEF NoWorker
<1>5. CASE SkipWholeJob \/ RunIsOver \/ StopRun \/ FailElsewhere
  <2>1. UNCHANGED <<wire, begun, remaining>>
    BY <1>5, Zenon DEF SkipWholeJob, RunIsOver, StopRun, FailElsewhere, job_vars
  <2>2. worker' = worker \/ \E stop \in BOOLEAN : worker' = AskedToStop(worker, stop)
    BY <1>5, Zenon DEF SkipWholeJob, RunIsOver, StopRun, FailElsewhere, StopsRun
  <2> QED
    BY <1>3, <2>1, <2>2, AskedFacts, QuietOrder DEF Working
<1>6. CASE RunInWorker \/ WorkerDoesNotStart
  <2>1. begun' = {} /\ remaining' = ToSet(job') /\ job' = Head(queue)
    BY <1>6, StartJobFacts DEF RunInWorker, WorkerDoesNotStart
  <2>2. /\ \A i \in DOMAIN wire' : wire'[i].method # "testBegin"
        /\ Working' => worker'.todo = remaining'
    <3>1. CASE RunInWorker
      <4>1. worker' = [NoWorker EXCEPT !.phase = "loading", !.todo = ToSet(Head(queue))] /\ wire' = <<>>
        BY <3>1 DEF RunInWorker
      <4>2. worker'.todo = ToSet(Head(queue))
        BY <4>1, NoWorkerFacts DEF Worker
      <4> QED
        BY <2>1, <4>1, <4>2
    <3>2. CASE WorkerDoesNotStart
      <4> DEFINE m == DoneMessage("exit", [Nothing EXCEPT !.unexpected = TRUE])
      <4>1. worker' = NoWorker /\ wire' = <<m>>
        BY <3>2 DEF WorkerDoesNotStart
      <4>2. m.method = "exit"
        BY DEF DoneMessage
      <4> HIDE DEF m
      <4> QED
        BY <1>4, <4>1, <4>2 DEF Working
    <3> QED
      BY <1>6, <3>1, <3>2
  <2>3. Given' = {} /\ \A t : ~Comes(wire', t)
    BY <2>1, <2>2 DEF Given, Comes
  <2> QED
    BY <2>1, <2>2, <2>3 DEF OrderOK, Ascends
<1>7. CASE OnTestBegin
  <2>1. /\ wire # <<>> /\ wire[1].method = "testBegin" /\ wire' = Tail(wire) /\ wire[1].test \in Test /\ begun = {}
        /\ IF wire[1].test \in remaining THEN begun' = {wire[1].test} ELSE begun' = {}
        /\ UNCHANGED <<remaining, worker>>
    BY <1>7, OnTestBeginFacts
  <2> DEFINE t == wire[1].test
  <2>2. /\ \A u : Comes(wire, u) <=> Comes(wire', u) \/ t = u
        /\ Ascends(wire') /\ \A u \in Test : Comes(wire', u) => t < u
    BY <1>3, <2>1, MessageHandled DEF OrderOK
  <2> HIDE DEF t
  <2>3. t \in remaining
    BY <2>1, <2>2 DEF OrderOK, t
  <2>4. begun' = {t}
    BY <2>1, <2>3 DEF t
  <2>5. Given' = Given
    BY <2>1, <2>2, <2>4 DEF Given, t
  <2> QED
    BY <2>1, <2>2, <2>4, <2>5 DEF OrderOK, Working
<1>8. CASE OnTestEnd
  <2> DEFINE t == wire[1].test
  <2>1. /\ wire # <<>> /\ wire[1].method = "testEnd" /\ wire' = Tail(wire) /\ t \in Test
        /\ begun' = {} /\ begun \subseteq {t}
        /\ \/ begun = {t} /\ remaining' = remaining \ {t}
           \/ begun = {} /\ remaining' = remaining
        /\ (worker' = AskedToStop(worker, stopped') /\ stopped' = StopsRun(failedCount')) \/ worker' = worker
    BY <1>8, OnTestEndFacts
  <2>2. Ascends(wire') /\ \A u : Comes(wire, u) <=> Comes(wire', u)
    BY <1>3, <2>1, MessageHandled DEF OrderOK
  <2> HIDE DEF t
  <2>3. worker'.todo = worker.todo /\ (Working' <=> Working)
    <3>1. StopsRun(failedCount') \in BOOLEAN
      BY DEF StopsRun, Inv, TypeOK
    <3> QED
      BY <1>3, <2>1, <3>1, AskedFacts DEF Working
  <2>4. begun = {t} => ~Comes(wire, t)
    BY <2>1, TestAssumption DEF OrderOK
  <2>5. remaining' \ Given' = remaining \ Given /\ Given' \subseteq Given
    BY <2>1, <2>2, <2>4 DEF Given
  <2> QED
    BY <2>1, <2>2, <2>3, <2>4, <2>5 DEF OrderOK
<1>9. CASE OnDone
  <2>1. remaining' = {} /\ begun' = {} /\ worker' = NoWorker /\ wire' = <<>>
    BY <1>9, OnDoneFacts DEF JobOver
  <2> QED
    BY <1>4, <2>1 DEF OrderOK, Given, Working, Comes, Ascends
<1>10. CASE LoadFile \/ ThrowInTest \/ ThrowBetweenTests \/ ReceiveStop
  <2>1. UNCHANGED <<runner_vars, wire>> /\ worker'.todo = worker.todo /\ (Working' => Working)
    BY <1>3, <1>10 DEF LoadFile, ThrowInTest, ThrowBetweenTests, ReceiveStop, Worker, Working
  <2> QED
    BY <2>1, QuietOrder DEF runner_vars, job_vars
<1>11. CASE FinishTest \/ FailTest \/ FailForGood \/ SkipItself \/ FailHook
  <2>1. PICK w \in Worker : HooksDone(w)
    BY <1>11, TestStepFacts
  <2>2. UNCHANGED <<runner_vars, wire>> /\ worker.phase = "test"
    BY <1>11, TestStepFacts
  <2>3. worker'.todo = worker.todo /\ Working
    BY <2>1, <2>2, AfterTestFacts DEF HooksDone, Working
  <2> QED
    BY <2>2, <2>3, QuietOrder DEF runner_vars, job_vars
<1>12. CASE PassOverTest \/ BeginTest
  <2> DEFINE t == FirstOf(worker)
  <2>1. /\ worker.phase = "between" /\ worker.todo # {} /\ t \in Test
        /\ UNCHANGED <<begun, remaining>>
        /\ worker'.todo = worker.todo \ {t}
    BY <1>3, <1>12, SendingFacts DEF runner_vars, job_vars, Worker
  <2>2. BeginMessage(t) \in Message /\ BeginMessage(t).method = "testBegin" /\ BeginMessage(t).test = t
    BY <2>1, MessageFacts
  <2>3. wire' = wire \o <<BeginMessage(t)>>
        \/ \E e \in Message : e.method = "testEnd" /\ wire' = (wire \o <<BeginMessage(t)>>) \o <<e>>
    <3>1. CASE PassOverTest
      <4>1. PICK b, e \in Message :
               /\ b = BeginMessage(FirstOf(worker)) /\ e = EndMessage(FirstOf(worker), "skipped", "skipped", FALSE)
               /\ wire' = (wire \o <<b>>) \o <<e>>
        BY <3>1, SendingFacts
      <4>2. e.method = "testEnd"
        BY <4>1 DEF EndMessage
      <4> QED
        BY <4>1, <4>2
    <3>2. CASE BeginTest
      BY <3>2, SendingFacts
    <3> QED
      BY <1>12, <3>1, <3>2
  <2> DEFINE v == wire \o <<BeginMessage(t)>>
  <2> HIDE DEF t
  <2>4. \A u \in Test : Comes(wire, u) => u < t
    <3>1. t \in remaining \ Given
      BY <1>3, <2>1, FirstFacts DEF OrderOK, Working, t
    <3> QED
      BY <3>1 DEF OrderOK, Given
  <2>5. v \in Seq(Message) /\ Ascends(v) /\ \A u : Comes(v, u) <=> Comes(wire, u) \/ u = t
    BY <1>3, <2>2, <2>4, MessageSent DEF OrderOK
  <2> HIDE DEF v
  <2>6. Ascends(wire') /\ \A u : Comes(wire', u) <=> Comes(wire, u) \/ u = t
    <3>1. CASE wire' = v
      BY <2>5, <3>1
    <3>2. ASSUME NEW e \in Message, e.method = "testEnd", wire' = v \o <<e>>
          PROVE  Ascends(wire') /\ \A u : Comes(wire', u) <=> Comes(wire, u) \/ u = t
      BY <2>5, <3>2, MessageSent
    <3> QED
      BY <2>3, <3>1, <3>2 DEF v
  <2> QED
    BY <2>1, <2>6, FirstBegins DEF t
<1>13. CASE EndTest \/ FailToLoadFile \/ MissTests \/ FinishGroup
  <2>1. /\ UNCHANGED <<begun, remaining>>
        /\ Working' => Working /\ worker'.todo = worker.todo
    <3>1. CASE EndTest
      BY <1>3, <3>1, SendingFacts DEF runner_vars, job_vars, Working, Worker
    <3>2. CASE ~EndTest
      BY <1>13, <3>2, DoneFacts DEF runner_vars, job_vars, Working
    <3> QED
      BY <3>1, <3>2
  <2>2. PICK m \in Message : m.method # "testBegin" /\ wire' = wire \o <<m>>
    <3>1. CASE EndTest
      BY <3>1, SendingFacts DEF EndMessage
    <3>2. CASE ~EndTest
      BY <1>13, <3>2, DoneFacts
    <3> QED
      BY <3>1, <3>2
  <2>3. Ascends(wire') /\ \A u : Comes(wire', u) <=> Comes(wire, u)
    BY <1>3, <2>2, MessageSent DEF OrderOK
  <2>4. Given' = Given
    BY <2>1, <2>3 DEF Given
  <2> QED
    BY <2>1, <2>3, <2>4 DEF OrderOK
<1>14. CASE ProcessExits
  <2>1. UNCHANGED <<begun, remaining>> /\ ~Working'
    BY <1>4, <1>14, ExitFacts DEF runner_vars, job_vars, Working
  <2>2. PICK n \in 0..Len(wire) : \E m \in Message : m.method = "exit" /\ wire' = SubSeq(wire, 1, n) \o <<m>>
    BY <1>14, ExitFacts
  <2>3. PICK m \in Message : m.method = "exit" /\ wire' = SubSeq(wire, 1, n) \o <<m>>
    BY <2>2
  <2> DEFINE v == SubSeq(wire, 1, n)
  <2>4. /\ v \in Seq(Message) /\ (\A t : Comes(v, t) => Comes(wire, t)) /\ Ascends(v)
        /\ \A t, u \in Test : Comes(v, t) /\ Comes(wire, u) /\ ~Comes(v, u) => t < u
    BY <1>3, MessagesLost DEF OrderOK
  <2>5. Ascends(wire') /\ \A u : Comes(wire', u) <=> Comes(v, u)
    BY <2>3, <2>4, MessageSent
  <2> HIDE DEF v
  <2>6. ASSUME NEW u \in Given', NEW s \in remaining' \ Given' PROVE u < s
    <3>1. u \in begun \/ (u \in Test /\ Comes(v, u))
      BY <2>1, <2>5, <2>6 DEF Given
    <3>2. s \in remaining /\ s \notin begun /\ ~Comes(v, s) /\ s \in Test
      BY <2>1, <2>5, <2>6 DEF Given, Inv, TypeOK, ToSet
    <3>3. CASE Comes(wire, s)
      BY <2>4, <3>1, <3>2, <3>3 DEF OrderOK
    <3>4. CASE ~Comes(wire, s)
      BY <2>4, <3>1, <3>2, <3>4 DEF OrderOK, Given
    <3> QED
      BY <3>3, <3>4
  <2>7. \A t \in Test : Comes(wire', t) => t \in remaining' /\ \A b \in begun' : b < t
    BY <2>1, <2>4, <2>5 DEF OrderOK
  <2> QED
    BY <2>1, <2>5, <2>6, <2>7 DEF OrderOK
<1>15. CASE UNCHANGED vars
  BY <1>15, QuietOrder DEF vars, job_vars, Working
<1> QED
  BY <1>5, <1>6, <1>7, <1>8, <1>9, <1>10, <1>11, <1>12, <1>13, <1>14, <1>15
     DEF Next, RunnerStarts, RunnerHandles, WorkerGoesOn, Fault, Terminated, Crash, Kill

(* Steps that leave the messages alone, and do not take back a failure.      *)
LEMMA QuietStream ==
  ASSUME StreamOK, UNCHANGED <<setting, wire>>, Failing' => Failing,
         Working' => Working /\ (worker.stopped => worker'.stopped),
         InTest' => /\ InTest /\ (worker.status # "passed" => worker'.status # "passed")
                    /\ worker'.expected \in {Expected[worker'.test], "skipped"},
         worker'.phase = "tail" /\ worker'.status \notin {"skipped", worker'.expected} => worker'.stopped
  PROVE  StreamOK'
BY DEF StreamOK, Expected, AllHonest, Honest

LEMMA StreamStep ==
  ASSUME Inv, StreamOK, [Next]_vars
  PROVE  StreamOK'
<1>2. ASSUME ~UNCHANGED vars PROVE setting' = setting
  BY <1>2 DEF Next, RunnerStarts, RunnerHandles, WorkerGoesOn, Fault, Terminated
<1>3. wire \in Seq(Message) /\ worker \in Worker /\ IdleOK /\ BegunOK /\ setting \in Setting /\ failedCount \in Nat
  BY InvFields DEF FieldsOfInv, Inv, TypeOK
<1>4. NoWorker.phase = "none"
  BY DEF NoWorker
<1>15. CASE UNCHANGED vars
  BY <1>15, QuietStream DEF vars, job_vars, report_vars, Failing, Working, InTest, StreamOK, ReachedMaxFailures, MaxFailures
<1> SUFFICES ASSUME setting' = setting PROVE StreamOK'
  BY <1>2, <1>15
<1>1. /\ \A n : ReachedMaxFailures(n)' <=> ReachedMaxFailures(n)
      /\ \A m : Honest(m)' <=> Honest(m)
      /\ \A t : Expected[t]' = Expected[t]
  BY DEF ReachedMaxFailures, MaxFailures, Honest, Expected
<1>5. CASE SkipWholeJob \/ RunIsOver \/ StopRun \/ FailElsewhere
  <2>1. UNCHANGED <<wire, failed>> /\ (failed = {} \/ (failedCount' \in Nat /\ failedCount <= failedCount'))
    <3>1. CASE SkipWholeJob
      BY <1>3, <3>1 DEF SkipWholeJob, IdleOK, job_vars
    <3>2. CASE RunIsOver \/ StopRun \/ FailElsewhere
      <4>1. UNCHANGED <<wire, failed>> /\ (failedCount' = failedCount \/ failedCount' = failedCount + 1)
        BY <3>2, Zenon DEF RunIsOver, StopRun, FailElsewhere, job_vars, report_vars
      <4> QED
        BY <1>3, <4>1
    <3> QED
      BY <1>5, <3>1, <3>2
  <2>2. worker' = worker \/ \E stop \in BOOLEAN : worker' = AskedToStop(worker, stop)
    BY <1>5, Zenon DEF SkipWholeJob, RunIsOver, StopRun, FailElsewhere, StopsRun
  <2>3. /\ worker'.phase = worker.phase /\ worker'.stopped = worker.stopped /\ worker'.status = worker.status
        /\ worker'.expected = worker.expected /\ worker'.test = worker.test
    BY <1>3, <2>2, AskedFacts
  <2>4. Failing' => Failing
    BY <1>1, <1>3, <2>1, ReachedStays DEF Failing
  <2> QED
    BY <2>1, <2>3, <2>4, QuietStream DEF Working, InTest, StreamOK
<1>6. CASE RunInWorker \/ WorkerDoesNotStart
  <2>1. failed' = {}
    BY <1>6, StartJobFacts DEF RunInWorker, WorkerDoesNotStart
  <2>2. /\ \A i \in DOMAIN wire' : wire'[i].method # "testEnd"
        /\ worker'.phase \notin {"test", "tail"}
    <3>1. CASE RunInWorker
      <4>1. worker' = [NoWorker EXCEPT !.phase = "loading", !.todo = ToSet(Head(queue))] /\ wire' = <<>>
        BY <3>1 DEF RunInWorker
      <4>2. worker'.phase = "loading"
        BY <4>1, NoWorkerFacts DEF Worker
      <4> QED
        BY <4>1, <4>2
    <3>2. CASE WorkerDoesNotStart
      <4> DEFINE m == DoneMessage("exit", [Nothing EXCEPT !.unexpected = TRUE])
      <4>1. worker' = NoWorker /\ wire' = <<m>>
        BY <3>2 DEF WorkerDoesNotStart
      <4>2. m.method = "exit"
        BY DEF DoneMessage
      <4> HIDE DEF m
      <4> QED
        BY <1>4, <4>1, <4>2
    <3> QED
      BY <1>6, <3>1, <3>2
  <2>3. ~Failing' /\ ~InTest'
    BY <2>1, <2>2 DEF Failing, InTest
  <2> QED
    BY <2>2, <2>3 DEF StreamOK, NonePassesAfter, AllHonest, Honest, HasBad, Bad, InTest
<1>7. CASE OnTestBegin
  <2>1. wire # <<>> /\ wire' = Tail(wire) /\ UNCHANGED <<failed, failedCount, worker>>
    BY <1>7, OnTestBeginFacts
  <2>2. /\ NonePassesAfter(wire') /\ AllHonest(wire') /\ (NonePasses(wire) => NonePasses(wire'))
        /\ HasBad(wire') => HasBad(wire)
    BY <1>3, <2>1, MessageHandled DEF StreamOK
  <2>3. AllHonest(wire)' /\ (Failing' <=> Failing)
    BY <1>1, <2>1, <2>2 DEF AllHonest, Failing
  <2> QED
    BY <1>1, <2>1, <2>2, <2>3 DEF StreamOK, Working, InTest
<1>8. CASE OnTestEnd
  <2> DEFINE m == wire[1]
  <2>1. /\ wire # <<>> /\ m.method = "testEnd" /\ wire' = Tail(wire) /\ m \in Message
        /\ \/ /\ failedCount' = EndOf(m).count
              /\ failed' = IF ReportedStatus(m) \notin {"skipped", m.expected} THEN failed \cup {m.test} ELSE failed
           \/ UNCHANGED <<failed, failedCount>>
        /\ (worker' = AskedToStop(worker, stopped') /\ stopped' = StopsRun(failedCount')) \/ worker' = worker
    BY <1>8, OnTestEndFacts
  <2> HIDE DEF m
  <2>2. /\ NonePassesAfter(wire') /\ AllHonest(wire') /\ (NonePasses(wire) => NonePasses(wire'))
        /\ HasBad(wire') \/ Bad(m) => HasBad(wire)
        /\ Bad(m) => NonePasses(wire')
    BY <1>3, <2>1, MessageHandled DEF StreamOK, m
  <2>3. /\ worker'.phase = worker.phase /\ worker'.stopped = worker.stopped /\ worker'.status = worker.status
        /\ worker'.expected = worker.expected /\ worker'.test = worker.test
    <3>1. StopsRun(failedCount') \in BOOLEAN
      BY DEF StopsRun, Inv, TypeOK
    <3> QED
      BY <1>3, <2>1, <3>1, AskedFacts
  <2>4. failedCount' \in Nat /\ failedCount <= failedCount'
    <3>1. EndOf(m).count \in Nat /\ failedCount <= EndOf(m).count
      <4>1. TypeOK /\ m \in Message /\ m.method = "testEnd"
        BY <2>1 DEF Inv
      <4>2. EndOf(m).count = failedCount + 1 \/ EndOf(m).count = failedCount
        BY <4>1, EndOfFacts
      <4> QED
        BY <1>3, <4>2
    <3> QED
      BY <1>3, <2>1, <3>1
  <2>5. Failing' => Failing \/ Bad(m)
    <3>1. ReachedMaxFailures(failedCount) => ReachedMaxFailures(failedCount')
      BY <1>3, <2>4, ReachedStays
    <3> QED
      BY <1>1, <2>1, <3>1 DEF Failing, Bad, ReportedStatus
  <2>6. AllHonest(wire)'
    BY <1>1, <2>2 DEF AllHonest
  <2> QED
    BY <1>1, <2>2, <2>3, <2>5, <2>6 DEF StreamOK, Working, InTest
<1>9. CASE OnDone
  <2>1. failed' = {} /\ worker' = NoWorker /\ wire' = <<>>
    BY <1>9, OnDoneFacts DEF JobOver
  <2> QED
    BY <1>4, <2>1 DEF StreamOK, NonePassesAfter, AllHonest, HasBad, Failing, InTest, Working
<1>10. CASE LoadFile \/ ThrowInTest \/ ThrowBetweenTests \/ ReceiveStop
  <2>1. UNCHANGED <<wire, failed, failedCount>>
    BY <1>10 DEF LoadFile, ThrowInTest, ThrowBetweenTests, ReceiveStop, runner_vars, job_vars, report_vars
  <2>2. /\ Working' => Working /\ (worker.stopped => worker'.stopped)
        /\ InTest' => InTest /\ (worker.status # "passed" => worker'.status # "passed")
                      /\ worker'.expected = worker.expected /\ worker'.test = worker.test
        /\ worker'.phase = "tail" => worker'.stopped
    BY <1>3, <1>10 DEF LoadFile, ThrowInTest, ThrowBetweenTests, ReceiveStop, Worker, Working, InTest
  <2> QED
    BY <1>1, <2>1, <2>2, QuietStream DEF StreamOK, Failing
<1>11. CASE FinishTest \/ FailTest \/ FailForGood \/ SkipItself \/ FailHook
  <2>1. PICK w \in Worker : HooksDone(w)
    BY <1>11, TestStepFacts
  <2>2. UNCHANGED <<wire, failed, failedCount>> /\ worker.phase = "test"
    BY <1>11, TestStepFacts DEF runner_vars, job_vars, report_vars
  <2>3. /\ worker'.phase = "tail" /\ worker'.test = worker.test /\ worker'.status = w.status
        /\ worker'.expected = w.expected
        /\ worker'.stopped = (worker.stopped \/ w.status \notin {"skipped", w.expected})
    BY <2>1, AfterTestFacts DEF HooksDone
  <2>4. \/ w.status = worker.status /\ w.expected = worker.expected
        \/ w.status = "failed" /\ w.expected = worker.expected
        \/ w.status = "skipped" /\ w.expected = "skipped"
    BY <2>1 DEF HooksDone
  <2> QED
    BY <1>1, <2>2, <2>3, <2>4, QuietStream DEF StreamOK, Failing, Working, InTest
<1>12. CASE PassOverTest
  <2> DEFINE t == FirstOf(worker)
  <2>1. PICK b, e \in Message :
           /\ b = BeginMessage(t) /\ e = EndMessage(t, "skipped", "skipped", FALSE)
           /\ wire' = (wire \o <<b>>) \o <<e>>
    BY <1>12, SendingFacts
  <2>2. /\ ~Bad(b) /\ ~Bad(e) /\ ~Passes(b) /\ ~Passes(e) /\ Honest(b) /\ Honest(e)
    BY <2>1 DEF Bad, Passes, Honest, BeginMessage, EndMessage
  <2> DEFINE v == wire \o <<b>>
  <2>3. /\ v \in Seq(Message) /\ (HasBad(v) <=> HasBad(wire)) /\ NonePassesAfter(v) /\ AllHonest(v)
        /\ NonePasses(wire) => NonePasses(v)
    BY <1>3, <2>2, MessageSent DEF StreamOK
  <2> HIDE DEF v
  <2>4. /\ (HasBad(wire') <=> HasBad(wire)) /\ NonePassesAfter(wire') /\ AllHonest(wire')
        /\ NonePasses(wire) => NonePasses(wire')
    BY <2>1, <2>2, <2>3, MessageSent DEF v
  <2>5. UNCHANGED <<failed, failedCount>> /\ ~InTest' /\ (Working' => Working) /\ worker'.stopped = worker.stopped
    BY <1>3, <1>12, SendingFacts DEF runner_vars, job_vars, report_vars, Worker, InTest, Working
  <2>6. AllHonest(wire)' /\ (Failing' <=> Failing)
    BY <1>1, <2>4, <2>5 DEF AllHonest, Failing
  <2> QED
    BY <2>4, <2>5, <2>6 DEF StreamOK, InTest
<1>13. CASE BeginTest
  <2> DEFINE t == FirstOf(worker)
             b == BeginMessage(t)
  <2>1. /\ worker.phase = "between" /\ b \in Message /\ wire' = wire \o <<b>>
        /\ worker'.phase = "test" /\ worker'.test = t /\ worker'.stopped = worker.stopped
        /\ worker.stopped => worker'.status = "skipped"
        /\ worker'.expected = Expected[t]
        /\ UNCHANGED <<failed, failedCount>>
    BY <1>13, SendingFacts DEF runner_vars, job_vars, report_vars
  <2>2. ~Bad(b) /\ ~Passes(b) /\ Honest(b)
    BY DEF Bad, Passes, Honest, BeginMessage
  <2> HIDE DEF t, b
  <2>3. /\ (HasBad(wire') <=> HasBad(wire)) /\ NonePassesAfter(wire') /\ AllHonest(wire')
        /\ NonePasses(wire) => NonePasses(wire')
    BY <1>3, <2>1, <2>2, MessageSent DEF StreamOK
  <2>4. AllHonest(wire)' /\ (Failing' <=> Failing)
    BY <1>1, <2>1, <2>3 DEF AllHonest, Failing
  <2> QED
    BY <1>1, <2>1, <2>3, <2>4 DEF StreamOK, InTest, Working
<1>14. CASE EndTest
  <2>1. PICK e \in Message :
           /\ e = EndMessage(worker.test, worker.status, worker.expected, worker.nonRetriable)
           /\ wire' = wire \o <<e>>
    BY <1>14, SendingFacts
  <2>2. /\ worker.phase = "tail" /\ UNCHANGED <<failed, failedCount>>
        /\ worker'.phase = "between" /\ worker'.stopped = worker.stopped
    BY <1>3, <1>14, SendingFacts DEF runner_vars, job_vars, report_vars, Worker
  <2>3. /\ Bad(e) <=> worker.status \notin {"skipped", worker.expected}
        /\ Passes(e) <=> worker.status = "passed"
        /\ Honest(e) <=> worker.expected \in {Expected[worker.test], "skipped"}
    BY <2>1 DEF Bad, Passes, Honest, EndMessage
  <2>4. (Bad(e) => worker.stopped) /\ Honest(e) /\ (Failing \/ HasBad(wire) => ~Passes(e) /\ worker.stopped)
    BY <2>2, <2>3 DEF StreamOK, InTest, Working
  <2>5. /\ (HasBad(wire') <=> HasBad(wire) \/ Bad(e)) /\ NonePassesAfter(wire') /\ AllHonest(wire')
        /\ NonePasses(wire) /\ ~Passes(e) => NonePasses(wire')
    BY <1>3, <2>1, <2>4, MessageSent DEF StreamOK
  <2>6. AllHonest(wire)' /\ (Failing' <=> Failing)
    BY <1>1, <2>2, <2>5 DEF AllHonest, Failing
  <2> QED
    BY <2>2, <2>4, <2>5, <2>6 DEF StreamOK, InTest
<1>16. CASE FailToLoadFile \/ MissTests \/ FinishGroup \/ ProcessExits
  <2>1. UNCHANGED <<failed, failedCount>> /\ ~Working' /\ ~InTest'
    <3>1. CASE ProcessExits
      BY <1>4, <3>1, ExitFacts DEF runner_vars, job_vars, report_vars, Working, InTest
    <3>2. CASE ~ProcessExits
      BY <1>16, <3>2, DoneFacts DEF runner_vars, job_vars, report_vars, Working, InTest
    <3> QED
      BY <3>1, <3>2
  <2>2. \E v \in Seq(Message), m \in Message :
          /\ m.method \in {"done", "exit"} /\ wire' = v \o <<m>>
          /\ NonePassesAfter(v) /\ AllHonest(v) /\ (NonePasses(wire) => NonePasses(v))
    <3>1. CASE ProcessExits
      <4>1. PICK n \in 0..Len(wire) : \E m \in Message : m.method = "exit" /\ wire' = SubSeq(wire, 1, n) \o <<m>>
        BY <3>1, ExitFacts
      <4> DEFINE v == SubSeq(wire, 1, n)
      <4>2. /\ v \in Seq(Message) /\ NonePassesAfter(v) /\ AllHonest(v) /\ (NonePasses(wire) => NonePasses(v))
        BY <1>3, MessagesLost DEF StreamOK
      <4> QED
        BY <4>1, <4>2
    <3>2. CASE ~ProcessExits
      <4>1. \E m \in Message : m.method = "done" /\ wire' = wire \o <<m>>
        BY <1>16, <3>2, DoneFacts
      <4> QED
        BY <1>3, <4>1 DEF StreamOK
    <3> QED
      BY <3>1, <3>2
  <2>3. PICK v \in Seq(Message), m \in Message :
          /\ m.method \in {"done", "exit"} /\ wire' = v \o <<m>>
          /\ NonePassesAfter(v) /\ AllHonest(v) /\ (NonePasses(wire) => NonePasses(v))
    BY <2>2
  <2>4. ~Bad(m) /\ ~Passes(m) /\ Honest(m)
    BY <2>3 DEF Bad, Passes, Honest
  <2>5. NonePassesAfter(wire') /\ AllHonest(wire') /\ (NonePasses(wire) => NonePasses(wire'))
    BY <2>3, <2>4, MessageSent
  <2>6. AllHonest(wire)' /\ (Failing' <=> Failing)
    BY <1>1, <2>1, <2>5 DEF AllHonest, Failing
  <2> QED
    BY <2>1, <2>5, <2>6 DEF StreamOK, InTest
<1> QED
  BY <1>5, <1>6, <1>7, <1>8, <1>9, <1>10, <1>11, <1>12, <1>13, <1>14, <1>15, <1>16
     DEF Next, RunnerStarts, RunnerHandles, WorkerGoesOn, Fault, Terminated, Crash, Kill

(***************************************************************************)
(* How a job that ends changes the results.                                *)
(***************************************************************************)
(* From one ledger to a later one: the tests that are done with have failed  *)
(* or were skipped, unless maxFailures was reached.                          *)
Advances(l, m) ==
  /\ l \in Ledgers /\ m \in Ledgers
  /\ m.remaining \subseteq l.remaining /\ l.count <= m.count
  /\ l.failed \subseteq m.failed /\ m.failed \subseteq l.failed \cup (l.remaining \ m.remaining)
  /\ \A t \in Test : t \notin l.remaining \/ t \in m.remaining => m.results[t] = l.results[t]
  /\ \A t \in l.remaining \ m.remaining :
       \/ t \in m.failed /\ \E status \in {"failed", "skipped"} : m.results[t] = Ended(l.results[t], t, status)
       \/ ReachedMaxFailures(m.count) /\ m.results[t] = l.results[t]

LEMMA AdvancesFurther ==
  ASSUME setting \in Setting, NEW l, NEW m, NEW n, Advances(l, m), Advances(m, n)
  PROVE  Advances(l, n)
<1>1. /\ l \in Ledgers /\ m \in Ledgers /\ n \in Ledgers
      /\ l.count \in Nat /\ m.count \in Nat /\ n.count \in Nat /\ l.count <= m.count /\ m.count <= n.count
  BY DEF Advances, Ledgers
<1>2. ReachedMaxFailures(m.count) => ReachedMaxFailures(n.count)
  BY <1>1, ReachedStays
<1>3. l.count <= n.count
  BY <1>1
<1>4. /\ n.remaining \subseteq l.remaining
      /\ l.failed \subseteq n.failed /\ n.failed \subseteq l.failed \cup (l.remaining \ n.remaining)
      /\ \A t \in Test : t \notin l.remaining \/ t \in n.remaining => n.results[t] = l.results[t]
  BY DEF Advances
<1>5. ASSUME NEW t \in l.remaining \ n.remaining
      PROVE  \/ t \in n.failed /\ \E status \in {"failed", "skipped"} : n.results[t] = Ended(l.results[t], t, status)
             \/ ReachedMaxFailures(n.count) /\ n.results[t] = l.results[t]
  <2>1. t \in Test
    BY <1>1 DEF Ledgers
  <2>2. CASE t \in m.remaining
    BY <2>1, <2>2 DEF Advances
  <2>3. CASE t \notin m.remaining
    BY <1>2, <2>1, <2>3 DEF Advances
  <2> QED
    BY <2>2, <2>3
<1> QED
  BY <1>1, <1>3, <1>4, <1>5 DEF Advances

LEMMA AdvancesStays ==
  ASSUME NEW l \in Ledgers
  PROVE  Advances(l, l)
BY DEF Advances, Ledgers

LEMMA ClosesAdvances ==
  ASSUME NEW l \in Ledgers, NEW m \in Ledgers, NEW t \in l.remaining, Closes(l, t, m)
  PROVE  Advances(l, m)
<1>1. /\ t \in Test /\ l.count \in Nat /\ m.remaining = l.remaining \ {t} /\ l.results \in Results
  BY DEF Ledgers, Closes
<1>2. CASE m.results = l.results /\ m.count = l.count /\ m.failed = l.failed /\ ReachedMaxFailures(l.count)
  BY <1>1, <1>2 DEF Advances
<1>3. ASSUME NEW status \in {"failed", "skipped"},
             m.results = [l.results EXCEPT ![t] = Ended(l.results[t], t, status)],
             m.failed = l.failed \cup {t}, m.count = l.count \/ m.count = l.count + 1
      PROVE  Advances(l, m)
  <2>1. m.results[t] = Ended(l.results[t], t, status) /\ \A u \in Test : u # t => m.results[u] = l.results[u]
    BY <1>1, <1>3 DEF Results
  <2>2. l.count <= m.count
    BY <1>1, <1>3
  <2> QED
    BY <1>1, <1>3, <2>1, <2>2 DEF Advances
<1> QED
  BY <1>2, <1>3 DEF Closes

LEMMA LoopAdvances ==
  ASSUME setting \in Setting, NEW l \in Ledgers, NEW tests \in Seq(Test), ToSet(tests) \subseteq l.remaining,
         IsInjective(tests), NEW m, ClosesAll(tests, l, m)
  PROVE  Advances(l, m) /\ m.remaining = l.remaining \ ToSet(tests)
<1>1. PICK f \in [0..Len(tests) -> Ledgers] :
             /\ f[0] = l /\ f[Len(tests)] = m
             /\ \A n \in 1..Len(tests) : Closes(f[n - 1], tests[n], f[n])
  BY DEF ClosesAll
<1> DEFINE N == Len(tests)
           Closed(k) == {tests[i] : i \in 1..k}
           P == {k \in 0..N : Advances(l, f[k]) /\ f[k].remaining = l.remaining \ Closed(k)}
<1>2. N \in Nat /\ DOMAIN tests = 1..N /\ \A n \in 1..N : tests[n] \in l.remaining
  BY DEF ToSet
<1>3. 0 \in P
  <2>1. Closed(0) = {}
    OBVIOUS
  <2> HIDE DEF Closed
  <2> QED
    BY <1>1, <1>2, <2>1, AdvancesStays
<1>4. ASSUME NEW k \in 0..N, k \in P, k < N PROVE k + 1 \in P
  <2>1. k + 1 \in 1..N /\ k + 1 - 1 = k /\ k + 1 \in 0..N
    BY <1>2, <1>4
  <2>2. Closes(f[k], tests[k + 1], f[k + 1])
    BY <1>1, <2>1
  <2>3. Closed(k + 1) = Closed(k) \cup {tests[k + 1]}
    BY <2>1
  <2>4. tests[k + 1] \notin Closed(k)
    BY <1>2, <2>1 DEF IsInjective
  <2> HIDE DEF Closed
  <2>5. tests[k + 1] \in f[k].remaining /\ Advances(l, f[k])
    BY <1>2, <1>4, <2>1, <2>4
  <2>6. Advances(f[k], f[k + 1])
    BY <1>1, <2>1, <2>2, <2>5, ClosesAdvances
  <2>7. Advances(l, f[k + 1])
    BY <2>5, <2>6, AdvancesFurther
  <2>8. f[k + 1].remaining = l.remaining \ Closed(k + 1)
    BY <1>4, <2>2, <2>3 DEF Closes
  <2> QED
    BY <2>1, <2>7, <2>8
<1>5. \A k \in 0..N : k \in P
  <2> HIDE DEF P
  <2> QED
    BY <1>2, <1>3, <1>4, UpTo
<1>6. Closed(N) = ToSet(tests)
  BY <1>2 DEF ToSet
<1> QED
  BY <1>1, <1>2, <1>5, <1>6

LEMMA MassSkipAdvances ==
  ASSUME TypeOK, NEW l, LedgerOK(l), IsInjective(job), NEW tests, NEW e \in BOOLEAN
  PROVE  Advances(l, MassSkip(l, tests, e))
<1> DEFINE base == [l EXCEPT !.errors = e]
           order == InJobOrder(l.remaining \cap tests)
           after == SkipLoop(order, base)
           m == [after EXCEPT !.workerErrors = @ \/ after.errors]
<1>1. MassSkip(l, tests, e) = m
  BY DEF MassSkip, ForEach, SkipLoop, SkipStep
<1>2. job \in Seq(Test) /\ remaining \subseteq ToSet(job) /\ setting \in Setting
  BY DEF TypeOK
<1>3. order \in Seq(Test) /\ ToSet(order) = ToSet(job) \cap (l.remaining \cap tests) /\ IsInjective(order)
  BY <1>2, JobOrderFacts
<1>4. ToSet(order) = l.remaining \cap tests
  BY <1>2, <1>3 DEF LedgerOK
<1>5. /\ l \in Ledgers /\ base \in Ledgers /\ base.results = l.results /\ base.count = l.count
      /\ base.remaining = l.remaining /\ base.failed = l.failed
  BY DEF LedgerOK, Ledgers
<1> HIDE DEF base, order
<1>6. after \in Ledgers /\ ClosesAll(order, base, after)
  BY <1>3, <1>5, SkipLoopCloses
<1> HIDE DEF after
<1>7. Advances(base, after)
  BY <1>2, <1>3, <1>4, <1>5, <1>6, LoopAdvances
<1>8. /\ m \in Ledgers /\ m.results = after.results /\ m.count = after.count
      /\ m.remaining = after.remaining /\ m.failed = after.failed
  BY <1>6 DEF Ledgers
<1> HIDE DEF m
<1> QED
  BY <1>1, <1>5, <1>7, <1>8 DEF Advances

LEMMA SettledAdvances ==
  ASSUME TypeOK, LedgerOK(Ledger), IsInjective(job), NEW payload \in Payload
  PROVE  Advances(Ledger, Settled(payload)) /\ LedgerOK(Settled(payload))
<1> DEFINE order == InJobOrder(payload.unknown \cap remaining)
           renamed == MissLoop(order, Ledger)
           fatal == IF payload.fatal THEN MassSkip(renamed, Test, TRUE) ELSE renamed
           hook == MassSkip(fatal, payload.skip, FALSE)
           blamed == IF current # NoTest THEN {current} ELSE Test
           end == IF payload.unexpected THEN MassSkip(hook, blamed, TRUE) ELSE hook
<1>1. Settled(payload) = end
  BY DEF Settled, ForEach, MissLoop, MissStep
<1>2. job \in Seq(Test) /\ remaining \subseteq ToSet(job) /\ Ledger.remaining = remaining /\ setting \in Setting
  BY DEF TypeOK, Ledger
<1>3. order \in Seq(Test) /\ ToSet(order) = payload.unknown \cap remaining /\ IsInjective(order)
  <2>1. order \in Seq(Test) /\ ToSet(order) = ToSet(job) \cap (payload.unknown \cap remaining) /\ IsInjective(order)
    BY <1>2, JobOrderFacts
  <2> QED
    BY <1>2, <2>1
<1> HIDE DEF order
<1>4. Ledger \in Ledgers
  BY DEF LedgerOK
<1>5. renamed \in Ledgers /\ ClosesAll(order, Ledger, renamed)
  BY <1>3, <1>4, MissLoopCloses
<1> HIDE DEF renamed
<1>6. LedgerOK(renamed)
  BY <1>2, <1>3, <1>5, LoopKeeps
<1>7. Advances(Ledger, renamed)
  BY <1>2, <1>3, <1>4, <1>5, LoopAdvances
<1>8. LedgerOK(fatal) /\ Advances(renamed, fatal)
  BY <1>5, <1>6, MassSkipFacts, MassSkipAdvances, AdvancesStays
<1> HIDE DEF fatal
<1>9. LedgerOK(hook) /\ Advances(fatal, hook)
  BY <1>8, MassSkipFacts, MassSkipAdvances
<1> HIDE DEF hook, blamed
<1>10. hook \in Ledgers
  BY <1>9 DEF LedgerOK
<1>11. LedgerOK(end) /\ Advances(hook, end)
  BY <1>9, <1>10, MassSkipFacts, MassSkipAdvances, AdvancesStays
<1> HIDE DEF end
<1> QED
  BY <1>1, <1>2, <1>7, <1>8, <1>9, <1>11, AdvancesFurther

(***************************************************************************)
(* Serial suites, step by step.                                            *)
(***************************************************************************)
LEMMA ConcatSets ==
  ASSUME NEW a \in Seq(Seq(Test)), NEW b \in Seq(Seq(Test))
  PROVE  a \o b \in Seq(Seq(Test)) /\ SetsOf(a \o b) \subseteq SetsOf(a) \cup SetsOf(b)
<1> DEFINE c == a \o b
<1>1. /\ c \in Seq(Seq(Test)) /\ Len(c) = Len(a) + Len(b) /\ Len(a) \in Nat /\ Len(b) \in Nat
      /\ DOMAIN c = 1..(Len(a) + Len(b)) /\ DOMAIN a = 1..Len(a) /\ DOMAIN b = 1..Len(b)
      /\ \A i \in 1..Len(a) : c[i] = a[i]
      /\ \A i \in 1..Len(b) : c[i + Len(a)] = b[i]
  BY ConcatProperties
<1> HIDE DEF c
<1>2. \A i \in DOMAIN c : \/ i \in DOMAIN a /\ c[i] = a[i]
                          \/ i - Len(a) \in DOMAIN b /\ c[i] = b[i - Len(a)]
  <2> TAKE i \in DOMAIN c
  <2>1. i \in 1..(Len(a) + Len(b)) /\ Len(a) \in Nat /\ Len(b) \in Nat
    BY <1>1
  <2>2. i \in 1..Len(a) \/ (i - Len(a) \in 1..Len(b) /\ (i - Len(a)) + Len(a) = i)
    BY ONLY <2>1
  <2> QED
    BY <1>1, <2>2
<1> QED
  BY <1>1, <1>2 DEF SetsOf, c

LEMMA NonEmptySets ==
  ASSUME NEW s \in Seq(Test)
  PROVE  NonEmpty(s) \in Seq(Seq(Test)) /\ SetsOf(NonEmpty(s)) \subseteq {ToSet(s)}
<1>1. CASE s = <<>>
  BY <1>1 DEF NonEmpty, SetsOf
<1>2. CASE s # <<>>
  <2>1. NonEmpty(s) = <<s>>
    BY <1>2 DEF NonEmpty
  <2>2. NonEmpty(s) \in Seq(Seq(Test)) /\ DOMAIN NonEmpty(s) = {1} /\ NonEmpty(s)[1] = s
    BY <2>1
  <2> QED
    BY <2>2 DEF SetsOf
<1> QED
  BY <1>1, <1>2

LEMMA TailSets ==
  ASSUME NEW q \in Seq(Seq(Test)), q # <<>>
  PROVE  SetsOf(Tail(q)) \subseteq SetsOf(q) /\ ToSet(Head(q)) \in SetsOf(q)
<1>1. /\ Head(q) = q[1] /\ 1 \in DOMAIN q
      /\ \A i \in DOMAIN Tail(q) : i + 1 \in DOMAIN q /\ Tail(q)[i] = q[i + 1]
  OBVIOUS
<1> QED
  BY <1>1 DEF SetsOf

LEMMA RequeuedSets ==
  ASSUME TypeOK, NEW l, l.remaining \subseteq ToSet(job), NEW again \in Seq(Test)
  PROVE  /\ SetsOf(Requeued(l, again)) \subseteq
              SetsOf(queue) \cup {l.remaining, ToSet(again), l.remaining \cup ToSet(again)}
         /\ Isolated => SetsOf(Requeued(l, again)) \subseteq SetsOf(queue) \cup {l.remaining, ToSet(again)}
<1> DEFINE rest == InJobOrder(l.remaining)
           retries == ToSet(again)
           both == rest \o again
<1>1. /\ job \in Seq(Test) /\ queue \in Seq(Seq(Test))
      /\ rest \in Seq(Test) /\ ToSet(rest) = ToSet(job) \cap l.remaining
      /\ again \in Seq(Test) /\ ToSet(again) = retries
  BY JobOrderFacts DEF TypeOK
<1>2. Requeued(l, again) = IF Isolated THEN NonEmpty(rest) \o queue \o NonEmpty(again)
                           ELSE NonEmpty(both) \o queue
  BY DEF Requeued
<1> HIDE DEF rest, retries
<1>3. ToSet(rest) = l.remaining
  BY <1>1
<1>4. both \in Seq(Test) /\ ToSet(both) = l.remaining \cup retries
  <2>1. both \in Seq(Test)
    BY <1>1, ConcatProperties
  <2>2. ToSet(both) = ToSet(rest) \cup ToSet(again)
    <3>1. Range(both) = Range(rest) \cup Range(again)
      BY <1>1, RangeConcatenation
    <3>2. \A f : ToSet(f) = Range(f)
      BY DEF Range, ToSet
    <3> QED
      BY <3>1, <3>2
  <2> QED
    BY <1>1, <1>3, <2>1, <2>2
<1> HIDE DEF both
<1>5. /\ NonEmpty(rest) \in Seq(Seq(Test)) /\ SetsOf(NonEmpty(rest)) \subseteq {l.remaining}
      /\ NonEmpty(again) \in Seq(Seq(Test)) /\ SetsOf(NonEmpty(again)) \subseteq {retries}
      /\ NonEmpty(both) \in Seq(Seq(Test)) /\ SetsOf(NonEmpty(both)) \subseteq {l.remaining \cup retries}
  BY <1>1, <1>3, <1>4, NonEmptySets
<1> HIDE DEF NonEmpty
<1>6. /\ NonEmpty(rest) \o queue \in Seq(Seq(Test))
      /\ SetsOf(NonEmpty(rest) \o queue) \subseteq {l.remaining} \cup SetsOf(queue)
      /\ SetsOf(NonEmpty(both) \o queue) \subseteq {l.remaining \cup retries} \cup SetsOf(queue)
  BY <1>1, <1>5, ConcatSets
<1>7. SetsOf(NonEmpty(rest) \o queue \o NonEmpty(again)) \subseteq {l.remaining} \cup SetsOf(queue) \cup {retries}
  BY <1>5, <1>6, ConcatSets
<1> QED
  BY <1>2, <1>6, <1>7 DEF retries

(* A suite whose results and tests a step leaves alone.                      *)
LEMMA SuiteUntouched ==
  ASSUME setting' = setting, NEW suite, NEW Q, Level(suite, Q), \A t \in suite \ Q : LastGood(t),
         \A t \in suite : results'[t] = results[t] /\ (t \in begun' <=> t \in begun)
  PROVE  /\ \A s, t \in suite : Due(s, Q)' = Due(t, Q)'
         /\ \A t \in suite \ Q : LastGood(t)'
<1>1. \A t \in suite : Due(t, Q)' = Due(t, Q)
  <2> TAKE t \in suite
  <2>1. Runs(t)' = Runs(t)
    BY DEF Runs
  <2> QED
    BY <2>1 DEF Due
<1>2. \A t \in suite : LastGood(t)' = LastGood(t)
  BY DEF LastGood, Good, Expected
<1> QED
  BY <1>1, <1>2 DEF Level

LEMMA QuietSuites ==
  ASSUME SuitesOK, UNCHANGED <<setting, queue, job, remaining, begun, results>>, failed \subseteq failed',
         ReachedMaxFailures(failedCount) => ReachedMaxFailures(failedCount)'
  PROVE  SuitesOK'
<1>1. \A t : LastGood(t)' = LastGood(t) /\ (\A i : Good(t, i)' = Good(t, i)) /\ Runs(t)' = Runs(t)
  BY DEF LastGood, Good, Expected, Runs
<1>2. \A suite, Q : Level(suite, Q)' = Level(suite, Q)
  BY <1>1 DEF Level, Due
<1>3. QueueOK'
  BY <1>1, <1>2 DEF SuitesOK, QueueOK, SetsOf
<1>4. JobOK'
  <2>1. \A suite : Level(suite, remaining)' = Level(suite, remaining)
    BY <1>1 DEF Level, Due
  <2> QED
    BY <1>1, <2>1 DEF SuitesOK, JobOK
<1>5. PassesInTurn'
  BY <1>1 DEF SuitesOK, PassesInTurn
<1> QED
  BY <1>3, <1>4, <1>5 DEF SuitesOK

LEMMA SuiteApart ==
  ASSUME ExactOK, phase = "running", NEW suite \in SerialSuite, NEW Q \in SetsOf(queue), Q \cap suite # {}
  PROVE  ToSet(job) \cap suite = {}
<1>1. AllOf(queue) \cap suite # {}
  BY DEF SetsOf, AllOf
<1>2. queue # <<>>
  BY DEF SetsOf
<1> QED
  BY <1>1, <1>2 DEF ExactOK, OneJob, SuiteWhole

LEMMA InitSuites ==
  ASSUME Init
  PROVE  SuitesOK
<1>1. setting \in Setting /\ Group \in SUBSET Test
  BY SettingAssumption DEF Init, Group
<1>2. ToSet(InFileOrder(Group)) = Group
  BY <1>1, FileOrderFacts
<1>3. /\ queue = <<InFileOrder(Group)>> /\ job = <<>> /\ begun = {}
      /\ results = [t \in Test |-> <<>>]
  BY DEF Init
<1>4. ToSet(job) = {} /\ SetsOf(queue) = {Group}
  <2>1. DOMAIN queue = {1} /\ queue[1] = InFileOrder(Group)
    BY <1>3
  <2>3. SetsOf(queue) = {Group}
    BY <1>2, <2>1 DEF SetsOf
  <2>2. ToSet(job) = {}
    BY <1>3 DEF ToSet
  <2> QED
    BY <2>2, <2>3
<1>5. ASSUME NEW suite \in SerialSuite, Group \cap suite # {} PROVE suite \subseteq Group
  BY <1>1, <1>5, SettingAssumption DEF Group
<1>6. \A suite \in SerialSuite : suite \subseteq Test
  BY SuiteAssumption
<1>7. \A t \in Test : results[t] = <<>> /\ DOMAIN results[t] = {}
  BY <1>3
<1>8. QueueOK
  <2> SUFFICES ASSUME NEW suite \in SerialSuite, Group \cap suite # {}
               PROVE  Level(suite, Group) /\ suite \subseteq Group
    BY <1>4 DEF QueueOK
  <2>1. suite \subseteq Group
    BY <1>5
  <2>2. \A t \in suite : Due(t, Group) = Len(<<>>) - 0 + 1
    BY <1>3, <1>6, <1>7, <2>1 DEF Due, Runs
  <2> QED
    BY <2>1, <2>2 DEF Level
<1>9. JobOK /\ PassesInTurn
  BY <1>4, <1>6, <1>7 DEF JobOK, PassesInTurn
<1> QED
  BY <1>8, <1>9 DEF SuitesOK

LEMMA StartJobSuites ==
  ASSUME Inv, SuitesOK, setting' = setting, StartJob
  PROVE  SuitesOK'
<1>1. /\ queue # <<>> /\ phase = "idle" /\ job' = Head(queue) /\ queue' = Tail(queue) /\ remaining' = ToSet(job')
      /\ begun' = {} /\ UNCHANGED report_vars
  BY StartJobFacts
<1>2. begun = {} /\ queue \in Seq(Seq(Test))
  BY <1>1 DEF Inv, WireOK, IdleOK, TypeOK
<1>3. SetsOf(queue') \subseteq SetsOf(queue) /\ ToSet(job') \in SetsOf(queue)
  BY <1>1, <1>2, TailSets
<1>4. \A suite \in SerialSuite : \A Q \in SetsOf(queue) :
        Q \cap suite # {} => Level(suite, Q) /\ \A t \in suite \ Q : LastGood(t)
  BY DEF SuitesOK, QueueOK
<1>5. QueueOK'
  <2> SUFFICES ASSUME NEW suite \in SerialSuite, NEW Q \in SetsOf(queue'), Q \cap suite # {}
               PROVE  /\ \A s, t \in suite : Due(s, Q)' = Due(t, Q)'
                      /\ \A t \in suite \ Q : LastGood(t)'
    BY DEF QueueOK, Level
  <2>1. Level(suite, Q) /\ \A t \in suite \ Q : LastGood(t)
    BY <1>3, <1>4
  <2> QED
    BY <1>1, <1>2, <2>1, SuiteUntouched DEF report_vars
<1>6. JobOK'
  <2> SUFFICES ASSUME NEW suite \in SerialSuite, ToSet(job') \cap suite # {}
               PROVE  Level(suite, remaining)' /\ \A t \in suite \ remaining' : LastGood(t)'
    BY DEF JobOK
  <2>1. Level(suite, ToSet(job')) /\ \A t \in suite \ ToSet(job') : LastGood(t)
    BY <1>3, <1>4
  <2> QED
    BY <1>1, <1>2, <2>1 DEF Level, Due, Runs, LastGood, Good, Expected, report_vars
<1>7. PassesInTurn'
  BY <1>1 DEF SuitesOK, PassesInTurn, Good, Expected, report_vars
<1> QED
  BY <1>5, <1>6, <1>7 DEF SuitesOK

LEMMA SkipWholeJobSuites ==
  ASSUME Inv, ExactOK, SuitesOK, setting' = setting, SkipWholeJob
  PROVE  SuitesOK'
<1>1. TypeOK /\ queue \in Seq(Seq(Test)) /\ job = <<>> /\ begun = {}
  <2>1. phase = "idle"
    BY Zenon DEF SkipWholeJob
  <2> QED
    BY <2>1 DEF Inv, TypeOK, WireOK, IdleOK
<1>2. PICK after \in Ledgers : ReportsAll(Head(queue), Ledger, after) /\ SkipWholeJobWith(after)
  BY <1>1, SkipWholeJobDoes
<1> DEFINE first == Head(queue)
           rest == Tail(queue)
<1>3. /\ first \in Seq(Test) /\ queue' = rest /\ queue # <<>>
      /\ \A i \in DOMAIN first : expected[first[i]] = "skipped"
  BY <1>1, SkipWholeJobDoes
<1>4. UNCHANGED job_vars
  BY Zenon DEF SkipWholeJob
<1>5. /\ rest \in Seq(Seq(Test)) /\ Len(rest) = Len(queue) - 1
      /\ \A S : InOne(queue, S) => (ToSet(first) \cap S # {} => AllOf(rest) \cap S = {})
      /\ EachOnce(queue) => IsInjective(first)
  BY <1>1, <1>3, TailJobs
<1>6. /\ results' \in Results
      /\ \A t \in Test \ ToSet(first) : results'[t] = results[t]
      /\ \A t \in ToSet(first) : results'[t] = Append(results[t], "skipped")
  <2>1. ReportsAll(first, Ledger, after) /\ results' = after.results /\ failedCount' = after.count
    BY <1>2 DEF SkipWholeJobWith
  <2>2. IsInjective(first)
    BY <1>5 DEF ExactOK, JobsOK
  <2> HIDE DEF first
  <2> QED
    BY <1>1, <1>3, <2>1, <2>2, ReportFacts
<1>7. SetsOf(rest) \subseteq SetsOf(queue)
  BY <1>1, <1>3, TailSets
<1> HIDE DEF first, rest
<1>8. ASSUME NEW suite \in SerialSuite, NEW Q \in SetsOf(rest), Q \cap suite # {}
      PROVE  \A t \in suite : t \in Test /\ t \notin ToSet(first)
  <2>1. AllOf(rest) \cap suite # {}
    BY <1>8 DEF SetsOf, AllOf
  <2>2. Isolated
    <3> SUFFICES ASSUME ~Isolated PROVE FALSE
      OBVIOUS
    <3>1. Len(queue) <= 1 /\ Len(queue) \in Nat /\ Len(rest) \in Nat
      BY <1>1, <1>5 DEF ExactOK, OneJob
    <3>2. Len(rest) = 0
      BY ONLY <1>5, <3>1
    <3>3. rest = <<>>
      BY <1>5, <3>2
    <3> QED
      BY <1>8, <3>3 DEF SetsOf
  <2>3. InOne(queue, suite)
    BY <2>2 DEF ExactOK, SuiteWhole
  <2> QED
    BY <1>5, <2>1, <2>3, SuiteAssumption
<1>9. QueueOK'
  <2> SUFFICES ASSUME NEW suite \in SerialSuite, NEW Q \in SetsOf(queue'), Q \cap suite # {}
               PROVE  /\ \A s, t \in suite : Due(s, Q)' = Due(t, Q)'
                      /\ \A t \in suite \ Q : LastGood(t)'
    BY DEF QueueOK, Level
  <2>1. Q \in SetsOf(rest)
    BY <1>3
  <2>2. Level(suite, Q) /\ \A t \in suite \ Q : LastGood(t)
    BY <1>7, <2>1 DEF SuitesOK, QueueOK
  <2>3. \A t \in suite : results'[t] = results[t]
    BY <1>6, <1>8, <2>1
  <2> QED
    BY <1>4, <2>2, <2>3, SuiteUntouched DEF job_vars
<1>10. JobOK'
  BY <1>1, <1>4 DEF JobOK, job_vars, ToSet
<1>11. \A t \in Test : \A i \in DOMAIN results'[t] :
         (i \in DOMAIN results[t] /\ results'[t][i] = results[t][i]) \/ results'[t][i] = "skipped"
  BY <1>1, <1>2, <1>3, ReportFacts DEF SkipWholeJobWith, first
<1>12. \A t \in Test : \A i \in DOMAIN results[t] : i \in DOMAIN results'[t] /\ results'[t][i] = results[t][i]
  <2> SUFFICES ASSUME NEW t \in ToSet(first), t \in Test, NEW i \in DOMAIN results[t]
               PROVE  i \in DOMAIN results'[t] /\ results'[t][i] = results[t][i]
    BY <1>6
  <2>1. results[t] \in Seq(Status \cup {"started"}) /\ "skipped" \in Status \cup {"started"}
    BY <1>1 DEF TypeOK, Status
  <2>2. results'[t] = Append(results[t], "skipped")
    BY <1>6
  <2> QED
    BY <2>1, <2>2, AppendProperties
<1>13. PassesInTurn'
  <2>1. ASSUME NEW suite \in SerialSuite, NEW s \in suite, NEW t \in suite, NEW i \in DOMAIN results'[t],
               s < t, results'[t][i] = "passed"
        PROVE  i \in DOMAIN results'[s] /\ results'[s][i] \in {"skipped", Expected[s]}
    <3>1. s \in Test /\ t \in Test
      BY SuiteAssumption
    <3>2. i \in DOMAIN results[t] /\ results[t][i] = "passed"
      BY <1>11, <2>1, <3>1
    <3>3. i \in DOMAIN results[s] /\ results[s][i] \in {"skipped", Expected[s]}
      BY <2>1, <3>2 DEF SuitesOK, PassesInTurn, Good
    <3> QED
      BY <1>12, <3>1, <3>3
  <2> QED
    BY <2>1 DEF PassesInTurn, Good, Expected
<1> QED
  BY <1>9, <1>10, <1>13 DEF SuitesOK

(* What the first of the messages does, testBegin or testEnd.                *)
LEMMA TestBegins ==
  ASSUME Inv, OrderOK, setting' = setting, OnTestBegin
  PROVE  LET t == wire[1].test
         IN  /\ phase = "running" /\ t \in remaining /\ t \in Test /\ begun = {} /\ begun' = {t}
             /\ UNCHANGED <<queue, phase, job, remaining, failed, expected, failedCount, stopped, worker>>
             /\ \A u \in Test : u # t => results'[u] = results[u]
             /\ DOMAIN results[t] \subseteq DOMAIN results'[t]
             /\ \A i \in DOMAIN results[t] : results'[t][i] = results[t][i]
             /\ \A i \in DOMAIN results'[t] : i \in DOMAIN results[t] \/ results'[t][i] = "started"
             /\ \A u \in Test : Runs(u)' = Runs(u)
<1> DEFINE t == wire[1].test
<1>1. /\ phase = "running" /\ wire # <<>> /\ wire[1].method = "testBegin" /\ t \in Test /\ begun = {}
      /\ t \in remaining => results' = [results EXCEPT ![t] = Append(@, "started")] /\ begun' = {t}
      /\ UNCHANGED <<queue, phase, job, remaining, failed, expected, failedCount, stopped, worker>>
  BY OnTestBeginFacts
<1>2. TypeOK /\ wire \in Seq(Message) /\ remaining \subseteq ToSet(job)
  BY DEF Inv, TypeOK
<1>3. t \in remaining
  <2>1. Comes(wire, t)
    <3>1. 1 \in DOMAIN wire
      BY <1>1, <1>2
    <3> QED
      BY <1>1, <3>1 DEF Comes
  <2> QED
    BY <1>1, <2>1 DEF OrderOK
<1> HIDE DEF t
<1>4. /\ begun' = {t} /\ results[t] \in Seq(Status \cup {"started"})
      /\ results'[t] = Append(results[t], "started")
      /\ \A u \in Test : u # t => results'[u] = results[u]
  BY <1>1, <1>2, <1>3 DEF TypeOK
<1>5. /\ Len(results'[t]) = Len(results[t]) + 1 /\ Len(results[t]) \in Nat
      /\ DOMAIN results[t] \subseteq DOMAIN results'[t]
      /\ \A i \in DOMAIN results[t] : results'[t][i] = results[t][i]
      /\ \A i \in DOMAIN results'[t] : i \in DOMAIN results[t] \/ results'[t][i] = "started"
  <2>1. "started" \in Status \cup {"started"}
    OBVIOUS
  <2>2. /\ Len(Append(results[t], "started")) = Len(results[t]) + 1
        /\ Append(results[t], "started")[Len(results[t]) + 1] = "started"
        /\ DOMAIN Append(results[t], "started") = 1..(Len(results[t]) + 1)
        /\ \A i \in 1..Len(results[t]) : Append(results[t], "started")[i] = results[t][i]
    BY <1>4, <2>1, AppendProperties
  <2>3. DOMAIN results[t] = 1..Len(results[t]) /\ Len(results[t]) \in Nat
    BY <1>4
  <2>4. \A i \in 1..(Len(results[t]) + 1) : i \in 1..Len(results[t]) \/ i = Len(results[t]) + 1
    BY <2>3
  <2>5. 1..Len(results[t]) \subseteq 1..(Len(results[t]) + 1)
    BY <2>3
  <2> QED
    BY <1>4, <2>2, <2>3, <2>4, <2>5
<1>6. \A u \in Test : Runs(u)' = Runs(u)
  <2> TAKE u \in Test
  <2>1. CASE u = t
    BY <1>1, <1>4, <1>5, <2>1 DEF Runs
  <2>2. CASE u # t
    BY <1>1, <1>4, <2>2 DEF Runs
  <2> QED
    BY <2>1, <2>2
<1> QED
  BY <1>1, <1>3, <1>4, <1>5, <1>6 DEF t

LEMMA OnTestBeginSuites ==
  ASSUME Inv, ExactOK, OrderOK, SuitesOK, setting' = setting, OnTestBegin
  PROVE  SuitesOK'
<1> DEFINE t == wire[1].test
<1>1. /\ phase = "running" /\ t \in remaining /\ t \in Test /\ begun = {} /\ begun' = {t}
      /\ UNCHANGED <<queue, job, remaining, failed, failedCount>>
  BY TestBegins
<1>2. remaining \subseteq ToSet(job)
  BY DEF Inv, TypeOK
<1>3. \A u \in Test : u # t => results'[u] = results[u]
  BY TestBegins
<1>4. /\ DOMAIN results[t] \subseteq DOMAIN results'[t]
      /\ \A i \in DOMAIN results[t] : results'[t][i] = results[t][i]
      /\ \A i \in DOMAIN results'[t] : i \in DOMAIN results[t] \/ results'[t][i] = "started"
  BY TestBegins
<1>6. \A u \in Test : Runs(u)' = Runs(u)
  BY TestBegins
<1> HIDE DEF t
<1>7. \A suite \in SerialSuite : suite \subseteq Test
  BY SuiteAssumption
<1>8. QueueOK'
  <2> SUFFICES ASSUME NEW suite \in SerialSuite, NEW Q \in SetsOf(queue'), Q \cap suite # {}
               PROVE  /\ \A s, u \in suite : Due(s, Q)' = Due(u, Q)'
                      /\ \A u \in suite \ Q : LastGood(u)'
    BY DEF QueueOK, Level
  <2>1. ToSet(job) \cap suite = {}
    BY <1>1, SuiteApart
  <2>2. \A u \in suite : results'[u] = results[u] /\ (u \in begun' <=> u \in begun)
    BY <1>1, <1>2, <1>3, <1>7, <2>1
  <2>3. Level(suite, Q) /\ \A u \in suite \ Q : LastGood(u)
    BY <1>1 DEF SuitesOK, QueueOK
  <2> QED
    BY <2>2, <2>3, SuiteUntouched
<1>9. JobOK'
  <2> SUFFICES ASSUME NEW suite \in SerialSuite, ToSet(job) \cap suite # {}
               PROVE  /\ \A s, u \in suite : Due(s, remaining)' = Due(u, remaining)'
                      /\ \A u \in suite \ remaining :
                           ReachedMaxFailures(failedCount)' \/ u \in failed \/ LastGood(u)'
    BY <1>1 DEF JobOK, Level
  <2>1. \A u \in suite : Due(u, remaining)' = Due(u, remaining)
    BY <1>1, <1>6, <1>7 DEF Due
  <2>2. \A u \in suite \ remaining : LastGood(u)' = LastGood(u)
    BY <1>1, <1>3, <1>7 DEF LastGood, Good, Expected
  <2>3. ReachedMaxFailures(failedCount)' = ReachedMaxFailures(failedCount)
    BY <1>1 DEF ReachedMaxFailures, MaxFailures
  <2> QED
    BY <2>1, <2>2, <2>3 DEF SuitesOK, JobOK, Level
<1>10. PassesInTurn'
  <2>1. ASSUME NEW suite \in SerialSuite, NEW s \in suite, NEW u \in suite, NEW i \in DOMAIN results'[u],
               s < u, results'[u][i] = "passed"
        PROVE  i \in DOMAIN results'[s] /\ results'[s][i] \in {"skipped", Expected[s]}
    <3>1. s \in Test /\ u \in Test
      BY <1>7
    <3>2. i \in DOMAIN results[u] /\ results[u][i] = "passed"
      BY <1>3, <1>4, <2>1, <3>1
    <3>3. i \in DOMAIN results[s] /\ results[s][i] \in {"skipped", Expected[s]}
      BY <2>1, <3>2 DEF SuitesOK, PassesInTurn, Good
    <3> QED
      BY <1>3, <1>4, <3>1, <3>3
  <2> QED
    BY <2>1 DEF PassesInTurn, Good, Expected
<1> QED
  BY <1>8, <1>9, <1>10 DEF SuitesOK

LEMMA TestEnds ==
  ASSUME Inv, ExactOK, setting' = setting, OnTestEnd, begun = {wire[1].test}
  PROVE  LET t == wire[1].test
             n == Len(results[t])
         IN  /\ \A u \in Test : u # t => results'[u] = results[u]
             /\ n \in Nat /\ n > 0 /\ DOMAIN results[t] = 1..n /\ DOMAIN results'[t] = 1..n /\ Len(results'[t]) = n
             /\ results'[t][n] = ReportedStatus(wire[1]) /\ results[t][n] = "started"
             /\ \A i \in DOMAIN results[t] : i # n => results'[t][i] = results[t][i]
             /\ \A u \in Test : Due(u, remaining)' = Due(u, remaining)
<1> DEFINE m == wire[1]
           t == m.test
           status == ReportedStatus(m)
<1>1. /\ phase = "running" /\ m \in Message /\ m.method = "testEnd" /\ t \in Test /\ begun' = {}
      /\ begun = {t} /\ t \in remaining /\ remaining' = remaining \ {t} /\ results' = EndOf(m).results
  BY OnTestEndFacts
<1>2. TypeOK
  BY DEF Inv
<1>4. results' = [results EXCEPT ![t] = WithLast(results[t], status)] /\ status \in Status
  BY <1>1, <1>2, EndOfFacts
<1>6. results[t] # <<>> /\ Last(results[t]) = "started" /\ results[t] \in Seq(Status \cup {"started"})
  BY <1>1, <1>2 DEF ExactOK, LogsOK, TypeOK
<1> HIDE DEF status, m, t
<1> DEFINE log == WithLast(results[t], status)
           n == Len(results[t])
<1>11. /\ results'[t] = log /\ \A u \in Test : u # t => results'[u] = results[u]
  BY <1>1, <1>2, <1>4 DEF TypeOK
<1>12. /\ n \in Nat /\ n > 0 /\ DOMAIN results[t] = 1..n /\ DOMAIN log = 1..n /\ Len(log) = n
       /\ log[n] = status /\ (\A i \in DOMAIN results[t] : i # n => log[i] = results[t][i])
       /\ results[t][n] = "started"
  <2>1. status \in Status \cup {"started"}
    BY <1>4
  <2>2. n \in Nat /\ n > 0 /\ DOMAIN results[t] = 1..n /\ results[t][n] = "started"
    BY <1>6 DEF Last
  <2>3. log = [results[t] EXCEPT ![n] = status]
    BY DEF WithLast
  <2>4. log \in Seq(Status \cup {"started"}) /\ DOMAIN log = 1..n /\ Len(log) = n
    BY <1>6, <2>1, <2>2, <2>3
  <2>5. log[n] = status /\ \A i \in 1..n : i # n => log[i] = results[t][i]
    BY <1>6, <2>2, <2>3
  <2> QED
    BY <2>2, <2>4, <2>5
<1> HIDE DEF log, n
<1>13. \A u \in Test : Due(u, remaining)' = Due(u, remaining)
  <2> TAKE u \in Test
  <2>1. CASE u = t
    <3>1. u \in begun /\ u \in remaining /\ Runs(u) = n - 1 /\ Due(u, remaining) = n - 1 + 1
      BY <1>1, <2>1 DEF Due, Runs, n
    <3>2. u \notin begun' /\ u \notin remaining' /\ Len(results'[u]) = n
      BY <1>1, <1>11, <1>12, <2>1
    <3>3. Due(u, remaining)' = n - 0 + 0
      BY <3>2 DEF Due, Runs
    <3> QED
      BY <1>12, <3>1, <3>3
  <2>2. CASE u # t
    <3>1. u \notin begun /\ u \notin begun' /\ (u \in remaining' <=> u \in remaining) /\ results'[u] = results[u]
      BY <1>1, <1>11, <2>2
    <3> QED
      BY <3>1 DEF Due, Runs
  <2> QED
    BY <2>1, <2>2
<1> QED
  BY <1>11, <1>12, <1>13 DEF log, n, t, m, status

LEMMA OnTestEndSuites ==
  ASSUME Inv, ExactOK, OrderOK, StreamOK, SuitesOK, setting' = setting, OnTestEnd
  PROVE  SuitesOK'
<1> DEFINE m == wire[1]
           t == m.test
           status == ReportedStatus(m)
<1>1. /\ phase = "running" /\ wire # <<>> /\ m \in Message /\ m.method = "testEnd" /\ t \in Test /\ begun' = {}
      /\ \/ /\ begun = {t} /\ t \in remaining /\ remaining' = remaining \ {t}
            /\ results' = EndOf(m).results /\ failedCount' = EndOf(m).count
            /\ failed' = IF status \notin {"skipped", m.expected} THEN failed \cup {t} ELSE failed
         \/ begun = {} /\ UNCHANGED <<remaining, results, expected, failed, failedCount>>
      /\ UNCHANGED <<queue, phase, job>>
  BY OnTestEndFacts
<1>2. TypeOK /\ wire \in Seq(Message) /\ remaining \subseteq ToSet(job) /\ failedCount \in Nat /\ setting \in Setting
  BY DEF Inv, TypeOK
<1>3. CASE begun = {} /\ UNCHANGED <<remaining, results, expected, failed, failedCount>>
  BY <1>1, <1>3, QuietSuites DEF ReachedMaxFailures, MaxFailures
<1> SUFFICES ASSUME begun = {t}, t \in remaining, remaining' = remaining \ {t},
                    results' = EndOf(m).results, failedCount' = EndOf(m).count,
                    failed' = IF status \notin {"skipped", m.expected} THEN failed \cup {t} ELSE failed
             PROVE  SuitesOK'
  BY <1>1, <1>3
<1>4. /\ results' = [results EXCEPT ![t] = WithLast(results[t], status)] /\ status \in Status
      /\ failedCount' = failedCount \/ failedCount' = failedCount + 1
  BY <1>1, <1>2, EndOfFacts
<1>5. /\ 1 \in DOMAIN wire /\ Honest(m) /\ (Failing => ~Passes(m))
  <2>1. 1 \in DOMAIN wire
    BY <1>1, <1>2
  <2> QED
    BY <2>1 DEF StreamOK, AllHonest, NonePasses
<1>6. results[t] # <<>> /\ Last(results[t]) = "started" /\ results[t] \in Seq(Status \cup {"started"})
  BY <1>1, <1>2 DEF ExactOK, LogsOK, TypeOK
<1>7. ReachedMaxFailures(failedCount) => ReachedMaxFailures(failedCount') /\ ReachedMaxFailures(failedCount)'
  <2>1. failedCount' \in Nat /\ failedCount <= failedCount'
    BY <1>2, <1>4
  <2> QED
    BY <1>2, <2>1, ReachedStays DEF ReachedMaxFailures, MaxFailures
<1>8. ~ReachedMaxFailures(failedCount) => status = m.status
  BY DEF ReportedStatus
<1>9. ReachedMaxFailures(failedCount) => status = "interrupted"
  BY DEF ReportedStatus
<1>10. \A u \in remaining \ {t} : t < u
  <2> TAKE u \in remaining \ {t}
  <2>1. t \in Given /\ u \in Test
    BY <1>2 DEF Given, TypeOK, ToSet
  <2>2. CASE Comes(wire, u)
    BY <2>1, <2>2 DEF OrderOK
  <2>3. CASE ~Comes(wire, u)
    BY <2>1, <2>3 DEF OrderOK, Given
  <2> QED
    BY <2>2, <2>3
<1> HIDE DEF status, m, t
<1> DEFINE log == results'[t]
           n == Len(results[t])
<1>11. \A u \in Test : u # t => results'[u] = results[u]
  BY TestEnds DEF t, m
<1>12. /\ n \in Nat /\ n > 0 /\ DOMAIN results[t] = 1..n /\ DOMAIN log = 1..n /\ Len(log) = n
       /\ log[n] = status /\ (\A i \in DOMAIN results[t] : i # n => log[i] = results[t][i])
       /\ results[t][n] = "started"
  BY TestEnds DEF t, m, status
<1>13. \A u \in Test : Due(u, remaining)' = Due(u, remaining)
  BY TestEnds DEF t, m
<1>14. \A suite \in SerialSuite : suite \subseteq Test
  BY SuiteAssumption
<1>15. \A u \in Test : u # t => (LastGood(u)' <=> LastGood(u))
  BY <1>11 DEF LastGood, Good, Expected
<1>16. QueueOK'
  <2> SUFFICES ASSUME NEW suite \in SerialSuite, NEW Q \in SetsOf(queue'), Q \cap suite # {}
               PROVE  /\ \A s, u \in suite : Due(s, Q)' = Due(u, Q)'
                      /\ \A u \in suite \ Q : LastGood(u)'
    BY DEF QueueOK, Level
  <2>1. ToSet(job) \cap suite = {}
    BY <1>1, SuiteApart
  <2>2. \A u \in suite : results'[u] = results[u] /\ (u \in begun' <=> u \in begun)
    BY <1>1, <1>2, <1>11, <1>14, <2>1
  <2>3. Level(suite, Q) /\ \A u \in suite \ Q : LastGood(u)
    BY <1>1 DEF SuitesOK, QueueOK
  <2> QED
    BY <2>2, <2>3, SuiteUntouched
<1>17. ASSUME NEW u \in Test, u = t, ~ReachedMaxFailures(failedCount), u \notin failed' PROVE LastGood(u)'
  <2>1. status = m.status /\ status \in {"skipped", m.expected}
    BY <1>8, <1>17
  <2>2. m.expected \in {Expected[t], "skipped"}
    BY <1>1, <1>5 DEF Honest, t
  <2>3. n \in DOMAIN results'[u] /\ results'[u][n] \in {"skipped", Expected[u]} /\ Len(results'[u]) = n
    BY <1>11, <1>12, <1>17, <2>1, <2>2
  <2>4. Expected' = Expected
    BY DEF Expected
  <2> QED
    BY <2>3, <2>4 DEF LastGood, Good
<1>18. JobOK'
  <2> SUFFICES ASSUME NEW suite \in SerialSuite, ToSet(job) \cap suite # {}
               PROVE  /\ \A s, u \in suite : Due(s, remaining)' = Due(u, remaining)'
                      /\ \A u \in suite \ remaining' :
                           ReachedMaxFailures(failedCount)' \/ u \in failed' \/ LastGood(u)'
    BY <1>1 DEF JobOK, Level
  <2>1. /\ \A s, u \in suite : Due(s, remaining) = Due(u, remaining)
        /\ \A u \in suite \ remaining : ReachedMaxFailures(failedCount) \/ u \in failed \/ LastGood(u)
    BY DEF SuitesOK, JobOK, Level
  <2>2. ASSUME NEW u \in suite, u \notin remaining' PROVE ReachedMaxFailures(failedCount)' \/ u \in failed' \/ LastGood(u)'
    <3>1. CASE u = t
      BY <1>7, <1>14, <1>17, <3>1
    <3>2. CASE u # t
      <4>1. u \in Test /\ u \notin remaining /\ failed \subseteq failed'
        BY <1>14, <2>2, <3>2
      <4> QED
        BY <1>7, <1>15, <2>1, <3>2, <4>1
    <3> QED
      BY <3>1, <3>2
  <2> QED
    BY <1>13, <1>14, <2>1, <2>2
<1>19. ASSUME NEW suite \in SerialSuite, NEW s \in suite, NEW u \in suite, NEW i \in DOMAIN results'[u],
              s < u, results'[u][i] = "passed"
       PROVE  i \in DOMAIN results'[s] /\ results'[s][i] \in {"skipped", Expected[s]}
  <2>1. s \in Test /\ u \in Test /\ s # u
    <3>1. s \in Test /\ u \in Test
      BY <1>14
    <3> QED
      BY <1>19, <3>1, TestAssumption
  <2>2. CASE u # t \/ i # n
    <3>1. i \in DOMAIN results[u] /\ results[u][i] = "passed"
      BY <1>11, <1>12, <1>19, <2>1, <2>2
    <3>2. i \in DOMAIN results[s] /\ results[s][i] \in {"skipped", Expected[s]}
      BY <1>19, <3>1 DEF SuitesOK, PassesInTurn, Good
    <3>3. CASE s # t
      BY <1>11, <2>1, <3>2, <3>3
    <3>4. CASE s = t
      <4>1. Expected[s] \in {"passed", "failed", "skipped"}
        BY <1>2, <2>1, SettingAssumption DEF Expected
      <4>2. i # n
        BY <1>12, <3>2, <3>4, <4>1
      <4> QED
        BY <1>11, <1>12, <3>2, <3>4, <4>2
    <3> QED
      BY <3>3, <3>4
  <2>3. CASE u = t /\ i = n
    <3>1. status = "passed" /\ ~ReachedMaxFailures(failedCount)
      BY <1>9, <1>11, <1>12, <1>19, <2>3
    <3>2. m.status = "passed"
      BY <1>8, <3>1
    <3>3. failed = {}
      BY <1>1, <1>5, <3>1, <3>2 DEF Passes, Failing
    <3>4. s \notin remaining
      <4>1. s \in Nat /\ t \in Nat /\ s < t
        BY <1>19, <2>1, <2>3, TestAssumption
      <4>2. s # t /\ ~(t < s)
        BY ONLY <4>1
      <4> QED
        BY <1>10, <4>2
    <3>5. ToSet(job) \cap suite # {}
      BY <1>2, <2>3
    <3>6. Due(s, remaining) = Due(t, remaining) /\ LastGood(s)
      BY <2>3, <3>1, <3>3, <3>4, <3>5 DEF SuitesOK, JobOK, Level
    <3>7. s \notin begun /\ Due(t, remaining) = n - 1 + 1 /\ results[s] \in Seq(Status \cup {"started"})
      BY <1>2, <2>1, <2>3 DEF Due, Runs, n, TypeOK
    <3>8. Due(s, remaining) = Len(results[s]) - 0 + 0
      BY <3>4, <3>7 DEF Due, Runs
    <3>9. Len(results[s]) = n
      BY <1>12, <3>6, <3>7, <3>8
    <3> QED
      BY <1>11, <2>1, <2>3, <3>6, <3>9 DEF LastGood, Good
  <2> QED
    BY <2>2, <2>3
<1>20. PassesInTurn'
  BY <1>19 DEF PassesInTurn, Good, Expected
<1> QED
  BY <1>16, <1>18, <1>20 DEF SuitesOK

(* What the end of a job does to the results of a test.                      *)
LEMMA AdvancesMeans ==
  ASSUME Inv, LogsOK, phase = "running", NEW m, Advances(Ledger, m), NEW t \in Test
  PROVE  /\ m.results[t] \in Seq(Status \cup {"started"})
         /\ \A i \in DOMAIN m.results[t] :
              m.results[t][i] = "passed" => i \in DOMAIN results[t] /\ results[t][i] = "passed"
         /\ \A i \in DOMAIN results[t] :
              results[t][i] # "started" => i \in DOMAIN m.results[t] /\ m.results[t][i] = results[t][i]
         /\ ~ReachedMaxFailures(m.count) /\ t \notin m.remaining => Len(m.results[t]) = Due(t, remaining)
<1>1. /\ m \in Ledgers /\ m.results \in Results
      /\ t \notin remaining \/ t \in m.remaining => m.results[t] = results[t]
      /\ t \in remaining \ m.remaining =>
           \/ \E status \in {"failed", "skipped"} : m.results[t] = Ended(results[t], t, status)
           \/ ReachedMaxFailures(m.count) /\ m.results[t] = results[t]
  BY DEF Advances, Ledger, Ledgers
<1>2. /\ results[t] \in Seq(Status \cup {"started"}) /\ m.results[t] \in Seq(Status \cup {"started"})
      /\ begun \subseteq remaining
  BY <1>1 DEF Inv, TypeOK, WireOK, BegunOK, Results
<1>3. CASE m.results[t] = results[t] /\ (t \in remaining \ m.remaining => ReachedMaxFailures(m.count))
  <2>1. t \notin remaining => Due(t, remaining) = Len(results[t]) - 0 + 0
    BY <1>2 DEF Due, Runs
  <2> QED
    BY <1>2, <1>3, <2>1
<1>4. CASE t \in remaining /\ \E status \in {"failed", "skipped"} : m.results[t] = Ended(results[t], t, status)
  <2>1. PICK status \in {"failed", "skipped"} : m.results[t] = Ended(results[t], t, status)
    BY <1>4
  <2> DEFINE old == results[t]
             new == m.results[t]
  <2>2. t \in begun => old # <<>> /\ Last(old) = "started"
    BY DEF LogsOK
  <2>3. status \in Status
    BY DEF Status
  <2>4. /\ Len(new) = IF t \in begun THEN Len(old) ELSE Len(old) + 1
        /\ new[Len(new)] = status
        /\ \A i \in DOMAIN new : i # Len(new) => i \in DOMAIN old /\ new[i] = old[i]
    BY <1>2, <2>1, <2>2, <2>3, EndedFacts
  <2>5. /\ DOMAIN old = 1..Len(old) /\ Len(old) \in Nat /\ DOMAIN new = 1..Len(new) /\ Len(new) \in Nat
        /\ t \in begun => old[Len(old)] = "started"
    BY <1>2, <2>2 DEF Last
  <2> HIDE DEF old, new
  <2>6. \A i \in DOMAIN new : new[i] = "passed" => i \in DOMAIN old /\ old[i] = "passed"
    BY <2>4
  <2>7. \A i \in DOMAIN old : old[i] # "started" => i \in DOMAIN new /\ new[i] = old[i]
    <3> TAKE i \in DOMAIN old
    <3> HAVE old[i] # "started"
    <3>1. i \in 1..Len(new) /\ i # Len(new)
      BY <2>4, <2>5
    <3> QED
      BY <2>4, <2>5, <3>1
  <2>8. Due(t, remaining) = Len(old) - (IF t \in begun THEN 1 ELSE 0) + 1
    BY <1>4 DEF Due, Runs, old
  <2>9. Len(new) = Due(t, remaining)
    BY <2>4, <2>5, <2>8
  <2> QED
    BY <1>2, <2>6, <2>7, <2>9 DEF old, new
<1> QED
  BY <1>1, <1>3, <1>4

LEMMA OnDoneAdvances ==
  ASSUME Inv, ExactOK, phase = "running", NEW payload \in Payload
  PROVE  /\ Advances(Ledger, Settled(payload)) /\ Advances(Settled(payload), AfterSuites(payload))
         /\ Advances(Ledger, AfterSuites(payload))
<1>1. LedgerOK(Ledger) /\ IsInjective(job) /\ TypeOK /\ setting \in Setting
  BY LedgerIsOK, LedgerIsExact DEF Inv, TypeOK
<1>2. Advances(Ledger, Settled(payload)) /\ LedgerOK(Settled(payload))
  BY <1>1, SettledAdvances
<1>3. Advances(Settled(payload), AfterSuites(payload))
  BY <1>1, <1>2, MassSkipAdvances DEF AfterSuites
<1> QED
  BY <1>1, <1>2, <1>3, AdvancesFurther

(* A suite that is to run again is to run as a whole, or as far as it did     *)
(* not come to its turn.                                                     *)
LEMMA RequeuedSuites ==
  ASSUME Inv, ExactOK, nonRetriable = {}, Alike, SuitesOK, setting' = setting, OnDone, ~stopped',
         SettlesTo(wire[1].payload),
         NEW Q \in {AfterSuites(wire[1].payload).remaining, Retried(wire[1].payload),
                    AfterSuites(wire[1].payload).remaining \cup Retried(wire[1].payload)},
         NEW suite \in SerialSuite, Q \cap suite # {}
  PROVE  /\ \A s, t \in suite : Due(s, Q)' = Due(t, Q)'
         /\ \A t \in suite \ Q : LastGood(t)'
<1> DEFINE p == wire[1].payload
           l == Settled(p)
           a == AfterSuites(p)
           r == Retried(p)
<1>1. phase = "running" /\ p \in Payload /\ begun' = {} /\ results' = a.results
  BY OnDoneFacts DEF JobOver, SettlesTo
<1>2. Advances(Ledger, l) /\ Advances(l, a) /\ Advances(Ledger, a)
  BY <1>1, OnDoneAdvances
<1>3. ~ReachedMaxFailures(a.count) /\ begun \cap a.remaining = {}
  BY NoneInTheMiddle
<1>4. /\ LedgerOK(l) /\ a.remaining = l.remaining \ UNION SerialSuitesWithFailures(l)
      /\ r \in SUBSET Test
  BY <1>1, AfterSuitesFacts
<1>5. r = {t \in RetryCandidates(l) : HasRetriesLeft(a, t)}
  BY DEF Retried
<1>6. SerialSuitesWithFailures(l) = {one \in SerialSuite : one \cap l.failed # {}}
  BY DEF SerialSuitesWithFailures
<1>7. RetryCandidates(l) = l.failed \cup UNION SerialSuitesWithFailures(l)
  BY DEF RetryCandidates
<1>8. setting \in Setting /\ failedCount \in Nat /\ begun \subseteq remaining /\ remaining \subseteq ToSet(job)
  BY DEF Inv, TypeOK, WireOK, BegunOK
<1>9. /\ l.failed \subseteq ToSet(job) /\ failed \subseteq l.failed
      /\ l.remaining \subseteq remaining /\ a.remaining \subseteq remaining
      /\ l.count \in Nat /\ a.count \in Nat /\ l.count <= a.count /\ failedCount <= a.count
      /\ \A t \in remaining \ l.remaining : t \in l.failed \/ ReachedMaxFailures(l.count)
  <2>1. Ledger.remaining = remaining /\ Ledger.failed = failed /\ Ledger.count = failedCount
    BY DEF Ledger
  <2> QED
    BY <1>2, <1>4, <2>1 DEF Advances, Ledgers, LedgerOK
<1>10. ~ReachedMaxFailures(failedCount) /\ ~ReachedMaxFailures(l.count)
  BY <1>3, <1>8, <1>9, ReachedStays
<1>11. \A t \in Test :
         /\ a.results[t] \in Seq(Status \cup {"started"})
         /\ t \notin a.remaining => Len(a.results[t]) = Due(t, remaining)
         /\ t \notin remaining \/ t \in a.remaining => a.results[t] = results[t]
  <2> TAKE t \in Test
  <2>1. /\ a.results[t] \in Seq(Status \cup {"started"})
        /\ t \notin a.remaining => Len(a.results[t]) = Due(t, remaining)
    BY <1>1, <1>2, <1>3, AdvancesMeans DEF ExactOK
  <2>2. t \notin remaining \/ t \in a.remaining => a.results[t] = results[t]
    BY <1>2 DEF Advances, Ledger
  <2> QED
    BY <2>1, <2>2
<1>12. suite \subseteq Test
  BY SuiteAssumption
<1>13. Q \in {a.remaining, r, a.remaining \cup r}
  OBVIOUS
<1> HIDE DEF p, l, a, r
<1>14. CASE suite \cap l.failed = {}
  <2>1. suite \cap UNION SerialSuitesWithFailures(l) = {}
    BY <1>6, <1>14, SuiteAssumption
  <2>2. suite \cap r = {}
    BY <1>5, <1>7, <1>14, <2>1
  <2>3. suite \cap a.remaining = suite \cap remaining
    BY <1>4, <1>9, <1>10, <1>14, <2>1
  <2>4. suite \cap Q = suite \cap remaining
    BY <1>13, <2>2, <2>3
  <2>5. ToSet(job) \cap suite # {}
    BY <1>8, <2>4
  <2>6. /\ \A s, t \in suite : Due(s, remaining) = Due(t, remaining)
        /\ \A t \in suite \ remaining : LastGood(t)
    BY <1>9, <1>10, <1>14, <2>5 DEF SuitesOK, JobOK, Level
  <2>7. Level(suite, Q)
    BY <2>4, <2>6 DEF Level, Due
  <2>8. \A t \in suite \ Q : LastGood(t)
    BY <2>4, <2>6
  <2>9. \A t \in suite : results'[t] = results[t] /\ (t \in begun' <=> t \in begun)
    BY <1>1, <1>3, <1>8, <1>11, <1>12, <2>3
  <2> QED
    BY <2>7, <2>8, <2>9, SuiteUntouched
<1>15. CASE suite \cap l.failed # {}
  <2>1. suite \in SerialSuitesWithFailures(l)
    BY <1>6, <1>15
  <2>2. suite \cap a.remaining = {} /\ suite \subseteq RetryCandidates(l)
    BY <1>4, <1>7, <2>1
  <2>3. \A s, t \in suite : Due(s, remaining) = Due(t, remaining)
    BY <1>9, <1>15 DEF SuitesOK, JobOK, Level
  <2>4. \A s, t \in suite : Len(a.results[s]) = Len(a.results[t])
    BY <1>11, <1>12, <2>2, <2>3
  <2>5. \A s, t \in suite : s \in r => t \in r
    BY <1>5, <1>12, <2>2, <2>4 DEF HasRetriesLeft, Alike
  <2>6. suite \subseteq Q
    BY <1>13, <2>2, <2>5
  <2>7. \A t \in suite : Due(t, Q)' = Len(a.results[t]) - 0 + 1
    BY <1>1, <2>6 DEF Due, Runs
  <2> QED
    BY <2>4, <2>6, <2>7
<1> QED
  BY <1>14, <1>15

LEMMA OnDoneSuites ==
  ASSUME Inv, ExactOK, nonRetriable = {}, Alike, SuitesOK, setting' = setting, OnDone
  PROVE  SuitesOK'
<1> DEFINE p == wire[1].payload
           a == AfterSuites(p)
<1>1. /\ phase = "running" /\ p \in Payload
      /\ \/ NothingWentWrong(p) /\ UNCHANGED <<queue, report_vars, stopped>>
         \/ SettlesTo(p)
      /\ JobOver
  BY OnDoneFacts
<1>2. begun' = {} /\ job' = <<>> /\ begun \subseteq remaining /\ remaining \subseteq ToSet(job)
  BY <1>1 DEF JobOver, Inv, TypeOK, WireOK, BegunOK
<1>3. JobOK'
  BY <1>2 DEF JobOK, ToSet
<1>4. \A suite \in SerialSuite : suite \subseteq Test
  BY SuiteAssumption
<1>5. \A t \in Test \ remaining : results'[t] = results[t] /\ (t \in begun' <=> t \in begun)
  <2>1. CASE UNCHANGED <<queue, report_vars, stopped>>
    BY <1>2, <2>1 DEF report_vars
  <2>2. CASE SettlesTo(p)
    BY <1>1, <1>2, <2>2, AfterSuitesFacts DEF SettlesTo, LedgerOK
  <2> QED
    BY <1>1, <2>1, <2>2
<1>6. ASSUME NEW suite \in SerialSuite, NEW Q \in SetsOf(queue), Q \cap suite # {}
      PROVE  /\ \A s, t \in suite : Due(s, Q)' = Due(t, Q)'
             /\ \A t \in suite \ Q : LastGood(t)'
  <2>1. ToSet(job) \cap suite = {}
    BY <1>1, <1>6, SuiteApart
  <2>2. \A t \in suite : results'[t] = results[t] /\ (t \in begun' <=> t \in begun)
    BY <1>2, <1>4, <1>5, <2>1
  <2>3. Level(suite, Q) /\ \A t \in suite \ Q : LastGood(t)
    BY <1>6 DEF SuitesOK, QueueOK
  <2> QED
    BY <2>2, <2>3, SuiteUntouched
<1>7. CASE UNCHANGED <<queue, report_vars, stopped>>
  <2>1. QueueOK'
    BY <1>6, <1>7 DEF QueueOK, Level
  <2>2. PassesInTurn'
    BY <1>7 DEF SuitesOK, PassesInTurn, Good, Expected, report_vars
  <2> QED
    BY <1>3, <2>1, <2>2 DEF SuitesOK
<1>8. CASE SettlesTo(p)
  <2>1. results' = a.results /\ queue' = IF stopped' THEN queue ELSE Requeued(a, Again(p))
    BY <1>8 DEF SettlesTo
  <2>2. /\ a.remaining \subseteq ToSet(job) /\ TypeOK
        /\ Again(p) \in Seq(Test) /\ ToSet(Again(p)) = Retried(p)
    BY <1>1, <1>2, AfterSuitesFacts, AgainFacts DEF LedgerOK, Inv
  <2>3. SetsOf(Requeued(a, Again(p))) \subseteq SetsOf(queue) \cup {a.remaining, Retried(p), a.remaining \cup Retried(p)}
    BY <2>2, RequeuedSets
  <2>4. QueueOK'
    <3> SUFFICES ASSUME NEW suite \in SerialSuite, NEW Q \in SetsOf(queue'), Q \cap suite # {}
                 PROVE  /\ \A s, t \in suite : Due(s, Q)' = Due(t, Q)'
                        /\ \A t \in suite \ Q : LastGood(t)'
      BY DEF QueueOK, Level
    <3>1. CASE Q \in SetsOf(queue)
      BY <1>6, <3>1
    <3>2. CASE ~stopped' /\ Q \in {a.remaining, Retried(p), a.remaining \cup Retried(p)}
      BY <1>8, <3>2, RequeuedSuites
    <3> QED
      BY <2>1, <2>3, <3>1, <3>2
  <2>5. Advances(Ledger, a)
    BY <1>1, OnDoneAdvances
  <2>6. ASSUME NEW suite \in SerialSuite, NEW s \in suite, NEW t \in suite, NEW i \in DOMAIN results'[t],
               s < t, results'[t][i] = "passed"
        PROVE  i \in DOMAIN results'[s] /\ results'[s][i] \in {"skipped", Expected[s]}
    <3>1. s \in Test /\ t \in Test
      BY <1>4
    <3>2. i \in DOMAIN results[t] /\ results[t][i] = "passed"
      BY <1>1, <2>1, <2>5, <2>6, <3>1, AdvancesMeans DEF ExactOK
    <3>3. i \in DOMAIN results[s] /\ results[s][i] \in {"skipped", Expected[s]}
      BY <2>6, <3>2 DEF SuitesOK, PassesInTurn, Good
    <3>4. results[s][i] # "started"
      BY <2>2, <3>1, <3>3, SettingAssumption DEF Expected, TypeOK
    <3> QED
      BY <1>1, <2>1, <2>5, <3>1, <3>3, <3>4, AdvancesMeans DEF ExactOK
  <2>7. PassesInTurn'
    BY <2>6 DEF PassesInTurn, Good, Expected
  <2> QED
    BY <1>3, <2>4, <2>7 DEF SuitesOK
<1> QED
  BY <1>1, <1>7, <1>8

LEMMA SuitesStep ==
  ASSUME Inv, ExactOK, nonRetriable = {}, OrderOK, StreamOK, Alike, SuitesOK, [Next]_vars
  PROVE  SuitesOK'
<1>1. setting' = setting
  BY SettingStays
<1>2. CASE UNCHANGED <<queue, job_vars, report_vars>>
  <2>1. UNCHANGED <<setting, queue, job, remaining, begun, results, failed, failedCount>>
    BY <1>1, <1>2 DEF job_vars, report_vars
  <2>2. ReachedMaxFailures(failedCount)' = ReachedMaxFailures(failedCount)
    BY <2>1 DEF ReachedMaxFailures, MaxFailures
  <2> QED
    BY <2>1, <2>2, QuietSuites
<1>3. CASE RunnerStarts
  <2>1. CASE SkipWholeJob
    BY <1>1, <2>1, SkipWholeJobSuites
  <2>2. CASE RunInWorker
    BY <1>1, <2>2, StartJobSuites DEF RunInWorker
  <2>3. CASE RunIsOver
    BY <1>2, <2>3 DEF RunIsOver
  <2> QED
    BY <1>3, <2>1, <2>2, <2>3 DEF RunnerStarts
<1>4. CASE RunnerHandles
  BY <1>1, <1>4, OnTestBeginSuites, OnTestEndSuites, OnDoneSuites DEF RunnerHandles
<1>5. CASE WorkerGoesOn
  <2>1. LoadFile \/ FinishTest => UNCHANGED runner_vars
    BY Zenon DEF LoadFile, FinishTest, runner_vars
  <2>2. PassOverTest \/ BeginTest \/ EndTest \/ FinishGroup => UNCHANGED runner_vars
    BY SendingFacts, DoneFacts
  <2> QED
    BY <1>2, <1>5, <2>1, <2>2 DEF WorkerGoesOn, runner_vars
<1>6. CASE Fault
  <2>1. CASE WorkerDoesNotStart
    BY <1>1, <2>1, StartJobSuites DEF WorkerDoesNotStart
  <2>2. CASE FailElsewhere
    <3>1. /\ UNCHANGED <<queue, job, remaining, begun, results, failed>>
          /\ failedCount \in Nat /\ failedCount' = failedCount + 1 /\ setting \in Setting
      BY <2>2 DEF FailElsewhere, job_vars, Inv, TypeOK
    <3>2. failedCount' \in Nat /\ failedCount <= failedCount'
      BY ONLY <3>1
    <3>3. ReachedMaxFailures(failedCount) => ReachedMaxFailures(failedCount)'
      BY <1>1, <3>1, <3>2, ReachedStays DEF ReachedMaxFailures, MaxFailures
    <3> QED
      BY <1>1, <3>1, <3>3, QuietSuites
  <2>3. CASE StopRun
    BY <1>2, <2>3 DEF StopRun
  <2>4. FailToLoadFile \/ MissTests \/ ThrowInTest \/ ThrowBetweenTests \/ ReceiveStop \/ Crash \/ Kill => UNCHANGED runner_vars
    BY DEF FailToLoadFile, MissTests, ThrowInTest, ThrowBetweenTests, ReceiveStop, Crash, Kill, ProcessExits
  <2>5. FailTest \/ FailForGood \/ SkipItself \/ FailHook => UNCHANGED runner_vars
    BY TestStepFacts
  <2> QED
    BY <1>2, <1>6, <2>1, <2>2, <2>3, <2>4, <2>5 DEF Fault, runner_vars
<1> QED
  BY <1>2, <1>3, <1>4, <1>5, <1>6 DEF Next, Terminated, vars

LEMMA SuitesMean ==
  ASSUME Inv, SuitesOK
  PROVE  SerialSuiteInStep /\ SerialSuiteStops
<1>1. \A suite \in SerialSuite : suite \subseteq Test
  BY SuiteAssumption
<1>2. \A t \in Test : results[t] \in Seq(Status \cup {"started"}) /\ Len(results[t]) \in Nat
  BY DEF Inv, TypeOK
<1>3. SerialSuiteInStep
  <2> SUFFICES ASSUME phase = "idle", NEW suite \in SerialSuite, NEW i \in DOMAIN queue,
                      NEW s \in suite, NEW t \in suite, s \in ToSet(queue[i])
               PROVE  Len(results[t]) = Len(results[s]) + (IF t \in ToSet(queue[i]) THEN 0 ELSE 1)
    BY DEF SerialSuiteInStep
  <2> DEFINE Q == ToSet(queue[i])
  <2>1. begun = {}
    BY DEF Inv, WireOK, IdleOK
  <2>2. Q \in SetsOf(queue) /\ Q \cap suite # {}
    BY DEF SetsOf
  <2> HIDE DEF Q
  <2>3. Due(s, Q) = Due(t, Q)
    BY <2>2 DEF SuitesOK, QueueOK, Level
  <2>4. s \in Q
    BY DEF Q
  <2>5. Due(s, Q) = Len(results[s]) - 0 + 1 /\ Due(t, Q) = Len(results[t]) - 0 + (IF t \in Q THEN 1 ELSE 0)
    BY <2>1, <2>4 DEF Due, Runs
  <2>6. Len(results[s]) \in Nat /\ Len(results[t]) \in Nat
    BY <1>1, <1>2
  <2>7. Len(results[t]) = Len(results[s]) + (IF t \in Q THEN 0 ELSE 1)
    <3>1. CASE t \in Q
      <4>1. Len(results[s]) - 0 + 1 = Len(results[t]) - 0 + 1
        BY <2>3, <2>5, <3>1
      <4> QED
        BY <2>6, <3>1, <4>1
    <3>2. CASE t \notin Q
      <4>1. Len(results[s]) - 0 + 1 = Len(results[t]) - 0 + 0
        BY <2>3, <2>5, <3>2
      <4> QED
        BY <2>6, <3>2, <4>1
    <3> QED
      BY <3>1, <3>2
  <2> QED
    BY <2>7 DEF Q
<1>4. SerialSuiteStops
  BY DEF SuitesOK, PassesInTurn, Good, SerialSuiteStops
<1> QED
  BY <1>3, <1>4

SInv == IInv /\ OrderOK /\ StreamOK /\ (Alike /\ "snapshot" \notin Faults => SuitesOK)

LEMMA SInvHolds == Spec => []SInv
<1>1. Init => OrderOK /\ StreamOK /\ SuitesOK
  <2> SUFFICES ASSUME Init PROVE OrderOK /\ StreamOK /\ SuitesOK
    OBVIOUS
  <2>1. /\ wire = <<>> /\ begun = {} /\ remaining = {} /\ failed = {} /\ worker.phase = "none"
        /\ DOMAIN wire = {}
    BY NoWorkerFacts DEF Init
  <2>2. OrderOK
    BY <2>1 DEF OrderOK, Comes, Ascends, Given, Working
  <2>3. StreamOK
    BY <2>1 DEF StreamOK, NonePassesAfter, AllHonest, NonePasses, Failing, HasBad, Working, InTest
  <2> QED
    BY <2>2, <2>3, InitSuites
<1>2. Spec => []IInv
  BY IInvHolds
<1>3. IInv /\ IInv' /\ SInv /\ [Next]_vars => SInv'
  <2> SUFFICES ASSUME IInv, IInv', SInv, [Next]_vars PROVE SInv'
    OBVIOUS
  <2>1. Inv /\ SnapshotsOK /\ (MayComeApart \/ ExactOK) /\ OrderOK /\ StreamOK
    BY DEF IInv, SInv
  <2>2. OrderOK' /\ StreamOK'
    BY <2>1, OrderStep, StreamStep
  <2>3. Faults' = Faults
    BY SettingStays DEF Faults
  <2>4. ASSUME Alike, "snapshot" \notin Faults PROVE SuitesOK'
    BY <2>1, <2>4, SuitesStep DEF MayComeApart, SnapshotsOK, SInv
  <2> QED
    BY <2>2, <2>3, <2>4 DEF SInv, Alike
<1>4. Init /\ IInv => SInv
  BY <1>1 DEF SInv
<1> QED
  BY <1>2, <1>3, <1>4, PTL DEF Spec

(* _onDone and the worker's loop: a serial suite stops at its first failure  *)
(* and is retried as a whole.  Whatever was remaining, failed or not found,  *)
(* its tests that wait in a job have had as many runs as one another and one *)
(* less than the others, and a test passes only after the earlier tests of   *)
(* the suite did well in the same round.  This holds when the tests of a     *)
(* suite have the same "retries" setting and no snapshot is missing.         *)
THEOREM SuitesRunAsOne == Spec => []SerialSuitesRunAsOne
<1>1. SInv => SerialSuitesRunAsOne
  BY SuitesMean DEF SInv, IInv, Alike, SerialSuitesRunAsOne
<1> QED
  BY <1>1, SInvHolds, PTL

(***************************************************************************)
(* Who takes the blame when tests are skipped.                             *)
(***************************************************************************)
(* One of the tests that failed in the job has a result that says so.        *)
FailedIn(l, t) == \E i \in DOMAIN l.results[t] : l.results[t][i] = "failed"
Blamed(l) == \E t \in l.failed : FailedIn(l, t)

LEMMA EndsFailed ==
  ASSUME NEW l \in Ledgers, NEW t \in Test, t \notin begun \/ l.results[t] # <<>>, NEW m,
         m.results[t] = Ended(l.results[t], t, "failed")
  PROVE  FailedIn(m, t)
<1> DEFINE log == l.results[t]
           ended == Ended(log, t, "failed")
<1>1. log \in Seq(Status \cup {"started"}) /\ "failed" \in Status
  BY DEF Ledgers, Results, Status
<1>2. /\ ended \in Seq(Status \cup {"started"})
      /\ Len(ended) = IF t \in begun THEN Len(log) ELSE Len(log) + 1
      /\ ended[Len(ended)] = "failed"
  BY ONLY <1>1, EndedFacts, t \notin begun \/ l.results[t] # <<>>
<1> HIDE DEF ended
<1>3. Len(log) \in Nat /\ (log # <<>> => Len(log) > 0)
  BY <1>1
<1>4. Len(ended) \in 1..Len(ended) /\ DOMAIN ended = 1..Len(ended)
  BY <1>2, <1>3
<1> QED
  BY <1>2, <1>4 DEF FailedIn, ended

LEMMA BlamedStays ==
  ASSUME NEW l, NEW m, Advances(l, m), l.failed \cap l.remaining = {}, Blamed(l)
  PROVE  Blamed(m)
<1>1. PICK t \in l.failed : FailedIn(l, t)
  BY DEF Blamed
<1>2. t \in Test /\ t \in m.failed /\ t \notin l.remaining
  BY DEF Advances, Ledgers
<1>3. m.results[t] = l.results[t]
  BY <1>2 DEF Advances
<1> QED
  BY <1>1, <1>2, <1>3 DEF Blamed, FailedIn

(* The first test of a loop is blamed for the errors, and stays so.          *)
LEMMA LoopBlames ==
  ASSUME NEW l \in Ledgers, LedgerExact(l), NEW tests \in Seq(Test), ToSet(tests) \subseteq l.remaining,
         IsInjective(tests), tests # <<>>, NEW m, ClosesAll(tests, l, m),
         l.errors, ~ReachedMaxFailures(l.count)
  PROVE  Blamed(m)
<1>1. PICK f \in [0..Len(tests) -> Ledgers] :
             /\ f[0] = l /\ f[Len(tests)] = m
             /\ \A n \in 1..Len(tests) : Closes(f[n - 1], tests[n], f[n])
  BY DEF ClosesAll
<1> DEFINE N == Len(tests)
           t == tests[1]
           P == {k \in 0..N : k = 0 \/ (t \in f[k].failed /\ FailedIn(f[k], t))}
<1>2. N \in Nat /\ N >= 1 /\ 1 \in 1..N /\ DOMAIN tests = 1..N /\ \A n \in 1..N : tests[n] \in l.remaining
  BY DEF ToSet
<1>3. 0 \in P
  BY <1>2
<1>4. ASSUME NEW k \in 0..N, k \in P, k < N PROVE k + 1 \in P
  <2>1. k + 1 \in 1..N /\ k + 1 - 1 = k /\ k + 1 \in 0..N
    BY <1>2, <1>4
  <2>2. Closes(f[k], tests[k + 1], f[k + 1])
    BY <1>1, <2>1
  <2>3. f[k] \in Ledgers /\ t \in Test /\ t \in l.remaining
    BY <1>1, <1>2, <2>1
  <2>4. CASE k = 0
    <3>1. Closes(l, t, f[k + 1]) /\ f[k + 1] \in Ledgers
      BY <1>1, <2>1, <2>2, <2>4
    <3>2. PICK status \in {"failed", "skipped"} :
            /\ f[k + 1].results = [l.results EXCEPT ![t] = Ended(l.results[t], t, status)]
            /\ f[k + 1].failed = l.failed \cup {t} /\ status = "failed"
      BY <3>1 DEF Closes
    <3>3. f[k + 1].results[t] = Ended(l.results[t], t, "failed")
      BY <2>3, <3>2 DEF Ledgers, Results
    <3>4. t \notin begun \/ l.results[t] # <<>>
      BY <2>3 DEF LedgerExact
    <3>5. FailedIn(f[k + 1], t)
      BY <2>3, <3>3, <3>4, EndsFailed
    <3> QED
      BY <2>1, <3>2, <3>5
  <2>5. CASE k # 0
    <3>1. tests[k + 1] # t
      BY <1>2, <2>1, <2>5 DEF IsInjective
    <3>2. f[k + 1].results[t] = f[k].results[t] /\ f[k].failed \subseteq f[k + 1].failed
      BY <2>2, <2>3, <3>1 DEF Closes, Ledgers, Results
    <3> QED
      BY <1>4, <2>1, <2>5, <3>2 DEF FailedIn
  <2> QED
    BY <2>4, <2>5
<1>5. \A k \in 0..N : k \in P
  <2> HIDE DEF P
  <2> QED
    BY <1>2, <1>3, <1>4, UpTo
<1>6. N \in P /\ N # 0
  BY <1>2, <1>5
<1> QED
  BY <1>1, <1>6 DEF Blamed

LEMMA MassSkipBlames ==
  ASSUME TypeOK, NEW l, LedgerOK(l), LedgerExact(l), IsInjective(job), NEW tests, l.remaining \cap tests # {},
         ~ReachedMaxFailures(l.count)
  PROVE  Blamed(MassSkip(l, tests, TRUE))
<1> DEFINE base == [l EXCEPT !.errors = TRUE]
           order == InJobOrder(l.remaining \cap tests)
           after == SkipLoop(order, base)
           m == [after EXCEPT !.workerErrors = @ \/ after.errors]
<1>1. MassSkip(l, tests, TRUE) = m
  BY DEF MassSkip, ForEach, SkipLoop, SkipStep
<1>2. job \in Seq(Test) /\ remaining \subseteq ToSet(job)
  BY DEF TypeOK
<1>3. order \in Seq(Test) /\ ToSet(order) = ToSet(job) \cap (l.remaining \cap tests) /\ IsInjective(order)
  BY <1>2, JobOrderFacts
<1>4. ToSet(order) = l.remaining \cap tests
  BY <1>2, <1>3 DEF LedgerOK
<1>5. /\ base \in Ledgers /\ base.results = l.results /\ base.count = l.count /\ base.errors
      /\ base.remaining = l.remaining /\ base.expected = l.expected
  BY DEF LedgerOK, Ledgers
<1> HIDE DEF base, order
<1>6. order # <<>>
  BY <1>4 DEF ToSet
<1>7. LedgerExact(base)
  BY <1>5 DEF LedgerExact
<1>8. after \in Ledgers /\ ClosesAll(order, base, after)
  BY <1>3, <1>5, SkipLoopCloses
<1> HIDE DEF after
<1>9. Blamed(after)
  BY <1>3, <1>4, <1>5, <1>6, <1>7, <1>8, LoopBlames
<1>10. m.results = after.results /\ m.failed = after.failed
  BY <1>8 DEF Ledgers
<1> HIDE DEF m
<1> QED
  BY <1>1, <1>9, <1>10 DEF Blamed, FailedIn

(* When a job that ends leaves fewer tests, one of its tests has failed.     *)
LEMMA SettledBlames ==
  ASSUME TypeOK, LedgerOK(Ledger), LedgerExact(Ledger), IsInjective(job), NEW payload \in Payload,
         payload.unknown # {} => begun = {}, payload.skip # {} => Blamed(Ledger),
         ~ReachedMaxFailures(Settled(payload).count), Settled(payload).remaining # remaining
  PROVE  Blamed(Settled(payload))
<1> DEFINE order == InJobOrder(payload.unknown \cap remaining)
           renamed == MissLoop(order, Ledger)
           fatal == IF payload.fatal THEN MassSkip(renamed, Test, TRUE) ELSE renamed
           hook == MassSkip(fatal, payload.skip, FALSE)
           blamed == IF current # NoTest THEN {current} ELSE Test
           end == IF payload.unexpected THEN MassSkip(hook, blamed, TRUE) ELSE hook
<1>1. Settled(payload) = end
  BY DEF Settled, ForEach, MissLoop, MissStep
<1>2. job \in Seq(Test) /\ remaining \subseteq ToSet(job) /\ Ledger.remaining = remaining /\ setting \in Setting
  BY DEF TypeOK, Ledger
<1>3. order \in Seq(Test) /\ ToSet(order) = payload.unknown \cap remaining /\ IsInjective(order)
  <2>1. order \in Seq(Test) /\ ToSet(order) = ToSet(job) \cap (payload.unknown \cap remaining)
        /\ IsInjective(order)
    BY <1>2, JobOrderFacts
  <2> QED
    BY <1>2, <2>1
<1> HIDE DEF order
<1>4. Ledger \in Ledgers
  BY DEF LedgerOK
<1>5. /\ renamed \in Ledgers /\ ClosesAll(order, Ledger, renamed)
      /\ order # <<>> => \E k \in Ledgers : renamed = MissStep(k, order[Len(order)])
  BY <1>3, <1>4, MissLoopCloses
<1> HIDE DEF renamed
<1>6. /\ LedgerOK(renamed) /\ LedgerExact(renamed) /\ renamed.remaining = remaining \ (payload.unknown \cap remaining)
  BY <1>2, <1>3, <1>5, LoopKeeps
<1>7. Advances(Ledger, renamed)
  BY <1>2, <1>3, <1>4, <1>5, LoopAdvances
<1>8. /\ LedgerOK(fatal) /\ LedgerExact(fatal) /\ Advances(renamed, fatal)
      /\ fatal.remaining = IF payload.fatal THEN renamed.remaining \ Test ELSE renamed.remaining
  <2> DEFINE m == MassSkip(renamed, Test, TRUE)
  <2>1. /\ LedgerOK(m) /\ LedgerExact(m) /\ Advances(renamed, m)
        /\ m.remaining = renamed.remaining \ Test
    BY <1>6, MassSkipFacts, MassSkipAdvances
  <2> HIDE DEF m
  <2>2. fatal = IF payload.fatal THEN m ELSE renamed
    BY DEF m
  <2> HIDE DEF fatal
  <2> QED
    BY <1>5, <1>6, <2>1, <2>2, AdvancesStays
<1>9. payload.fatal /\ renamed.remaining \cap Test # {} /\ ~ReachedMaxFailures(renamed.count) => Blamed(fatal)
  BY <1>6, MassSkipBlames
<1> HIDE DEF fatal
<1>10. /\ LedgerOK(hook) /\ LedgerExact(hook) /\ Advances(fatal, hook)
       /\ hook.remaining = fatal.remaining \ payload.skip
  BY <1>8, MassSkipFacts, MassSkipAdvances
<1> HIDE DEF hook, blamed
<1>11. hook \in Ledgers
  BY <1>10 DEF LedgerOK
<1>12. /\ Advances(hook, end)
       /\ end.remaining = IF payload.unexpected THEN hook.remaining \ blamed ELSE hook.remaining
  <2> DEFINE m == MassSkip(hook, blamed, TRUE)
  <2>1. Advances(hook, m) /\ m.remaining = hook.remaining \ blamed
    BY <1>10, MassSkipFacts, MassSkipAdvances
  <2> HIDE DEF m
  <2>2. end = IF payload.unexpected THEN m ELSE hook
    BY DEF m
  <2> HIDE DEF end
  <2> QED
    BY <1>11, <2>1, <2>2, AdvancesStays
<1>13. payload.unexpected /\ hook.remaining \cap blamed # {} /\ ~ReachedMaxFailures(hook.count) => Blamed(end)
  BY <1>10, MassSkipBlames
<1> HIDE DEF end
<1>14. ~ReachedMaxFailures(renamed.count) /\ ~ReachedMaxFailures(hook.count)
  <2>1. /\ renamed.count \in Nat /\ fatal.count \in Nat /\ hook.count \in Nat /\ end.count \in Nat
        /\ renamed.count <= fatal.count /\ fatal.count <= hook.count /\ hook.count <= end.count
    BY <1>8, <1>10, <1>12 DEF Advances, Ledgers
  <2>2. renamed.count <= end.count
    BY ONLY <2>1
  <2> QED
    BY <1>1, <1>2, <2>1, <2>2, ReachedStays
<1>15. ASSUME NEW l, LedgerOK(l) PROVE l.failed \cap l.remaining = {}
  BY <1>15 DEF LedgerOK
<1>16. payload.unknown \cap remaining # {} => Blamed(renamed)
  <2> SUFFICES ASSUME payload.unknown \cap remaining # {} PROVE Blamed(renamed)
    OBVIOUS
  <2>1. order # <<>> /\ Len(order) \in DOMAIN order /\ order[Len(order)] \in Test
    BY <1>3 DEF ToSet
  <2> DEFINE t == order[Len(order)]
  <2>2. PICK k \in Ledgers : renamed = MissStep(k, t)
    BY <1>5, <2>1
  <2> DEFINE j == [k EXCEPT !.remaining = @ \ {t}]
  <2>3. j \in Ledgers /\ renamed = Fail(j, t, "failed")
    BY <2>2 DEF MissStep, Ledgers
  <2> HIDE DEF j
  <2>4. "failed" \in Status /\ t \in Test /\ begun = {}
    BY <2>1 DEF Status
  <2> HIDE DEF t
  <2>5. renamed.results = [j.results EXCEPT ![t] = Ended(j.results[t], t, "failed")] /\ t \in renamed.failed
    BY ONLY <2>3, <2>4, FailFacts
  <2>6. renamed.results[t] = Ended(j.results[t], t, "failed")
    BY <2>3, <2>4, <2>5 DEF Ledgers, Results
  <2> QED
    BY <2>3, <2>4, <2>5, <2>6, EndsFailed DEF Blamed
<1>17. renamed.remaining # remaining => Blamed(renamed)
  BY <1>6, <1>16
<1>18. fatal.remaining # remaining => Blamed(fatal)
  BY <1>6, <1>8, <1>9, <1>14, <1>15, <1>17, BlamedStays DEF LedgerOK, Ledgers
<1>19. hook.remaining # remaining => Blamed(hook)
  <2>1. CASE payload.skip = {}
    BY <1>8, <1>10, <1>15, <1>18, <2>1, BlamedStays
  <2>2. CASE payload.skip # {}
    BY <1>6, <1>7, <1>8, <1>10, <1>15, <2>2, BlamedStays
  <2> QED
    BY <2>1, <2>2
<1>20. end.remaining # remaining => Blamed(end)
  BY <1>10, <1>12, <1>13, <1>14, <1>15, <1>19, BlamedStays
<1> QED
  BY <1>1, <1>20

(***************************************************************************)
(* The invariant: groups without serial suites, with isolated retries.     *)
(***************************************************************************)
(* A test whose end is next has begun for the runner, too.                   *)
BeginsOK ==
  /\ wire # <<>> /\ wire[1].method = "testEnd" => wire[1].test \in begun
  /\ wire = <<>> /\ InTest => worker.test \in begun

LEMMA FirstSent ==
  ASSUME NEW w \in Seq(Message), NEW m \in Message
  PROVE  /\ w \o <<m>> \in Seq(Message) /\ w \o <<m>> # <<>>
         /\ (w \o <<m>>)[1] = IF w = <<>> THEN m ELSE w[1]
OBVIOUS

LEMMA QuietBegins ==
  ASSUME BeginsOK, UNCHANGED <<wire, begun>>, InTest' => InTest /\ worker'.test = worker.test
  PROVE  BeginsOK'
BY DEF BeginsOK

LEMMA BeginsStep ==
  ASSUME Inv, OrderOK, BeginsOK, [Next]_vars
  PROVE  BeginsOK'
<1>1. setting' = setting
  BY SettingStays
<1>2. wire \in Seq(Message) /\ worker \in Worker /\ WireShape /\ WireEnd /\ IdleOK
  BY InvFields DEF FieldsOfInv
<1>3. NoWorker.phase = "none"
  BY DEF NoWorker
<1>4. CASE UNCHANGED vars
  BY <1>4, QuietBegins DEF vars, job_vars, InTest
<1>5. CASE SkipWholeJob \/ RunIsOver \/ StopRun \/ FailElsewhere
  <2>1. UNCHANGED <<wire, begun>>
    BY <1>5, Zenon DEF SkipWholeJob, RunIsOver, StopRun, FailElsewhere, job_vars
  <2>2. worker' = worker \/ \E stop \in BOOLEAN : worker' = AskedToStop(worker, stop)
    BY <1>5, Zenon DEF SkipWholeJob, RunIsOver, StopRun, FailElsewhere, StopsRun
  <2>3. worker'.phase = worker.phase /\ worker'.test = worker.test
    BY <1>2, <2>2, AskedFacts
  <2> QED
    BY <2>1, <2>3, QuietBegins DEF InTest
<1>6. CASE RunInWorker
  <2>1. wire' = <<>> /\ worker' = [NoWorker EXCEPT !.phase = "loading", !.todo = ToSet(Head(queue))]
    BY <1>6 DEF RunInWorker
  <2>2. worker'.phase = "loading"
    BY <2>1, NoWorkerFacts DEF Worker
  <2> QED
    BY <2>1, <2>2 DEF BeginsOK, InTest
<1>7. CASE WorkerDoesNotStart
  <2> DEFINE m == DoneMessage("exit", [Nothing EXCEPT !.unexpected = TRUE])
  <2>1. worker' = NoWorker /\ wire' = <<m>>
    BY <1>7 DEF WorkerDoesNotStart
  <2>2. m.method = "exit"
    BY DEF DoneMessage
  <2> HIDE DEF m
  <2> QED
    BY <1>3, <2>1, <2>2 DEF BeginsOK, InTest
<1>8. CASE OnTestBegin
  <2> DEFINE t == wire[1].test
  <2>1. phase = "running" /\ wire # <<>> /\ wire[1].method = "testBegin" /\ wire' = Tail(wire) /\ worker' = worker
    BY <1>1, <1>8, OnTestBeginFacts
  <2>2. begun' = {t}
    BY <1>1, <1>8, TestBegins
  <2>3. /\ Tail(wire) = <<>> => wire[Len(wire)] = wire[1]
        /\ Tail(wire) # <<>> => MayFollow(wire[1], Tail(wire)[1])
    BY <1>2, <2>1, TailFacts DEF WireShape
  <2>4. wire' # <<>> /\ wire'[1].method = "testEnd" => wire'[1].test \in begun'
    BY <2>1, <2>2, <2>3 DEF MayFollow
  <2>5. wire' = <<>> /\ InTest' => worker'.test \in begun'
    BY <1>2, <2>1, <2>2, <2>3 DEF WireEnd, InTest
  <2> QED
    BY <2>4, <2>5 DEF BeginsOK
<1>9. CASE OnTestEnd
  <2>1. /\ phase = "running" /\ wire # <<>> /\ wire[1].method = "testEnd" /\ wire' = Tail(wire)
        /\ worker' = worker \/ (stopped' = StopsRun(failedCount') /\ worker' = AskedToStop(worker, stopped'))
    BY <1>1, <1>9, OnTestEndFacts
  <2>2. /\ Tail(wire) = <<>> => wire[Len(wire)] = wire[1]
        /\ Tail(wire) # <<>> => MayFollow(wire[1], Tail(wire)[1])
    BY <1>2, <2>1, TailFacts DEF WireShape
  <2>3. worker'.phase = worker.phase
    <3>1. StopsRun(failedCount') \in BOOLEAN
      BY DEF StopsRun, Inv, TypeOK
    <3> QED
      BY <1>2, <2>1, <3>1, AskedFacts
  <2>4. ~(wire' # <<>> /\ wire'[1].method = "testEnd")
    BY <2>1, <2>2 DEF MayFollow
  <2>5. ~(wire' = <<>> /\ InTest')
    BY <1>2, <2>1, <2>2, <2>3 DEF WireEnd, InTest
  <2> QED
    BY <2>4, <2>5 DEF BeginsOK
<1>10. CASE OnDone
  BY <1>3, <1>10 DEF OnDone, JobOver, BeginsOK, InTest
<1>11. CASE LoadFile \/ ThrowInTest \/ ThrowBetweenTests \/ ReceiveStop
  <2>1. UNCHANGED <<wire, begun>>
    BY <1>11 DEF LoadFile, ThrowInTest, ThrowBetweenTests, ReceiveStop, runner_vars, job_vars
  <2>2. InTest' => InTest /\ worker'.test = worker.test
    BY <1>2, <1>11 DEF LoadFile, ThrowInTest, ThrowBetweenTests, ReceiveStop, Worker, InTest
  <2> QED
    BY <2>1, <2>2, QuietBegins
<1>12. CASE FinishTest \/ FailTest \/ FailForGood \/ SkipItself \/ FailHook
  <2>1. PICK w \in Worker : HooksDone(w)
    BY <1>12, TestStepFacts
  <2>2. UNCHANGED <<wire, begun>> /\ worker.phase = "test"
    BY <1>12, TestStepFacts DEF runner_vars, job_vars
  <2>3. worker'.test = worker.test
    BY <2>1, AfterTestFacts DEF HooksDone
  <2> QED
    BY <2>2, <2>3, QuietBegins DEF InTest
<1>13. CASE PassOverTest
  <2> DEFINE t == FirstOf(worker)
  <2>1. PICK b, e \in Message :
           /\ b = BeginMessage(t) /\ e = EndMessage(t, "skipped", "skipped", FALSE)
           /\ wire' = (wire \o <<b>>) \o <<e>>
    BY <1>13, SendingFacts
  <2>2. b.method = "testBegin" /\ UNCHANGED begun
    BY <1>13, <2>1, SendingFacts DEF BeginMessage, runner_vars, job_vars
  <2> DEFINE v == wire \o <<b>>
  <2>3. v \in Seq(Message) /\ v # <<>> /\ v[1] = IF wire = <<>> THEN b ELSE wire[1]
    BY <1>2, FirstSent
  <2> HIDE DEF v
  <2>4. wire' # <<>> /\ wire'[1] = v[1]
    BY <2>1, <2>3, FirstSent DEF v
  <2> QED
    BY <2>2, <2>3, <2>4 DEF BeginsOK
<1>14. CASE BeginTest
  <2> DEFINE b == BeginMessage(FirstOf(worker))
  <2>1. b \in Message /\ wire' = wire \o <<b>> /\ UNCHANGED begun
    BY <1>14, SendingFacts DEF runner_vars, job_vars
  <2>2. b.method = "testBegin"
    BY DEF BeginMessage
  <2> HIDE DEF b
  <2> QED
    BY <1>2, <2>1, <2>2, FirstSent DEF BeginsOK
<1>15. CASE EndTest
  <2>1. PICK e \in Message :
           /\ e = EndMessage(worker.test, worker.status, worker.expected, worker.nonRetriable)
           /\ wire' = wire \o <<e>>
    BY <1>15, SendingFacts
  <2>2. worker.phase = "tail" /\ UNCHANGED begun /\ e.test = worker.test
    BY <1>15, <2>1, SendingFacts DEF runner_vars, job_vars, EndMessage
  <2> QED
    BY <1>2, <2>1, <2>2, FirstSent DEF BeginsOK, InTest
<1>16. CASE FailToLoadFile \/ MissTests \/ FinishGroup \/ ProcessExits
  <2>1. UNCHANGED begun
    BY <1>16, DoneFacts, ExitFacts DEF runner_vars, job_vars
  <2>2. \E v \in Seq(Message), m \in Message :
          m.method \in {"done", "exit"} /\ wire' = v \o <<m>> /\ (v = <<>> \/ (wire # <<>> /\ v[1] = wire[1]))
    <3>1. CASE ProcessExits
      <4>1. PICK n \in 0..Len(wire) : \E m \in Message : m.method = "exit" /\ wire' = SubSeq(wire, 1, n) \o <<m>>
        BY <3>1, ExitFacts
      <4> DEFINE v == SubSeq(wire, 1, n)
      <4>2. v \in Seq(Message) /\ (v = <<>> \/ (wire # <<>> /\ v[1] = wire[1]))
        BY <1>2
      <4> QED
        BY <4>1, <4>2
    <3>2. CASE ~ProcessExits
      <4>1. \E m \in Message : m.method = "done" /\ wire' = wire \o <<m>>
        BY <1>16, <3>2, DoneFacts
      <4> QED
        BY <1>2, <4>1
    <3> QED
      BY <3>1, <3>2
  <2>3. PICK v \in Seq(Message), m \in Message :
          m.method \in {"done", "exit"} /\ wire' = v \o <<m>> /\ (v = <<>> \/ (wire # <<>> /\ v[1] = wire[1]))
    BY <2>2
  <2>4. wire' # <<>> /\ wire'[1] = IF v = <<>> THEN m ELSE v[1]
    BY <2>3, FirstSent
  <2> QED
    BY <2>1, <2>3, <2>4 DEF BeginsOK
<1> QED
  BY <1>4, <1>5, <1>6, <1>7, <1>8, <1>9, <1>10, <1>11, <1>12, <1>13, <1>14, <1>15, <1>16
     DEF Next, RunnerStarts, RunnerHandles, WorkerGoesOn, Fault, Terminated, Crash, Kill

Plain ==
  /\ Isolated /\ Faults \cap {"stray", "snapshot"} = {}
  /\ \A s, t \in Group : Retries[s] = Retries[t] /\ Expected[t] = "passed"
  /\ NoSerialSuite

JobsInGroup == AllOf(queue) \cup ToSet(job) \subseteq Group

(* What is said of a test that ends: it passed, it failed, or it skipped     *)
(* itself.                                                                   *)
Tells(status, expects) ==
  (status \in {"passed", "failed"} /\ expects = "passed") \/ (status = "skipped" /\ expects = "skipped")
AllTell(w) == \A i \in DOMAIN w : w[i].method = "testEnd" => Tells(w[i].status, w[i].expected)

(* A failed beforeAll hook, for which tests are to be skipped, fails a test. *)
Skips(m) == m.method \in {"done", "exit"} /\ m.payload.skip # {}
SkipsAfterBad(w) == \A i \in DOMAIN w : Skips(w[i]) => \E k \in DOMAIN w : k < i /\ Bad(w[k])

(* The worker: none of its tests is passed over for an error that no test    *)
(* shows.                                                                    *)
WorkerPlain ==
  /\ worker.phase = "loading" => ~worker.stopped /\ worker.skip = {}
  /\ worker.phase \in {"between", "tail"} => (worker.stopped => worker.cleaned)
  /\ worker.phase = "test" =>
       worker.status \in {"passed", "failed"} /\ worker.expected = "passed" /\ worker.skip = {}
  /\ worker.phase = "tail" =>
       Tells(worker.status, worker.expected) /\ (worker.skip # {} => worker.status = "failed")

PlainStream ==
  /\ WorkerPlain /\ AllTell(wire)
  /\ failed # {} \/ (SkipsAfterBad(wire) /\ (worker.phase = "between" /\ worker.skip # {} => HasBad(wire)))

LEMMA PlainSent ==
  ASSUME NEW w \in Seq(Message), NEW m \in Message
  PROVE  /\ AllTell(w) /\ (m.method = "testEnd" => Tells(m.status, m.expected)) => AllTell(w \o <<m>>)
         /\ SkipsAfterBad(w) /\ (Skips(m) => HasBad(w)) => SkipsAfterBad(w \o <<m>>)
<1> DEFINE v == w \o <<m>>
           n == Len(w)
<1>1. /\ v \in Seq(Message) /\ n \in Nat /\ DOMAIN w = 1..n /\ DOMAIN v = 1..(n + 1)
      /\ (\A i \in 1..n : v[i] = w[i]) /\ v[n + 1] = m
  OBVIOUS
<1> HIDE DEF v, n
<1>2. \A i \in DOMAIN v : (i \in DOMAIN w /\ v[i] = w[i]) \/ (i = n + 1 /\ v[i] = m)
  <2> TAKE i \in DOMAIN v
  <2>1. i \in 1..n \/ i = n + 1
    BY <1>1
  <2> QED
    BY <1>1, <2>1
<1>3. \A i \in DOMAIN w : i \in DOMAIN v /\ v[i] = w[i] /\ i < n + 1
  BY <1>1
<1>4. AllTell(w) /\ (m.method = "testEnd" => Tells(m.status, m.expected)) => AllTell(v)
  BY <1>2 DEF AllTell
<1>5. ASSUME SkipsAfterBad(w), Skips(m) => HasBad(w) PROVE SkipsAfterBad(v)
  <2> SUFFICES ASSUME NEW i \in DOMAIN v, Skips(v[i]) PROVE \E k \in DOMAIN v : k < i /\ Bad(v[k])
    BY DEF SkipsAfterBad
  <2>1. CASE i \in DOMAIN w /\ v[i] = w[i]
    BY <1>3, <1>5, <2>1 DEF SkipsAfterBad
  <2>2. CASE i = n + 1 /\ v[i] = m
    BY <1>3, <1>5, <2>2 DEF HasBad
  <2> QED
    BY <1>2, <2>1, <2>2
<1> QED
  BY <1>4, <1>5 DEF v

LEMMA PlainHandled ==
  ASSUME NEW w \in Seq(Message), w # <<>>
  PROVE  /\ AllTell(w) => AllTell(Tail(w)) /\ (w[1].method = "testEnd" => Tells(w[1].status, w[1].expected))
         /\ SkipsAfterBad(w) => ~Skips(w[1]) /\ (Bad(w[1]) \/ SkipsAfterBad(Tail(w)))
         /\ HasBad(w) => Bad(w[1]) \/ HasBad(Tail(w))
<1> DEFINE v == Tail(w)
<1>1. /\ 1 \in DOMAIN w /\ DOMAIN w \subseteq Nat \ {0}
      /\ \A i \in DOMAIN v : i + 1 \in DOMAIN w /\ v[i] = w[i + 1]
      /\ \A i \in DOMAIN w : i = 1 \/ (i - 1 \in DOMAIN v /\ v[i - 1] = w[i])
      /\ DOMAIN v \subseteq Nat
  OBVIOUS
<1> HIDE DEF v
<1>2. AllTell(w) => AllTell(v) /\ (w[1].method = "testEnd" => Tells(w[1].status, w[1].expected))
  BY <1>1 DEF AllTell
<1>3. HasBad(w) => Bad(w[1]) \/ HasBad(v)
  BY <1>1 DEF HasBad
<1>4. SkipsAfterBad(w) => ~Skips(w[1])
  <2>1. \A k \in DOMAIN w : ~(k < 1)
    BY <1>1
  <2> QED
    BY <1>1, <2>1 DEF SkipsAfterBad
<1>5. ASSUME SkipsAfterBad(w), ~Bad(w[1]) PROVE SkipsAfterBad(v)
  <2> SUFFICES ASSUME NEW i \in DOMAIN v, Skips(v[i]) PROVE \E k \in DOMAIN v : k < i /\ Bad(v[k])
    BY DEF SkipsAfterBad
  <2>1. PICK k \in DOMAIN w : k < i + 1 /\ Bad(w[k])
    BY <1>1, <1>5 DEF SkipsAfterBad
  <2>2. k - 1 \in DOMAIN v /\ v[k - 1] = w[k] /\ i \in Nat /\ k \in Nat
    BY <1>1, <1>5, <2>1
  <2>3. k - 1 < i
    BY <2>1, <2>2
  <2> QED
    BY <2>1, <2>2, <2>3
<1> QED
  BY <1>2, <1>3, <1>4, <1>5 DEF v

LEMMA PlainLost ==
  ASSUME NEW w \in Seq(Message), NEW n \in 0..Len(w)
  PROVE  LET v == SubSeq(w, 1, n)
         IN  /\ v \in Seq(Message)
             /\ AllTell(w) => AllTell(v)
             /\ SkipsAfterBad(w) => SkipsAfterBad(v)
<1> DEFINE v == SubSeq(w, 1, n)
<1>1. /\ v \in Seq(Message) /\ DOMAIN v \subseteq DOMAIN w
      /\ \A i \in DOMAIN v : v[i] = w[i]
      /\ \A i \in DOMAIN v : \A k \in DOMAIN w : k < i => k \in DOMAIN v
  OBVIOUS
<1> HIDE DEF v
<1>2. AllTell(w) => AllTell(v)
  BY <1>1 DEF AllTell
<1>3. SkipsAfterBad(w) => SkipsAfterBad(v)
  BY <1>1 DEF SkipsAfterBad
<1> QED
  BY <1>1, <1>2, <1>3 DEF v

LEMMA NotAsked ==
  ASSUME worker \in Worker
  PROVE  AskedToStop(worker, FALSE) = worker
BY DEF AskedToStop, Worker

LEMMA QuietPlain ==
  ASSUME PlainStream, UNCHANGED wire, failed \subseteq failed', WorkerPlain',
         worker'.phase = "between" => worker'.skip = {} \/ (worker.phase = "between" /\ worker'.skip = worker.skip)
  PROVE  PlainStream'
<1>1. AllTell(wire)' /\ (SkipsAfterBad(wire) <=> SkipsAfterBad(wire)') /\ (HasBad(wire) <=> HasBad(wire)')
  BY DEF PlainStream
<1> QED
  BY <1>1 DEF PlainStream

LEMMA PlainStep ==
  ASSUME Inv, OrderOK, StreamOK, BeginsOK, JobsInGroup, Plain, ~stopped, ~stopped', PlainStream, [Next]_vars
  PROVE  PlainStream'
<1>1. setting' = setting
  BY SettingStays
<1>2. wire \in Seq(Message) /\ worker \in Worker /\ WireHead /\ IdleOK /\ ExitsOK /\ setting \in Setting
      /\ failedCount \in Nat
  BY InvFields DEF FieldsOfInv, Inv, TypeOK
<1>3. NoWorker.phase = "none" /\ (worker.phase # "none" => phase = "running")
  BY <1>2 DEF NoWorker, IdleOK
<1>4. ~ReachedMaxFailures(failedCount) /\ ~worker.asked /\ "stray" \notin Faults
  BY <1>2 DEF Inv, MaxStops, ExitsOK, Plain
<1>5. WorkerPlain /\ AllTell(wire) /\ (failed = {} => SkipsAfterBad(wire))
  BY DEF PlainStream
<1>6. worker.phase = "between" => \A t \in worker.todo : Expected[t] = "passed"
  <2> SUFFICES ASSUME worker.phase = "between", NEW t \in worker.todo PROVE Expected[t] = "passed"
    OBVIOUS
  <2>1. t \in remaining /\ remaining \subseteq ToSet(job)
    BY DEF OrderOK, Working, Inv, TypeOK
  <2> QED
    BY <2>1 DEF JobsInGroup, Plain
<1>7. CASE UNCHANGED vars
  BY <1>5, <1>7, QuietPlain DEF vars, job_vars, WorkerPlain
<1>8. CASE SkipWholeJob \/ RunIsOver \/ FailElsewhere
  <2>1. UNCHANGED <<wire, failed>> /\ (worker' = worker \/ worker' = AskedToStop(worker, stopped'))
    BY <1>8, Zenon DEF SkipWholeJob, RunIsOver, FailElsewhere, job_vars
  <2>2. stopped' = FALSE
    <3>1. stopped' = stopped \/ stopped' = StopsRun(failedCount')
      BY <1>8, Zenon DEF SkipWholeJob, RunIsOver, FailElsewhere
    <3>2. stopped \in BOOLEAN /\ StopsRun(failedCount') \in BOOLEAN
      BY DEF StopsRun, Inv, TypeOK
    <3> QED
      BY <3>1, <3>2
  <2>3. worker' = worker
    BY <1>2, <2>1, <2>2, NotAsked
  <2> QED
    BY <1>5, <2>1, <2>3, QuietPlain DEF WorkerPlain
<1>9. CASE StopRun
  BY <1>9 DEF StopRun
<1>10. CASE RunInWorker
  <2>1. wire' = <<>> /\ worker' = [NoWorker EXCEPT !.phase = "loading", !.todo = ToSet(Head(queue))]
    BY <1>10 DEF RunInWorker
  <2>2. worker'.phase = "loading" /\ ~worker'.stopped /\ worker'.skip = {}
    BY <2>1 DEF NoWorker
  <2> QED
    BY <2>1, <2>2 DEF PlainStream, WorkerPlain, AllTell, SkipsAfterBad
<1>11. CASE WorkerDoesNotStart
  <2> DEFINE m == DoneMessage("exit", [Nothing EXCEPT !.unexpected = TRUE])
  <2>1. worker' = NoWorker /\ wire' = <<m>>
    BY <1>11 DEF WorkerDoesNotStart
  <2>2. m.method = "exit" /\ m.payload.skip = {}
    BY DEF DoneMessage, Nothing
  <2> HIDE DEF m
  <2> QED
    BY <1>3, <2>1, <2>2 DEF PlainStream, WorkerPlain, AllTell, SkipsAfterBad, Skips
<1>12. CASE OnTestBegin
  <2>1. wire # <<>> /\ wire[1].method = "testBegin" /\ wire' = Tail(wire) /\ UNCHANGED <<failed, worker>>
    BY <1>1, <1>12, OnTestBeginFacts
  <2>2. ~Bad(wire[1])
    BY <2>1 DEF Bad
  <2>3. /\ AllTell(wire') /\ (SkipsAfterBad(wire) => SkipsAfterBad(wire')) /\ (HasBad(wire) => HasBad(wire'))
    BY <1>2, <1>5, <2>1, <2>2, PlainHandled
  <2> QED
    BY <2>1, <2>3 DEF PlainStream, WorkerPlain
<1>13. CASE OnTestEnd
  <2> DEFINE m == wire[1]
  <2>1. /\ wire # <<>> /\ m.method = "testEnd" /\ wire' = Tail(wire)
        /\ failed' = IF ReportedStatus(m) \notin {"skipped", m.expected} THEN failed \cup {m.test} ELSE failed
        /\ worker' = AskedToStop(worker, stopped') \/ worker' = worker
        /\ stopped' \in BOOLEAN
    <3>1. wire # <<>> /\ m.method = "testEnd"
      BY <1>1, <1>13, OnTestEndFacts
    <3>2. begun # {}
      BY <3>1 DEF BeginsOK
    <3>3. StopsRun(failedCount') \in BOOLEAN
      BY DEF StopsRun, Inv, TypeOK
    <3> QED
      BY <1>1, <1>13, <3>2, <3>3, OnTestEndFacts
  <2>2. worker' = worker
    <3>1. stopped' = FALSE
      BY <2>1
    <3> QED
      BY <1>2, <2>1, <3>1, NotAsked
  <2>3. failed \subseteq failed' /\ (Bad(m) => failed' # {})
    BY <1>4, <2>1 DEF Bad, ReportedStatus
  <2>4. /\ AllTell(wire') /\ (SkipsAfterBad(wire) => Bad(m) \/ SkipsAfterBad(wire'))
        /\ HasBad(wire) => Bad(m) \/ HasBad(wire')
    BY <1>2, <1>5, <2>1, PlainHandled
  <2> HIDE DEF m
  <2> QED
    BY <2>2, <2>3, <2>4 DEF PlainStream, WorkerPlain
<1>14. CASE OnDone
  <2>1. worker' = NoWorker /\ wire' = <<>>
    BY <1>14 DEF OnDone, JobOver
  <2> QED
    BY <1>3, <2>1 DEF PlainStream, WorkerPlain, AllTell, SkipsAfterBad
<1>15. CASE LoadFile
  <2>1. UNCHANGED <<wire, failed>> /\ worker.phase = "loading"
        /\ worker' = [worker EXCEPT !.phase = "between", !.cleaned = FALSE, !.hooked = {}]
    BY <1>15 DEF LoadFile, runner_vars, job_vars
  <2>2. worker'.phase = "between" /\ ~worker'.stopped /\ worker'.skip = {}
    BY <1>2, <1>5, <2>1 DEF Worker, WorkerPlain
  <2>3. WorkerPlain'
    BY <2>2 DEF WorkerPlain
  <2> QED
    BY <2>1, <2>2, <2>3, QuietPlain
<1>16. CASE ThrowInTest
  <2>1. UNCHANGED <<wire, failed>> /\ worker.phase = "test"
        /\ worker' = [worker EXCEPT !.unhandled = TRUE, !.stopped = TRUE,
                              !.status = IF @ \in {"passed", "skipped"} THEN "failed" ELSE @]
    BY <1>4, <1>16 DEF ThrowInTest, runner_vars, job_vars
  <2>2. worker'.phase = "test" /\ worker'.status \in {"passed", "failed"} /\ worker'.expected = "passed" /\ worker'.skip = {}
    BY <1>2, <1>5, <2>1 DEF Worker, WorkerPlain
  <2>3. WorkerPlain'
    BY <2>2 DEF WorkerPlain
  <2> QED
    BY <2>1, <2>2, <2>3, QuietPlain
<1>17. CASE ThrowBetweenTests \/ ReceiveStop
  BY <1>4, <1>17 DEF ThrowBetweenTests, ReceiveStop
<1>18. CASE FinishTest \/ FailTest \/ FailForGood \/ SkipItself \/ FailHook
  <2>1. PICK w \in Worker : HooksDone(w)
    BY <1>18, TestStepFacts
  <2>2. UNCHANGED <<wire, failed>> /\ worker.phase = "test"
    BY <1>18, TestStepFacts DEF runner_vars, job_vars
  <2>3. /\ worker'.phase = "tail" /\ worker'.status = w.status /\ worker'.expected = w.expected
        /\ worker'.cleaned = worker'.stopped /\ worker'.skip = w.skip
    BY <2>1, AfterTestFacts DEF HooksDone
  <2>4. /\ w.skip = worker.skip \/ w.status = "failed"
        /\ \/ w.status = worker.status /\ w.expected = worker.expected
           \/ w.status = "failed" /\ w.expected = worker.expected
           \/ w.status = "skipped" /\ w.expected = "skipped"
    BY <2>1 DEF HooksDone
  <2>5. worker.status \in {"passed", "failed"} /\ worker.expected = "passed" /\ worker.skip = {}
    BY <1>5, <2>2 DEF WorkerPlain
  <2>6. Tells(w.status, w.expected) /\ (w.skip # {} => w.status = "failed")
    BY <2>4, <2>5 DEF Tells
  <2>7. WorkerPlain'
    BY <2>3, <2>6 DEF WorkerPlain
  <2> QED
    BY <2>2, <2>3, <2>7, QuietPlain
<1>19. CASE PassOverTest
  <2>1. worker.phase = "between" /\ worker.todo # {} /\ Expected[FirstOf(worker)] = "skipped"
    BY <1>19, SendingFacts
  <2> QED
    BY <1>2, <1>6, <2>1, FirstFacts
<1>20. CASE BeginTest
  <2> DEFINE t == FirstOf(worker)
             b == BeginMessage(t)
  <2>1. /\ worker.phase = "between" /\ worker.todo # {} /\ b \in Message /\ wire' = wire \o <<b>>
        /\ worker'.phase = "test" /\ worker'.skip = worker.skip /\ ~(worker.stopped /\ worker.cleaned)
        /\ worker'.status = (IF worker.stopped \/ Expected[t] = "skipped" THEN "skipped" ELSE "passed")
        /\ worker'.expected = Expected[t]
        /\ UNCHANGED failed
    BY <1>20, SendingFacts DEF runner_vars, job_vars
  <2>2. b.method = "testBegin" /\ ~Skips(b)
    BY DEF BeginMessage, Skips
  <2>3. Expected[t] = "passed"
    BY <1>2, <1>6, <2>1, FirstFacts
  <2>4. ~worker.stopped
    BY <1>5, <2>1 DEF WorkerPlain
  <2>5. worker.skip = {}
    BY <1>4, <2>1, <2>4 DEF PlainStream, StreamOK, Failing, Working
  <2> HIDE DEF t, b
  <2>6. WorkerPlain'
    BY <2>1, <2>3, <2>4, <2>5 DEF WorkerPlain
  <2>7. AllTell(wire') /\ (SkipsAfterBad(wire) => SkipsAfterBad(wire'))
    BY <1>2, <1>5, <2>1, <2>2, PlainSent
  <2> QED
    BY <2>1, <2>6, <2>7 DEF PlainStream
<1>21. CASE EndTest
  <2>1. PICK e \in Message :
           /\ e = EndMessage(worker.test, worker.status, worker.expected, worker.nonRetriable)
           /\ wire' = wire \o <<e>>
    BY <1>21, SendingFacts
  <2>2. /\ worker.phase = "tail" /\ UNCHANGED failed /\ worker'.phase = "between"
        /\ worker'.stopped = worker.stopped /\ worker'.cleaned = worker.cleaned /\ worker'.skip = worker.skip
    BY <1>2, <1>21, SendingFacts DEF runner_vars, job_vars, Worker
  <2>3. e.method = "testEnd" /\ e.status = worker.status /\ e.expected = worker.expected /\ ~Skips(e)
    BY <2>1 DEF EndMessage, Skips
  <2>4. Tells(e.status, e.expected) /\ (worker.skip # {} => Bad(e))
    BY <1>5, <2>2, <2>3 DEF WorkerPlain, Tells, Bad
  <2>5. AllTell(wire') /\ (SkipsAfterBad(wire) => SkipsAfterBad(wire')) /\ (Bad(e) => HasBad(wire'))
    BY <1>2, <1>5, <2>1, <2>3, <2>4, PlainSent, MessageSent
  <2>6. WorkerPlain'
    BY <1>5, <2>2 DEF WorkerPlain
  <2> QED
    BY <2>2, <2>4, <2>5, <2>6 DEF PlainStream
<1>22. CASE FailToLoadFile \/ MissTests \/ FinishGroup
  <2>1. /\ worker.phase \in {"loading", "between"} /\ UNCHANGED failed /\ worker'.phase = "idle"
    BY <1>22, DoneFacts DEF runner_vars, job_vars
  <2>2. PICK m \in Message : m.method = "done" /\ wire' = wire \o <<m>> /\ m.payload.skip \subseteq worker.skip
    BY <1>22, DoneFacts
  <2>3. failed = {} => (Skips(m) => HasBad(wire))
    BY <1>5, <2>1, <2>2 DEF PlainStream, WorkerPlain, Skips
  <2>4. AllTell(wire') /\ (failed = {} => SkipsAfterBad(wire'))
    BY <1>2, <1>5, <2>2, <2>3, PlainSent
  <2> QED
    BY <2>1, <2>4 DEF PlainStream, WorkerPlain
<1>23. CASE ProcessExits
  <2>1. UNCHANGED failed /\ worker' = NoWorker
    BY <1>23, ExitFacts DEF runner_vars, job_vars
  <2>2. PICK n \in 0..Len(wire) : \E m \in Message :
          m.method = "exit" /\ wire' = SubSeq(wire, 1, n) \o <<m>> /\ m.payload.skip = {}
    BY <1>23, ExitFacts
  <2>3. PICK m \in Message : m.method = "exit" /\ wire' = SubSeq(wire, 1, n) \o <<m>> /\ m.payload.skip = {}
    BY <2>2
  <2> DEFINE v == SubSeq(wire, 1, n)
  <2>4. v \in Seq(Message) /\ AllTell(v) /\ (SkipsAfterBad(wire) => SkipsAfterBad(v))
    BY <1>2, <1>5, PlainLost
  <2> HIDE DEF v
  <2>5. AllTell(v \o <<m>>) /\ (SkipsAfterBad(v) => SkipsAfterBad(v \o <<m>>))
    BY <2>3, <2>4, PlainSent DEF Skips
  <2> QED
    BY <1>3, <1>5, <2>1, <2>3, <2>4, <2>5 DEF PlainStream, WorkerPlain, v
<1> QED
  BY <1>7, <1>8, <1>9, <1>10, <1>11, <1>12, <1>13, <1>14, <1>15, <1>16, <1>17, <1>18, <1>19, <1>20, <1>21, <1>22, <1>23
     DEF Next, RunnerStarts, RunnerHandles, WorkerGoesOn, Fault, Terminated, Crash, Kill

(* A test that runs again has not passed yet, and one that failed in the job *)
(* has a result that says so.                                                *)
Playing == AllOf(queue) \cup remaining \cup failed
NeverPassed(t) == expected[t] = "passed" /\ \A i \in DOMAIN results[t] : results[t][i] # "passed"
HasFailed(t) == \E i \in DOMAIN results[t] : results[t][i] = "failed"

(* A test that would have been forgotten if the run passed now; it may be    *)
(* for the sake of another that failed and is not run any more.              *)
Fresh(t) == expected[t] # "skipped" /\ \A i \in DOMAIN results[t] : ~Ran(results[t][i])
Doomed == \E z \in Group \ Playing : NeverPassed(z) /\ HasFailed(z)

LevelOK ==
  /\ \A Q \in SetsOf(queue) : \A s, t \in Q : Len(results[s]) = Len(results[t])
  /\ Level(ToSet(job), remaining)
PlayingOK == (\A t \in Playing : NeverPassed(t)) /\ (\A t \in failed : HasFailed(t))
NoneLost == Doomed \/ \A t \in Group : Fresh(t) => t \in AllOf(queue) \cup remaining
OverOK == phase = "over" => queue = <<>>

GroupOK == JobsInGroup /\ LevelOK /\ PlayingOK /\ NoneLost /\ OverOK

LEMMA NoneLostStays ==
  ASSUME NoneLost, setting' = setting, Playing' \subseteq Playing,
         \A z \in Group \ Playing : results'[z] = results[z] /\ expected'[z] = expected[z],
         \A t \in Group : Fresh(t)' =>
           /\ Fresh(t)
           /\ t \in AllOf(queue) \cup remaining => t \in AllOf(queue') \cup remaining'
  PROVE  NoneLost'
<1>1. Group' = Group
  BY DEF Group
<1>2. CASE Doomed
  <2>1. PICK z \in Group \ Playing : NeverPassed(z) /\ HasFailed(z)
    BY <1>2 DEF Doomed
  <2>2. NeverPassed(z)' /\ HasFailed(z)' /\ z \in Group' \ Playing'
    BY <1>1, <2>1 DEF NeverPassed, HasFailed
  <2> QED
    BY <2>2 DEF NoneLost, Doomed
<1>3. CASE ~Doomed
  BY <1>1, <1>3 DEF NoneLost
<1> QED
  BY <1>2, <1>3

LEMMA QuietGroup ==
  ASSUME GroupOK, UNCHANGED <<setting, queue, job, remaining, begun, failed, results, expected>>, OverOK'
  PROVE  GroupOK'
<1>1. Playing' = Playing /\ Group' = Group
  BY DEF Playing, Group
<1>2. \A t : NeverPassed(t)' = NeverPassed(t) /\ HasFailed(t)' = HasFailed(t) /\ Fresh(t)' = Fresh(t)
  BY DEF NeverPassed, HasFailed, Fresh
<1>3. JobsInGroup' /\ PlayingOK'
  BY <1>1, <1>2 DEF GroupOK, JobsInGroup, PlayingOK
<1>4. NoneLost'
  BY <1>1, <1>2, NoneLostStays DEF GroupOK
<1>5. LevelOK'
  BY DEF GroupOK, LevelOK, Level, Due, Runs
<1> QED
  BY <1>3, <1>4, <1>5 DEF GroupOK

LEMMA InitGroup ==
  ASSUME Init, Plain
  PROVE  GroupOK
<1>1. setting \in Setting /\ Group \in SUBSET Test
  BY SettingAssumption DEF Init, Group
<1>2. ToSet(InFileOrder(Group)) = Group
  BY <1>1, FileOrderFacts
<1>3. /\ queue = <<InFileOrder(Group)>> /\ job = <<>> /\ remaining = {} /\ failed = {} /\ phase = "idle"
      /\ results = [t \in Test |-> <<>>] /\ expected = Expected
  BY DEF Init
<1>4. ToSet(job) = {} /\ SetsOf(queue) = {Group} /\ AllOf(queue) = Group
  <2>1. DOMAIN queue = {1} /\ queue[1] = InFileOrder(Group)
    BY <1>3
  <2>2. SetsOf(queue) = {Group} /\ AllOf(queue) = Group
    BY <1>2, <2>1 DEF SetsOf, AllOf
  <2>3. ToSet(job) = {}
    BY <1>3 DEF ToSet
  <2> QED
    BY <2>2, <2>3
<1>5. \A t \in Group : results[t] = <<>> /\ DOMAIN results[t] = {} /\ expected[t] = "passed"
  BY <1>1, <1>3 DEF Plain
<1>6. JobsInGroup /\ NoneLost /\ OverOK
  BY <1>3, <1>4 DEF JobsInGroup, NoneLost, OverOK
<1>7. PlayingOK
  BY <1>3, <1>4, <1>5 DEF PlayingOK, Playing, NeverPassed
<1>8. LevelOK
  BY <1>4, <1>5 DEF LevelOK, Level
<1> QED
  BY <1>6, <1>7, <1>8 DEF GroupOK

LEMMA StartJobGroup ==
  ASSUME Inv, GroupOK, setting' = setting, StartJob
  PROVE  GroupOK'
<1>1. /\ queue # <<>> /\ phase = "idle" /\ phase' = "running" /\ job' = Head(queue) /\ queue' = Tail(queue)
      /\ remaining' = ToSet(job') /\ begun' = {} /\ failed' = {} /\ UNCHANGED <<results, expected>>
  BY StartJobFacts DEF report_vars
<1>2. begun = {} /\ remaining = {} /\ failed = {} /\ job = <<>> /\ queue \in Seq(Seq(Test))
  BY <1>1 DEF Inv, WireOK, IdleOK, TypeOK
<1>3. SetsOf(queue') \subseteq SetsOf(queue) /\ ToSet(job') \in SetsOf(queue)
  BY <1>1, <1>2, TailSets
<1>4. AllOf(queue) = ToSet(job') \cup AllOf(queue')
  BY <1>1, <1>2, TailJobs
<1>5. Playing' = Playing /\ Group' = Group
  BY <1>1, <1>2, <1>4 DEF Playing, Group
<1>6. \A t : NeverPassed(t)' = NeverPassed(t) /\ Fresh(t)' = Fresh(t)
  BY <1>1 DEF NeverPassed, Fresh
<1>7. JobsInGroup' /\ PlayingOK'
  BY <1>1, <1>4, <1>5, <1>6 DEF GroupOK, JobsInGroup, PlayingOK
<1>8. NoneLost'
  BY <1>1, <1>2, <1>4, <1>5, <1>6, NoneLostStays DEF GroupOK
<1>9. LevelOK'
  <2>1. \A t \in ToSet(job') : Due(t, remaining)' = Len(results[t]) - 0 + 1
    BY <1>1 DEF Due, Runs
  <2>2. \A Q \in SetsOf(queue) : \A s, t \in Q : Len(results[s]) = Len(results[t])
    BY DEF GroupOK, LevelOK
  <2>3. \A s, t \in ToSet(job') : Due(s, remaining)' = Due(t, remaining)'
    BY <1>1, <1>3, <2>1, <2>2
  <2> QED
    BY <1>1, <1>3, <2>2, <2>3 DEF LevelOK, Level
<1> QED
  BY <1>1, <1>7, <1>8, <1>9 DEF GroupOK, OverOK

(* Tests that are expected to be skipped are in no job any more.             *)
LEMMA SkipWholeJobGroup ==
  ASSUME Inv, GroupOK, setting' = setting, SkipWholeJob
  PROVE  GroupOK'
<1>1. TypeOK /\ queue \in Seq(Seq(Test)) /\ results \in Results
  BY DEF Inv, TypeOK, Results
<1>2. PICK after \in Ledgers : ReportsAll(Head(queue), Ledger, after) /\ SkipWholeJobWith(after)
  BY <1>1, SkipWholeJobDoes
<1>3. /\ Head(queue) \in Seq(Test) /\ queue' = Tail(queue) /\ queue # <<>>
      /\ \A i \in DOMAIN Head(queue) : expected[Head(queue)[i]] = "skipped"
  BY <1>1, SkipWholeJobDoes
<1>4. phase = "idle" /\ UNCHANGED <<phase, job, remaining, begun, failed, expected>>
  BY Zenon DEF SkipWholeJob, job_vars
<1>5. AllOf(queue) = ToSet(Head(queue)) \cup AllOf(queue')
  BY <1>1, <1>3, TailJobs
<1>6. ToSet(Head(queue)) = {}
  <2> SUFFICES ASSUME NEW t \in ToSet(Head(queue)) PROVE FALSE
    OBVIOUS
  <2>1. expected[t] = "skipped"
    BY <1>3 DEF ToSet
  <2>2. expected[t] = "passed"
    BY <1>5 DEF GroupOK, PlayingOK, Playing, NeverPassed
  <2> QED
    BY <2>1, <2>2
<1>7. results' = results
  <2>1. results' \in Results /\ \A t \in Test : results'[t] = results[t]
    BY <1>1, <1>2, <1>3, <1>6, ReportFacts DEF SkipWholeJobWith
  <2> QED
    BY <1>1, <2>1 DEF Results
<1>8. SetsOf(queue') \subseteq SetsOf(queue)
  BY <1>1, <1>3, TailSets
<1>9. Playing' = Playing /\ AllOf(queue') = AllOf(queue) /\ Group' = Group
  BY <1>4, <1>5, <1>6 DEF Playing, Group
<1>10. \A t : NeverPassed(t)' = NeverPassed(t) /\ HasFailed(t)' = HasFailed(t) /\ Fresh(t)' = Fresh(t)
  BY <1>4, <1>7 DEF NeverPassed, HasFailed, Fresh
<1>11. JobsInGroup' /\ PlayingOK' /\ OverOK'
  BY <1>4, <1>9, <1>10 DEF GroupOK, JobsInGroup, PlayingOK, OverOK
<1>12. NoneLost'
  BY <1>4, <1>7, <1>9, <1>10, NoneLostStays DEF GroupOK
<1>13. LevelOK'
  BY <1>4, <1>7, <1>8 DEF GroupOK, LevelOK, Level, Due, Runs
<1> QED
  BY <1>11, <1>12, <1>13 DEF GroupOK

(* The tests that wait are not those of the job.                             *)
LEMMA LevelStays ==
  ASSUME TypeOK, JobsOK, LevelOK, NEW t \in ToSet(job), UNCHANGED <<queue, job>>,
         \A u \in Test : u # t => results'[u] = results[u],
         \A u \in Test : Due(u, remaining)' = Due(u, remaining)
  PROVE  LevelOK'
<1>1. \A Q \in SetsOf(queue) : \A u \in Q : u \in Test /\ u # t
  <2>1. \A Q \in SetsOf(queue) : Q \subseteq AllOf(queue) /\ Q \subseteq Test
    BY DEF SetsOf, AllOf, TypeOK, ToSet
  <2> QED
    BY <2>1 DEF JobsOK
<1>2. ToSet(job) \subseteq Test
  BY DEF TypeOK, ToSet
<1>3. SetsOf(queue') = SetsOf(queue)
  BY DEF SetsOf
<1>4. \A Q \in SetsOf(queue') : \A s, u \in Q : Len(results'[s]) = Len(results'[u])
  BY <1>1, <1>3 DEF LevelOK
<1>5. \A s, u \in ToSet(job') : Due(s, remaining)' = Due(u, remaining)'
  BY <1>2 DEF LevelOK, Level
<1> QED
  BY <1>4, <1>5 DEF LevelOK, Level

LEMMA OnTestBeginGroup ==
  ASSUME Inv, ExactOK, OrderOK, GroupOK, setting' = setting, OnTestBegin
  PROVE  GroupOK'
<1> DEFINE t == wire[1].test
<1>1. /\ phase = "running" /\ t \in remaining /\ t \in Test
      /\ UNCHANGED <<queue, phase, job, remaining, failed, expected>>
  BY TestBegins
<1>2. \A u \in Test : u # t => results'[u] = results[u]
  BY TestBegins
<1>3. /\ DOMAIN results[t] \subseteq DOMAIN results'[t]
      /\ \A i \in DOMAIN results[t] : results'[t][i] = results[t][i]
      /\ \A i \in DOMAIN results'[t] : i \in DOMAIN results[t] \/ results'[t][i] = "started"
  BY TestBegins
<1>4. \A u \in Test : Runs(u)' = Runs(u)
  BY TestBegins
<1>5. TypeOK /\ remaining \subseteq ToSet(job) /\ JobsOK
  BY DEF Inv, TypeOK, ExactOK
<1> HIDE DEF t
<1>6. Playing' = Playing /\ Group' = Group /\ t \in Playing
  BY <1>1 DEF Playing, Group
<1>7. \A u \in Test : /\ NeverPassed(u) => NeverPassed(u)'
                      /\ HasFailed(u) => HasFailed(u)'
                      /\ Fresh(u)' => Fresh(u)
  <2> TAKE u \in Test
  <2>1. CASE u # t
    BY <1>1, <1>2, <2>1 DEF NeverPassed, HasFailed, Fresh
  <2>2. CASE u = t
    BY <1>1, <1>3, <2>2 DEF NeverPassed, HasFailed, Fresh
  <2> QED
    BY <2>1, <2>2
<1>8. Group \subseteq Test /\ failed \subseteq Test /\ Playing \subseteq Test
  <2>1. AllOf(queue) \subseteq Test
    BY <1>5 DEF TypeOK, AllOf, ToSet
  <2>2. Group \subseteq Test
    BY <1>5, SettingAssumption DEF TypeOK, Group
  <2> QED
    BY <1>5, <2>1, <2>2 DEF TypeOK, Playing, ToSet
<1>9. JobsInGroup' /\ PlayingOK' /\ OverOK'
  BY <1>1, <1>6, <1>7, <1>8 DEF GroupOK, JobsInGroup, PlayingOK, OverOK
<1>10. NoneLost'
  BY <1>1, <1>2, <1>6, <1>7, <1>8, NoneLostStays DEF GroupOK
<1>11. LevelOK'
  <2>1. \A u \in Test : Due(u, remaining)' = Due(u, remaining)
    BY <1>1, <1>4 DEF Due
  <2> QED
    BY <1>1, <1>2, <1>5, <2>1, LevelStays DEF GroupOK
<1> QED
  BY <1>9, <1>10, <1>11 DEF GroupOK

(* A test that passed or skipped itself runs no more, one that failed may.   *)
LEMMA OnTestEndGroup ==
  ASSUME Inv, ExactOK, BeginsOK, PlainStream, GroupOK, setting' = setting, ~stopped, OnTestEnd
  PROVE  GroupOK'
<1> DEFINE m == wire[1]
           t == m.test
           n == Len(results[t])
<1>1. /\ phase = "running" /\ wire # <<>> /\ m.method = "testEnd" /\ m \in Message /\ t \in Test
      /\ begun = {t} /\ t \in remaining /\ remaining' = remaining \ {t}
      /\ expected' = EndOf(m).expected
      /\ failed' = IF ReportedStatus(m) \notin {"skipped", m.expected} THEN failed \cup {t} ELSE failed
      /\ UNCHANGED <<queue, phase, job>>
  BY OnTestEndFacts DEF BeginsOK
<1>2. TypeOK /\ remaining \subseteq ToSet(job) /\ JobsOK /\ MaxStops /\ FailedOK /\ wire \in Seq(Message)
  BY DEF Inv, TypeOK, ExactOK
<1>3. ReportedStatus(m) = m.status
  BY <1>2 DEF MaxStops, ReportedStatus
<1>4. /\ \A u \in Test : u # t => results'[u] = results[u]
      /\ n \in Nat /\ n > 0 /\ DOMAIN results[t] = 1..n /\ DOMAIN results'[t] = 1..n
      /\ results'[t][n] = m.status
      /\ \A i \in DOMAIN results[t] : i # n => results'[t][i] = results[t][i]
      /\ \A u \in Test : Due(u, remaining)' = Due(u, remaining)
  BY <1>1, <1>3, TestEnds
<1>5. expected' = [expected EXCEPT ![t] = m.expected]
  BY <1>1, <1>2, EndOfFacts
<1>6. expected'[t] = m.expected /\ \A u \in Test : u # t => expected'[u] = expected[u]
  BY <1>1, <1>2, <1>5 DEF TypeOK
<1>7. Tells(m.status, m.expected)
  BY <1>1, <1>2, PlainHandled DEF PlainStream
<1>8. t \notin AllOf(queue) /\ t \notin failed
  BY <1>1, <1>2 DEF JobsOK, FailedOK
<1>9. Group \subseteq Test /\ failed \subseteq Test /\ Playing \subseteq Test /\ Group' = Group
  <2>1. AllOf(queue) \subseteq Test
    BY <1>2 DEF TypeOK, AllOf, ToSet
  <2>2. Group \subseteq Test
    BY <1>2, SettingAssumption DEF TypeOK, Group
  <2> QED
    BY <1>2, <2>1, <2>2 DEF TypeOK, Playing, ToSet, Group
<1>10. t \in Playing /\ NeverPassed(t)
  BY <1>1 DEF GroupOK, PlayingOK, Playing
<1> HIDE DEF m, t, n
<1>11. \A u \in Test : u # t => /\ NeverPassed(u)' = NeverPassed(u)
                                /\ HasFailed(u)' = HasFailed(u)
                                /\ Fresh(u)' = Fresh(u)
  BY <1>4, <1>6 DEF NeverPassed, HasFailed, Fresh
<1>12. n \in DOMAIN results'[t]
  BY <1>4
<1>13. \A u \in Test : u = t => ~Fresh(u)'
  BY <1>4, <1>6, <1>7, <1>12 DEF Tells, Fresh, Ran
<1>14. Playing' \subseteq Playing /\ (t \in Playing' => m.status = "failed" /\ m.expected = "passed")
  <2>1. (m.status \in {"passed", "failed"} /\ m.expected = "passed") \/ m.status = "skipped"
    BY <1>7 DEF Tells
  <2>2. failed' = IF m.status \notin {"skipped", m.expected} THEN failed \cup {t} ELSE failed
    BY <1>1, <1>3
  <2> QED
    BY <1>1, <1>8, <1>10, <2>1, <2>2 DEF Playing
<1>15. ASSUME m.status = "failed", m.expected = "passed", NEW u, u = t PROVE NeverPassed(u)' /\ HasFailed(u)'
  <2>1. \A i \in DOMAIN results'[t] : results'[t][i] # "passed"
    BY <1>4, <1>10, <1>15 DEF NeverPassed
  <2> QED
    BY <1>4, <1>6, <1>12, <1>15, <2>1 DEF NeverPassed, HasFailed
<1>16. PlayingOK'
  <2>1. \A u \in Playing' : NeverPassed(u)'
    BY <1>9, <1>11, <1>14, <1>15 DEF GroupOK, PlayingOK
  <2>2. failed' \subseteq failed \cup {t} /\ failed' \subseteq Playing'
    BY <1>1 DEF Playing
  <2>3. \A u \in failed' : HasFailed(u)'
    BY <1>9, <1>11, <1>14, <1>15, <2>2 DEF GroupOK, PlayingOK
  <2> QED
    BY <2>1, <2>3 DEF PlayingOK
<1>17. JobsInGroup' /\ OverOK'
  BY <1>1, <1>9 DEF GroupOK, JobsInGroup, OverOK
<1>18. NoneLost'
  <2>1. \A z \in Group \ Playing : results'[z] = results[z] /\ expected'[z] = expected[z]
    BY <1>4, <1>6, <1>9, <1>10
  <2>2. \A u \in Group : Fresh(u)' => u # t /\ Fresh(u)
    BY <1>9, <1>11, <1>13
  <2> QED
    BY <1>1, <1>14, <2>1, <2>2, NoneLostStays DEF GroupOK
<1>19. LevelOK'
  BY <1>1, <1>2, <1>4, LevelStays DEF GroupOK
<1> QED
  BY <1>16, <1>17, <1>18, <1>19 DEF GroupOK

(* What a job leaves behind: all its tests that are not in the queue again   *)
(* are done with, and if one of them was skipped for another, that one has   *)
(* failed as often as it may.                                                *)
LEMMA OnDoneLeaves ==
  ASSUME Inv, SnapshotsOK, ExactOK, PlainStream, Plain, GroupOK, setting' = setting, OnDone, ~stopped',
         SettlesTo(wire[1].payload)
  PROVE  LET l == Settled(wire[1].payload)
             again == {t \in l.failed : Len(results'[t]) < Retries[t] + 1}
         IN  /\ Advances(Ledger, l) /\ results' = l.results /\ expected' = expected
             /\ ~ReachedMaxFailures(l.count) /\ begun \cap l.remaining = {}
             /\ l.remaining \subseteq remaining /\ l.failed \subseteq ToSet(job) /\ l.failed \cap l.remaining = {}
             /\ l.failed = failed \cup (remaining \ l.remaining)
             /\ AllOf(queue') = AllOf(queue) \cup l.remaining \cup again
             /\ SetsOf(queue') \subseteq SetsOf(queue) \cup {l.remaining, again}
             /\ remaining # l.remaining => Blamed(l)
<1> DEFINE p == wire[1].payload
           l == Settled(p)
           a == AfterSuites(p)
           r == Retried(p)
           again == {t \in l.failed : Len(results'[t]) < Retries[t] + 1}
<1>1. /\ phase = "running" /\ wire # <<>> /\ wire[1].method \in {"done", "exit"} /\ p \in Payload
      /\ results' = a.results /\ UNCHANGED expected /\ queue' = Requeued(a, Again(p))
  BY OnDoneFacts DEF SettlesTo
<1>2. /\ TypeOK /\ WireHead /\ ExitsOK /\ setting \in Setting /\ remaining \subseteq ToSet(job) /\ wire \in Seq(Message)
      /\ 1 \in DOMAIN wire /\ failedCount \in Nat
  BY <1>1 DEF Inv, TypeOK, WireOK
<1>3. LedgerOK(Ledger) /\ LedgerExact(Ledger) /\ IsInjective(job)
  BY <1>1, LedgerIsOK, LedgerIsExact
<1>4. Ledger.remaining = remaining /\ Ledger.failed = failed /\ Ledger.results = results
  BY DEF Ledger
<1>5. Advances(Ledger, l) /\ Advances(l, a)
  BY <1>1, OnDoneAdvances
<1>6. /\ LedgerOK(l) /\ a.remaining = l.remaining \ UNION SerialSuitesWithFailures(l)
      /\ r \in SUBSET Test
  BY <1>1, AfterSuitesFacts
<1>7. ~ReachedMaxFailures(a.count) /\ begun \cap a.remaining = {}
  BY NoneInTheMiddle
<1>8. ~MayComeApart /\ nonRetriable = {}
  BY DEF Plain, MayComeApart, SnapshotsOK
<1>9. AllOf(queue') = AllOf(queue) \cup a.remaining \cup r
  BY <1>1, <1>8, RequeuedFacts
<1>10. Again(p) \in Seq(Test) /\ ToSet(Again(p)) = r
  BY <1>2, <1>6, AgainFacts
<1>11. r = {t \in (l.failed \ nonRetriable) \cup UNION SerialSuitesWithFailures(l) : Len(a.results[t]) < Retries[t] + 1}
  BY DEF Retried, RetryCandidates, HasRetriesLeft
<1>12. SerialSuitesWithFailures(l) \subseteq {suite \in SerialSuite : suite \cap l.failed # {}}
  BY DEF SerialSuitesWithFailures
<1> HIDE DEF p, l, a, r
<1>13. l.failed \subseteq ToSet(job) /\ l.failed \cap l.remaining = {} /\ l.remaining \subseteq remaining
  BY <1>6 DEF LedgerOK
<1>14. SerialSuitesWithFailures(l) = {}
  <2>1. l.failed \subseteq Group
    BY <1>13 DEF GroupOK, JobsInGroup
  <2> QED
    BY <1>12, <2>1 DEF Plain, NoSerialSuite
<1>15. a.remaining = l.remaining /\ a.results = l.results
  <2>1. a.remaining = l.remaining
    BY <1>6, <1>14
  <2>2. a.results \in Results /\ l.results \in Results /\ \A t \in Test : a.results[t] = l.results[t]
    BY <1>5, <2>1 DEF Advances, Ledgers
  <2> QED
    BY <2>1, <2>2 DEF Results
<1>16. r = again
  BY <1>1, <1>8, <1>11, <1>14, <1>15
<1>17. ~ReachedMaxFailures(l.count)
  <2>1. l.count \in Nat /\ a.count \in Nat /\ l.count <= a.count
    BY <1>5 DEF Advances, Ledgers
  <2> QED
    BY <1>2, <1>7, <2>1, ReachedStays
<1>18. l.failed = failed \cup (remaining \ l.remaining)
  BY <1>4, <1>5, <1>17 DEF Advances
<1>19. SetsOf(queue') \subseteq SetsOf(queue) \cup {l.remaining, again}
  <2>1. a.remaining \subseteq ToSet(job) /\ Isolated
    BY <1>2, <1>13, <1>15 DEF Plain
  <2> QED
    BY <1>1, <1>2, <1>10, <1>15, <1>16, <2>1, RequeuedSets
<1>20. ASSUME remaining # l.remaining PROVE Blamed(l)
  <2>1. p.unknown # {} => begun = {}
    BY <1>1, <1>2 DEF WireHead, ExitsOK, p
  <2>2. p.skip # {} => Blamed(Ledger)
    <3> SUFFICES ASSUME p.skip # {} PROVE Blamed(Ledger)
      OBVIOUS
    <3>1. Skips(wire[1])
      BY <1>1 DEF Skips, p
    <3>2. failed # {}
      BY <1>1, <1>2, <3>1, PlainHandled DEF PlainStream
    <3> QED
      BY <1>4, <3>2 DEF GroupOK, PlayingOK, HasFailed, Blamed, FailedIn
  <2> QED
    BY <1>1, <1>2, <1>3, <1>17, <1>20, <2>1, <2>2, SettledBlames DEF l
<1> QED
  BY <1>1, <1>5, <1>7, <1>9, <1>13, <1>15, <1>16, <1>17, <1>18, <1>19, <1>20 DEF l, p

LEMMA OnDoneGroup ==
  ASSUME Inv, SnapshotsOK, ExactOK, PlainStream, Plain, GroupOK, setting' = setting, OnDone, ~stopped'
  PROVE  GroupOK'
<1> DEFINE p == wire[1].payload
           l == Settled(p)
           again == {t \in l.failed : Len(results'[t]) < Retries[t] + 1}
<1>1. /\ phase = "running"
      /\ \/ NothingWentWrong(p) /\ UNCHANGED <<queue, report_vars, stopped>>
         \/ SettlesTo(p)
      /\ JobOver
  BY OnDoneFacts
<1>2. job' = <<>> /\ remaining' = {} /\ begun' = {} /\ failed' = {} /\ (phase' = "over" => queue' = <<>>)
  BY <1>1 DEF JobOver
<1>3. ToSet(job') = {} /\ Group' = Group
  BY <1>2 DEF ToSet, Group
<1>4. Level(ToSet(job), remaining)'
  BY <1>3 DEF Level
<1>5. \A Q \in SetsOf(queue) : \A s, t \in Q : Len(results[s]) = Len(results[t])
  BY DEF GroupOK, LevelOK
<1>6. CASE NothingWentWrong(p) /\ UNCHANGED <<queue, report_vars, stopped>>
  <2>1. remaining = {} /\ failed = {} /\ UNCHANGED <<queue, results, expected>>
    BY <1>6 DEF NothingWentWrong, report_vars
  <2>2. Playing' = Playing
    BY <1>2, <2>1 DEF Playing
  <2>3. \A t : NeverPassed(t)' = NeverPassed(t) /\ Fresh(t)' = Fresh(t)
    BY <2>1 DEF NeverPassed, Fresh
  <2>4. JobsInGroup' /\ PlayingOK' /\ OverOK'
    BY <1>2, <1>3, <2>1, <2>2, <2>3 DEF GroupOK, JobsInGroup, PlayingOK, OverOK
  <2>5. NoneLost'
    BY <1>2, <2>1, <2>2, <2>3, NoneLostStays DEF GroupOK
  <2>6. LevelOK'
    BY <1>4, <1>5, <2>1 DEF LevelOK, SetsOf
  <2> QED
    BY <2>4, <2>5, <2>6 DEF GroupOK
<1>7. CASE SettlesTo(p)
  <2>1. /\ Advances(Ledger, l) /\ results' = l.results /\ expected' = expected
        /\ ~ReachedMaxFailures(l.count) /\ begun \cap l.remaining = {}
        /\ l.remaining \subseteq remaining /\ l.failed \subseteq ToSet(job) /\ l.failed \cap l.remaining = {}
        /\ l.failed = failed \cup (remaining \ l.remaining)
        /\ AllOf(queue') = AllOf(queue) \cup l.remaining \cup again
        /\ SetsOf(queue') \subseteq SetsOf(queue) \cup {l.remaining, again}
        /\ remaining # l.remaining => Blamed(l)
    BY <1>7, OnDoneLeaves
  <2>2. TypeOK /\ remaining \subseteq ToSet(job) /\ ToSet(job) \subseteq Test /\ ToSet(job) \subseteq Group /\ JobsOK
    BY DEF Inv, TypeOK, ToSet, ExactOK, GroupOK, JobsInGroup
  <2>3. Group \subseteq Test /\ AllOf(queue) \subseteq Group /\ Playing \subseteq Group
    <3>1. Group \subseteq Test
      BY <2>2, SettingAssumption DEF TypeOK, Group
    <3> QED
      BY <2>2, <3>1 DEF GroupOK, JobsInGroup, Playing, Inv, FailedOK
  <2>4. \A t \in Test :
          /\ \A i \in DOMAIN results'[t] : results'[t][i] = "passed" => i \in DOMAIN results[t] /\ results[t][i] = "passed"
          /\ \A i \in DOMAIN results[t] :
               results[t][i] # "started" => i \in DOMAIN results'[t] /\ results'[t][i] = results[t][i]
          /\ t \notin l.remaining => Len(results'[t]) = Due(t, remaining)
    BY <1>1, <2>1, AdvancesMeans DEF ExactOK
  <2>5. \A t \in Test : t \notin remaining \/ t \in l.remaining => results'[t] = results[t]
    BY <2>1 DEF Advances, Ledger
  <2> HIDE DEF p, l, again
  <2>6. again \subseteq l.failed
    BY DEF again
  <2>7. Playing' = AllOf(queue) \cup l.remaining \cup again
    BY <1>2, <2>1 DEF Playing
  <2>8. Playing' \subseteq Playing
    BY <2>1, <2>6, <2>7 DEF Playing
  <2>9. JobsInGroup' /\ OverOK'
    BY <1>2, <1>3, <2>1, <2>2, <2>3, <2>6 DEF JobsInGroup, OverOK
  <2>10. ASSUME NEW t \in Playing, NeverPassed(t) PROVE NeverPassed(t)'
    BY <2>1, <2>3, <2>4, <2>10 DEF NeverPassed
  <2>11. PlayingOK'
    BY <1>2, <2>8, <2>10 DEF GroupOK, PlayingOK
  <2>12. \A s, t \in ToSet(job) : Due(s, remaining) = Due(t, remaining)
    BY DEF GroupOK, LevelOK, Level
  <2>13. \A t \in l.failed : t \in Test /\ Len(results'[t]) = Due(t, remaining)
    BY <2>1, <2>2, <2>4
  <2>14. LevelOK'
    <3>1. ASSUME NEW Q \in SetsOf(queue), NEW s \in Q, NEW t \in Q PROVE Len(results'[s]) = Len(results'[t])
      <4>1. s \in AllOf(queue) /\ t \in AllOf(queue)
        BY <3>1 DEF SetsOf, AllOf
      <4>2. s \notin remaining /\ t \notin remaining /\ s \in Test /\ t \in Test
        BY <2>2, <2>3, <4>1 DEF JobsOK
      <4> QED
        BY <1>5, <2>5, <3>1, <4>2
    <3>2. ASSUME NEW s \in l.remaining, NEW t \in l.remaining PROVE Len(results'[s]) = Len(results'[t])
      <4>1. \A u \in {s, t} : Due(u, remaining) = Len(results[u]) - 0 + 1 /\ u \in Test
        BY <2>1, <2>2, <3>2 DEF Due, Runs
      <4>2. Len(results[s]) \in Nat /\ Len(results[t]) \in Nat
        BY <2>2, <4>1 DEF TypeOK
      <4>3. Due(s, remaining) = Due(t, remaining)
        BY <2>1, <2>2, <2>12, <3>2
      <4>4. Len(results[s]) = Len(results[t])
        BY <4>1, <4>2, <4>3
      <4> QED
        BY <2>5, <3>2, <4>1, <4>4
    <3>3. \A s, t \in again : Len(results'[s]) = Len(results'[t])
      BY <2>1, <2>6, <2>12, <2>13
    <3>4. \A Q \in SetsOf(queue') : \A s, t \in Q : Len(results'[s]) = Len(results'[t])
      BY <2>1, <3>1, <3>2, <3>3
    <3>5. SetsOf(queue)' = SetsOf(queue')
      BY DEF SetsOf
    <3> QED
      BY <1>4, <3>4, <3>5 DEF LevelOK
  <2>15. \A t \in Group : Fresh(t)' => Fresh(t)
    BY <2>1, <2>3, <2>4 DEF Fresh, Ran
  <2>16. NoneLost'
    <3>1. CASE Doomed
      <4>1. PICK z \in Group \ Playing : NeverPassed(z) /\ HasFailed(z)
        BY <3>1 DEF Doomed
      <4>2. z \notin remaining /\ z \in Test /\ z \in Group' \ Playing'
        BY <1>3, <2>3, <2>8, <4>1 DEF Playing
      <4>3. NeverPassed(z)' /\ HasFailed(z)'
        BY <2>1, <2>5, <4>1, <4>2 DEF NeverPassed, HasFailed
      <4> QED
        BY <4>2, <4>3 DEF NoneLost, Doomed
    <3>2. CASE \A t \in Group : Fresh(t)' => t \in AllOf(queue')
      BY <1>3, <3>2 DEF NoneLost
    <3>3. ASSUME ~Doomed, NEW t \in Group, Fresh(t)', t \notin AllOf(queue') PROVE NoneLost'
      <4>1. t \in remaining \ l.remaining /\ t \in l.failed \ again
        BY <2>1, <2>15, <3>3 DEF GroupOK, NoneLost
      <4>2. PICK z \in l.failed : FailedIn(l, z)
        BY <2>1, <4>1 DEF Blamed
      <4>3. z \in Test /\ z \in Group /\ t \in Test
        BY <2>1, <2>2, <2>3, <4>2
      <4>4. Len(results'[z]) = Len(results'[t]) /\ Retries[z] = Retries[t]
        BY <2>1, <2>12, <2>13, <4>1, <4>2, <4>3 DEF Plain
      <4>5. z \notin again
        BY <4>1, <4>2, <4>4 DEF again
      <4>6. z \notin Playing'
        BY <2>1, <2>2, <2>7, <4>2, <4>5 DEF JobsOK
      <4>7. NeverPassed(z)'
        <5>1. z \in Playing
          BY <2>1, <4>2 DEF Playing
        <5> QED
          BY <2>10, <5>1 DEF GroupOK, PlayingOK
      <4>8. HasFailed(z)'
        BY <2>1, <4>2 DEF HasFailed, FailedIn
      <4> QED
        BY <1>3, <4>3, <4>6, <4>7, <4>8 DEF NoneLost, Doomed
    <3> QED
      BY <3>1, <3>2, <3>3
  <2> QED
    BY <2>9, <2>11, <2>14, <2>16 DEF GroupOK
<1> QED
  BY <1>1, <1>6, <1>7

LEMMA StoppedStays ==
  ASSUME Inv, stopped, [Next]_vars
  PROVE  stopped'
<1>1. CASE UNCHANGED stopped
  BY <1>1
<1>2. CASE SkipWholeJob \/ RunInWorker \/ WorkerDoesNotStart
  BY <1>2, Zenon DEF SkipWholeJob, RunInWorker, WorkerDoesNotStart, StartJob
<1>3. CASE OnTestBegin \/ OnTestEnd \/ OnDone
  BY <1>3, Zenon DEF OnTestBegin, OnTestEnd, OnDone, StopsRun
<1>4. CASE RunIsOver \/ FailElsewhere \/ StopRun
  BY <1>4, Zenon DEF RunIsOver, FailElsewhere, StopRun, StopsRun
<1>5. LoadFile \/ FinishTest => UNCHANGED runner_vars
  BY Zenon DEF LoadFile, FinishTest, runner_vars
<1>6. PassOverTest \/ BeginTest \/ EndTest \/ FinishGroup => UNCHANGED runner_vars
  BY SendingFacts, DoneFacts
<1>7. FailToLoadFile \/ MissTests \/ ThrowInTest \/ ThrowBetweenTests \/ ReceiveStop \/ Crash \/ Kill => UNCHANGED runner_vars
  BY DEF FailToLoadFile, MissTests, ThrowInTest, ThrowBetweenTests, ReceiveStop, Crash, Kill, ProcessExits
<1>8. FailTest \/ FailForGood \/ SkipItself \/ FailHook => UNCHANGED runner_vars
  BY TestStepFacts
<1>9. UNCHANGED runner_vars \/ UNCHANGED vars => UNCHANGED stopped
  BY DEF runner_vars, vars
<1> QED
  BY <1>1, <1>2, <1>3, <1>4, <1>5, <1>6, <1>7, <1>8, <1>9
     DEF Next, RunnerStarts, RunnerHandles, WorkerGoesOn, Fault, Terminated

LEMMA GroupStep ==
  ASSUME Inv, SnapshotsOK, ExactOK, OrderOK, BeginsOK, PlainStream, Plain, ~stopped, ~stopped', GroupOK, [Next]_vars
  PROVE  GroupOK'
<1>1. setting' = setting
  BY SettingStays
<1>2. CASE UNCHANGED <<queue, phase, job_vars, report_vars>>
  BY <1>1, <1>2, QuietGroup DEF job_vars, report_vars, GroupOK, OverOK
<1>3. CASE RunnerStarts
  <2>1. CASE SkipWholeJob
    BY <1>1, <2>1, SkipWholeJobGroup
  <2>2. CASE RunInWorker
    BY <1>1, <2>2, StartJobGroup DEF RunInWorker
  <2>3. CASE RunIsOver
    BY <1>1, <2>3, QuietGroup DEF RunIsOver, job_vars, report_vars, OverOK
  <2> QED
    BY <1>3, <2>1, <2>2, <2>3 DEF RunnerStarts
<1>4. CASE RunnerHandles
  BY <1>1, <1>4, OnTestBeginGroup, OnTestEndGroup, OnDoneGroup DEF RunnerHandles
<1>5. CASE WorkerGoesOn
  <2>1. LoadFile \/ FinishTest => UNCHANGED runner_vars
    BY Zenon DEF LoadFile, FinishTest, runner_vars
  <2>2. PassOverTest \/ BeginTest \/ EndTest \/ FinishGroup => UNCHANGED runner_vars
    BY SendingFacts, DoneFacts
  <2> QED
    BY <1>2, <1>5, <2>1, <2>2 DEF WorkerGoesOn, runner_vars
<1>6. CASE Fault
  <2>1. CASE WorkerDoesNotStart
    BY <1>1, <2>1, StartJobGroup DEF WorkerDoesNotStart
  <2>2. CASE FailElsewhere
    BY <1>1, <2>2, QuietGroup DEF FailElsewhere, job_vars, GroupOK, OverOK
  <2>3. CASE StopRun
    BY <1>2, <2>3 DEF StopRun
  <2>4. FailToLoadFile \/ MissTests \/ ThrowInTest \/ ThrowBetweenTests \/ ReceiveStop \/ Crash \/ Kill => UNCHANGED runner_vars
    BY DEF FailToLoadFile, MissTests, ThrowInTest, ThrowBetweenTests, ReceiveStop, Crash, Kill, ProcessExits
  <2>5. FailTest \/ FailForGood \/ SkipItself \/ FailHook => UNCHANGED runner_vars
    BY TestStepFacts
  <2> QED
    BY <1>2, <1>6, <2>1, <2>2, <2>3, <2>4, <2>5 DEF Fault, runner_vars
<1> QED
  BY <1>2, <1>3, <1>4, <1>5, <1>6 DEF Next, Terminated, vars

(* When such a run is over, a test that was forgotten leaves another that is *)
(* unexpected: it failed, did not pass, and runs no more.                    *)
LEMMA GroupMeans ==
  ASSUME Inv, GroupOK
  PROVE  PassedMeansRan
<1> SUFFICES ASSUME phase = "over", RunPassed, NEW t \in Group, Fresh(t)
             PROVE  FALSE
  BY DEF PassedMeansRan, Fresh
<1>1. queue = <<>> /\ remaining = {} /\ failed = {}
  BY DEF GroupOK, OverOK, Inv, WireOK, IdleOK
<1>2. AllOf(queue) \cup remaining = {}
  BY <1>1 DEF AllOf
<1>3. PICK z \in Group : NeverPassed(z) /\ HasFailed(z)
  BY <1>2 DEF GroupOK, NoneLost, Doomed
<1>4. z \in Test
  BY SettingAssumption DEF Inv, TypeOK, Group
<1> DEFINE counted == {StatusOf(results[z][i]) : i \in DOMAIN results[z]} \ {"interrupted"}
<1>5. "failed" \in counted /\ "passed" \notin counted
  BY <1>3 DEF NeverPassed, HasFailed, StatusOf
<1> HIDE DEF counted
<1>6. OutcomeOf(z) = "unexpected"
  <2>1. OutcomeOf(z) = LET asExpected == counted \cap {"passed"}
                           unexpected == counted \ {"passed", "skipped"}
                       IN  IF unexpected = {}
                           THEN IF asExpected \subseteq {"skipped"} THEN "skipped" ELSE "expected"
                           ELSE IF asExpected = {} THEN "unexpected" ELSE "flaky"
    BY <1>3 DEF OutcomeOf, Outcome, NeverPassed, counted
  <2> QED
    BY <1>5, <2>1
<1> QED
  BY <1>4, <1>6 DEF RunPassed

PInv == SInv /\ BeginsOK /\ (Plain /\ ~stopped => PlainStream /\ GroupOK)

LEMMA PInvHolds == Spec => []PInv
<1>1. Init => BeginsOK /\ (Plain => PlainStream /\ GroupOK)
  <2> SUFFICES ASSUME Init PROVE BeginsOK /\ (Plain => PlainStream /\ GroupOK)
    OBVIOUS
  <2>1. wire = <<>> /\ DOMAIN wire = {} /\ worker.phase = "none"
    BY NoWorkerFacts DEF Init
  <2>2. BeginsOK /\ PlainStream
    BY <2>1 DEF BeginsOK, InTest, PlainStream, WorkerPlain, AllTell, SkipsAfterBad
  <2> QED
    BY <2>2, InitGroup
<1>2. Spec => []SInv
  BY SInvHolds
<1>3. SInv /\ SInv' /\ PInv /\ [Next]_vars => PInv'
  <2> SUFFICES ASSUME SInv, SInv', PInv, [Next]_vars PROVE PInv'
    OBVIOUS
  <2>1. Inv /\ SnapshotsOK /\ (MayComeApart \/ ExactOK) /\ OrderOK /\ StreamOK /\ BeginsOK
    BY DEF IInv, SInv, PInv
  <2>2. BeginsOK'
    BY <2>1, BeginsStep
  <2>3. Plain' = Plain
    BY SettingStays DEF Plain, Isolated, Faults, Group, Expected, NoSerialSuite
  <2>4. ASSUME Plain, ~stopped' PROVE PlainStream' /\ GroupOK'
    <3>1. ~stopped
      BY <2>1, <2>4, StoppedStays
    <3>2. PlainStream /\ GroupOK /\ JobsInGroup
      BY <2>4, <3>1 DEF PInv, GroupOK
    <3>3. ExactOK
      BY <2>1, <2>4 DEF Plain, MayComeApart
    <3> QED
      BY <2>1, <2>4, <3>1, <3>2, <3>3, PlainStep, GroupStep
  <2> QED
    BY <2>2, <2>3, <2>4 DEF PInv
<1>4. Init /\ SInv => PInv
  BY <1>1 DEF PInv
<1> QED
  BY <1>2, <1>3, <1>4, PTL DEF Spec

(* _onDone, jobs and workers of a group without serial suites: with isolated *)
(* retries, a run that was not stopped and passed has run every test that is *)
(* not expected to be skipped.  A test that runs again has not passed yet;   *)
(* those that wait together have had equally many runs; and a test is only   *)
(* skipped for good when another one failed as often and is not retried      *)
(* either, so that the run does not pass.                                    *)
THEOREM PassedRunsRanAll == Spec => [](NoSerialSuite => PassedMeansRanIfIsolated)
<1>1. PInv => (NoSerialSuite => PassedMeansRanIfIsolated)
  <2> SUFFICES ASSUME PInv, NoSerialSuite, Isolated, Faults \cap {"stray", "snapshot"} = {},
                      \A s, t \in Group : Retries[s] = Retries[t] /\ Expected[t] = "passed"
               PROVE  PassedMeansRan
    BY DEF PassedMeansRanIfIsolated
  <2>1. Plain /\ Inv
    BY DEF Plain, PInv, SInv, IInv
  <2>2. CASE stopped
    BY <2>2 DEF PassedMeansRan
  <2>3. CASE ~stopped
    BY <2>1, <2>3, GroupMeans DEF PInv
  <2> QED
    BY <2>2, <2>3
<1> QED
  BY <1>1, PInvHolds, PTL

=============================================================================
