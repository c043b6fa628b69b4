---------------------------- MODULE RoutesProofs ----------------------------
(***************************************************************************)
(* Proofs about Routes, for any handlers, requests and times: the contract   *)
(* that a user's handlers rely on, and that client and server agree about   *)
(* what is routed.                                                         *)
(***************************************************************************)
EXTENDS Routes, SequenceTheorems, WellFoundedInduction, TLAPS

USE NoneAssumption

(* The handlers of a list are there once, are of its scope, and are for more *)
(* requests than they got so far.                                           *)
ListsOK ==
  /\ \A s \in Scope :
       /\ HandlersIn(routes[s]) \subseteq {h \in routed : ScopeOf[h] = s}
       /\ \A i, j \in DOMAIN routes[s] : routes[s][i] = routes[s][j] => i = j
       /\ \A h \in HandlersIn(routes[s]) : handledCount[h] < AtMost(h)
  /\ \A h \in Handler : handledCount[h] <= AtMost(h)
  /\ \A h \in Handler \ routed : handledCount[h] = 0

(* What unrouteAll("wait") removed is not in the list again, and it waits    *)
(* for every invocation whose call did not fail.                            *)
WaitsOK ==
  \A s \in Scope : waits[s] # None =>
    /\ waits[s].removed \subseteq {h \in routed : ScopeOf[h] = s}
    /\ waits[s].removed \cap HandlersIn(routes[s]) = {}
    /\ \A h \in waits[s].removed, r \in Request :
         Running(r, h) => chain[r].didThrow \/ <<h, r>> \in waits[s].on

(* A request that the client has heard of has a dispatcher, and one whose   *)
(* call was answered has gone on; only when the page is gone does a handler  *)
(* take a request for handled without an answer.                            *)
CallsOK ==
  /\ \A r \in Request :
       /\ chain[r].at # "new" => route[r].dispatcher # None
       /\ chain[r].promise = "handled" =>
            route[r].state \in {"continued", "settled"} \/ gone
       /\ route[r].answer = "ok" => route[r].state \in {"continued", "settled"}
  /\ \A i \in DOMAIN toServer : toServer[i].op # "patterns" =>
       route[toServer[i].request].dispatcher # None

(* The latest call about a scope names every handler of its list; when none  *)
(* is on its way, the server knows them, as long as the page is there.      *)
About(m, s) == m.op = "patterns" /\ m.scope = s

Agrees(calls, s, names, known) ==
  /\ \A i \in DOMAIN calls :
       About(calls[i], s) /\ (\A j \in DOMAIN calls : About(calls[j], s) => j <= i) =>
         names \subseteq calls[i].patterns
  /\ (\A i \in DOMAIN calls : ~About(calls[i], s)) => names \subseteq known

Known(s) ==
  IF s \in overlapped \/ gone THEN Handler
  ELSE IF removing[s] > 0 THEN {} ELSE matchers[s]

PatternsOK ==
  \A s \in Scope : Agrees(toServer, s, HandlersIn(routes[s]), Known(s))

(* The interceptor is installed when there are matchers and nothing is being *)
(* removed.  Patterns that came during a removal may leave it installed      *)
(* without matchers.                                                        *)
InstalledOK ==
  \A s \in Scope : removing[s] = 0 /\ matchers[s] # {} => interceptors[s] > 0

IInv == TypeOK /\ ListsOK /\ WaitsOK /\ CallsOK /\ PatternsOK /\ InstalledOK

-----------------------------------------------------------------------------
(***************************************************************************)
(* Lists of handlers.                                                      *)
(***************************************************************************)
LEMMA HandlersInType ==
  ASSUME NEW list \in Seq(Handler) PROVE HandlersIn(list) \in SUBSET Handler
BY DEF HandlersIn

LEMMA HandlersInEmpty == HandlersIn(<<>>) = {}
BY DEF HandlersIn

(* route() puts a handler in front.                                         *)
LEMMA InFront ==
  ASSUME NEW list \in Seq(Handler), NEW h \in Handler
  PROVE  /\ <<h>> \o list \in Seq(Handler)
         /\ HandlersIn(<<h>> \o list) = {h} \cup HandlersIn(list)
         /\ Len(<<h>> \o list) = Len(list) + 1
         /\ (<<h>> \o list)[1] = h
         /\ \A i \in 2 .. Len(list) + 1 : (<<h>> \o list)[i] = list[i - 1]
<1> DEFINE new == <<h>> \o list
<1>1. new \in Seq(Handler) /\ Len(new) = Len(list) + 1
  OBVIOUS
<1>2. new[1] = h /\ \A i \in 2 .. Len(list) + 1 : new[i] = list[i - 1]
  OBVIOUS
<1>3. DOMAIN new = 1 .. Len(list) + 1 /\ DOMAIN list = 1 .. Len(list)
  BY <1>1
<1>4. \A i \in DOMAIN list : i + 1 \in 2 .. Len(list) + 1 /\ new[i + 1] = list[i]
  BY <1>2, <1>3
<1> HIDE DEF new
<1>5. \A i \in DOMAIN list : i + 1 \in DOMAIN new /\ new[i + 1] = list[i]
  BY <1>3, <1>4
<1>6. HandlersIn(new) = {h} \cup HandlersIn(list)
  <2>1. \A i \in DOMAIN list : list[i] \in HandlersIn(new)
    BY <1>5 DEF HandlersIn
  <2>2. h \in HandlersIn(new)
    BY <1>2, <1>3 DEF HandlersIn
  <2>3. \A i \in DOMAIN new : i = 1 \/ (i - 1 \in DOMAIN list /\ new[i] = list[i - 1])
    BY <1>2, <1>3
  <2>4. \A i \in DOMAIN new : new[i] = h \/ new[i] \in HandlersIn(list)
    BY <1>2, <2>3 DEF HandlersIn
  <2> QED
    BY <2>1, <2>2, <2>4 DEF HandlersIn
<1> QED
  BY <1>1, <1>2, <1>6 DEF new

(* A removed handler is gone, and those that stay are there once.           *)
LEMMA Removed ==
  ASSUME NEW list \in Seq(Handler), NEW h,
         \A i, j \in DOMAIN list : list[i] = list[j] => i = j
  PROVE  LET new == Without(list, h)
         IN  /\ new \in Seq(Handler)
             /\ HandlersIn(new) \subseteq HandlersIn(list) \ {h}
             /\ \A i, j \in DOMAIN new : new[i] = new[j] => i = j
<1> DEFINE new == Without(list, h)
<1>1. CASE h \notin HandlersIn(list)
  BY <1>1 DEF Without
<1>2. CASE h \in HandlersIn(list)
  <2> DEFINE k == CHOOSE i \in DOMAIN list : list[i] = h
             n == Len(list)
  <2>1. k \in 1 .. n /\ list[k] = h
    BY <1>2 DEF HandlersIn
  <2> HIDE DEF k
  <2> DEFINE before == SubSeq(list, 1, k - 1)
             after  == SubSeq(list, k + 1, n)
  <2>2. new = before \o after
    BY <1>2 DEF Without, k
  <2>3. /\ before \in Seq(Handler) /\ Len(before) = k - 1
        /\ \A i \in 1 .. k - 1 : before[i] = list[i]
    BY <2>1
  <2>4. /\ after \in Seq(Handler) /\ Len(after) = n - k
        /\ \A i \in 1 .. n - k : after[i] = list[k + i]
    BY <2>1
  <2>5. /\ new \in Seq(Handler) /\ Len(new) = n - 1
        /\ \A i \in 1 .. n - 1 : new[i] = list[IF i < k THEN i ELSE i + 1]
    <3> HIDE DEF before, after, new, n
    <3>1. /\ new \in Seq(Handler) /\ Len(new) = Len(before) + Len(after)
          /\ \A i \in 1 .. Len(before) + Len(after) :
               new[i] = IF i <= Len(before) THEN before[i] ELSE after[i - Len(before)]
      <4>1. before \in Seq(Handler) /\ after \in Seq(Handler)
        BY <2>3, <2>4
      <4> QED
        BY ONLY <4>1, <2>2, ConcatProperties, Zenon
    <3>2. n \in Nat
      BY DEF n
    <3>3. ASSUME NEW i \in 1 .. n - 1 PROVE new[i] = list[IF i < k THEN i ELSE i + 1]
      <4>1. CASE i < k
        <5>1. i \in 1 .. k - 1
          BY <4>1, <3>2, <2>1
        <5> QED
          BY <4>1, <5>1, <3>1, <3>2, <2>1, <2>3, <2>4
      <4>2. CASE ~(i < k)
        <5>1. i - (k - 1) \in 1 .. n - k /\ i > k - 1
          BY <4>2, <3>2, <2>1
        <5>2. new[i] = after[i - (k - 1)]
          BY <5>1, <3>1, <3>2, <2>1, <2>3, <2>4
        <5>3. k + (i - (k - 1)) = i + 1
          BY <2>1, <3>2
        <5> QED
          BY <4>2, <5>1, <5>2, <5>3, <2>4
      <4> QED
        BY <4>1, <4>2
    <3> QED
      BY <2>1, <2>3, <2>4, <3>1, <3>2, <3>3
  <2> DEFINE at(i) == IF i < k THEN i ELSE i + 1
  <2>6. \A i \in DOMAIN new : at(i) \in DOMAIN list \ {k} /\ new[i] = list[at(i)]
    BY <2>1, <2>5
  <2>7. \A i, j \in DOMAIN new : at(i) = at(j) => i = j
    BY <2>1, <2>5
  <2>8. HandlersIn(new) \subseteq HandlersIn(list) \ {h}
    BY <2>1, <2>6 DEF HandlersIn
  <2>9. \A i, j \in DOMAIN new : new[i] = new[j] => i = j
    BY <2>6, <2>7
  <2> QED
    BY <2>5, <2>8, <2>9
<1> QED
  BY <1>1, <1>2

LEMMA LeastIsLeast ==
  ASSUME NEW S \in SUBSET Nat, S # {} PROVE Least(S) \in S
<1>1. PICK i \in S : \A j \in S : ~(<<j, i>> \in OpToRel(<, Nat))
  BY WFMin, NatLessThanWellFounded
<1>2. \A j \in S : i <= j
  <2>1. OpToRel(<, Nat) = {p \in Nat \X Nat : p[1] < p[2]}
    BY Zenon DEF OpToRel
  <2>2. \A j \in S : ~(<<j, i>> \in {p \in Nat \X Nat : p[1] < p[2]})
    BY <1>1, <2>1, Zenon
  <2>3. \A j \in S : ~(<<j, i>>[1] < <<j, i>>[2])
    <3>1. \A j \in S : <<j, i>> \in Nat \X Nat
      BY DEF Least
    <3> QED
      BY <2>2, <3>1, Zenon
  <2>4. \A j \in S : ~(j < i)
    BY <2>3
  <2> QED
    BY <2>4
<1> QED
  BY <1>2 DEF Least

-----------------------------------------------------------------------------
(***************************************************************************)
(* What the loop of _onRoute does to the lists, whatever it stops at.       *)
(***************************************************************************)
(* A handler of the list of a scope begins.                                 *)
Begins(s, h) ==
  /\ h \in HandlersIn(routes[s])
  /\ handledCount' = [handledCount EXCEPT ![h] = @ + 1]
  /\ routes' = IF handledCount[h] + 1 >= Times[h]
               THEN [routes EXCEPT ![s] = Without(@, h)]
               ELSE routes

GoesOn(r, sent) ==
  /\ chain' \in [Request -> Chain]
  /\ \A q \in Request \ {r} : chain'[q] = chain[q]
  /\ chain'[r].at # "new" /\ chain'[r].didThrow = chain[r].didThrow
  /\ chain'[r].promise = "handled" => chain[r].promise = "handled"
  /\ \/ toServer' = sent
     \/ toServer' = Append(sent, [op |-> "continue", request |-> r])
  /\ \/ UNCHANGED <<routes, handledCount>> /\ chain'[r].at # "running"
     \/ \E s \in Scope, h \in Handler : Begins(s, h) /\ chain'[r].handler = h

LEMMA GoOnFacts ==
  ASSUME TypeOK, NEW r \in Request, NEW scope \in Scope, NEW rest \in Seq(Handler),
         NEW sent, GoOn(r, scope, rest, sent)
  PROVE  GoesOn(r, sent)
<1> DEFINE toContext == /\ scope = "page" /\ ~Stalls(rest)
                        /\ Candidates(r, "page", rest) = {}
           s    == IF toContext THEN "context" ELSE scope
           list == IF toContext THEN routes["context"] ELSE rest
           next == Candidates(r, s, list)
<1>1. s \in Scope /\ list \in Seq(Handler)
  BY DEF TypeOK, Scope
<1>2. \/ /\ Stalls(list)
         /\ chain' = [chain EXCEPT ![r].at = "stalled"]
         /\ toServer' = sent
         /\ UNCHANGED <<routes, handledCount>>
      \/ /\ ~Stalls(list) /\ next # {}
         /\ Handle(r, s, list, Least(next))
         /\ toServer' = sent
      \/ /\ ~Stalls(list) /\ next = {}
         /\ chain' = [chain EXCEPT ![r].at = "over"]
         /\ toServer' = Append(sent, [op |-> "continue", request |-> r])
         /\ UNCHANGED <<routes, handledCount>>
  BY Zenon DEF GoOn
<1> HIDE DEF s, list, toContext
<1>3. chain[r] \in Chain /\ chain \in [Request -> Chain]
  BY DEF TypeOK
<1>4. ASSUME NEW at \in {"stalled", "over"}, chain' = [chain EXCEPT ![r].at = at],
             UNCHANGED <<routes, handledCount>>,
             \/ toServer' = sent
             \/ toServer' = Append(sent, [op |-> "continue", request |-> r])
      PROVE  GoesOn(r, sent)
  BY <1>3, <1>4 DEF GoesOn, Chain
<1>5. ASSUME next # {}, Handle(r, s, list, Least(next)), toServer' = sent
      PROVE  GoesOn(r, sent)
  <2> DEFINE i == Least(next)
             h == list[i]
  <2>1. i \in next
    <3>1. next \in SUBSET Nat
      BY <1>1 DEF Candidates
    <3> QED
      BY <1>5, <3>1, LeastIsLeast
  <2>2. i \in 1 .. Len(list) /\ h \in Handler /\ h \in HandlersIn(routes[s])
    BY <1>1, <2>1 DEF Candidates
  <2> HIDE DEF i, next
  <2>3. SubSeq(list, i + 1, Len(list)) \in Seq(Handler)
    BY <1>1, <2>2
  <2>4. Begins(s, h)
    BY <1>5, <2>2 DEF Handle, Begins, i
  <2>5. chain' = [chain EXCEPT ![r] =
          [at |-> "running", scope |-> s, rest |-> SubSeq(list, i + 1, Len(list)),
           handler |-> h, promise |-> "open", call |-> "none", body |-> "running",
           didThrow |-> chain[r].didThrow]]
    BY <1>3, <1>5 DEF Handle, i
  <2> HIDE DEF h
  <2>6. /\ chain' \in [Request -> Chain] /\ \A q \in Request \ {r} : chain'[q] = chain[q]
        /\ chain'[r].at = "running" /\ chain'[r].didThrow = chain[r].didThrow
        /\ chain'[r].promise = "open" /\ chain'[r].handler = h
    BY <1>1, <1>3, <2>2, <2>3, <2>5 DEF Chain
  <2> QED
    BY <1>1, <1>5, <2>2, <2>4, <2>6 DEF GoesOn
<1> QED
  BY <1>2, <1>4, <1>5

-----------------------------------------------------------------------------
(***************************************************************************)
(* The calls on their way to the server.                                    *)
(***************************************************************************)
LEMMA Appended ==
  ASSUME NEW calls \in Seq(Call), NEW m \in Call
  PROVE  /\ Append(calls, m) \in Seq(Call)
         /\ DOMAIN Append(calls, m) = DOMAIN calls \cup {Len(calls) + 1}
         /\ \A i \in DOMAIN calls : i <= Len(calls) /\ Append(calls, m)[i] = calls[i]
         /\ Append(calls, m)[Len(calls) + 1] = m
         /\ DOMAIN calls \subseteq Nat /\ Len(calls) \in Nat
<1>1. /\ Append(calls, m) \in Seq(Call) /\ Len(Append(calls, m)) = Len(calls) + 1
      /\ \A i \in 1 .. Len(calls) : Append(calls, m)[i] = calls[i]
      /\ Append(calls, m)[Len(calls) + 1] = m
  BY AppendProperties
<1> QED
  BY <1>1

(* A call that says nothing about a scope.                                  *)
LEMMA AgreesAppendOther ==
  ASSUME NEW calls \in Seq(Call), NEW m \in Call, NEW s, NEW names, NEW known,
         NEW fewer \in SUBSET names, ~About(m, s), Agrees(calls, s, names, known)
  PROVE  Agrees(Append(calls, m), s, fewer, known)
<1> DEFINE new == Append(calls, m)
           n == Len(calls)
<1>1. /\ DOMAIN new = DOMAIN calls \cup {n + 1} /\ new[n + 1] = m
      /\ \A i \in DOMAIN calls : new[i] = calls[i]
  BY Appended
<1> HIDE DEF new, n
<1>2. ASSUME NEW i \in DOMAIN new, About(new[i], s),
             \A j \in DOMAIN new : About(new[j], s) => j <= i
      PROVE  fewer \subseteq new[i].patterns
  <2>1. i \in DOMAIN calls /\ new[i] = calls[i]
    BY <1>1, <1>2
  <2>2. \A j \in DOMAIN calls : About(calls[j], s) => j <= i
    BY <1>1, <1>2
  <2>3. names \subseteq calls[i].patterns
    BY <1>2, <2>1, <2>2 DEF Agrees
  <2> QED
    BY <2>1, <2>3
<1>3. ASSUME \A i \in DOMAIN new : ~About(new[i], s) PROVE fewer \subseteq known
  <2>1. \A i \in DOMAIN calls : ~About(calls[i], s)
    BY <1>1, <1>3
  <2> QED
    BY <2>1 DEF Agrees
<1> QED
  BY <1>2, <1>3 DEF Agrees, new

(* A call about a scope that names its handlers.                            *)
LEMMA AgreesAppend ==
  ASSUME NEW calls \in Seq(Call), NEW m \in Call, NEW s, NEW known, About(m, s),
         NEW names \in SUBSET m.patterns
  PROVE  Agrees(Append(calls, m), s, names, known)
<1> DEFINE new == Append(calls, m)
           n == Len(calls)
<1>1. /\ DOMAIN new = DOMAIN calls \cup {n + 1} /\ new[n + 1] = m
      /\ \A i \in DOMAIN calls : i <= n
      /\ n \in Nat /\ DOMAIN calls \subseteq Nat
  BY Appended
<1> HIDE DEF new, n
<1>2. ASSUME NEW i \in DOMAIN new, \A j \in DOMAIN new : About(new[j], s) => j <= i
      PROVE  new[i] = m
  <2>1. n + 1 <= i
    BY <1>1, <1>2
  <2> QED
    BY <1>1, <2>1
<1>3. ~(\A i \in DOMAIN new : ~About(new[i], s))
  BY <1>1
<1> QED
  BY <1>2, <1>3 DEF Agrees, new

LEMMA TailOf ==
  ASSUME NEW calls \in Seq(Call), calls # <<>>
  PROVE  /\ Tail(calls) \in Seq(Call) /\ Head(calls) \in Call
         /\ Head(calls) = calls[1] /\ 1 \in DOMAIN calls
         /\ DOMAIN calls \subseteq Nat \ {0} /\ DOMAIN Tail(calls) \subseteq Nat
         /\ \A i \in DOMAIN Tail(calls) :
              i + 1 \in DOMAIN calls /\ Tail(calls)[i] = calls[i + 1]
         /\ \A i \in DOMAIN calls : i # 1 => i - 1 \in DOMAIN Tail(calls)
<1>1. /\ Tail(calls) \in Seq(Call) /\ Head(calls) \in Call
      /\ Len(Tail(calls)) = Len(calls) - 1
      /\ \A i \in 1 .. Len(calls) - 1 : Tail(calls)[i] = calls[i + 1]
      /\ Head(calls) = calls[1] /\ Len(calls) >= 1
  OBVIOUS
<1> QED
  BY <1>1

(* The server has taken a call: it knows what was in it, or what it knew    *)
(* before.                                                                 *)
LEMMA AgreesTail ==
  ASSUME NEW calls \in Seq(Call), calls # <<>>, NEW s, NEW names, NEW known,
         NEW knows, Agrees(calls, s, names, known),
         (IF About(Head(calls), s) THEN Head(calls).patterns ELSE known)
           \subseteq knows
  PROVE  Agrees(Tail(calls), s, names, knows)
<1> DEFINE new == Tail(calls)
<1>1. /\ Head(calls) = calls[1] /\ 1 \in DOMAIN calls
      /\ DOMAIN calls \subseteq Nat \ {0} /\ DOMAIN new \subseteq Nat
      /\ \A i \in DOMAIN new : i + 1 \in DOMAIN calls /\ new[i] = calls[i + 1]
      /\ \A i \in DOMAIN calls : i # 1 => i - 1 \in DOMAIN new
  BY TailOf
<1> HIDE DEF new
<1>2. \A i \in DOMAIN calls : i # 1 => calls[i] = new[i - 1]
  BY <1>1
<1>3. ASSUME NEW i \in DOMAIN new, About(new[i], s),
             \A j \in DOMAIN new : About(new[j], s) => j <= i
      PROVE  names \subseteq new[i].patterns
  <2>1. \A j \in DOMAIN calls : About(calls[j], s) => j <= i + 1
    <3>1. ASSUME NEW j \in DOMAIN calls, About(calls[j], s), j # 1 PROVE j <= i + 1
      <4>1. j - 1 \in DOMAIN new /\ About(new[j - 1], s)
        BY <1>1, <1>2, <3>1
      <4>2. j - 1 <= i
        BY <1>3, <4>1
      <4> QED
        BY <1>1, <4>2
    <3>2. 1 <= i + 1
      BY <1>1
    <3> QED
      BY <3>1, <3>2
  <2>2. i + 1 \in DOMAIN calls /\ new[i] = calls[i + 1]
    BY <1>1
  <2> QED
    BY <1>3, <2>1, <2>2 DEF Agrees
<1>4. ASSUME \A i \in DOMAIN new : ~About(new[i], s) PROVE names \subseteq knows
  <2>1. \A i \in DOMAIN calls : i # 1 => ~About(calls[i], s)
    BY <1>1, <1>2, <1>4
  <2>2. CASE About(Head(calls), s)
    <3>1. \A j \in DOMAIN calls : About(calls[j], s) => j <= 1
      BY <1>1, <2>1
    <3>2. names \subseteq calls[1].patterns
      BY <1>1, <2>2, <3>1 DEF Agrees
    <3> QED
      BY <1>1, <2>2, <3>2
  <2>3. CASE ~About(Head(calls), s)
    <3>1. \A i \in DOMAIN calls : ~About(calls[i], s)
      BY <1>1, <2>1, <2>3
    <3> QED
      BY <2>3, <3>1 DEF Agrees
  <2> QED
    BY <2>2, <2>3
<1> QED
  BY <1>3, <1>4 DEF Agrees, new

-----------------------------------------------------------------------------
(***************************************************************************)
(* Route.continue: a request the client has, and that no interceptor takes,  *)
(* goes on; one that is gone stays where it is.                             *)
(***************************************************************************)
LEMMA TakenFacts ==
  ASSUME NEW t \in Route, NEW s \in Scope, t.future[s] > 0
  PROVE  /\ Taken(t, s) \in Route /\ Taken(t, s).dispatcher # None
         /\ Taken(t, s).state = t.state /\ Taken(t, s).answer = t.answer
<1> DEFINE future == [q \in Scope |-> CASE q = s -> t.future[q] - 1
                                        [] q = "page" /\ s = "context" -> 0
                                        [] OTHER -> t.future[q]]
           dispatcher == IF t.dispatcher = None THEN s ELSE t.dispatcher
<1>1. t.future \in [Scope -> Nat] /\ t.dispatcher \in Scope \cup {None}
  BY DEF Route
<1>2. future \in [Scope -> Nat]
  <2>1. \A q \in Scope : future[q] \in Nat
    BY <1>1
  <2> QED
    BY <2>1
<1>3. dispatcher \in Scope
  BY <1>1
<1>4. Taken(t, s) = [t EXCEPT !.current = s, !.future = future, !.dispatcher = dispatcher]
  BY DEF Taken
<1> HIDE DEF future, dispatcher
<1> QED
  BY <1>2, <1>3, <1>4 DEF Route

LEMMA EndedFacts ==
  ASSUME NEW t \in Route, NEW state \in {"passed", "continued", "settled", "stuck"}
  PROVE  /\ Ended(t, state) \in Route /\ Ended(t, state).dispatcher = t.dispatcher
         /\ Ended(t, state).state = state /\ Ended(t, state).answer = t.answer
BY DEF Ended, Route

LEMMA ContinueFacts ==
  ASSUME NEW r \in Request, NEW t \in Route, NEW state \in {"passed", "continued"}
  PROVE  LET u == Continue(r, t, state)
         IN  /\ u \in Route /\ u.answer = t.answer
             /\ t.dispatcher # None => u.dispatcher # None
             /\ u.state = t.state \/ (t.state = "held" /\ u.state = state)
             /\ t.dispatcher # None /\ ~ContinueThrows(r, t) => u.state = state
<1> DEFINE u == Continue(r, t, state)
<1>1. CASE Taker(r, t) # None
  <2>1. Taker(r, t) \in Scope /\ t.future[Taker(r, t)] > 0
    BY <1>1 DEF Taker, Scope
  <2>2. u = Taken(t, Taker(r, t))
    BY <1>1 DEF Continue
  <2> QED
    BY <1>1, <2>1, <2>2, TakenFacts DEF ContinueThrows
<1>2. CASE Taker(r, t) = None /\ t.state = "held"
  <2>1. u = Ended(t, state)
    BY <1>2 DEF Continue
  <2> QED
    BY <1>2, <2>1, EndedFacts
<1>3. CASE Taker(r, t) = None /\ t.state # "held"
  <2>1. u = t
    BY <1>3 DEF Continue
  <2> QED
    BY <1>3, <2>1 DEF ContinueThrows
<1> QED
  BY <1>1, <1>2, <1>3

-----------------------------------------------------------------------------
(***************************************************************************)
(* The initial state, and what the user does.                               *)
(***************************************************************************)
LEMMA InitOK == Init => IInv
<1> SUFFICES ASSUME Init PROVE IInv
  OBVIOUS
<1>1. TypeOK
  <2>1. <<>> \in Seq(Handler) /\ <<>> \in Seq(Call) /\ "page" \in Scope
    BY DEF Scope
  <2>2. chain \in [Request -> Chain]
    BY <2>1 DEF Init, Chain
  <2>3. route \in [Request -> Route]
    BY DEF Init, Route
  <2> QED
    BY <2>1, <2>2, <2>3 DEF Init, TypeOK
<1>2. ListsOK
  BY HandlerAssumption DEF Init, ListsOK, HandlersIn, AtMost
<1>3. WaitsOK
  BY DEF Init, WaitsOK
<1>4. CallsOK
  BY DEF Init, CallsOK
<1>5. PatternsOK
  BY DEF Init, PatternsOK, Agrees, HandlersIn
<1>6. InstalledOK
  BY DEF Init, InstalledOK
<1> QED
  BY <1>1, <1>2, <1>3, <1>4, <1>5, <1>6 DEF IInv

LEMMA PatternsFacts ==
  ASSUME NEW s \in Scope, NEW list \in Seq(Handler)
  PROVE  /\ Patterns(s, list) \in Call /\ About(Patterns(s, list), s)
         /\ Patterns(s, list).patterns = HandlersIn(list)
         /\ Patterns(s, list).op = "patterns"
         /\ \A q \in Scope : q # s => ~About(Patterns(s, list), q)
<1>1. HandlersIn(list) \in SUBSET Handler
  BY HandlersInType
<1> HIDE DEF HandlersIn
<1> QED
  BY <1>1 DEF Patterns, Call, About

(* A scope's list changes, and the server is told of it.                    *)
LEMMA ToldOfList ==
  ASSUME TypeOK, PatternsOK, CallsOK, NEW s \in Scope, NEW list \in Seq(Handler),
         routes' = [routes EXCEPT ![s] = list],
         toServer' = Append(toServer, Patterns(s, list)),
         UNCHANGED <<removing, matchers, overlapped, gone, route, chain>>
  PROVE  toServer' \in Seq(Call) /\ PatternsOK' /\ CallsOK'
<1>1. toServer \in Seq(Call) /\ Patterns(s, list) \in Call
  BY PatternsFacts DEF TypeOK
<1>2. /\ toServer' \in Seq(Call) /\ DOMAIN toServer' = DOMAIN toServer \cup {Len(toServer) + 1}
      /\ \A i \in DOMAIN toServer : toServer'[i] = toServer[i]
      /\ toServer'[Len(toServer) + 1].op = "patterns"
  BY <1>1, Appended, PatternsFacts
<1>3. CallsOK'
  BY <1>2 DEF CallsOK
<1>4. ASSUME NEW q \in Scope PROVE Agrees(toServer', q, HandlersIn(routes'[q]), Known(q)')
  <2>1. Known(q)' = Known(q) /\ Agrees(toServer, q, HandlersIn(routes[q]), Known(q))
    BY DEF Known, PatternsOK
  <2>2. CASE q = s
    <3>1. routes'[q] = list
      BY <2>2 DEF TypeOK
    <3>2. HandlersIn(routes'[q]) \in SUBSET Patterns(s, list).patterns
      BY <3>1, PatternsFacts
    <3> QED
      BY <1>1, <2>2, <3>2, AgreesAppend, PatternsFacts
  <2>3. CASE q # s
    <3>1. routes'[q] = routes[q] /\ ~About(Patterns(s, list), q)
      BY <2>3, PatternsFacts DEF TypeOK
    <3>2. HandlersIn(routes'[q]) \in SUBSET HandlersIn(routes[q])
      BY <3>1
    <3> QED
      BY <1>1, <2>1, <3>1, <3>2, AgreesAppendOther
  <2> QED
    BY <2>2, <2>3
<1> QED
  BY <1>2, <1>3, <1>4 DEF PatternsOK

LEMMA AddRouteKeeps ==
  ASSUME IInv, NEW h \in Handler, AddRoute(h) PROVE IInv'
<1> DEFINE s == ScopeOf[h]
           list == <<h>> \o routes[s]
<1>1. /\ TypeOK /\ ListsOK /\ WaitsOK /\ CallsOK /\ PatternsOK /\ InstalledOK
      /\ s \in Scope /\ routes[s] \in Seq(Handler)
  BY HandlerAssumption DEF IInv, TypeOK
<1>2. /\ h \notin routed /\ routed' = routed \cup {h}
      /\ routes' = [routes EXCEPT ![s] = list]
      /\ UNCHANGED <<ignored, waits, closing, gone, handledCount, chain, matchers,
                     interceptors, removing, enabled, route, overlapped>>
  BY DEF AddRoute, serverVars
<1>3. /\ list \in Seq(Handler) /\ HandlersIn(list) = {h} \cup HandlersIn(routes[s])
      /\ DOMAIN list = 1 .. Len(routes[s]) + 1 /\ DOMAIN routes[s] = 1 .. Len(routes[s])
      /\ list[1] = h /\ \A i \in 2 .. Len(routes[s]) + 1 : list[i] = routes[s][i - 1]
  BY <1>1, InFront
<1> HIDE DEF list, s
<1>4. routes'[s] = list /\ \A q \in Scope \ {s} : routes'[q] = routes[q]
  BY <1>1, <1>2 DEF TypeOK
<1>5. toServer' \in Seq(Call) /\ PatternsOK' /\ CallsOK'
  <2>1. toServer' = Append(toServer, Patterns(s, list))
    BY <1>4 DEF AddRoute, s
  <2> QED
    BY <1>1, <1>2, <1>3, <2>1, ToldOfList
<1>6. TypeOK'
  BY <1>1, <1>2, <1>3, <1>5 DEF TypeOK
<1>7. ListsOK'
  <2>1. handledCount[h] = 0 /\ AtMost(h) > 0 /\ ScopeOf[h] = s
    BY <1>1, <1>2, HandlerAssumption DEF ListsOK, s, AtMost
  <2>2. h \notin HandlersIn(routes[s])
    BY <1>1, <1>2 DEF ListsOK
  <2>3. HandlersIn(routes'[s]) \subseteq {g \in routed' : ScopeOf[g] = s}
    BY <1>1, <1>2, <1>3, <1>4, <2>1 DEF ListsOK
  <2>4. \A g \in HandlersIn(routes'[s]) : handledCount'[g] < AtMost(g)
    BY <1>1, <1>2, <1>3, <1>4, <2>1 DEF ListsOK
  <2>5. ASSUME NEW i \in DOMAIN list, NEW j \in DOMAIN list, list[i] = list[j] PROVE i = j
    <3>1. ASSUME NEW k \in DOMAIN list, k # 1
          PROVE  k - 1 \in DOMAIN routes[s] /\ list[k] = routes[s][k - 1] /\ list[k] # h
      <4>1. k - 1 \in DOMAIN routes[s] /\ list[k] = routes[s][k - 1]
        BY <1>1, <1>3, <3>1
      <4> QED
        BY <4>1, <2>2 DEF HandlersIn
    <3>2. CASE i = 1 \/ j = 1
      BY <1>3, <2>5, <3>1, <3>2
    <3>3. CASE i # 1 /\ j # 1
      <4>1. i - 1 = j - 1
        BY <1>1, <2>5, <3>1, <3>3 DEF ListsOK
      <4> QED
        BY <1>1, <1>3, <4>1
    <3> QED
      BY <3>2, <3>3
  <2>6. \A q \in Scope \ {s} : HandlersIn(routes'[q]) \subseteq {g \in routed' : ScopeOf[g] = q}
    BY <1>1, <1>2, <1>4 DEF ListsOK
  <2>7. \A g \in Handler : handledCount'[g] <= AtMost(g)
    BY <1>1, <1>2 DEF ListsOK
  <2>8. \A g \in Handler \ routed' : handledCount'[g] = 0
    BY <1>1, <1>2 DEF ListsOK
  <2>9. ASSUME NEW q \in Scope
        PROVE  /\ HandlersIn(routes'[q]) \subseteq {g \in routed' : ScopeOf[g] = q}
               /\ \A i, j \in DOMAIN routes'[q] : routes'[q][i] = routes'[q][j] => i = j
               /\ \A g \in HandlersIn(routes'[q]) : handledCount'[g] < AtMost(g)
    <3>1. CASE q = s
      BY <1>4, <2>3, <2>4, <2>5, <3>1
    <3>2. CASE q # s
      BY <1>1, <1>2, <1>4, <2>6, <3>2 DEF ListsOK
    <3> QED
      BY <3>1, <3>2
  <2> QED
    BY <2>7, <2>8, <2>9 DEF ListsOK
<1>8. WaitsOK'
  <2>1. ASSUME NEW q \in Scope, waits[q] # None
        PROVE  /\ waits[q].removed \subseteq {g \in routed' : ScopeOf[g] = q}
               /\ waits[q].removed \cap HandlersIn(routes'[q]) = {}
    <3>1. waits[q].removed \subseteq routed /\ waits[q].removed \cap HandlersIn(routes[q]) = {}
      BY <1>1, <2>1 DEF WaitsOK
    <3>2. HandlersIn(routes'[q]) \subseteq HandlersIn(routes[q]) \cup {h}
      BY <1>3, <1>4
    <3> QED
      BY <1>1, <1>2, <2>1, <3>1, <3>2 DEF WaitsOK
  <2> QED
    BY <1>1, <1>2, <2>1 DEF WaitsOK, Running
<1>9. InstalledOK'
  BY <1>1, <1>2 DEF InstalledOK
<1> QED
  BY <1>5, <1>6, <1>7, <1>8, <1>9 DEF IInv

(* The list of a scope loses handlers.                                      *)
LEMMA ListShrinks ==
  ASSUME TypeOK, ListsOK, NEW s \in Scope, NEW list \in Seq(Handler),
         routes' = [routes EXCEPT ![s] = list], UNCHANGED <<routed, handledCount>>,
         HandlersIn(list) \subseteq HandlersIn(routes[s]),
         \A i, j \in DOMAIN list : list[i] = list[j] => i = j
  PROVE  ListsOK' /\ \A q \in Scope : HandlersIn(routes'[q]) \subseteq HandlersIn(routes[q])
<1>1. routes'[s] = list /\ \A q \in Scope \ {s} : routes'[q] = routes[q]
  BY DEF TypeOK
<1>2. ASSUME NEW q \in Scope
      PROVE  /\ HandlersIn(routes'[q]) \subseteq {h \in routed : ScopeOf[h] = q}
             /\ \A i, j \in DOMAIN routes'[q] : routes'[q][i] = routes'[q][j] => i = j
             /\ \A h \in HandlersIn(routes'[q]) : handledCount[h] < AtMost(h)
  <2>1. HandlersIn(routes'[q]) \subseteq HandlersIn(routes[q])
    BY <1>1
  <2>2. \A i, j \in DOMAIN routes'[q] : routes'[q][i] = routes'[q][j] => i = j
    BY <1>1 DEF ListsOK
  <2> QED
    BY <2>1, <2>2 DEF ListsOK
<1>3. ListsOK'
  BY <1>2 DEF ListsOK
<1> QED
  BY <1>1, <1>3

LEMMA UnrouteKeeps ==
  ASSUME IInv, NEW h \in Handler, Unroute(h) PROVE IInv'
<1> DEFINE s == ScopeOf[h]
           list == Without(routes[s], h)
<1>1. /\ TypeOK /\ ListsOK /\ WaitsOK /\ CallsOK /\ PatternsOK /\ InstalledOK
      /\ s \in Scope /\ routes[s] \in Seq(Handler)
  BY HandlerAssumption DEF IInv, TypeOK
<1>2. /\ routes' = [routes EXCEPT ![s] = list]
      /\ UNCHANGED <<routed, ignored, waits, closing, gone, handledCount, chain, matchers,
                     interceptors, removing, enabled, route, overlapped>>
  BY DEF Unroute, serverVars, userVars
<1>3. /\ list \in Seq(Handler) /\ HandlersIn(list) \subseteq HandlersIn(routes[s])
      /\ \A i, j \in DOMAIN list : list[i] = list[j] => i = j
  BY <1>1, Removed DEF ListsOK
<1> HIDE DEF list, s
<1>4. toServer' \in Seq(Call) /\ PatternsOK' /\ CallsOK'
  <2>1. routes'[s] = list
    BY <1>1, <1>2 DEF TypeOK
  <2>2. toServer' = Append(toServer, Patterns(s, list))
    BY <2>1 DEF Unroute, s
  <2> QED
    BY <1>1, <1>2, <1>3, <2>2, ToldOfList
<1>5. TypeOK'
  BY <1>1, <1>2, <1>3, <1>4 DEF TypeOK
<1>6. ListsOK' /\ \A q \in Scope : HandlersIn(routes'[q]) \subseteq HandlersIn(routes[q])
  BY <1>1, <1>2, <1>3, ListShrinks
<1>7. WaitsOK'
  BY <1>1, <1>2, <1>6 DEF WaitsOK, Running
<1>8. InstalledOK'
  BY <1>1, <1>2 DEF InstalledOK
<1> QED
  BY <1>4, <1>5, <1>6, <1>7, <1>8 DEF IInv

LEMMA UnrouteAllKeeps ==
  ASSUME IInv, NEW s \in Scope, NEW behavior, UnrouteAll(s, behavior) PROVE IInv'
<1> DEFINE removed == HandlersIn(routes[s])
<1>1. /\ TypeOK /\ ListsOK /\ WaitsOK /\ CallsOK /\ PatternsOK /\ InstalledOK
      /\ routes[s] \in Seq(Handler) /\ removed \in SUBSET Handler
  BY HandlersInType DEF IInv, TypeOK
<1>2. /\ waits[s] = None /\ routes' = [routes EXCEPT ![s] = <<>>]
      /\ ignored' = ignored \cup (IF behavior = "ignoreErrors" THEN removed ELSE {})
      /\ \/ /\ waits' = [waits EXCEPT ![s] = [removed |-> removed, on |-> WaitsFor(removed)]]
            /\ UNCHANGED toServer
         \/ /\ toServer' = Append(toServer, Patterns(s, <<>>))
            /\ UNCHANGED waits
      /\ UNCHANGED <<routed, closing, gone, handledCount, chain, matchers,
                     interceptors, removing, enabled, route, overlapped>>
  BY DEF UnrouteAll, serverVars
<1> HIDE DEF removed
<1>3. ListsOK' /\ \A q \in Scope : HandlersIn(routes'[q]) \subseteq HandlersIn(routes[q])
  <2>1. /\ <<>> \in Seq(Handler) /\ DOMAIN <<>> = {}
        /\ HandlersIn(<<>>) \subseteq HandlersIn(routes[s])
    BY HandlersInEmpty
  <2>2. \A i, j \in DOMAIN <<>> : <<>>[i] = <<>>[j] => i = j
    BY <2>1, Zenon
  <2> HIDE DEF HandlersIn
  <2> QED
    BY <1>1, <1>2, <2>1, <2>2, ListShrinks
<1>4. /\ routes' \in [Scope -> Seq(Handler)] /\ routes'[s] = <<>>
  BY <1>1, <1>2 DEF TypeOK
<1>5. CASE UNCHANGED waits /\ toServer' = Append(toServer, Patterns(s, <<>>))
  <2>1. toServer' \in Seq(Call) /\ PatternsOK' /\ CallsOK'
    <3>1. <<>> \in Seq(Handler)
      OBVIOUS
    <3> QED
      BY <1>1, <1>2, <1>5, <3>1, ToldOfList
  <2>2. TypeOK'
    BY <1>1, <1>2, <1>4, <1>5, <2>1 DEF TypeOK
  <2>3. WaitsOK'
    BY <1>1, <1>2, <1>3, <1>5 DEF WaitsOK, Running
  <2>4. InstalledOK'
    BY <1>1, <1>2 DEF InstalledOK
  <2> QED
    BY <1>3, <2>1, <2>2, <2>3, <2>4 DEF IInv
<1>6. CASE /\ waits' = [waits EXCEPT ![s] = [removed |-> removed, on |-> WaitsFor(removed)]]
           /\ UNCHANGED toServer
  <2>1. WaitsFor(removed) \in SUBSET (Handler \X Request)
    BY <1>1 DEF WaitsFor
  <2>2. TypeOK'
    BY <1>1, <1>2, <1>4, <1>6, <2>1 DEF TypeOK
  <2>3. CallsOK'
    BY <1>1, <1>2, <1>6 DEF CallsOK
  <2>4. PatternsOK'
    <3>1. \A q \in Scope : Known(q)' = Known(q)
      BY <1>2 DEF Known
    <3>2. \A q \in Scope : Agrees(toServer, q, HandlersIn(routes'[q]), Known(q))
      BY <1>1, <1>3 DEF PatternsOK, Agrees
    <3> QED
      BY <1>6, <3>1, <3>2 DEF PatternsOK
  <2>5. ASSUME NEW q \in Scope, waits'[q] # None
        PROVE  /\ waits'[q].removed \subseteq {h \in routed' : ScopeOf[h] = q}
               /\ waits'[q].removed \cap HandlersIn(routes'[q]) = {}
               /\ \A h \in waits'[q].removed, r \in Request :
                    Running(r, h)' => chain'[r].didThrow \/ <<h, r>> \in waits'[q].on
    <3>1. CASE q = s
      <4>1. waits'[q].removed = removed /\ waits'[q].on = WaitsFor(removed)
        BY <1>1, <1>6, <3>1 DEF TypeOK
      <4>2. HandlersIn(routes'[q]) = {}
        BY <1>4, <3>1, HandlersInEmpty
      <4>3. ASSUME NEW h \in removed, NEW r \in Request, Running(r, h), ~chain[r].didThrow
            PROVE  <<h, r>> \in WaitsFor(removed)
        <5>1. <<h, r>> \in removed \X Request /\ <<h, r>>[1] = h /\ <<h, r>>[2] = r
          OBVIOUS
        <5> QED
          BY <4>3, <5>1 DEF WaitsFor
      <4>4. \A h, r : Running(r, h)' <=> Running(r, h)
        BY <1>2 DEF Running
      <4> QED
        BY <1>1, <1>2, <3>1, <4>1, <4>2, <4>3, <4>4 DEF ListsOK, removed
    <3>2. CASE q # s
      <4>1. waits'[q] = waits[q]
        BY <1>1, <1>6, <3>2 DEF TypeOK
      <4> QED
        BY <1>1, <1>2, <1>3, <2>5, <4>1 DEF WaitsOK, Running
    <3> QED
      BY <3>1, <3>2
  <2>6. WaitsOK'
    BY <2>5 DEF WaitsOK
  <2>7. InstalledOK'
    BY <1>1, <1>2 DEF InstalledOK
  <2> QED
    BY <1>3, <2>2, <2>3, <2>4, <2>6, <2>7 DEF IInv
<1> QED
  BY <1>2, <1>5, <1>6

LEMMA WaitIsOverKeeps ==
  ASSUME IInv, NEW s \in Scope, WaitIsOver(s) PROVE IInv'
<1>1. /\ TypeOK /\ ListsOK /\ WaitsOK /\ CallsOK /\ PatternsOK /\ InstalledOK
      /\ routes[s] \in Seq(Handler)
  BY DEF IInv, TypeOK
<1>2. /\ waits' = [waits EXCEPT ![s] = None]
      /\ toServer' = Append(toServer, Patterns(s, routes[s]))
      /\ UNCHANGED <<routed, ignored, closing, gone, routes, handledCount, chain, matchers,
                     interceptors, removing, enabled, route, overlapped>>
  BY DEF WaitIsOver, clientVars, serverVars
<1>3. toServer' \in Seq(Call) /\ PatternsOK' /\ CallsOK'
  <2>1. routes' = [routes EXCEPT ![s] = routes[s]]
    BY <1>1, <1>2 DEF TypeOK
  <2> QED
    BY <1>1, <1>2, <2>1, ToldOfList
<1>4. TypeOK'
  BY <1>1, <1>2, <1>3 DEF TypeOK
<1>5. ListsOK'
  BY <1>1, <1>2 DEF ListsOK
<1>6. WaitsOK'
  BY <1>1, <1>2 DEF WaitsOK, Running, TypeOK
<1>7. InstalledOK'
  BY <1>1, <1>2 DEF InstalledOK
<1> QED
  BY <1>3, <1>4, <1>5, <1>6, <1>7 DEF IInv

-----------------------------------------------------------------------------
(***************************************************************************)
(* The loop of _onRoute, after what it has told the server: nothing, or that *)
(* a list is empty.                                                        *)
(***************************************************************************)
Tells(sent) ==
  \/ sent = toServer
  \/ \E s \in Scope : /\ routes[s] = <<>>
                     /\ sent = Append(toServer, Patterns(s, <<>>))

(* A list loses a handler that expires, and that handler begins its last    *)
(* request.                                                                *)
LEMMA BeginsKeepsLists ==
  ASSUME TypeOK, ListsOK, NEW s \in Scope, NEW h \in Handler, Begins(s, h),
         UNCHANGED routed
  PROVE  /\ ListsOK' /\ routes' \in [Scope -> Seq(Handler)]
         /\ handledCount' \in [Handler -> Nat]
         /\ \A q \in Scope : HandlersIn(routes'[q]) \subseteq HandlersIn(routes[q])
<1> DEFINE list == Without(routes[s], h)
           expires == handledCount[h] + 1 >= Times[h]
<1>1. /\ list \in Seq(Handler) /\ HandlersIn(list) \subseteq HandlersIn(routes[s]) \ {h}
      /\ \A i, j \in DOMAIN list : list[i] = list[j] => i = j
  BY Removed DEF TypeOK, ListsOK
<1>2. /\ handledCount \in [Handler -> Nat] /\ Times \in [Handler -> Nat]
      /\ routes \in [Scope -> Seq(Handler)]
      /\ handledCount' = [handledCount EXCEPT ![h] = @ + 1]
      /\ routes' = IF expires THEN [routes EXCEPT ![s] = list] ELSE routes
  BY HandlerAssumption DEF Begins, TypeOK
<1>3. h \in routed /\ ScopeOf[h] = s /\ handledCount[h] < AtMost(h)
  BY DEF ListsOK, Begins
<1> HIDE DEF list
<1>4. /\ handledCount' \in [Handler -> Nat] /\ handledCount'[h] = handledCount[h] + 1
      /\ \A g \in Handler \ {h} : handledCount'[g] = handledCount[g]
  BY <1>2
<1>5. /\ routes' \in [Scope -> Seq(Handler)]
      /\ \A q \in Scope \ {s} : routes'[q] = routes[q]
      /\ routes'[s] = IF expires THEN list ELSE routes[s]
  BY <1>1, <1>2
<1> HIDE DEF expires
<1>6. \A q \in Scope : HandlersIn(routes'[q]) \subseteq HandlersIn(routes[q])
  BY <1>1, <1>5
<1>7. ASSUME NEW q \in Scope
      PROVE  /\ HandlersIn(routes'[q]) \subseteq {g \in routed' : ScopeOf[g] = q}
             /\ \A i, j \in DOMAIN routes'[q] : routes'[q][i] = routes'[q][j] => i = j
             /\ \A g \in HandlersIn(routes'[q]) : handledCount'[g] < AtMost(g)
  <2>1. HandlersIn(routes'[q]) \subseteq {g \in routed' : ScopeOf[g] = q}
    BY <1>6 DEF ListsOK
  <2>2. \A i, j \in DOMAIN routes'[q] : routes'[q][i] = routes'[q][j] => i = j
    BY <1>1, <1>5 DEF ListsOK
  <2>3. ASSUME NEW g \in HandlersIn(routes'[q]) PROVE handledCount'[g] < AtMost(g)
    <3>1. g \in HandlersIn(routes[q]) /\ g \in Handler /\ handledCount[g] < AtMost(g) /\ ScopeOf[g] = q
      BY <1>6 DEF ListsOK, TypeOK
    <3>2. CASE g # h
      BY <1>4, <3>1, <3>2
    <3>3. CASE g = h
      <4>1. q = s
        BY <1>3, <3>1, <3>3
      <4>2. ~expires
        BY <1>1, <1>5, <3>3, <4>1
      <4> QED
        BY <1>2, <1>4, <3>3, <4>2 DEF expires, AtMost
    <3> QED
      BY <3>2, <3>3
  <2> QED
    BY <2>1, <2>2, <2>3
<1>8. \A g \in Handler : handledCount'[g] <= AtMost(g)
  BY <1>2, <1>3, <1>4 DEF ListsOK, AtMost
<1>9. \A g \in Handler \ routed' : handledCount'[g] = 0
  BY <1>3, <1>4 DEF ListsOK
<1>10. ListsOK'
  BY <1>7, <1>8, <1>9 DEF ListsOK
<1> QED
  BY <1>4, <1>5, <1>6, <1>10

(* What is sent, and what remains true of it, when the lists only shrink.    *)
LEMMA SentIsFine ==
  ASSUME TypeOK, PatternsOK, CallsOK, NEW r \in Request, route[r].dispatcher # None,
         NEW sent, Tells(sent),
         \/ toServer' = sent
         \/ toServer' = Append(sent, [op |-> "continue", request |-> r]),
         \A s \in Scope : HandlersIn(routes'[s]) \subseteq HandlersIn(routes[s]),
         UNCHANGED <<removing, matchers, overlapped, gone, route>>
  PROVE  /\ toServer' \in Seq(Call) /\ PatternsOK'
         /\ \A i \in DOMAIN toServer' : toServer'[i].op # "patterns" =>
              route[toServer'[i].request].dispatcher # None
<1> DEFINE Fine(calls) ==
      /\ calls \in Seq(Call)
      /\ \A s \in Scope : Agrees(calls, s, HandlersIn(routes'[s]), Known(s))
      /\ \A i \in DOMAIN calls : calls[i].op # "patterns" =>
           route[calls[i].request].dispatcher # None
<1>1. \A s \in Scope : Known(s)' = Known(s)
  BY DEF Known
<1>2. Fine(toServer)
  BY DEF TypeOK, PatternsOK, CallsOK, Agrees
<1>3. Fine(sent)
  <2>1. CASE sent = toServer
    BY <1>2, <2>1
  <2>2. ASSUME NEW s \in Scope, routes[s] = <<>>,
               sent = Append(toServer, Patterns(s, <<>>))
        PROVE  Fine(sent)
    <3> DEFINE m == Patterns(s, <<>>)
    <3>1. /\ m \in Call /\ About(m, s) /\ m.patterns = {} /\ m.op = "patterns"
          /\ \A q \in Scope : q # s => ~About(m, q)
      <4>1. <<>> \in Seq(Handler)
        OBVIOUS
      <4> QED
        BY <4>1, PatternsFacts, HandlersInEmpty
    <3>2. HandlersIn(routes'[s]) = {}
      BY <2>2, HandlersInEmpty
    <3> HIDE DEF m
    <3>3. ASSUME NEW q \in Scope PROVE Agrees(sent, q, HandlersIn(routes'[q]), Known(q))
      <4>1. CASE q = s
        <5>1. HandlersIn(routes'[q]) \in SUBSET m.patterns
          BY <3>1, <3>2, <4>1
        <5>2. Agrees(Append(toServer, m), q, HandlersIn(routes'[q]), Known(q))
          BY <1>2, <3>1, <4>1, <5>1, AgreesAppend
        <5> QED
          BY <2>2, <5>2 DEF m
      <4>2. CASE q # s
        <5>1. Agrees(Append(toServer, m), q, HandlersIn(routes'[q]), Known(q))
          BY <1>2, <3>1, <4>2, AgreesAppendOther
        <5> QED
          BY <2>2, <5>1 DEF m
      <4> QED
        BY <4>1, <4>2
    <3>4. /\ sent \in Seq(Call) /\ DOMAIN sent = DOMAIN toServer \cup {Len(toServer) + 1}
          /\ \A i \in DOMAIN toServer : sent[i] = toServer[i]
          /\ sent[Len(toServer) + 1] = m
      <4>1. sent = Append(toServer, m)
        BY <2>2 DEF m
      <4> QED
        BY <1>2, <3>1, <4>1, Appended
    <3>5. \A i \in DOMAIN sent : sent[i].op # "patterns" => route[sent[i].request].dispatcher # None
      BY <1>2, <3>1, <3>4
    <3> QED
      BY <3>3, <3>4, <3>5
  <2> QED
    BY <2>1, <2>2 DEF Tells
<1> DEFINE call == [op |-> "continue", request |-> r]
<1>4. call \in Call /\ call.op # "patterns" /\ call.request = r /\ \A s : ~About(call, s)
  BY DEF Call, About
<1> HIDE DEF call
<1>5. Fine(Append(sent, call))
  <2>1. ASSUME NEW s \in Scope PROVE Agrees(Append(sent, call), s, HandlersIn(routes'[s]), Known(s))
    BY <1>3, <1>4, AgreesAppendOther
  <2>2. /\ Append(sent, call) \in Seq(Call)
        /\ DOMAIN Append(sent, call) = DOMAIN sent \cup {Len(sent) + 1}
        /\ \A i \in DOMAIN sent : Append(sent, call)[i] = sent[i]
        /\ Append(sent, call)[Len(sent) + 1] = call
    BY <1>3, <1>4, Appended
  <2>3. \A i \in DOMAIN Append(sent, call) : Append(sent, call)[i].op # "patterns" =>
          route[Append(sent, call)[i].request].dispatcher # None
    BY <1>3, <1>4, <2>2
  <2> QED
    BY <2>1, <2>2, <2>3
<1>6. Fine(toServer')
  <2>1. toServer' = sent \/ toServer' = Append(sent, call)
    BY DEF call
  <2> QED
    BY <1>3, <1>5, <2>1
<1> QED
  BY <1>1, <1>6 DEF PatternsOK

LEMMA GoesOnKeeps ==
  ASSUME IInv, NEW r \in Request, route[r].dispatcher # None, NEW sent, Tells(sent),
         GoesOn(r, sent), UNCHANGED <<userVars, serverVars, route, overlapped>>
  PROVE  IInv'
<1>1. /\ TypeOK /\ ListsOK /\ WaitsOK /\ CallsOK /\ PatternsOK /\ InstalledOK
      /\ UNCHANGED <<routed, ignored, waits, closing, gone, matchers, interceptors,
                     removing, enabled, route, overlapped>>
  BY DEF IInv, userVars, serverVars
<1>2. /\ ListsOK' /\ routes' \in [Scope -> Seq(Handler)]
      /\ handledCount' \in [Handler -> Nat]
      /\ \A s \in Scope : HandlersIn(routes'[s]) \subseteq HandlersIn(routes[s])
  <2>1. CASE UNCHANGED <<routes, handledCount>>
    BY <1>1, <2>1 DEF ListsOK, TypeOK
  <2>2. ASSUME NEW s \in Scope, NEW h \in Handler, Begins(s, h)
        PROVE  /\ ListsOK' /\ routes' \in [Scope -> Seq(Handler)]
               /\ handledCount' \in [Handler -> Nat]
               /\ \A q \in Scope : HandlersIn(routes'[q]) \subseteq HandlersIn(routes[q])
    BY <1>1, <2>2, BeginsKeepsLists
  <2> QED
    BY <2>1, <2>2 DEF GoesOn
<1>3. /\ toServer' \in Seq(Call) /\ PatternsOK'
      /\ \A i \in DOMAIN toServer' : toServer'[i].op # "patterns" =>
           route[toServer'[i].request].dispatcher # None
  <2>1. \/ toServer' = sent
        \/ toServer' = Append(sent, [op |-> "continue", request |-> r])
    BY DEF GoesOn
  <2> QED
    BY <1>1, <1>2, <2>1, SentIsFine
<1>4. TypeOK'
  BY <1>1, <1>2, <1>3 DEF TypeOK, GoesOn
<1>5. CallsOK'
  BY <1>1, <1>3 DEF CallsOK, GoesOn
<1>6. ASSUME NEW s \in Scope, waits[s] # None, NEW h \in waits[s].removed, NEW q \in Request,
             Running(q, h)'
      PROVE  chain'[q].didThrow \/ <<h, q>> \in waits[s].on
  <2>1. CASE q # r
    <3>1. chain'[q] = chain[q]
      BY <2>1 DEF GoesOn
    <3> QED
      BY <1>1, <1>6, <3>1 DEF WaitsOK, Running
  <2>2. CASE q = r
    <3>1. PICK p \in Scope, g \in Handler : Begins(p, g) /\ chain'[r].handler = g
      BY <1>6, <2>2 DEF GoesOn, Running
    <3>2. g = h
      BY <1>6, <2>2, <3>1 DEF Running
    <3>3. h \in HandlersIn(routes[p]) /\ ScopeOf[h] = p /\ ScopeOf[h] = s
      BY <1>1, <1>6, <3>1, <3>2 DEF Begins, ListsOK, WaitsOK
    <3> QED
      BY <1>1, <1>6, <3>3 DEF WaitsOK
  <2> QED
    BY <2>1, <2>2
<1>7. WaitsOK'
  BY <1>1, <1>2, <1>6 DEF WaitsOK
<1>8. InstalledOK'
  BY <1>1 DEF InstalledOK
<1> QED
  BY <1>2, <1>3, <1>4, <1>5, <1>7, <1>8 DEF IInv

(* A handler has ended: the server may be told, and the next one may begin.  *)
LEMMA HandledKeeps ==
  ASSUME IInv, NEW r \in Request, chain[r].at = "running", NEW handled \in BOOLEAN,
         Handled(r, handled), UNCHANGED <<userVars, serverVars, route, overlapped>>
  PROVE  IInv'
<1> DEFINE s == chain[r].scope
<1>1. /\ TypeOK /\ chain \in [Request -> Chain] /\ s \in Scope
      /\ chain[r].rest \in Seq(Handler) /\ route[r].dispatcher # None
  BY DEF IInv, TypeOK, Chain, CallsOK
<1>2. Tells(Told(s))
  BY <1>1 DEF Tells, Told
<1>3. CASE handled
  <2>1. /\ chain' = [chain EXCEPT ![r].at = "over"] /\ toServer' = Told(s)
        /\ UNCHANGED <<routes, handledCount>>
    BY <1>3 DEF Handled
  <2>2. GoesOn(r, Told(s))
    BY <1>1, <2>1 DEF GoesOn, Chain
  <2> QED
    BY <1>1, <1>2, <2>2, GoesOnKeeps
<1>4. CASE ~handled
  <2>1. GoOn(r, s, chain[r].rest, Told(s))
    BY <1>4 DEF Handled
  <2> HIDE DEF s
  <2>2. GoesOn(r, Told(s))
    BY <1>1, <2>1, GoOnFacts
  <2> QED
    BY <1>1, <1>2, <2>2, GoesOnKeeps
<1> QED
  BY <1>3, <1>4

(* A handler, or an answer, moves one invocation on.                        *)
LEMMA ChainKeeps ==
  ASSUME IInv, NEW r \in Request, chain[r].at = "running",
         chain' \in [Request -> Chain], \A q \in Request \ {r} : chain'[q] = chain[q],
         chain'[r].at # "new", chain'[r].handler = chain[r].handler,
         chain[r].didThrow => chain'[r].didThrow,
         chain'[r].promise = "handled" =>
           chain[r].promise = "handled" \/ route[r].answer = "ok" \/ gone,
         \/ toServer' = toServer
         \/ \E op \in {"continue", "settle"} :
              toServer' = Append(toServer, [op |-> op, request |-> r]),
         route' \in [Request -> Route],
         \A q \in Request :
           /\ route'[q].dispatcher = route[q].dispatcher /\ route'[q].state = route[q].state
           /\ route'[q].answer = "ok" => route[q].answer = "ok",
         UNCHANGED <<userVars, routes, handledCount, serverVars, overlapped>>
  PROVE  IInv'
<1>1. /\ TypeOK /\ ListsOK /\ WaitsOK /\ CallsOK /\ PatternsOK /\ InstalledOK
      /\ UNCHANGED <<routed, ignored, waits, closing, gone, routes, handledCount, matchers,
                     interceptors, removing, enabled, overlapped>>
  BY DEF IInv, userVars, serverVars
<1>2. /\ toServer' \in Seq(Call) /\ PatternsOK'
      /\ \A i \in DOMAIN toServer' : toServer'[i].op # "patterns" =>
           route[toServer'[i].request].dispatcher # None
      /\ \A i \in DOMAIN toServer' : toServer'[i].op # "patterns" =>
           toServer'[i].request \in Request
  <2>1. \A s \in Scope : Known(s)' = Known(s)
    BY <1>1 DEF Known
  <2>2. CASE toServer' = toServer
    <3>1. toServer \in Seq(Call) /\ PatternsOK'
      BY <1>1, <2>1, <2>2 DEF TypeOK, PatternsOK
    <3>2. \A i \in DOMAIN toServer : toServer[i] \in Call
      BY <3>1
    <3> QED
      BY <1>1, <2>2, <3>1, <3>2 DEF CallsOK, Call
  <2>3. ASSUME NEW op \in {"continue", "settle"},
               toServer' = Append(toServer, [op |-> op, request |-> r])
        PROVE  /\ toServer' \in Seq(Call) /\ PatternsOK'
               /\ \A i \in DOMAIN toServer' : toServer'[i].op # "patterns" =>
                    route[toServer'[i].request].dispatcher # None
               /\ \A i \in DOMAIN toServer' : toServer'[i].op # "patterns" =>
                    toServer'[i].request \in Request
    <3> DEFINE m == [op |-> op, request |-> r]
    <3>1. m \in Call /\ (\A s : ~About(m, s)) /\ m.request = r
      BY DEF Call, About
    <3>2. toServer' = Append(toServer, m) /\ toServer \in Seq(Call)
      BY <1>1, <2>3 DEF TypeOK
    <3> HIDE DEF m
    <3>3. /\ toServer' \in Seq(Call) /\ DOMAIN toServer' = DOMAIN toServer \cup {Len(toServer) + 1}
          /\ \A i \in DOMAIN toServer : toServer'[i] = toServer[i]
          /\ toServer'[Len(toServer) + 1] = m
      BY <3>1, <3>2, Appended
    <3>4. \A s \in Scope : Agrees(toServer', s, HandlersIn(routes'[s]), Known(s)')
      <4>1. ASSUME NEW s \in Scope PROVE Agrees(toServer', s, HandlersIn(routes'[s]), Known(s))
        <5>1. Agrees(toServer, s, HandlersIn(routes'[s]), Known(s))
          BY <1>1 DEF PatternsOK
        <5> QED
          BY <3>1, <3>2, <5>1, AgreesAppendOther
      <4> QED
        BY <2>1, <4>1
    <3>5. PatternsOK'
      BY <3>4 DEF PatternsOK
    <3>6. \A i \in DOMAIN toServer : toServer[i] \in Call
      BY <3>2
    <3>7. route[r].dispatcher # None
      BY <1>1 DEF CallsOK
    <3> QED
      BY <1>1, <3>1, <3>3, <3>5, <3>6, <3>7 DEF CallsOK, Call
  <2> QED
    BY <2>2, <2>3
<1>3. TypeOK'
  BY <1>1, <1>2 DEF TypeOK
<1>4. ListsOK'
  BY <1>1 DEF ListsOK
<1>5. WaitsOK'
  <2>1. ASSUME NEW q \in Request, NEW h, Running(q, h)'
        PROVE  Running(q, h) /\ (chain[q].didThrow => chain'[q].didThrow)
    <3>1. CASE q = r
      BY <2>1, <3>1 DEF Running
    <3>2. CASE q # r
      BY <2>1, <3>2 DEF Running
    <3> QED
      BY <3>1, <3>2
  <2> QED
    BY <1>1, <2>1 DEF WaitsOK
<1>6. CallsOK'
  BY <1>1, <1>2 DEF CallsOK
<1>7. InstalledOK'
  BY <1>1 DEF InstalledOK
<1> QED
  BY <1>2, <1>3, <1>4, <1>5, <1>6, <1>7 DEF IInv

LEMMA HandlerActsKeep == IInv /\ HandlerActs => IInv'
<1> SUFFICES ASSUME IInv, NEW r \in Request,
                    \/ \E op \in {"continue", "settle"} : CallRoute(r, op)
                    \/ CallFails(r) \/ Fallback(r) \/ HandlerReturns(r) \/ HandlerThrows(r)
             PROVE  IInv'
  BY DEF HandlerActs
<1>1. /\ chain \in [Request -> Chain] /\ chain[r] \in Chain /\ route \in [Request -> Route]
      /\ CallsOK
  BY DEF IInv, TypeOK
<1>2. ASSUME NEW op \in {"continue", "settle"}, CallRoute(r, op) PROVE IInv'
  <2>1. /\ chain[r].at = "running" /\ chain' = [chain EXCEPT ![r].call = "sent"]
        /\ toServer' = Append(toServer, [op |-> op, request |-> r])
        /\ UNCHANGED <<userVars, routes, handledCount, serverVars, route, overlapped>>
    BY <1>2 DEF CallRoute, MayCall
  <2>2. /\ chain' \in [Request -> Chain] /\ \A q \in Request \ {r} : chain'[q] = chain[q]
        /\ chain'[r].at = "running" /\ chain'[r].handler = chain[r].handler
        /\ chain'[r].didThrow = chain[r].didThrow /\ chain'[r].promise = chain[r].promise
    BY <1>1, <2>1 DEF Chain
  <2> QED
    BY <1>1, <2>1, <2>2, ChainKeeps
<1>3. ASSUME CallFails(r) PROVE IInv'
  <2>1. /\ chain[r].at = "running" /\ toServer' = toServer
        /\ chain' = [chain EXCEPT ![r].call = "failed", ![r].didThrow = TRUE]
        /\ UNCHANGED <<userVars, routes, handledCount, serverVars, route, overlapped>>
    BY <1>3 DEF CallFails, MayCall
  <2>2. /\ chain' \in [Request -> Chain] /\ \A q \in Request \ {r} : chain'[q] = chain[q]
        /\ chain'[r].at = "running" /\ chain'[r].handler = chain[r].handler
        /\ chain'[r].didThrow /\ chain'[r].promise = chain[r].promise
    BY <1>1, <2>1 DEF Chain
  <2> QED
    BY <1>1, <2>1, <2>2, ChainKeeps
<1>4. ASSUME Fallback(r) PROVE IInv'
  <2>1. /\ chain[r].at = "running" /\ toServer' = toServer
        /\ chain' = [chain EXCEPT ![r].promise = "fallen"]
        /\ UNCHANGED <<userVars, routes, handledCount, serverVars, route, overlapped>>
    BY <1>4 DEF Fallback, MayCall
  <2>2. /\ chain' \in [Request -> Chain] /\ \A q \in Request \ {r} : chain'[q] = chain[q]
        /\ chain'[r].at = "running" /\ chain'[r].handler = chain[r].handler
        /\ chain'[r].didThrow = chain[r].didThrow /\ chain'[r].promise = "fallen"
    BY <1>1, <2>1 DEF Chain
  <2> QED
    BY <1>1, <2>1, <2>2, ChainKeeps
<1>5. ASSUME HandlerReturns(r) PROVE IInv'
  <2>1. /\ chain[r].at = "running" /\ toServer' = toServer
        /\ chain' = [chain EXCEPT ![r].body = "returned"]
        /\ UNCHANGED <<userVars, routes, handledCount, serverVars, route, overlapped>>
    BY <1>5 DEF HandlerReturns
  <2>2. /\ chain' \in [Request -> Chain] /\ \A q \in Request \ {r} : chain'[q] = chain[q]
        /\ chain'[r].at = "running" /\ chain'[r].handler = chain[r].handler
        /\ chain'[r].didThrow = chain[r].didThrow /\ chain'[r].promise = chain[r].promise
    BY <1>1, <2>1 DEF Chain
  <2> QED
    BY <1>1, <2>1, <2>2, ChainKeeps
<1>6. ASSUME HandlerThrows(r) PROVE IInv'
  <2>1. /\ chain[r].at = "running"
        /\ UNCHANGED <<userVars, serverVars, route, overlapped>>
    BY <1>6 DEF HandlerThrows
  <2>2. CASE Handled(r, FALSE)
    BY <1>1, <2>1, <2>2, HandledKeeps
  <2>3. CASE /\ chain' = [chain EXCEPT ![r].at = "thrown"]
             /\ UNCHANGED <<routes, handledCount, toServer>>
    <3>1. /\ chain' \in [Request -> Chain] /\ \A q \in Request \ {r} : chain'[q] = chain[q]
          /\ chain'[r].at = "thrown" /\ chain'[r].handler = chain[r].handler
          /\ chain'[r].didThrow = chain[r].didThrow /\ chain'[r].promise = chain[r].promise
      BY <1>1, <2>3 DEF Chain
    <3> QED
      BY <1>1, <2>1, <2>3, <3>1, ChainKeeps
  <2> QED
    BY <1>6, <2>2, <2>3 DEF HandlerThrows
<1> QED
  BY <1>2, <1>3, <1>4, <1>5, <1>6

LEMMA ClientGoesOnKeeps == IInv /\ ClientGoesOn => IInv'
<1> SUFFICES ASSUME IInv, ClientGoesOn PROVE IInv'
  OBVIOUS
<1>1. /\ chain \in [Request -> Chain] /\ route \in [Request -> Route] /\ CallsOK /\ TypeOK
  BY DEF IInv, TypeOK
<1>2. ASSUME NEW r \in Request, OnRoute(r) PROVE IInv'
  <2> DEFINE s == route[r].dispatcher
  <2>1. s \in Scope /\ routes[s] \in Seq(Handler)
    BY <1>1, <1>2 DEF OnRoute, TypeOK, Route
  <2>2. GoesOn(r, toServer)
    <3>1. GoOn(r, s, routes[s], toServer)
      BY <1>2 DEF OnRoute
    <3> HIDE DEF s
    <3> QED
      BY <1>1, <2>1, <3>1, GoOnFacts
  <2>3. Tells(toServer) /\ s # None
    BY <1>2 DEF Tells, OnRoute
  <2> QED
    BY <1>2, <2>2, <2>3, GoesOnKeeps DEF OnRoute
<1>3. ASSUME NEW r \in Request, OnAnswer(r) PROVE IInv'
  <2>1. /\ chain[r].at = "running" /\ toServer' = toServer
        /\ \/ /\ route[r].answer = "ok" \/ gone
              /\ chain' = [chain EXCEPT ![r].promise = "handled", ![r].call = "none"]
           \/ /\ route[r].answer = "error" /\ ~gone
              /\ chain' = [chain EXCEPT ![r].call = "failed", ![r].didThrow = TRUE]
        /\ route' = [route EXCEPT ![r].answer = "none"]
        /\ UNCHANGED <<userVars, routes, handledCount, serverVars, overlapped>>
    BY <1>3 DEF OnAnswer
  <2>2. /\ chain' \in [Request -> Chain] /\ \A q \in Request \ {r} : chain'[q] = chain[q]
        /\ chain'[r].at = "running" /\ chain'[r].handler = chain[r].handler
        /\ chain[r].didThrow => chain'[r].didThrow
        /\ chain'[r].promise = "handled" =>
             chain[r].promise = "handled" \/ route[r].answer = "ok" \/ gone
    <3>1. chain[r] \in Chain /\ chain[r].at = "running"
      BY <1>1, <2>1
    <3>2. CASE /\ route[r].answer = "ok" \/ gone
               /\ chain' = [chain EXCEPT ![r].promise = "handled", ![r].call = "none"]
      <4>1. /\ chain' \in [Request -> Chain] /\ \A q \in Request \ {r} : chain'[q] = chain[q]
            /\ chain'[r].at = "running" /\ chain'[r].handler = chain[r].handler
            /\ chain'[r].didThrow = chain[r].didThrow
        BY <1>1, <3>1, <3>2 DEF Chain
      <4> QED
        BY <3>2, <4>1
    <3>3. CASE chain' = [chain EXCEPT ![r].call = "failed", ![r].didThrow = TRUE]
      <4>1. /\ chain' \in [Request -> Chain] /\ \A q \in Request \ {r} : chain'[q] = chain[q]
            /\ chain'[r].at = "running" /\ chain'[r].handler = chain[r].handler
            /\ chain'[r].didThrow /\ chain'[r].promise = chain[r].promise
        BY <1>1, <3>1, <3>3 DEF Chain
      <4> QED
        BY <4>1
    <3> QED
      BY <2>1, <3>2, <3>3
  <2>3. /\ route' \in [Request -> Route]
        /\ \A q \in Request :
             /\ route'[q].dispatcher = route[q].dispatcher /\ route'[q].state = route[q].state
             /\ route'[q].answer = "ok" => route[q].answer = "ok"
    <3> DEFINE t == [route[r] EXCEPT !.answer = "none"]
    <3>1. /\ t \in Route /\ t.dispatcher = route[r].dispatcher /\ t.state = route[r].state
          /\ t.answer = "none"
      BY <1>1 DEF Route
    <3>2. route' = [route EXCEPT ![r] = t]
      BY <1>1, <2>1
    <3> HIDE DEF t
    <3> QED
      BY <1>1, <3>1, <3>2
  <2> QED
    BY <2>1, <2>2, <2>3, ChainKeeps
<1>4. ASSUME NEW r \in Request, HandlerEnds(r) PROVE IInv'
  BY <1>4, HandledKeeps DEF HandlerEnds
<1>5. ASSUME NEW s \in Scope, WaitIsOver(s) PROVE IInv'
  BY <1>5, WaitIsOverKeeps
<1> QED
  BY <1>2, <1>3, <1>4, <1>5 DEF ClientGoesOn

-----------------------------------------------------------------------------
(***************************************************************************)
(* The server.                                                             *)
(***************************************************************************)
(* A request only gets a dispatcher and never goes back, and it answers ok   *)
(* when it has gone on.                                                     *)
Moves(t, u) ==
  /\ t.dispatcher # None => u.dispatcher # None
  /\ t.state \in {"continued", "settled"} => u.state = t.state
  /\ u.answer = "ok" => t.answer = "ok" \/ u.state \in {"continued", "settled"}

LEMMA MovesKeepsCalls ==
  ASSUME TypeOK, CallsOK, route' \in [Request -> Route], UNCHANGED <<chain, gone>>,
         \A q \in Request : Moves(route[q], route'[q]),
         toServer' = toServer \/ (toServer # <<>> /\ toServer' = Tail(toServer))
  PROVE  CallsOK' /\ toServer' \in Seq(Call)
<1>1. /\ toServer' \in Seq(Call)
      /\ \A i \in DOMAIN toServer' : \E j \in DOMAIN toServer : toServer'[i] = toServer[j]
  <2>1. toServer \in Seq(Call)
    BY DEF TypeOK
  <2>2. CASE toServer' = toServer
    BY <2>1, <2>2
  <2>3. CASE toServer # <<>> /\ toServer' = Tail(toServer)
    BY <2>1, <2>3, TailOf
  <2> QED
    BY <2>2, <2>3
<1>2. \A i \in DOMAIN toServer : toServer[i].op # "patterns" => toServer[i].request \in Request
  <2>1. \A i \in DOMAIN toServer : toServer[i] \in Call
    BY DEF TypeOK
  <2> QED
    BY <2>1 DEF Call
<1>3. ASSUME NEW i \in DOMAIN toServer', toServer'[i].op # "patterns"
      PROVE  route'[toServer'[i].request].dispatcher # None
  <2>1. PICK j \in DOMAIN toServer : toServer'[i] = toServer[j]
    BY <1>1
  <2>2. toServer[j].request \in Request /\ route[toServer[j].request].dispatcher # None
    BY <1>2, <1>3, <2>1 DEF CallsOK
  <2> QED
    BY <2>1, <2>2 DEF Moves
<1>4. ASSUME NEW q \in Request
      PROVE  /\ chain[q].at # "new" => route'[q].dispatcher # None
             /\ chain[q].promise = "handled" =>
                  route'[q].state \in {"continued", "settled"} \/ gone
             /\ route'[q].answer = "ok" => route'[q].state \in {"continued", "settled"}
  <2>1. /\ chain[q].at # "new" => route[q].dispatcher # None
        /\ chain[q].promise = "handled" =>
             route[q].state \in {"continued", "settled"} \/ gone
        /\ route[q].answer = "ok" => route[q].state \in {"continued", "settled"}
    BY DEF CallsOK
  <2> QED
    BY <2>1 DEF Moves
<1>5. CallsOK'
  BY <1>3, <1>4 DEF CallsOK
<1> QED
  BY <1>1, <1>5

LEMMA RequestBeginsKeeps ==
  ASSUME IInv, NEW r \in Request, RequestBegins(r) PROVE IInv'
<1>1. /\ TypeOK /\ ListsOK /\ WaitsOK /\ CallsOK /\ PatternsOK /\ InstalledOK
      /\ route \in [Request -> Route] /\ route[r] \in Route /\ interceptors \in [Scope -> Nat]
  BY DEF IInv, TypeOK
<1>2. /\ route[r].state = "new"
      /\ UNCHANGED <<routed, ignored, waits, closing, gone, routes, handledCount, chain, toServer,
                     matchers, interceptors, removing, enabled, overlapped>>
  BY DEF RequestBegins, userVars, clientVars, serverVars
<1> DEFINE t == [route[r] EXCEPT !.state = "held", !.future = interceptors]
           free == [route[r] EXCEPT !.state = "free"]
<1>3. PICK u \in Route : route' = [route EXCEPT ![r] = u] /\ Moves(route[r], u)
  <2>1. CASE enabled
    <3>1. t \in Route /\ t.dispatcher = route[r].dispatcher /\ t.answer = route[r].answer
      BY <1>1 DEF Route
    <3>2. route' = [route EXCEPT ![r] = Continue(r, t, "passed")]
      BY <1>1, <2>1 DEF RequestBegins
    <3> HIDE DEF t
    <3>3. /\ Continue(r, t, "passed") \in Route
          /\ Continue(r, t, "passed").answer = t.answer
          /\ t.dispatcher # None => Continue(r, t, "passed").dispatcher # None
      BY <3>1, ContinueFacts
    <3>4. Moves(route[r], Continue(r, t, "passed"))
      BY <1>2, <3>1, <3>3 DEF Moves
    <3> QED
      BY <3>2, <3>3, <3>4
  <2>2. CASE ~enabled
    <3>1. free \in Route /\ free.dispatcher = route[r].dispatcher /\ free.answer = route[r].answer
      BY <1>1 DEF Route
    <3>2. route' = [route EXCEPT ![r] = free]
      BY <1>1, <2>2 DEF RequestBegins
    <3> HIDE DEF free
    <3>3. Moves(route[r], free)
      BY <1>2, <3>1 DEF Moves
    <3> QED
      BY <3>1, <3>2, <3>3
  <2> QED
    BY <2>1, <2>2
<1>4. /\ route' \in [Request -> Route]
      /\ \A q \in Request : Moves(route[q], route'[q])
  BY <1>1, <1>3 DEF Moves
<1>5. CallsOK' /\ toServer' \in Seq(Call)
  BY <1>1, <1>2, <1>4, MovesKeepsCalls
<1>6. TypeOK'
  BY <1>1, <1>2, <1>4, <1>5 DEF TypeOK
<1>7. ListsOK' /\ WaitsOK' /\ PatternsOK' /\ InstalledOK'
  BY <1>1, <1>2 DEF ListsOK, WaitsOK, Running, PatternsOK, Known, InstalledOK
<1> QED
  BY <1>5, <1>6, <1>7 DEF IInv

(* What a call of setNetworkInterceptionPatterns leaves the server with.    *)
LEMMA SetPatternsFacts ==
  ASSUME TypeOK, InstalledOK, NEW s \in Scope, NEW patterns \in SUBSET Handler,
         SetPatterns(s, patterns), UNCHANGED gone
  PROVE  /\ matchers' \in [Scope -> SUBSET Handler] /\ interceptors' \in [Scope -> Nat]
         /\ removing' \in [Scope -> Nat] /\ overlapped' \subseteq Scope /\ InstalledOK'
         /\ route' \in [Request -> Route] /\ \A q \in Request : Moves(route[q], route'[q])
         /\ patterns \subseteq Known(s)'
         /\ \A q \in Scope \ {s} : Known(q)' = Known(q)
<1>1. /\ matchers \in [Scope -> SUBSET Handler] /\ interceptors \in [Scope -> Nat]
      /\ removing \in [Scope -> Nat] /\ overlapped \subseteq Scope
      /\ route \in [Request -> Route]
  BY DEF TypeOK
<1>2. CASE patterns = {} /\ matchers[s] # {} /\ Installed(s)
  <2>1. /\ interceptors' = [interceptors EXCEPT ![s] = @ - 1]
        /\ removing' = [removing EXCEPT ![s] = @ + 1]
        /\ RemoveHandler(s) /\ UNCHANGED matchers /\ overlapped' = overlapped \ {s}
        /\ interceptors[s] > 0
    BY <1>2 DEF SetPatterns, Installed
  <2>2. interceptors' \in [Scope -> Nat] /\ removing' \in [Scope -> Nat]
    BY <1>1, <2>1
  <2>3. removing'[s] > 0 /\ \A q \in Scope \ {s} :
          interceptors'[q] = interceptors[q] /\ removing'[q] = removing[q]
    BY <1>1, <2>1
  <2>4. InstalledOK'
    BY <2>1, <2>3 DEF InstalledOK
  <2>5. \A q \in Scope \ {s} : Known(q)' = Known(q)
    BY <1>1, <2>1 DEF Known
  <2>6. ASSUME NEW q \in Request PROVE route'[q] \in Route /\ Moves(route[q], route'[q])
    <3> DEFINE t == [route[q] EXCEPT !.future[s] = 0]
    <3>1. route[q] \in Route /\ route[q].future \in [Scope -> Nat]
      BY <1>1 DEF Route
    <3>2. t = [route[q] EXCEPT !.future = [@ EXCEPT ![s] = 0]]
      OBVIOUS
    <3>3. [route[q].future EXCEPT ![s] = 0] \in [Scope -> Nat]
      BY <3>1
    <3>4. /\ t \in Route /\ t.dispatcher = route[q].dispatcher /\ t.state = route[q].state
          /\ t.answer = route[q].answer
      BY <3>1, <3>2, <3>3 DEF Route
    <3>5. route'[q] = IF t.current = s THEN Continue(q, t, "passed") ELSE t
      BY <2>1 DEF RemoveHandler
    <3> HIDE DEF t
    <3>6. /\ Continue(q, t, "passed") \in Route
          /\ Continue(q, t, "passed").answer = t.answer
          /\ t.dispatcher # None => Continue(q, t, "passed").dispatcher # None
          /\ Continue(q, t, "passed").state = t.state \/ t.state = "held"
      BY <3>4, ContinueFacts
    <3>7. ASSUME NEW u, u \in {t, Continue(q, t, "passed")} PROVE u \in Route /\ Moves(route[q], u)
      <4>1. CASE u = t
        BY <3>4, <4>1 DEF Moves
      <4>2. CASE u = Continue(q, t, "passed")
        BY <3>4, <3>6, <4>2 DEF Moves
      <4> QED
        BY <3>7, <4>1, <4>2
    <3> QED
      BY <3>5, <3>7
  <2>7. route' \in [Request -> Route]
    <3>1. route' = [q \in Request |-> route'[q]]
      BY <2>1 DEF RemoveHandler
    <3> QED
      BY <2>6, <3>1
  <2> QED
    BY <1>1, <1>2, <2>1, <2>2, <2>4, <2>5, <2>6, <2>7
<1>3. CASE patterns = {} /\ ~(matchers[s] # {} /\ Installed(s))
  <2>1. /\ matchers' = [matchers EXCEPT ![s] = {}]
        /\ overlapped' = overlapped \ {s}
        /\ UNCHANGED <<interceptors, removing, route>>
    BY <1>3 DEF SetPatterns
  <2>2. matchers'[s] = {} /\ \A q \in Scope \ {s} : matchers'[q] = matchers[q]
    BY <1>1, <2>1
  <2>3. InstalledOK'
    BY <2>1, <2>2 DEF InstalledOK
  <2>4. \A q \in Scope \ {s} : Known(q)' = Known(q)
    BY <1>1, <2>1 DEF Known
  <2> QED
    BY <1>1, <1>3, <2>1, <2>3, <2>4 DEF Moves
<1>4. CASE patterns # {}
  <2>1. /\ matchers' = [matchers EXCEPT ![s] = patterns]
        /\ interceptors' = [interceptors EXCEPT ![s] = IF matchers[s] = {} THEN @ + 1 ELSE @]
        /\ overlapped' = IF removing[s] > 0 THEN overlapped \cup {s} ELSE overlapped \ {s}
        /\ UNCHANGED <<removing, route>>
    BY <1>4 DEF SetPatterns
  <2>2. interceptors' \in [Scope -> Nat]
    BY <1>1, <2>1
  <2>3. ASSUME NEW q \in Scope, removing[q] = 0, matchers'[q] # {}
        PROVE  interceptors'[q] > 0
    <3>1. matchers[q] # {} => interceptors[q] > 0
      BY <2>3 DEF InstalledOK
    <3>2. CASE q = s
      BY <1>1, <2>1, <3>1, <3>2
    <3>3. CASE q # s
      BY <1>1, <2>1, <2>3, <3>1, <3>3
    <3> QED
      BY <3>2, <3>3
  <2>4. InstalledOK'
    BY <2>1, <2>3 DEF InstalledOK
  <2>5. \A q \in Scope \ {s} : Known(q)' = Known(q)
    BY <1>1, <2>1 DEF Known
  <2>6. patterns \subseteq Known(s)'
    <3>1. matchers'[s] = patterns /\ removing'[s] = removing[s]
      BY <1>1, <2>1
    <3>2. s \notin overlapped' => ~(removing[s] > 0)
      BY <2>1
    <3> QED
      BY <3>1, <3>2 DEF Known
  <2> QED
    BY <1>1, <2>1, <2>2, <2>4, <2>5, <2>6 DEF Moves
<1> QED
  BY <1>2, <1>3, <1>4

LEMMA AnswerCallFacts ==
  ASSUME TypeOK, CallsOK, NEW r \in Request, route[r].dispatcher # None,
         NEW op \in {"continue", "settle"}, AnswerCall(r, op)
  PROVE  route' \in [Request -> Route] /\ \A q \in Request : Moves(route[q], route'[q])
<1> DEFINE t == [route[r] EXCEPT !.answered = TRUE]
<1>1. route \in [Request -> Route] /\ route[r] \in Route
  BY DEF TypeOK
<1>2. /\ t \in Route /\ t.dispatcher = route[r].dispatcher /\ t.state = route[r].state
      /\ t.answer = route[r].answer
  BY <1>1 DEF Route
<1>3. \/ route' = [route EXCEPT ![r] = [t EXCEPT !.answer = "error"]]
      \/ route' = [route EXCEPT ![r] =
           [Continue(r, t, "continued") EXCEPT
              !.answer = IF ContinueThrows(r, t) THEN "error" ELSE "ok"]]
      \/ /\ t.state = "held"
         /\ \E end \in {"settled", "stuck"} :
              route' = [route EXCEPT ![r] =
                [Ended(t, end) EXCEPT !.answer = IF end = "stuck" THEN "error" ELSE "ok"]]
  BY Zenon DEF AnswerCall
<1> HIDE DEF t
<1>4. PICK u \in Route : route' = [route EXCEPT ![r] = u] /\ Moves(route[r], u)
  <2>1. ASSUME route' = [route EXCEPT ![r] = [t EXCEPT !.answer = "error"]]
        PROVE  \E u \in Route : route' = [route EXCEPT ![r] = u] /\ Moves(route[r], u)
    <3>1. [t EXCEPT !.answer = "error"] \in Route /\ Moves(route[r], [t EXCEPT !.answer = "error"])
      BY <1>2 DEF Route, Moves
    <3> QED
      BY <2>1, <3>1
  <2>2. ASSUME route' = [route EXCEPT ![r] =
                 [Continue(r, t, "continued") EXCEPT
                    !.answer = IF ContinueThrows(r, t) THEN "error" ELSE "ok"]]
        PROVE  \E u \in Route : route' = [route EXCEPT ![r] = u] /\ Moves(route[r], u)
    <3> DEFINE c == Continue(r, t, "continued")
               answer == IF ContinueThrows(r, t) THEN "error" ELSE "ok"
               u == [c EXCEPT !.answer = answer]
    <3>1. /\ c \in Route /\ (t.dispatcher # None => c.dispatcher # None)
          /\ c.state = t.state \/ (t.state = "held" /\ c.state = "continued")
          /\ t.dispatcher # None /\ ~ContinueThrows(r, t) => c.state = "continued"
      BY <1>2, ContinueFacts
    <3>2. answer \in {"error", "ok"} /\ (answer = "ok" => ~ContinueThrows(r, t))
      OBVIOUS
    <3>3. route' = [route EXCEPT ![r] = u]
      BY <2>2
    <3> HIDE DEF c, answer
    <3>4. u \in Route /\ u.dispatcher = c.dispatcher /\ u.state = c.state /\ u.answer = answer
      BY <3>1, <3>2 DEF Route
    <3> HIDE DEF u
    <3>5. Moves(route[r], u)
      BY <1>2, <3>1, <3>2, <3>4 DEF Moves
    <3> QED
      BY <3>3, <3>4, <3>5
  <2>3. ASSUME NEW end \in {"settled", "stuck"}, t.state = "held",
               route' = [route EXCEPT ![r] =
                 [Ended(t, end) EXCEPT !.answer = IF end = "stuck" THEN "error" ELSE "ok"]]
        PROVE  \E u \in Route : route' = [route EXCEPT ![r] = u] /\ Moves(route[r], u)
    <3> DEFINE e == Ended(t, end)
               answer == IF end = "stuck" THEN "error" ELSE "ok"
               u == [e EXCEPT !.answer = answer]
    <3>1. e \in Route /\ e.dispatcher = t.dispatcher /\ e.state = end
      BY <1>2, EndedFacts
    <3>2. answer \in {"error", "ok"} /\ (answer = "ok" => end = "settled")
      OBVIOUS
    <3>3. route' = [route EXCEPT ![r] = u]
      BY <2>3
    <3> HIDE DEF e, answer
    <3>4. u \in Route /\ u.dispatcher = e.dispatcher /\ u.state = e.state /\ u.answer = answer
      BY <3>1, <3>2 DEF Route
    <3> HIDE DEF u
    <3>5. Moves(route[r], u)
      BY <1>2, <2>3, <3>1, <3>2, <3>4 DEF Moves
    <3> QED
      BY <3>3, <3>4, <3>5
  <2> QED
    BY <1>3, <2>1, <2>2, <2>3
<1> QED
  BY <1>1, <1>4 DEF Moves

LEMMA ReceiveKeeps == IInv /\ Receive => IInv'
<1> SUFFICES ASSUME IInv, Receive PROVE IInv'
  OBVIOUS
<1> DEFINE m == Head(toServer)
<1>1. /\ TypeOK /\ ListsOK /\ WaitsOK /\ CallsOK /\ PatternsOK /\ InstalledOK
      /\ toServer \in Seq(Call)
  BY DEF IInv, TypeOK
<1>2. /\ toServer # <<>> /\ toServer' = Tail(toServer)
      /\ UNCHANGED <<routed, ignored, waits, closing, gone, routes, handledCount, chain>>
  BY DEF Receive, userVars, clientVars
<1>3. m \in Call /\ m = toServer[1] /\ 1 \in DOMAIN toServer
  BY <1>1, <1>2, TailOf
<1>4. ListsOK' /\ WaitsOK'
  BY <1>1, <1>2 DEF ListsOK, WaitsOK, Running
<1> DEFINE refused == gone /\ UNCHANGED <<matchers, interceptors, removing, enabled, route, overlapped>>
<1>5. CASE m.op = "patterns" /\ ~refused
  <2>1. PICK q \in Scope, patterns \in SUBSET Handler : m.scope = q /\ m.patterns = patterns
    BY <1>3, <1>5 DEF Call
  <2>2. SetPatterns(q, patterns) /\ UNCHANGED enabled
    <3>1. \/ SetPatterns(m.scope, m.patterns) /\ UNCHANGED enabled
          \/ gone /\ UNCHANGED <<serverVars, route, overlapped>>
      BY <1>5 DEF Receive
    <3>2. ~(gone /\ UNCHANGED <<serverVars, route, overlapped>>)
      BY <1>5 DEF serverVars
    <3> QED
      BY <2>1, <3>1, <3>2
  <2> HIDE DEF m
  <2>3. /\ matchers' \in [Scope -> SUBSET Handler] /\ interceptors' \in [Scope -> Nat]
        /\ removing' \in [Scope -> Nat] /\ overlapped' \subseteq Scope /\ InstalledOK'
        /\ route' \in [Request -> Route] /\ \A r \in Request : Moves(route[r], route'[r])
        /\ patterns \subseteq Known(q)'
        /\ \A s \in Scope \ {q} : Known(s)' = Known(s)
    BY <1>1, <1>2, <2>1, <2>2, SetPatternsFacts
  <2>4. CallsOK' /\ toServer' \in Seq(Call)
    BY <1>1, <1>2, <2>3, MovesKeepsCalls
  <2>5. TypeOK'
    BY <1>1, <1>2, <2>2, <2>3, <2>4 DEF TypeOK
  <2>6. ASSUME NEW s \in Scope PROVE Agrees(toServer', s, HandlersIn(routes'[s]), Known(s)')
    <3>1. (IF About(m, s) THEN m.patterns ELSE Known(s)) \subseteq Known(s)'
      BY <1>5, <2>1, <2>3 DEF About
    <3>2. Agrees(toServer, s, HandlersIn(routes[s]), Known(s))
      BY <1>1 DEF PatternsOK
    <3>3. Agrees(Tail(toServer), s, HandlersIn(routes[s]), Known(s)')
      BY <1>1, <1>2, <3>1, <3>2, AgreesTail DEF m
    <3> QED
      BY <1>2, <3>3
  <2>7. PatternsOK'
    BY <2>6 DEF PatternsOK
  <2> QED
    BY <1>4, <2>3, <2>4, <2>5, <2>7 DEF IInv
<1>6. CASE m.op # "patterns" /\ ~refused
  <2>1. m.op \in {"continue", "settle"} /\ m.request \in Request
    BY <1>3, <1>6 DEF Call
  <2>2. route[m.request].dispatcher # None
    BY <1>1, <1>3, <1>6 DEF CallsOK
  <2>3. /\ AnswerCall(m.request, m.op)
        /\ UNCHANGED <<matchers, interceptors, removing, enabled, overlapped>>
    BY <1>6 DEF Receive, serverVars
  <2> HIDE DEF m
  <2>4. route' \in [Request -> Route] /\ \A q \in Request : Moves(route[q], route'[q])
    BY <1>1, <2>1, <2>2, <2>3, AnswerCallFacts
  <2>5. CallsOK' /\ toServer' \in Seq(Call)
    BY <1>1, <1>2, <2>4, MovesKeepsCalls
  <2>6. TypeOK'
    BY <1>1, <1>2, <2>3, <2>4, <2>5 DEF TypeOK
  <2>7. ASSUME NEW s \in Scope PROVE Agrees(toServer', s, HandlersIn(routes'[s]), Known(s)')
    <3>1. Known(s)' = Known(s) /\ ~About(m, s)
      BY <1>2, <1>6, <2>3 DEF Known, About
    <3>2. Agrees(toServer, s, HandlersIn(routes[s]), Known(s))
      BY <1>1 DEF PatternsOK
    <3>3. Agrees(Tail(toServer), s, HandlersIn(routes[s]), Known(s))
      BY <1>1, <1>2, <3>1, <3>2, AgreesTail DEF m
    <3> QED
      BY <1>2, <3>1, <3>3
  <2>8. PatternsOK'
    BY <2>7 DEF PatternsOK
  <2>9. InstalledOK'
    BY <1>1, <2>3 DEF InstalledOK
  <2> QED
    BY <1>4, <2>5, <2>6, <2>8, <2>9 DEF IInv
<1>7. CASE refused
  <2> HIDE DEF m
  <2>1. \A q \in Request : Moves(route[q], route'[q])
    BY <1>7 DEF Moves
  <2>2. CallsOK' /\ toServer' \in Seq(Call)
    <3>1. route' \in [Request -> Route]
      BY <1>1, <1>7 DEF TypeOK
    <3> QED
      BY <1>1, <1>2, <2>1, <3>1, MovesKeepsCalls
  <2>3. TypeOK'
    BY <1>1, <1>2, <1>7, <2>2 DEF TypeOK
  <2>4. ASSUME NEW s \in Scope PROVE Agrees(toServer', s, HandlersIn(routes'[s]), Known(s)')
    <3>1. Known(s) = Handler /\ Known(s)' = Handler /\ (About(m, s) => m.patterns \subseteq Handler)
      BY <1>2, <1>3, <1>7 DEF Known, About, Call
    <3>2. Agrees(toServer, s, HandlersIn(routes[s]), Known(s))
      BY <1>1 DEF PatternsOK
    <3>3. Agrees(Tail(toServer), s, HandlersIn(routes[s]), Known(s)')
      BY <1>1, <1>2, <3>1, <3>2, AgreesTail DEF m
    <3> QED
      BY <1>2, <3>3
  <2>5. PatternsOK'
    BY <2>4 DEF PatternsOK
  <2>6. InstalledOK'
    BY <1>1, <1>7 DEF InstalledOK
  <2> QED
    BY <1>4, <2>2, <2>3, <2>5, <2>6 DEF IInv
<1> QED
  BY <1>5, <1>6, <1>7

LEMMA RemovalEndsKeeps ==
  ASSUME IInv, NEW s \in Scope, RemovalEnds(s) PROVE IInv'
<1>1. /\ TypeOK /\ ListsOK /\ WaitsOK /\ CallsOK /\ PatternsOK /\ InstalledOK
      /\ removing \in [Scope -> Nat] /\ matchers \in [Scope -> SUBSET Handler]
  BY DEF IInv, TypeOK
<1>2. /\ removing[s] > 0 /\ removing' = [removing EXCEPT ![s] = @ - 1]
      /\ matchers' = [matchers EXCEPT ![s] = {}]
      /\ UNCHANGED <<routed, ignored, waits, closing, gone, routes, handledCount, chain, toServer,
                     interceptors, enabled, route, overlapped>>
  BY DEF RemovalEnds, userVars, clientVars
<1>3. removing' \in [Scope -> Nat] /\ matchers' \in [Scope -> SUBSET Handler]
  BY <1>1, <1>2
<1>4. TypeOK'
  BY <1>1, <1>2, <1>3 DEF TypeOK
<1>5. ListsOK' /\ WaitsOK' /\ CallsOK'
  BY <1>1, <1>2 DEF ListsOK, WaitsOK, Running, CallsOK
<1>6. ASSUME NEW q \in Scope, removing'[q] = 0, matchers'[q] # {}
      PROVE  interceptors[q] > 0
  <2>1. removing[q] = 0 /\ matchers[q] # {} => interceptors[q] > 0
    BY <1>1 DEF InstalledOK
  <2>2. CASE q = s
    BY <1>1, <1>2, <1>6, <2>2
  <2>3. CASE q # s
    BY <1>1, <1>2, <1>6, <2>1, <2>3
  <2> QED
    BY <2>2, <2>3
<1>7. InstalledOK'
  BY <1>2, <1>6 DEF InstalledOK
<1>8. ASSUME NEW q \in Scope PROVE Agrees(toServer, q, HandlersIn(routes[q]), Known(q)')
  <2>1. Known(q) \subseteq Known(q)'
    <3>1. CASE q = s
      BY <1>1, <1>2, <3>1 DEF Known
    <3>2. CASE q # s
      BY <1>1, <1>2, <3>2 DEF Known
    <3> QED
      BY <3>1, <3>2
  <2>2. Agrees(toServer, q, HandlersIn(routes[q]), Known(q))
    BY <1>1 DEF PatternsOK
  <2> QED
    BY <2>1, <2>2 DEF Agrees
<1>9. PatternsOK'
  BY <1>2, <1>8 DEF PatternsOK
<1> QED
  BY <1>4, <1>5, <1>7, <1>9 DEF IInv

(* When the page is gone, nothing is said any more about what the server     *)
(* knows.                                                                   *)
LEMMA TargetGoneKeeps ==
  ASSUME IInv, TargetGone PROVE IInv'
<1>1. /\ TypeOK /\ ListsOK /\ WaitsOK /\ CallsOK /\ PatternsOK /\ InstalledOK
      /\ routes \in [Scope -> Seq(Handler)]
  BY DEF IInv, TypeOK
<1>2. /\ gone' = TRUE
      /\ UNCHANGED <<routed, ignored, waits, closing, routes, handledCount, chain, toServer,
                     matchers, interceptors, removing, enabled, route, overlapped>>
  BY DEF TargetGone, clientVars, serverVars
<1>3. TypeOK' /\ ListsOK' /\ WaitsOK' /\ CallsOK' /\ InstalledOK'
  BY <1>1, <1>2 DEF TypeOK, ListsOK, WaitsOK, Running, CallsOK, InstalledOK
<1>4. ASSUME NEW s \in Scope PROVE Agrees(toServer, s, HandlersIn(routes[s]), Known(s)')
  <2>1. Known(s)' = Handler /\ HandlersIn(routes[s]) \subseteq Handler
    BY <1>1, <1>2, HandlersInType DEF Known
  <2>2. Agrees(toServer, s, HandlersIn(routes[s]), Known(s))
    BY <1>1 DEF PatternsOK
  <2> QED
    BY <2>1, <2>2 DEF Agrees
<1>5. PatternsOK'
  BY <1>2, <1>4 DEF PatternsOK
<1> QED
  BY <1>3, <1>5 DEF IInv

LEMMA NextKeeps == IInv /\ [Next]_vars => IInv'
<1> SUFFICES ASSUME IInv, [Next]_vars PROVE IInv'
  OBVIOUS
<1>1. /\ TypeOK /\ ListsOK /\ WaitsOK /\ CallsOK /\ PatternsOK /\ InstalledOK
  BY DEF IInv
<1>2. ASSUME NEW h \in Handler, AddRoute(h) \/ Unroute(h) PROVE IInv'
  BY <1>2, AddRouteKeeps, UnrouteKeeps
<1>3. ASSUME NEW s \in Scope, NEW behavior, UnrouteAll(s, behavior) PROVE IInv'
  BY <1>3, UnrouteAllKeeps
<1>4. CASE Close
  <2>1. closing' \in BOOLEAN /\ UNCHANGED <<routed, ignored, waits, gone, routes, handledCount, chain,
          toServer, matchers, interceptors, removing, enabled, route, overlapped>>
    BY <1>4 DEF Close, clientVars, serverVars
  <2> QED
    BY <1>1, <2>1 DEF IInv, TypeOK, ListsOK, WaitsOK, Running, CallsOK, PatternsOK, Known,
                      InstalledOK
<1>5. CASE HandlerActs
  BY <1>5, HandlerActsKeep
<1>6. CASE ClientGoesOn
  BY <1>6, ClientGoesOnKeeps
<1>7. CASE Receive
  BY <1>7, ReceiveKeeps
<1>8. CASE BrowserSwitched
  <2>1. enabled' \in BOOLEAN /\ UNCHANGED <<routed, ignored, waits, closing, gone, routes, handledCount,
          chain, toServer, matchers, interceptors, removing, route, overlapped>>
    BY <1>8 DEF BrowserSwitched, NeedsRequestInterception, userVars, clientVars
  <2> QED
    BY <1>1, <2>1 DEF IInv, TypeOK, ListsOK, WaitsOK, Running, CallsOK, PatternsOK, Known,
                      InstalledOK
<1>9. ASSUME NEW s \in Scope, RemovalEnds(s) PROVE IInv'
  BY <1>9, RemovalEndsKeeps
<1>10. ASSUME NEW r \in Request, RequestBegins(r) PROVE IInv'
  BY <1>10, RequestBeginsKeeps
<1>11. CASE UNCHANGED vars
  <2>1. UNCHANGED <<routed, ignored, waits, closing, gone, routes, handledCount, chain, toServer,
          matchers, interceptors, removing, enabled, route, overlapped>>
    BY <1>11 DEF vars, userVars, clientVars, serverVars
  <2> QED
    BY <1>1, <2>1 DEF IInv, TypeOK, ListsOK, WaitsOK, Running, CallsOK, PatternsOK, Known,
                      InstalledOK
<1>12. CASE TargetGone
  BY <1>12, TargetGoneKeeps
<1> QED
  BY <1>2, <1>3, <1>4, <1>5, <1>6, <1>7, <1>8, <1>9, <1>10, <1>11, <1>12
     DEF Next, UserActs, ServerGoesOn

(* Nothing else ends a wait.                                                *)
LEMMA OnlyWaitIsOver ==
  ASSUME TypeOK, Next, NEW s \in Scope, waits[s] # None, waits'[s] = None
  PROVE  WaitIsOver(s)
<1>1. ASSUME UNCHANGED waits PROVE FALSE
  BY <1>1
<1>2. ASSUME NEW h \in Handler, AddRoute(h) \/ Unroute(h) PROVE FALSE
  BY <1>1, <1>2 DEF AddRoute, Unroute, userVars
<1>3. ASSUME NEW q \in Scope, NEW behavior, UnrouteAll(q, behavior) PROVE FALSE
  BY <1>1, <1>3 DEF UnrouteAll, TypeOK
<1>4. CASE Close \/ TargetGone \/ HandlerActs
  BY <1>1, <1>4 DEF Close, TargetGone, HandlerActs, CallRoute, CallFails, Fallback, HandlerReturns,
                    HandlerThrows, userVars
<1>5. ASSUME NEW r \in Request,
             OnRoute(r) \/ OnAnswer(r) \/ HandlerEnds(r) \/ RequestBegins(r)
      PROVE  FALSE
  BY <1>1, <1>5 DEF OnRoute, OnAnswer, HandlerEnds, RequestBegins, userVars
<1>6. CASE ServerGoesOn
  BY <1>1, <1>6 DEF ServerGoesOn, Receive, BrowserSwitched, RemovalEnds, userVars
<1>7. ASSUME NEW q \in Scope, WaitIsOver(q), q # s PROVE FALSE
  BY <1>7 DEF WaitIsOver, TypeOK
<1>8. UserActs => Close
  BY <1>2, <1>3 DEF UserActs
<1>9. CASE ClientGoesOn
  <2>1. PICK q \in Scope : WaitIsOver(q)
    BY <1>5, <1>9 DEF ClientGoesOn
  <2> QED
    BY <1>7, <2>1
<1> QED
  BY <1>4, <1>5, <1>6, <1>8, <1>9 DEF Next

LEMMA Inductive == Spec => []IInv
BY InitOK, NextKeeps, PTL DEF Spec

-----------------------------------------------------------------------------
(***************************************************************************)
(* The properties.                                                         *)
(***************************************************************************)

(* Every variable of client and server keeps its type.                      *)
THEOREM RoutesTyped == Spec => []TypeOK
<1>1. IInv => TypeOK
  BY DEF IInv
<1> QED
  BY <1>1, Inductive, PTL

(* Client and server agree about what is routed, for any handlers and any    *)
(* number of calls on their way, unless the latest patterns of the scope     *)
(* came during a removal.                                                   *)
THEOREM RoutedIsIntercepted == Spec => []RoutedMeansIntercepted
<1>1. ASSUME IInv PROVE RoutedMeansIntercepted
  <2> SUFFICES ASSUME NEW s \in Scope \ overlapped, ~Busy(s), ~gone, routes[s] # <<>>
               PROVE  /\ HandlersIn(routes[s]) \subseteq matchers[s]
                      /\ interceptors[s] > 0 /\ enabled
    BY DEF RoutedMeansIntercepted, Agreed
  <2>1. /\ TypeOK /\ PatternsOK /\ InstalledOK /\ routes[s] \in Seq(Handler)
        /\ removing[s] \in Nat /\ enabled \in BOOLEAN
    BY <1>1 DEF IInv, TypeOK
  <2>2. /\ ~(removing[s] > 0) /\ enabled = NeedsRequestInterception
        /\ \A i \in DOMAIN toServer : ~About(toServer[i], s)
    BY DEF Busy, About
  <2>3. HandlersIn(routes[s]) \subseteq matchers[s]
    BY <2>1, <2>2 DEF PatternsOK, Agrees, Known
  <2>4. HandlersIn(routes[s]) # {}
    <3>1. 1 \in DOMAIN routes[s]
      BY <2>1
    <3> QED
      BY <3>1 DEF HandlersIn
  <2>5. interceptors[s] > 0
    BY <2>1, <2>2, <2>3, <2>4 DEF InstalledOK
  <2> QED
    BY <2>1, <2>2, <2>3, <2>5 DEF NeedsRequestInterception
<1> QED
  BY <1>1, Inductive, PTL

(* What a user's handlers rely on: times, unrouteAll("wait") and the answer  *)
(* that a request was handled, for any handlers, times and requests, until   *)
(* the page is gone and beyond.                                             *)
THEOREM HandlersAreServed == Spec => HandlerContract
<1> DEFINE Kept ==
      /\ \A h \in Handler : handledCount'[h] <= AtMost(h)
      /\ \A s \in Scope : waits[s] # None /\ waits'[s] = None =>
           \A h \in waits[s].removed, r \in Request :
             Running(r, h) => chain[r].didThrow
      /\ \A r \in Request : chain'[r].promise = "handled" =>
           route'[r].state \in {"continued", "settled"} \/ gone'
<1>1. ASSUME IInv, IInv', [Next]_vars PROVE [Kept]_vars
  <2> SUFFICES ASSUME Next PROVE Kept
    BY <1>1
  <2>1. \A h \in Handler : handledCount'[h] <= AtMost(h)
    BY <1>1 DEF IInv, ListsOK
  <2>2. \A r \in Request : chain'[r].promise = "handled" =>
           route'[r].state \in {"continued", "settled"} \/ gone'
    BY <1>1 DEF IInv, CallsOK
  <2>3. ASSUME NEW s \in Scope, waits[s] # None, waits'[s] = None,
               NEW h \in waits[s].removed, NEW r \in Request, Running(r, h)
        PROVE  chain[r].didThrow
    <3>1. WaitIsOver(s)
      BY <1>1, <2>3, OnlyWaitIsOver DEF IInv
    <3>2. <<h, r>> \notin waits[s].on
      <4>1. \A w \in waits[s].on : ~Running(w[2], w[1])
        BY <3>1 DEF WaitIsOver
      <4>2. <<h, r>>[1] = h /\ <<h, r>>[2] = r
        OBVIOUS
      <4> QED
        BY <2>3, <4>1, <4>2, Zenon
    <3> QED
      BY <1>1, <2>3, <3>2 DEF IInv, WaitsOK
  <2> QED
    BY <2>1, <2>2, <2>3
<1> QED
  BY <1>1, Inductive, PTL DEF Spec, HandlerContract
=============================================================================
