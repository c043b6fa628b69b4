------------------------- MODULE NetworkManagerProofs -------------------------
(***************************************************************************)
(* Proofs about NetworkManager, for chains of any length and any number of *)
(* changes of interception: its types, that what it reports is what        *)
(* RequestReports promises, and that it loses no request of a load.        *)
(*                                                                         *)
(* The argument goes in three steps.  The handlers are summed up by what   *)
(* they report, keep and let go (Effect, Begins, Skips, IsOver).  Then the *)
(* steps of the browser and of the manager are told by what matters of     *)
(* them (BrowserStep, ManagerStep), and the invariant is shown to survive  *)
(* each of the two.  Last, a step of the manager is matched with one of    *)
(* RequestReports.  For the loads the same steps are told once more, by    *)
(* what becomes of the answers (AnswersStep) and of the load (LoadStep).   *)
(***************************************************************************)
EXTENDS NetworkManager, SequenceTheorems, TLAPS

(***************************************************************************)
(* The inductive invariant.                                                *)
(***************************************************************************)
FirstPause(h) == [hop |-> h, again |-> FALSE]

(* requestWillBeSent of h, and the event of its first pause, are on the way. *)
AnnouncedIn(list, h) == \E i \in DOMAIN list : /\ list[i].event = "requestWillBeSent"
                                                /\ list[i].hop = h
Announced(h) == AnnouncedIn(network, h)
PauseComing(h) == \E i \in DOMAIN fetch : fetch[i] = [event |-> "paused", pause |-> FirstPause(h)]

(* The manager has not taken h for begun, but will be told or has been.      *)
Kept(s, h) == s.sent # None /\ s.sent.hop = h
Unstarted(h) == Announced(h) \/ Kept(m, h)

(* A handler may let pause p go, or has done so.                            *)
LetsGo(list, p) == \E i \in DOMAIN list : /\ list[i].method \in {"continue", "fulfill", "fail"}
                                          /\ list[i].pause = p
HeldByRoute(s, p) == \E k \in Hop : s.requests[k].route = "open" /\ s.requests[k].interception = p
Answering(p) == HeldByRoute(m, p) \/ LetsGo(commands, p)

(* The part of the types that is not in TypeOK.                             *)
RoutesHold(s) == \A h \in Hop : s.requests[h].route = "open" => s.requests[h].interception \in Pause
PausesHaveIds == \A h \in Hop : browser.pausing[h] = "yes" => browser.id \in Pause

(* What comes of the order in which the browser sends its events.            *)
Future == \A h \in Hop :
            h > browser.hop \/ browser.stage = "none" =>
              /\ ~Unstarted(h) /\ m.requests[h].report = "new"
              /\ expecting[h] = "unheard" /\ browser.pausing[h] = "undecided"
              /\ ~PauseComing(h) /\ ~Answering(FirstPause(h)) /\ m.paused # FirstPause(h)

Past == \A h \in Hop :
          \/ h < browser.hop
          \/ h = browser.hop /\ browser.stage \notin {"none", "begun", "over"}
          => browser.pausing[h] # "undecided"

Beginning == /\ browser.stage = "begun" => browser.pausing[browser.hop] = "undecided"
             /\ browser.stage = "none" => browser.hop = 0

InOrder(list) ==
  \A i, j \in DOMAIN list :
    /\ i < j
    /\ list[i].event = "requestWillBeSent" /\ list[j].event = "requestWillBeSent"
    => list[i].hop < list[j].hop

AnnouncedInOrder ==
  /\ InOrder(network)
  /\ \A h \in Hop : Announced(h) => expecting[h] = "unheard"
  /\ \A g, h \in Hop : Announced(h) /\ Kept(m, g) => g < h

EndIsLast ==
  \A i \in DOMAIN network :
    network[i].event \in {"loadingFinished", "loadingFailed"} =>
      i = Len(network) /\ browser.stage = "over"

ByKind ==
  /\ kind = "viaWorker" =>
       /\ \A h \in Hop : browser.pausing[h] \in {"undecided", "no"}
       /\ \A i \in DOMAIN fetch : fetch[i].event # "paused"
       /\ m.paused = None /\ browser.stage # "paused"
  /\ kind = "foreign" => network = <<>> /\ m.sent = None

KeptIsExpected == \A h \in Hop : Kept(m, h) => expecting[h] = "yes"

NeverBoth == m.sent = None \/ m.paused = None

Structure == /\ RoutesHold(m) /\ PausesHaveIds /\ Future /\ Past /\ Beginning
             /\ AnnouncedInOrder /\ EndIsLast /\ ByKind /\ KeptIsExpected /\ NeverBoth

(* As long as nothing disturbs.                                             *)
Live(s) == {h \in Hop : s.requests[h].report = "live"}
NewFrom(s, h) == \A k \in Hop : k >= h => s.requests[k].report = "new"

OneIsLive == Live(m) = IF m.request = None THEN {} ELSE {m.request}

(* An event the manager keeps for good: it waits in vain for a service       *)
(* worker's request to be paused, and goes on with the next one of the chain. *)
Forgotten == /\ kind = "viaWorker"
             /\ \/ m.request # None \/ ~frame
                \/ network = <<>> /\ browser.stage = "over"

NewInOrder == /\ \A h \in Hop : Announced(h) => NewFrom(m, h)
              /\ \A h \in Hop : Kept(m, h) => NewFrom(m, h) \/ (h = 0 /\ Forgotten)

UnstartedIsHeld ==
  \A h \in Hop : Unstarted(h) =>
    /\ ~Answering(FirstPause(h))
    /\ browser.pausing[h] = "yes" =>
         /\ browser.hop = h
         /\ \/ browser.stage = "over"
            \/ browser.stage = "paused" /\ browser.id = FirstPause(h)
         /\ PauseComing(h) \/ (Announced(h) /\ m.paused # None)

Ordered == OneIsLive /\ NewInOrder /\ UnstartedIsHeld

IInv == TypeOK /\ Structure /\ (Disturbed \/ Ordered)

(***************************************************************************)
(* The helpers of the handlers.                                            *)
(***************************************************************************)
(* All but what a request says of its answer.                               *)
SameButAnswers(s, t) ==
  /\ t.needs = s.needs /\ t.user = s.user /\ t.credentials = s.credentials
  /\ t.protocol = s.protocol /\ t.sent = s.sent /\ t.paused = s.paused
  /\ t.request = s.request /\ t.attempted = s.attempted /\ t.out = s.out
  /\ \A h \in Hop : /\ t.requests[h].report = s.requests[h].report
                    /\ t.requests[h].route = s.requests[h].route
                    /\ t.requests[h].interception = s.requests[h].interception
                    /\ t.requests[h].original = s.requests[h].original

SameAnswer(s, t, k) == /\ t.requests[k].response = s.requests[k].response
                      /\ t.requests[k].failed = s.requests[k].failed
                      /\ t.requests[k].empty = s.requests[k].empty

(* What the tracker leaves alone.                                           *)
Untouched(s, t) == SameButAnswers(s, t) /\ \A k \in Hop : SameAnswer(s, t, k)

LEMMA UntouchedTwice ==
  ASSUME NEW s, NEW t, NEW u, Untouched(s, t), Untouched(t, u)
  PROVE  Untouched(s, u)
BY DEF Untouched, SameButAnswers, SameAnswer

LEMMA UntouchedSelf ==
  ASSUME NEW s PROVE Untouched(s, s)
BY DEF Untouched, SameButAnswers, SameAnswer

LEMMA HeadersUpdate ==
  ASSUME NEW s \in Manager, NEW h \in Hop, NEW r \in Request,
         r.report = s.requests[h].report, r.route = s.requests[h].route,
         r.interception = s.requests[h].interception, r.original = s.requests[h].original
  PROVE  LET t == [s EXCEPT !.requests[h] = r]
         IN /\ t \in Manager /\ SameButAnswers(s, t) /\ t.tracker = s.tracker /\ t.requests[h] = r
            /\ \A k \in Hop \ {h} : SameAnswer(s, t, k)
            /\ (/\ r.response = s.requests[h].response /\ r.failed = s.requests[h].failed
                /\ r.empty = s.requests[h].empty) => Untouched(s, t)
<1> DEFINE f == [s.requests EXCEPT ![h] = r]
           t == [s EXCEPT !.requests = f]
<1>1. s.requests \in [Hop -> Request]
  BY DEF Manager
<1>2. f \in [Hop -> Request]
  BY <1>1
<1>3. t \in Manager
  BY <1>2 DEF Manager
<1>4. SameButAnswers(s, t) /\ t.tracker = s.tracker /\ t.requests[h] = r
  BY <1>1, <1>2 DEF SameButAnswers, Manager
<1>5. \A k \in Hop \ {h} : SameAnswer(s, t, k)
  BY <1>1 DEF SameAnswer, Manager
<1>6. (/\ r.response = s.requests[h].response /\ r.failed = s.requests[h].failed
       /\ r.empty = s.requests[h].empty) => Untouched(s, t)
  <2> HIDE DEF t
  <2> QED BY <1>4, <1>5 DEF Untouched, SameAnswer
<1> QED BY <1>3, <1>4, <1>5, <1>6

LEMMA SetRawRequestKeeps ==
  ASSUME NEW s \in Manager, NEW h \in Hop, NEW value \in {"provisional", "own", "other"}
  PROVE  LET t == SetRawRequest(s, h, value)
         IN t \in Manager /\ Untouched(s, t) /\ t.tracker = s.tracker
<1> DEFINE r == [s.requests[h] EXCEPT !.rawRequest = value]
           t == [s EXCEPT !.requests[h] = r]
<1>1. s.requests \in [Hop -> Request]
  BY DEF Manager
<1>2. /\ r \in Request
      /\ r.report = s.requests[h].report /\ r.route = s.requests[h].route
      /\ r.interception = s.requests[h].interception /\ r.original = s.requests[h].original
      /\ r.response = s.requests[h].response /\ r.failed = s.requests[h].failed
      /\ r.empty = s.requests[h].empty
  BY <1>1 DEF Request
<1>3. t \in Manager /\ Untouched(s, t) /\ t.tracker = s.tracker
  <2> HIDE DEF r
  <2> QED BY <1>2, HeadersUpdate
<1>4. SetRawRequest(s, h, value) \in {s, t}
  BY DEF SetRawRequest
<1> HIDE DEF t
<1> QED BY <1>3, <1>4, UntouchedSelf

LEMMA SetRawResponseKeeps ==
  ASSUME NEW s \in Manager, NEW h \in Hop, NEW value \in {"provisional", "own", "other"}
  PROVE  LET t == SetRawResponse(s, h, value)
         IN t \in Manager /\ Untouched(s, t) /\ t.tracker = s.tracker
<1> DEFINE r == [s.requests[h] EXCEPT !.rawResponse = value]
           t == [s EXCEPT !.requests[h] = r]
<1>1. s.requests \in [Hop -> Request]
  BY DEF Manager
<1>2. /\ r \in Request
      /\ r.report = s.requests[h].report /\ r.route = s.requests[h].route
      /\ r.interception = s.requests[h].interception /\ r.original = s.requests[h].original
      /\ r.response = s.requests[h].response /\ r.failed = s.requests[h].failed
      /\ r.empty = s.requests[h].empty
  BY <1>1 DEF Request
<1>3. t \in Manager /\ Untouched(s, t) /\ t.tracker = s.tracker
  <2> HIDE DEF r
  <2> QED BY <1>2, HeadersUpdate
<1>4. SetRawResponse(s, h, value) \in {s, t}
  BY DEF SetRawResponse
<1> HIDE DEF t
<1> QED BY <1>3, <1>4, UntouchedSelf

LEMMA TrackerUpdate ==
  ASSUME NEW s \in Manager, NEW e \in Entry \cup {None}
  PROVE  LET t == [s EXCEPT !.tracker = e]
         IN t \in Manager /\ Untouched(s, t) /\ t.tracker = e
<1> DEFINE t == [s EXCEPT !.tracker = e]
<1>1. t \in Manager
  BY DEF Manager
<1>2. Untouched(s, t) /\ t.tracker = e
  BY DEF Untouched, SameButAnswers, SameAnswer, Manager
<1> QED BY <1>1, <1>2

LEMMA PatchSentKeeps ==
  ASSUME NEW s \in Manager, s.tracker \in Entry, NEW i \in Nat
  PROVE  LET t == PatchSent(s, i)
         IN t \in Manager /\ Untouched(s, t) /\ t.tracker \in Entry
<1> DEFINE h == s.tracker.responses[i]
           value == OriginOf(h, s.tracker.sentExtra[i])
           t == SetRawRequest(s, h, value)
           e == [t.tracker EXCEPT !.sentExtra[i] = None]
<1>1. CASE i \in DOMAIN s.tracker.responses /\ Present(s.tracker.sentExtra, i)
  <2>1. h \in Hop /\ value \in {"own", "other"}
    BY <1>1 DEF Entry, OriginOf
  <2>2. t \in Manager /\ Untouched(s, t) /\ t.tracker = s.tracker
    BY <2>1, SetRawRequestKeeps
  <2>3. e \in Entry
    <3>1. /\ t.tracker.sentExtra \in Seq(Hop \cup {None})
          /\ i \in 1..Len(t.tracker.sentExtra)
      BY <1>1, <2>2 DEF Present, Entry
    <3>2. [t.tracker.sentExtra EXCEPT ![i] = None] \in Seq(Hop \cup {None})
      BY <3>1, ExceptSeq
    <3> QED BY <2>2, <3>2 DEF Entry
  <2>4. PatchSent(s, i) = [t EXCEPT !.tracker = e]
    BY <1>1 DEF PatchSent
  <2> QED BY <2>2, <2>3, <2>4, TrackerUpdate, UntouchedTwice
<1>2. CASE ~(i \in DOMAIN s.tracker.responses /\ Present(s.tracker.sentExtra, i))
  BY <1>2 DEF PatchSent, Untouched, SameButAnswers, SameAnswer
<1> QED BY <1>1, <1>2

LEMMA PatchReceivedKeeps ==
  ASSUME NEW s \in Manager, s.tracker \in Entry, NEW i \in Nat
  PROVE  LET t == PatchReceived(s, i)
         IN t \in Manager /\ Untouched(s, t) /\ t.tracker \in Entry
<1> DEFINE h == s.tracker.responses[i]
           value == OriginOf(h, s.tracker.receivedExtra[i])
           t == SetRawResponse(s, h, value)
           e == [t.tracker EXCEPT !.receivedExtra[i] = None]
<1>1. CASE i \in DOMAIN s.tracker.responses /\ Present(s.tracker.receivedExtra, i)
  <2>1. h \in Hop /\ value \in {"own", "other"}
    BY <1>1 DEF Entry, OriginOf
  <2>2. t \in Manager /\ Untouched(s, t) /\ t.tracker = s.tracker
    BY <2>1, SetRawResponseKeeps
  <2>3. e \in Entry
    <3>1. /\ t.tracker.receivedExtra \in Seq(Hop \cup {None})
          /\ i \in 1..Len(t.tracker.receivedExtra)
      BY <1>1, <2>2 DEF Present, Entry
    <3>2. [t.tracker.receivedExtra EXCEPT ![i] = None] \in Seq(Hop \cup {None})
      BY <3>1, ExceptSeq
    <3> QED BY <2>2, <3>2 DEF Entry
  <2>4. PatchReceived(s, i) = [t EXCEPT !.tracker = e]
    BY <1>1 DEF PatchReceived
  <2> QED BY <2>2, <2>3, <2>4, TrackerUpdate, UntouchedTwice
<1>2. CASE ~(i \in DOMAIN s.tracker.responses /\ Present(s.tracker.receivedExtra, i))
  BY <1>2 DEF PatchReceived, Untouched, SameButAnswers, SameAnswer
<1> QED BY <1>1, <1>2

LEMMA PatchHeadersKeeps ==
  ASSUME NEW s \in Manager, s.tracker \in Entry, NEW i \in Nat
  PROVE  LET t == PatchHeaders(s, i)
         IN t \in Manager /\ Untouched(s, t) /\ t.tracker \in Entry
BY PatchSentKeeps, PatchReceivedKeeps, UntouchedTwice DEF PatchHeaders

LEMMA CheckFinishedKeeps ==
  ASSUME NEW s \in Manager
  PROVE  LET t == CheckFinished(s) IN t \in Manager /\ Untouched(s, t)
<1>1. CheckFinished(s) \in {s, [s EXCEPT !.tracker = None]}
  BY DEF CheckFinished
<1> QED BY <1>1, TrackerUpdate, UntouchedSelf

LEMMA EntryOfType ==
  ASSUME NEW s \in Manager PROVE EntryOf(s) \in Entry
<1>1. NewEntry \in Entry
  BY DEF NewEntry, Entry
<1> QED BY <1>1 DEF EntryOf, Manager

(* Extra info never changes what is reported or sent.                       *)
LEMMA ExtraInfoKeeps ==
  ASSUME NEW s \in Manager, NEW h \in Hop
  PROVE  /\ RequestWillBeSentExtraInfo(s, h) \in Manager
         /\ Untouched(s, RequestWillBeSentExtraInfo(s, h))
         /\ ResponseReceivedExtraInfo(s, h) \in Manager
         /\ Untouched(s, ResponseReceivedExtraInfo(s, h))
<1> DEFINE e == [EntryOf(s) EXCEPT !.sentExtra = Append(@, h)]
           f == [EntryOf(s) EXCEPT !.receivedExtra = Append(@, h)]
<1>1. e \in Entry /\ Len(e.sentExtra) \in Nat /\ f \in Entry /\ Len(f.receivedExtra) \in Nat
  <2>1. EntryOf(s) \in Entry
    BY EntryOfType
  <2>2. /\ Append(EntryOf(s).sentExtra, h) \in Seq(Hop \cup {None})
        /\ Append(EntryOf(s).receivedExtra, h) \in Seq(Hop \cup {None})
    BY <2>1 DEF Entry
  <2>3. e \in Entry /\ f \in Entry
    BY <2>1, <2>2 DEF Entry
  <2> QED BY <2>3 DEF Entry
<1>2. /\ [s EXCEPT !.tracker = e] \in Manager /\ Untouched(s, [s EXCEPT !.tracker = e])
      /\ [s EXCEPT !.tracker = e].tracker = e
      /\ [s EXCEPT !.tracker = f] \in Manager /\ Untouched(s, [s EXCEPT !.tracker = f])
      /\ [s EXCEPT !.tracker = f].tracker = f
  BY <1>1, TrackerUpdate
<1> DEFINE t == PatchHeaders([s EXCEPT !.tracker = e], Len(e.sentExtra))
           u == PatchHeaders([s EXCEPT !.tracker = f], Len(f.receivedExtra))
<1>3. t \in Manager /\ Untouched(s, t) /\ u \in Manager /\ Untouched(s, u)
  BY <1>1, <1>2, PatchHeadersKeeps, UntouchedTwice
<1> HIDE DEF t, u
<1>4. /\ CheckFinished(t) \in Manager /\ Untouched(s, CheckFinished(t))
      /\ CheckFinished(u) \in Manager /\ Untouched(s, CheckFinished(u))
  BY <1>3, CheckFinishedKeeps, UntouchedTwice
<1> QED BY <1>4 DEF t, u, RequestWillBeSentExtraInfo, ResponseReceivedExtraInfo

LEMMA ServedFromCacheKeeps ==
  ASSUME NEW s \in Manager
  PROVE  LET t == RequestServedFromCache(s) IN t \in Manager /\ Untouched(s, t)
<1> DEFINE e == [EntryOf(s) EXCEPT !.cached = TRUE]
<1>1. e \in Entry
  BY EntryOfType DEF Entry
<1> QED BY <1>1, TrackerUpdate DEF RequestServedFromCache

LEMMA ProcessResponseKeeps ==
  ASSUME NEW s \in Manager, NEW h \in Hop, NEW hasExtraInfo
  PROVE  LET t == ProcessResponse(s, h, hasExtraInfo) IN t \in Manager /\ Untouched(s, t)
<1> DEFINE e == [EntryOf(s) EXCEPT !.responses = Append(@, h)]
<1>1. e \in Entry /\ Len(e.responses) \in Nat
  <2>1. EntryOf(s) \in Entry
    BY EntryOfType
  <2>2. Append(EntryOf(s).responses, h) \in Seq(Hop)
    BY <2>1 DEF Entry
  <2>3. e \in Entry
    BY <2>1, <2>2 DEF Entry
  <2> QED BY <2>3 DEF Entry
<1>2. /\ [s EXCEPT !.tracker = e] \in Manager /\ Untouched(s, [s EXCEPT !.tracker = e])
      /\ [s EXCEPT !.tracker = e].tracker = e
  BY <1>1, TrackerUpdate
<1> DEFINE t == PatchHeaders([s EXCEPT !.tracker = e], Len(e.responses))
           u == SetRawResponse(SetRawRequest(s, h, "provisional"), h, "provisional")
<1>3. t \in Manager /\ Untouched(s, t)
  BY <1>1, <1>2, PatchHeadersKeeps, UntouchedTwice
<1>4. u \in Manager /\ Untouched(s, u)
  BY SetRawRequestKeeps, SetRawResponseKeeps, UntouchedTwice
<1>5. ProcessResponse(s, h, hasExtraInfo) \in {t, u}
  BY DEF ProcessResponse
<1> QED BY <1>3, <1>4, <1>5

LEMMA LoadingOverKeeps ==
  ASSUME NEW s \in Manager
  PROVE  LET t == LoadingOver(s) IN t \in Manager /\ Untouched(s, t)
<1>1. CASE s.tracker = None
  BY <1>1 DEF LoadingOver, Untouched, SameButAnswers, SameAnswer
<1>2. CASE s.tracker # None
  <2> DEFINE e == [s.tracker EXCEPT !.over = TRUE]
  <2>1. e \in Entry
    BY <1>2 DEF Manager, Entry
  <2>2. [s EXCEPT !.tracker = e] \in Manager /\ Untouched(s, [s EXCEPT !.tracker = e])
    BY <2>1, TrackerUpdate
  <2>3. LoadingOver(s) = CheckFinished([s EXCEPT !.tracker = e])
    BY <1>2 DEF LoadingOver
  <2> QED BY <2>2, <2>3, CheckFinishedKeeps, UntouchedTwice
<1> QED BY <1>1, <1>2

LEMMA CreateResponseKeeps ==
  ASSUME NEW s \in Manager, NEW h \in Hop, NEW payload, NEW hasExtraInfo, NEW empty \in BOOLEAN
  PROVE  LET t == CreateResponse(s, h, payload, hasExtraInfo, empty)
         IN /\ t \in Manager /\ SameButAnswers(s, t)
            /\ \A k \in Hop \ {h} : SameAnswer(s, t, k)
            /\ t.requests[h].response # "none" /\ t.requests[h].empty = empty
            /\ t.requests[h].failed = s.requests[h].failed
<1> DEFINE r == [s.requests[h] EXCEPT !.response = OriginOf(h, payload),
                                      !.empty = empty, !.rawResponse = "pending"]
           t == [s EXCEPT !.requests[h] = r]
<1>1. s.requests \in [Hop -> Request]
  BY DEF Manager
<1>2. /\ r \in Request
      /\ r.report = s.requests[h].report /\ r.route = s.requests[h].route
      /\ r.interception = s.requests[h].interception /\ r.original = s.requests[h].original
  <2>1. s.requests[h] \in Request /\ OriginOf(h, payload) \in {"own", "other"}
    BY <1>1 DEF OriginOf
  <2> QED BY <2>1 DEF Request
<1>3. /\ t \in Manager /\ SameButAnswers(s, t) /\ t.requests[h] = r
      /\ \A k \in Hop \ {h} : SameAnswer(s, t, k)
  <2> HIDE DEF r
  <2> QED BY <1>2, HeadersUpdate
<1>4. t = [s EXCEPT !.requests[h].response = OriginOf(h, payload),
                    !.requests[h].empty = empty,
                    !.requests[h].rawResponse = "pending"]
  BY <1>1 DEF Manager, Request
<1>5. CreateResponse(s, h, payload, hasExtraInfo, empty) = ProcessResponse(t, h, hasExtraInfo)
  BY <1>4 DEF CreateResponse
<1> DEFINE u == ProcessResponse(t, h, hasExtraInfo)
<1>6. r.response # "none" /\ r.empty = empty /\ r.failed = s.requests[h].failed
  BY <1>1 DEF OriginOf, Request
<1> HIDE DEF r, t
<1>7. u \in Manager /\ Untouched(t, u)
  BY <1>3, ProcessResponseKeeps
<1> HIDE DEF u
<1> QED BY <1>3, <1>5, <1>6, <1>7 DEF Untouched, SameButAnswers, SameAnswer, u

(***************************************************************************)
(* The handlers of requests.                                               *)
(***************************************************************************)
SameMind(s, t) ==
  /\ t.needs = s.needs /\ t.user = s.user /\ t.credentials = s.credentials
  /\ t.protocol = s.protocol

SameRoutes(s, t) ==
  \A k \in Hop : /\ t.requests[k].route = s.requests[k].route
                 /\ t.requests[k].interception = s.requests[k].interception

(* The request that is live is the one listed.                              *)
Listed(s) == s.request # None => s.requests[s.request].report = "live"

(* Of two managers the second one only reports that h is over.               *)
Ends(s, t, h) ==
  /\ SameMind(s, t) /\ SameRoutes(s, t)
  /\ t.sent = s.sent /\ t.paused = s.paused /\ t.out = s.out /\ t.request = None
  /\ \A k \in Hop : t.requests[k].report = IF k = h THEN "over" ELSE s.requests[k].report

LEMMA ReportOverEnds ==
  ASSUME NEW s \in Manager, NEW h \in Hop, NEW failed \in BOOLEAN
  PROVE  LET t == ReportOver(s, h, failed) IN t \in Manager /\ Ends(s, t, h)
<1> DEFINE r == [s.requests[h] EXCEPT !.report = "over", !.failed = failed]
           f == [s.requests EXCEPT ![h] = r]
           a == s.attempted \ {s.requests[h].interception}
           t == [s EXCEPT !.request = None, !.attempted = a, !.requests = f]
<1>1. s.requests \in [Hop -> Request] /\ a \in SUBSET Pause
  BY DEF Manager
<1>2. r \in Request /\ r.report = "over"
      /\ r.route = s.requests[h].route /\ r.interception = s.requests[h].interception
  <2>1. s.requests[h] \in Request
    BY <1>1
  <2> QED BY <2>1 DEF Request
<1>3. f \in [Hop -> Request]
  <2> HIDE DEF r
  <2> QED BY <1>1, <1>2
<1>4. t \in Manager
  <2> HIDE DEF f, a
  <2> QED BY <1>1, <1>3 DEF Manager
<1>5. Ends(s, t, h)
  <2> HIDE DEF r, a
  <2> QED BY <1>1, <1>2 DEF Ends, SameMind, SameRoutes, Manager
<1>6. ReportOver(s, h, failed) = t
  BY <1>1 DEF ReportOver, DeleteRequest, Manager
<1> QED BY <1>4, <1>5, <1>6

LEMMA UntouchedEnds ==
  ASSUME NEW s, NEW t, NEW u, NEW h \in Hop, SameButAnswers(s, t), Ends(t, u, h)
  PROVE  Ends(s, u, h)
BY DEF SameButAnswers, Ends, SameMind, SameRoutes

LEMMA RedirectEnds ==
  ASSUME NEW s \in Manager, NEW h \in Hop, NEW event \in Sent
  PROVE  LET t == HandleRequestRedirect(s, h, event) IN t \in Manager /\ Ends(s, t, h)
<1> DEFINE t == CreateResponse(s, h, event.hop - 1, event.redirected, FALSE)
<1>1. t \in Manager /\ SameButAnswers(s, t)
  BY CreateResponseKeeps
<1>2. HandleRequestRedirect(s, h, event) = ReportOver(t, h, FALSE)
  BY DEF HandleRequestRedirect
<1> HIDE DEF t
<1>3. ReportOver(t, h, FALSE) \in Manager /\ Ends(t, ReportOver(t, h, FALSE), h)
  BY <1>1, ReportOverEnds
<1> QED BY <1>1, <1>2, <1>3, UntouchedEnds

LEMMA SendKeeps ==
  ASSUME NEW s \in Manager, NEW method, NEW pause,
         [method |-> method, pause |-> pause] \in Command
  PROVE  LET t == Send(s, method, pause)
         IN /\ t \in Manager
            /\ SameMind(s, t) /\ SameRoutes(s, t) /\ t.sent = s.sent /\ t.paused = s.paused
            /\ t.request = s.request /\ t.requests = s.requests
            /\ t.tracker = s.tracker /\ t.attempted = s.attempted
            /\ t.out = Append(s.out, [method |-> method, pause |-> pause])
<1> DEFINE o == Append(s.out, [method |-> method, pause |-> pause])
           t == [s EXCEPT !.out = o]
<1>1. o \in Seq(Command)
  BY DEF Manager
<1>2. t \in Manager
  <2> HIDE DEF o
  <2> QED BY <1>1 DEF Manager
<1>3. Send(s, method, pause) = t
  BY DEF Send
<1>4. SameMind(s, t) /\ SameRoutes(s, t) /\ t.sent = s.sent /\ t.paused = s.paused
      /\ t.request = s.request /\ t.requests = s.requests
      /\ t.tracker = s.tracker /\ t.attempted = s.attempted /\ t.out = o
  BY DEF SameMind, SameRoutes, Manager
<1> QED BY <1>2, <1>3, <1>4

(* What the manager sends or holds in a route after a handler, it did before *)
(* it or has from the pause the handler got.                                *)
OnlyLetsGo(s, t, pause) ==
  \A p \in Pause : /\ HeldByRoute(t, p) => HeldByRoute(s, p) \/ p = pause
                   /\ LetsGo(t.out, p) => LetsGo(s.out, p) \/ p = pause

LEMMA AppendLetsGo ==
  ASSUME NEW list \in Seq(Command), NEW method, NEW pause, NEW p \in Pause,
         LetsGo(Append(list, [method |-> method, pause |-> pause]), p)
  PROVE  LetsGo(list, p) \/ (p = pause /\ method \in {"continue", "fulfill", "fail"})
BY DEF LetsGo

LEMMA SendLetsGo ==
  ASSUME NEW s \in Manager, NEW method, NEW pause,
         [method |-> method, pause |-> pause] \in Command
  PROVE  OnlyLetsGo(s, Send(s, method, pause), pause)
<1> DEFINE t == Send(s, method, pause)
<1>1. SameRoutes(s, t) /\ t.out = Append(s.out, [method |-> method, pause |-> pause])
      /\ s.out \in Seq(Command)
  BY SendKeeps DEF Manager
<1> HIDE DEF t
<1>2. \A p \in Pause : LetsGo(t.out, p) => LetsGo(s.out, p) \/ p = pause
  BY <1>1, AppendLetsGo
<1>3. \A p \in Pause : HeldByRoute(t, p) => HeldByRoute(s, p)
  BY <1>1 DEF SameRoutes, HeldByRoute
<1> QED BY <1>2, <1>3 DEF OnlyLetsGo, t

(* What OnRequest reports: the request before it, if it is listed, is over,  *)
(* and the new one starts or not.                                           *)
Predecessor(s, e) == IF e > 0 THEN s.request ELSE None
Begins(s, t, e) ==
  /\ \A k \in Hop \ {e} :
       t.requests[k].report = IF k = Predecessor(s, e) THEN "over" ELSE s.requests[k].report
  /\ t.requests[e].report = "live" /\ t.request = e
Skips(s, t, e) ==
  /\ \A k \in Hop :
       t.requests[k].report = IF k = Predecessor(s, e) THEN "over" ELSE s.requests[k].report
  /\ t.request = IF Predecessor(s, e) = None THEN s.request ELSE None

LEMMA RequestStartedBegins ==
  ASSUME NEW s \in Manager, NEW h \in Hop, NEW pause \in Pause \cup {None},
         NEW from \in Hop \cup {None}
  PROVE  LET t == RequestStarted(s, h, pause, from)
         IN /\ t \in Manager /\ SameMind(s, t) /\ t.sent = s.sent /\ t.paused = s.paused
            /\ OnlyLetsGo(s, t, pause) /\ (RoutesHold(s) => RoutesHold(t))
            /\ t.requests[h].report = "live" /\ t.request = h
            /\ \A k \in Hop \ {h} : t.requests[k].report = s.requests[k].report
<1> DEFINE routed == pause # None /\ ~ContinuesAtOnce(s, from)
           original == IF routed THEN h ELSE IF from = None THEN None ELSE s.requests[from].original
           r == [NoRequest EXCEPT
                  !.report = "live",
                  !.rawRequest = IF routed THEN "paused" ELSE "pending",
                  !.interception = pause,
                  !.route = IF routed THEN "open" ELSE "none",
                  !.original = original]
           f == [s.requests EXCEPT ![h] = r]
           t == [s EXCEPT !.requests = f, !.request = h]
<1>1. s.requests \in [Hop -> Request] /\ s.out \in Seq(Command) /\ h # None
  BY NoneAssumption DEF Manager, Hop
<1>2. original \in Hop \cup {None}
  BY <1>1 DEF Request
<1>3. /\ r \in Request /\ r.report = "live" /\ r.interception = pause
      /\ r.route = "open" => pause # None
  <2> HIDE DEF original
  <2> QED BY <1>2 DEF Request, NoRequest
<1>4. f \in [Hop -> Request]
  <2> HIDE DEF r
  <2> QED BY <1>1, <1>3
<1>5. t \in Manager
  <2> HIDE DEF f
  <2> QED BY <1>1, <1>4 DEF Manager
<1>6. /\ SameMind(s, t) /\ t.sent = s.sent /\ t.paused = s.paused /\ t.out = s.out
      /\ t.requests[h].report = "live" /\ t.request = h
      /\ \A k \in Hop \ {h} : t.requests[k].report = s.requests[k].report
      /\ \A p \in Pause : HeldByRoute(t, p) => HeldByRoute(s, p) \/ p = pause
      /\ RoutesHold(s) => RoutesHold(t)
  <2> HIDE DEF r
  <2>1. t.requests = f /\ t.request = h /\ t.out = s.out
    BY DEF Manager
  <2>2. \A k \in Hop : f[k] = IF k = h THEN r ELSE s.requests[k]
    BY <1>1
  <2>3. SameMind(s, t) /\ t.sent = s.sent /\ t.paused = s.paused
    BY DEF SameMind, Manager
  <2> HIDE DEF t, f
  <2>4. t.requests[h].report = "live" /\ \A k \in Hop \ {h} : t.requests[k].report = s.requests[k].report
    BY <2>1, <2>2, <1>3
  <2>5. \A p \in Pause : HeldByRoute(t, p) => HeldByRoute(s, p) \/ p = pause
    BY <2>1, <2>2, <1>3 DEF HeldByRoute
  <2>6. RoutesHold(s) => RoutesHold(t)
    BY <2>1, <2>2, <1>3 DEF RoutesHold
  <2> QED BY <2>1, <2>3, <2>4, <2>5, <2>6
<1>7. RequestStarted(s, h, pause, from) = IF pause # None /\ ~routed THEN Send(t, "continue", pause) ELSE t
  BY <1>1 DEF RequestStarted, Manager
<1> HIDE DEF t, routed
<1>8. CASE pause # None /\ ~routed
  <2>1. [method |-> "continue", pause |-> pause] \in Command
    BY <1>8 DEF Command
  <2> DEFINE u == Send(t, "continue", pause)
  <2>2. /\ u \in Manager
        /\ SameMind(t, u) /\ SameRoutes(t, u) /\ u.sent = t.sent /\ u.paused = t.paused
        /\ u.request = t.request /\ u.requests = t.requests
        /\ OnlyLetsGo(t, u, pause)
    BY <1>5, <2>1, SendKeeps, SendLetsGo
  <2>3. RequestStarted(s, h, pause, from) = u
    BY <1>7, <1>8
  <2> HIDE DEF u
  <2>4. OnlyLetsGo(s, u, pause)
    BY <1>6, <2>2 DEF OnlyLetsGo
  <2> QED BY <1>6, <2>2, <2>3, <2>4 DEF SameMind, RoutesHold
<1>9. CASE ~(pause # None /\ ~routed)
  BY <1>5, <1>6, <1>7, <1>9 DEF OnlyLetsGo
<1> QED BY <1>8, <1>9

(* Everything that matters of a handler that may take a request for begun.   *)
Takes(s, t, e, pause) ==
  /\ t \in Manager /\ SameMind(s, t) /\ t.sent = s.sent /\ t.paused = s.paused
  /\ OnlyLetsGo(s, t, pause) /\ (RoutesHold(s) => RoutesHold(t)) /\ Listed(t)
  /\ Begins(s, t, e) \/ Skips(s, t, e)
  /\ ~frame /\ kind # "preflight" => Skips(s, t, e)
  /\ frame /\ (kind # "preflight" \/ pause = None) => Begins(s, t, e)

LEMMA EndsLetsGo ==
  ASSUME NEW s, NEW t, NEW h, Ends(s, t, h), NEW pause
  PROVE  OnlyLetsGo(s, t, pause) /\ (RoutesHold(s) => RoutesHold(t))
BY DEF Ends, OnlyLetsGo, SameRoutes, HeldByRoute, RoutesHold

LEMMA OnRequestTakes ==
  ASSUME NEW s \in Manager, Listed(s), NEW event \in Sent, NEW pause \in Pause \cup {None}
  PROVE  Takes(s, OnRequest(s, event, pause), event.hop, pause)
<1> DEFINE e == event.hop
           from == Predecessor(s, e)
           t == IF from = None THEN s ELSE HandleRequestRedirect(s, from, event)
           u == OnRequest(s, event, pause)
<1> SUFFICES Takes(s, u, e, pause)
  OBVIOUS
<1>1. e \in Hop /\ from \in Hop \cup {None} /\ e # None
  BY NoneAssumption DEF Sent, Predecessor, Manager, Hop
<1>2. /\ t \in Manager /\ SameMind(s, t) /\ t.sent = s.sent /\ t.paused = s.paused
      /\ OnlyLetsGo(s, t, pause) /\ (RoutesHold(s) => RoutesHold(t))
      /\ \A k \in Hop : t.requests[k].report = IF k = from THEN "over" ELSE s.requests[k].report
      /\ t.request = IF from = None THEN s.request ELSE None
  <2>1. CASE from = None
    <3>1. t = s
      BY <2>1
    <3>2. \A k \in Hop : k # from
      BY <2>1, NoneAssumption DEF Hop
    <3> QED BY <2>1, <3>1, <3>2 DEF SameMind, OnlyLetsGo
  <2>2. CASE from # None
    <3>1. t = HandleRequestRedirect(s, from, event) /\ from \in Hop
      BY <2>2, <1>1
    <3>2. t \in Manager /\ Ends(s, t, from)
      BY <3>1, RedirectEnds
    <3>3. OnlyLetsGo(s, t, pause) /\ (RoutesHold(s) => RoutesHold(t))
      BY <3>2, EndsLetsGo
    <3> HIDE DEF t, from
    <3> QED BY <2>2, <3>2, <3>3 DEF Ends
  <2> QED BY <2>1, <2>2
<1>3. Listed(t)
  BY <1>2, <1>1 DEF Listed, Predecessor, Manager
<1>4. Skips(s, t, e)
  BY <1>2 DEF Skips
<1>5. u = IF kind = "preflight" /\ pause # None /\ s.needs THEN Send(t, "fulfill", pause)
          ELSE IF frame THEN RequestStarted(t, e, pause, from)
          ELSE IF pause # None THEN Send(t, "continue", pause)
          ELSE t
  BY DEF OnRequest, Predecessor
<1>6. ASSUME NEW method \in {"fulfill", "continue"}, pause # None, u = Send(t, method, pause)
      PROVE  /\ u \in Manager /\ SameMind(s, u) /\ u.sent = s.sent /\ u.paused = s.paused
             /\ OnlyLetsGo(s, u, pause) /\ (RoutesHold(s) => RoutesHold(u)) /\ Listed(u)
             /\ Skips(s, u, e)
  <2>1. [method |-> method, pause |-> pause] \in Command
    BY <1>6 DEF Command
  <2> HIDE DEF t, u
  <2>2. /\ u \in Manager
        /\ SameMind(t, u) /\ SameRoutes(t, u) /\ u.sent = t.sent /\ u.paused = t.paused
        /\ u.request = t.request /\ u.requests = t.requests
        /\ OnlyLetsGo(t, u, pause)
    BY <1>2, <1>6, <2>1, SendKeeps, SendLetsGo
  <2>3. OnlyLetsGo(s, u, pause)
    BY <1>2, <2>2 DEF OnlyLetsGo
  <2> QED BY <1>2, <1>3, <1>4, <2>2, <2>3 DEF SameMind, RoutesHold, Listed, Skips
<1>7. CASE kind = "preflight" /\ pause # None /\ s.needs
  <2>1. u = Send(t, "fulfill", pause)
    BY <1>5, <1>7
  <2> HIDE DEF u, t, e
  <2> QED BY <2>1, <1>6, <1>7 DEF Takes
<1>8. CASE ~(kind = "preflight" /\ pause # None /\ s.needs) /\ frame
  <2>1. u = RequestStarted(t, e, pause, from)
    BY <1>5, <1>8
  <2> HIDE DEF u, t, from, e
  <2>2. /\ u \in Manager /\ SameMind(t, u) /\ u.sent = t.sent /\ u.paused = t.paused
        /\ OnlyLetsGo(t, u, pause) /\ (RoutesHold(t) => RoutesHold(u))
        /\ u.requests[e].report = "live" /\ u.request = e
        /\ \A k \in Hop \ {e} : u.requests[k].report = t.requests[k].report
    <3>1. t \in Manager /\ e \in Hop /\ from \in Hop \cup {None}
      BY <1>1, <1>2
    <3> QED BY ONLY <2>1, <3>1, RequestStartedBegins, pause \in Pause \cup {None}
  <2>3. OnlyLetsGo(s, u, pause)
    BY <1>2, <2>2 DEF OnlyLetsGo
  <2>4. Begins(s, u, e)
    BY <1>2, <2>2 DEF Begins, from
  <2> QED BY <1>2, <1>8, <2>2, <2>3, <2>4 DEF Takes, SameMind, Listed
<1>9. CASE ~(kind = "preflight" /\ pause # None /\ s.needs) /\ ~frame
  <2>1. CASE pause # None
    <3>1. u = Send(t, "continue", pause)
      BY <1>5, <1>9, <2>1
    <3> HIDE DEF u, t, e
    <3> QED BY <2>1, <3>1, <1>6, <1>9 DEF Takes
  <2>2. CASE pause = None
    <3>1. u = t
      BY <1>5, <1>9, <2>2
    <3> HIDE DEF u, t, e
    <3> QED BY <1>9, <3>1, <1>2, <1>3, <1>4 DEF Takes
  <2> QED BY <2>1, <2>2
<1> QED BY <1>7, <1>8, <1>9

(***************************************************************************)
(* What the handlers do to the manager.                                    *)
(***************************************************************************)
(* Types and what is let go.                                                *)
Effect(s, t, pause) ==
  /\ t \in Manager /\ Listed(t)
  /\ OnlyLetsGo(s, t, pause) /\ (RoutesHold(s) => RoutesHold(t))

SameReports(s, t) ==
  /\ t.request = s.request
  /\ \A k \in Hop : t.requests[k].report = s.requests[k].report

(* h is over and nothing is listed.                                         *)
IsOver(s, t, h) ==
  /\ t.request = None
  /\ \A k \in Hop : t.requests[k].report = IF k = h THEN "over" ELSE s.requests[k].report

LEMMA SentUpdate ==
  ASSUME NEW s \in Manager, NEW event \in Sent \cup {None}
  PROVE  LET t == [s EXCEPT !.sent = event]
         IN /\ t \in Manager /\ SameMind(s, t) /\ SameReports(s, t) /\ SameRoutes(s, t)
            /\ t.sent = event /\ t.paused = s.paused /\ t.out = s.out
BY DEF SameMind, SameReports, SameRoutes, Manager

LEMMA PausedUpdate ==
  ASSUME NEW s \in Manager, NEW pause \in Pause \cup {None}
  PROVE  LET t == [s EXCEPT !.paused = pause]
         IN /\ t \in Manager /\ SameMind(s, t) /\ SameReports(s, t) /\ SameRoutes(s, t)
            /\ t.sent = s.sent /\ t.paused = pause /\ t.out = s.out
BY DEF SameMind, SameReports, SameRoutes, Manager

LEMMA SameEffect ==
  ASSUME NEW s \in Manager, Listed(s), NEW t \in Manager, NEW pause,
         SameReports(s, t), SameRoutes(s, t), t.out = s.out
  PROVE  Effect(s, t, pause)
BY DEF Effect, SameReports, SameRoutes, Listed, OnlyLetsGo, HeldByRoute, RoutesHold, Manager

LEMMA EffectTwice ==
  ASSUME NEW s, NEW t, NEW u, NEW pause, Effect(s, t, pause), Effect(t, u, pause)
  PROVE  Effect(s, u, pause)
BY DEF Effect, OnlyLetsGo

LEMMA UntouchedEffect ==
  ASSUME NEW s \in Manager, Listed(s), NEW t \in Manager,
         Untouched(s, t) \/ SameButAnswers(s, t), NEW pause
  PROVE  /\ Effect(s, t, pause) /\ SameReports(s, t) /\ SameMind(s, t)
         /\ t.sent = s.sent /\ t.paused = s.paused
<1>1. SameReports(s, t) /\ SameRoutes(s, t) /\ t.out = s.out /\ SameMind(s, t)
  BY DEF Untouched, SameButAnswers, SameReports, SameRoutes, SameMind
<1> QED BY <1>1, SameEffect DEF Untouched, SameButAnswers, SameAnswer

LEMMA TakesEffect ==
  ASSUME NEW s, NEW t, NEW e, NEW pause, Takes(s, t, e, pause)
  PROVE  Effect(s, t, pause)
BY DEF Takes, Effect

LEMMA SendEffect ==
  ASSUME NEW s \in Manager, Listed(s), NEW method, NEW pause,
         [method |-> method, pause |-> pause] \in Command
  PROVE  LET t == Send(s, method, pause)
         IN /\ Effect(s, t, pause) /\ SameReports(s, t) /\ SameMind(s, t)
            /\ t.sent = s.sent /\ t.paused = s.paused
<1> DEFINE t == Send(s, method, pause)
<1>1. /\ t \in Manager
      /\ SameMind(s, t) /\ SameRoutes(s, t) /\ t.sent = s.sent /\ t.paused = s.paused
      /\ t.request = s.request /\ t.requests = s.requests
  BY SendKeeps
<1>2. OnlyLetsGo(s, t, pause)
  BY SendLetsGo
<1> HIDE DEF t
<1>3. SameReports(s, t) /\ Listed(t) /\ (RoutesHold(s) => RoutesHold(t))
  BY <1>1 DEF SameReports, Listed, RoutesHold
<1> QED BY <1>1, <1>2, <1>3 DEF Effect, t

LEMMA OnRequestWillBeSentEffect ==
  ASSUME NEW s \in Manager, Listed(s), NEW event \in Sent
  PROVE  LET t == OnRequestWillBeSent(s, event)
             pause == IF s.protocol THEN s.paused ELSE None
         IN /\ Effect(s, t, pause) /\ SameMind(s, t)
            /\ \/ /\ s.protocol /\ s.paused = None /\ SameReports(s, t)
                  /\ t.sent = event /\ t.paused = s.paused
               \/ /\ s.protocol => s.paused # None
                  /\ Begins(s, t, event.hop) \/ Skips(s, t, event.hop)
                  /\ ~frame /\ kind # "preflight" => Skips(s, t, event.hop)
                  /\ frame /\ kind # "preflight" => Begins(s, t, event.hop)
                  /\ t.sent = s.sent /\ t.paused = IF s.protocol THEN None ELSE s.paused
<1> DEFINE t == OnRequestWillBeSent(s, event)
           u == OnRequest(s, event, IF s.protocol THEN s.paused ELSE None)
<1>1. s.paused \in Pause \cup {None} /\ s.protocol \in BOOLEAN
  BY DEF Manager
<1>2. Takes(s, u, event.hop, IF s.protocol THEN s.paused ELSE None)
  BY <1>1, OnRequestTakes
<1>3. CASE ~s.protocol
  <2>1. t = u
    BY <1>3 DEF OnRequestWillBeSent
  <2> HIDE DEF t, u
  <2> QED BY <1>2, <1>3, <2>1, TakesEffect DEF Takes, t
<1>4. CASE s.protocol /\ s.paused = None
  <2>1. t = [s EXCEPT !.sent = event]
    BY <1>4 DEF OnRequestWillBeSent
  <2>2. /\ t \in Manager /\ SameMind(s, t) /\ SameReports(s, t) /\ SameRoutes(s, t)
        /\ t.sent = event /\ t.paused = s.paused /\ t.out = s.out
    BY <2>1, SentUpdate
  <2> HIDE DEF t
  <2> QED BY <1>4, <2>2, SameEffect DEF t
<1>5. CASE s.protocol /\ s.paused # None
  <2>1. t = [u EXCEPT !.paused = None]
    BY <1>5 DEF OnRequestWillBeSent
  <2>2. u \in Manager /\ Listed(u)
    BY <1>2 DEF Takes
  <2> HIDE DEF u
  <2>3. /\ t \in Manager /\ SameMind(u, t) /\ SameReports(u, t) /\ SameRoutes(u, t)
        /\ t.sent = u.sent /\ t.paused = None /\ t.out = u.out
    BY <2>1, <2>2, PausedUpdate
  <2> HIDE DEF t
  <2>4. Effect(s, t, s.paused)
    BY <1>2, <1>5, <2>2, <2>3, SameEffect, TakesEffect, EffectTwice
  <2>5. /\ Begins(s, t, event.hop) \/ Skips(s, t, event.hop)
        /\ ~frame /\ kind # "preflight" => Skips(s, t, event.hop)
        /\ frame /\ kind # "preflight" => Begins(s, t, event.hop)
        /\ SameMind(s, t) /\ t.sent = s.sent
    BY <1>2, <2>3 DEF Takes, Begins, Skips, SameReports, SameMind, Sent
  <2> QED BY <1>5, <2>3, <2>4, <2>5 DEF t
<1> QED BY <1>1, <1>3, <1>4, <1>5

LEMMA OnRequestPausedEffect ==
  ASSUME NEW s \in Manager, Listed(s), NEW pause \in Pause
  PROVE  LET t == OnRequestPaused(s, pause)
         IN /\ Effect(s, t, pause) /\ SameMind(s, t)
            /\ \/ /\ kind = "foreign" \/ (s.request # None /\ pause.hop = 0)
                  /\ SameReports(s, t) /\ t.sent = s.sent /\ t.paused = s.paused
                  /\ kind # "foreign" => s.sent = None
               \/ /\ kind # "foreign" /\ s.sent = None
                  /\ SameReports(s, t) /\ t.sent = s.sent /\ t.paused = pause
                  /\ Effect(s, t, None)
               \/ /\ kind # "foreign" /\ s.sent # None
                  /\ Begins(s, t, s.sent.hop) \/ Skips(s, t, s.sent.hop)
                  /\ ~frame /\ kind # "preflight" => Skips(s, t, s.sent.hop)
                  /\ frame /\ kind # "preflight" => Begins(s, t, s.sent.hop)
                  /\ t.sent = None /\ t.paused = s.paused
<1> DEFINE t == OnRequestPaused(s, pause)
           c == Send(s, "continue", pause)
           u == OnRequest(s, s.sent, pause)
<1>1. /\ Effect(s, c, pause) /\ SameReports(s, c) /\ SameMind(s, c)
      /\ c.sent = s.sent /\ c.paused = s.paused
  <2>1. [method |-> "continue", pause |-> pause] \in Command
    BY DEF Command
  <2> QED BY <2>1, SendEffect
<1>2. CASE kind = "foreign"
  <2>1. t = c
    BY <1>2 DEF OnRequestPaused
  <2> HIDE DEF t, c
  <2> QED BY <1>1, <1>2, <2>1 DEF t
<1>3. CASE kind # "foreign" /\ s.sent # None
  <2>1. t = [u EXCEPT !.sent = None]
    BY <1>3 DEF OnRequestPaused
  <2>2. s.sent \in Sent
    BY <1>3 DEF Manager
  <2>3. Takes(s, u, s.sent.hop, pause)
    BY <2>2, OnRequestTakes
  <2>4. u \in Manager /\ Listed(u)
    BY <2>3 DEF Takes
  <2> HIDE DEF u
  <2>5. /\ t \in Manager /\ SameMind(u, t) /\ SameReports(u, t) /\ SameRoutes(u, t)
        /\ t.sent = None /\ t.paused = u.paused /\ t.out = u.out
    BY <2>1, <2>4, SentUpdate
  <2> HIDE DEF t
  <2>6. Effect(s, t, pause)
    BY <2>3, <2>4, <2>5, SameEffect, TakesEffect, EffectTwice
  <2>7. /\ Begins(s, t, s.sent.hop) \/ Skips(s, t, s.sent.hop)
        /\ ~frame /\ kind # "preflight" => Skips(s, t, s.sent.hop)
        /\ frame /\ kind # "preflight" => Begins(s, t, s.sent.hop)
        /\ SameMind(s, t) /\ t.paused = s.paused
    BY <2>2, <2>3, <2>5 DEF Takes, Begins, Skips, SameReports, SameMind, Sent
  <2> QED BY <1>3, <2>5, <2>6, <2>7 DEF t
<1>4. CASE kind # "foreign" /\ s.sent = None /\ AlreadyContinued(s) /\ pause.hop = 0
  <2>1. t = c
    BY <1>4 DEF OnRequestPaused
  <2>2. s.request # None
    BY <1>4 DEF AlreadyContinued
  <2> HIDE DEF t, c
  <2> QED BY <1>1, <1>4, <2>1, <2>2 DEF t
<1>5. CASE kind # "foreign" /\ s.sent = None /\ ~(AlreadyContinued(s) /\ pause.hop = 0)
  <2>1. t = [s EXCEPT !.paused = pause]
    BY <1>5 DEF OnRequestPaused
  <2>2. /\ t \in Manager /\ SameMind(s, t) /\ SameReports(s, t) /\ SameRoutes(s, t)
        /\ t.sent = s.sent /\ t.paused = pause /\ t.out = s.out
    BY <2>1, PausedUpdate
  <2> HIDE DEF t
  <2> QED BY <1>5, <2>2, SameEffect DEF t
<1> QED BY <1>2, <1>3, <1>4, <1>5

LEMMA OnAuthRequiredEffect ==
  ASSUME NEW s \in Manager, Listed(s), NEW pause \in Pause
  PROVE  LET t == OnAuthRequired(s, pause)
         IN /\ Effect(s, t, None) /\ SameReports(s, t) /\ SameMind(s, t)
            /\ t.sent = s.sent /\ t.paused = s.paused
<1> DEFINE t == OnAuthRequired(s, pause)
<1>1. ASSUME NEW method \in {"credentials", "cancelAuth", "default"}
      PROVE  LET u == Send(s, method, pause)
             IN /\ Effect(s, u, None) /\ SameReports(s, u) /\ SameMind(s, u) /\ u \in Manager
                /\ u.sent = s.sent /\ u.paused = s.paused
  <2> DEFINE u == Send(s, method, pause)
  <2>1. [method |-> method, pause |-> pause] \in Command
    BY DEF Command
  <2>2. /\ Effect(s, u, pause) /\ SameReports(s, u) /\ SameMind(s, u)
        /\ u.sent = s.sent /\ u.paused = s.paused
    BY <2>1, SendEffect
  <2>3. /\ SameRoutes(s, u) /\ u.out = Append(s.out, [method |-> method, pause |-> pause])
        /\ s.out \in Seq(Command)
    BY <2>1, SendKeeps DEF Manager
  <2> HIDE DEF u
  <2>4. OnlyLetsGo(s, u, None)
    BY <2>3, AppendLetsGo DEF OnlyLetsGo, SameRoutes, HeldByRoute
  <2> QED BY <2>2, <2>4 DEF Effect, u
<1>2. CASE t = Send(s, "credentials", pause) \/ t = Send(s, "cancelAuth", pause)
           \/ t = Send(s, "default", pause)
  <2> HIDE DEF t
  <2> QED BY <1>1, <1>2 DEF t
<1>3. CASE t = [Send(s, "credentials", pause) EXCEPT !.attempted = @ \cup {pause}]
  <2> DEFINE u == Send(s, "credentials", pause)
             a == u.attempted \cup {pause}
  <2>1. /\ Effect(s, u, None) /\ SameReports(s, u) /\ SameMind(s, u) /\ u \in Manager
        /\ u.sent = s.sent /\ u.paused = s.paused
    BY <1>1
  <2> HIDE DEF u
  <2>2. a \in SUBSET Pause
    BY <2>1 DEF Manager
  <2>3. t = [u EXCEPT !.attempted = a]
    BY <1>3 DEF u
  <2> HIDE DEF a
  <2>4. /\ t \in Manager /\ SameMind(u, t) /\ SameReports(u, t) /\ SameRoutes(u, t)
        /\ t.sent = u.sent /\ t.paused = u.paused /\ t.out = u.out
    <3> HIDE DEF t
    <3> QED BY <2>1, <2>2, <2>3 DEF Manager, SameMind, SameReports, SameRoutes
  <2> HIDE DEF t
  <2>5. Listed(u)
    BY <2>1 DEF Effect
  <2>6. Effect(s, t, None)
    BY <2>1, <2>4, <2>5, SameEffect, EffectTwice
  <2> QED BY <2>1, <2>4, <2>6 DEF SameMind, SameReports, t
<1>4. \/ t = Send(s, "credentials", pause) \/ t = Send(s, "cancelAuth", pause)
      \/ t = Send(s, "default", pause)
      \/ t = [Send(s, "credentials", pause) EXCEPT !.attempted = @ \cup {pause}]
  BY DEF OnAuthRequired
<1> QED BY <1>2, <1>3, <1>4

(* Either nothing, or what waits begins at last.                             *)
StopsWaiting(s, t) ==
  /\ Effect(s, t, None) /\ SameMind(s, t) /\ t.paused = s.paused
  /\ \/ (s.request # None \/ s.sent = None) /\ SameReports(s, t) /\ t.sent = s.sent
     \/ /\ s.request = None /\ s.sent # None /\ t.sent = None
        /\ Begins(s, t, s.sent.hop) \/ SameReports(s, t)
        /\ ~frame /\ kind # "preflight" => SameReports(s, t)
        /\ frame => Begins(s, t, s.sent.hop)

LEMMA StopWaitingEffect ==
  ASSUME NEW s \in Manager, Listed(s)
  PROVE  StopsWaiting(s, StopWaiting(s))
<1> DEFINE t == StopWaiting(s)
           u == [s EXCEPT !.sent = None]
<1>1. CASE s.request # None \/ s.sent = None
  <2>1. t = s
    BY <1>1 DEF StopWaiting
  <2>2. SameReports(s, s) /\ SameRoutes(s, s) /\ SameMind(s, s)
    BY DEF SameReports, SameRoutes, SameMind
  <2>3. Effect(s, s, None)
    BY <2>2, SameEffect
  <2> QED BY <1>1, <2>1, <2>2, <2>3 DEF StopsWaiting
<1>2. CASE s.request = None /\ s.sent # None
  <2>1. t = OnRequest(u, s.sent, None) /\ s.sent \in Sent
    BY <1>2 DEF StopWaiting, Manager
  <2>2. /\ u \in Manager /\ SameMind(s, u) /\ SameReports(s, u) /\ SameRoutes(s, u)
        /\ u.sent = None /\ u.paused = s.paused /\ u.out = s.out
    BY SentUpdate
  <2> HIDE DEF u
  <2>3. Effect(s, u, None) /\ Listed(u)
    BY <2>2, SameEffect DEF Effect
  <2>4. Takes(u, t, s.sent.hop, None)
    BY <2>1, <2>2, <2>3, OnRequestTakes
  <2> HIDE DEF t
  <2>5. Effect(s, t, None)
    BY <2>3, <2>4, TakesEffect, EffectTwice
  <2>6. Predecessor(u, s.sent.hop) = None /\ Predecessor(s, s.sent.hop) = None
    BY <1>2, <2>2 DEF Predecessor, SameReports
  <2>7. \A k \in Hop : k # None
    BY NoneAssumption DEF Hop
  <2>8. /\ Begins(u, t, s.sent.hop) => Begins(s, t, s.sent.hop)
        /\ Skips(u, t, s.sent.hop) => SameReports(s, t)
    BY <1>2, <2>2, <2>6, <2>7 DEF Begins, Skips, SameReports
  <2> QED BY <1>2, <2>2, <2>4, <2>5, <2>8 DEF Takes, SameMind, StopsWaiting, t
<1> QED BY <1>1, <1>2

LEMMA OnResponseReceivedEffect ==
  ASSUME NEW s \in Manager, Listed(s), NEW h, NEW hasExtraInfo, NEW empty \in BOOLEAN
  PROVE  LET t == OnResponseReceived(s, h, hasExtraInfo, empty)
         IN /\ Effect(s, t, None) /\ SameMind(s, t) /\ t.paused = s.paused
            /\ IF kind = "viaWorker" THEN StopsWaiting(s, t)
               ELSE SameReports(s, t) /\ t.sent = s.sent
<1> DEFINE t == OnResponseReceived(s, h, hasExtraInfo, empty)
           u == IF kind = "viaWorker" THEN StopWaiting(s) ELSE s
<1>1. /\ Effect(s, u, None) /\ SameMind(s, u) /\ u.paused = s.paused /\ u \in Manager /\ Listed(u)
      /\ IF kind = "viaWorker" THEN StopsWaiting(s, u)
         ELSE SameReports(s, u) /\ u.sent = s.sent
  <2>1. StopsWaiting(s, StopWaiting(s))
    BY StopWaitingEffect
  <2>2. SameReports(s, s) /\ SameRoutes(s, s) /\ SameMind(s, s)
    BY DEF SameReports, SameRoutes, SameMind
  <2>3. Effect(s, s, None)
    BY <2>2, SameEffect
  <2>4. Effect(s, u, None) /\ SameMind(s, u) /\ u.paused = s.paused
    BY <2>1, <2>2, <2>3 DEF StopsWaiting
  <2>5. u \in Manager /\ Listed(u)
    BY <2>4 DEF Effect
  <2> QED BY <2>1, <2>2, <2>4, <2>5
<1>2. t = IF u.request = None THEN u ELSE CreateResponse(u, u.request, h, hasExtraInfo, empty)
  BY DEF OnResponseReceived
<1> HIDE DEF u
<1>3. t \in Manager /\ SameButAnswers(u, t)
  <2>1. CASE u.request = None
    BY <1>1, <1>2, <2>1, UntouchedSelf DEF Untouched
  <2>2. CASE u.request # None
    <3>1. u.request \in Hop
      BY <1>1, <2>2 DEF Manager
    <3> QED BY <1>1, <1>2, <2>2, <3>1, CreateResponseKeeps
  <2> QED BY <2>1, <2>2
<1> HIDE DEF t
<1>4. /\ Effect(u, t, None) /\ SameReports(u, t) /\ SameMind(u, t)
      /\ t.sent = u.sent /\ t.paused = u.paused
  BY <1>1, <1>3, UntouchedEffect
<1>5. Effect(s, t, None) /\ SameMind(s, t) /\ t.paused = s.paused
  BY <1>1, <1>4, EffectTwice DEF SameMind
<1>6. SameReports(s, u) => SameReports(s, t)
  BY <1>4 DEF SameReports
<1>7. \A e \in Hop : Begins(s, u, e) => Begins(s, t, e)
  BY <1>4 DEF SameReports, Begins
<1>8. s.sent # None => s.sent.hop \in Hop
  BY DEF Manager, Sent
<1>9. CASE kind = "viaWorker"
  BY <1>1, <1>4, <1>5, <1>6, <1>7, <1>8, <1>9 DEF StopsWaiting, t
<1>10. CASE kind # "viaWorker"
  BY <1>1, <1>4, <1>5, <1>6, <1>10 DEF t
<1> QED BY <1>9, <1>10

LEMMA ReportOverEffect ==
  ASSUME NEW s \in Manager, NEW h \in Hop, NEW failed \in BOOLEAN
  PROVE  LET t == ReportOver(s, h, failed)
         IN /\ Effect(s, t, None) /\ SameMind(s, t) /\ IsOver(s, t, h)
            /\ t.sent = s.sent /\ t.paused = s.paused
<1> DEFINE t == ReportOver(s, h, failed)
<1>1. t \in Manager /\ Ends(s, t, h)
  BY ReportOverEnds
<1> HIDE DEF t
<1>2. OnlyLetsGo(s, t, None) /\ (RoutesHold(s) => RoutesHold(t))
  BY <1>1, EndsLetsGo
<1>3. Listed(t) /\ IsOver(s, t, h)
  BY <1>1 DEF Ends, Listed, IsOver
<1> QED BY <1>1, <1>2, <1>3 DEF Effect, Ends, t

LEMMA OnLoadingFinishedEffect ==
  ASSUME NEW s \in Manager, Listed(s)
  PROVE  LET t == OnLoadingFinished(s)
         IN /\ Effect(s, t, None) /\ SameMind(s, t) /\ t.sent = s.sent /\ t.paused = s.paused
            /\ IF s.request = None THEN SameReports(s, t) ELSE IsOver(s, t, s.request)
<1> DEFINE t == OnLoadingFinished(s)
           u == LoadingOver(s)
           v == ReportOver(u, u.request, FALSE)
<1>1. u \in Manager /\ Untouched(s, u)
  BY LoadingOverKeeps
<1>2. t = IF u.request = None THEN u ELSE v
  BY DEF OnLoadingFinished
<1> HIDE DEF u
<1>3. /\ Effect(s, u, None) /\ SameReports(s, u) /\ SameMind(s, u)
      /\ u.sent = s.sent /\ u.paused = s.paused
  BY <1>1, UntouchedEffect
<1>4. u.request = s.request
  BY <1>3 DEF SameReports
<1>5. CASE u.request = None
  <2>1. t = u
    BY <1>2, <1>5
  <2> HIDE DEF t
  <2> QED BY <1>3, <1>4, <1>5, <2>1 DEF t
<1>6. CASE u.request # None
  <2>1. u.request \in Hop /\ t = v
    BY <1>1, <1>2, <1>6 DEF Manager
  <2>2. /\ Effect(u, v, None) /\ SameMind(u, v) /\ IsOver(u, v, u.request)
        /\ v.sent = u.sent /\ v.paused = u.paused
    BY <1>1, <2>1, ReportOverEffect
  <2> HIDE DEF t, v
  <2>3. Effect(s, t, None)
    BY <1>3, <2>1, <2>2, EffectTwice
  <2>4. IsOver(s, t, s.request) /\ SameMind(s, t)
    BY <1>3, <1>4, <2>1, <2>2 DEF IsOver, SameReports, SameMind
  <2> QED BY <1>3, <1>4, <1>6, <2>1, <2>2, <2>3, <2>4 DEF t
<1> QED BY <1>5, <1>6

LEMMA OnLoadingFailedEffect ==
  ASSUME NEW s \in Manager, Listed(s)
  PROVE  LET t == OnLoadingFailed(s)
         IN /\ Effect(s, t, None) /\ SameMind(s, t) /\ t.paused = s.paused
            /\ \/ s.request # None /\ IsOver(s, t, s.request) /\ t.sent = s.sent
               \/ s.request = None /\ s.sent = None /\ SameReports(s, t) /\ t.sent = s.sent
               \/ /\ s.request = None /\ s.sent # None /\ t.sent = None
                  /\ IsOver(s, t, s.sent.hop) \/ SameReports(s, t)
                  /\ ~frame /\ kind # "preflight" => SameReports(s, t)
                  /\ frame => IsOver(s, t, s.sent.hop)
<1> DEFINE t == OnLoadingFailed(s)
           w == LoadingOver(s)
           u == StopWaiting(w)
           h == u.request
           x == SetRawRequest(u, h, "provisional")
<1>1. w \in Manager /\ Untouched(s, w)
  BY LoadingOverKeeps
<1>2. StopsWaiting(w, u) /\ u \in Manager /\ Listed(u)
  <2>1. Listed(w)
    BY <1>1, UntouchedEffect DEF Effect
  <2> HIDE DEF w
  <2>2. StopsWaiting(w, u)
    BY <1>1, <2>1, StopWaitingEffect
  <2> QED BY <2>2 DEF StopsWaiting, Effect
<1>3. /\ Effect(s, w, None) /\ SameReports(s, w) /\ SameMind(s, w)
      /\ w.sent = s.sent /\ w.paused = s.paused
  BY <1>1, UntouchedEffect
<1>4. h \in Hop \cup {None}
  BY <1>2 DEF Manager
<1> DEFINE y == IF u.requests[h].response = "none" THEN x ELSE u
           failed == IF u.requests[h].response = "none" THEN TRUE ELSE ~u.requests[h].empty
<1>5. t = IF h = None THEN u ELSE ReportOver(y, h, failed)
  BY DEF OnLoadingFailed
<1> HIDE DEF w, u, t
<1>6. Effect(s, u, None) /\ SameMind(s, u) /\ u.paused = s.paused
  BY <1>2, <1>3, EffectTwice DEF StopsWaiting, SameMind
<1>7. \/ s.request # None /\ SameReports(s, u) /\ u.sent = s.sent
      \/ s.request = None /\ s.sent = None /\ SameReports(s, u) /\ u.sent = s.sent
      \/ /\ s.request = None /\ s.sent # None /\ u.sent = None
         /\ Begins(s, u, s.sent.hop) \/ SameReports(s, u)
         /\ ~frame /\ kind # "preflight" => SameReports(s, u)
         /\ frame => Begins(s, u, s.sent.hop)
  <2>1. s.sent # None => s.sent.hop \in Hop
    BY DEF Manager, Sent
  <2>2. SameReports(w, u) => SameReports(s, u)
    BY <1>3 DEF SameReports
  <2>3. \A e \in Hop : w.request = None /\ Begins(w, u, e) => Begins(s, u, e)
    BY <1>3 DEF SameReports, Begins, Predecessor
  <2>4. w.request = s.request
    BY <1>3 DEF SameReports
  <2> QED BY <1>2, <1>3, <2>1, <2>2, <2>3, <2>4 DEF StopsWaiting
<1>8. CASE h = None
  <2>1. t = u
    BY <1>5, <1>8
  <2>2. \A e \in Hop : ~Begins(s, u, e)
    BY <1>8, NoneAssumption DEF Begins, Hop
  <2>3. SameReports(s, u) => s.request = None
    BY <1>8 DEF SameReports
  <2>4. s.sent # None => s.sent.hop \in Hop
    BY DEF Manager, Sent
  <2> QED BY <1>6, <1>7, <2>1, <2>2, <2>3, <2>4 DEF t
<1>9. CASE h # None
  <2>1. h \in Hop /\ failed \in BOOLEAN
    BY <1>2, <1>4, <1>9 DEF Manager, Request
  <2>2. y \in Manager /\ Untouched(u, y)
    <3> HIDE DEF h
    <3> QED BY <1>2, <2>1, SetRawRequestKeeps, UntouchedSelf
  <2> HIDE DEF y, failed
  <2>3. /\ Effect(u, y, None) /\ SameReports(u, y) /\ SameMind(u, y)
        /\ y.sent = u.sent /\ y.paused = u.paused
    BY <1>2, <2>2, UntouchedEffect
  <2>4. /\ Effect(y, t, None) /\ SameMind(y, t) /\ IsOver(y, t, h)
        /\ t.sent = y.sent /\ t.paused = y.paused
    <3> HIDE DEF h
    <3> QED BY <1>5, <1>9, <2>1, <2>2, ReportOverEffect
  <2>5. Effect(s, t, None) /\ SameMind(s, t) /\ t.paused = s.paused
    BY <1>6, <2>3, <2>4, EffectTwice DEF SameMind
  <2>6. IsOver(u, t, h) /\ t.sent = u.sent
    BY <2>3, <2>4 DEF IsOver, SameReports
  <2>7. SameReports(s, u) => h = s.request /\ IsOver(s, t, h)
    BY <2>6 DEF SameReports, IsOver
  <2>8. ASSUME NEW e \in Hop, s.request = None, Begins(s, u, e) PROVE IsOver(s, t, e)
    <3>1. h = e /\ Predecessor(s, e) = None
      BY <2>8 DEF Begins, Predecessor
    <3>2. \A k \in Hop : k # None
      BY NoneAssumption DEF Hop
    <3> QED BY <2>6, <2>8, <3>1, <3>2 DEF Begins, IsOver
  <2>9. s.sent # None => s.sent.hop \in Hop
    BY DEF Manager, Sent
  <2>10. SameReports(s, u) => s.request # None
    BY <1>9 DEF SameReports
  <2> HIDE DEF h
  <2> QED BY <1>6, <1>7, <1>9, <2>5, <2>6, <2>7, <2>8, <2>9, <2>10 DEF t
<1> QED BY <1>8, <1>9

LEMMA UpdateInterceptionEffect ==
  ASSUME NEW s \in Manager, Listed(s)
  PROVE  LET t == UpdateProtocolRequestInterception(s)
         IN /\ Effect(s, t, None) /\ SameReports(s, t)
            /\ t.sent = s.sent /\ t.paused = s.paused
<1> DEFINE enabled == s.user \/ s.credentials
           method == IF enabled THEN "enable" ELSE "disable"
           u == Send(s, method, None)
           t == UpdateProtocolRequestInterception(s)
<1>1. CASE enabled = s.protocol
  <2>1. t = s
    BY <1>1 DEF UpdateProtocolRequestInterception
  <2>2. SameReports(s, s) /\ SameRoutes(s, s)
    BY DEF SameReports, SameRoutes
  <2> QED BY <2>1, <2>2, SameEffect
<1>2. CASE enabled # s.protocol
  <2>1. t = [u EXCEPT !.protocol = enabled] /\ enabled \in BOOLEAN
    BY <1>2 DEF UpdateProtocolRequestInterception, Manager
  <2>2. [method |-> method, pause |-> None] \in Command
    BY DEF Command
  <2> HIDE DEF method, enabled
  <2>3. /\ Effect(s, u, None) /\ SameReports(s, u) /\ u.sent = s.sent /\ u.paused = s.paused
    BY <2>2, SendEffect
  <2>4. u \in Manager /\ Listed(u)
    BY <2>3 DEF Effect
  <2> HIDE DEF u
  <2>5. /\ t \in Manager /\ SameReports(u, t) /\ SameRoutes(u, t)
        /\ t.sent = u.sent /\ t.paused = u.paused /\ t.out = u.out
    <3> HIDE DEF t
    <3> QED BY <2>1, <2>4 DEF Manager, SameReports, SameRoutes
  <2> HIDE DEF t
  <2>6. Effect(s, t, None)
    BY <2>3, <2>4, <2>5, SameEffect, EffectTwice
  <2> QED BY <2>3, <2>5, <2>6 DEF SameReports, t
<1> QED BY <1>1, <1>2

(***************************************************************************)
(* Types.                                                                  *)
(***************************************************************************)
Typed == TypeOK /\ RoutesHold(m) /\ PausesHaveIds

LEMMA ConcatLetsGo ==
  ASSUME NEW a \in Seq(Command), NEW b \in Seq(Command), NEW p \in Pause, LetsGo(a \o b, p)
  PROVE  LetsGo(a, p) \/ LetsGo(b, p)
<1>1. PICK i \in DOMAIN (a \o b) :
        (a \o b)[i].method \in {"continue", "fulfill", "fail"} /\ (a \o b)[i].pause = p
  BY DEF LetsGo
<1>2. CASE i <= Len(a)
  <2>1. i \in DOMAIN a /\ (a \o b)[i] = a[i]
    BY <1>2
  <2> QED BY <1>1, <2>1 DEF LetsGo
<1>3. CASE i > Len(a)
  <2>1. i - Len(a) \in DOMAIN b /\ (a \o b)[i] = b[i - Len(a)]
    BY <1>3
  <2> QED BY <1>1, <2>1 DEF LetsGo
<1> QED BY <1>2, <1>3

(* The state after a handler.                                               *)
MayAnswer(pause) == \A p \in Pause : Answering(p)' => Answering(p) \/ p = pause

LEMMA HandledEffect ==
  ASSUME TypeOK, RoutesHold(m), NEW s, NEW pause, Effect(m, s, pause), Handled(s)
  PROVE  /\ m' \in Manager /\ m'.out = <<>> /\ Listed(m') /\ RoutesHold(m')
         /\ commands' \in Seq(Command) /\ MayAnswer(pause)
         /\ m'.sent = s.sent /\ m'.paused = s.paused /\ m'.request = s.request
         /\ m'.requests = s.requests
<1>1. s \in Manager /\ Listed(s) /\ RoutesHold(s) /\ OnlyLetsGo(m, s, pause)
  BY DEF Effect
<1>2. m' = [s EXCEPT !.out = <<>>] /\ commands' = commands \o s.out
  BY DEF Handled
<1>3. m' \in Manager /\ m'.out = <<>>
      /\ m'.sent = s.sent /\ m'.paused = s.paused /\ m'.request = s.request
      /\ m'.requests = s.requests
  <2>1. <<>> \in Seq(Command)
    OBVIOUS
  <2> QED BY <1>1, <1>2, <2>1 DEF Manager
<1>4. s.out \in Seq(Command) /\ commands \in Seq(Command) /\ m.out = <<>>
  BY <1>1 DEF Manager, TypeOK
<1>5. commands' \in Seq(Command)
  BY <1>2, <1>4
<1>6. ASSUME NEW p \in Pause, Answering(p)' PROVE Answering(p) \/ p = pause
  <2>1. HeldByRoute(m', p) \/ LetsGo(commands', p)
    BY <1>6 DEF Answering, HeldByRoute, LetsGo
  <2>2. HeldByRoute(m', p) => HeldByRoute(s, p)
    BY <1>3 DEF HeldByRoute
  <2>3. LetsGo(commands', p) => LetsGo(commands, p) \/ LetsGo(s.out, p)
    BY <1>2, <1>4, ConcatLetsGo
  <2>4. ~LetsGo(m.out, p)
    BY <1>4 DEF LetsGo
  <2> QED BY <1>1, <2>1, <2>2, <2>3, <2>4 DEF OnlyLetsGo, Answering
<1> QED BY <1>1, <1>3, <1>5, <1>6 DEF Listed, RoutesHold, MayAnswer

LEMMA TailType ==
  ASSUME NEW S, NEW q \in Seq(S), q # <<>>
  PROVE  Head(q) \in S /\ Tail(q) \in Seq(S)
BY HeadTailProperties

LEMMA ConcatTwo ==
  ASSUME NEW S, NEW q \in Seq(S), NEW a \in S, NEW b \in S
  PROVE  /\ q \o <<a, b>> = Append(Append(q, a), b)
         /\ q \o <<a, b>> \in Seq(S)
<1>1. <<a>> \in Seq(S) /\ <<b>> \in Seq(S) /\ <<a>> \o <<b>> = <<a, b>>
  <2>1. <<a>> \in Seq(S) /\ <<b>> \in Seq(S) /\ <<a, b>> \in Seq(S)
    OBVIOUS
  <2>2. Append(<<a>>, b) = <<a>> \o <<b>>
    BY <2>1, AppendIsConcat
  <2>3. Append(<<a>>, b) \in Seq(S) /\ Len(Append(<<a>>, b)) = 2
        /\ Append(<<a>>, b)[1] = a /\ Append(<<a>>, b)[2] = b
    BY <2>1, AppendProperties
  <2>4. Len(<<a, b>>) = 2 /\ <<a, b>>[1] = a /\ <<a, b>>[2] = b
    OBVIOUS
  <2>5. \A i \in 1..2 : Append(<<a>>, b)[i] = <<a, b>>[i]
    BY <2>3, <2>4
  <2>6. Append(<<a>>, b) = <<a, b>>
    BY <2>1, <2>3, <2>4, <2>5, SeqEqual
  <2> QED BY <2>1, <2>2, <2>6
<1>2. Append(q, a) \in Seq(S) /\ Append(q, a) = q \o <<a>>
  BY AppendIsConcat, AppendProperties
<1>3. /\ Append(Append(q, a), b) = Append(q, a) \o <<b>>
      /\ Append(Append(q, a), b) \in Seq(S)
  BY <1>2, AppendIsConcat, AppendProperties
<1>4. (q \o <<a>>) \o <<b>> = q \o (<<a>> \o <<b>>)
  BY <1>1, ConcatAssociative
<1> QED BY <1>1, <1>2, <1>3, <1>4

LEMMA EventType ==
  ASSUME NEW name \in {"requestWillBeSent", "requestServedFromCache", "responseReceived",
                       "loadingFinished", "loadingFailed"},
         NEW hop \in Hop, NEW x \in BOOLEAN, NEW y \in BOOLEAN
  PROVE  /\ Event(name, hop, x, y) \in NetworkEvent
         /\ Event(name, hop, x, y).event = name /\ Event(name, hop, x, y).hop = hop
BY DEF Event, NetworkEvent

LEMMA OverTheNetworkType == OverTheNetwork \in BOOLEAN
BY DEF OverTheNetwork

LEMMA EmitExtraType ==
  ASSUME TypeOK, EmitExtra
  PROVE  extra' \in Seq([event : {"sent", "received"}, hop : Hop])
<1> DEFINE S == [event : {"sent", "received"}, hop : Hop]
           a == [event |-> "sent", hop |-> browser.hop]
           b == [event |-> "received", hop |-> browser.hop]
<1> SUFFICES extra' \in Seq(S)
  OBVIOUS
<1>1. a \in S /\ b \in S /\ extra \in Seq(S)
  BY DEF TypeOK, Browser
<1>2. extra' = extra \o <<a, b>> \/ extra' = extra
  BY DEF EmitExtra
<1> HIDE DEF a, b, S
<1> QED BY <1>1, <1>2, ConcatTwo

(* The steps of the browser, told by what matters of them.                   *)
PausedEvent(p) == [event |-> "paused", pause |-> p]

Appends(e) == /\ e \in NetworkEvent
              /\ network' = IF kind = "foreign" THEN network ELSE Append(network, e)

(* What is appended is neither a beginning nor an end.                       *)
AppendsMiddle ==
  \/ UNCHANGED network
  \/ \E e \in NetworkEvent :
       e.event \in {"responseReceived", "requestServedFromCache"} /\ Appends(e)
  \/ /\ kind # "foreign"
     /\ \E e, f \in NetworkEvent :
          /\ e.event = "requestServedFromCache" /\ f.event = "responseReceived"
          /\ network' = Append(Append(network, e), f)

AppendsEnd == \E e \in NetworkEvent :
                e.event \in {"loadingFinished", "loadingFailed"} /\ Appends(e)

SamePauses == browser'.hop = browser.hop /\ browser'.pausing = browser.pausing

Begins0 ==
  /\ browser.stage = "none" /\ browser'.stage = "begun" /\ SamePauses
  /\ \E e \in NetworkEvent : e.event = "requestWillBeSent" /\ e.hop = 0 /\ Appends(e)
  /\ UNCHANGED <<fetch, commands>>

GoesOn ==
  /\ browser.stage \in {"sent", "fulfilled"} /\ browser'.stage = "begun"
  /\ browser'.hop = browser.hop + 1 /\ browser'.hop \in Hop /\ browser'.pausing = browser.pausing
  /\ \E e \in NetworkEvent : e.event = "requestWillBeSent" /\ e.hop = browser'.hop /\ Appends(e)
  /\ UNCHANGED <<fetch, commands>>

IsPaused ==
  /\ browser.stage = "begun" /\ browser'.stage = "paused" /\ kind # "viaWorker"
  /\ browser'.hop = browser.hop /\ browser'.id = FirstPause(browser.hop)
  /\ browser'.pausing = [browser.pausing EXCEPT ![browser.hop] = "yes"]
  /\ fetch' = Append(fetch, PausedEvent(FirstPause(browser.hop)))
  /\ UNCHANGED <<network, commands>>

IsNotPaused ==
  /\ browser.stage = "begun" /\ browser'.stage = "sent"
  /\ browser'.hop = browser.hop
  /\ browser'.pausing = [browser.pausing EXCEPT ![browser.hop] = "no"]
  /\ UNCHANGED <<network, fetch, commands>>

Underway == {"sent", "challenged", "refused", "fulfilled", "answered"}

MovesOn ==
  /\ browser.stage \in Underway /\ browser'.stage \in Underway \cup {"paused"} /\ SamePauses
  /\ browser'.stage = "paused" => kind # "viaWorker"
  /\ AppendsMiddle
  /\ \/ UNCHANGED fetch
     \/ kind # "viaWorker" /\ browser.pausing[0] = "yes" /\
          fetch' = Append(fetch, PausedEvent([hop |-> 0, again |-> TRUE]))
     \/ \E p \in Pause : fetch' = Append(fetch, [event |-> "auth", pause |-> p])
  /\ \/ UNCHANGED commands
     \/ commands # <<>> /\ commands' = Tail(commands)

IsOverNow ==
  /\ browser.stage \notin {"none", "over"} /\ browser'.stage = "over" /\ SamePauses
  /\ AppendsEnd
  /\ UNCHANGED fetch
  /\ \/ UNCHANGED commands
     \/ commands # <<>> /\ commands' = Tail(commands)

IsLetGo ==
  /\ browser.stage = "paused" /\ browser'.stage \in Underway /\ SamePauses
  /\ LetsGo(commands, browser.id)
  /\ commands' = Tail(commands)
  /\ UNCHANGED <<network, fetch>>

IsCut ==
  /\ browser.stage = "paused" /\ browser'.stage \in Underway
  /\ browser'.hop = browser.hop
  /\ browser'.pausing = IF m.requests[browser.hop].report = "new"
                        THEN [browser.pausing EXCEPT ![browser.hop] = "cut"]
                        ELSE browser.pausing
  /\ commands # <<>> /\ commands' = Tail(commands)
  /\ UNCHANGED <<network, fetch>>

Ignores == 
  /\ browser'.stage = browser.stage /\ SamePauses /\ browser'.id = browser.id
  /\ commands # <<>> /\ commands' = Tail(commands)
  /\ UNCHANGED <<network, fetch>>

BrowserStep ==
  /\ UNCHANGED <<m, switches, kind, frame, expecting>>
  /\ \/ Begins0 \/ GoesOn \/ IsPaused \/ IsNotPaused \/ MovesOn \/ IsOverNow
     \/ IsLetGo \/ IsCut \/ Ignores

LEMMA EmitAppends ==
  ASSUME TypeOK, NEW e \in NetworkEvent, Emit(<<e>>)
  PROVE  Appends(e)
<1>1. network \in Seq(NetworkEvent)
  BY DEF TypeOK
<1>2. Append(network, e) = network \o <<e>>
  BY <1>1, AppendIsConcat
<1> QED BY <1>2 DEF Emit, Appends

LEMMA BeginStep == TypeOK /\ Begin => BrowserStep
<1> SUFFICES ASSUME TypeOK, Begin PROVE BrowserStep
  OBVIOUS
<1> DEFINE e == Event("requestWillBeSent", 0, FALSE, FALSE)
<1>1. e \in NetworkEvent /\ e.event = "requestWillBeSent" /\ e.hop = 0
  <2>1. 0 \in Hop
    BY BoundAssumption DEF Hop
  <2> QED BY <2>1 DEF Event, NetworkEvent
<1> HIDE DEF e
<1>2. Appends(e)
  BY <1>1, EmitAppends DEF Begin, e
<1>3. browser.stage = "none" /\ browser'.stage = "begun" /\ SamePauses
  BY DEF Begin, SamePauses, TypeOK, Browser
<1> QED BY <1>1, <1>2, <1>3 DEF Begin, Begins0, BrowserStep

LEMMA DecideStep == TypeOK /\ Decide => BrowserStep
<1> SUFFICES ASSUME TypeOK, Decide PROVE BrowserStep
  OBVIOUS
<1>1. CASE browser.enabled /\ kind # "viaWorker"
  BY <1>1 DEF Decide, TypeOK, Browser, IsPaused, FirstPause, PausedEvent, BrowserStep
<1>2. CASE ~(browser.enabled /\ kind # "viaWorker")
  BY <1>2 DEF Decide, TypeOK, Browser, IsNotPaused, BrowserStep
<1> QED BY <1>1, <1>2

LEMMA RedirectStep == TypeOK /\ Redirect => BrowserStep
<1> SUFFICES ASSUME TypeOK, Redirect PROVE BrowserStep
  OBVIOUS
<1> DEFINE e == Event("requestWillBeSent", browser.hop + 1, OverTheNetwork, FALSE)
<1>1. browser.hop + 1 \in Hop
  BY BoundAssumption DEF Redirect, TypeOK, Browser, Hop
<1>2. e \in NetworkEvent /\ e.event = "requestWillBeSent" /\ e.hop = browser.hop + 1
  <2> DEFINE h == browser.hop + 1
  <2>1. h \in Hop
    BY <1>1
  <2> HIDE DEF h
  <2>2. /\ Event("requestWillBeSent", h, OverTheNetwork, FALSE) \in NetworkEvent
        /\ Event("requestWillBeSent", h, OverTheNetwork, FALSE).event = "requestWillBeSent"
        /\ Event("requestWillBeSent", h, OverTheNetwork, FALSE).hop = h
    BY <2>1, OverTheNetworkType DEF Event, NetworkEvent
  <2> QED BY <2>2 DEF h
<1> HIDE DEF e
<1>3. Appends(e)
  BY <1>2, EmitAppends DEF Redirect, e
<1>4. browser'.stage = "begun" /\ browser'.hop = browser.hop + 1 /\ browser'.pausing = browser.pausing
  BY DEF Redirect, TypeOK, Browser
<1> QED BY <1>1, <1>2, <1>3, <1>4 DEF Redirect, GoesOn, BrowserStep

LEMMA MoveStep ==
  ASSUME TypeOK, ByKind, PausesHaveIds,
         \/ \E empty \in BOOLEAN : Answer(empty)
         \/ AnswerFromCache \/ Restart \/ Challenge
  PROVE  BrowserStep
<1>1. ASSUME NEW empty \in BOOLEAN, Answer(empty) PROVE BrowserStep
  <2> DEFINE e == Event("responseReceived", browser.hop, OverTheNetwork, empty)
  <2>1. e \in NetworkEvent /\ e.event = "responseReceived"
    BY EventType, OverTheNetworkType DEF TypeOK, Browser
  <2> HIDE DEF e
  <2>2. Appends(e)
    BY <1>1, <2>1, EmitAppends DEF Answer, e
  <2>3. browser.stage \in Underway /\ browser'.stage \in Underway /\ SamePauses
    BY <1>1 DEF Answer, TypeOK, Browser, Underway, SamePauses
  <2> QED BY <1>1, <2>1, <2>2, <2>3 DEF Answer, AppendsMiddle, MovesOn, BrowserStep, Underway
<1>2. ASSUME AnswerFromCache PROVE BrowserStep
  <2> DEFINE e == Event("requestServedFromCache", 0, FALSE, FALSE)
             f == Event("responseReceived", 0, TRUE, FALSE)
  <2>1. /\ e \in NetworkEvent /\ e.event = "requestServedFromCache"
        /\ f \in NetworkEvent /\ f.event = "responseReceived"
    <3>1. 0 \in Hop
      BY BoundAssumption DEF Hop
    <3> QED BY <3>1 DEF Event, NetworkEvent
  <2>2. kind # "foreign" /\ network' = network \o <<e, f>>
    BY <1>2 DEF AnswerFromCache, Emit
  <2> HIDE DEF e, f
  <2>3. network' = Append(Append(network, e), f)
    <3>1. network \in Seq(NetworkEvent)
      BY DEF TypeOK
    <3> QED BY <2>1, <2>2, <3>1, ConcatTwo
  <2>4. browser.stage \in Underway /\ browser'.stage \in Underway /\ SamePauses
    BY <1>2 DEF AnswerFromCache, TypeOK, Browser, Underway, SamePauses
  <2> QED BY <1>2, <2>1, <2>2, <2>3, <2>4
      DEF AnswerFromCache, AppendsMiddle, MovesOn, BrowserStep, Underway
<1>3. ASSUME Restart PROVE BrowserStep
  <2>1. browser.pausing[0] = "yes" /\ kind # "viaWorker"
    BY <1>3, BoundAssumption DEF Restart, ByKind, Hop
  <2>2. browser.stage \in Underway /\ browser'.stage = "paused" /\ SamePauses
    BY <1>3 DEF Restart, TypeOK, Browser, Underway, SamePauses
  <2> QED BY <1>3, <2>1, <2>2 DEF Restart, PausedEvent, AppendsMiddle, MovesOn, BrowserStep
<1>4. ASSUME Challenge PROVE BrowserStep
  <2>1. browser.id \in Pause
    BY <1>4 DEF Challenge, PausesHaveIds, TypeOK, Browser
  <2>2. browser.stage \in Underway /\ browser'.stage \in Underway /\ SamePauses
    BY <1>4 DEF Challenge, TypeOK, Browser, Underway, SamePauses
  <2> QED BY <1>4, <2>1, <2>2 DEF Challenge, AppendsMiddle, MovesOn, BrowserStep, Underway
<1> QED BY <1>1, <1>2, <1>3, <1>4

LEMMA OverStep ==
  ASSUME TypeOK, Finish \/ Fail \/ Cancel
  PROVE  BrowserStep
<1> DEFINE e == Event("loadingFinished", browser.hop, FALSE, FALSE)
           f == Event("loadingFailed", browser.hop, FALSE, FALSE)
<1>1. /\ e \in NetworkEvent /\ e.event = "loadingFinished"
      /\ f \in NetworkEvent /\ f.event = "loadingFailed"
  BY DEF TypeOK, Browser, Event, NetworkEvent
<1> HIDE DEF e, f
<1>2. Emit(<<e>>) \/ Emit(<<f>>)
  BY DEF Finish, Fail, Cancel, FailLoad, e, f
<1>3. AppendsEnd
  BY <1>1, <1>2, EmitAppends DEF AppendsEnd
<1>4. browser.stage \notin {"none", "over"} /\ browser'.stage = "over" /\ SamePauses
  BY DEF Finish, Fail, Cancel, FailLoad, TypeOK, Browser, SamePauses
<1>5. UNCHANGED <<m, switches, kind, frame, fetch, commands, expecting>>
  BY DEF Finish, Fail, Cancel
<1> QED BY <1>3, <1>4, <1>5 DEF IsOverNow, BrowserStep

LEMMA CommandStep ==
  ASSUME TypeOK, ReceiveCommand
  PROVE  BrowserStep
<1> DEFINE c == Head(commands)
           enabled == CASE c.method = "enable" -> TRUE
                        [] c.method = "disable" -> FALSE
                        [] OTHER -> browser.enabled
           f == Event("loadingFailed", browser.hop, FALSE, FALSE)
<1>1. c \in Command /\ commands # <<>> /\ commands' = Tail(commands)
      /\ commands \in Seq(Command)
  BY TailType DEF ReceiveCommand, TypeOK
<1>2. UNCHANGED <<m, switches, kind, frame, expecting, fetch>>
  BY DEF ReceiveCommand
<1>3. f \in NetworkEvent /\ f.event = "loadingFailed"
  BY DEF TypeOK, Browser, Event, NetworkEvent
<1>4. CASE c.method = "fail" /\ Holds(c)
  <2>1. FailLoad(FALSE)
    BY <1>4 DEF ReceiveCommand
  <2>2. browser.stage = "paused"
    BY <1>4 DEF Holds
  <2>3. AppendsEnd
    BY <1>3, <2>1, EmitAppends DEF FailLoad, AppendsEnd
  <2>4. browser'.stage = "over" /\ SamePauses
    BY <2>1 DEF FailLoad, TypeOK, Browser, SamePauses
  <2> QED BY <1>1, <1>2, <2>2, <2>3, <2>4 DEF IsOverNow, BrowserStep
<1>5. CASE ~(c.method = "fail" /\ Holds(c))
  <2>1. /\ browser' = [browser EXCEPT
                        !.enabled = enabled,
                        !.stage = IF Holds(c) THEN Released(c) ELSE @,
                        !.pausing = PausingAfter(c)]
        /\ UNCHANGED network
    BY <1>5 DEF ReceiveCommand
  <2> HIDE DEF c, enabled
  <2>2. /\ browser'.stage = IF Holds(c) THEN Released(c) ELSE browser.stage
        /\ browser'.pausing = PausingAfter(c)
        /\ browser'.hop = browser.hop /\ browser'.id = browser.id
    BY <2>1 DEF TypeOK, Browser
  <2>3. CASE ~Holds(c)
    <3>1. PausingAfter(c) = browser.pausing
      BY <2>3 DEF Holds, PausingAfter
    <3> QED BY <1>1, <1>2, <2>1, <2>2, <2>3, <3>1 DEF Ignores, SamePauses, BrowserStep
  <2>4. CASE Holds(c) /\ browser.stage = "challenged"
    <3>1. PausingAfter(c) = browser.pausing /\ Released(c) \in Underway
      BY <2>4 DEF Holds, PausingAfter, Released, Underway
    <3> QED BY <1>1, <1>2, <2>1, <2>2, <2>4, <3>1
        DEF MovesOn, AppendsMiddle, SamePauses, BrowserStep, Underway
  <2>5. CASE Holds(c) /\ browser.stage = "paused" /\ c.method = "disable"
    <3>1. Released(c) \in Underway
      BY <2>5 DEF Released, Underway
    <3> QED BY <1>1, <1>2, <2>1, <2>2, <2>5, <3>1 DEF PausingAfter, IsCut, BrowserStep
  <2>6. CASE Holds(c) /\ browser.stage = "paused" /\ c.method # "disable"
    <3>1. c.method \in {"continue", "fulfill"} /\ c.pause = browser.id
      BY <1>5, <2>6 DEF Holds
    <3>2. PausingAfter(c) = browser.pausing /\ Released(c) \in Underway
      BY <2>6, <3>1 DEF PausingAfter, Released, Underway
    <3>3. LetsGo(commands, browser.id)
      <4>1. 1 \in DOMAIN commands /\ commands[1] = c
        BY <1>1 DEF c
      <4> QED BY <3>1, <4>1 DEF LetsGo
    <3> QED BY <1>1, <1>2, <2>1, <2>2, <2>6, <3>2, <3>3 DEF IsLetGo, SamePauses, BrowserStep
  <2>7. Holds(c) => browser.stage \in {"paused", "challenged"}
    BY DEF Holds
  <2> QED BY <2>3, <2>4, <2>5, <2>6, <2>7
<1> QED BY <1>4, <1>5

FetchEvent == [event : {"paused", "auth"}, pause : Pause]
ExtraEvent == [event : {"sent", "received"}, hop : Hop]

(* TypeOK but for what is only the browser's.                               *)
ManagerTyped == m \in Manager /\ m.out = <<>> /\ Listed(m) /\ RoutesHold(m)

LEMMA TypedParts ==
  Typed <=> /\ ManagerTyped
            /\ switches \in 0..MaxSwitch /\ kind \in Kind /\ frame \in BOOLEAN
            /\ browser \in Browser /\ PausesHaveIds
            /\ network \in Seq(NetworkEvent) /\ extra \in Seq(ExtraEvent)
            /\ fetch \in Seq(FetchEvent) /\ commands \in Seq(Command)
            /\ expecting \in [Hop -> {"unheard", "yes", "no"}]
BY DEF Typed, TypeOK, ManagerTyped, Listed, FetchEvent, ExtraEvent

LEMMA FirstPauseType == \A h \in Hop : FirstPause(h) \in Pause
BY DEF FirstPause, Pause

LEMMA AppendFetchType ==
  ASSUME Typed, NEW e \in FetchEvent
  PROVE  Append(fetch, e) \in Seq(FetchEvent)
BY TypedParts, AppendProperties

LEMMA InitTyped == Init => Typed
<1> SUFFICES ASSUME Init PROVE Typed
  OBVIOUS
<1>1. 0 \in Hop
  BY BoundAssumption DEF Hop
<1>2. NoRequest \in Request
  BY DEF NoRequest, Request
<1>3. PICK user \in BOOLEAN, credentials \in BOOLEAN :
       /\ m = [needs |-> user, user |-> user, credentials |-> credentials,
               protocol |-> user \/ credentials, sent |-> None, paused |-> None,
               request |-> None, attempted |-> {}, requests |-> [h \in Hop |-> NoRequest],
               tracker |-> None, out |-> <<>>]
       /\ browser = [stage |-> "none", hop |-> 0, id |-> None,
                     enabled |-> user \/ credentials, restarted |-> FALSE,
                     empty |-> FALSE, answered |-> FALSE, failed |-> FALSE,
                     cancelled |-> FALSE, pausing |-> [h \in Hop |-> "undecided"]]
  BY DEF Init
<1>4. \A S : <<>> \in Seq(S)
  OBVIOUS
<1>5. m \in Manager /\ m.out = <<>>
  <2>1. [h \in Hop |-> NoRequest] \in [Hop -> Request]
    BY <1>2
  <2> QED BY <1>3, <1>4, <2>1 DEF Manager
<1>6. Listed(m)
  BY <1>3 DEF Listed
<1>7. RoutesHold(m)
  BY <1>3 DEF RoutesHold, NoRequest
<1>8. browser \in Browser
  BY <1>1, <1>3 DEF Browser
<1>9. PausesHaveIds
  BY <1>3 DEF PausesHaveIds
<1>10. switches \in 0..MaxSwitch
  BY BoundAssumption DEF Init
<1> QED BY <1>4, <1>5, <1>6, <1>7, <1>8, <1>9, <1>10, TypedParts DEF Init, ManagerTyped

LEMMA BrowserTyped ==
  ASSUME Typed, ByKind,
         \/ Begin \/ Decide \/ Progress \/ Cancel \/ ReceiveCommand
  PROVE  Typed'
<1>1. /\ m \in Manager /\ browser \in Browser /\ fetch \in Seq(FetchEvent)
      /\ network \in Seq(NetworkEvent) /\ extra \in Seq(ExtraEvent)
      /\ commands \in Seq(Command) /\ TypeOK /\ PausesHaveIds
  BY TypedParts DEF Typed, ManagerTyped
<1>2. UNCHANGED <<m, switches, kind, frame, expecting>>
  BY DEF Begin, Decide, Progress, Redirect, Answer, AnswerFromCache, Finish, Fail, Cancel,
         Restart, Challenge, ReceiveCommand
<1>3. ManagerTyped'
  BY <1>2, TypedParts DEF ManagerTyped, Listed, RoutesHold
<1>4. extra' \in Seq(ExtraEvent)
  <2>1. CASE EmitExtra
    BY <1>1, <2>1, EmitExtraType DEF ExtraEvent
  <2>2. CASE UNCHANGED extra
    BY <1>1, <2>2
  <2>3. CASE extra' = Append(extra, [event |-> "sent", hop |-> browser.hop])
    <3>1. [event |-> "sent", hop |-> browser.hop] \in ExtraEvent
      BY <1>1 DEF Browser, ExtraEvent
    <3> QED BY <1>1, <2>3, <3>1, AppendProperties
  <2> QED BY <2>1, <2>2, <2>3
      DEF Begin, Decide, Progress, Redirect, Answer, AnswerFromCache, Finish, Fail, Cancel,
          Restart, Challenge, ReceiveCommand
<1>5. network' \in Seq(NetworkEvent)
  <2>1. BrowserStep
    BY <1>1, BeginStep, DecideStep, RedirectStep, MoveStep, OverStep, CommandStep DEF Progress
  <2>2. CASE UNCHANGED network
    BY <1>1, <2>2
  <2>3. ASSUME NEW e \in NetworkEvent, Appends(e) PROVE network' \in Seq(NetworkEvent)
    BY <1>1, <2>3, AppendProperties DEF Appends
  <2>4. ASSUME NEW e \in NetworkEvent, NEW f \in NetworkEvent,
               network' = Append(Append(network, e), f)
        PROVE  network' \in Seq(NetworkEvent)
    BY <1>1, <2>4, AppendProperties
  <2> QED BY <2>1, <2>2, <2>3, <2>4
      DEF BrowserStep, Begins0, GoesOn, IsPaused, IsNotPaused, MovesOn, IsOverNow, IsLetGo,
          IsCut, Ignores, AppendsMiddle, AppendsEnd
<1>6. commands' \in Seq(Command)
  <2>1. commands' = commands \/ (commands # <<>> /\ commands' = Tail(commands))
    BY DEF Begin, Decide, Progress, Redirect, Answer, AnswerFromCache, Finish, Fail, Cancel,
           Restart, Challenge, ReceiveCommand
  <2> QED BY <1>1, <2>1, TailType
<1>7. ASSUME NEW p \in Pause PROVE PausedEvent(p) \in FetchEvent
  BY DEF PausedEvent, FetchEvent
<1>8. fetch' \in Seq(FetchEvent) /\ browser' \in Browser /\ PausesHaveIds'
  <2>1. ASSUME Begin PROVE fetch' \in Seq(FetchEvent) /\ browser' \in Browser /\ PausesHaveIds'
    BY <1>1, <2>1 DEF Begin, Browser, PausesHaveIds
  <2>2. ASSUME Decide PROVE fetch' \in Seq(FetchEvent) /\ browser' \in Browser /\ PausesHaveIds'
    <3> DEFINE p == FirstPause(browser.hop)
    <3>1. p \in Pause /\ browser.hop \in Hop
      BY <1>1, FirstPauseType DEF Browser
    <3>2. CASE browser.enabled /\ kind # "viaWorker"
      <4>1. /\ browser' = [browser EXCEPT !.stage = "paused", !.id = p,
                                          !.pausing[browser.hop] = "yes"]
            /\ fetch' = Append(fetch, PausedEvent(p))
        BY <2>2, <3>2 DEF Decide, FirstPause, PausedEvent
      <4> HIDE DEF p
      <4>2. fetch' \in Seq(FetchEvent)
        BY <3>1, <4>1, <1>7, AppendFetchType
      <4> QED BY <1>1, <3>1, <4>1, <4>2 DEF Browser, PausesHaveIds
    <3>3. CASE ~(browser.enabled /\ kind # "viaWorker")
      <4>1. /\ browser' = [browser EXCEPT !.stage = "sent", !.pausing[browser.hop] = "no"]
            /\ UNCHANGED fetch
        BY <2>2, <3>3 DEF Decide
      <4>2. browser' \in Browser
        BY <1>1, <3>1, <4>1 DEF Browser
      <4>3. /\ browser'.id = browser.id
            /\ \A h \in Hop : browser'.pausing[h] = "yes" => browser.pausing[h] = "yes"
        BY <1>1, <3>1, <4>1 DEF Browser
      <4> QED BY <1>1, <4>1, <4>2, <4>3 DEF PausesHaveIds
    <3> QED BY <3>2, <3>3
  <2>3. ASSUME Redirect PROVE fetch' \in Seq(FetchEvent) /\ browser' \in Browser /\ PausesHaveIds'
    <3>1. browser.hop + 1 \in Hop
      BY <1>1, <2>3, BoundAssumption DEF Redirect, Browser, Hop
    <3> QED BY <1>1, <2>3, <3>1 DEF Redirect, Browser, PausesHaveIds
  <2>4. ASSUME NEW empty \in BOOLEAN, Answer(empty)
        PROVE  fetch' \in Seq(FetchEvent) /\ browser' \in Browser /\ PausesHaveIds'
    BY <1>1, <2>4 DEF Answer, Browser, PausesHaveIds
  <2>5. ASSUME AnswerFromCache PROVE fetch' \in Seq(FetchEvent) /\ browser' \in Browser /\ PausesHaveIds'
    BY <1>1, <2>5 DEF AnswerFromCache, Browser, PausesHaveIds
  <2>6. ASSUME Finish \/ Fail \/ Cancel
        PROVE  fetch' \in Seq(FetchEvent) /\ browser' \in Browser /\ PausesHaveIds'
    <3>1. UNCHANGED fetch
      BY <2>6 DEF Finish, Fail, Cancel
    <3>2. \/ browser' = [browser EXCEPT !.stage = "over"]
          \/ \E cancelled \in BOOLEAN :
               browser' = [browser EXCEPT !.stage = "over", !.failed = TRUE, !.cancelled = cancelled]
      BY <2>6 DEF Finish, Fail, Cancel, FailLoad
    <3> QED BY <1>1, <3>1, <3>2 DEF Browser, PausesHaveIds
  <2>7. ASSUME Restart PROVE fetch' \in Seq(FetchEvent) /\ browser' \in Browser /\ PausesHaveIds'
    <3> DEFINE p == [hop |-> 0, again |-> TRUE]
    <3>1. p \in Pause
      BY BoundAssumption DEF Pause, Hop
    <3>2. /\ browser' = [browser EXCEPT !.stage = "paused", !.id = p, !.restarted = TRUE]
          /\ fetch' = Append(fetch, PausedEvent(p))
      BY <2>7 DEF Restart, PausedEvent
    <3> HIDE DEF p
    <3>3. fetch' \in Seq(FetchEvent)
      BY <3>1, <3>2, <1>7, AppendFetchType
    <3> QED BY <1>1, <3>1, <3>2, <3>3 DEF Browser, PausesHaveIds
  <2>8. ASSUME Challenge PROVE fetch' \in Seq(FetchEvent) /\ browser' \in Browser /\ PausesHaveIds'
    <3>1. browser.id \in Pause
      BY <1>1, <2>8 DEF Challenge, PausesHaveIds, Browser
    <3>2. [event |-> "auth", pause |-> browser.id] \in FetchEvent
      BY <3>1 DEF FetchEvent
    <3>3. fetch' \in Seq(FetchEvent)
      BY <2>8, <3>2, AppendFetchType DEF Challenge
    <3> QED BY <1>1, <2>8, <3>3 DEF Challenge, Browser, PausesHaveIds
  <2>9. ASSUME ReceiveCommand
        PROVE  fetch' \in Seq(FetchEvent) /\ browser' \in Browser /\ PausesHaveIds'
    <3> DEFINE c == Head(commands)
               enabled == CASE c.method = "enable" -> TRUE
                            [] c.method = "disable" -> FALSE
                            [] OTHER -> browser.enabled
    <3>1. c \in Command
      BY <1>1, <2>9, TailType DEF ReceiveCommand
    <3>2. CASE c.method = "fail" /\ Holds(c)
      BY <1>1, <2>9, <3>2 DEF ReceiveCommand, FailLoad, Browser, PausesHaveIds
    <3>3. CASE ~(c.method = "fail" /\ Holds(c))
      <4>1. /\ browser' = [browser EXCEPT
                            !.enabled = enabled,
                            !.stage = IF Holds(c) THEN Released(c) ELSE @,
                            !.pausing = PausingAfter(c)]
            /\ UNCHANGED fetch
        BY <2>9, <3>3 DEF ReceiveCommand
      <4>2. enabled \in BOOLEAN
        BY <1>1 DEF Browser
      <4> HIDE DEF c, enabled
      <4>3. Holds(c) => Released(c) \in Underway
        BY <3>3 DEF Holds, Released, Underway
      <4>4. /\ PausingAfter(c) \in [Hop -> {"undecided", "no", "yes", "cut"}]
            /\ \A h \in Hop : PausingAfter(c)[h] = "yes" => browser.pausing[h] = "yes"
        BY <1>1 DEF PausingAfter, Browser
      <4> QED BY <1>1, <4>1, <4>2, <4>3, <4>4 DEF Browser, PausesHaveIds, Underway
    <3> QED BY <3>2, <3>3
  <2> QED BY <2>1, <2>2, <2>3, <2>4, <2>5, <2>6, <2>7, <2>8, <2>9 DEF Progress
<1>9. /\ (switches \in 0..MaxSwitch)' /\ (kind \in Kind)' /\ (frame \in BOOLEAN)'
      /\ (expecting \in [Hop -> {"unheard", "yes", "no"}])'
  BY <1>2, TypedParts
<1> QED BY <1>3, <1>4, <1>5, <1>6, <1>8, <1>9
    DEF Typed, TypeOK, ManagerTyped, Listed, FetchEvent, ExtraEvent

(***************************************************************************)
(* The steps of the manager, told by what matters of them.                  *)
(***************************************************************************)
TakesEvent(name) == network # <<>> /\ Head(network).event = name /\ network' = Tail(network)

KeepsBoth == m'.sent = m.sent /\ m'.paused = m.paused

(* An event that neither begins nor ends a request.                         *)
LeavesBe ==
  /\ network # <<>> /\ Head(network).event # "requestWillBeSent" /\ network' = Tail(network)
  /\ Head(network).event \in {"loadingFinished", "loadingFailed"} => m.request = None
  /\ Head(network).event = "loadingFailed" => m.sent = None
  /\ kind = "viaWorker" /\ Head(network).event = "responseReceived" =>
       m.request # None \/ m.sent = None

Bookkeeps ==
  /\ SameReports(m, m') /\ KeepsBoth /\ MayAnswer(None)
  /\ UNCHANGED network \/ LeavesBe
  /\ \/ UNCHANGED fetch
     \/ fetch # <<>> /\ Head(fetch).event # "paused" /\ fetch' = Tail(fetch)
  /\ UNCHANGED expecting
  /\ frame' => frame

Hears ==
  LET h == Head(network).hop IN
  /\ TakesEvent("requestWillBeSent") /\ UNCHANGED <<fetch, frame>>
  /\ expecting' = [expecting EXCEPT ![h] = IF m.protocol THEN "yes" ELSE "no"]
  /\ MayAnswer(IF m.protocol THEN m.paused ELSE None)
  /\ \/ /\ m.protocol /\ m.paused = None /\ SameReports(m, m')
        /\ m'.sent = [hop |-> h, redirected |-> Head(network).hasExtraInfo]
        /\ m'.paused = m.paused
     \/ /\ m.protocol => m.paused # None
        /\ Begins(m, m', h) \/ Skips(m, m', h)
        /\ ~frame /\ kind # "preflight" => Skips(m, m', h)
        /\ frame /\ kind # "preflight" => Begins(m, m', h)
        /\ m'.sent = m.sent
        /\ m'.paused = IF m.protocol THEN None ELSE m.paused

SeesPause ==
  \E pause \in Pause :
    /\ fetch # <<>> /\ Head(fetch) = PausedEvent(pause) /\ fetch' = Tail(fetch)
    /\ UNCHANGED <<network, expecting, frame>>
    /\ MayAnswer(pause)
    /\ \/ /\ kind = "foreign" \/ (m.request # None /\ pause.hop = 0)
          /\ SameReports(m, m') /\ KeepsBoth
          /\ kind # "foreign" => m.sent = None
       \/ /\ kind # "foreign" /\ m.sent = None
          /\ SameReports(m, m') /\ m'.sent = m.sent /\ m'.paused = pause
          /\ MayAnswer(None)
       \/ /\ kind # "foreign" /\ m.sent # None
          /\ Begins(m, m', m.sent.hop) \/ Skips(m, m', m.sent.hop)
          /\ ~frame /\ kind # "preflight" => Skips(m, m', m.sent.hop)
          /\ frame /\ kind # "preflight" => Begins(m, m', m.sent.hop)
          /\ m'.sent = None /\ m'.paused = m.paused

StopsNow == /\ m.request = None /\ m.sent # None /\ m'.sent = None /\ m'.paused = m.paused

HearsLate ==
  /\ kind = "viaWorker" /\ TakesEvent("responseReceived")
  /\ UNCHANGED <<fetch, expecting, frame>> /\ MayAnswer(None)
  /\ StopsNow
  /\ Begins(m, m', m.sent.hop) \/ SameReports(m, m')
  /\ ~frame => SameReports(m, m')
  /\ frame => Begins(m, m', m.sent.hop)

HearsEnd ==
  /\ TakesEvent("loadingFinished") \/ TakesEvent("loadingFailed")
  /\ UNCHANGED <<fetch, expecting, frame>> /\ MayAnswer(None)
  /\ \/ m.request # None /\ IsOver(m, m', m.request) /\ KeepsBoth
     \/ /\ TakesEvent("loadingFailed") /\ StopsNow
        /\ IsOver(m, m', m.sent.hop) \/ SameReports(m, m')
        /\ ~frame /\ kind # "preflight" => SameReports(m, m')
        /\ frame => IsOver(m, m', m.sent.hop)

ManagerStep ==
  /\ UNCHANGED <<kind, browser>>
  /\ Bookkeeps \/ Hears \/ SeesPause \/ HearsLate \/ HearsEnd

ChannelsTyped ==
  /\ switches \in 0..MaxSwitch /\ kind \in Kind /\ frame \in BOOLEAN
  /\ browser \in Browser /\ PausesHaveIds
  /\ network \in Seq(NetworkEvent) /\ extra \in Seq(ExtraEvent)
  /\ fetch \in Seq(FetchEvent)
  /\ expecting \in [Hop -> {"unheard", "yes", "no"}]

LEMMA HandledTyped ==
  ASSUME Typed, NEW s, NEW pause, Effect(m, s, pause), Handled(s), ChannelsTyped'
  PROVE  Typed'
<1>1. m' \in Manager /\ m'.out = <<>> /\ Listed(m') /\ RoutesHold(m') /\ commands' \in Seq(Command)
  BY HandledEffect DEF Typed
<1> QED BY <1>1 DEF ChannelsTyped, Typed, TypeOK, Listed, FetchEvent, ExtraEvent

LEMMA HandledSame ==
  ASSUME TypeOK, RoutesHold(m), NEW s, NEW pause, Effect(m, s, pause), Handled(s)
  PROVE  /\ MayAnswer(pause)
         /\ m'.sent = s.sent /\ m'.paused = s.paused
         /\ SameReports(m, s) => SameReports(m, m')
         /\ \A h \in Hop : /\ Begins(m, s, h) => Begins(m, m', h)
                           /\ Skips(m, s, h) => Skips(m, m', h)
                           /\ IsOver(m, s, h) => IsOver(m, m', h)
<1>1. /\ MayAnswer(pause)
      /\ m'.sent = s.sent /\ m'.paused = s.paused
      /\ m'.request = s.request /\ m'.requests = s.requests
  BY HandledEffect
<1> QED BY <1>1 DEF SameReports, Begins, Skips, IsOver

LEMMA ReceiveRequestWillBeSentStep ==
  ASSUME Typed, ReceiveRequestWillBeSent
  PROVE  Typed' /\ ManagerStep
<1> DEFINE h == Head(network).hop
           event == [hop |-> h, redirected |-> Head(network).hasExtraInfo]
           t == OnRequestWillBeSent(m, event)
           pause == IF m.protocol THEN m.paused ELSE None
<1>1. TypeOK /\ RoutesHold(m) /\ m \in Manager /\ Listed(m)
  BY TypedParts DEF Typed, ManagerTyped
<1>2. /\ TakesEvent("requestWillBeSent") /\ Handled(t)
      /\ expecting' = [expecting EXCEPT ![h] = IF m.protocol THEN "yes" ELSE "no"]
      /\ UNCHANGED <<switches, kind, frame, browser, extra, fetch>>
  BY DEF ReceiveRequestWillBeSent, NetworkIs, ReceiveNetwork, TakesEvent
<1>3. Head(network) \in NetworkEvent /\ Tail(network) \in Seq(NetworkEvent)
  BY <1>2, TypedParts, TailType DEF TakesEvent
<1>4. event \in Sent /\ event.hop = h /\ h \in Hop
  BY <1>3 DEF NetworkEvent, Sent
<1>5. /\ Effect(m, t, pause)
      /\ \/ /\ m.protocol /\ m.paused = None /\ SameReports(m, t)
            /\ t.sent = event /\ t.paused = m.paused
         \/ /\ m.protocol => m.paused # None
            /\ Begins(m, t, h) \/ Skips(m, t, h)
            /\ ~frame /\ kind # "preflight" => Skips(m, t, h)
            /\ frame /\ kind # "preflight" => Begins(m, t, h)
            /\ t.sent = m.sent /\ t.paused = IF m.protocol THEN None ELSE m.paused
  <2> HIDE DEF h, event
  <2>1. event.hop = h /\ event \in Sent
    BY <1>4
  <2> QED BY <1>1, <2>1, OnRequestWillBeSentEffect
<1> HIDE DEF t, pause
<1>6. ChannelsTyped'
  BY <1>2, <1>3, TypedParts DEF ChannelsTyped, TakesEvent, PausesHaveIds
<1>7. Typed'
  BY <1>2, <1>5, <1>6, HandledTyped
<1>8. /\ MayAnswer(pause)
      /\ m'.sent = t.sent /\ m'.paused = t.paused
      /\ SameReports(m, t) => SameReports(m, m')
      /\ Begins(m, t, h) => Begins(m, m', h)
      /\ Skips(m, t, h) => Skips(m, m', h)
  <2> HIDE DEF h
  <2> QED BY <1>1, <1>2, <1>4, <1>5, HandledSame
<1>9. Hears
  <2> HIDE DEF event
  <2> QED BY <1>2, <1>5, <1>8 DEF Hears, pause, event
<1> QED BY <1>2, <1>7, <1>9 DEF ManagerStep

LEMMA ReceiveFetchStep ==
  ASSUME Typed, ReceiveFetch
  PROVE  Typed' /\ ManagerStep
<1> DEFINE pause == Head(fetch).pause
           t == OnRequestPaused(m, pause)
           u == OnAuthRequired(m, pause)
<1>1. TypeOK /\ RoutesHold(m) /\ m \in Manager /\ Listed(m)
  BY TypedParts DEF Typed, ManagerTyped
<1>2. /\ fetch # <<>> /\ fetch' = Tail(fetch)
      /\ Handled(IF Head(fetch).event = "paused" THEN t ELSE u)
      /\ UNCHANGED <<switches, kind, frame, browser, network, extra, expecting>>
  BY DEF ReceiveFetch
<1>3. Head(fetch) \in FetchEvent /\ Tail(fetch) \in Seq(FetchEvent)
  BY <1>2, TypedParts, TailType
<1>4. pause \in Pause
  BY <1>3 DEF FetchEvent
<1>5. ChannelsTyped'
  BY <1>2, <1>3, TypedParts DEF ChannelsTyped, PausesHaveIds
<1>6. CASE Head(fetch).event = "paused"
  <2>1. Handled(t) /\ Head(fetch) = PausedEvent(pause)
    BY <1>2, <1>3, <1>6 DEF FetchEvent, PausedEvent
  <2> HIDE DEF pause
  <2>2. /\ Effect(m, t, pause)
        /\ \/ /\ kind = "foreign" \/ (m.request # None /\ pause.hop = 0)
              /\ SameReports(m, t) /\ t.sent = m.sent /\ t.paused = m.paused
              /\ kind # "foreign" => m.sent = None
           \/ /\ kind # "foreign" /\ m.sent = None
              /\ SameReports(m, t) /\ t.sent = m.sent /\ t.paused = pause
              /\ Effect(m, t, None)
           \/ /\ kind # "foreign" /\ m.sent # None
              /\ Begins(m, t, m.sent.hop) \/ Skips(m, t, m.sent.hop)
              /\ ~frame /\ kind # "preflight" => Skips(m, t, m.sent.hop)
              /\ frame /\ kind # "preflight" => Begins(m, t, m.sent.hop)
              /\ t.sent = None /\ t.paused = m.paused
    BY <1>1, <1>4, OnRequestPausedEffect
  <2> HIDE DEF t
  <2>3. Typed'
    BY <1>5, <2>1, <2>2, HandledTyped
  <2>4. /\ MayAnswer(pause)
        /\ m'.sent = t.sent /\ m'.paused = t.paused
        /\ SameReports(m, t) => SameReports(m, m')
        /\ \A h \in Hop : /\ Begins(m, t, h) => Begins(m, m', h)
                          /\ Skips(m, t, h) => Skips(m, m', h)
    BY <1>1, <2>1, <2>2, HandledSame
  <2>7. Effect(m, t, None) => MayAnswer(None)
    BY <1>1, <2>1, HandledSame
  <2>5. m.sent # None => m.sent.hop \in Hop
    BY <1>1 DEF Manager, Sent
  <2>6. SeesPause
    BY <1>2, <1>4, <2>1, <2>2, <2>4, <2>5, <2>7 DEF SeesPause, KeepsBoth
  <2> QED BY <1>2, <2>3, <2>6 DEF ManagerStep
<1>7. CASE Head(fetch).event # "paused"
  <2>1. Handled(u)
    BY <1>2, <1>7
  <2> HIDE DEF pause
  <2>2. /\ Effect(m, u, None) /\ SameReports(m, u) /\ u.sent = m.sent /\ u.paused = m.paused
    BY <1>1, <1>4, OnAuthRequiredEffect
  <2> HIDE DEF u
  <2>3. Typed'
    BY <1>5, <2>1, <2>2, HandledTyped
  <2>4. /\ MayAnswer(None) /\ m'.sent = u.sent /\ m'.paused = u.paused /\ SameReports(m, m')
    BY <1>1, <2>1, <2>2, HandledSame
  <2>5. Bookkeeps
    BY <1>2, <1>7, <2>2, <2>4 DEF Bookkeeps, KeepsBoth
  <2> QED BY <1>2, <2>3, <2>5 DEF ManagerStep
<1> QED BY <1>6, <1>7

LEMMA MindUpdate ==
  ASSUME NEW s \in Manager, Listed(s), NEW needs \in BOOLEAN, NEW user \in BOOLEAN,
         NEW credentials \in BOOLEAN
  PROVE  LET t == [s EXCEPT !.needs = needs, !.user = user, !.credentials = credentials]
         IN /\ Effect(s, t, None) /\ SameReports(s, t)
            /\ t.sent = s.sent /\ t.paused = s.paused
<1> DEFINE t == [s EXCEPT !.needs = needs, !.user = user, !.credentials = credentials]
<1>1. t \in Manager /\ t.sent = s.sent /\ t.paused = s.paused /\ t.out = s.out
      /\ t.request = s.request /\ t.requests = s.requests
  BY DEF Manager
<1> HIDE DEF t
<1>2. SameReports(s, t) /\ SameRoutes(s, t)
  BY <1>1 DEF SameReports, SameRoutes
<1> QED BY <1>1, <1>2, SameEffect DEF t

LEMMA ChangeStep ==
  ASSUME Typed, ChangeInterception
  PROVE  Typed' /\ ManagerStep
<1>1. TypeOK /\ RoutesHold(m) /\ m \in Manager /\ Listed(m)
  BY TypedParts DEF Typed, ManagerTyped
<1>2. /\ switches' \in 0..MaxSwitch
      /\ UNCHANGED <<kind, frame, browser, network, extra, fetch, expecting>>
  <2>1. switches' = switches \/ (switches < MaxSwitch /\ switches' = switches + 1)
    BY DEF ChangeInterception, AddRequestInterceptor, RemoveRequestInterceptor,
           SetRequestInterception, Authenticate, ChangeMind
  <2>2. switches' \in 0..MaxSwitch
    BY <2>1, TypedParts, BoundAssumption
  <2> QED BY <2>2 DEF ChangeInterception, AddRequestInterceptor, RemoveRequestInterceptor,
                      SetRequestInterception, Authenticate
<1>3. ChannelsTyped'
  BY <1>2, TypedParts DEF ChannelsTyped, PausesHaveIds
<1>4. PICK needs \in BOOLEAN, user \in BOOLEAN, credentials \in BOOLEAN :
        LET t == [m EXCEPT !.needs = needs, !.user = user, !.credentials = credentials]
        IN Handled(t) \/ Handled(UpdateProtocolRequestInterception(t))
  <2> DEFINE T(needs, user, credentials) ==
               [m EXCEPT !.needs = needs, !.user = user, !.credentials = credentials]
             G == \E needs \in BOOLEAN, user \in BOOLEAN, credentials \in BOOLEAN :
                    \/ Handled(T(needs, user, credentials))
                    \/ Handled(UpdateProtocolRequestInterception(T(needs, user, credentials)))
  <2>1. m.needs \in BOOLEAN /\ m.user \in BOOLEAN /\ m.credentials \in BOOLEAN
    BY <1>1 DEF Manager
  <2>2. ASSUME AddRequestInterceptor PROVE G
    <3>1. [m EXCEPT !.needs = TRUE, !.user = TRUE] = T(TRUE, TRUE, m.credentials)
      BY <1>1 DEF Manager
    <3> QED BY <2>1, <2>2, <3>1 DEF AddRequestInterceptor
  <2>3. ASSUME RemoveRequestInterceptor PROVE G
    <3>1. [m EXCEPT !.needs = FALSE] = T(FALSE, m.user, m.credentials)
      BY <1>1 DEF Manager
    <3> QED BY <2>1, <2>3, <3>1 DEF RemoveRequestInterceptor
  <2>4. ASSUME SetRequestInterception PROVE G
    <3>1. [m EXCEPT !.user = m.needs] = T(m.needs, m.needs, m.credentials)
      BY <1>1 DEF Manager
    <3> QED BY <2>1, <2>4, <3>1 DEF SetRequestInterception
  <2>5. ASSUME Authenticate PROVE G
    <3>1. [m EXCEPT !.credentials = ~@] = T(m.needs, m.user, ~m.credentials)
      BY <1>1 DEF Manager
    <3> QED BY <2>1, <2>5, <3>1 DEF Authenticate
  <2> QED BY <2>2, <2>3, <2>4, <2>5 DEF ChangeInterception
<1> DEFINE t == [m EXCEPT !.needs = needs, !.user = user, !.credentials = credentials]
           u == UpdateProtocolRequestInterception(t)
<1>5. Effect(m, t, None) /\ SameReports(m, t) /\ t.sent = m.sent /\ t.paused = m.paused
  <2>1. needs \in BOOLEAN /\ user \in BOOLEAN /\ credentials \in BOOLEAN
    OBVIOUS
  <2> QED BY <1>1, <2>1, MindUpdate, ZenonT(30)
<1>6. Handled(t) \/ Handled(u)
  BY <1>4
<1> HIDE DEF t
<1>7. Effect(m, u, None) /\ SameReports(m, u) /\ u.sent = m.sent /\ u.paused = m.paused
  <2>1. t \in Manager /\ Listed(t)
    BY <1>5 DEF Effect
  <2>2. Effect(t, u, None) /\ SameReports(t, u) /\ u.sent = t.sent /\ u.paused = t.paused
    BY <2>1, UpdateInterceptionEffect
  <2> HIDE DEF u
  <2> QED BY <1>5, <2>2, EffectTwice DEF SameReports
<1> HIDE DEF u
<1>8. Typed'
  BY <1>3, <1>5, <1>6, <1>7, HandledTyped
<1>9. SameReports(m, m') /\ KeepsBoth /\ MayAnswer(None)
  BY <1>1, <1>5, <1>6, <1>7, HandledSame DEF KeepsBoth
<1> QED BY <1>2, <1>8, <1>9 DEF Bookkeeps, ManagerStep

LEMMA AnswerRouteStep ==
  ASSUME Typed, NEW h \in Hop, NEW state \in {"continued", "fulfilled", "aborted"},
         NEW method \in {"continue", "fulfill", "fail"}, AnswerRoute(h, state, method)
  PROVE  Typed' /\ ManagerStep
<1> DEFINE r == [m.requests[h] EXCEPT !.route = state]
           f == [m.requests EXCEPT ![h] = r]
           t == [m EXCEPT !.requests = f]
           p == m.requests[h].interception
           u == Send(t, method, p)
<1>1. TypeOK /\ RoutesHold(m) /\ m \in Manager /\ Listed(m)
  BY TypedParts DEF Typed, ManagerTyped
<1>2. /\ m.requests[h].route = "open" /\ m.requests \in [Hop -> Request]
      /\ UNCHANGED <<switches, kind, frame, browser, network, extra, fetch, expecting>>
  BY <1>1 DEF AnswerRoute, Manager
<1>3. p \in Pause /\ Answering(p)
  BY <1>1, <1>2 DEF RoutesHold, Answering, HeldByRoute
<1>4. r \in Request /\ r.report = m.requests[h].report /\ r.interception = p /\ r.route # "open"
  <2>1. m.requests[h] \in Request
    BY <1>2
  <2> QED BY <2>1 DEF Request
<1>5. /\ t \in Manager /\ t.sent = m.sent /\ t.paused = m.paused /\ t.out = m.out
      /\ t.request = m.request /\ \A k \in Hop : t.requests[k] = IF k = h THEN r ELSE m.requests[k]
  <2> HIDE DEF r
  <2>1. f \in [Hop -> Request]
    BY <1>2, <1>4
  <2>2. \A k \in Hop : f[k] = IF k = h THEN r ELSE m.requests[k]
    BY <1>2
  <2> HIDE DEF f
  <2> QED BY <1>1, <2>1, <2>2 DEF Manager
<1>6. Handled(u)
  <2>1. t = [m EXCEPT !.requests[h].route = state]
    BY <1>1, <1>2 DEF Manager
  <2> QED BY <2>1 DEF AnswerRoute
<1> HIDE DEF t, r, p
<1>7. Effect(m, t, p) /\ SameReports(m, t) /\ Listed(t)
  <2>1. SameReports(m, t) /\ (RoutesHold(m) => RoutesHold(t))
    BY <1>4, <1>5 DEF SameReports, RoutesHold
  <2>2. Listed(t)
    BY <1>1, <2>1 DEF SameReports, Listed, Manager
  <2>3. \A q \in Pause : HeldByRoute(t, q) => HeldByRoute(m, q)
    BY <1>4, <1>5 DEF HeldByRoute
  <2> QED BY <1>5, <2>1, <2>2, <2>3 DEF Effect, OnlyLetsGo
<1>8. [method |-> method, pause |-> p] \in Command
  BY <1>3 DEF Command
<1>9. /\ Effect(t, u, p) /\ SameReports(t, u) /\ u.sent = t.sent /\ u.paused = t.paused
  BY <1>5, <1>7, <1>8, SendEffect
<1> HIDE DEF u
<1>10. Effect(m, u, p) /\ SameReports(m, u) /\ u.sent = m.sent /\ u.paused = m.paused
  BY <1>5, <1>7, <1>9, EffectTwice DEF SameReports
<1>11. ChannelsTyped'
  BY <1>2, TypedParts DEF ChannelsTyped, PausesHaveIds
<1>12. Typed'
  BY <1>6, <1>10, <1>11, HandledTyped
<1>13. SameReports(m, m') /\ KeepsBoth /\ MayAnswer(p)
  BY <1>1, <1>6, <1>10, HandledSame DEF KeepsBoth
<1>14. MayAnswer(None)
  BY <1>3, <1>13 DEF MayAnswer
<1> QED BY <1>2, <1>12, <1>13, <1>14 DEF Bookkeeps, ManagerStep

LEMMA AnswerAnyRouteStep ==
  ASSUME Typed, AnswerAnyRoute
  PROVE  Typed' /\ ManagerStep
BY AnswerRouteStep DEF AnswerAnyRoute, RouteContinue, RouteFulfill, RouteAbort

LEMMA DetachFrameStep ==
  ASSUME Typed, DetachFrame
  PROVE  Typed' /\ ManagerStep
<1>1. frame' = FALSE /\ UNCHANGED <<m, switches, kind, browser, channels, expecting>>
  BY DEF DetachFrame
<1>2. Typed'
  BY <1>1 DEF Typed, TypeOK, RoutesHold, PausesHaveIds, channels
<1>3. SameReports(m, m') /\ KeepsBoth /\ MayAnswer(None)
  BY <1>1 DEF SameReports, KeepsBoth, MayAnswer, Answering, channels, HeldByRoute, LetsGo
<1> QED BY <1>1, <1>2, <1>3 DEF Bookkeeps, ManagerStep, channels

(* A handler of an event of the network other than requestWillBeSent.        *)
LEMMA ReceiveNetworkParts ==
  ASSUME Typed, NEW s, NEW name \in {"requestServedFromCache", "responseReceived",
                                     "loadingFinished", "loadingFailed"},
         NetworkIs(name), ReceiveNetwork(s), UNCHANGED expecting,
         Effect(m, s, None)
  PROVE  /\ Typed' /\ TakesEvent(name) /\ MayAnswer(None)
         /\ UNCHANGED <<kind, frame, browser, fetch, expecting>>
         /\ m'.sent = s.sent /\ m'.paused = s.paused
         /\ SameReports(m, s) => SameReports(m, m')
         /\ \A h \in Hop : /\ Begins(m, s, h) => Begins(m, m', h)
                           /\ Skips(m, s, h) => Skips(m, m', h)
                           /\ IsOver(m, s, h) => IsOver(m, m', h)
<1>1. /\ TakesEvent(name) /\ Handled(s)
      /\ UNCHANGED <<switches, kind, frame, browser, extra, fetch>>
  BY DEF NetworkIs, ReceiveNetwork, TakesEvent
<1>2. Tail(network) \in Seq(NetworkEvent)
  BY <1>1, TypedParts, TailType DEF TakesEvent
<1>3. ChannelsTyped'
  BY <1>1, <1>2, TypedParts DEF ChannelsTyped, TakesEvent, PausesHaveIds
<1>4. Typed'
  BY <1>1, <1>3, HandledTyped
<1> QED BY <1>1, <1>4, HandledSame DEF Typed

LEMMA ReceiveServedFromCacheStep ==
  ASSUME Typed, ReceiveServedFromCache
  PROVE  Typed' /\ ManagerStep
<1> DEFINE s == RequestServedFromCache(m)
<1>1. m \in Manager /\ Listed(m)
  BY TypedParts DEF ManagerTyped
<1>2. s \in Manager /\ Untouched(m, s)
  BY <1>1, ServedFromCacheKeeps
<1>3. NetworkIs("requestServedFromCache") /\ ReceiveNetwork(s) /\ UNCHANGED expecting
  BY DEF ReceiveServedFromCache
<1> HIDE DEF s
<1>4. Effect(m, s, None) /\ SameReports(m, s) /\ s.sent = m.sent /\ s.paused = m.paused
  BY <1>1, <1>2, UntouchedEffect
<1>5. /\ Typed' /\ TakesEvent("requestServedFromCache") /\ MayAnswer(None)
      /\ UNCHANGED <<kind, frame, browser, fetch, expecting>>
      /\ m'.sent = s.sent /\ m'.paused = s.paused /\ SameReports(m, m')
  BY <1>3, <1>4, ReceiveNetworkParts
<1> QED BY <1>4, <1>5 DEF Bookkeeps, LeavesBe, KeepsBoth, TakesEvent, ManagerStep

LEMMA ReceiveExtraStep ==
  ASSUME Typed, ReceiveExtra
  PROVE  Typed' /\ ManagerStep
<1> DEFINE h == Head(extra).hop
           s == IF Head(extra).event = "sent" THEN RequestWillBeSentExtraInfo(m, h)
                ELSE ResponseReceivedExtraInfo(m, h)
<1>1. TypeOK /\ RoutesHold(m) /\ m \in Manager /\ Listed(m)
  BY TypedParts DEF Typed, ManagerTyped
<1>2. /\ extra # <<>> /\ extra' = Tail(extra) /\ Handled(s)
      /\ UNCHANGED <<switches, kind, frame, browser, network, fetch, expecting>>
  BY DEF ReceiveExtra
<1>3. Head(extra) \in ExtraEvent /\ Tail(extra) \in Seq(ExtraEvent)
  BY <1>2, TypedParts, TailType
<1>4. h \in Hop
  BY <1>3 DEF ExtraEvent
<1>5. s \in Manager /\ Untouched(m, s)
  <2> HIDE DEF h
  <2> QED BY <1>1, <1>4, ExtraInfoKeeps
<1> HIDE DEF s
<1>6. Effect(m, s, None) /\ SameReports(m, s) /\ s.sent = m.sent /\ s.paused = m.paused
  BY <1>1, <1>5, UntouchedEffect
<1>7. ChannelsTyped'
  BY <1>2, <1>3, TypedParts DEF ChannelsTyped, PausesHaveIds
<1>8. Typed'
  BY <1>2, <1>6, <1>7, HandledTyped
<1>9. SameReports(m, m') /\ KeepsBoth /\ MayAnswer(None)
  BY <1>1, <1>2, <1>6, HandledSame DEF KeepsBoth
<1> QED BY <1>2, <1>8, <1>9 DEF Bookkeeps, ManagerStep

LEMMA ReceiveResponseStep ==
  ASSUME Typed, ReceiveResponse
  PROVE  Typed' /\ ManagerStep
<1> DEFINE e == Head(network)
           s == OnResponseReceived(m, e.hop, e.hasExtraInfo, e.empty)
<1>1. m \in Manager /\ Listed(m)
  BY TypedParts DEF ManagerTyped
<1>2. NetworkIs("responseReceived") /\ ReceiveNetwork(s) /\ UNCHANGED expecting
  BY DEF ReceiveResponse
<1>3. e.empty \in BOOLEAN
  <2>1. network \in Seq(NetworkEvent) /\ network # <<>>
    BY <1>2, TypedParts DEF NetworkIs
  <2>2. e \in NetworkEvent
    BY <2>1, TailType
  <2> QED BY <2>2 DEF NetworkEvent
<1>4. /\ Effect(m, s, None) /\ s.paused = m.paused
      /\ IF kind = "viaWorker" THEN StopsWaiting(m, s) ELSE SameReports(m, s) /\ s.sent = m.sent
  BY <1>1, <1>3, OnResponseReceivedEffect
<1> HIDE DEF s, e
<1>5. /\ Typed' /\ TakesEvent("responseReceived") /\ MayAnswer(None)
      /\ UNCHANGED <<kind, frame, browser, fetch, expecting>>
      /\ m'.sent = s.sent /\ m'.paused = s.paused /\ (SameReports(m, s) => SameReports(m, m'))
      /\ \A h \in Hop : Begins(m, s, h) => Begins(m, m', h)
  BY <1>2, <1>4, ReceiveNetworkParts
<1>6. CASE SameReports(m, s) /\ s.sent = m.sent
  BY <1>4, <1>5, <1>6 DEF StopsWaiting, Bookkeeps, LeavesBe, KeepsBoth, TakesEvent, ManagerStep
<1>7. CASE ~(SameReports(m, s) /\ s.sent = m.sent)
  <2>1. /\ kind = "viaWorker" /\ m.request = None /\ m.sent # None /\ s.sent = None
        /\ Begins(m, s, m.sent.hop) \/ SameReports(m, s)
        /\ ~frame => SameReports(m, s)
        /\ frame => Begins(m, s, m.sent.hop)
    BY <1>4, <1>7 DEF StopsWaiting
  <2>2. m.sent.hop \in Hop
    BY <1>1, <2>1 DEF Manager, Sent
  <2>3. HearsLate
    BY <1>4, <1>5, <2>1, <2>2 DEF HearsLate, StopsNow
  <2> QED BY <1>5, <2>3 DEF ManagerStep
<1> QED BY <1>6, <1>7

LEMMA ReceiveEndStep ==
  ASSUME Typed, ReceiveLoadingFinished \/ ReceiveLoadingFailed
  PROVE  Typed' /\ ManagerStep
<1>1. m \in Manager /\ Listed(m)
  BY TypedParts DEF ManagerTyped
<1>2. ASSUME NEW s, NEW name \in {"loadingFinished", "loadingFailed"}, NetworkIs(name),
             ReceiveNetwork(s), UNCHANGED expecting,
             Effect(m, s, None), s.paused = m.paused,
             \/ m.request # None /\ IsOver(m, s, m.request) /\ s.sent = m.sent
             \/ /\ m.request = None /\ SameReports(m, s) /\ s.sent = m.sent
                /\ name = "loadingFailed" => m.sent = None
             \/ /\ name = "loadingFailed"
                /\ m.request = None /\ m.sent # None /\ s.sent = None
                /\ IsOver(m, s, m.sent.hop) \/ SameReports(m, s)
                /\ ~frame /\ kind # "preflight" => SameReports(m, s)
                /\ frame => IsOver(m, s, m.sent.hop)
      PROVE  Typed' /\ ManagerStep
  <2>1. /\ Typed' /\ TakesEvent(name) /\ MayAnswer(None)
        /\ UNCHANGED <<kind, frame, browser, fetch, expecting>>
        /\ m'.sent = s.sent /\ m'.paused = s.paused /\ (SameReports(m, s) => SameReports(m, m'))
        /\ \A h \in Hop : IsOver(m, s, h) => IsOver(m, m', h)
    BY <1>2, ReceiveNetworkParts
  <2>2. /\ m.request # None => m.request \in Hop
        /\ m.sent # None => m.sent.hop \in Hop
    BY <1>1 DEF Manager, Sent
  <2>3. CASE m.request # None /\ IsOver(m, s, m.request) /\ s.sent = m.sent
    BY <1>2, <2>1, <2>2, <2>3 DEF HearsEnd, KeepsBoth, ManagerStep
  <2>4. CASE /\ m.request = None /\ SameReports(m, s) /\ s.sent = m.sent
             /\ name = "loadingFailed" => m.sent = None
    BY <1>2, <2>1, <2>4 DEF Bookkeeps, LeavesBe, KeepsBoth, TakesEvent, ManagerStep
  <2>5. CASE /\ name = "loadingFailed"
             /\ m.request = None /\ m.sent # None /\ s.sent = None
             /\ IsOver(m, s, m.sent.hop) \/ SameReports(m, s)
             /\ ~frame /\ kind # "preflight" => SameReports(m, s)
             /\ frame => IsOver(m, s, m.sent.hop)
    BY <1>2, <2>1, <2>2, <2>5 DEF HearsEnd, StopsNow, ManagerStep
  <2> QED BY <1>2, <2>3, <2>4, <2>5
<1>3. ASSUME ReceiveLoadingFinished PROVE Typed' /\ ManagerStep
  <2> DEFINE s == OnLoadingFinished(m)
  <2>1. NetworkIs("loadingFinished") /\ ReceiveNetwork(s) /\ UNCHANGED expecting
    BY <1>3 DEF ReceiveLoadingFinished
  <2>2. /\ Effect(m, s, None) /\ s.sent = m.sent /\ s.paused = m.paused
        /\ IF m.request = None THEN SameReports(m, s) ELSE IsOver(m, s, m.request)
    BY <1>1, OnLoadingFinishedEffect
  <2> HIDE DEF s
  <2> QED BY <1>2, <2>1, <2>2
<1>4. ASSUME ReceiveLoadingFailed PROVE Typed' /\ ManagerStep
  <2> DEFINE s == OnLoadingFailed(m)
  <2>1. NetworkIs("loadingFailed") /\ ReceiveNetwork(s) /\ UNCHANGED expecting
    BY <1>4 DEF ReceiveLoadingFailed
  <2>2. /\ Effect(m, s, None) /\ s.paused = m.paused
        /\ \/ m.request # None /\ IsOver(m, s, m.request) /\ s.sent = m.sent
           \/ m.request = None /\ m.sent = None /\ SameReports(m, s) /\ s.sent = m.sent
           \/ /\ m.request = None /\ m.sent # None /\ s.sent = None
              /\ IsOver(m, s, m.sent.hop) \/ SameReports(m, s)
              /\ ~frame /\ kind # "preflight" => SameReports(m, s)
              /\ frame => IsOver(m, s, m.sent.hop)
    BY <1>1, OnLoadingFailedEffect
  <2> HIDE DEF s
  <2> QED BY <1>2, <2>1, <2>2
<1> QED BY <1>3, <1>4

(***************************************************************************)
(* What a step does to the channels.                                       *)
(***************************************************************************)
LEMMA AppendItems ==
  ASSUME NEW S, NEW q \in Seq(S), NEW e \in S
  PROVE  /\ DOMAIN Append(q, e) = 1..(Len(q) + 1) /\ DOMAIN q = 1..Len(q) /\ Len(q) \in Nat
         /\ Len(Append(q, e)) = Len(q) + 1
         /\ \A i \in DOMAIN Append(q, e) : Append(q, e)[i] = IF i = Len(q) + 1 THEN e ELSE q[i]
<1>1. /\ Append(q, e) \in Seq(S) /\ Len(Append(q, e)) = Len(q) + 1
      /\ \A i \in 1..Len(q) : Append(q, e)[i] = q[i]
      /\ Append(q, e)[Len(q) + 1] = e
  BY AppendProperties
<1>2. DOMAIN Append(q, e) = 1..(Len(q) + 1) /\ DOMAIN q = 1..Len(q) /\ Len(q) \in Nat
  BY <1>1, LenProperties
<1> QED BY <1>1, <1>2

LEMMA TailItems ==
  ASSUME NEW S, NEW q \in Seq(S), q # <<>>
  PROVE  /\ DOMAIN q = 1..Len(q) /\ Len(q) \in Nat \ {0} /\ Len(Tail(q)) = Len(q) - 1
         /\ DOMAIN Tail(q) = 1..(Len(q) - 1)
         /\ \A i \in DOMAIN Tail(q) : Tail(q)[i] = q[i + 1]
         /\ q[1] = Head(q)
<1>1. /\ Tail(q) \in Seq(S) /\ Len(Tail(q)) = Len(q) - 1
      /\ \A i \in 1..Len(Tail(q)) : Tail(q)[i] = q[i + 1]
  BY HeadTailProperties
<1>2. DOMAIN q = 1..Len(q) /\ Len(q) \in Nat \ {0}
  BY LenProperties, EmptySeq
<1>3. DOMAIN Tail(q) = 1..(Len(q) - 1)
  BY <1>1, LenProperties
<1> QED BY <1>1, <1>2, <1>3

LEMMA AnnouncedAppend ==
  ASSUME NEW q \in Seq(NetworkEvent), NEW e \in NetworkEvent, NEW h, AnnouncedIn(Append(q, e), h)
  PROVE  AnnouncedIn(q, h) \/ (e.event = "requestWillBeSent" /\ e.hop = h)
<1>1. PICK i \in DOMAIN Append(q, e) : /\ Append(q, e)[i].event = "requestWillBeSent"
                                       /\ Append(q, e)[i].hop = h
  BY DEF AnnouncedIn
<1> QED BY <1>1, AppendItems DEF AnnouncedIn

LEMMA AnnouncedTail ==
  ASSUME Typed, network # <<>>, network' = Tail(network), NEW h, Announced(h)'
  PROVE  \E i \in DOMAIN network : i > 1 /\ network[i].event = "requestWillBeSent" /\ network[i].hop = h
<1>1. network \in Seq(NetworkEvent)
  BY TypedParts
<1>2. PICK i \in DOMAIN network' : network'[i].event = "requestWillBeSent" /\ network'[i].hop = h
  BY DEF Announced, AnnouncedIn
<1>3. i + 1 \in DOMAIN network /\ i + 1 > 1 /\ network'[i] = network[i + 1]
  BY <1>1, <1>2, TailItems
<1> QED BY <1>2, <1>3

LEMMA PauseComingAppend ==
  ASSUME Typed, NEW e \in FetchEvent, fetch' = Append(fetch, e), NEW h
  PROVE  /\ PauseComing(h)' => PauseComing(h) \/ e = PausedEvent(FirstPause(h))
         /\ PauseComing(h) => PauseComing(h)'
         /\ e = PausedEvent(FirstPause(h)) => PauseComing(h)'
<1>1. fetch \in Seq(FetchEvent)
  BY TypedParts
<1> QED BY <1>1, AppendItems DEF PauseComing, PausedEvent

LEMMA PauseComingTail ==
  ASSUME Typed, fetch # <<>>, fetch' = Tail(fetch), NEW h
  PROVE  /\ PauseComing(h)' => PauseComing(h)
         /\ PauseComing(h) => PauseComing(h)' \/ Head(fetch) = PausedEvent(FirstPause(h))
<1>1. fetch \in Seq(FetchEvent)
  BY TypedParts
<1>2. PauseComing(h)' => PauseComing(h)
  BY <1>1, TailItems DEF PauseComing
<1>3. ASSUME PauseComing(h), Head(fetch) # PausedEvent(FirstPause(h)) PROVE PauseComing(h)'
  <2>1. PICK i \in DOMAIN fetch : fetch[i] = PausedEvent(FirstPause(h))
    BY <1>3 DEF PauseComing, PausedEvent
  <2>2. i # 1
    BY <1>1, <1>3, <2>1, TailItems
  <2>3. i - 1 \in DOMAIN fetch' /\ fetch'[i - 1] = fetch[i]
    BY <1>1, <2>1, <2>2, TailItems
  <2> QED BY <2>1, <2>3 DEF PauseComing, PausedEvent
<1> QED BY <1>2, <1>3

LEMMA LetsGoTail ==
  ASSUME Typed, commands # <<>>, commands' = Tail(commands), NEW p, LetsGo(commands', p)
  PROVE  LetsGo(commands, p)
<1>1. commands \in Seq(Command)
  BY TypedParts
<1>2. PICK i \in DOMAIN commands' : commands'[i].method \in {"continue", "fulfill", "fail"}
                                    /\ commands'[i].pause = p
  BY DEF LetsGo
<1>3. i + 1 \in DOMAIN commands /\ commands'[i] = commands[i + 1]
  BY <1>1, <1>2, TailItems
<1> QED BY <1>2, <1>3 DEF LetsGo

(***************************************************************************)
(* Steps of the browser keep the structure.                                *)
(***************************************************************************)
(* requestWillBeSent of h is sent in this step.                              *)
NewsOf(h) == /\ kind # "foreign"
             /\ (Begins0 /\ h = 0) \/ (GoesOn /\ h = browser'.hop)

LEMMA BrowserKeeps ==
  ASSUME Typed, BrowserStep
  PROVE  /\ UNCHANGED <<m, kind, frame, expecting>>
         /\ \A p \in Pause : Answering(p)' => Answering(p)
         /\ \A h \in Hop : /\ Announced(h)' => Announced(h) \/ NewsOf(h)
                           /\ PauseComing(h)' => PauseComing(h) \/ (IsPaused /\ h = browser.hop)
                           /\ PauseComing(h) => PauseComing(h)'
                           /\ IsPaused /\ h = browser.hop => PauseComing(h)'
<1>1. UNCHANGED <<m, kind, frame, expecting>> /\ network \in Seq(NetworkEvent)
  BY TypedParts DEF BrowserStep
<1>2. ASSUME NEW p \in Pause, Answering(p)' PROVE Answering(p)
  <2>1. commands' = commands \/ (commands # <<>> /\ commands' = Tail(commands))
    BY DEF BrowserStep, Begins0, GoesOn, IsPaused, IsNotPaused, MovesOn, IsOverNow, IsLetGo,
           IsCut, Ignores, LetsGo
  <2>2. HeldByRoute(m, p) \/ LetsGo(commands', p)
    BY <1>1, <1>2 DEF Answering, HeldByRoute, LetsGo
  <2> QED BY <2>1, <2>2, LetsGoTail DEF Answering
<1>3. ASSUME NEW h \in Hop, Announced(h)' PROVE Announced(h) \/ NewsOf(h)
  <2>0. AnnouncedIn(network', h)
    BY <1>3 DEF Announced, AnnouncedIn
  <2>1. CASE UNCHANGED network
    BY <2>0, <2>1 DEF Announced
  <2>2. ASSUME NEW e \in NetworkEvent, Appends(e)
        PROVE  Announced(h) \/ (kind # "foreign" /\ e.event = "requestWillBeSent" /\ e.hop = h)
    BY <1>1, <2>0, <2>2, AnnouncedAppend DEF Appends, Announced
  <2>3. CASE AppendsMiddle
    <3>1. ASSUME NEW e \in NetworkEvent, NEW f \in NetworkEvent,
                 e.event = "requestServedFromCache", f.event = "responseReceived",
                 network' = Append(Append(network, e), f)
          PROVE  Announced(h)
      <4>1. Append(network, e) \in Seq(NetworkEvent)
        BY <1>1, AppendProperties
      <4>2. AnnouncedIn(Append(network, e), h)
        BY <2>0, <3>1, <4>1, AnnouncedAppend
      <4> QED BY <1>1, <3>1, <4>2, AnnouncedAppend DEF Announced
    <3> QED BY <2>1, <2>2, <2>3, <3>1 DEF AppendsMiddle
  <2>4. CASE AppendsEnd
    BY <2>2, <2>4 DEF AppendsEnd
  <2>5. CASE Begins0 \/ GoesOn
    BY <2>2, <2>5 DEF Begins0, GoesOn, NewsOf
  <2> QED BY <2>1, <2>3, <2>4, <2>5
      DEF BrowserStep, IsPaused, IsNotPaused, MovesOn, IsOverNow, IsLetGo, IsCut, Ignores
<1>4. ASSUME NEW h \in Hop
      PROVE  /\ PauseComing(h)' => PauseComing(h) \/ (IsPaused /\ h = browser.hop)
             /\ PauseComing(h) => PauseComing(h)'
             /\ IsPaused /\ h = browser.hop => PauseComing(h)'
  <2>1. CASE IsPaused
    <3>1. PausedEvent(FirstPause(browser.hop)) \in FetchEvent
      BY TypedParts, FirstPauseType DEF Browser, PausedEvent, FetchEvent
    <3>2. PausedEvent(FirstPause(browser.hop)) = PausedEvent(FirstPause(h)) <=> h = browser.hop
      BY DEF PausedEvent, FirstPause
    <3> QED BY <2>1, <3>1, <3>2, PauseComingAppend DEF IsPaused
  <2>2. CASE ~IsPaused /\ UNCHANGED fetch
    BY <2>2 DEF PauseComing
  <2>3. ASSUME NEW e \in FetchEvent, fetch' = Append(fetch, e), ~IsPaused,
               e # PausedEvent(FirstPause(h))
        PROVE  (PauseComing(h)' => PauseComing(h)) /\ (PauseComing(h) => PauseComing(h)')
    BY <2>3, PauseComingAppend
  <2>4. CASE ~IsPaused /\ fetch' = Append(fetch, PausedEvent([hop |-> 0, again |-> TRUE]))
    <3> DEFINE e == PausedEvent([hop |-> 0, again |-> TRUE])
    <3>1. e \in FetchEvent /\ e # PausedEvent(FirstPause(h))
      BY BoundAssumption DEF PausedEvent, FetchEvent, FirstPause, Pause, Hop
    <3> HIDE DEF e
    <3> QED BY <2>3, <2>4, <3>1 DEF e
  <2>5. ASSUME NEW p \in Pause, fetch' = Append(fetch, [event |-> "auth", pause |-> p]), ~IsPaused
        PROVE  (PauseComing(h)' => PauseComing(h)) /\ (PauseComing(h) => PauseComing(h)')
    <3> DEFINE e == [event |-> "auth", pause |-> p]
    <3>1. e \in FetchEvent /\ e # PausedEvent(FirstPause(h))
      BY DEF PausedEvent, FetchEvent
    <3> HIDE DEF e
    <3> QED BY <2>3, <2>5, <3>1 DEF e
  <2> QED BY <2>1, <2>2, <2>4, <2>5
      DEF BrowserStep, Begins0, GoesOn, IsNotPaused, MovesOn, IsOverNow, IsLetGo, IsCut, Ignores
<1> QED BY <1>1, <1>2, <1>3, <1>4

LEMMA HopOrder ==
  /\ \A h \in Hop : h \in Nat
  /\ Hop \subseteq Nat /\ 0 \in Hop /\ None \notin Hop
  /\ Typed => browser.hop \in Hop
BY TypedParts, BoundAssumption, NoneAssumption DEF Hop, Browser

(* How the stage, the hop and the pauses may change.                         *)
LEMMA BrowserShape ==
  ASSUME Typed, BrowserStep
  PROVE  /\ browser'.hop = browser.hop \/ (GoesOn /\ browser'.hop = browser.hop + 1)
         /\ browser'.hop \in Hop
         /\ browser'.stage = "none" => browser.stage = "none" /\ Ignores
         /\ browser'.stage = "begun" => Begins0 \/ GoesOn \/ (browser.stage = "begun" /\ Ignores)
         /\ browser.stage = "over" => browser'.stage = "over" /\ Ignores
         /\ \A h \in Hop :
              \/ browser'.pausing[h] = browser.pausing[h]
              \/ h = browser.hop /\ IsPaused /\ browser'.pausing[h] = "yes"
              \/ h = browser.hop /\ IsNotPaused /\ browser'.pausing[h] = "no"
              \/ h = browser.hop /\ IsCut /\ browser'.pausing[h] = "cut"
                   /\ m.requests[h].report = "new"
<1>1. browser \in Browser /\ browser.hop \in Hop
  BY TypedParts DEF Browser
<1>2. browser'.hop = browser.hop \/ (GoesOn /\ browser'.hop = browser.hop + 1 /\ browser'.hop \in Hop)
  BY DEF BrowserStep, Begins0, GoesOn, IsPaused, IsNotPaused, MovesOn, IsOverNow, IsLetGo,
         IsCut, Ignores, SamePauses
<1>3. /\ browser'.stage = "none" => browser.stage = "none" /\ Ignores
      /\ browser'.stage = "begun" => Begins0 \/ GoesOn \/ (browser.stage = "begun" /\ Ignores)
      /\ browser.stage = "over" => browser'.stage = "over" /\ Ignores
  BY DEF BrowserStep, Begins0, GoesOn, IsPaused, IsNotPaused, MovesOn, IsOverNow, IsLetGo,
         IsCut, Ignores, Underway
<1>4. ASSUME NEW h \in Hop
      PROVE  \/ browser'.pausing[h] = browser.pausing[h]
             \/ h = browser.hop /\ IsPaused /\ browser'.pausing[h] = "yes"
             \/ h = browser.hop /\ IsNotPaused /\ browser'.pausing[h] = "no"
             \/ h = browser.hop /\ IsCut /\ browser'.pausing[h] = "cut"
                  /\ m.requests[h].report = "new"
  <2>1. CASE IsPaused
    BY <1>1, <2>1 DEF IsPaused, Browser
  <2>2. CASE IsNotPaused
    BY <1>1, <2>2 DEF IsNotPaused, Browser
  <2>3. CASE IsCut
    BY <1>1, <2>3 DEF IsCut, Browser
  <2>4. CASE browser'.pausing = browser.pausing
    BY <2>4
  <2> QED BY <2>1, <2>2, <2>3, <2>4
      DEF BrowserStep, Begins0, GoesOn, MovesOn, IsOverNow, IsLetGo, Ignores, SamePauses
<1> QED BY <1>1, <1>2, <1>3, <1>4

LEMMA BrowserFuture ==
  ASSUME Typed, Structure, BrowserStep
  PROVE  Future'
<1> SUFFICES ASSUME NEW h \in Hop, h > browser'.hop \/ browser'.stage = "none"
             PROVE  /\ ~Unstarted(h)' /\ (m.requests[h].report = "new")'
                    /\ (expecting[h] = "unheard")' /\ (browser.pausing[h] = "undecided")'
                    /\ ~PauseComing(h)' /\ ~Answering(FirstPause(h))' /\ (m.paused # FirstPause(h))'
  BY DEF Future
<1>1. h > browser.hop \/ browser.stage = "none"
  <2>1. h \in Nat /\ browser.hop \in Nat
    BY HopOrder
  <2>2. browser'.hop = browser.hop \/ browser'.hop = browser.hop + 1
    BY BrowserShape
  <2> QED BY <2>1, <2>2, BrowserShape
<1>2. /\ ~Unstarted(h) /\ m.requests[h].report = "new"
      /\ expecting[h] = "unheard" /\ browser.pausing[h] = "undecided"
      /\ ~PauseComing(h) /\ ~Answering(FirstPause(h)) /\ m.paused # FirstPause(h)
  BY <1>1 DEF Structure, Future
<1>3. ~NewsOf(h)
  <2>1. CASE Begins0
    BY <2>1, HopOrder DEF NewsOf, Begins0, GoesOn, SamePauses, Structure, Beginning
  <2>2. CASE GoesOn
    BY <2>2, HopOrder DEF NewsOf, Begins0, GoesOn
  <2> QED BY <2>1, <2>2 DEF NewsOf
<1>4. ~(IsPaused /\ h = browser.hop) /\ ~(IsNotPaused /\ h = browser.hop) /\ ~(IsCut /\ h = browser.hop)
  <2>1. browser.hop \in Hop
    BY HopOrder
  <2> QED BY <1>1, <2>1, HopOrder DEF IsPaused, IsNotPaused, IsCut
<1>5. UNCHANGED <<m, expecting>> /\ FirstPause(h) \in Pause
  BY BrowserKeeps, FirstPauseType
<1>6. ~Unstarted(h)'
  BY <1>2, <1>3, <1>5, BrowserKeeps DEF Unstarted, Kept
<1>7. ~PauseComing(h)' /\ ~Answering(FirstPause(h))'
  BY <1>2, <1>4, <1>5, BrowserKeeps
<1>8. browser'.pausing[h] = "undecided"
  BY <1>2, <1>4, BrowserShape
<1> QED BY <1>2, <1>5, <1>6, <1>7, <1>8

LEMMA BrowserPast ==
  ASSUME Typed, Structure, BrowserStep
  PROVE  Past' /\ Beginning'
<1>1. browser.hop \in Hop /\ browser'.hop \in Hop
  BY HopOrder, BrowserShape
<1>2. ASSUME NEW h \in Hop, browser.pausing[h] # "undecided" PROVE browser'.pausing[h] # "undecided"
  BY <1>2, BrowserShape
<1>3. ASSUME NEW h \in Hop,
             \/ h < browser'.hop
             \/ h = browser'.hop /\ browser'.stage \notin {"none", "begun", "over"}
      PROVE  browser'.pausing[h] # "undecided"
  <2>1. CASE h < browser.hop
    BY <1>2, <2>1 DEF Structure, Past
  <2>2. CASE h = browser.hop /\ browser.stage \notin {"none", "begun", "over"}
    BY <1>2, <2>2 DEF Structure, Past
  <2>3. CASE h = browser.hop /\ browser.stage = "none"
    BY <1>3, <2>3, BrowserShape, HopOrder
       DEF BrowserStep, Begins0, GoesOn, IsPaused, IsNotPaused, MovesOn, IsOverNow, IsLetGo,
           IsCut, Ignores, SamePauses, Underway
  <2>4. CASE h = browser.hop /\ browser.stage = "begun"
    <3>1. IsPaused \/ IsNotPaused
      BY <1>3, <2>4, BrowserShape, HopOrder
         DEF BrowserStep, Begins0, GoesOn, IsPaused, IsNotPaused, MovesOn, IsOverNow, IsLetGo,
             IsCut, Ignores, SamePauses, Underway
    <3>2. browser \in Browser
      BY TypedParts
    <3> QED BY <2>4, <3>1, <3>2 DEF IsPaused, IsNotPaused, Browser
  <2>5. CASE h = browser.hop /\ browser.stage = "over"
    BY <1>3, <2>5, BrowserShape, HopOrder DEF Ignores, SamePauses
  <2>6. CASE h > browser.hop
    <3>1. GoesOn /\ h = browser'.hop
      <4>1. h \in Nat /\ browser.hop \in Nat
        BY <1>1, HopOrder
      <4>2. browser'.hop = browser.hop \/ (GoesOn /\ browser'.hop = browser.hop + 1)
        BY BrowserShape
      <4> QED BY <1>3, <2>6, <4>1, <4>2
    <3> QED BY <1>1, <1>3, <3>1, HopOrder DEF GoesOn
  <2>7. h \in Nat /\ browser.hop \in Nat
    BY <1>1, HopOrder
  <2> QED BY <2>1, <2>2, <2>3, <2>4, <2>5, <2>6, <2>7
<1>4. ASSUME browser'.stage = "begun" PROVE browser'.pausing[browser'.hop] = "undecided"
  <2>1. CASE GoesOn
    <3>1. browser'.hop > browser.hop /\ browser'.pausing = browser.pausing
      <4>1. browser.hop \in Nat
        BY <1>1, HopOrder
      <4> QED BY <2>1, <4>1 DEF GoesOn
    <3> QED BY <1>1, <3>1 DEF Structure, Future
  <2>2. CASE Begins0
    BY <1>1, <2>2 DEF Begins0, SamePauses, Structure, Future
  <2>3. CASE browser.stage = "begun" /\ Ignores
    BY <2>3 DEF Ignores, SamePauses, Structure, Beginning
  <2> QED BY <1>4, <2>1, <2>2, <2>3, BrowserShape
<1>5. browser'.stage = "none" => browser'.hop = 0
  BY BrowserShape DEF Ignores, SamePauses, Structure, Beginning
<1> QED BY <1>3, <1>4, <1>5 DEF Past, Beginning

LEMMA BrowserByKind ==
  ASSUME Typed, Structure, BrowserStep
  PROVE  ByKind' /\ KeptIsExpected' /\ NeverBoth'
<1>1. UNCHANGED <<m, kind, expecting>>
  BY BrowserKeeps
<1>2. KeptIsExpected' /\ NeverBoth'
  BY <1>1 DEF Structure, KeptIsExpected, NeverBoth, Kept
<1>3. ASSUME kind = "viaWorker"
      PROVE  /\ \A h \in Hop : browser'.pausing[h] \in {"undecided", "no"}
             /\ \A i \in DOMAIN fetch' : fetch'[i].event # "paused"
             /\ m'.paused = None /\ browser'.stage # "paused"
  <2>1. /\ \A h \in Hop : browser.pausing[h] \in {"undecided", "no"}
        /\ \A i \in DOMAIN fetch : fetch[i].event # "paused"
        /\ m.paused = None
    BY <1>3 DEF Structure, ByKind
  <2>2. ~IsPaused /\ ~IsCut /\ (browser.stage # "paused")
    BY <1>3 DEF IsPaused, IsCut, Structure, ByKind
  <2>3. \A h \in Hop : browser'.pausing[h] \in {"undecided", "no"}
    BY <2>1, <2>2, BrowserShape
  <2>4. browser'.stage # "paused"
    BY <1>3, <2>2
       DEF BrowserStep, Begins0, GoesOn, IsPaused, IsNotPaused, MovesOn, IsOverNow, IsLetGo,
           IsCut, Ignores, Underway
  <2>5. \A i \in DOMAIN fetch' : fetch'[i].event # "paused"
    <3>1. fetch \in Seq(FetchEvent)
      BY TypedParts
    <3>2. CASE UNCHANGED fetch
      BY <2>1, <3>2
    <3>3. ASSUME NEW p \in Pause, fetch' = Append(fetch, [event |-> "auth", pause |-> p])
          PROVE  \A i \in DOMAIN fetch' : fetch'[i].event # "paused"
      <4> DEFINE e == [event |-> "auth", pause |-> p]
      <4>1. e \in FetchEvent /\ e.event # "paused"
        BY DEF FetchEvent
      <4> HIDE DEF e
      <4>2. fetch' = Append(fetch, e)
        BY <3>3 DEF e
      <4> QED BY <2>1, <3>1, <4>1, <4>2, AppendItems
    <3> QED BY <1>3, <2>2, <3>2, <3>3
        DEF BrowserStep, Begins0, GoesOn, IsNotPaused, MovesOn, IsOverNow, IsLetGo, IsCut, Ignores
  <2> QED BY <1>1, <2>1, <2>3, <2>4, <2>5
<1>4. kind = "foreign" => network' = <<>> /\ m'.sent = None
  <2>1. kind = "foreign" => network' = network
    BY DEF BrowserStep, Begins0, GoesOn, IsPaused, IsNotPaused, MovesOn, IsOverNow, IsLetGo,
           IsCut, Ignores, Appends, AppendsMiddle, AppendsEnd
  <2> QED BY <1>1, <2>1 DEF Structure, ByKind
<1> QED BY <1>1, <1>2, <1>3, <1>4 DEF ByKind

LEMMA InOrderAppend ==
  ASSUME NEW q \in Seq(NetworkEvent), NEW e \in NetworkEvent, InOrder(q),
         e.event = "requestWillBeSent" => \A h \in Hop : AnnouncedIn(q, h) => h < e.hop
  PROVE  InOrder(Append(q, e))
<1> SUFFICES ASSUME NEW i \in DOMAIN Append(q, e), NEW j \in DOMAIN Append(q, e), i < j,
                    Append(q, e)[i].event = "requestWillBeSent",
                    Append(q, e)[j].event = "requestWillBeSent"
             PROVE  Append(q, e)[i].hop < Append(q, e)[j].hop
  BY DEF InOrder
<1>1. /\ DOMAIN Append(q, e) = 1..(Len(q) + 1) /\ DOMAIN q = 1..Len(q) /\ Len(q) \in Nat
      /\ \A k \in DOMAIN Append(q, e) : Append(q, e)[k] = IF k = Len(q) + 1 THEN e ELSE q[k]
  BY AppendItems
<1>2. i \in DOMAIN q /\ Append(q, e)[i] = q[i] /\ q[i] \in NetworkEvent
  BY <1>1, ElementOfSeq
<1>3. CASE j = Len(q) + 1
  <2>1. q[i].hop \in Hop /\ AnnouncedIn(q, q[i].hop)
    BY <1>2 DEF NetworkEvent, AnnouncedIn
  <2> QED BY <1>1, <1>2, <1>3, <2>1
<1>4. CASE j # Len(q) + 1
  BY <1>1, <1>2, <1>4 DEF InOrder
<1> QED BY <1>3, <1>4

(* What a step of the browser does to the network.                           *)
Ending == {"loadingFinished", "loadingFailed"}

LEMMA BrowserNetwork ==
  ASSUME Typed, BrowserStep
  PROVE  \/ UNCHANGED network
         \/ /\ browser.stage # "over"
            /\ \E e \in NetworkEvent :
                 /\ network' = Append(network, e)
                 /\ e.event = "requestWillBeSent" => NewsOf(e.hop)
                 /\ e.event \in Ending => browser'.stage = "over"
         \/ /\ browser.stage # "over"
            /\ \E e, f \in NetworkEvent :
                 /\ network' = Append(Append(network, e), f)
                 /\ e.event \notin Ending \cup {"requestWillBeSent"}
                 /\ f.event \notin Ending \cup {"requestWillBeSent"}
<1>1. CASE UNCHANGED network
  BY <1>1
<1>2. CASE network' # network /\ (Begins0 \/ GoesOn)
  BY <1>2 DEF Begins0, GoesOn, Appends, NewsOf, Ending
<1>3. CASE network' # network /\ IsOverNow
  BY <1>3 DEF IsOverNow, AppendsEnd, Appends, Ending
<1>4. CASE network' # network /\ MovesOn
  <2>1. browser.stage # "over"
    BY <1>4 DEF MovesOn, Underway
  <2> QED BY <1>4, <2>1 DEF MovesOn, AppendsMiddle, Appends, Ending
<1> QED BY <1>1, <1>2, <1>3, <1>4 DEF BrowserStep, IsPaused, IsNotPaused, IsLetGo, IsCut, Ignores

LEMMA NewsIsNew ==
  ASSUME Typed, Structure, NEW h \in Hop, NewsOf(h)
  PROVE  /\ expecting[h] = "unheard" /\ browser.pausing[h] = "undecided"
         /\ ~Unstarted(h) /\ ~PauseComing(h) /\ ~Answering(FirstPause(h))
         /\ m.paused # FirstPause(h) /\ NewFrom(m, h)
         /\ \A g \in Hop : Unstarted(g) => g < h
<1>1. /\ \A g \in Hop : g \in Nat
      /\ browser.hop \in Nat /\ h \in Nat
  BY HopOrder
<1>2. CASE Begins0 /\ h = 0
  <2>1. browser.stage = "none"
    BY <1>2 DEF Begins0
  <2>2. \A g \in Hop :
          /\ ~Unstarted(g) /\ m.requests[g].report = "new"
          /\ expecting[g] = "unheard" /\ browser.pausing[g] = "undecided"
          /\ ~PauseComing(g) /\ ~Answering(FirstPause(g)) /\ m.paused # FirstPause(g)
    BY <2>1 DEF Structure, Future
  <2> QED BY <2>2 DEF NewFrom
<1>3. CASE GoesOn /\ h = browser'.hop
  <2>1. h = browser.hop + 1
    BY <1>3 DEF GoesOn
  <2>2. \A g \in Hop : g > browser.hop =>
          /\ ~Unstarted(g) /\ m.requests[g].report = "new"
          /\ expecting[g] = "unheard" /\ browser.pausing[g] = "undecided"
          /\ ~PauseComing(g) /\ ~Answering(FirstPause(g)) /\ m.paused # FirstPause(g)
    BY DEF Structure, Future
  <2> DEFINE b == browser.hop
  <2>0. b \in Nat /\ h = b + 1
    BY <1>1, <2>1
  <2> HIDE DEF b
  <2>3. \A g \in Hop : g > b \/ g < h
    BY <1>1, <2>0
  <2>4. h > b /\ \A g \in Hop : g >= h => g > b
    BY <1>1, <2>0
  <2> QED BY <2>2, <2>3, <2>4 DEF NewFrom, b
<1> QED BY <1>2, <1>3 DEF NewsOf

LEMMA BrowserAnnounces ==
  ASSUME Typed, Structure, BrowserStep
  PROVE  AnnouncedInOrder'
<1>1. InOrder(network) /\ network \in Seq(NetworkEvent)
  BY TypedParts DEF Structure, AnnouncedInOrder
<1>2. InOrder(network')
  <2>1. ASSUME NEW e \in NetworkEvent, e.event = "requestWillBeSent" => NewsOf(e.hop)
        PROVE  InOrder(Append(network, e))
    <3>1. e.event = "requestWillBeSent" => \A h \in Hop : AnnouncedIn(network, h) => h < e.hop
      <4>1. e.hop \in Hop
        BY DEF NetworkEvent
      <4> QED BY <2>1, <4>1, NewsIsNew DEF Unstarted, Announced
    <3> QED BY <1>1, <3>1, InOrderAppend
  <2>2. ASSUME NEW e \in NetworkEvent, NEW f \in NetworkEvent,
               e.event # "requestWillBeSent", f.event # "requestWillBeSent"
        PROVE  InOrder(Append(Append(network, e), f))
    <3>1. InOrder(Append(network, e)) /\ Append(network, e) \in Seq(NetworkEvent)
      BY <1>1, <2>2, InOrderAppend, AppendProperties
    <3> QED BY <2>2, <3>1, InOrderAppend
  <2> QED BY <1>1, <2>1, <2>2, BrowserNetwork
<1>3. ASSUME NEW h \in Hop, Announced(h)' PROVE expecting'[h] = "unheard"
  BY <1>3, BrowserKeeps, NewsIsNew DEF Structure, AnnouncedInOrder
<1>4. ASSUME NEW g \in Hop, NEW h \in Hop, Announced(h)', Kept(m', g) PROVE g < h
  <2>1. Kept(m, g)
    BY <1>4, BrowserKeeps DEF Kept
  <2> QED BY <1>4, <2>1, BrowserKeeps, NewsIsNew DEF Structure, AnnouncedInOrder, Unstarted
<1>5. \A h \in Hop : (Announced(h) => expecting[h] = "unheard")'
  BY <1>3
<1>6. \A g, h \in Hop : (Announced(h) /\ Kept(m, g) => g < h)'
  BY <1>4 DEF Kept
<1>7. InOrder(network)'
  BY <1>2 DEF InOrder
<1> QED BY <1>5, <1>6, <1>7 DEF AnnouncedInOrder

LEMMA BrowserEnds ==
  ASSUME Typed, Structure, BrowserStep
  PROVE  EndIsLast'
<1> SUFFICES ASSUME NEW i \in DOMAIN network', network'[i].event \in Ending
             PROVE  i = Len(network') /\ browser'.stage = "over"
  BY DEF EndIsLast, Ending
<1>1. network \in Seq(NetworkEvent)
  BY TypedParts
<1>2. \A j \in DOMAIN network : network[j].event \in Ending => j = Len(network) /\ browser.stage = "over"
  BY DEF Structure, EndIsLast, Ending
<1>3. CASE UNCHANGED network
  BY <1>2, <1>3, BrowserShape
<1>4. ASSUME NEW e \in NetworkEvent, network' = Append(network, e), browser.stage # "over",
             e.event \in Ending => browser'.stage = "over"
      PROVE  i = Len(network') /\ browser'.stage = "over"
  BY <1>1, <1>2, <1>4, AppendItems
<1>5. ASSUME NEW e \in NetworkEvent, NEW f \in NetworkEvent,
             network' = Append(Append(network, e), f), browser.stage # "over",
             e.event \notin Ending, f.event \notin Ending
      PROVE  FALSE
  <2>1. \A j \in DOMAIN Append(network, e) : Append(network, e)[j].event \notin Ending
    BY <1>1, <1>2, <1>5, AppendItems
  <2>2. Append(network, e) \in Seq(NetworkEvent)
    BY <1>1, AppendProperties
  <2> QED BY <1>5, <2>1, <2>2, AppendItems
<1> QED BY <1>3, <1>4, <1>5, BrowserNetwork

LEMMA BrowserStructure ==
  ASSUME Typed, Structure, BrowserStep, Typed'
  PROVE  Structure'
BY BrowserFuture, BrowserPast, BrowserByKind, BrowserAnnounces, BrowserEnds DEF Structure, Typed

DisturbedAt(h) ==
  \/ expecting[h] = "yes" /\ browser.pausing[h] \in {"no", "cut"} /\ (kind = "viaWorker" => h > 0)
  \/ expecting[h] = "no" /\ browser.pausing[h] \in {"yes", "cut"}

LEMMA BrowserDisturbs ==
  ASSUME Typed, Structure, BrowserStep, Disturbed
  PROVE  Disturbed'
<1>1. PICK h \in Hop : DisturbedAt(h)
  BY DEF Disturbed, DisturbedAt
<1>2. UNCHANGED <<kind, expecting>>
  BY BrowserKeeps
<1>3. browser.stage = "begun" => browser.pausing[browser.hop] = "undecided"
  BY DEF Structure, Beginning
<1>4. DisturbedAt(h)'
  BY <1>1, <1>2, <1>3, BrowserShape DEF DisturbedAt, IsPaused, IsNotPaused
<1> QED BY <1>4 DEF Disturbed, DisturbedAt

LEMMA AnnouncedStays ==
  ASSUME NEW q \in Seq(NetworkEvent), NEW e \in NetworkEvent, NEW h, AnnouncedIn(q, h)
  PROVE  AnnouncedIn(Append(q, e), h)
BY AppendItems DEF AnnouncedIn

LEMMA BrowserKeepsNews ==
  ASSUME Typed, BrowserStep, NEW h \in Hop, Unstarted(h)
  PROVE  /\ Unstarted(h)'
         /\ Announced(h) => Announced(h)'
<1>1. network \in Seq(NetworkEvent)
  BY TypedParts
<1>2. ASSUME Announced(h) PROVE Announced(h)'
  <2> SUFFICES AnnouncedIn(network', h)
    BY DEF Announced, AnnouncedIn
  <2>1. CASE UNCHANGED network
    BY <1>2, <2>1 DEF Announced
  <2>2. ASSUME NEW e \in NetworkEvent, network' = Append(network, e)
        PROVE  AnnouncedIn(network', h)
    BY <1>1, <1>2, <2>2, AnnouncedStays DEF Announced
  <2>3. ASSUME NEW e \in NetworkEvent, NEW f \in NetworkEvent,
               network' = Append(Append(network, e), f)
        PROVE  AnnouncedIn(network', h)
    <3>1. Append(network, e) \in Seq(NetworkEvent) /\ AnnouncedIn(Append(network, e), h)
      BY <1>1, <1>2, AnnouncedStays, AppendProperties DEF Announced
    <3> QED BY <2>3, <3>1, AnnouncedStays
  <2> QED BY <2>1, <2>2, <2>3, BrowserNetwork
<1>3. Kept(m, h) => Kept(m', h)
  BY BrowserKeeps
<1> QED BY <1>2, <1>3 DEF Unstarted, Kept

LEMMA BrowserNewInOrder ==
  ASSUME Typed, Structure, Ordered, BrowserStep
  PROVE  OneIsLive' /\ NewInOrder'
<1>1. UNCHANGED <<m, kind, frame>>
  BY BrowserKeeps
<1>2. OneIsLive'
  BY <1>1 DEF Ordered, OneIsLive, Live
<1>3. ASSUME NEW h \in Hop, Announced(h)' PROVE NewFrom(m', h)
  <2>1. Announced(h) \/ NewsOf(h)
    BY <1>3, BrowserKeeps
  <2>2. NewFrom(m, h)
    BY <2>1, NewsIsNew DEF Ordered, NewInOrder
  <2> QED BY <1>1, <2>2
<1>4. Forgotten => Forgotten'
  <2>1. browser.stage = "over" => browser'.stage = "over" /\ UNCHANGED network
    BY BrowserShape DEF Ignores
  <2> QED BY <1>1, <2>1 DEF Forgotten
<1>5. ASSUME NEW h \in Hop, Kept(m', h) PROVE NewFrom(m', h) \/ (h = 0 /\ Forgotten')
  BY <1>1, <1>4, <1>5 DEF Ordered, NewInOrder, Kept
<1>6. /\ \A h \in Hop : (Announced(h) => NewFrom(m, h))'
      /\ \A h \in Hop : (Kept(m, h) => NewFrom(m, h) \/ (h = 0 /\ Forgotten))'
  BY <1>3, <1>5 DEF Kept, NewFrom
<1> QED BY <1>2, <1>6 DEF NewInOrder

LEMMA BrowserHolds ==
  ASSUME Typed, Structure, Ordered, BrowserStep
  PROVE  UnstartedIsHeld'
<1> SUFFICES ASSUME NEW h \in Hop, Unstarted(h)'
             PROVE  /\ ~Answering(FirstPause(h))'
                    /\ browser'.pausing[h] = "yes" =>
                         /\ browser'.hop = h
                         /\ \/ browser'.stage = "over"
                            \/ browser'.stage = "paused" /\ browser'.id = FirstPause(h)
                         /\ PauseComing(h)' \/ (Announced(h)' /\ m'.paused # None)
  BY DEF UnstartedIsHeld
<1>1. UNCHANGED <<m, kind, frame>> /\ FirstPause(h) \in Pause
  BY BrowserKeeps, FirstPauseType
<1>2. Unstarted(h) \/ NewsOf(h)
  BY <1>1, BrowserKeeps DEF Unstarted, Kept
<1>3. ~Answering(FirstPause(h))
  BY <1>2, NewsIsNew DEF Ordered, UnstartedIsHeld
<1>4. ~Answering(FirstPause(h))'
  BY <1>1, <1>3, BrowserKeeps
<1>5. CASE NewsOf(h)
  <2>1. browser.pausing[h] = "undecided" /\ ~IsPaused
    BY <1>5, NewsIsNew DEF NewsOf, Begins0, GoesOn, IsPaused
  <2>2. browser'.pausing[h] # "yes"
    BY <2>1, BrowserShape
  <2> QED BY <1>4, <2>2
<1>6. CASE Unstarted(h) /\ IsPaused /\ h = browser.hop
  <2>1. browser'.hop = h /\ browser'.stage = "paused" /\ browser'.id = FirstPause(h)
    BY <1>6 DEF IsPaused
  <2>2. PauseComing(h)'
    BY <1>6, BrowserKeeps
  <2> QED BY <1>4, <2>1, <2>2
<1>7. CASE Unstarted(h) /\ ~(IsPaused /\ h = browser.hop) /\ browser'.pausing[h] = "yes"
  <2>1. browser.pausing[h] = "yes"
    BY <1>7, BrowserShape
  <2>2. /\ browser.hop = h
        /\ \/ browser.stage = "over"
           \/ browser.stage = "paused" /\ browser.id = FirstPause(h)
        /\ PauseComing(h) \/ (Announced(h) /\ m.paused # None)
    BY <1>7, <2>1 DEF Ordered, UnstartedIsHeld
  <2>3. PauseComing(h)' \/ (Announced(h)' /\ m'.paused # None)
    BY <1>1, <1>7, <2>2, BrowserKeeps, BrowserKeepsNews
  <2>4. CASE browser.stage = "over"
    BY <1>4, <2>2, <2>3, <2>4, BrowserShape DEF Ignores, SamePauses
  <2>5. CASE browser.stage = "paused"
    <3>1. browser.id = FirstPause(h)
      BY <2>2, <2>5
    <3>2. ~IsLetGo
      BY <1>3, <3>1 DEF IsLetGo, Answering
    <3>3. ~IsCut
      <4>1. kind # "viaWorker"
        BY <2>1 DEF Structure, ByKind
      <4>2. NewFrom(m, h)
        BY <1>7, <4>1 DEF Ordered, NewInOrder, Unstarted, Forgotten
      <4>3. m.requests[h].report = "new"
        BY <4>2, HopOrder DEF NewFrom
      <4>4. IsCut => browser'.pausing[h] = "cut"
        BY <2>2, <4>3, TypedParts DEF IsCut, Browser
      <4> QED BY <1>7, <4>4
    <3>4. IsOverNow \/ Ignores
      BY <2>5, <3>2, <3>3
         DEF BrowserStep, Begins0, GoesOn, IsPaused, IsNotPaused, MovesOn, Underway
    <3> QED BY <1>4, <2>2, <2>3, <2>5, <3>1, <3>4 DEF IsOverNow, Ignores, SamePauses
  <2> QED BY <2>2, <2>4, <2>5
<1> QED BY <1>2, <1>4, <1>5, <1>6, <1>7

LEMMA BrowserOrdered ==
  ASSUME Typed, Structure, Disturbed \/ Ordered, BrowserStep
  PROVE  (Disturbed \/ Ordered)'
BY BrowserDisturbs, BrowserNewInOrder, BrowserHolds DEF Ordered

(***************************************************************************)
(* Steps of the manager keep the structure.                                *)
(***************************************************************************)
LEMMA HeardIsAnnounced ==
  ASSUME Typed, Hears
  PROVE  Head(network).hop \in Hop /\ Announced(Head(network).hop)
<1>1. network \in Seq(NetworkEvent) /\ network # <<>> /\ Head(network).event = "requestWillBeSent"
  BY TypedParts DEF Hears, TakesEvent
<1>2. Head(network) \in NetworkEvent /\ 1 \in DOMAIN network /\ network[1] = Head(network)
  BY <1>1, TailType, TailItems
<1> QED BY <1>1, <1>2 DEF NetworkEvent, Announced, AnnouncedIn

LEMMA SeenIsComing ==
  ASSUME Typed, NEW pause \in Pause, fetch # <<>>, Head(fetch) = PausedEvent(pause),
         NEW h \in Hop, pause = FirstPause(h)
  PROVE  PauseComing(h)
<1>1. fetch \in Seq(FetchEvent)
  BY TypedParts
<1>2. 1 \in DOMAIN fetch /\ fetch[1] = PausedEvent(FirstPause(h))
  BY <1>1, TailItems
<1> QED BY <1>2 DEF PauseComing, PausedEvent

LEMMA ManagerQueues ==
  ASSUME Typed, ManagerStep
  PROVE  /\ network' = network \/ (network # <<>> /\ network' = Tail(network))
         /\ fetch' = fetch \/ (fetch # <<>> /\ fetch' = Tail(fetch))
         /\ UNCHANGED <<kind, browser>>
         /\ expecting' = expecting \/ Hears
BY DEF ManagerStep, Bookkeeps, LeavesBe, Hears, SeesPause, HearsLate, HearsEnd, TakesEvent

LEMMA ManagerHears ==
  ASSUME Typed, Structure, ManagerStep, NEW h \in Hop
  PROVE  /\ Announced(h)' => Announced(h) /\ ~(Hears /\ Head(network).hop = h)
         /\ Announced(h)' /\ Hears => Head(network).hop < h
         /\ Announced(h) => Announced(h)' \/ (Hears /\ Head(network).hop = h)
         /\ Kept(m', h) => Kept(m, h) \/ (Hears /\ Head(network).hop = h)
         /\ expecting'[h] = expecting[h] \/ (Hears /\ Head(network).hop = h)
<1>1. network \in Seq(NetworkEvent) /\ expecting \in [Hop -> {"unheard", "yes", "no"}]
  BY TypedParts
<1>2. ASSUME Announced(h)'
      PROVE  Announced(h) /\ (Hears => Head(network).hop < h)
  <2>1. CASE network' = network
    <3>1. ~Hears
      <4>1. Hears => Len(network') = Len(network) - 1 /\ Len(network) \in Nat
        BY <1>1, TailItems DEF Hears, TakesEvent
      <4> QED BY <2>1, <4>1
    <3> QED BY <1>2, <2>1, <3>1 DEF Announced, AnnouncedIn
  <2>2. CASE network # <<>> /\ network' = Tail(network)
    <3>1. PICK i \in DOMAIN network :
            i > 1 /\ network[i].event = "requestWillBeSent" /\ network[i].hop = h
      BY <1>2, <2>2, AnnouncedTail
    <3>2. 1 \in DOMAIN network /\ network[1] = Head(network) /\ i \in Nat
      BY <1>1, <2>2, <3>1, TailItems
    <3>3. Hears => network[1].event = "requestWillBeSent"
      BY <3>2 DEF Hears, TakesEvent
    <3>4. Hears => network[1].hop < network[i].hop
      BY <3>1, <3>2, <3>3 DEF Structure, AnnouncedInOrder, InOrder
    <3> QED BY <3>1, <3>2, <3>4 DEF Announced, AnnouncedIn
  <2> QED BY <2>1, <2>2, ManagerQueues
<1>3. ASSUME Announced(h) PROVE Announced(h)' \/ (Hears /\ Head(network).hop = h)
  <2>1. CASE network' = network
    BY <1>3, <2>1 DEF Announced, AnnouncedIn
  <2>2. CASE network # <<>> /\ network' = Tail(network)
    <3>1. PICK i \in DOMAIN network : network[i].event = "requestWillBeSent" /\ network[i].hop = h
      BY <1>3 DEF Announced, AnnouncedIn
    <3>2. CASE i = 1
      <4>1. network[1] = Head(network)
        BY <1>1, <2>2, TailItems
      <4>2. TakesEvent("requestWillBeSent") /\ Head(network).hop = h
        BY <2>2, <3>1, <3>2, <4>1 DEF TakesEvent
      <4>3. Hears
        <5>1. network' # network
          BY <1>1, <2>2, TailItems
        <5>2. ~SeesPause /\ ~Bookkeeps /\ ~HearsLate /\ ~HearsEnd
          BY <4>2, <5>1 DEF TakesEvent, SeesPause, Bookkeeps, LeavesBe, HearsLate, HearsEnd
        <5> QED BY <5>2 DEF ManagerStep
      <4> QED BY <4>2, <4>3
    <3>3. CASE i # 1
      <4>1. i - 1 \in DOMAIN network' /\ network'[i - 1] = network[i]
        BY <1>1, <2>2, <3>1, <3>3, TailItems
      <4> QED BY <3>1, <4>1 DEF Announced, AnnouncedIn
    <3> QED BY <3>2, <3>3
  <2> QED BY <2>1, <2>2, ManagerQueues
<1>4. ASSUME Kept(m', h) PROVE Kept(m, h) \/ (Hears /\ Head(network).hop = h)
  BY <1>4 DEF Kept, ManagerStep, Bookkeeps, KeepsBoth, Hears, SeesPause, HearsLate, HearsEnd, StopsNow
<1>5. expecting'[h] = expecting[h] \/ (Hears /\ Head(network).hop = h)
  <2>1. CASE Hears
    BY <1>1, <2>1 DEF Hears
  <2> QED BY <2>1, ManagerQueues
<1>6. h \in Nat
  BY HopOrder
<1> QED BY <1>2, <1>3, <1>4, <1>5, <1>6

LEMMA ManagerPauses ==
  ASSUME Typed, Structure, ManagerStep, NEW h \in Hop
  PROVE  /\ PauseComing(h)' => PauseComing(h)
         /\ m'.paused = FirstPause(h) => m.paused = FirstPause(h) \/ PauseComing(h)
         /\ Answering(FirstPause(h))' =>
              \/ Answering(FirstPause(h))
              \/ m.protocol /\ m.paused = FirstPause(h) /\ Hears
              \/ PauseComing(h) /\ SeesPause /\ Head(fetch) = PausedEvent(FirstPause(h))
<1>1. FirstPause(h) \in Pause /\ FirstPause(h) # None
  BY FirstPauseType, NoneAssumption DEF Pause, Hop
<1>2. PauseComing(h)' => PauseComing(h)
  BY ManagerQueues, PauseComingTail DEF PauseComing
<1>3. CASE Bookkeeps \/ HearsLate \/ HearsEnd
  <2>1. MayAnswer(None) /\ m'.paused = m.paused
    BY <1>3 DEF Bookkeeps, HearsLate, HearsEnd, KeepsBoth, StopsNow
  <2> QED BY <1>1, <1>2, <2>1 DEF MayAnswer
<1>4. CASE Hears
  <2>1. /\ MayAnswer(IF m.protocol THEN m.paused ELSE None)
        /\ m'.paused \in {m.paused, None}
    BY <1>4 DEF Hears
  <2> QED BY <1>1, <1>2, <1>4, <2>1 DEF MayAnswer
<1>5. CASE SeesPause
  <2>1. PICK pause \in Pause :
          /\ fetch # <<>> /\ Head(fetch) = PausedEvent(pause)
          /\ MayAnswer(pause) /\ m'.paused \in {m.paused, pause}
    BY <1>5 DEF SeesPause, KeepsBoth
  <2>2. pause = FirstPause(h) => PauseComing(h)
    BY <2>1, SeenIsComing
  <2> QED BY <1>1, <1>2, <1>5, <2>1, <2>2 DEF MayAnswer
<1> QED BY <1>3, <1>4, <1>5 DEF ManagerStep

(* Only a request that is heard of or kept is taken for begun.               *)
LEMMA ManagerReports ==
  ASSUME Typed, ManagerStep, NEW h \in Hop, m.requests[h].report = "new",
         ~Kept(m, h), ~(Hears /\ Head(network).hop = h)
  PROVE  m'.requests[h].report = "new"
<1>1. m.request # h
  BY TypedParts, HopOrder DEF ManagerTyped, Listed
<1>2. \A e \in Hop : Predecessor(m, e) # h
  BY <1>1, HopOrder DEF Predecessor
<1>3. CASE Hears
  <2>1. Head(network).hop \in Hop /\ Head(network).hop # h
    BY <1>3, HeardIsAnnounced
  <2> QED BY <1>2, <1>3, <2>1 DEF Hears, Begins, Skips, SameReports
<1>4. CASE SeesPause
  <2>1. m.sent # None => m.sent.hop \in Hop /\ m.sent.hop # h
    BY TypedParts DEF Kept, ManagerTyped, Manager, Sent
  <2> QED BY <1>2, <1>4, <2>1 DEF SeesPause, Begins, Skips, SameReports
<1>5. CASE HearsLate
  <2>1. m.sent.hop \in Hop /\ m.sent.hop # h
    BY <1>5, TypedParts DEF Kept, ManagerTyped, Manager, Sent, HearsLate, StopsNow
  <2> QED BY <1>2, <1>5, <2>1 DEF HearsLate, Begins, SameReports
<1>6. CASE HearsEnd
  <2>1. m.sent # None => m.sent.hop \in Hop /\ m.sent.hop # h
    BY TypedParts DEF Kept, ManagerTyped, Manager, Sent
  <2> QED BY <1>1, <1>6, <2>1 DEF HearsEnd, IsOver, SameReports, StopsNow
<1>7. CASE Bookkeeps
  BY <1>7 DEF Bookkeeps, SameReports
<1> QED BY <1>3, <1>4, <1>5, <1>6, <1>7 DEF ManagerStep

LEMMA ManagerFuture ==
  ASSUME Typed, Structure, ManagerStep
  PROVE  Future' /\ Past' /\ Beginning'
<1>1. UNCHANGED <<kind, browser>>
  BY ManagerQueues
<1>2. Past' /\ Beginning'
  BY <1>1 DEF Structure, Past, Beginning
<1>3. ASSUME NEW h \in Hop, h > browser.hop \/ browser.stage = "none"
      PROVE  /\ ~Unstarted(h)' /\ m'.requests[h].report = "new"
             /\ expecting'[h] = "unheard" /\ browser'.pausing[h] = "undecided"
             /\ ~PauseComing(h)' /\ ~Answering(FirstPause(h))' /\ m'.paused # FirstPause(h)
  <2>1. /\ ~Unstarted(h) /\ m.requests[h].report = "new"
        /\ expecting[h] = "unheard" /\ browser.pausing[h] = "undecided"
        /\ ~PauseComing(h) /\ ~Answering(FirstPause(h)) /\ m.paused # FirstPause(h)
    BY <1>3 DEF Structure, Future
  <2>2. ~(Hears /\ Head(network).hop = h)
    BY <2>1, HeardIsAnnounced DEF Unstarted
  <2>3. ~Unstarted(h)'
    BY <2>1, <2>2, ManagerHears DEF Unstarted, Kept
  <2>4. m'.requests[h].report = "new"
    BY <2>1, <2>2, ManagerReports DEF Unstarted
  <2>5. expecting'[h] = "unheard"
    BY <2>1, <2>2, ManagerHears
  <2>6. ~PauseComing(h)' /\ ~Answering(FirstPause(h))' /\ m'.paused # FirstPause(h)
    BY <2>1, ManagerPauses
  <2> QED BY <1>1, <2>1, <2>3, <2>4, <2>5, <2>6
<1>4. Future'
  BY <1>1, <1>3 DEF Future
<1> QED BY <1>2, <1>4

LEMMA InOrderTail ==
  ASSUME NEW q \in Seq(NetworkEvent), q # <<>>, InOrder(q)
  PROVE  InOrder(Tail(q))
<1> SUFFICES ASSUME NEW i \in DOMAIN Tail(q), NEW j \in DOMAIN Tail(q), i < j,
                    Tail(q)[i].event = "requestWillBeSent", Tail(q)[j].event = "requestWillBeSent"
             PROVE  Tail(q)[i].hop < Tail(q)[j].hop
  BY DEF InOrder
<1>1. /\ i + 1 \in DOMAIN q /\ j + 1 \in DOMAIN q /\ i + 1 < j + 1
      /\ Tail(q)[i] = q[i + 1] /\ Tail(q)[j] = q[j + 1]
  BY TailItems
<1> QED BY <1>1 DEF InOrder

LEMMA ManagerAnnounces ==
  ASSUME Typed, Structure, ManagerStep
  PROVE  AnnouncedInOrder'
<1>1. InOrder(network) /\ network \in Seq(NetworkEvent)
  BY TypedParts DEF Structure, AnnouncedInOrder
<1>2. InOrder(network)'
  <2>1. InOrder(network')
    BY <1>1, ManagerQueues, InOrderTail
  <2> QED BY <2>1 DEF InOrder
<1>3. ASSUME NEW h \in Hop, Announced(h)' PROVE expecting'[h] = "unheard"
  BY <1>3, ManagerHears DEF Structure, AnnouncedInOrder
<1>4. ASSUME NEW g \in Hop, NEW h \in Hop, Announced(h)', Kept(m', g) PROVE g < h
  BY <1>4, ManagerHears DEF Structure, AnnouncedInOrder
<1>5. \A h \in Hop : (Announced(h) => expecting[h] = "unheard")'
  BY <1>3
<1>6. \A g, h \in Hop : (Announced(h) /\ Kept(m, g) => g < h)'
  BY <1>4 DEF Kept
<1> QED BY <1>2, <1>5, <1>6 DEF AnnouncedInOrder

LEMMA ManagerEnds ==
  ASSUME Typed, Structure, ManagerStep
  PROVE  EndIsLast'
<1>1. network \in Seq(NetworkEvent) /\ UNCHANGED browser
  BY TypedParts, ManagerQueues
<1>2. \A j \in DOMAIN network : network[j].event \in Ending => j = Len(network) /\ browser.stage = "over"
  BY DEF Structure, EndIsLast, Ending
<1>3. ASSUME NEW i \in DOMAIN network', network'[i].event \in Ending
      PROVE  i = Len(network') /\ browser.stage = "over"
  <2>1. CASE network' = network
    BY <1>2, <1>3, <2>1
  <2>2. CASE network # <<>> /\ network' = Tail(network)
    BY <1>1, <1>2, <1>3, <2>2, TailItems
  <2> QED BY <2>1, <2>2, ManagerQueues
<1> QED BY <1>1, <1>3 DEF EndIsLast, Ending

LEMMA ManagerByKind ==
  ASSUME Typed, Structure, ManagerStep
  PROVE  ByKind' /\ KeptIsExpected' /\ NeverBoth'
<1>1. UNCHANGED <<kind, browser>>
  BY ManagerQueues
<1>2. ASSUME kind = "viaWorker"
      PROVE  /\ \A i \in DOMAIN fetch' : fetch'[i].event # "paused"
             /\ m'.paused = None
  <2>1. (\A i \in DOMAIN fetch : fetch[i].event # "paused") /\ m.paused = None
        /\ fetch \in Seq(FetchEvent)
    BY <1>2, TypedParts DEF Structure, ByKind
  <2>2. \A i \in DOMAIN fetch' : fetch'[i].event # "paused"
    BY <2>1, ManagerQueues, TailItems
  <2>3. ~SeesPause
    <3>1. fetch # <<>> => 1 \in DOMAIN fetch /\ fetch[1] = Head(fetch)
      BY <2>1, TailItems
    <3> QED BY <2>1, <3>1 DEF SeesPause, PausedEvent
  <2>4. m'.paused = None
    BY <2>1, <2>3 DEF ManagerStep, Bookkeeps, KeepsBoth, Hears, HearsLate, HearsEnd, StopsNow
  <2> QED BY <2>2, <2>4
<1>3. ASSUME kind = "foreign" PROVE network' = <<>> /\ m'.sent = None
  <2>1. network = <<>> /\ m.sent = None
    BY <1>3 DEF Structure, ByKind
  <2>2. Bookkeeps \/ SeesPause
    BY <2>1 DEF ManagerStep, Hears, HearsLate, HearsEnd, TakesEvent
  <2> QED BY <2>1, <2>2, ManagerQueues DEF Bookkeeps, KeepsBoth, SeesPause
<1>4. ByKind'
  BY <1>1, <1>2, <1>3 DEF ByKind, Structure
<1>5. ASSUME NEW h \in Hop, Kept(m', h) PROVE expecting'[h] = "yes"
  <2>1. CASE Hears /\ Head(network).hop = h
    <3>1. expecting[h] = "unheard"
      BY <2>1, HeardIsAnnounced DEF Structure, AnnouncedInOrder
    <3>2. ~Kept(m, h)
      BY <3>1 DEF Structure, KeptIsExpected
    <3>3. m.protocol
      BY <1>5, <2>1, <3>2 DEF Hears, Kept
    <3>4. expecting \in [Hop -> {"unheard", "yes", "no"}]
      BY TypedParts
    <3> QED BY <2>1, <3>3, <3>4 DEF Hears
  <2>2. CASE ~(Hears /\ Head(network).hop = h)
    BY <1>5, <2>2, ManagerHears DEF Structure, KeptIsExpected
  <2> QED BY <2>1, <2>2
<1>6. KeptIsExpected'
  BY <1>5 DEF KeptIsExpected, Kept
<1>7. NeverBoth'
  BY DEF NeverBoth, Structure, ManagerStep, Bookkeeps, KeepsBoth, Hears, SeesPause, HearsLate,
         HearsEnd, StopsNow
<1> QED BY <1>4, <1>6, <1>7

LEMMA ManagerStructure ==
  ASSUME Typed, Structure, ManagerStep, Typed'
  PROVE  Structure'
BY ManagerFuture, ManagerAnnounces, ManagerEnds, ManagerByKind DEF Structure, Typed

LEMMA ManagerDisturbs ==
  ASSUME Typed, Structure, ManagerStep, Disturbed
  PROVE  Disturbed'
<1>1. PICK h \in Hop : DisturbedAt(h)
  BY DEF Disturbed, DisturbedAt
<1>2. UNCHANGED <<kind, browser>>
  BY ManagerQueues
<1>3. expecting'[h] = expecting[h]
  BY <1>1, ManagerHears, HeardIsAnnounced DEF DisturbedAt, Structure, AnnouncedInOrder
<1>4. DisturbedAt(h)'
  BY <1>1, <1>2, <1>3 DEF DisturbedAt
<1> QED BY <1>4 DEF Disturbed, DisturbedAt

(***************************************************************************)
(* Steps of the manager keep the order, as long as nothing disturbs.        *)
(***************************************************************************)
(* A request that another one follows is not paused any more.               *)
LEMMA FollowedIsNotPaused ==
  ASSUME Typed, Structure, Ordered, NEW g \in Hop, NEW h \in Hop, g < h,
         Unstarted(g), Unstarted(h)
  PROVE  browser.pausing[g] \in {"no", "cut"}
<1>0. g \in Nat /\ h \in Nat /\ browser.hop \in Nat
  BY HopOrder
<1>1. h <= browser.hop
  <2>1. ~(h > browser.hop)
    BY DEF Structure, Future
  <2> QED BY <1>0, <2>1
<1>2. g < browser.hop
  BY <1>0, <1>1
<1>3. browser.pausing[g] # "undecided"
  BY <1>2 DEF Structure, Past
<1>4. browser.pausing[g] # "yes"
  BY <1>2, HopOrder DEF Ordered, UnstartedIsHeld
<1>5. browser.pausing[g] \in {"undecided", "no", "yes", "cut"}
  BY TypedParts DEF Browser
<1> QED BY <1>3, <1>4, <1>5

(* An event is kept while the next one comes only for a service worker.      *)
LEMMA KeptForWorker ==
  ASSUME Typed, Structure, Ordered, ~Disturbed, NEW g \in Hop, NEW h \in Hop,
         Kept(m, g), Announced(h)
  PROVE  kind = "viaWorker" /\ g = 0
<1>1. g < h /\ expecting[g] = "yes"
  BY DEF Structure, AnnouncedInOrder, KeptIsExpected
<1>2. browser.pausing[g] \in {"no", "cut"}
  BY <1>1, FollowedIsNotPaused DEF Unstarted
<1> QED BY <1>1, <1>2, HopOrder DEF Disturbed

LEMMA HeardForWorker ==
  ASSUME Typed, Structure, Ordered, ManagerStep, ~Disturbed', Hears, m.protocol,
         NEW h \in Hop, Announced(h)'
  PROVE  kind = "viaWorker" /\ Head(network).hop = 0
<1>0. PICK g \in Hop : g = Head(network).hop
  BY HeardIsAnnounced
<1>1. g \in Hop /\ Announced(g) /\ Announced(h) /\ g < h
  BY <1>0, HeardIsAnnounced, ManagerHears
<1>2. browser.pausing[g] \in {"no", "cut"}
  BY <1>1, FollowedIsNotPaused DEF Unstarted
<1>3. expecting'[g] = "yes"
  <2>1. expecting \in [Hop -> {"unheard", "yes", "no"}]
    BY TypedParts
  <2> QED BY <1>0, <1>1, <2>1 DEF Hears
<1>4. UNCHANGED <<kind, browser>>
  BY ManagerQueues
<1>5. ~DisturbedAt(g)'
  BY <1>1 DEF Disturbed, DisturbedAt
<1>6. g \in Nat
  BY <1>1, HopOrder
<1> QED BY <1>0, <1>2, <1>3, <1>4, <1>5, <1>6 DEF DisturbedAt

LEMMA BeginsOne ==
  ASSUME Typed, OneIsLive, NEW e \in Hop, Begins(m, m', e), e > 0 \/ m.request = None
  PROVE  OneIsLive'
<1>1. Predecessor(m, e) = m.request /\ None \notin Hop
  BY HopOrder DEF Predecessor
<1>2. \A k \in Hop : m.requests[k].report = "live" => k = m.request
  BY DEF OneIsLive, Live
<1>3. \A k \in Hop : m'.requests[k].report = "live" <=> k = e
  BY <1>1, <1>2 DEF Begins
<1>4. m'.request = e /\ m'.request # None
  BY HopOrder DEF Begins
<1> QED BY <1>3, <1>4 DEF OneIsLive, Live

LEMMA SkipsOne ==
  ASSUME Typed, OneIsLive, NEW e, Skips(m, m', e)
  PROVE  OneIsLive'
<1>1. \A k \in Hop : m.requests[k].report = "live" <=> k = m.request
  BY HopOrder DEF OneIsLive, Live
<1>2. CASE Predecessor(m, e) = None
  <2>1. m'.request = m.request
        /\ \A k \in Hop : m'.requests[k].report = m.requests[k].report
    BY <1>2, HopOrder DEF Skips
  <2> QED BY <2>1 DEF OneIsLive, Live
<1>3. CASE Predecessor(m, e) # None
  <2>1. Predecessor(m, e) = m.request
    BY <1>3 DEF Predecessor
  <2>2. m'.request = None /\ \A k \in Hop : m'.requests[k].report # "live"
    BY <1>1, <1>3, <2>1 DEF Skips
  <2> QED BY <2>2 DEF OneIsLive, Live
<1> QED BY <1>2, <1>3

LEMMA OverOne ==
  ASSUME Typed, OneIsLive, NEW e, IsOver(m, m', e), m.request \in {e, None}
  PROVE  OneIsLive'
<1>1. \A k \in Hop : m.requests[k].report = "live" <=> k = m.request
  BY HopOrder DEF OneIsLive, Live
<1>2. m'.request = None /\ \A k \in Hop : m'.requests[k].report # "live"
  BY <1>1, HopOrder DEF IsOver
<1> QED BY <1>2 DEF OneIsLive, Live

LEMMA SameOne ==
  ASSUME OneIsLive, SameReports(m, m')
  PROVE  OneIsLive'
BY DEF OneIsLive, Live, SameReports

(* If all from e on are new and something is listed, e is not the first.     *)
LEMMA NewIsNext ==
  ASSUME Typed, NEW e \in Hop, NewFrom(m, e)
  PROVE  /\ m.request # None => m.request \in Hop /\ m.request < e
         /\ e > 0 \/ m.request = None
<1>1. m.request # None => m.request \in Hop /\ m.requests[m.request].report = "live"
  BY TypedParts DEF ManagerTyped, Manager, Listed
<1>2. ~(m.request # None /\ m.request >= e)
  BY <1>1 DEF NewFrom
<1>3. e \in Nat /\ (m.request # None => m.request \in Nat)
  BY <1>1, HopOrder
<1> QED BY <1>1, <1>2, <1>3

LEMMA SentHop ==
  ASSUME Typed, m.sent # None
  PROVE  m.sent.hop \in Hop /\ Kept(m, m.sent.hop)
BY TypedParts DEF ManagerTyped, Manager, Sent, Kept

LEMMA ManagerOneIsLive ==
  ASSUME Typed, Structure, Ordered, ManagerStep
  PROVE  OneIsLive'
<1>1. OneIsLive /\ NewInOrder
  BY DEF Ordered
<1>2. CASE Bookkeeps
  BY <1>1, <1>2, SameOne DEF Bookkeeps
<1>3. CASE Hears
  <2> DEFINE h == Head(network).hop
  <2>1. h \in Hop /\ NewFrom(m, h)
    BY <1>1, <1>3, HeardIsAnnounced DEF NewInOrder
  <2>2. SameReports(m, m') \/ Begins(m, m', h) \/ Skips(m, m', h)
    BY <1>3 DEF Hears
  <2> HIDE DEF h
  <2> QED BY <1>1, <2>1, <2>2, NewIsNext, SameOne, BeginsOne, SkipsOne
<1>4. CASE SeesPause
  <2>1. CASE SameReports(m, m')
    BY <1>1, <2>1, SameOne
  <2>2. CASE ~SameReports(m, m')
    <3>1. m.sent # None /\ (Begins(m, m', m.sent.hop) \/ Skips(m, m', m.sent.hop))
      BY <1>4, <2>2 DEF SeesPause
    <3>2. m.sent.hop \in Hop /\ Kept(m, m.sent.hop)
      BY <3>1, SentHop
    <3>3. kind # "viaWorker"
      <4>1. fetch \in Seq(FetchEvent) /\ fetch # <<>> /\ Head(fetch).event = "paused"
        BY <1>4, TypedParts DEF SeesPause, PausedEvent
      <4>2. 1 \in DOMAIN fetch /\ fetch[1] = Head(fetch)
        BY <4>1, TailItems
      <4> QED BY <4>1, <4>2 DEF Structure, ByKind
    <3>4. NewFrom(m, m.sent.hop)
      BY <1>1, <3>2, <3>3 DEF NewInOrder, Forgotten
    <3> QED BY <1>1, <3>1, <3>2, <3>4, NewIsNext, BeginsOne, SkipsOne
  <2> QED BY <2>1, <2>2
<1>5. CASE HearsLate
  <2>1. m.sent # None /\ m.request = None /\ (Begins(m, m', m.sent.hop) \/ SameReports(m, m'))
    BY <1>5 DEF HearsLate, StopsNow
  <2>2. m.sent.hop \in Hop
    BY <2>1, SentHop
  <2> QED BY <1>1, <2>1, <2>2, BeginsOne, SameOne
<1>6. CASE HearsEnd
  <2>1. \/ IsOver(m, m', m.request)
        \/ m.request = None /\ (IsOver(m, m', m.sent.hop) \/ SameReports(m, m'))
    BY <1>6 DEF HearsEnd, StopsNow
  <2> QED BY <1>1, <2>1, OverOne, SameOne
<1> QED BY <1>2, <1>3, <1>4, <1>5, <1>6 DEF ManagerStep

LEMMA PauseNeedsNoWorker ==
  ASSUME Typed, Structure, SeesPause
  PROVE  kind # "viaWorker"
<1>1. fetch \in Seq(FetchEvent) /\ fetch # <<>> /\ Head(fetch).event = "paused"
  BY TypedParts DEF SeesPause, PausedEvent
<1>2. 1 \in DOMAIN fetch /\ fetch[1] = Head(fetch)
  BY <1>1, TailItems
<1> QED BY <1>1, <1>2 DEF Structure, ByKind

LEMMA EndEmptiesNetwork ==
  ASSUME Typed, Structure, HearsEnd
  PROVE  network' = <<>> /\ browser.stage = "over"
<1>1. /\ network \in Seq(NetworkEvent) /\ network # <<>> /\ network' = Tail(network)
      /\ Head(network).event \in Ending
  BY TypedParts DEF HearsEnd, TakesEvent, Ending
<1>2. 1 \in DOMAIN network /\ network[1] = Head(network) /\ Len(Tail(network)) = Len(network) - 1
  BY <1>1, TailItems
<1>3. 1 = Len(network) /\ browser.stage = "over"
  BY <1>1, <1>2 DEF Structure, EndIsLast, Ending
<1>4. Tail(network) \in Seq(NetworkEvent)
  BY <1>1, TailType
<1>5. Len(Tail(network)) = 0
  BY <1>2, <1>3
<1> QED BY <1>1, <1>3, <1>4, <1>5, EmptySeq

LEMMA ManagerNewAnnounced ==
  ASSUME Typed, Structure, Ordered, ManagerStep, NEW h \in Hop, Announced(h)'
  PROVE  NewFrom(m', h)
<1> SUFFICES ASSUME NEW k \in Hop, k >= h PROVE m'.requests[k].report = "new"
  BY DEF NewFrom
<1>1. h \in Nat /\ k \in Nat
  BY HopOrder
<1>2. Announced(h) /\ (Hears => Head(network).hop < h)
  BY ManagerHears
<1>3. m.requests[k].report = "new"
  BY <1>2 DEF Ordered, NewInOrder, NewFrom
<1>4. ~Kept(m, k)
  BY <1>1, <1>2 DEF Structure, AnnouncedInOrder
<1>5. ~(Hears /\ Head(network).hop = k)
  BY <1>1, <1>2
<1> QED BY <1>3, <1>4, <1>5, ManagerReports

LEMMA SameNew ==
  ASSUME NEW h, NewFrom(m, h), SameReports(m, m')
  PROVE  NewFrom(m', h)
BY DEF NewFrom, SameReports

LEMMA ManagerNewKept ==
  ASSUME Typed, Structure, Ordered, ManagerStep, ~Disturbed, NEW h \in Hop, Kept(m', h)
  PROVE  NewFrom(m', h) \/ (h = 0 /\ Forgotten')
<1>1. UNCHANGED <<kind, browser>>
  BY ManagerQueues
<1>2. CASE Hears /\ Head(network).hop = h
  <2>1. Announced(h) /\ ~Kept(m, h)
    <3>1. Announced(h)
      BY <1>2, HeardIsAnnounced
    <3>2. h \in Nat
      BY HopOrder
    <3> QED BY <3>1, <3>2 DEF Structure, AnnouncedInOrder
  <2>2. SameReports(m, m')
    BY <1>2, <2>1 DEF Hears, Kept
  <2> QED BY <2>1, <2>2, SameNew DEF Ordered, NewInOrder
<1>3. CASE ~(Hears /\ Head(network).hop = h)
  <2>1. Kept(m, h) /\ m.sent # None /\ m'.sent # None
    BY <1>3, ManagerHears DEF Kept
  <2>2. NewFrom(m, h) \/ (h = 0 /\ Forgotten)
    BY <2>1 DEF Ordered, NewInOrder
  <2>3. CASE Bookkeeps
    <3>1. network = <<>> => network' = <<>>
      BY <2>3 DEF Bookkeeps, LeavesBe
    <3>2. Forgotten => Forgotten'
      BY <1>1, <2>3, <3>1 DEF Bookkeeps, SameReports, Forgotten
    <3> QED BY <2>2, <2>3, <3>2, SameNew DEF Bookkeeps
  <2>4. CASE Hears
    <3>1. PICK g \in Hop : g = Head(network).hop /\ Announced(g) /\ g # h
      BY <1>3, <2>4, HeardIsAnnounced
    <3>2. kind = "viaWorker" /\ h = 0
      BY <2>1, <3>1, KeptForWorker
    <3>3. m'.sent.hop = h
      BY <1>3, Kept(m', h) DEF Kept
    <3>4. UNCHANGED frame /\ (frame => Begins(m, m', g))
      BY <2>4, <3>1, <3>2, <3>3 DEF Hears
    <3>5. m'.request # None \/ ~frame'
      BY <3>1, <3>4, HopOrder DEF Begins
    <3> QED BY <1>1, <3>2, <3>5 DEF Forgotten
  <2>5. CASE HearsEnd
    <3>1. network' = <<>> /\ browser.stage = "over"
      BY <2>5, EndEmptiesNetwork
    <3>2. Forgotten => Forgotten'
      BY <1>1, <3>1 DEF Forgotten
    <3>3. ASSUME NewFrom(m, h) PROVE NewFrom(m', h)
      <4> SUFFICES ASSUME NEW k \in Hop, k >= h PROVE m'.requests[k].report = "new"
        BY DEF NewFrom
      <4>1. IsOver(m, m', m.request) /\ m.request # None
        BY <2>1, <2>5 DEF HearsEnd, StopsNow
      <4>2. m.request # k
        <5>1. m.requests[k].report = "new"
          BY <3>3 DEF NewFrom
        <5> QED BY <4>1, <5>1, TypedParts DEF ManagerTyped, Listed
      <4> QED BY <3>3, <4>1, <4>2 DEF IsOver, NewFrom
    <3> QED BY <2>2, <3>2, <3>3
  <2>6. ~SeesPause /\ ~HearsLate
    BY <2>1 DEF SeesPause, KeepsBoth, HearsLate, StopsNow, Structure, ByKind
  <2> QED BY <2>3, <2>4, <2>5, <2>6 DEF ManagerStep
<1> QED BY <1>2, <1>3

LEMMA ManagerHolds ==
  ASSUME Typed, Structure, Ordered, ManagerStep, ~Disturbed, ~Disturbed',
         NEW h \in Hop, Unstarted(h)'
  PROVE  /\ ~Answering(FirstPause(h))'
         /\ browser'.pausing[h] = "yes" =>
              /\ browser'.hop = h
              /\ \/ browser'.stage = "over"
                 \/ browser'.stage = "paused" /\ browser'.id = FirstPause(h)
              /\ PauseComing(h)' \/ (Announced(h)' /\ m'.paused # None)
<1>1. UNCHANGED <<kind, browser>> /\ h \in Nat
  BY ManagerQueues, HopOrder
<1>2. Announced(h)' \/ Kept(m', h)
  BY DEF Unstarted, Kept
<1>3. Unstarted(h)
  BY <1>2, ManagerHears, HeardIsAnnounced DEF Unstarted
<1>4. ~(Announced(h) /\ Kept(m, h))
  BY <1>1 DEF Structure, AnnouncedInOrder
<1>5. FirstPause(h) \in Pause /\ FirstPause(h) # None
  BY FirstPauseType, NoneAssumption DEF Pause, Hop
(* The pause of h is not seen but remembered.                                *)
<1>6. ASSUME SeesPause, Head(fetch) = PausedEvent(FirstPause(h))
      PROVE  Announced(h)' /\ m'.paused = FirstPause(h) /\ MayAnswer(None)
  <2>1. kind # "viaWorker" /\ kind # "foreign"
    BY <1>3, <1>6, PauseNeedsNoWorker
       DEF Structure, ByKind, Unstarted, Announced, AnnouncedIn, Kept
  <2>2. ~Hears
    <3>1. UNCHANGED network /\ network \in Seq(NetworkEvent)
      BY <1>6, TypedParts DEF SeesPause
    <3> QED BY <3>1, TailItems DEF Hears, TakesEvent
  <2>3. \A pause \in Pause : Head(fetch) = PausedEvent(pause) => pause = FirstPause(h)
    BY <1>6 DEF PausedEvent
  <2>4. m.sent = None
    <3> SUFFICES ASSUME m.sent # None PROVE FALSE
      OBVIOUS
    <3>1. m'.sent = None
      BY <1>6, <2>1 DEF SeesPause
    <3>2. Announced(h)
      BY <1>2, <3>1, ManagerHears DEF Kept
    <3>3. m.sent.hop \in Hop /\ Kept(m, m.sent.hop)
      BY SentHop
    <3> QED BY <2>1, <3>2, <3>3, KeptForWorker
  <2>5. Announced(h)
    BY <1>3, <2>4 DEF Unstarted, Kept
  <2>6. m.request # None => h > 0
    BY <1>1, <2>5, NewIsNext DEF Ordered, NewInOrder
  <2>7. FirstPause(h).hop = h
    BY DEF FirstPause
  <2>8. m'.paused = FirstPause(h) /\ MayAnswer(None)
    BY <1>6, <2>1, <2>3, <2>4, <2>6, <2>7 DEF SeesPause
  <2>9. Announced(h)'
    BY <2>2, <2>5, ManagerHears
  <2> QED BY <2>8, <2>9
(* The pause of another one is not what was remembered.                      *)
<1>7. ASSUME Hears, m.protocol, m.paused # None
      PROVE  FALSE
  <2>1. Announced(h)'
    <3>1. m'.sent = m.sent
      BY <1>7 DEF Hears
    <3>2. m.sent = None
      BY <1>7 DEF Structure, NeverBoth
    <3> QED BY <1>2, <3>1, <3>2 DEF Kept
  <2>2. kind = "viaWorker"
    BY <1>7, <2>1, HeardForWorker
  <2> QED BY <1>7, <2>2 DEF Structure, ByKind
<1>8. ~Answering(FirstPause(h))'
  <2>1. ~Answering(FirstPause(h))
    BY <1>3 DEF Ordered, UnstartedIsHeld
  <2> QED BY <1>5, <1>6, <1>7, <2>1, ManagerPauses DEF MayAnswer
<1>9. ASSUME browser.pausing[h] = "yes"
      PROVE  PauseComing(h)' \/ (Announced(h)' /\ m'.paused # None)
  <2>1. PauseComing(h) \/ (Announced(h) /\ m.paused # None)
    BY <1>3, <1>9 DEF Ordered, UnstartedIsHeld
  <2>2. CASE PauseComing(h)
    <3>1. CASE fetch # <<>> /\ fetch' = Tail(fetch) /\ Head(fetch) = PausedEvent(FirstPause(h))
      <4>1. fetch' # fetch
        <5>1. fetch \in Seq(FetchEvent)
          BY TypedParts
        <5> QED BY <3>1, <5>1, TailItems
      <4>2. SeesPause
        BY <3>1, <4>1 DEF ManagerStep, Bookkeeps, Hears, HearsLate, HearsEnd, PausedEvent
      <4> QED BY <1>5, <1>6, <3>1, <4>2
    <3>2. CASE ~(fetch # <<>> /\ fetch' = Tail(fetch) /\ Head(fetch) = PausedEvent(FirstPause(h)))
      BY <2>2, <3>2, ManagerQueues, PauseComingTail DEF PauseComing
    <3> QED BY <3>1, <3>2
  <2>3. CASE Announced(h) /\ m.paused # None
    <3>1. ~(Hears /\ m.protocol)
      BY <1>7, <2>3
    <3>2. m.sent = None
      BY <2>3 DEF Structure, NeverBoth
    <3>3. Announced(h)'
      <4>1. CASE Hears /\ Head(network).hop = h
        <5>1. m'.sent = m.sent
          BY <3>1, <4>1 DEF Hears
        <5> QED BY <1>2, <3>2, <5>1 DEF Kept
      <4> QED BY <2>3, <4>1, ManagerHears
    <3>4. m'.paused # None
      BY <2>3, <3>1, NoneAssumption
         DEF ManagerStep, Bookkeeps, KeepsBoth, Hears, SeesPause, HearsLate, HearsEnd, StopsNow,
             Pause, Hop
    <3> QED BY <3>3, <3>4
  <2> QED BY <2>1, <2>2, <2>3
<1>10. browser.pausing[h] = "yes" =>
         /\ browser.hop = h
         /\ \/ browser.stage = "over"
            \/ browser.stage = "paused" /\ browser.id = FirstPause(h)
  BY <1>3 DEF Ordered, UnstartedIsHeld
<1> QED BY <1>1, <1>8, <1>9, <1>10

LEMMA ManagerOrdered ==
  ASSUME Typed, Structure, Disturbed \/ Ordered, ManagerStep
  PROVE  (Disturbed \/ Ordered)'
<1> SUFFICES ASSUME ~Disturbed' PROVE Ordered'
  OBVIOUS
<1>1. ~Disturbed /\ Ordered
  BY ManagerDisturbs
<1>2. OneIsLive'
  BY <1>1, ManagerOneIsLive
<1>3. NewInOrder'
  <2>1. \A h \in Hop : (Announced(h) => NewFrom(m, h))'
    BY <1>1, ManagerNewAnnounced DEF NewFrom
  <2>2. \A h \in Hop : (Kept(m, h) => NewFrom(m, h) \/ (h = 0 /\ Forgotten))'
    BY <1>1, ManagerNewKept DEF NewFrom, Kept
  <2> QED BY <2>1, <2>2 DEF NewInOrder
<1>4. UnstartedIsHeld'
  BY <1>1, ManagerHolds DEF UnstartedIsHeld
<1> QED BY <1>2, <1>3, <1>4 DEF Ordered

(***************************************************************************)
(* The invariant.                                                          *)
(***************************************************************************)
LEMMA StutterStep ==
  ASSUME Typed, UNCHANGED vars
  PROVE  Typed' /\ ManagerStep
<1>1. UNCHANGED <<m, switches, kind, frame, browser, network, extra, fetch, commands, expecting>>
  BY DEF vars, channels
<1>2. Typed'
  BY <1>1 DEF Typed, TypeOK, RoutesHold, PausesHaveIds
<1>3. SameReports(m, m') /\ KeepsBoth /\ MayAnswer(None)
  BY <1>1 DEF SameReports, KeepsBoth, MayAnswer, Answering, HeldByRoute, LetsGo
<1> QED BY <1>1, <1>2, <1>3 DEF Bookkeeps, ManagerStep

LEMMA StepsAreSeen ==
  ASSUME Typed, Structure, [Next]_vars
  PROVE  Typed' /\ (BrowserStep \/ ManagerStep)
<1>1. ByKind /\ PausesHaveIds /\ TypeOK
  BY DEF Structure, Typed
<1>2. CASE Begin \/ Decide \/ Progress \/ Cancel \/ ReceiveCommand
  <2>1. Typed'
    BY <1>1, <1>2, BrowserTyped
  <2>2. BrowserStep
    BY <1>1, <1>2, BeginStep, DecideStep, RedirectStep, MoveStep, OverStep, CommandStep
       DEF Progress
  <2> QED BY <2>1, <2>2
<1>3. CASE ChangeInterception \/ AnswerAnyRoute \/ DetachFrame
  BY <1>3, ChangeStep, AnswerAnyRouteStep, DetachFrameStep
<1>4. CASE Receive \/ ReceiveExtra \/ ReceiveFetch
  BY <1>4, ReceiveRequestWillBeSentStep, ReceiveServedFromCacheStep, ReceiveResponseStep,
     ReceiveEndStep, ReceiveExtraStep, ReceiveFetchStep DEF Receive
<1>5. CASE UNCHANGED vars
  BY <1>5, StutterStep
<1> QED BY <1>2, <1>3, <1>4, <1>5 DEF Next

LEMMA InitHolds == Init => Typed /\ Structure /\ Ordered
<1> SUFFICES ASSUME Init PROVE Typed /\ Structure /\ Ordered
  OBVIOUS
<1>1. Typed
  BY InitTyped
<1>2. /\ m.sent = None /\ m.paused = None /\ m.request = None
      /\ m.requests = [h \in Hop |-> NoRequest]
      /\ browser.stage = "none" /\ browser.hop = 0
      /\ browser.pausing = [h \in Hop |-> "undecided"]
      /\ network = <<>> /\ fetch = <<>> /\ commands = <<>>
      /\ expecting = [h \in Hop |-> "unheard"]
  BY DEF Init
<1>3. \A h \in Hop : /\ m.requests[h].report = "new" /\ m.requests[h].route = "none"
                     /\ browser.pausing[h] = "undecided" /\ expecting[h] = "unheard"
  BY <1>2 DEF NoRequest
<1>4. \A h \in Hop : ~Unstarted(h) /\ ~PauseComing(h)
  BY <1>2 DEF Unstarted, Announced, AnnouncedIn, Kept, PauseComing
<1>5. \A p : ~Answering(p)
  BY <1>2, <1>3 DEF Answering, HeldByRoute, LetsGo
<1>6. \A h \in Hop : m.paused # FirstPause(h)
  BY <1>2, FirstPauseType, NoneAssumption DEF Pause, Hop
<1>7. Structure
  <2>1. RoutesHold(m) /\ PausesHaveIds
    BY <1>3 DEF RoutesHold, PausesHaveIds
  <2>2. Future /\ Past /\ Beginning
    BY <1>2, <1>3, <1>4, <1>5, <1>6, HopOrder DEF Future, Past, Beginning
  <2>3. AnnouncedInOrder /\ EndIsLast
    BY <1>2, <1>3, <1>4 DEF AnnouncedInOrder, InOrder, EndIsLast, Unstarted
  <2>4. ByKind /\ KeptIsExpected /\ NeverBoth
    BY <1>2, <1>3 DEF ByKind, KeptIsExpected, NeverBoth, Kept
  <2> QED BY <2>1, <2>2, <2>3, <2>4 DEF Structure
<1>8. Ordered
  <2>1. OneIsLive
    BY <1>2, <1>3 DEF OneIsLive, Live
  <2>2. NewInOrder /\ UnstartedIsHeld
    BY <1>4 DEF NewInOrder, UnstartedIsHeld, Unstarted
  <2> QED BY <2>1, <2>2 DEF Ordered
<1> QED BY <1>1, <1>7, <1>8

(* No step of the browser, the manager or the client breaks IInv.            *)
LEMMA InvariantKept == IInv /\ [Next]_vars => IInv'
<1> SUFFICES ASSUME IInv, [Next]_vars PROVE IInv'
  OBVIOUS
<1>1. Typed /\ Structure /\ (Disturbed \/ Ordered)
  BY DEF IInv, Typed, Structure
<1>2. Typed' /\ (BrowserStep \/ ManagerStep)
  BY <1>1, StepsAreSeen
<1>3. Structure' /\ (Disturbed \/ Ordered)'
  BY <1>1, <1>2, BrowserStructure, BrowserOrdered, ManagerStructure, ManagerOrdered
<1> QED BY <1>2, <1>3 DEF IInv, Typed

(* IInv holds in every state of every behaviour.                             *)
LEMMA InvariantHolds == Spec => []IInv
<1>1. Init => IInv
  BY InitHolds DEF IInv, Typed
<1> QED BY <1>1, InvariantKept, PTL DEF Spec

(* Every handler leaves the manager, its requests and its tracker with the   *)
(* types the code gives them, and the request that is listed is in flight.   *)
THEOREM TypeCorrect == Spec => []TypeOK
<1>1. IInv => TypeOK
  BY DEF IInv
<1> QED BY <1>1, InvariantHolds, PTL

(***************************************************************************)
(* The refinement.                                                         *)
(***************************************************************************)
Told == [h \in Hop |-> m.requests[h].report]

LEMMA ToldLive ==
  ASSUME Typed, OneIsLive
  PROVE  /\ Told \in [Hop -> Reports!Report]
         /\ Reports!Live = IF m.request = None THEN {} ELSE {m.request}
         /\ m.request # None => m.request \in Hop /\ Told[m.request] = "live"
<1>1. \A h \in Hop : Told[h] = m.requests[h].report /\ m.requests[h].report \in Reports!Report
  BY TypedParts DEF Told, ManagerTyped, Manager, Request, Reports!Report
<1>2. m.request # None => m.request \in Hop /\ m.requests[m.request].report = "live"
  BY TypedParts DEF ManagerTyped, Manager, Listed
<1> QED BY <1>1, <1>2 DEF Told, OneIsLive, Live, Reports!Live

LEMMA BeginsReports ==
  ASSUME Typed, OneIsLive, NEW e \in Hop, NewFrom(m, e), Begins(m, m', e), UNCHANGED Disturbed
  PROVE  Reports!Undisturbed
<1>1. m.request # None => m.request \in Hop /\ m.request < e
  BY NewIsNext
<1>2. e \in Nat
  BY HopOrder
<1>3. CASE m.request = None
  <2>1. \A k \in Hop : m'.requests[k].report = IF k = e THEN "live" ELSE m.requests[k].report
    BY <1>3, HopOrder DEF Begins, Predecessor
  <2>2. Reports!Start(e)
    BY <1>3, <2>1, ToldLive DEF Reports!Start, NewFrom
  <2> QED BY <2>2 DEF Reports!Undisturbed
<1>4. CASE m.request # None
  <2>1. \A k \in Hop : m'.requests[k].report =
                         IF k = e THEN "live"
                         ELSE IF k = m.request THEN "over" ELSE m.requests[k].report
    BY <1>1, <1>2, <1>4, HopOrder DEF Begins, Predecessor
  <2>2. m.requests[m.request].report = "live"
    BY <1>4, TypedParts DEF ManagerTyped, Listed
  <2>3. Reports!Redirect(m.request, e)
    BY <1>1, <1>4, <2>1, <2>2 DEF Reports!Redirect, NewFrom
  <2> QED BY <1>1, <1>4, <2>3 DEF Reports!Undisturbed
<1> QED BY <1>3, <1>4

LEMMA OverReports ==
  ASSUME Typed, OneIsLive, NEW e \in Hop, UNCHANGED Disturbed,
         \A k \in Hop : m'.requests[k].report = IF k = e THEN "over" ELSE m.requests[k].report,
         m.request = e \/ (m.request = None /\ NewFrom(m, e))
  PROVE  Reports!Undisturbed
<1>1. CASE m.request = e
  <2>1. m.requests[e].report = "live"
    BY <1>1, HopOrder, TypedParts DEF ManagerTyped, Listed
  <2>2. Reports!End(e)
    BY <2>1 DEF Reports!End
  <2> QED BY <2>2 DEF Reports!Undisturbed
<1>2. CASE m.request = None /\ NewFrom(m, e)
  <2>1. Reports!Start(e)
    BY <1>2, ToldLive DEF Reports!Start, NewFrom
  <2> QED BY <2>1 DEF Reports!Undisturbed
<1> QED BY <1>1, <1>2

LEMMA SkipsReports ==
  ASSUME Typed, OneIsLive, NEW e \in Hop, Skips(m, m', e), UNCHANGED Disturbed
  PROVE  Reports!Undisturbed \/ UNCHANGED Told
<1>1. CASE Predecessor(m, e) = None
  <2>1. \A k \in Hop : m'.requests[k].report = m.requests[k].report
    BY <1>1, HopOrder DEF Skips
  <2> QED BY <2>1 DEF Told
<1>2. CASE Predecessor(m, e) # None
  <2>1. Predecessor(m, e) = m.request /\ m.request \in Hop
    BY <1>2, ToldLive DEF Predecessor
  <2> QED BY <2>1, OverReports DEF Skips
<1> QED BY <1>1, <1>2

LEMMA SameTold ==
  ASSUME SameReports(m, m')
  PROVE  UNCHANGED Told
BY DEF Told, SameReports

LEMMA ManagerTells ==
  ASSUME Typed, Structure, Ordered, ManagerStep, UNCHANGED Disturbed
  PROVE  Reports!Undisturbed \/ UNCHANGED Told
<1>1. OneIsLive /\ NewInOrder
  BY DEF Ordered
<1>2. CASE SameReports(m, m')
  BY <1>2, SameTold
<1>3. CASE Hears /\ ~SameReports(m, m')
  <2>1. PICK h \in Hop : h = Head(network).hop /\ NewFrom(m, h)
    BY <1>1, <1>3, HeardIsAnnounced DEF NewInOrder
  <2> QED BY <1>1, <1>3, <2>1, BeginsReports, SkipsReports DEF Hears
<1>4. CASE SeesPause /\ ~SameReports(m, m')
  <2>1. m.sent # None /\ (Begins(m, m', m.sent.hop) \/ Skips(m, m', m.sent.hop))
    BY <1>4 DEF SeesPause
  <2>2. m.sent.hop \in Hop /\ Kept(m, m.sent.hop)
    BY <2>1, SentHop
  <2>3. NewFrom(m, m.sent.hop)
    BY <1>1, <1>4, <2>2, PauseNeedsNoWorker DEF NewInOrder, Forgotten
  <2> QED BY <1>1, <2>1, <2>2, <2>3, BeginsReports, SkipsReports
(* Otherwise the event was kept and is not forgotten.                        *)
<1>5. ASSUME m.request = None, m.sent # None, network # <<>>,
             ~frame /\ kind # "preflight" => SameReports(m, m'),
             ~SameReports(m, m')
      PROVE  m.sent.hop \in Hop /\ NewFrom(m, m.sent.hop)
  BY <1>1, <1>5, SentHop DEF NewInOrder, Forgotten
<1>6. CASE HearsLate /\ ~SameReports(m, m')
  BY <1>1, <1>5, <1>6, BeginsReports DEF HearsLate, StopsNow, TakesEvent
<1>7. CASE HearsEnd /\ ~SameReports(m, m')
  <2>1. CASE m.request # None /\ IsOver(m, m', m.request)
    BY <1>1, <2>1, ToldLive, OverReports DEF IsOver
  <2>2. CASE ~(m.request # None /\ IsOver(m, m', m.request))
    <3>1. StopsNow /\ IsOver(m, m', m.sent.hop)
      BY <1>7, <2>2 DEF HearsEnd
    <3>2. m.sent.hop \in Hop /\ NewFrom(m, m.sent.hop)
      BY <1>5, <1>7, <2>2, <3>1 DEF HearsEnd, StopsNow, TakesEvent
    <3> QED BY <1>1, <3>1, <3>2, OverReports DEF IsOver, StopsNow
  <2> QED BY <2>1, <2>2
<1> QED BY <1>2, <1>3, <1>4, <1>6, <1>7 DEF ManagerStep, Bookkeeps

LEMMA ReportsStep ==
  ASSUME IInv, IInv', [Next]_vars
  PROVE  [Reports!Next]_<<Told, Disturbed>>
<1>1. Typed /\ Structure /\ (Disturbed \/ Ordered)
  BY DEF IInv, Typed, Structure
<1>2. BrowserStep \/ ManagerStep
  BY <1>1, StepsAreSeen
<1>3. Told' \in [Hop -> Reports!Report]
  <2>1. m'.requests \in [Hop -> Request]
    BY DEF IInv, TypeOK, Manager
  <2> QED BY <2>1 DEF Told, Request, Reports!Report
<1>4. CASE Disturbed'
  <2>1. Reports!Disturb
    BY <1>3, <1>4 DEF Reports!Disturb, Told
  <2> QED BY <2>1 DEF Reports!Next
<1>5. CASE ~Disturbed'
  <2>1. ~Disturbed /\ Ordered
    BY <1>1, <1>2, <1>5, BrowserDisturbs, ManagerDisturbs
  <2>2. UNCHANGED Disturbed
    <3>1. Disturbed \in BOOLEAN /\ Disturbed' \in BOOLEAN
      BY DEF Disturbed
    <3> QED BY <1>5, <2>1, <3>1
  <2>3. CASE BrowserStep
    BY <1>1, <2>2, <2>3, BrowserKeeps DEF Told
  <2>4. CASE ManagerStep
    BY <1>1, <2>1, <2>2, <2>4, ManagerTells DEF Reports!Next
  <2> QED BY <1>2, <2>3, <2>4
<1> QED BY <1>4, <1>5

LEMMA ReportsInit == Init => Reports!Init
<1> SUFFICES ASSUME Init PROVE Reports!Init
  OBVIOUS
<1>1. m.requests = [h \in Hop |-> NoRequest] /\ expecting = [h \in Hop |-> "unheard"]
  BY DEF Init
<1>2. \A h \in Hop : m.requests[h].report = "new" /\ expecting[h] = "unheard"
  BY <1>1 DEF NoRequest
<1>3. ~Disturbed
  BY <1>2 DEF Disturbed
<1>4. Disturbed = FALSE
  <2>1. Disturbed \in BOOLEAN
    BY DEF Disturbed
  <2> QED BY <1>3, <2>1
<1> QED BY <1>2, <1>4 DEF Reports!Init

(* The frame manager is told of the requests of a chain one after the other, *)
(* each started once and ended once, in whatever order the events of the     *)
(* network and of interception arrive, until interception is switched while  *)
(* a request begins.                                                        *)
THEOREM ReportsAreInOrder == Spec => ReportsInOrder
<1>1. IInv /\ IInv' /\ [Next]_vars => [Reports!Next]_<<Told, Disturbed>>
  BY ReportsStep
<1> QED BY <1>1, InvariantHolds, ReportsInit, PTL DEF Spec, ReportsInOrder, Reports!Spec, Told

(***************************************************************************)
(* What the handlers do to the answers.                                    *)
(***************************************************************************)
SameAnswers(s, t) == \A k \in Hop : SameAnswer(s, t, k)
Fresh(t, k) == t.requests[k].response = "none" /\ ~t.requests[k].failed
Redirected(t, k) == t.requests[k].response # "none" /\ ~t.requests[k].failed

(* Only the request before e is answered, by the redirect, and e is fresh.    *)
AnswersTake(s, t, e) ==
  \A k \in Hop :
    IF k = e THEN SameAnswer(s, t, k) \/ Fresh(t, k) \/ e = Predecessor(s, e)
    ELSE IF k = Predecessor(s, e) THEN Redirected(t, k) ELSE SameAnswer(s, t, k)

TakesAnswers(s, t, e) == AnswersTake(s, t, e) /\ (Begins(s, t, e) \/ Skips(s, t, e))

LEMMA SameRequestsSameAnswers ==
  ASSUME NEW s, NEW t, t.requests = s.requests PROVE SameAnswers(s, t)
BY DEF SameAnswers, SameAnswer

LEMMA ReportOverAnswers ==
  ASSUME NEW s \in Manager, NEW h \in Hop, NEW failed \in BOOLEAN
  PROVE  LET t == ReportOver(s, h, failed)
         IN /\ \A k \in Hop \ {h} : SameAnswer(s, t, k)
            /\ t.requests[h].response = s.requests[h].response
            /\ t.requests[h].empty = s.requests[h].empty
            /\ t.requests[h].failed = failed
<1> DEFINE r == [s.requests[h] EXCEPT !.report = "over", !.failed = failed]
           f == [s.requests EXCEPT ![h] = r]
           a == s.attempted \ {s.requests[h].interception}
           t == [s EXCEPT !.request = None, !.attempted = a, !.requests = f]
<1>1. s.requests \in [Hop -> Request] /\ s.requests[h] \in Request
  BY DEF Manager
<1>2. r.response = s.requests[h].response /\ r.empty = s.requests[h].empty /\ r.failed = failed
  BY <1>1 DEF Request
<1>3. ReportOver(s, h, failed) = t
  BY <1>1 DEF ReportOver, DeleteRequest, Manager
<1>4. t.requests = f
  <2> HIDE DEF f, a
  <2> QED BY DEF Manager
<1>5. \A k \in Hop : f[k] = IF k = h THEN r ELSE s.requests[k]
  BY <1>1
<1> HIDE DEF t, f, r
<1> QED BY <1>2, <1>3, <1>4, <1>5 DEF SameAnswer

LEMMA IsAnswered ==
  ASSUME NEW s \in Manager, NEW h \in Hop, NEW payload, NEW hasExtraInfo, NEW empty \in BOOLEAN
  PROVE  CreateResponse(s, h, payload, hasExtraInfo, empty).requests[h].response # "none"
BY CreateResponseKeeps

LEMMA RedirectAnswers ==
  ASSUME NEW s \in Manager, NEW h \in Hop, NEW event \in Sent
  PROVE  LET t == HandleRequestRedirect(s, h, event)
         IN (\A k \in Hop \ {h} : SameAnswer(s, t, k)) /\ Redirected(t, h)
<1> DEFINE u == CreateResponse(s, h, event.hop - 1, event.redirected, FALSE)
           t == ReportOver(u, h, FALSE)
<1>1. /\ u \in Manager /\ \A k \in Hop \ {h} : SameAnswer(s, u, k)
      /\ u.requests[h].response # "none"
  <2>1. u \in Manager
    BY CreateResponseKeeps
  <2>2. ASSUME NEW k \in Hop \ {h} PROVE SameAnswer(s, u, k)
    BY CreateResponseKeeps
  <2>3. u.requests[h].response # "none"
    BY IsAnswered
  <2> QED BY <2>1, <2>2, <2>3
<1>2. HandleRequestRedirect(s, h, event) = t
  BY DEF HandleRequestRedirect
<1> HIDE DEF u
<1>3. /\ \A k \in Hop \ {h} : SameAnswer(u, t, k)
      /\ t.requests[h].response = u.requests[h].response /\ t.requests[h].failed = FALSE
  BY <1>1, ReportOverAnswers
<1> HIDE DEF t
<1> QED BY <1>1, <1>2, <1>3 DEF SameAnswer, Redirected

LEMMA RequestStartedAnswers ==
  ASSUME NEW s \in Manager, NEW h \in Hop, NEW pause \in Pause \cup {None},
         NEW from \in Hop \cup {None}
  PROVE  LET t == RequestStarted(s, h, pause, from)
         IN (\A k \in Hop \ {h} : SameAnswer(s, t, k)) /\ Fresh(t, h)
<1> DEFINE routed == pause # None /\ ~ContinuesAtOnce(s, from)
           original == IF routed THEN h ELSE IF from = None THEN None ELSE s.requests[from].original
           r == [NoRequest EXCEPT
                  !.report = "live",
                  !.rawRequest = IF routed THEN "paused" ELSE "pending",
                  !.interception = pause,
                  !.route = IF routed THEN "open" ELSE "none",
                  !.original = original]
           f == [s.requests EXCEPT ![h] = r]
           t == [s EXCEPT !.requests = f, !.request = h]
<1>1. s.requests \in [Hop -> Request]
  BY DEF Manager
<1>2. r.response = "none" /\ r.failed = FALSE
  BY DEF NoRequest
<1>3. t.requests = f
  <2> HIDE DEF f
  <2> QED BY DEF Manager
<1>4. \A k \in Hop : f[k] = IF k = h THEN r ELSE s.requests[k]
  BY <1>1
<1>5. RequestStarted(s, h, pause, from) \in {t, Send(t, "continue", pause)}
  BY <1>1 DEF RequestStarted, Manager
<1>6. t \in Manager => Send(t, "continue", pause).requests = t.requests
  BY DEF Send, Manager
<1>7. t \in Manager
  <2>1. original \in Hop \cup {None}
    BY <1>1 DEF Request
  <2>2. r \in Request
    <3> HIDE DEF original
    <3> QED BY <2>1 DEF Request, NoRequest
  <2>3. f \in [Hop -> Request]
    <3> HIDE DEF r
    <3> QED BY <1>1, <2>2
  <2> HIDE DEF f
  <2> QED BY <2>3 DEF Manager
<1> HIDE DEF t, f, r
<1> QED BY <1>2, <1>3, <1>4, <1>5, <1>6, <1>7 DEF SameAnswer, Fresh

LEMMA OnRequestAnswers ==
  ASSUME NEW s \in Manager, NEW event \in Sent, NEW pause \in Pause \cup {None}
  PROVE  AnswersTake(s, OnRequest(s, event, pause), event.hop)
<1> DEFINE e == event.hop
           from == Predecessor(s, e)
           t == IF from = None THEN s ELSE HandleRequestRedirect(s, from, event)
           u == OnRequest(s, event, pause)
<1>1. e \in Hop /\ from \in Hop \cup {None} /\ None \notin Hop
  BY NoneAssumption DEF Sent, Predecessor, Manager, Hop
<1>2. t \in Manager /\ \A k \in Hop : IF k = from THEN Redirected(t, k) ELSE SameAnswer(s, t, k)
  <2>1. CASE from = None
    BY <1>1, <2>1 DEF SameAnswer
  <2>2. CASE from # None
    <3>1. from \in Hop /\ t = HandleRequestRedirect(s, from, event)
      BY <1>1, <2>2
    <3> HIDE DEF t, from
    <3> QED BY <3>1, RedirectEnds, RedirectAnswers
  <2> QED BY <2>1, <2>2
<1>3. \/ u.requests = t.requests
      \/ u = RequestStarted(t, e, pause, from)
  <2>1. \A method \in {"fulfill", "continue"} : Send(t, method, pause).requests = t.requests
    <3> HIDE DEF t
    <3> QED BY <1>2 DEF Send, Manager
  <2>2. \/ u = Send(t, "fulfill", pause) \/ u = Send(t, "continue", pause) \/ u = t
        \/ u = RequestStarted(t, e, pause, from)
    BY DEF OnRequest, Predecessor
  <2> HIDE DEF t, u
  <2> QED BY <2>1, <2>2
<1> HIDE DEF t, u
<1>4. CASE u.requests = t.requests
  BY <1>2, <1>4 DEF AnswersTake, SameAnswer, Redirected, u, from
<1>5. CASE u = RequestStarted(t, e, pause, from)
  <2> HIDE DEF e, from
  <2>1. (\A k \in Hop \ {e} : SameAnswer(t, u, k)) /\ Fresh(u, e)
    BY <1>1, <1>2, <1>5, RequestStartedAnswers
  <2>2. \A k \in Hop \ {e} : IF k = from THEN Redirected(u, k) ELSE SameAnswer(s, u, k)
    BY <1>2, <2>1 DEF SameAnswer, Redirected
  <2> QED BY <2>1, <2>2 DEF AnswersTake, u, e, from
<1> QED BY <1>3, <1>4, <1>5

LEMMA TakeUpdate ==
  ASSUME NEW s, NEW t, NEW u, NEW e, AnswersTake(s, t, e), u.requests = t.requests
  PROVE  AnswersTake(s, u, e)
BY DEF SameAnswer, AnswersTake, Fresh, Redirected

LEMMA TakesUpdate ==
  ASSUME NEW s, NEW t, NEW u, NEW e, TakesAnswers(s, t, e),
         u.requests = t.requests, u.request = t.request
  PROVE  TakesAnswers(s, u, e)
BY TakeUpdate DEF TakesAnswers, Begins, Skips

LEMMA OnRequestTakesAnswers ==
  ASSUME NEW s \in Manager, Listed(s), NEW event \in Sent, NEW pause \in Pause \cup {None}
  PROVE  LET t == OnRequest(s, event, pause) IN t \in Manager /\ TakesAnswers(s, t, event.hop)
BY OnRequestTakes, OnRequestAnswers DEF Takes, TakesAnswers

LEMMA OnRequestWillBeSentAnswers ==
  ASSUME NEW s \in Manager, Listed(s), NEW event \in Sent
  PROVE  LET t == OnRequestWillBeSent(s, event)
         IN (SameAnswers(s, t) /\ SameReports(s, t)) \/ TakesAnswers(s, t, event.hop)
<1> DEFINE t == OnRequestWillBeSent(s, event)
           u == [s EXCEPT !.sent = event]
           w == OnRequest(s, event, s.paused)
           x == [w EXCEPT !.paused = None]
<1>1. s.paused \in Pause \cup {None} /\ None \in Pause \cup {None}
  BY DEF Manager
<1>2. t \in {OnRequest(s, event, None), u, x}
  BY DEF OnRequestWillBeSent
<1>3. u.requests = s.requests /\ u.request = s.request
  BY DEF Manager
<1>4. TakesAnswers(s, w, event.hop) /\ TakesAnswers(s, OnRequest(s, event, None), event.hop)
  BY <1>1, OnRequestTakesAnswers
<1>5. x.requests = w.requests /\ x.request = w.request
  <2>1. w \in Manager => /\ [w EXCEPT !.paused = None].requests = w.requests
                         /\ [w EXCEPT !.paused = None].request = w.request
    <3> HIDE DEF w
    <3> QED BY DEF Manager
  <2>2. w \in Manager
    BY <1>1, OnRequestTakesAnswers
  <2> QED BY <2>1, <2>2
<1> HIDE DEF t, u, w, x
<1> QED BY <1>2, <1>3, <1>4, <1>5, SameRequestsSameAnswers, TakesUpdate DEF SameReports, t

LEMMA OnRequestPausedAnswers ==
  ASSUME NEW s \in Manager, Listed(s), NEW pause \in Pause
  PROVE  LET t == OnRequestPaused(s, pause)
         IN \/ SameAnswers(s, t) /\ SameReports(s, t)
            \/ s.sent # None /\ TakesAnswers(s, t, s.sent.hop)
<1> DEFINE t == OnRequestPaused(s, pause)
           u == Send(s, "continue", pause)
           v == [s EXCEPT !.paused = pause]
           w == OnRequest(s, s.sent, pause)
           x == [w EXCEPT !.sent = None]
<1>1. t \in {u, v} \/ (s.sent # None /\ t = x)
  BY DEF OnRequestPaused
<1>2. /\ u.requests = s.requests /\ u.request = s.request
      /\ v.requests = s.requests /\ v.request = s.request
  BY DEF Manager, Send
<1>3. ASSUME s.sent # None PROVE TakesAnswers(s, x, s.sent.hop)
  <2>1. s.sent \in Sent
    BY <1>3 DEF Manager
  <2>2. TakesAnswers(s, w, s.sent.hop) /\ w \in Manager
    BY <2>1, OnRequestTakesAnswers
  <2> HIDE DEF w
  <2>3. x.requests = w.requests /\ x.request = w.request
    BY <2>2 DEF Manager
  <2> QED BY <2>2, <2>3, TakesUpdate
<1> HIDE DEF t, u, v, x
<1> QED BY <1>1, <1>2, <1>3, SameRequestsSameAnswers DEF SameReports, t

(* What waits begins, with no answer yet.                                   *)
StopAnswers(s, t) ==
  \A k \in Hop : \/ SameAnswer(s, t, k)
                 \/ s.request = None /\ Kept(s, k) /\ Fresh(t, k)

LEMMA StopWaitingAnswers ==
  ASSUME NEW s \in Manager
  PROVE  StopAnswers(s, StopWaiting(s))
<1> DEFINE t == StopWaiting(s)
           u == [s EXCEPT !.sent = None]
<1>1. CASE s.request # None \/ s.sent = None
  BY <1>1 DEF StopWaiting, StopAnswers, SameAnswer
<1>2. CASE s.request = None /\ s.sent # None
  <2>1. t = OnRequest(u, s.sent, None) /\ s.sent \in Sent
    BY <1>2 DEF StopWaiting, Manager
  <2>2. u \in Manager /\ u.requests = s.requests /\ u.request = None
    BY <1>2 DEF Manager
  <2> HIDE DEF u
  <2>3. AnswersTake(u, t, s.sent.hop)
    BY <2>1, <2>2, OnRequestAnswers
  <2>4. Predecessor(u, s.sent.hop) = None /\ None \notin Hop
    BY <2>2, NoneAssumption DEF Predecessor, Hop
  <2>5. s.sent.hop \in Hop
    BY <2>1 DEF Sent
  <2> HIDE DEF t
  <2> QED BY <1>2, <2>2, <2>3, <2>4, <2>5 DEF AnswersTake, StopAnswers, SameAnswer, Fresh, Kept, t
<1> QED BY <1>1, <1>2

LEMMA OnResponseReceivedAnswers ==
  ASSUME NEW s \in Manager, Listed(s), NEW h, NEW hasExtraInfo, NEW empty \in BOOLEAN
  PROVE  LET t == OnResponseReceived(s, h, hasExtraInfo, empty)
         IN \A k \in Hop :
              IF k = t.request THEN t.requests[k].response # "none" /\ t.requests[k].empty = empty
              ELSE SameAnswer(s, t, k) \/ (s.request = None /\ Kept(s, k) /\ Fresh(t, k))
<1> DEFINE t == OnResponseReceived(s, h, hasExtraInfo, empty)
           u == IF kind = "viaWorker" THEN StopWaiting(s) ELSE s
           v == CreateResponse(u, u.request, h, hasExtraInfo, empty)
<1>1. StopAnswers(s, u) /\ u \in Manager
  <2>1. StopAnswers(s, StopWaiting(s)) /\ StopWaiting(s) \in Manager
    BY StopWaitingAnswers, StopWaitingEffect DEF StopsWaiting, Effect
  <2> QED BY <2>1 DEF StopAnswers, SameAnswer
<1>2. t = IF u.request = None THEN u ELSE v
  BY DEF OnResponseReceived
<1> HIDE DEF u
<1>3. CASE u.request = None
  <2>1. None \notin Hop
    BY NoneAssumption DEF Hop
  <2> HIDE DEF t
  <2> QED BY <1>1, <1>2, <1>3, <2>1 DEF StopAnswers, t
<1>4. CASE u.request # None
  <2>1. u.request \in Hop
    BY <1>1, <1>4 DEF Manager
  <2>2. /\ SameButAnswers(u, v) /\ \A k \in Hop \ {u.request} : SameAnswer(u, v, k)
        /\ v.requests[u.request].response # "none" /\ v.requests[u.request].empty = empty
    BY <1>1, <2>1, CreateResponseKeeps
  <2>3. t = v /\ t.request = u.request
    BY <1>2, <1>4, <2>2 DEF SameButAnswers
  <2> HIDE DEF t, v
  <2> QED BY <1>1, <2>2, <2>3 DEF StopAnswers, SameAnswer, Fresh, t
<1> QED BY <1>3, <1>4

LEMMA OnLoadingFinishedAnswers ==
  ASSUME NEW s \in Manager
  PROVE  LET t == OnLoadingFinished(s)
         IN \A k \in Hop : IF k = s.request
                           THEN /\ t.requests[k].response = s.requests[k].response
                                /\ t.requests[k].empty = s.requests[k].empty
                                /\ ~t.requests[k].failed
                           ELSE SameAnswer(s, t, k)
<1> DEFINE t == OnLoadingFinished(s)
           u == LoadingOver(s)
           v == ReportOver(u, u.request, FALSE)
<1>1. u \in Manager /\ SameAnswers(s, u) /\ u.request = s.request
  BY LoadingOverKeeps DEF Untouched, SameButAnswers, SameAnswers
<1>2. t = IF u.request = None THEN u ELSE v
  BY DEF OnLoadingFinished
<1> HIDE DEF u
<1>3. CASE u.request = None
  <2>1. None \notin Hop
    BY NoneAssumption DEF Hop
  <2> HIDE DEF t
  <2> QED BY <1>1, <1>2, <1>3, <2>1 DEF SameAnswers, t
<1>4. CASE u.request # None
  <2>1. u.request \in Hop
    BY <1>1, <1>4 DEF Manager
  <2>2. /\ \A k \in Hop \ {u.request} : SameAnswer(u, v, k)
        /\ v.requests[u.request].response = u.requests[u.request].response
        /\ v.requests[u.request].empty = u.requests[u.request].empty
        /\ v.requests[u.request].failed = FALSE
    BY <1>1, <2>1, ReportOverAnswers
  <2> HIDE DEF t, v
  <2> QED BY <1>1, <1>2, <1>4, <2>2 DEF SameAnswers, SameAnswer, t
<1> QED BY <1>3, <1>4

(* Only what ends with the failure is touched; it failed unless it was       *)
(* answered with 204.                                                       *)
KeepsResponse(s, t, k) == /\ t.requests[k].response = s.requests[k].response
                          /\ t.requests[k].empty = s.requests[k].empty
FailsAt(t, k) == t.requests[k].failed = (t.requests[k].response = "none" \/ ~t.requests[k].empty)
LoadFails(s, t) ==
  \A k \in Hop :
    /\ SameAnswer(s, t, k) \/ k = s.request \/ (s.request = None /\ Kept(s, k))
    /\ KeepsResponse(s, t, k) \/ (k # s.request /\ t.requests[k].response = "none")
    /\ t.requests[k].report = "over" /\ s.requests[k].report # "over" => FailsAt(t, k)

LEMMA FailureEnds ==
  ASSUME NEW u \in Manager, NEW h \in Hop
  PROVE  LET t == IF u.requests[h].response = "none"
                  THEN ReportOver(SetRawRequest(u, h, "provisional"), h, TRUE)
                  ELSE ReportOver(u, h, ~u.requests[h].empty)
         IN /\ \A k \in Hop \ {h} : SameAnswer(u, t, k) /\ t.requests[k].report = u.requests[k].report
            /\ KeepsResponse(u, t, h) /\ FailsAt(t, h)
<1> DEFINE x == SetRawRequest(u, h, "provisional")
           t == IF u.requests[h].response = "none" THEN ReportOver(x, h, TRUE)
                ELSE ReportOver(u, h, ~u.requests[h].empty)
<1> SUFFICES /\ \A k \in Hop \ {h} : SameAnswer(u, t, k) /\ t.requests[k].report = u.requests[k].report
             /\ KeepsResponse(u, t, h) /\ FailsAt(t, h)
  OBVIOUS
<1>1. x \in Manager /\ SameAnswers(u, x) /\ \A k \in Hop : x.requests[k].report = u.requests[k].report
  BY SetRawRequestKeeps DEF Untouched, SameButAnswers, SameAnswers
<1>2. u.requests[h].empty \in BOOLEAN
  BY DEF Manager, Request
<1> HIDE DEF x
<1>3. CASE u.requests[h].response = "none"
  <2> DEFINE y == ReportOver(x, h, TRUE)
  <2>1. /\ \A k \in Hop \ {h} : SameAnswer(x, y, k)
        /\ y.requests[h].response = x.requests[h].response
        /\ y.requests[h].empty = x.requests[h].empty
        /\ y.requests[h].failed = TRUE
    BY <1>1, ReportOverAnswers
  <2>2. Ends(x, y, h)
    BY <1>1, ReportOverEnds
  <2>3. t = y
    BY <1>3
  <2> HIDE DEF t, y
  <2>4. \A k \in Hop \ {h} : SameAnswer(u, t, k) /\ t.requests[k].report = u.requests[k].report
    BY <1>1, <2>1, <2>2, <2>3 DEF SameAnswers, SameAnswer, Ends
  <2>5. KeepsResponse(u, t, h) /\ t.requests[h].response = "none" /\ t.requests[h].failed = TRUE
    BY <1>1, <1>3, <2>1, <2>3 DEF SameAnswers, SameAnswer, KeepsResponse
  <2>6. FailsAt(t, h)
    BY <2>5 DEF FailsAt
  <2> QED BY <2>4, <2>5, <2>6
<1>4. CASE u.requests[h].response # "none"
  <2> DEFINE failed == ~u.requests[h].empty
             y == ReportOver(u, h, failed)
  <2>0. failed \in BOOLEAN
    OBVIOUS
  <2>3. t = y
    BY <1>4
  <2>4. failed = ~u.requests[h].empty
    OBVIOUS
  <2> HIDE DEF failed
  <2>1. /\ \A k \in Hop \ {h} : SameAnswer(u, y, k)
        /\ y.requests[h].response = u.requests[h].response
        /\ y.requests[h].empty = u.requests[h].empty
        /\ y.requests[h].failed = failed
    BY <2>0, ReportOverAnswers
  <2>2. Ends(u, y, h)
    BY <2>0, ReportOverEnds
  <2> HIDE DEF t, y
  <2>5. \A k \in Hop \ {h} : SameAnswer(u, t, k) /\ t.requests[k].report = u.requests[k].report
    BY <2>1, <2>2, <2>3 DEF SameAnswer, Ends
  <2>6. KeepsResponse(u, t, h)
    BY <2>1, <2>3 DEF KeepsResponse
  <2>7. t.requests[h].failed = ~t.requests[h].empty /\ t.requests[h].response # "none"
    BY <1>2, <1>4, <2>1, <2>3, <2>4
  <2>8. FailsAt(t, h)
    BY <1>2, <2>1, <2>3, <2>7 DEF FailsAt
  <2> QED BY <2>5, <2>6, <2>8
<1> QED BY <1>3, <1>4

LEMMA OnLoadingFailedAnswers ==
  ASSUME NEW s \in Manager, Listed(s)
  PROVE  LoadFails(s, OnLoadingFailed(s))
<1> DEFINE t == OnLoadingFailed(s)
           w == LoadingOver(s)
           u == StopWaiting(w)
           h == u.request
<1>1. /\ w \in Manager /\ SameAnswers(s, w) /\ Listed(w) /\ w.request = s.request /\ w.sent = s.sent
      /\ \A k \in Hop : w.requests[k].report = s.requests[k].report
  BY LoadingOverKeeps, UntouchedEffect DEF Untouched, SameButAnswers, SameAnswers, Effect
<1> HIDE DEF w
<1>2. StopAnswers(w, u) /\ StopsWaiting(w, u) /\ u \in Manager
  BY <1>1, StopWaitingAnswers, StopWaitingEffect DEF StopsWaiting, Effect
<1> HIDE DEF u
<1>3. \A k \in Hop : SameAnswer(s, u, k) \/ (s.request = None /\ Kept(s, k) /\ Fresh(u, k))
  BY <1>1, <1>2 DEF StopAnswers, SameAnswers, SameAnswer, Kept
<1>4. /\ h = s.request \/ (s.request = None /\ s.sent # None /\ h = s.sent.hop)
      /\ \A k \in Hop : u.requests[k].report = "over" => s.requests[k].report = "over"
  BY <1>1, <1>2, NoneAssumption DEF StopsWaiting, SameReports, Begins, Predecessor, Hop
<1>5. CASE h = None
  <2>1. t = u
    BY <1>5 DEF OnLoadingFailed, u, w
  <2> HIDE DEF t
  <2>2. \A k \in Hop : /\ SameAnswer(s, t, k) \/ (s.request = None /\ Kept(s, k))
                       /\ KeepsResponse(s, t, k) \/ (k # s.request /\ t.requests[k].response = "none")
    BY <1>3, <2>1, NoneAssumption DEF SameAnswer, KeepsResponse, Fresh, Hop
  <2>3. \A k \in Hop : t.requests[k].report = "over" => s.requests[k].report = "over"
    BY <1>4, <2>1
  <2> QED BY <2>2, <2>3 DEF LoadFails, t
<1>6. CASE h # None
  <2>1. h \in Hop
    BY <1>2, <1>6 DEF Manager
  <2>2. t = IF u.requests[h].response = "none"
            THEN ReportOver(SetRawRequest(u, h, "provisional"), h, TRUE)
            ELSE ReportOver(u, h, ~u.requests[h].empty)
    BY <1>6 DEF OnLoadingFailed, u, w
  <2> HIDE DEF t, h
  <2>3. /\ \A k \in Hop \ {h} : SameAnswer(u, t, k) /\ t.requests[k].report = u.requests[k].report
        /\ KeepsResponse(u, t, h) /\ FailsAt(t, h)
    BY <1>2, <2>1, <2>2, FailureEnds
  <2>4. h = s.request \/ (s.request = None /\ Kept(s, h))
    BY <1>4 DEF Kept
  <2>5. ASSUME NEW k \in Hop, k # h
        PROVE  /\ SameAnswer(s, t, k) \/ k = s.request \/ (s.request = None /\ Kept(s, k))
               /\ KeepsResponse(s, t, k) \/ (k # s.request /\ t.requests[k].response = "none")
               /\ t.requests[k].report = "over" => s.requests[k].report = "over"
    <3>1. SameAnswer(u, t, k) /\ t.requests[k].report = u.requests[k].report
      BY <2>3, <2>5
    <3>2. None # k
      BY NoneAssumption DEF Hop
    <3> QED BY <1>3, <1>4, <3>1, <3>2 DEF SameAnswer, KeepsResponse, Fresh
  <2>6. KeepsResponse(s, t, h) \/ (h # s.request /\ t.requests[h].response = "none")
    <3>1. None # h
      BY <1>6
    <3>2. KeepsResponse(s, u, h) \/ (h # s.request /\ u.requests[h].response = "none")
      BY <1>3, <2>1, <3>1 DEF SameAnswer, KeepsResponse, Fresh
    <3> QED BY <2>3, <3>2 DEF KeepsResponse
  <2> QED BY <2>1, <2>3, <2>4, <2>5, <2>6 DEF LoadFails, t
<1> QED BY <1>5, <1>6

(***************************************************************************)
(* The steps of the manager, told by what becomes of the answers.           *)
(***************************************************************************)
(* Only a redirect answers, and only it ends a request.                     *)
AnswersGoOn ==
  \A k \in Hop :
    /\ \/ SameAnswer(m, m', k)
       \/ Unstarted(k) /\ (Fresh(m', k) \/ k = m.request)
       \/ k = m.request /\ Redirected(m', k) /\ m'.requests[k].report = "over"
    /\ m'.requests[k].report = "over" /\ m.requests[k].report # "over" =>
         Redirected(m', k) \/ Unstarted(k)

AnswersCome ==
  \A k \in Hop :
    IF k = m'.request
    THEN /\ m'.requests[k].response # "none"
         /\ m'.requests[k].empty = Head(network).empty
    ELSE SameAnswer(m, m', k) \/ (Kept(m, k) /\ Fresh(m', k))

AnswersEnd ==
  \A k \in Hop : IF k = m.request
                 THEN KeepsResponse(m, m', k) /\ ~m'.requests[k].failed
                 ELSE SameAnswer(m, m', k)

AnswersStep ==
  \/ AnswersGoOn /\ \A name \in {"responseReceived", "loadingFinished", "loadingFailed"} : ~TakesEvent(name)
  \/ AnswersCome /\ TakesEvent("responseReceived")
  \/ AnswersEnd /\ TakesEvent("loadingFinished")
  \/ LoadFails(m, m') /\ TakesEvent("loadingFailed")

LEMMA HandledRequests ==
  ASSUME NEW s \in Manager, Handled(s)
  PROVE  m'.requests = s.requests /\ m'.request = s.request
BY DEF Handled, Manager

LEMMA TakesOne ==
  ASSUME Typed, NEW name, TakesEvent(name)
  PROVE  network' # network /\ \A other : TakesEvent(other) => other = name
<1>1. network \in Seq(NetworkEvent) /\ network # <<>> /\ network' = Tail(network)
  BY TypedParts DEF TakesEvent
<1>2. Len(network') = Len(network) - 1 /\ Len(network) \in Nat
  BY <1>1, TailItems
<1>3. network' # network
  BY <1>2
<1>4. ASSUME NEW other, TakesEvent(other) PROVE other = name
  BY <1>4 DEF TakesEvent
<1> QED BY <1>3, <1>4

LEMMA SameGoesOn ==
  ASSUME SameAnswers(m, m'), SameReports(m, m') PROVE AnswersGoOn
BY DEF SameAnswers, SameReports, AnswersGoOn

LEMMA TakeGoesOn ==
  ASSUME NEW e \in Hop, Unstarted(e), TakesAnswers(m, m', e)
  PROVE  AnswersGoOn
<1>1. \A k \in Hop : k = Predecessor(m, e) => k = m.request
  BY NoneAssumption DEF Predecessor, Hop
<1>2. \A k \in Hop : m'.requests[k].report = "over" /\ m.requests[k].report # "over" /\ k # e
                       => k = Predecessor(m, e)
  BY DEF TakesAnswers, Begins, Skips
<1>3. \A k \in Hop : k # e /\ k = Predecessor(m, e) => m'.requests[k].report = "over"
  BY DEF TakesAnswers, Begins, Skips
<1> QED BY <1>1, <1>2, <1>3 DEF TakesAnswers, AnswersTake, AnswersGoOn

LEMMA HearsAnswers ==
  ASSUME Typed, ReceiveRequestWillBeSent
  PROVE  AnswersGoOn
<1> DEFINE h == Head(network).hop
           event == [hop |-> h, redirected |-> Head(network).hasExtraInfo]
           t == OnRequestWillBeSent(m, event)
<1>1. m \in Manager /\ Listed(m)
  BY TypedParts DEF ManagerTyped
<1>2. TakesEvent("requestWillBeSent") /\ Handled(t)
  BY DEF ReceiveRequestWillBeSent, NetworkIs, ReceiveNetwork, TakesEvent
<1>3. Hears
  <2>1. ManagerStep
    BY ReceiveRequestWillBeSentStep
  <2> QED BY <1>2, <2>1, TakesOne
          DEF ManagerStep, Bookkeeps, LeavesBe, SeesPause, HearsLate, HearsEnd, TakesEvent
<1>4. h \in Hop /\ Unstarted(h)
  BY <1>3, HeardIsAnnounced DEF Unstarted
<1>5. event \in Sent /\ event.hop = h
  <2>1. network \in Seq(NetworkEvent) /\ network # <<>>
    BY <1>2, TypedParts DEF TakesEvent
  <2>2. Head(network) \in NetworkEvent
    BY <2>1, TailType
  <2> QED BY <2>2 DEF NetworkEvent, Sent
<1> HIDE DEF event
<1>6. (SameAnswers(m, t) /\ SameReports(m, t)) \/ TakesAnswers(m, t, h)
  BY <1>1, <1>5, OnRequestWillBeSentAnswers
<1>7. t \in Manager
  BY <1>1, <1>5, OnRequestWillBeSentEffect DEF Effect
<1> HIDE DEF t
<1>8. m'.requests = t.requests /\ m'.request = t.request
  BY <1>2, <1>7, HandledRequests
<1>9. (SameAnswers(m, m') /\ SameReports(m, m')) \/ TakesAnswers(m, m', h)
  BY <1>6, <1>8, TakesUpdate DEF SameAnswers, SameAnswer, SameReports
<1> HIDE DEF h
<1> QED BY <1>4, <1>9, SameGoesOn, TakeGoesOn

LEMMA SeesPauseAnswers ==
  ASSUME Typed, ReceiveFetch
  PROVE  AnswersGoOn
<1> DEFINE pause == Head(fetch).pause
           t == OnRequestPaused(m, pause)
           u == OnAuthRequired(m, pause)
<1>1. m \in Manager /\ Listed(m)
  BY TypedParts DEF ManagerTyped
<1>2. /\ fetch # <<>> /\ fetch' = Tail(fetch) /\ UNCHANGED network
      /\ Handled(IF Head(fetch).event = "paused" THEN t ELSE u)
  BY DEF ReceiveFetch
<1>3. Head(fetch) \in FetchEvent
  BY <1>2, TypedParts, TailType
<1>4. pause \in Pause
  BY <1>3 DEF FetchEvent
<1>5. CASE Head(fetch).event = "paused"
  <2>1. Handled(t)
    BY <1>2, <1>5
  <2> HIDE DEF pause
  <2>2. \/ SameAnswers(m, t) /\ SameReports(m, t)
        \/ m.sent # None /\ TakesAnswers(m, t, m.sent.hop)
    BY <1>1, <1>4, OnRequestPausedAnswers
  <2>3. t \in Manager
    BY <1>1, <1>4, OnRequestPausedEffect DEF Effect
  <2> HIDE DEF t
  <2>4. m'.requests = t.requests /\ m'.request = t.request
    BY <2>1, <2>3, HandledRequests
  <2>5. \/ SameAnswers(m, m') /\ SameReports(m, m')
        \/ m.sent # None /\ TakesAnswers(m, m', m.sent.hop)
    BY <2>2, <2>4, TakesUpdate DEF SameAnswers, SameAnswer, SameReports
  <2>6. m.sent # None => m.sent.hop \in Hop /\ Unstarted(m.sent.hop)
    BY SentHop DEF Unstarted
  <2> QED BY <2>5, <2>6, SameGoesOn, TakeGoesOn
<1>6. CASE Head(fetch).event # "paused"
  <2>1. Handled(u)
    BY <1>2, <1>6
  <2> HIDE DEF pause
  <2>2. u \in Manager /\ SameReports(m, u)
    BY <1>1, <1>4, OnAuthRequiredEffect DEF Effect
  <2>3. u.requests = m.requests
    BY <1>1 DEF OnAuthRequired, Send, Manager
  <2> HIDE DEF u
  <2>4. SameAnswers(m, m') /\ SameReports(m, m')
    BY <2>1, <2>2, <2>3, HandledRequests DEF SameAnswers, SameAnswer, SameReports
  <2> QED BY <2>4, SameGoesOn
<1> QED BY <1>5, <1>6

LEMMA ChangeAnswers ==
  ASSUME Typed, ChangeInterception
  PROVE  AnswersGoOn
<1>1. m'.requests = m.requests /\ m'.request = m.request
  BY TypedParts DEF ManagerTyped, ChangeInterception, AddRequestInterceptor, RemoveRequestInterceptor,
       SetRequestInterception, Authenticate, Handled, UpdateProtocolRequestInterception, Send, Manager
<1>2. SameAnswers(m, m') /\ SameReports(m, m')
  BY <1>1 DEF SameAnswers, SameAnswer, SameReports
<1> QED BY <1>2, SameGoesOn

LEMMA RouteAnswers ==
  ASSUME Typed, AnswerAnyRoute
  PROVE  AnswersGoOn
<1>1. PICK h \in Hop, state \in {"continued", "fulfilled", "aborted"},
          method \in {"continue", "fulfill", "fail"} : AnswerRoute(h, state, method)
  BY DEF AnswerAnyRoute, RouteContinue, RouteFulfill, RouteAbort
<1> DEFINE s == [m EXCEPT !.requests[h].route = state]
<1>2. m \in Manager /\ m.requests \in [Hop -> Request] /\ m.requests[h] \in Request
  BY TypedParts DEF ManagerTyped, Manager
<1>3. /\ s.request = m.request
      /\ s.requests = [m.requests EXCEPT ![h] = [m.requests[h] EXCEPT !.route = state]]
  BY <1>2 DEF Manager
<1>4. SameAnswers(m, s) /\ SameReports(m, s)
  <2>1. \A k \in Hop : s.requests[k] = IF k = h THEN [m.requests[h] EXCEPT !.route = state] ELSE m.requests[k]
    BY <1>2, <1>3
  <2> QED BY <1>2, <1>3, <2>1 DEF SameAnswers, SameAnswer, SameReports, Request
<1>5. m'.requests = s.requests /\ m'.request = s.request
  <2>1. Handled(Send(s, method, m.requests[h].interception))
    BY <1>1 DEF AnswerRoute
  <2>2. \A t : [Send(s, method, t) EXCEPT !.out = <<>>].requests = s.requests
              /\ [Send(s, method, t) EXCEPT !.out = <<>>].request = s.request
    BY <1>2 DEF Send, Manager
  <2> QED BY <2>1, <2>2 DEF Handled
<1> HIDE DEF s
<1>6. SameAnswers(m, m') /\ SameReports(m, m')
  BY <1>4, <1>5 DEF SameAnswers, SameAnswer, SameReports
<1> QED BY <1>6, SameGoesOn

LEMMA UntouchedAnswers ==
  ASSUME Typed, NEW s \in Manager, Untouched(m, s), Handled(s)
  PROVE  AnswersGoOn
<1>1. m'.requests = s.requests /\ m'.request = s.request
  BY HandledRequests
<1>2. SameAnswers(m, m') /\ SameReports(m, m')
  BY <1>1 DEF Untouched, SameButAnswers, SameAnswers, SameAnswer, SameReports
<1> QED BY <1>2, SameGoesOn

LEMMA CachedAnswers ==
  ASSUME Typed, ReceiveServedFromCache
  PROVE  AnswersGoOn
BY TypedParts, ServedFromCacheKeeps, UntouchedAnswers
   DEF ManagerTyped, ReceiveServedFromCache, ReceiveNetwork

LEMMA ExtraAnswers ==
  ASSUME Typed, ReceiveExtra
  PROVE  AnswersGoOn
<1> DEFINE h == Head(extra).hop
           s == IF Head(extra).event = "sent" THEN RequestWillBeSentExtraInfo(m, h)
                ELSE ResponseReceivedExtraInfo(m, h)
<1>1. Handled(s) /\ extra # <<>> /\ m \in Manager
  BY TypedParts DEF ReceiveExtra, ManagerTyped
<1>2. Head(extra) \in ExtraEvent
  BY <1>1, TypedParts, TailType
<1>3. h \in Hop
  BY <1>2 DEF ExtraEvent
<1>4. s \in Manager /\ Untouched(m, s)
  <2> HIDE DEF h
  <2> QED BY <1>1, <1>3, ExtraInfoKeeps
<1> HIDE DEF s
<1> QED BY <1>1, <1>4, UntouchedAnswers

LEMMA ResponseAnswers ==
  ASSUME Typed, ReceiveResponse
  PROVE  AnswersCome /\ TakesEvent("responseReceived")
<1> DEFINE e == Head(network)
           s == OnResponseReceived(m, e.hop, e.hasExtraInfo, e.empty)
<1>1. m \in Manager /\ Listed(m)
  BY TypedParts DEF ManagerTyped
<1>2. TakesEvent("responseReceived") /\ Handled(s)
  BY DEF ReceiveResponse, NetworkIs, ReceiveNetwork, TakesEvent
<1>3. e.empty \in BOOLEAN
  <2>1. network \in Seq(NetworkEvent) /\ network # <<>>
    BY <1>2, TypedParts DEF TakesEvent
  <2>2. e \in NetworkEvent
    BY <2>1, TailType
  <2> QED BY <2>2 DEF NetworkEvent
<1>4. s \in Manager
  BY <1>1, <1>3, OnResponseReceivedEffect DEF Effect
<1>5. \A k \in Hop :
        IF k = s.request THEN s.requests[k].response # "none" /\ s.requests[k].empty = e.empty
        ELSE SameAnswer(m, s, k) \/ (m.request = None /\ Kept(m, k) /\ Fresh(s, k))
  <2> HIDE DEF e
  <2> QED BY <1>1, <1>3, OnResponseReceivedAnswers
<1> HIDE DEF s
<1>6. m'.requests = s.requests /\ m'.request = s.request
  BY <1>2, <1>4, HandledRequests
<1> QED BY <1>2, <1>5, <1>6 DEF AnswersCome, SameAnswer, Fresh

LEMMA FinishedAnswers ==
  ASSUME Typed, ReceiveLoadingFinished
  PROVE  AnswersEnd /\ TakesEvent("loadingFinished")
<1> DEFINE s == OnLoadingFinished(m)
<1>1. m \in Manager /\ Listed(m)
  BY TypedParts DEF ManagerTyped
<1>2. TakesEvent("loadingFinished") /\ Handled(s)
  BY DEF ReceiveLoadingFinished, NetworkIs, ReceiveNetwork, TakesEvent
<1>3. s \in Manager
  BY <1>1, OnLoadingFinishedEffect DEF Effect
<1>4. \A k \in Hop : IF k = m.request
                     THEN /\ s.requests[k].response = m.requests[k].response
                          /\ s.requests[k].empty = m.requests[k].empty
                          /\ ~s.requests[k].failed
                     ELSE SameAnswer(m, s, k)
  BY <1>1, OnLoadingFinishedAnswers
<1> HIDE DEF s
<1>5. m'.requests = s.requests /\ m'.request = s.request
  BY <1>2, <1>3, HandledRequests
<1> QED BY <1>2, <1>4, <1>5 DEF AnswersEnd, SameAnswer, KeepsResponse

LEMMA FailedAnswers ==
  ASSUME Typed, ReceiveLoadingFailed
  PROVE  LoadFails(m, m') /\ TakesEvent("loadingFailed")
<1> DEFINE s == OnLoadingFailed(m)
<1>1. m \in Manager /\ Listed(m)
  BY TypedParts DEF ManagerTyped
<1>2. TakesEvent("loadingFailed") /\ Handled(s)
  BY DEF ReceiveLoadingFailed, NetworkIs, ReceiveNetwork, TakesEvent
<1>3. s \in Manager
  BY <1>1, OnLoadingFailedEffect DEF Effect
<1>4. LoadFails(m, s)
  BY <1>1, OnLoadingFailedAnswers
<1> HIDE DEF s
<1>5. m'.requests = s.requests /\ m'.request = s.request
  BY <1>2, <1>3, HandledRequests
<1> QED BY <1>2, <1>4, <1>5 DEF LoadFails, SameAnswer, KeepsResponse, FailsAt

LEMMA HeadIsOne ==
  ASSUME Typed, NEW name, NetworkIs(name), network' = Tail(network)
  PROVE  \A other : TakesEvent(other) => other = name
BY TakesOne DEF NetworkIs, TakesEvent

LEMMA GoesOnSeen ==
  ASSUME AnswersGoOn,
         \A name \in {"responseReceived", "loadingFinished", "loadingFailed"} : ~TakesEvent(name)
  PROVE  AnswersStep
BY DEF AnswersStep

LEMMA NetworkKept ==
  ASSUME Typed, UNCHANGED network, NEW name
  PROVE  ~TakesEvent(name)
BY TakesOne

LEMMA ReceiveAnswers ==
  ASSUME Typed, Receive
  PROVE  AnswersStep
<1>1. CASE ReceiveRequestWillBeSent
  <2>1. NetworkIs("requestWillBeSent") /\ network' = Tail(network)
    BY <1>1 DEF ReceiveRequestWillBeSent, ReceiveNetwork
  <2> QED BY <1>1, <2>1, HeadIsOne, HearsAnswers, GoesOnSeen
<1>2. CASE ReceiveServedFromCache
  <2>1. NetworkIs("requestServedFromCache") /\ network' = Tail(network)
    BY <1>2 DEF ReceiveServedFromCache, ReceiveNetwork
  <2> QED BY <1>2, <2>1, HeadIsOne, CachedAnswers, GoesOnSeen
<1>3. CASE ReceiveResponse \/ ReceiveLoadingFinished \/ ReceiveLoadingFailed
  BY <1>3, ResponseAnswers, FinishedAnswers, FailedAnswers DEF AnswersStep
<1> QED BY <1>1, <1>2, <1>3 DEF Receive

LEMMA OtherAnswers ==
  ASSUME Typed, \/ ChangeInterception \/ AnswerAnyRoute \/ DetachFrame
                \/ ReceiveExtra \/ ReceiveFetch \/ UNCHANGED vars
  PROVE  AnswersStep
<1>1. UNCHANGED network
  BY DEF ChangeInterception, AddRequestInterceptor, RemoveRequestInterceptor,
         SetRequestInterception, Authenticate, AnswerAnyRoute, RouteContinue, RouteFulfill,
         RouteAbort, AnswerRoute, DetachFrame, ReceiveExtra, ReceiveFetch, vars, channels
<1>2. CASE DetachFrame \/ UNCHANGED vars
  <2>1. UNCHANGED m
    BY <1>2 DEF DetachFrame, vars
  <2>2. SameAnswers(m, m') /\ SameReports(m, m')
    BY <2>1 DEF SameAnswers, SameAnswer, SameReports
  <2> QED BY <1>1, <2>2, NetworkKept, SameGoesOn, GoesOnSeen
<1>3. CASE ChangeInterception \/ AnswerAnyRoute \/ ReceiveExtra \/ ReceiveFetch
  BY <1>1, <1>3, NetworkKept, ChangeAnswers, RouteAnswers, ExtraAnswers, SeesPauseAnswers,
     GoesOnSeen
<1> QED BY <1>2, <1>3

(***************************************************************************)
(* What becomes of a load.                                                 *)
(***************************************************************************)
FlagsOK ==
  /\ browser.answered => browser.stage \in {"answered", "over"} /\ ~browser.cancelled
  /\ browser.empty => browser.answered
  /\ browser.cancelled => browser.failed
  /\ browser.stage # "over" => ~browser.failed
  /\ browser.stage = "over" /\ ~browser.cancelled => browser.pausing[browser.hop] # "undecided"

(* The steps of the browser, told by what becomes of the load.               *)
LoadGoesOn ==
  /\ browser'.answered = browser.answered /\ browser'.empty = browser.empty
  /\ browser'.failed = browser.failed /\ browser'.cancelled = browser.cancelled
  /\ browser.stage \in {"answered", "over"} => browser'.stage = browser.stage
  /\ browser'.stage = "over" => browser.stage = "over"
  /\ \/ network' = network
     \/ /\ browser.stage \in {"none", "sent", "fulfilled"}
        /\ \E e \in NetworkEvent : e.event = "requestWillBeSent" /\ Appends(e)

LoadIsAnswered ==
  /\ browser.stage \in {"sent", "refused", "fulfilled"} /\ browser'.stage = "answered"
  /\ browser'.answered /\ browser'.hop = browser.hop
  /\ browser'.failed = browser.failed /\ browser'.cancelled = browser.cancelled
  /\ \E e \in NetworkEvent :
       /\ e.event = "responseReceived" /\ e.hop = browser.hop /\ e.empty = browser'.empty
       /\ \/ Appends(e)
          \/ \E c \in NetworkEvent :
               /\ c.event = "requestServedFromCache" /\ kind # "foreign"
               /\ network' = Append(Append(network, c), e)

LoadIsOver ==
  /\ browser.stage \notin {"none", "over"} /\ browser'.stage = "over" /\ SamePauses
  /\ browser'.answered = browser.answered /\ browser'.empty = browser.empty
  /\ \E e \in NetworkEvent :
       e.event = (IF browser'.failed THEN "loadingFailed" ELSE "loadingFinished") /\ Appends(e)
  /\ browser'.cancelled => browser'.failed /\ browser.stage \in {"begun", "paused", "challenged"}
  /\ ~browser'.cancelled =>
       \/ browser.stage \in {"sent", "refused", "fulfilled", "answered"}
       \/ browser.stage = "paused" /\ LetsGo(commands, browser.id)

LoadStep == LoadGoesOn \/ LoadIsAnswered \/ LoadIsOver

LEMMA LoadBegins ==
  ASSUME Typed, Begin \/ Decide \/ Redirect \/ Restart \/ Challenge
  PROVE  LoadGoesOn
<1>1. browser \in Browser /\ TypeOK
  BY TypedParts DEF Typed
<1>2. /\ browser'.answered = browser.answered /\ browser'.empty = browser.empty
      /\ browser'.failed = browser.failed /\ browser'.cancelled = browser.cancelled
      /\ browser.stage \notin {"answered", "over"} /\ browser'.stage # "over"
  BY <1>1 DEF Begin, Decide, Redirect, Restart, Challenge, Browser
<1>3. CASE Begin \/ Redirect
  <2> DEFINE e == IF Begin THEN Event("requestWillBeSent", 0, FALSE, FALSE)
                  ELSE Event("requestWillBeSent", browser.hop + 1, OverTheNetwork, FALSE)
  <2>1. e \in NetworkEvent /\ e.event = "requestWillBeSent"
    <3>1. CASE Begin
      BY <3>1, BoundAssumption DEF Event, NetworkEvent, Hop
    <3>2. CASE ~Begin
      <4>1. browser.hop + 1 \in Hop
        BY <1>1, <1>3, <3>2, BoundAssumption DEF Redirect, Browser, Hop
      <4> QED BY <3>2, <4>1, OverTheNetworkType DEF Event, NetworkEvent
    <3> QED BY <3>1, <3>2
  <2>2. Emit(<<e>>)
    BY <1>3 DEF Begin, Redirect
  <2>3. browser.stage \in {"none", "sent", "fulfilled"}
    BY <1>3 DEF Begin, Redirect
  <2> HIDE DEF e
  <2> QED BY <1>1, <1>2, <2>1, <2>2, <2>3, EmitAppends DEF LoadGoesOn
<1>4. CASE Decide \/ Restart \/ Challenge
  <2>1. network' = network
    BY <1>4 DEF Decide, Restart, Challenge
  <2> QED BY <1>2, <2>1 DEF LoadGoesOn
<1> QED BY <1>3, <1>4

LEMMA LoadAnswers ==
  ASSUME Typed, FlagsOK, AnswerFromCache \/ \E empty \in BOOLEAN : Answer(empty)
  PROVE  LoadIsAnswered
<1>1. browser \in Browser /\ TypeOK
  BY TypedParts DEF Typed
<1>2. CASE AnswerFromCache
  <2> DEFINE c == Event("requestServedFromCache", 0, FALSE, FALSE)
             e == Event("responseReceived", 0, TRUE, FALSE)
  <2>1. /\ e \in NetworkEvent /\ e.event = "responseReceived" /\ e.hop = 0 /\ e.empty = FALSE
        /\ c \in NetworkEvent /\ c.event = "requestServedFromCache"
    <3>1. 0 \in Hop
      BY BoundAssumption DEF Hop
    <3> QED BY <3>1 DEF Event, NetworkEvent
  <2>2. kind # "foreign" /\ network' = network \o <<c, e>>
    BY <1>2 DEF AnswerFromCache, Emit
  <2> HIDE DEF e, c
  <2>3. network' = Append(Append(network, c), e)
    <3>1. network \in Seq(NetworkEvent)
      BY <1>1 DEF TypeOK
    <3> QED BY <2>1, <2>2, <3>1, ConcatTwo
  <2>4. /\ browser.stage = "sent" /\ browser'.stage = "answered" /\ browser.hop = 0
        /\ browser'.answered /\ browser'.hop = browser.hop /\ browser'.empty = browser.empty
        /\ browser'.failed = browser.failed /\ browser'.cancelled = browser.cancelled
    BY <1>1, <1>2 DEF AnswerFromCache, Browser
  <2>5. browser'.empty = FALSE
    BY <1>1, <2>4 DEF FlagsOK, Browser
  <2> QED BY <2>1, <2>2, <2>3, <2>4, <2>5 DEF LoadIsAnswered
<1>3. ASSUME NEW empty \in BOOLEAN, Answer(empty) PROVE LoadIsAnswered
  <2> DEFINE e == Event("responseReceived", browser.hop, OverTheNetwork, empty)
  <2>1. /\ e \in NetworkEvent /\ e.event = "responseReceived" /\ e.hop = browser.hop
        /\ e.empty = empty
    BY <1>1, OverTheNetworkType DEF Event, NetworkEvent, Browser
  <2>2. Emit(<<e>>)
    BY <1>3 DEF Answer
  <2> HIDE DEF e
  <2>3. Appends(e)
    BY <1>1, <2>1, <2>2, EmitAppends
  <2>4. /\ browser.stage \in {"sent", "refused", "fulfilled"} /\ browser'.stage = "answered"
        /\ browser'.answered /\ browser'.hop = browser.hop /\ browser'.empty = empty
        /\ browser'.failed = browser.failed /\ browser'.cancelled = browser.cancelled
    BY <1>1, <1>3 DEF Answer, Browser
  <2> QED BY <2>1, <2>3, <2>4 DEF LoadIsAnswered
<1> QED BY <1>2, <1>3

LEMMA FailLoadIsOver ==
  ASSUME Typed, NEW cancelled \in BOOLEAN, FailLoad(cancelled),
         browser.stage \notin {"none", "over"},
         IF cancelled THEN browser.stage \in {"begun", "paused", "challenged"}
         ELSE \/ browser.stage \in {"sent", "refused", "fulfilled", "answered"}
              \/ browser.stage = "paused" /\ LetsGo(commands, browser.id)
  PROVE  LoadIsOver
<1> DEFINE e == Event("loadingFailed", browser.hop, FALSE, FALSE)
<1>1. browser \in Browser /\ TypeOK
  BY TypedParts DEF Typed
<1>2. e \in NetworkEvent /\ e.event = "loadingFailed"
  BY <1>1 DEF Event, NetworkEvent, Browser
<1>3. Emit(<<e>>)
  BY DEF FailLoad
<1> HIDE DEF e
<1>4. Appends(e)
  BY <1>1, <1>2, <1>3, EmitAppends
<1>5. /\ browser'.stage = "over" /\ SamePauses
      /\ browser'.answered = browser.answered /\ browser'.empty = browser.empty
      /\ browser'.failed = TRUE /\ browser'.cancelled = cancelled
  BY <1>1 DEF FailLoad, Browser, SamePauses
<1> QED BY <1>2, <1>4, <1>5 DEF LoadIsOver

LEMMA LoadEnds ==
  ASSUME Typed, FlagsOK, Finish \/ Fail \/ Cancel
  PROVE  LoadIsOver
<1>1. browser \in Browser /\ TypeOK
  BY TypedParts DEF Typed
<1>2. CASE Finish
  <2> DEFINE e == Event("loadingFinished", browser.hop, FALSE, FALSE)
  <2>1. e \in NetworkEvent /\ e.event = "loadingFinished"
    BY <1>1 DEF Event, NetworkEvent, Browser
  <2>2. Emit(<<e>>)
    BY <1>2 DEF Finish
  <2> HIDE DEF e
  <2>3. Appends(e)
    BY <1>1, <2>1, <2>2, EmitAppends
  <2>4. /\ browser.stage \in {"answered", "sent"} /\ browser'.stage = "over" /\ SamePauses
        /\ browser'.answered = browser.answered /\ browser'.empty = browser.empty
        /\ browser'.failed = browser.failed /\ browser'.cancelled = browser.cancelled
    BY <1>1, <1>2 DEF Finish, Browser, SamePauses
  <2>5. ~browser'.failed /\ ~browser'.cancelled
    BY <2>4 DEF FlagsOK
  <2> QED BY <2>1, <2>3, <2>4, <2>5 DEF LoadIsOver
<1>3. CASE Fail
  BY <1>3, FailLoadIsOver DEF Fail
<1>4. CASE Cancel
  BY <1>4, FailLoadIsOver DEF Cancel
<1> QED BY <1>2, <1>3, <1>4

LEMMA LoadIsCommanded ==
  ASSUME Typed, ReceiveCommand
  PROVE  LoadStep
<1> DEFINE c == Head(commands)
           enabled == CASE c.method = "enable" -> TRUE
                        [] c.method = "disable" -> FALSE
                        [] OTHER -> browser.enabled
<1>1. browser \in Browser /\ commands \in Seq(Command) /\ commands # <<>>
  BY TypedParts DEF Typed, TypeOK, ReceiveCommand
<1>2. CASE c.method = "fail" /\ Holds(c)
  <2>1. FailLoad(FALSE)
    BY <1>2 DEF ReceiveCommand
  <2>2. browser.stage = "paused" /\ c.pause = browser.id
    BY <1>2 DEF Holds
  <2>3. LetsGo(commands, browser.id)
    <3>1. 1 \in DOMAIN commands /\ commands[1] = c
      BY <1>1 DEF c
    <3> QED BY <1>2, <2>2, <3>1 DEF LetsGo
  <2> QED BY <2>1, <2>2, <2>3, FailLoadIsOver DEF LoadStep
<1>3. CASE ~(c.method = "fail" /\ Holds(c))
  <2>1. /\ browser' = [browser EXCEPT
                        !.enabled = enabled,
                        !.stage = IF Holds(c) THEN Released(c) ELSE @,
                        !.pausing = PausingAfter(c)]
        /\ UNCHANGED network
    BY <1>3 DEF ReceiveCommand
  <2> HIDE DEF c, enabled
  <2>2. /\ browser'.stage = IF Holds(c) THEN Released(c) ELSE browser.stage
        /\ browser'.answered = browser.answered /\ browser'.empty = browser.empty
        /\ browser'.failed = browser.failed /\ browser'.cancelled = browser.cancelled
    BY <1>1, <2>1 DEF Browser
  <2>3. Holds(c) => browser.stage \in {"paused", "challenged"}
    BY DEF Holds
  <2>4. Holds(c) => Released(c) \in Underway
    BY <1>3 DEF Holds, Released, Underway
  <2> QED BY <2>1, <2>2, <2>3, <2>4 DEF LoadGoesOn, LoadStep, Underway
<1> QED BY <1>2, <1>3

(* Every step is one of the browser or one of the manager.                   *)
LEMMA StepsAreTold ==
  ASSUME Typed, Structure, FlagsOK, [Next]_vars
  PROVE  /\ Typed'
         /\ (BrowserStep /\ LoadStep) \/ (ManagerStep /\ AnswersStep)
<1>1. ByKind /\ PausesHaveIds /\ TypeOK
  BY DEF Structure, Typed
<1>2. CASE Begin \/ Decide \/ Progress \/ Cancel \/ ReceiveCommand
  <2>1. Typed'
    BY <1>1, <1>2, BrowserTyped
  <2>2. BrowserStep
    BY <1>1, <1>2, BeginStep, DecideStep, RedirectStep, MoveStep, OverStep, CommandStep
       DEF Progress
  <2>3. LoadStep
    BY <1>2, LoadBegins, LoadAnswers, LoadEnds, LoadIsCommanded DEF Progress, LoadStep
  <2> QED BY <2>1, <2>2, <2>3
<1>3. CASE ChangeInterception \/ AnswerAnyRoute \/ DetachFrame
  BY <1>3, ChangeStep, AnswerAnyRouteStep, DetachFrameStep, OtherAnswers
<1>4. CASE Receive \/ ReceiveExtra \/ ReceiveFetch
  <2>1. Typed' /\ ManagerStep
    BY <1>4, ReceiveRequestWillBeSentStep, ReceiveServedFromCacheStep, ReceiveResponseStep,
       ReceiveEndStep, ReceiveExtraStep, ReceiveFetchStep DEF Receive
  <2>2. AnswersStep
    BY <1>4, ReceiveAnswers, OtherAnswers
  <2> QED BY <2>1, <2>2
<1>5. CASE UNCHANGED vars
  BY <1>5, StutterStep, OtherAnswers
<1> QED BY <1>2, <1>3, <1>4, <1>5 DEF Next

(***************************************************************************)
(* The events of a load are on their way in the order in which they happened. *)
(***************************************************************************)
Responds(list) == \E i \in DOMAIN list : list[i].event = "responseReceived"
Responding == Responds(network)

ListOK(list, b) ==
  /\ \A i \in DOMAIN list : list[i].event = "responseReceived" =>
       /\ list[i].hop = b.hop /\ b.answered /\ list[i].empty = b.empty
       /\ \A j \in DOMAIN list : list[j].event = "requestWillBeSent" => j < i
  /\ \A i \in DOMAIN list : /\ list[i].event = "loadingFinished" => ~b.failed
                            /\ list[i].event = "loadingFailed" => b.failed
  /\ b.answered /\ ~Responds(list) => \A h \in Hop : ~AnnouncedIn(list, h)
  /\ b.stage = "over" /\ list # <<>> => list[Len(list)].event \in Ending

NetworkOK == ListOK(network, browser)

LEMMA ListAppend ==
  ASSUME NEW q \in Seq(NetworkEvent), NEW e \in NetworkEvent, NEW b, NEW c, ListOK(q, b),
         \/ /\ e.event \in {"requestWillBeSent", "requestServedFromCache"}
            /\ ~b.answered /\ ~c.answered /\ c.failed = b.failed /\ c.stage # "over"
         \/ /\ e.event = "responseReceived" /\ e.hop = c.hop /\ e.empty = c.empty
            /\ ~b.answered /\ c.answered /\ c.failed = b.failed /\ c.stage # "over"
         \/ /\ e.event = IF c.failed THEN "loadingFailed" ELSE "loadingFinished"
            /\ \A i \in DOMAIN q : q[i].event \notin Ending
            /\ c.hop = b.hop /\ c.answered = b.answered /\ c.empty = b.empty
  PROVE  ListOK(Append(q, e), c)
<1> DEFINE r == Append(q, e)
<1>1. /\ DOMAIN r = 1..(Len(q) + 1) /\ DOMAIN q = 1..Len(q) /\ Len(q) \in Nat /\ Len(r) = Len(q) + 1
      /\ \A i \in DOMAIN r : r[i] = IF i = Len(q) + 1 THEN e ELSE q[i]
  BY AppendItems
<1>2. \A i \in DOMAIN r : i \in DOMAIN q \/ i = Len(q) + 1
  BY <1>1
<1>3. \A i \in DOMAIN q : i \in DOMAIN r /\ r[i] = q[i] /\ i < Len(q) + 1
  BY <1>1
<1>4. Len(q) + 1 \in DOMAIN r /\ r[Len(q) + 1] = e
  BY <1>1
<1>5. ~b.answered => ~Responds(q)
  BY DEF ListOK, Responds
<1>6. \A h : AnnouncedIn(r, h) => AnnouncedIn(q, h) \/ e.event = "requestWillBeSent"
  BY AnnouncedAppend
<1>7. Responds(q) \/ e.event = "responseReceived" => Responds(r)
  BY <1>3, <1>4 DEF Responds
<1> HIDE DEF r
<1>8. CASE /\ e.event \in {"requestWillBeSent", "requestServedFromCache"}
           /\ ~b.answered /\ ~c.answered /\ c.failed = b.failed /\ c.stage # "over"
  <2>1. \A i \in DOMAIN r : r[i].event # "responseReceived"
    BY <1>1, <1>2, <1>3, <1>4, <1>5, <1>8 DEF Responds
  <2>2. \A i \in DOMAIN r : /\ r[i].event = "loadingFinished" => ~c.failed
                            /\ r[i].event = "loadingFailed" => c.failed
    BY <1>2, <1>3, <1>4, <1>8 DEF ListOK
  <2> QED BY <1>8, <2>1, <2>2 DEF ListOK, r
<1>9. CASE /\ e.event = "responseReceived" /\ e.hop = c.hop /\ e.empty = c.empty
           /\ ~b.answered /\ c.answered /\ c.failed = b.failed /\ c.stage # "over"
  <2>1. \A i \in DOMAIN r : r[i].event = "responseReceived" => i = Len(q) + 1
    BY <1>2, <1>3, <1>5, <1>9 DEF Responds
  <2>2. \A j \in DOMAIN r : r[j].event = "requestWillBeSent" => j < Len(q) + 1
    BY <1>2, <1>3, <1>4, <1>9
  <2>3. \A i \in DOMAIN r : /\ r[i].event = "loadingFinished" => ~c.failed
                            /\ r[i].event = "loadingFailed" => c.failed
    BY <1>2, <1>3, <1>4, <1>9 DEF ListOK
  <2> QED BY <1>4, <1>7, <1>9, <2>1, <2>2, <2>3 DEF ListOK, r
<1>10. CASE /\ e.event = IF c.failed THEN "loadingFailed" ELSE "loadingFinished"
            /\ \A i \in DOMAIN q : q[i].event \notin Ending
            /\ c.hop = b.hop /\ c.answered = b.answered /\ c.empty = b.empty
  <2>1. e.event \in Ending /\ e.event # "responseReceived" /\ e.event # "requestWillBeSent"
    BY <1>10 DEF Ending
  <2>2. \A i \in DOMAIN r : r[i].event = "responseReceived" => i \in DOMAIN q /\ q[i] = r[i]
    BY <1>2, <1>3, <1>4, <2>1
  <2>3. \A j \in DOMAIN r : r[j].event = "requestWillBeSent" => j \in DOMAIN q /\ q[j] = r[j]
    BY <1>2, <1>3, <1>4, <2>1
  <2>4. \A i \in DOMAIN r : /\ r[i].event = "loadingFinished" => ~c.failed
                            /\ r[i].event = "loadingFailed" => c.failed
    BY <1>2, <1>3, <1>4, <1>10 DEF Ending
  <2>5. \A i \in DOMAIN r : r[i].event = "responseReceived" =>
          /\ r[i].hop = c.hop /\ c.answered /\ r[i].empty = c.empty
          /\ \A j \in DOMAIN r : r[j].event = "requestWillBeSent" => j < i
    BY <1>10, <2>2, <2>3 DEF ListOK
  <2>6. c.answered /\ ~Responds(r) => \A h \in Hop : ~AnnouncedIn(r, h)
    BY <1>6, <1>7, <1>10, <2>1 DEF ListOK
  <2>7. r[Len(r)].event \in Ending
    BY <1>1, <1>4, <2>1
  <2> QED BY <2>4, <2>5, <2>6, <2>7 DEF ListOK, r
<1> QED BY <1>8, <1>9, <1>10

LEMMA EmptyListOK ==
  ASSUME NEW b PROVE ListOK(<<>>, b)
BY DEF ListOK, AnnouncedIn

LEMMA BrowserFlags ==
  ASSUME Typed, Structure, FlagsOK, BrowserStep, LoadStep
  PROVE  FlagsOK'
<1>1. browser \in Browser /\ browser.hop \in Hop
  BY TypedParts, HopOrder
<1>2. CASE LoadGoesOn
  <2>1. browser'.stage = "over" => SamePauses
    BY <1>2, BrowserShape DEF LoadGoesOn, Ignores
  <2> QED BY <1>2, <2>1 DEF LoadGoesOn, FlagsOK, SamePauses
<1>3. CASE LoadIsAnswered
  BY <1>3 DEF LoadIsAnswered, FlagsOK
<1>4. CASE LoadIsOver
  <2>1. ~browser'.cancelled => browser.pausing[browser.hop] # "undecided"
    BY <1>1, <1>4 DEF LoadIsOver, Structure, Past
  <2> QED BY <1>4, <2>1 DEF LoadIsOver, FlagsOK, SamePauses
<1> QED BY <1>2, <1>3, <1>4 DEF LoadStep

LEMMA BrowserList ==
  ASSUME Typed, Structure, FlagsOK, NetworkOK, BrowserStep, LoadStep
  PROVE  NetworkOK'
<1>1. network \in Seq(NetworkEvent) /\ ListOK(network, browser)
  BY TypedParts DEF NetworkOK
<1>2. CASE kind = "foreign"
  <2>1. network = <<>> /\ network' = network
    BY <1>2 DEF Structure, ByKind, LoadStep, LoadGoesOn, LoadIsAnswered, LoadIsOver, Appends
  <2>2. ListOK(<<>>, browser')
    BY EmptyListOK
  <2>3. network' = <<>>
    BY <2>1
  <2> QED BY <2>2, <2>3 DEF NetworkOK
<1>3. CASE kind # "foreign" /\ LoadGoesOn
  <2>1. /\ browser'.answered = browser.answered /\ browser'.empty = browser.empty
        /\ browser'.failed = browser.failed
        /\ browser'.stage = "over" => browser.stage = "over"
    BY <1>3 DEF LoadGoesOn
  <2>2. CASE network' = network
    <3>1. browser.answered => browser'.hop = browser.hop
      BY BrowserShape DEF GoesOn, FlagsOK
    <3>2. \A i \in DOMAIN network : network[i].event = "responseReceived" => browser'.hop = browser.hop
      BY <1>1, <3>1 DEF ListOK
    <3>3. ListOK(network, browser')
      BY <1>1, <2>1, <3>2 DEF ListOK
    <3> QED BY <2>2, <3>3 DEF NetworkOK
  <2>3. CASE network' # network
    <3>1. PICK e \in NetworkEvent : e.event = "requestWillBeSent" /\ network' = Append(network, e)
      BY <1>3, <2>3 DEF LoadGoesOn, Appends
    <3>2. ~browser.answered /\ browser.stage # "over"
      BY <1>3, <2>3 DEF LoadGoesOn, FlagsOK
    <3>3. ListOK(Append(network, e), browser')
      BY <1>1, <2>1, <3>1, <3>2, ListAppend
    <3> QED BY <3>1, <3>3 DEF NetworkOK
  <2> QED BY <2>2, <2>3
<1>4. CASE kind # "foreign" /\ LoadIsAnswered
  <2>1. /\ ~browser.answered /\ browser'.answered /\ browser'.failed = browser.failed
        /\ browser.stage # "over" /\ browser'.stage # "over" /\ browser'.hop = browser.hop
    BY <1>4 DEF LoadIsAnswered, FlagsOK
  <2>2. PICK e \in NetworkEvent :
          /\ e.event = "responseReceived" /\ e.hop = browser.hop /\ e.empty = browser'.empty
          /\ \/ Appends(e)
             \/ \E c \in NetworkEvent :
                  /\ c.event = "requestServedFromCache" /\ kind # "foreign"
                  /\ network' = Append(Append(network, c), e)
    BY <1>4 DEF LoadIsAnswered
  <2>3. CASE Appends(e)
    <3>1. network' = Append(network, e)
      BY <1>4, <2>3 DEF Appends
    <3>2. ListOK(Append(network, e), browser')
      BY <1>1, <2>1, <2>2, ListAppend
    <3> QED BY <3>1, <3>2 DEF NetworkOK
  <2>4. ASSUME NEW c \in NetworkEvent, c.event = "requestServedFromCache",
               network' = Append(Append(network, c), e)
        PROVE  NetworkOK'
    <3> DEFINE q == Append(network, c)
    <3>1. ListOK(q, browser)
      BY <1>1, <2>1, <2>4, ListAppend
    <3>2. q \in Seq(NetworkEvent)
      BY <1>1
    <3> HIDE DEF q
    <3>3. ListOK(Append(q, e), browser')
      BY <2>1, <2>2, <3>1, <3>2, ListAppend
    <3> USE DEF q
    <3> QED BY <2>4, <3>3 DEF NetworkOK
  <2> QED BY <2>2, <2>3, <2>4
<1>5. CASE kind # "foreign" /\ LoadIsOver
  <2>1. PICK e \in NetworkEvent :
          e.event = (IF browser'.failed THEN "loadingFailed" ELSE "loadingFinished") /\ Appends(e)
    BY <1>5 DEF LoadIsOver
  <2>2. network' = Append(network, e)
    BY <1>5, <2>1 DEF Appends
  <2>3. \A i \in DOMAIN network : network[i].event \notin Ending
    BY <1>5 DEF LoadIsOver, Structure, EndIsLast, Ending
  <2>4. /\ browser'.hop = browser.hop /\ browser'.answered = browser.answered
        /\ browser'.empty = browser.empty
    BY <1>5 DEF LoadIsOver, SamePauses
  <2>5. ListOK(Append(network, e), browser')
    BY <1>1, <2>1, <2>3, <2>4, ListAppend
  <2> QED BY <2>2, <2>5 DEF NetworkOK
<1> QED BY <1>2, <1>3, <1>4, <1>5 DEF LoadStep

(***************************************************************************)
(* How far the manager has come with a load.                                *)
(***************************************************************************)
EndHandled == kind # "foreign" /\ browser.stage = "over" /\ network = <<>>

(* What the manager has taken out of the network it has heard of.            *)
HeardOK ==
  /\ kind # "foreign" /\ browser.stage # "none" =>
       \A h \in Hop : h <= browser.hop /\ ~Announced(h) => expecting[h] # "unheard"
  /\ kind = "foreign" => m.request = None /\ \A h \in Hop : m.requests[h].report = "new"

(* A request that waits for its pause when the load is over was cancelled,   *)
(* and none is reported while it waits or before the one that is listed.     *)
WaitingOK ==
  /\ \A h \in Hop : Unstarted(h) /\ browser.pausing[h] = "yes" /\ browser.stage = "over"
                      => browser.cancelled
  /\ \A h \in Hop : Kept(m, h) => m.requests[h].report = "new"
  /\ m.request # None => \A k \in Hop : k > m.request => m.requests[k].report = "new"

(* After the end of the load only what was cut short is listed or waits, and *)
(* what a service worker handles waits only if it finished without answer.   *)
EndOK ==
  EndHandled =>
    /\ m.request # None => CutShort(m.request)
    /\ kind # "viaWorker" => \A h \in Hop : Kept(m, h) => CutShort(h)
    /\ kind = "viaWorker" /\ frame /\ browser.hop = 0 /\ Kept(m, 0)
         => ~browser.answered /\ ~browser.failed

(* The manager takes h for begun as soon as it hears of it, or of its answer. *)
Counted(h) == \/ kind = "plain"
              \/ kind = "viaWorker" /\ (expecting[h] = "no" \/ browser.hop = 0)
BegunOK ==
  frame /\ browser.stage # "none" =>
    \A h \in Hop : h <= browser.hop /\ Counted(h) /\ ~Unstarted(h) => m.requests[h].report # "new"

(* Only the end of the load ends the last request, and only a redirect those *)
(* before it.                                                               *)
OverOK ==
  /\ m.requests[browser.hop].report = "over" => EndHandled
  /\ frame /\ kind \in {"plain", "viaWorker"} =>
       \A h \in Hop : m.requests[h].report = "over" /\ h < browser.hop /\ ~CutShort(h + 1) =>
         Redirected(m, h)
  /\ frame /\ Counted(browser.hop) /\ m.requests[browser.hop].report = "over" /\ ~CutShort(browser.hop)
       => m.requests[browser.hop].failed = (browser.failed /\ ~browser.empty)

ResponsesOK ==
  /\ \A h \in Hop : m.requests[h].response # "none" => h <= browser.hop /\ Answered(h)
  /\ \A h \in Hop : m.requests[h].report = "new" => m.requests[h].response = "none"
  /\ m.requests[browser.hop].response # "none" => m.requests[browser.hop].empty = browser.empty
  /\ frame /\ Counted(browser.hop) /\ browser.answered /\ ~Responding
       => m.requests[browser.hop].response # "none"

Loading == FlagsOK /\ NetworkOK /\ HeardOK
Reporting == WaitingOK /\ EndOK /\ BegunOK /\ OverOK /\ ResponsesOK

(***************************************************************************)
(* Steps of the browser.                                                   *)
(***************************************************************************)
LEMMA NewsIsAnnounced ==
  ASSUME Typed, NEW h \in Hop, NewsOf(h)
  PROVE  Announced(h)'
<1>1. network \in Seq(NetworkEvent)
  BY TypedParts
<1>2. PICK e \in NetworkEvent : e.event = "requestWillBeSent" /\ e.hop = h /\ network' = Append(network, e)
  BY DEF NewsOf, Begins0, GoesOn, Appends
<1>3. Len(network) + 1 \in DOMAIN network' /\ network'[Len(network) + 1] = e
  BY <1>1, <1>2, AppendItems
<1> QED BY <1>2, <1>3 DEF Announced, AnnouncedIn

(* Once a load is over the browser does nothing that matters.                *)
LEMMA OverStays ==
  ASSUME Typed, BrowserStep, LoadStep, browser.stage = "over"
  PROVE  /\ browser'.stage = "over" /\ SamePauses /\ network' = network
         /\ browser'.answered = browser.answered /\ browser'.empty = browser.empty
         /\ browser'.failed = browser.failed /\ browser'.cancelled = browser.cancelled
<1>1. LoadGoesOn
  BY DEF LoadStep, LoadIsAnswered, LoadIsOver
<1> QED BY <1>1, BrowserShape DEF LoadGoesOn, Ignores

LEMMA EndComesLast ==
  ASSUME Typed, BrowserStep, LoadStep, EndHandled'
  PROVE  browser.stage = "over"
<1>1. ~LoadIsOver
  <2>1. ASSUME NEW e \in NetworkEvent, network' = Append(network, e) PROVE network' # <<>>
    <3>1. network \in Seq(NetworkEvent)
      BY TypedParts
    <3> QED BY <2>1, <3>1
  <2> QED BY <2>1, BrowserKeeps DEF EndHandled, LoadIsOver, Appends
<1> QED BY <1>1 DEF LoadStep, LoadGoesOn, LoadIsAnswered, EndHandled

(* Only what is announced is new, and what is answered does not go on.       *)
LEMMA BrowserGrows ==
  ASSUME Typed, Structure, FlagsOK, BrowserStep, LoadStep, NEW h \in Hop
  PROVE  /\ kind # "foreign" /\ browser'.stage # "none" /\ h <= browser'.hop /\ ~Announced(h)' =>
              browser.stage # "none" /\ h <= browser.hop /\ ~Announced(h)
         /\ ~Unstarted(h)' => ~Unstarted(h)
         /\ browser.hop <= browser'.hop /\ browser.hop \in Hop /\ browser'.hop \in Hop
         /\ h <= browser.hop => h <= browser'.hop
         /\ browser'.hop # browser.hop =>
              /\ browser'.stage # "over" /\ browser.hop < browser'.hop
              /\ \A k \in Hop : k < browser'.hop => k <= browser.hop
              /\ m.requests[browser'.hop].report = "new"
         /\ browser.answered => browser'.answered /\ browser'.hop = browser.hop
                                /\ browser'.empty = browser.empty
<1>1. h \in Nat /\ browser.hop \in Nat /\ browser.hop \in Hop /\ browser'.hop \in Hop /\ browser'.hop \in Nat
  BY HopOrder, BrowserShape
<1>2. browser'.hop = browser.hop \/ (GoesOn /\ browser'.hop = browser.hop + 1)
  BY BrowserShape
<1>3. ~NewsOf(h) \/ Announced(h)'
  BY NewsIsAnnounced
<1>4. /\ Announced(h) => Announced(h)'
      /\ ~Unstarted(h)' => ~Unstarted(h)
  BY BrowserKeepsNews DEF Unstarted
<1>5. ASSUME kind # "foreign", browser'.stage # "none", h <= browser'.hop, ~Announced(h)'
      PROVE  browser.stage # "none" /\ h <= browser.hop
  <2>1. ~NewsOf(h)
    BY <1>3, <1>5
  <2>2. CASE browser.stage = "none"
    <3>1. Begins0
      BY <1>5, <2>2 DEF BrowserStep, GoesOn, IsPaused, IsNotPaused, MovesOn, IsOverNow, IsLetGo,
           IsCut, Ignores, Underway
    <3>2. h = 0
      BY <1>1, <1>5, <2>2, <3>1 DEF Structure, Beginning, Begins0, SamePauses
    <3> QED BY <1>5, <2>1, <3>1, <3>2 DEF NewsOf
  <2>3. CASE browser.stage # "none"
    <3>1. GoesOn => h # browser'.hop
      BY <1>5, <2>1 DEF NewsOf
    <3> QED BY <1>1, <1>2, <1>5, <2>3, <3>1
  <2> QED BY <2>2, <2>3
<1>6. ASSUME browser'.hop # browser.hop
      PROVE  /\ browser'.stage # "over" /\ browser.hop < browser'.hop
             /\ \A k \in Hop : k < browser'.hop => k <= browser.hop
             /\ m.requests[browser'.hop].report = "new"
  <2>1. GoesOn /\ browser'.hop = browser.hop + 1
    BY <1>2, <1>6
  <2>2. \A k \in Hop : k \in Nat
    BY HopOrder
  <2>3. m.requests[browser'.hop].report = "new"
    BY <1>1, <2>1 DEF Structure, Future
  <2> QED BY <1>1, <2>1, <2>2, <2>3 DEF GoesOn
<1>7. ASSUME browser.answered
      PROVE  browser'.answered /\ browser'.hop = browser.hop /\ browser'.empty = browser.empty
  <2>1. browser.stage \in {"answered", "over"}
    BY <1>7 DEF FlagsOK
  <2>2. ~GoesOn /\ ~LoadIsAnswered
    BY <2>1 DEF GoesOn, LoadIsAnswered
  <2> QED BY <1>2, <1>7, <2>2 DEF LoadStep, LoadGoesOn, LoadIsOver
<1> QED BY <1>1, <1>2, <1>4, <1>5, <1>6, <1>7

LEMMA RespondingStays ==
  ASSUME Typed, LoadStep
  PROVE  /\ Responding => Responding'
         /\ kind # "foreign" /\ LoadIsAnswered => Responding'
<1>1. network \in Seq(NetworkEvent)
  BY TypedParts
<1>2. ASSUME NEW q \in Seq(NetworkEvent), NEW e \in NetworkEvent
      PROVE  /\ Responds(q) => Responds(Append(q, e))
             /\ e.event = "responseReceived" => Responds(Append(q, e))
             /\ Append(q, e) \in Seq(NetworkEvent)
  BY AppendItems, AppendProperties DEF Responds
<1>3. ASSUME NEW e \in NetworkEvent, Appends(e)
      PROVE  /\ Responds(network) => Responds(network')
             /\ kind # "foreign" /\ e.event = "responseReceived" => Responds(network')
  BY <1>1, <1>2, <1>3 DEF Appends
<1>4. ASSUME NEW c \in NetworkEvent, NEW e \in NetworkEvent, e.event = "responseReceived",
             network' = Append(Append(network, c), e)
      PROVE  Responds(network')
  BY <1>1, <1>2, <1>4
<1>5. (Responds(network) => Responds(network')) /\ (kind # "foreign" /\ LoadIsAnswered => Responds(network'))
  BY <1>3, <1>4 DEF LoadStep, LoadGoesOn, LoadIsAnswered, LoadIsOver
<1> QED BY <1>5 DEF Responding, Responds

LEMMA HopGrows ==
  ASSUME Typed, Structure, FlagsOK, BrowserStep, LoadStep
  PROVE  /\ browser.hop \in Nat /\ browser'.hop \in Nat /\ browser.hop <= browser'.hop
         /\ browser.hop \in Hop /\ browser'.hop \in Hop
         /\ browser.answered => browser'.answered /\ browser'.hop = browser.hop
                                /\ browser'.empty = browser.empty
<1>1. browser.hop \in Hop /\ (\A h \in Hop : h \in Nat)
  BY HopOrder
<1> QED BY <1>1, BrowserGrows

LEMMA BrowserHeard ==
  ASSUME Typed, Structure, FlagsOK, HeardOK, BrowserStep, LoadStep
  PROVE  HeardOK'
<1>1. UNCHANGED <<m, kind, expecting>>
  BY BrowserKeeps
<1>2. ASSUME kind # "foreign", browser'.stage # "none", NEW h \in Hop, h <= browser'.hop, ~Announced(h)'
      PROVE  expecting[h] # "unheard"
  BY <1>2, BrowserGrows DEF HeardOK
<1> QED BY <1>1, <1>2 DEF HeardOK

(* A load that is over while a request waits for its pause was cancelled:    *)
(* nobody had let it go.                                                    *)
LEMMA BrowserWaiting ==
  ASSUME Typed, Structure, Ordered, WaitingOK, BrowserStep, LoadStep
  PROVE  WaitingOK'
<1>1. UNCHANGED m
  BY BrowserKeeps
<1>2. ASSUME NEW h \in Hop, Unstarted(h)', browser'.pausing[h] = "yes", browser'.stage = "over"
      PROVE  browser'.cancelled
  <2>1. Unstarted(h)
    <3>1. Announced(h)' \/ Kept(m, h)
      BY <1>1, <1>2 DEF Unstarted, Kept
    <3>2. ~NewsOf(h)
      BY <1>2 DEF NewsOf, Begins0, GoesOn
    <3> QED BY <3>1, <3>2, BrowserKeeps DEF Unstarted
  <2>2. CASE browser.stage = "over"
    BY <1>2, <2>1, <2>2, OverStays DEF WaitingOK, SamePauses
  <2>3. CASE browser.stage # "over"
    <3>1. LoadIsOver
      BY <1>2, <2>3 DEF LoadStep, LoadGoesOn, LoadIsAnswered
    <3>2. browser.stage = "paused" /\ browser.id = FirstPause(h)
      BY <1>2, <2>1, <2>3, <3>1 DEF LoadIsOver, SamePauses, Ordered, UnstartedIsHeld
    <3>3. ~LetsGo(commands, browser.id)
      BY <2>1, <3>2 DEF Ordered, UnstartedIsHeld, Answering
    <3> QED BY <3>1, <3>2, <3>3 DEF LoadIsOver
  <2> QED BY <2>2, <2>3
<1>3. \A h \in Hop : (Unstarted(h) /\ browser.pausing[h] = "yes" /\ browser.stage = "over" => browser.cancelled)'
  BY <1>2
<1>4. \A h \in Hop : (Kept(m, h) => m.requests[h].report = "new")'
  BY <1>1 DEF WaitingOK, Kept
<1>5. (m.request # None => \A k \in Hop : k > m.request => m.requests[k].report = "new")'
  BY <1>1 DEF WaitingOK
<1> QED BY <1>3, <1>4, <1>5 DEF WaitingOK

(* After the end of the load was handled nothing changes.                    *)
LEMMA AfterTheEnd ==
  ASSUME Typed, BrowserStep, LoadStep, browser.stage = "over"
  PROVE  /\ EndHandled' = EndHandled /\ browser'.hop = browser.hop
         /\ \A h \in Hop : CutShort(h)' = CutShort(h) /\ Counted(h)' = Counted(h)
<1>1. UNCHANGED <<kind, expecting>>
  BY BrowserKeeps
<1> QED BY <1>1, OverStays DEF EndHandled, CutShort, Counted, SamePauses

LEMMA BrowserEnd ==
  ASSUME Typed, EndOK, BrowserStep, LoadStep
  PROVE  EndOK'
<1> SUFFICES ASSUME EndHandled'
             PROVE  /\ (m.request # None => CutShort(m.request))'
                    /\ (kind # "viaWorker" => \A h \in Hop : Kept(m, h) => CutShort(h))'
                    /\ (kind = "viaWorker" /\ frame /\ browser.hop = 0 /\ Kept(m, 0)
                          => ~browser.answered /\ ~browser.failed)'
  BY DEF EndOK
<1>1. UNCHANGED <<m, kind, frame, expecting>> /\ browser.stage = "over"
  BY BrowserKeeps, EndComesLast
<1>2. EndHandled /\ browser'.hop = browser.hop
      /\ browser'.answered = browser.answered /\ browser'.failed = browser.failed
  BY <1>1, AfterTheEnd, OverStays
<1>3. \A h \in Hop : CutShort(h)' = CutShort(h)
  BY <1>1, AfterTheEnd
<1>4. ASSUME m.request # None PROVE CutShort(m.request)'
  <2>1. PICK h \in Hop : h = m.request
    BY <1>4, TypedParts DEF ManagerTyped, Manager
  <2>2. CutShort(h)'
    BY <1>2, <1>3, <1>4, <2>1 DEF EndOK
  <2> QED BY <1>1, <2>1, <2>2 DEF CutShort
<1>5. (m.request # None => CutShort(m.request))'
  BY <1>1, <1>4
<1>6. (kind # "viaWorker" => \A h \in Hop : Kept(m, h) => CutShort(h))'
  BY <1>1, <1>2, <1>3 DEF EndOK, Kept
<1>7. (kind = "viaWorker" /\ frame /\ browser.hop = 0 /\ Kept(m, 0) => ~browser.answered /\ ~browser.failed)'
  BY <1>1, <1>2 DEF EndOK, Kept
<1> QED BY <1>5, <1>6, <1>7

LEMMA BrowserBegun ==
  ASSUME Typed, Structure, FlagsOK, BegunOK, BrowserStep, LoadStep
  PROVE  BegunOK'
<1>1. UNCHANGED <<m, kind, frame, expecting>>
  BY BrowserKeeps
<1>2. ASSUME frame, browser'.stage # "none", NEW h \in Hop, h <= browser'.hop, Counted(h)', ~Unstarted(h)'
      PROVE  m.requests[h].report # "new"
  <2>1. kind # "foreign" /\ ~Announced(h)'
    BY <1>1, <1>2 DEF Counted, Unstarted
  <2>2. browser.stage # "none" /\ h <= browser.hop /\ ~Unstarted(h)
    BY <1>2, <2>1, BrowserGrows
  <2>3. Counted(h)
    <3>1. browser'.hop = 0 => browser.hop = 0
      BY HopGrows
    <3> QED BY <1>1, <1>2, <3>1 DEF Counted
  <2> QED BY <1>2, <2>2, <2>3 DEF BegunOK
<1>3. m' = m /\ frame' = frame
  BY <1>1
<1> QED BY <1>2, <1>3 DEF BegunOK

LEMMA BrowserOver ==
  ASSUME Typed, Structure, FlagsOK, OverOK, BrowserStep, LoadStep
  PROVE  OverOK'
<1>1. UNCHANGED <<m, kind, frame, expecting>> /\ browser.hop \in Hop
  BY BrowserKeeps, HopOrder
<1>2. m.requests[browser.hop].report = "over" => EndHandled /\ browser.stage = "over"
  BY DEF OverOK, EndHandled
<1>3. ASSUME m.requests[browser'.hop].report = "over"
      PROVE  EndHandled /\ browser.stage = "over" /\ browser'.hop = browser.hop
  BY <1>1, <1>2, <1>3, BrowserGrows
<1>4. ASSUME frame, kind \in {"plain", "viaWorker"}, NEW h \in Hop, m.requests[h].report = "over",
             h < browser'.hop, ~CutShort(h + 1)'
      PROVE  Redirected(m, h)
  <2>1. CutShort(h + 1) => browser.stage = "over"
    BY DEF CutShort, FlagsOK
  <2>2. h < browser.hop
    <3>1. CASE browser'.hop = browser.hop
      BY <1>4, <3>1
    <3>2. CASE browser'.hop # browser.hop
      <4>1. browser'.stage # "over" /\ h <= browser.hop
        BY <1>1, <1>4, <3>2, BrowserGrows
      <4>2. h # browser.hop
        BY <1>2, <1>4, <4>1, OverStays
      <4>3. h \in Nat /\ browser.hop \in Nat
        BY <1>1, HopOrder
      <4> QED BY <4>1, <4>2, <4>3
    <3> QED BY <3>1, <3>2
  <2>3. ~CutShort(h + 1)
    <3>1. CASE browser.stage = "over"
      BY <1>1, <1>4, <3>1, OverStays DEF CutShort, SamePauses
    <3> QED BY <2>1, <3>1
  <2> QED BY <1>4, <2>2, <2>3 DEF OverOK
<1>5. ASSUME frame, Counted(browser.hop)', m.requests[browser'.hop].report = "over",
             ~CutShort(browser.hop)'
      PROVE  m.requests[browser'.hop].failed = (browser'.failed /\ ~browser'.empty)
  <2>1. browser.stage = "over" /\ browser'.hop = browser.hop
    BY <1>3, <1>5
  <2>2. Counted(browser.hop) /\ ~CutShort(browser.hop)
    BY <1>1, <1>5, <2>1, OverStays DEF Counted, CutShort
  <2> QED BY <1>5, <2>1, <2>2, OverStays DEF OverOK
<1>6. m' = m /\ frame' = frame /\ kind' = kind
  BY <1>1
<1>7. (m.requests[browser.hop].report = "over" => EndHandled)'
  BY <1>3, <1>6, AfterTheEnd
<1>8. (\A h \in Hop : m.requests[h].report = "over" /\ h < browser.hop /\ ~CutShort(h + 1) =>
         Redirected(m, h))' \/ ~frame \/ kind \notin {"plain", "viaWorker"}
  BY <1>4, <1>6 DEF Redirected
<1> QED BY <1>5, <1>6, <1>7, <1>8 DEF OverOK

LEMMA BrowserResponses ==
  ASSUME Typed, Structure, FlagsOK, ResponsesOK, BrowserStep, LoadStep
  PROVE  ResponsesOK'
<1>1. m' = m /\ kind' = kind /\ frame' = frame /\ expecting' = expecting
  BY BrowserKeeps
<1>2. ASSUME NEW h \in Hop, m.requests[h].response # "none"
      PROVE  h <= browser'.hop /\ (h < browser'.hop \/ browser'.answered)
  <2>1. h <= browser.hop /\ (h < browser.hop \/ browser.answered)
    BY <1>2 DEF ResponsesOK, Answered
  <2>2. h \in Nat
    BY HopOrder
  <2> QED BY <2>1, <2>2, HopGrows
<1>3. ASSUME m.requests[browser'.hop].response # "none"
      PROVE  m.requests[browser'.hop].empty = browser'.empty
  <2>1. browser'.hop <= browser.hop /\ Answered(browser'.hop)
    BY <1>3, HopGrows DEF ResponsesOK
  <2>2. browser'.hop = browser.hop /\ browser.answered
    BY <2>1, HopGrows DEF Answered
  <2> QED BY <1>3, <2>2, HopGrows DEF ResponsesOK
<1>4. ASSUME frame, Counted(browser.hop)', browser'.answered, ~Responding'
      PROVE  m.requests[browser'.hop].response # "none"
  <2>1. kind # "foreign"
    BY <1>1, <1>4 DEF Counted
  <2>2. ~LoadIsAnswered /\ ~Responding
    BY <1>4, <2>1, RespondingStays
  <2>3. browser.answered
    BY <1>4, <2>2 DEF LoadStep, LoadGoesOn, LoadIsOver
  <2>4. browser'.hop = browser.hop
    BY <2>3, HopGrows
  <2>5. Counted(browser.hop)
    BY <1>1, <1>4, <2>4 DEF Counted
  <2> QED BY <1>4, <2>2, <2>3, <2>4, <2>5 DEF ResponsesOK
<1>5. (\A h \in Hop : m.requests[h].response # "none" => h <= browser.hop /\ Answered(h))'
  BY <1>1, <1>2 DEF Answered
<1>6. (\A h \in Hop : m.requests[h].report = "new" => m.requests[h].response = "none")'
  BY <1>1 DEF ResponsesOK
<1> QED BY <1>1, <1>3, <1>4, <1>5, <1>6 DEF ResponsesOK

LEMMA BrowserReports ==
  ASSUME Typed, Structure, Loading, Ordered, Reporting, BrowserStep, LoadStep
  PROVE  Reporting'
BY BrowserWaiting, BrowserEnd, BrowserBegun, BrowserOver, BrowserResponses DEF Loading, Reporting

(***************************************************************************)
(* Steps of the manager.                                                   *)
(***************************************************************************)
LEMMA ListTail ==
  ASSUME NEW q \in Seq(NetworkEvent), q # <<>>, NEW b, ListOK(q, b)
  PROVE  ListOK(Tail(q), b)
<1> DEFINE t == Tail(q)
<1>1. /\ DOMAIN q = 1..Len(q) /\ Len(q) \in Nat \ {0} /\ Len(t) = Len(q) - 1
      /\ DOMAIN t = 1..(Len(q) - 1)
      /\ \A i \in DOMAIN t : t[i] = q[i + 1]
  BY TailItems
<1>2. \A i \in DOMAIN t : i \in Nat /\ i + 1 \in DOMAIN q /\ t[i] = q[i + 1]
  BY <1>1
<1>3. \A i \in DOMAIN q : i = 1 \/ (i - 1 \in DOMAIN t /\ t[i - 1] = q[i])
  BY <1>1
<1>4. t # <<>> => t[Len(t)] = q[Len(q)]
  <2>1. t \in Seq(NetworkEvent)
    BY TailType
  <2>2. t # <<>> => Len(t) # 0
    BY <2>1, EmptySeq
  <2> QED BY <1>1, <2>2
<1> HIDE DEF t
<1>5. ASSUME NEW i \in DOMAIN t, t[i].event = "responseReceived"
      PROVE  /\ t[i].hop = b.hop /\ b.answered /\ t[i].empty = b.empty
             /\ \A j \in DOMAIN t : t[j].event = "requestWillBeSent" => j < i
  <2>1. ASSUME NEW j \in DOMAIN t, t[j].event = "requestWillBeSent" PROVE j < i
    <3>1. j + 1 < i + 1
      BY <1>2, <1>5, <2>1 DEF ListOK
    <3> QED BY <1>2, <3>1
  <2> QED BY <1>2, <1>5, <2>1 DEF ListOK
<1>6. \A i \in DOMAIN t : /\ t[i].event = "loadingFinished" => ~b.failed
                          /\ t[i].event = "loadingFailed" => b.failed
  BY <1>2 DEF ListOK
<1>7. ASSUME b.answered, ~Responds(t), NEW h \in Hop, AnnouncedIn(t, h) PROVE FALSE
  <2>1. PICK j \in DOMAIN t : t[j].event = "requestWillBeSent" /\ t[j].hop = h
    BY <1>7 DEF AnnouncedIn
  <2>2. j + 1 \in DOMAIN q /\ q[j + 1] = t[j] /\ j \in Nat /\ j > 0
    BY <1>1, <1>2
  <2>3. AnnouncedIn(q, h)
    BY <2>1, <2>2 DEF AnnouncedIn
  <2>4. PICK i \in DOMAIN q : q[i].event = "responseReceived"
    BY <1>7, <2>3 DEF ListOK, Responds
  <2>5. i = 1
    BY <1>3, <1>7, <2>4 DEF Responds
  <2>6. j + 1 < 1
    BY <2>1, <2>2, <2>4, <2>5 DEF ListOK
  <2> QED BY <2>2, <2>6
<1>8. b.stage = "over" /\ t # <<>> => t[Len(t)].event \in Ending
  BY <1>4 DEF ListOK
<1> QED BY <1>5, <1>6, <1>7, <1>8 DEF ListOK, t

LEMMA ManagerList ==
  ASSUME Typed, NetworkOK, ManagerStep
  PROVE  NetworkOK'
<1>1. network \in Seq(NetworkEvent) /\ ListOK(network, browser) /\ browser' = browser
  BY TypedParts, ManagerQueues DEF NetworkOK
<1>2. ListOK(network', browser)
  BY <1>1, ManagerQueues, ListTail
<1> QED BY <1>1, <1>2 DEF NetworkOK

LEMMA ManagerHeard ==
  ASSUME Typed, Structure, HeardOK, ManagerStep
  PROVE  HeardOK'
<1>1. kind' = kind /\ browser' = browser
  BY ManagerQueues
<1>2. ASSUME kind # "foreign", browser.stage # "none", NEW h \in Hop, h <= browser.hop, ~Announced(h)'
      PROVE  expecting'[h] # "unheard"
  <2>1. CASE Hears /\ Head(network).hop = h
    <3>1. expecting \in [Hop -> {"unheard", "yes", "no"}]
      BY TypedParts
    <3> QED BY <2>1, <3>1 DEF Hears
  <2>2. CASE ~(Hears /\ Head(network).hop = h)
    BY <1>2, <2>2, ManagerHears DEF HeardOK
  <2> QED BY <2>1, <2>2
<1>3. ASSUME kind = "foreign"
      PROVE  m'.request = None /\ \A h \in Hop : m'.requests[h].report = "new"
  <2>1. network = <<>>
    BY <1>3 DEF Structure, ByKind
  <2>2. SameReports(m, m')
    BY <1>3, <2>1 DEF ManagerStep, Bookkeeps, Hears, SeesPause, HearsLate, HearsEnd, TakesEvent
  <2> QED BY <1>3, <2>2 DEF HeardOK, SameReports
<1> QED BY <1>1, <1>2, <1>3 DEF HeardOK

LEMMA UnstartedIsNew ==
  ASSUME Typed, Structure, Ordered, WaitingOK, NEW h \in Hop, Unstarted(h)
  PROVE  /\ m.requests[h].report = "new" /\ m.request # h
         /\ h \in Nat /\ h <= browser.hop
<1>1. h \in Nat /\ browser.hop \in Nat
  BY HopOrder
<1>2. m.requests[h].report = "new"
  BY <1>1 DEF Unstarted, Ordered, NewInOrder, NewFrom, WaitingOK
<1>3. m.request # h
  BY <1>2, TypedParts, HopOrder DEF ManagerTyped, Listed
<1>4. ~(h > browser.hop)
  BY DEF Structure, Future
<1> QED BY <1>1, <1>2, <1>3, <1>4

LEMMA ListedIsLive ==
  ASSUME Typed, Structure, m.request # None
  PROVE  /\ m.request \in Hop /\ m.requests[m.request].report = "live"
         /\ m.request \in Nat /\ m.request <= browser.hop
<1>1. m.request \in Hop /\ m.requests[m.request].report = "live"
  BY TypedParts DEF ManagerTyped, Manager, Listed
<1>2. ~(m.request > browser.hop)
  BY <1>1 DEF Structure, Future
<1> QED BY <1>1, <1>2, HopOrder

LEMMA NeverNewAgain ==
  ASSUME ManagerStep, NEW h \in Hop, m.requests[h].report # "new"
  PROVE  m'.requests[h].report # "new"
BY DEF ManagerStep, Bookkeeps, Hears, SeesPause, HearsLate, HearsEnd, SameReports, Begins, Skips, IsOver

(* The manager takes e for begun, or passes over it.                         *)
TakesOn(e) ==
  /\ Unstarted(e) /\ NewFrom(m, e)
  /\ Begins(m, m', e) \/ Skips(m, m', e)

LEMMA ManagerMoves ==
  ASSUME Typed, Structure, Ordered, ManagerStep
  PROVE  SameReports(m, m') \/ HearsEnd \/ \E e \in Hop : TakesOn(e)
<1>1. CASE Hears
  <2>1. PICK e \in Hop : e = Head(network).hop /\ Announced(e)
    BY <1>1, HeardIsAnnounced
  <2> QED BY <1>1, <2>1 DEF Hears, TakesOn, Unstarted, Ordered, NewInOrder
<1>2. CASE SeesPause /\ ~SameReports(m, m')
  <2>1. m.sent # None /\ (Begins(m, m', m.sent.hop) \/ Skips(m, m', m.sent.hop))
    BY <1>2 DEF SeesPause
  <2>2. PICK e \in Hop : e = m.sent.hop /\ Kept(m, e)
    BY <2>1, SentHop
  <2>3. NewFrom(m, e)
    BY <1>2, <2>2, PauseNeedsNoWorker DEF Ordered, NewInOrder, Forgotten
  <2> QED BY <2>1, <2>2, <2>3 DEF TakesOn, Unstarted
<1>3. CASE HearsLate /\ ~SameReports(m, m')
  <2>1. /\ m.request = None /\ m.sent # None /\ frame /\ network # <<>>
        /\ Begins(m, m', m.sent.hop)
    BY <1>3 DEF HearsLate, StopsNow, TakesEvent
  <2>2. PICK e \in Hop : e = m.sent.hop /\ Kept(m, e)
    BY <2>1, SentHop
  <2>3. NewFrom(m, e)
    BY <2>1, <2>2 DEF Ordered, NewInOrder, Forgotten
  <2> QED BY <2>1, <2>2, <2>3 DEF TakesOn, Unstarted
<1>4. CASE Bookkeeps
  BY <1>4 DEF Bookkeeps
<1> QED BY <1>1, <1>2, <1>3, <1>4 DEF ManagerStep

(* Whatever is over now was ended with the load, or redirected.              *)
LEMMA NewlyOver ==
  ASSUME Typed, Structure, Ordered, ManagerStep, NEW h \in Hop,
         m'.requests[h].report = "over", m.requests[h].report # "over"
  PROVE  HearsEnd \/ (h = m.request /\ h < browser.hop /\ ~TakesEvent("responseReceived"))
<1> SUFFICES ASSUME ~HearsEnd
             PROVE  h = m.request /\ h < browser.hop /\ ~TakesEvent("responseReceived")
  OBVIOUS
<1>1. PICK e \in Hop : TakesOn(e)
  BY ManagerMoves DEF SameReports
<1>2. h = m.request /\ m.request # None
  BY <1>1, HopOrder DEF TakesOn, Begins, Skips, Predecessor
<1>3. m.request < e
  BY <1>1, <1>2, NewIsNext DEF TakesOn
<1>4. e <= browser.hop
  <2>1. ~(e > browser.hop)
    BY <1>1 DEF TakesOn, Structure, Future
  <2>2. e \in Nat /\ browser.hop \in Nat
    BY HopOrder
  <2> QED BY <2>1, <2>2
<1>5. ~TakesEvent("responseReceived")
  <2> SUFFICES ASSUME TakesEvent("responseReceived") PROVE FALSE
    OBVIOUS
  <2>1. ~Hears /\ ~SeesPause
    BY TakesOne DEF Hears, SeesPause
  <2>2. ~HearsLate
    BY <1>2 DEF HearsLate, StopsNow
  <2>3. SameReports(m, m')
    BY <2>1, <2>2 DEF ManagerStep, Bookkeeps
  <2> QED BY <2>3 DEF SameReports
<1> QED BY <1>2, <1>3, <1>4, <1>5, HopOrder

(* A request that still waits for its pause when the load is over was the    *)
(* last one, and cancelled.                                                 *)
LEMMA WaitedIsCancelled ==
  ASSUME Typed, Structure, FlagsOK, ~Disturbed, browser.stage = "over", NEW g \in Hop,
         g <= browser.hop, expecting[g] = "yes", kind = "viaWorker" => g > 0,
         browser.pausing[g] = "yes" => browser.hop = g /\ browser.cancelled
  PROVE  g = browser.hop /\ browser.cancelled
<1>1. g \in Nat /\ browser.hop \in Nat /\ browser.hop \in Hop
  BY HopOrder
<1>2. browser.pausing[g] \in {"undecided", "yes"}
  <2>1. browser.pausing[g] \in {"undecided", "no", "yes", "cut"}
    BY TypedParts DEF Browser
  <2> QED BY <2>1 DEF Disturbed
<1>3. CASE browser.pausing[g] = "undecided"
  <2>1. g = browser.hop
    BY <1>1, <1>3 DEF Structure, Past
  <2> QED BY <1>3, <2>1 DEF FlagsOK
<1> QED BY <1>2, <1>3

LEMMA KeptIsCancelled ==
  ASSUME Typed, Structure, Ordered, FlagsOK, WaitingOK, ~Disturbed, browser.stage = "over",
         NEW g \in Hop, Kept(m, g), kind = "viaWorker" => g > 0
  PROVE  g = browser.hop /\ browser.cancelled /\ expecting[g] = "yes"
<1>1. Unstarted(g) /\ expecting[g] = "yes"
  BY DEF Unstarted, Structure, KeptIsExpected
<1>2. g <= browser.hop
  BY <1>1, UnstartedIsNew
<1>3. browser.pausing[g] = "yes" => browser.hop = g /\ browser.cancelled
  BY <1>1 DEF Ordered, UnstartedIsHeld, WaitingOK
<1> QED BY <1>1, <1>2, <1>3, WaitedIsCancelled

(* A redirected request that is never reported was cut short.                *)
LEMMA NewIsCut ==
  ASSUME Typed, Structure, Ordered, Loading, Reporting, ~Disturbed, browser.stage = "over",
         frame, kind \in {"plain", "viaWorker"},
         NEW g \in Hop, 0 < g, g <= browser.hop, ~Announced(g), m.requests[g].report = "new"
  PROVE  CutShort(g)
<1>1. CASE Kept(m, g)
  BY <1>1, KeptIsCancelled DEF Loading, Reporting, CutShort
<1>2. CASE ~Kept(m, g)
  <2>1. ~Counted(g)
    BY <1>2 DEF Reporting, BegunOK, Unstarted
  <2>2. kind = "viaWorker" /\ expecting[g] = "yes"
    <3>1. expecting[g] \in {"unheard", "yes", "no"} /\ expecting[g] # "unheard"
      BY TypedParts DEF Loading, HeardOK
    <3> QED BY <2>1, <3>1 DEF Counted
  <2>3. browser.pausing[g] # "yes"
    BY <2>2 DEF Structure, ByKind
  <2> QED BY <2>2, <2>3, WaitedIsCancelled DEF Loading, CutShort
<1> QED BY <1>1, <1>2

(* What was heard of a request stays.                                        *)
LEMMA HeardStays ==
  ASSUME Typed, Structure, ManagerStep, NEW h \in Hop, expecting[h] # "unheard"
  PROVE  expecting'[h] = expecting[h]
BY ManagerHears, HeardIsAnnounced DEF Structure, AnnouncedInOrder

LEMMA UnstartedBefore ==
  ASSUME Typed, Structure, ManagerStep, NEW h \in Hop, Unstarted(h)'
  PROVE  Unstarted(h)
<1>1. Announced(h)' \/ Kept(m', h)
  BY DEF Unstarted, Kept
<1> QED BY <1>1, ManagerHears, HeardIsAnnounced DEF Unstarted

LEMMA ManagerWaiting ==
  ASSUME Typed, Structure, Ordered, WaitingOK, ManagerStep
  PROVE  WaitingOK'
<1>1. browser' = browser /\ (\A h \in Hop : h \in Nat)
  BY ManagerQueues, HopOrder
<1>2. ASSUME NEW h \in Hop, Kept(m', h) PROVE m'.requests[h].report = "new"
  <2>1. CASE Hears /\ Head(network).hop = h
    <3>1. Announced(h) /\ ~Kept(m, h)
      <4>1. Announced(h)
        BY <2>1, HeardIsAnnounced
      <4> QED BY <1>1, <4>1 DEF Structure, AnnouncedInOrder
    <3>2. SameReports(m, m')
      BY <1>2, <2>1, <3>1 DEF Hears, Kept
    <3> QED BY <3>1, <3>2, UnstartedIsNew DEF Unstarted, SameReports
  <2>2. CASE ~(Hears /\ Head(network).hop = h)
    <3>1. Kept(m, h) /\ m.sent # None /\ m'.sent # None
      BY <1>2, <2>2, ManagerHears DEF Kept
    <3>2. m.requests[h].report = "new" /\ m.request # h
      BY <3>1, UnstartedIsNew DEF Unstarted
    <3>3. CASE Hears
      <4>1. Head(network).hop \in Hop /\ Head(network).hop # h
        BY <2>2, <3>3, HeardIsAnnounced
      <4> QED BY <3>2, <3>3, <4>1, HopOrder DEF Hears, SameReports, Begins, Skips, Predecessor
    <3>4. CASE ~Hears
      BY <3>1, <3>2, <3>4
         DEF ManagerStep, Bookkeeps, SeesPause, HearsLate, HearsEnd, StopsNow, SameReports, IsOver
    <3> QED BY <3>3, <3>4
  <2> QED BY <2>1, <2>2
<1>3. ASSUME m'.request # None, NEW k \in Hop, k > m'.request PROVE m'.requests[k].report = "new"
  <2>1. CASE SameReports(m, m')
    BY <1>3, <2>1 DEF SameReports, WaitingOK
  <2>2. CASE HearsEnd
    <3>1. SameReports(m, m')
      BY <1>3, <2>2 DEF HearsEnd, IsOver
    <3> QED BY <2>1, <3>1
  <2>3. ASSUME NEW e \in Hop, TakesOn(e) PROVE m'.requests[k].report = "new"
    <3>1. m.request # None => m.request < e /\ m.request \in Hop
      BY <2>3, NewIsNext DEF TakesOn
    <3>2. CASE Begins(m, m', e)
      <4>1. k > e /\ m.requests[k].report = "new"
        BY <1>1, <1>3, <2>3, <3>2 DEF Begins, TakesOn, NewFrom
      <4>2. k # Predecessor(m, e) /\ k # e
        BY <1>1, <3>1, <4>1, HopOrder DEF Predecessor
      <4> QED BY <3>2, <4>1, <4>2 DEF Begins
    <3>3. CASE Skips(m, m', e)
      <4>1. Predecessor(m, e) = None /\ m'.request = m.request
        BY <1>3, <3>3 DEF Skips
      <4>2. k # Predecessor(m, e)
        BY <4>1, HopOrder
      <4> QED BY <1>3, <3>3, <4>1, <4>2 DEF Skips, WaitingOK
    <3> QED BY <2>3, <3>2, <3>3 DEF TakesOn
  <2> QED BY <2>1, <2>2, <2>3, ManagerMoves
<1>4. \A h \in Hop : (Unstarted(h) /\ browser.pausing[h] = "yes" /\ browser.stage = "over" => browser.cancelled)'
  BY <1>1, UnstartedBefore DEF WaitingOK
<1>5. \A h \in Hop : (Kept(m, h) => m.requests[h].report = "new")'
  BY <1>2 DEF Kept
<1> QED BY <1>3, <1>4, <1>5 DEF WaitingOK

LEMMA CutShortStays ==
  ASSUME Typed, Structure, ManagerStep, NEW h \in Hop, CutShort(h)
  PROVE  CutShort(h)'
<1>1. expecting'[h] = expecting[h] /\ browser' = browser
  BY HeardStays, ManagerQueues DEF CutShort
<1> QED BY <1>1 DEF CutShort

(* The last event handled is the end of the load.                            *)
LEMMA LastIsEnd ==
  ASSUME Typed, Structure, NetworkOK, ManagerStep, network # <<>>, EndHandled'
  PROVE  /\ Head(network).event \in Ending /\ Len(network) = 1 /\ network[1] = Head(network)
         /\ \A i \in DOMAIN network : i = 1
         /\ browser.stage = "over" /\ kind # "foreign" /\ network' = Tail(network)
<1>1. network \in Seq(NetworkEvent) /\ kind # "foreign" /\ browser.stage = "over" /\ network' = <<>>
  BY TypedParts, ManagerQueues DEF EndHandled
<1>2. network' = Tail(network)
  BY <1>1, ManagerQueues
<1>3. /\ Len(network) \in Nat /\ DOMAIN network = 1..Len(network)
      /\ Len(Tail(network)) = Len(network) - 1 /\ network[1] = Head(network)
  BY <1>1, TailItems
<1>4. Len(network) = 1
  <2>1. Len(network') = 0
    BY <1>1, EmptySeq
  <2> QED BY <1>2, <1>3, <2>1
<1> QED BY <1>1, <1>2, <1>3, <1>4 DEF NetworkOK, ListOK

LEMMA ManagerEndOK ==
  ASSUME Typed, Structure, Ordered, Loading, Reporting, ~Disturbed, ManagerStep
  PROVE  EndOK'
<1> SUFFICES ASSUME EndHandled'
             PROVE  /\ (m.request # None => CutShort(m.request))'
                    /\ (kind # "viaWorker" => \A h \in Hop : Kept(m, h) => CutShort(h))'
                    /\ (kind = "viaWorker" /\ frame /\ browser.hop = 0 /\ Kept(m, 0)
                          => ~browser.answered /\ ~browser.failed)'
  BY DEF EndOK
<1>1. /\ kind' = kind /\ browser' = browser /\ kind # "foreign" /\ browser.stage = "over"
      /\ 0 \in Hop /\ (\A h \in Hop : h \in Nat)
  BY ManagerQueues, HopOrder DEF EndHandled
<1>2. ASSUME m'.request # None => \E h \in Hop : h = m'.request /\ CutShort(h),
             kind # "viaWorker" => \A h \in Hop : Kept(m', h) => CutShort(h),
             kind = "viaWorker" /\ frame' /\ browser.hop = 0 /\ Kept(m', 0)
               => ~browser.answered /\ ~browser.failed
      PROVE  /\ (m.request # None => CutShort(m.request))'
             /\ (kind # "viaWorker" => \A h \in Hop : Kept(m, h) => CutShort(h))'
             /\ (kind = "viaWorker" /\ frame /\ browser.hop = 0 /\ Kept(m, 0)
                   => ~browser.answered /\ ~browser.failed)'
  <2>1. (m.request # None => CutShort(m.request))'
    <3> SUFFICES ASSUME m'.request # None PROVE CutShort(m.request)'
      OBVIOUS
    <3>1. PICK h \in Hop : h = m'.request /\ CutShort(h)
      BY <1>2
    <3>2. CutShort(h)'
      BY <3>1, CutShortStays
    <3> QED BY <3>1, <3>2 DEF CutShort
  <2>2. (kind # "viaWorker" => \A h \in Hop : Kept(m, h) => CutShort(h))'
    BY <1>1, <1>2, CutShortStays DEF Kept
  <2>3. (kind = "viaWorker" /\ frame /\ browser.hop = 0 /\ Kept(m, 0) => ~browser.answered /\ ~browser.failed)'
    BY <1>1, <1>2 DEF Kept
  <2> QED BY <2>1, <2>2, <2>3
(* The end was handled before.                                              *)
<1>3. CASE network = <<>>
  <2>1. EndHandled
    BY <1>1, <1>3 DEF EndHandled
  <2>2. ~Hears /\ ~HearsLate /\ ~HearsEnd
    BY <1>3 DEF Hears, HearsLate, HearsEnd, TakesEvent
  <2>3. frame' => frame
    BY <2>2 DEF ManagerStep, Bookkeeps, SeesPause
  <2>4. m.request # None => m.request \in Hop /\ CutShort(m.request)
    BY <2>1, ListedIsLive DEF Reporting, EndOK
  <2>5. kind # "viaWorker" => \A h \in Hop : Kept(m, h) => CutShort(h)
    BY <2>1 DEF Reporting, EndOK
  <2>6. CASE m'.sent = m.sent /\ m'.request = m.request
    <3>1. kind = "viaWorker" /\ frame' /\ browser.hop = 0 /\ Kept(m', 0) => ~browser.answered /\ ~browser.failed
      BY <2>1, <2>3, <2>6 DEF Reporting, EndOK, Kept
    <3> QED BY <1>2, <2>4, <2>5, <2>6, <3>1 DEF Kept
  <2>7. CASE ~(m'.sent = m.sent /\ m'.request = m.request)
    <3>1. SeesPause
      BY <2>2, <2>7 DEF ManagerStep, Bookkeeps, SameReports, KeepsBoth
    <3>2. /\ m.sent # None /\ m'.sent = None
          /\ Begins(m, m', m.sent.hop) \/ Skips(m, m', m.sent.hop)
      BY <2>7, <3>1 DEF SeesPause, SameReports, KeepsBoth
    <3>3. PICK e \in Hop : e = m.sent.hop /\ Kept(m, e)
      BY <3>2, SentHop
    <3>4. CutShort(e)
      BY <2>5, <3>1, <3>3, PauseNeedsNoWorker
    <3>5. m'.request # None => m'.request = e \/ m'.request = m.request
      BY <3>2, <3>3 DEF Begins, Skips
    <3>6. m'.request # None => \E h \in Hop : h = m'.request /\ CutShort(h)
      BY <2>4, <3>4, <3>5
    <3>7. \A h \in Hop : ~Kept(m', h)
      BY <3>2 DEF Kept
    <3> QED BY <1>1, <1>2, <3>6, <3>7
  <2> QED BY <2>6, <2>7
(* It is handled now.                                                       *)
<1>4. CASE network # <<>>
  <2>1. /\ Head(network).event \in Ending /\ Len(network) = 1 /\ network[1] = Head(network)
        /\ \A i \in DOMAIN network : i = 1
        /\ network' = Tail(network) /\ network' # network
    <3>1. network' = <<>>
      BY DEF EndHandled
    <3> QED BY <1>4, <3>1, LastIsEnd DEF Loading
  <2>2. 1 \in DOMAIN network
    BY <1>4, TypedParts, TailItems
  <2>3. /\ Head(network).event = "loadingFinished" => ~browser.failed
        /\ Head(network).event = "loadingFailed" => browser.failed
    BY <2>1, <2>2 DEF Loading, NetworkOK, ListOK
  <2>4. ~Responding
    BY <2>1 DEF Responding, Responds, Ending
  <2>5. ~Hears /\ ~HearsLate /\ ~SeesPause
    BY <2>1 DEF Hears, HearsLate, SeesPause, TakesEvent, Ending
  <2>6. /\ m'.request = None /\ (frame' => frame)
        /\ \/ m'.sent = None
           \/ m'.sent = m.sent /\ (Head(network).event = "loadingFinished" \/ m.request # None)
    <3>1. CASE Bookkeeps
      <4>1. LeavesBe
        BY <2>1, <3>1 DEF Bookkeeps
      <4> QED BY <2>1, <3>1, <4>1 DEF Bookkeeps, LeavesBe, KeepsBoth, SameReports, Ending
    <3>2. CASE HearsEnd
      BY <3>2 DEF HearsEnd, IsOver, SameReports, StopsNow, KeepsBoth
    <3> QED BY <2>5, <3>1, <3>2 DEF ManagerStep
  <2>7. ASSUME NEW h \in Hop, Kept(m', h), kind # "viaWorker" PROVE CutShort(h)
    <3>1. /\ Kept(m, h)
          /\ Head(network).event = "loadingFinished" \/ m.request # None
      BY <2>6, <2>7 DEF Kept
    <3>2. h = browser.hop /\ browser.cancelled /\ expecting[h] = "yes"
      BY <1>1, <2>7, <3>1, KeptIsCancelled DEF Loading, Reporting
    <3>3. m.request # None
      BY <2>3, <3>1, <3>2 DEF Loading, FlagsOK
    <3>4. NewFrom(m, h)
      BY <2>7, <3>1 DEF Ordered, NewInOrder, Forgotten
    <3>5. h > 0
      BY <1>1, <3>3, <3>4, NewIsNext
    <3> QED BY <3>2, <3>5 DEF CutShort
  <2>8. ASSUME kind = "viaWorker", frame', browser.hop = 0, Kept(m', 0)
        PROVE  ~browser.answered /\ ~browser.failed
    <3>1. /\ Kept(m, 0)
          /\ Head(network).event = "loadingFinished" \/ m.request # None
      BY <2>6, <2>8 DEF Kept
    <3>2. m.requests[0].report = "new" /\ m.request # 0
      BY <1>1, <3>1, UnstartedIsNew DEF Unstarted, Reporting
    <3>3. m.request = None
      BY <2>8, <3>2, ListedIsLive
    <3>4. ~browser.failed
      BY <2>3, <3>1, <3>3
    <3>5. m.requests[0].response = "none"
      BY <1>1, <3>2 DEF Reporting, ResponsesOK
    <3>6. ~browser.answered
      BY <2>4, <2>6, <2>8, <3>5 DEF Reporting, ResponsesOK, Counted
    <3> QED BY <3>4, <3>6
  <2> QED BY <1>2, <2>6, <2>7, <2>8
<1> QED BY <1>3, <1>4

LEMMA ManagerBegun ==
  ASSUME Typed, Structure, Ordered, Loading, Reporting, ~Disturbed, ManagerStep
  PROVE  BegunOK'
<1>1. /\ kind' = kind /\ browser' = browser /\ (\A h \in Hop : h \in Nat) /\ browser.hop \in Nat
  BY ManagerQueues, HopOrder
<1>2. frame' => frame
  BY DEF ManagerStep, Bookkeeps, Hears, SeesPause, HearsLate, HearsEnd
<1>3. ASSUME frame', browser.stage # "none", NEW h \in Hop, h <= browser.hop, Counted(h)', ~Unstarted(h)'
      PROVE  m'.requests[h].report # "new"
  <2>1. frame /\ kind # "preflight" /\ kind # "foreign"
    BY <1>1, <1>2, <1>3 DEF Counted
  <2>2. CASE ~Unstarted(h)
    <3>1. expecting'[h] = expecting[h]
      BY <2>2, ManagerHears, HeardIsAnnounced DEF Unstarted
    <3>2. Counted(h)
      BY <1>1, <1>3, <3>1 DEF Counted
    <3>3. m.requests[h].report # "new"
      BY <1>3, <2>1, <2>2, <3>2 DEF Reporting, BegunOK
    <3> QED BY <3>3, NeverNewAgain
  <2>3. CASE Announced(h)
    <3>1. Hears /\ Head(network).hop = h
      BY <1>3, <2>3, ManagerHears DEF Unstarted
    <3>2. m'.sent # [hop |-> h, redirected |-> Head(network).hasExtraInfo] \/ m'.sent = None
      BY <1>3 DEF Unstarted, Kept
    <3>3. Begins(m, m', h)
      <4>1. [hop |-> h, redirected |-> Head(network).hasExtraInfo] # None
        <5>1. network \in Seq(NetworkEvent) /\ network # <<>>
          BY <3>1, TypedParts DEF Hears, TakesEvent
        <5>2. Head(network) \in NetworkEvent
          BY <5>1, TailType
        <5>3. [hop |-> h, redirected |-> Head(network).hasExtraInfo] \in Sent
          BY <5>2 DEF NetworkEvent, Sent
        <5> QED BY <5>3, NoneAssumption DEF Sent, Hop
      <4> QED BY <2>1, <3>1, <3>2, <4>1 DEF Hears
    <3> QED BY <3>3 DEF Begins
  <2>4. CASE Kept(m, h)
    <3>1. ~Kept(m', h) /\ m.sent # None /\ m.sent.hop = h
      BY <1>3, <2>4 DEF Unstarted, Kept
    <3>2. CASE Bookkeeps
      BY <3>1, <3>2 DEF Bookkeeps, KeepsBoth, Kept
    <3>3. CASE Hears
      <4>1. PICK g \in Hop : g = Head(network).hop /\ Announced(g)
        BY <3>3, HeardIsAnnounced
      <4>2. kind = "viaWorker" /\ h = 0 /\ h < g
        BY <2>4, <4>1, KeptForWorker DEF Structure, AnnouncedInOrder
      <4>3. browser.hop # 0
        <5>1. g <= browser.hop
          BY <4>1, UnstartedIsNew DEF Unstarted, Reporting
        <5> QED BY <1>1, <4>2, <5>1
      <4>4. expecting'[h] = "yes"
        <5>1. expecting[h] = "yes"
          BY <2>4 DEF Structure, KeptIsExpected
        <5> QED BY <5>1, HeardStays
      <4> QED BY <1>1, <1>3, <4>2, <4>3, <4>4 DEF Counted
    <3>4. CASE SeesPause
      BY <2>1, <3>1, <3>4 DEF SeesPause, KeepsBoth, Begins, Kept
    <3>5. CASE HearsLate
      BY <2>1, <3>1, <3>5 DEF HearsLate, Begins
    <3>6. CASE HearsEnd
      BY <2>1, <3>1, <3>6 DEF HearsEnd, KeepsBoth, IsOver, Kept
    <3> QED BY <3>2, <3>3, <3>4, <3>5, <3>6 DEF ManagerStep
  <2> QED BY <2>2, <2>3, <2>4 DEF Unstarted
<1> QED BY <1>1, <1>3 DEF BegunOK

LEMMA OverIsStarted ==
  ASSUME Typed, Structure, Ordered, WaitingOK, NEW h \in Hop, m.requests[h].report # "new"
  PROVE  ~Unstarted(h) /\ ~Kept(m, h)
BY UnstartedIsNew DEF Unstarted

(* When the last request has just ended, so has the load.                    *)
LEMMA LastIsOver ==
  ASSUME Typed, Structure, Ordered, ManagerStep,
         m'.requests[browser.hop].report = "over", m.requests[browser.hop].report # "over"
  PROVE  HearsEnd /\ EndHandled'
<1>1. browser.hop \in Hop /\ browser.hop \in Nat
  BY HopOrder
<1>2. HearsEnd
  BY <1>1, NewlyOver
<1>3. kind # "foreign"
  BY <1>2 DEF Structure, ByKind, HearsEnd, TakesEvent
<1> QED BY <1>2, <1>3, EndEmptiesNetwork, ManagerQueues DEF EndHandled

(* The end of a load before its last request was reported: that one was cut  *)
(* short.                                                                   *)
LEMMA EndedBefore ==
  ASSUME Typed, Structure, Ordered, Loading, Reporting, ~Disturbed, ManagerStep, HearsEnd,
         frame, kind \in {"plain", "viaWorker"},
         NEW h \in Hop, h < browser.hop, m'.requests[h].report = "over", m.requests[h].report # "over"
  PROVE  CutShort(h + 1)
<1>1. browser.stage = "over" /\ network # <<>> /\ ~Hears
  BY EndEmptiesNetwork DEF HearsEnd, TakesEvent, Hears
<1>2. h \in Nat /\ browser.hop \in Nat /\ h + 1 \in Hop /\ h + 1 \in Nat /\ (\A g \in Hop : g \in Nat)
  <2>1. h \in Nat /\ browser.hop \in Hop /\ browser.hop \in Nat /\ (\A g \in Hop : g \in Nat)
    BY HopOrder
  <2>2. h + 1 \in Hop
    BY <2>1, BoundAssumption DEF Hop
  <2> QED BY <2>1, <2>2
<1>3. ~Announced(h + 1)
  <2>1. ~Announced(h + 1)'
    BY EndEmptiesNetwork DEF Announced, AnnouncedIn
  <2> QED BY <1>1, <1>2, <2>1, ManagerHears
<1>4. m.requests[h + 1].report = "new"
  <2>1. CASE m.request = h
    <3>1. m.request # None /\ h + 1 > m.request
      BY <1>2, <2>1, HopOrder
    <3> QED BY <1>2, <3>1 DEF Reporting, WaitingOK
  <2>2. CASE m.request # h
    <3>1. m.request = None /\ m.sent # None /\ m.sent.hop = h
      BY <2>2 DEF HearsEnd, IsOver, SameReports, StopsNow
    <3>2. Kept(m, h)
      BY <3>1 DEF Kept
    <3>3. NewFrom(m, h)
      BY <1>1, <3>1, <3>2 DEF Ordered, NewInOrder, Forgotten
    <3> QED BY <1>2, <3>3 DEF NewFrom
  <2> QED BY <2>1, <2>2
<1>5. 0 < h + 1 /\ h + 1 <= browser.hop
  BY <1>2
<1> QED BY <1>1, <1>2, <1>3, <1>4, <1>5, NewIsCut

(* Once a request is over its answer stays.                                  *)
LEMMA OverAnswerStays ==
  ASSUME Typed, Typed', Structure, Ordered, Reporting, ManagerStep, AnswersStep,
         NEW h \in Hop, m.requests[h].report = "over", m'.requests[h].report = "over"
  PROVE  SameAnswer(m, m', h)
<1>1. ~Unstarted(h) /\ ~Kept(m, h)
  BY OverIsStarted DEF Reporting
<1>2. h # m.request /\ h # m'.request
  BY TypedParts, HopOrder DEF Typed, TypeOK
<1> QED BY <1>1, <1>2 DEF AnswersStep, AnswersGoOn, AnswersCome, AnswersEnd, LoadFails

LEMMA ManagerOver ==
  ASSUME Typed, Typed', Structure, Ordered, Loading, Reporting, ~Disturbed, ManagerStep, AnswersStep
  PROVE  OverOK'
<1>1. kind' = kind /\ browser' = browser /\ browser.hop \in Hop /\ browser.hop \in Nat
  BY ManagerQueues, HopOrder
<1>2. frame' => frame
  BY DEF ManagerStep, Bookkeeps, Hears, SeesPause, HearsLate, HearsEnd
<1>3. ASSUME m'.requests[browser.hop].report = "over" PROVE EndHandled'
  <2>1. CASE m.requests[browser.hop].report = "over"
    <3>1. EndHandled
      BY <2>1 DEF Reporting, OverOK
    <3> QED BY <1>1, <3>1, ManagerQueues DEF EndHandled
  <2> QED BY <1>3, <2>1, LastIsOver
<1>4. ASSUME frame', kind \in {"plain", "viaWorker"}, NEW h \in Hop, m'.requests[h].report = "over",
             h < browser.hop, ~CutShort(h + 1)'
      PROVE  Redirected(m', h)
  <2>1. ~CutShort(h + 1)
    <3>1. h + 1 \in Hop
      BY <1>1, <1>4, HopOrder, BoundAssumption DEF Hop
    <3> QED BY <1>4, <3>1, CutShortStays
  <2>2. CASE m.requests[h].report = "over"
    <3>1. Redirected(m, h)
      BY <1>2, <1>4, <2>1, <2>2 DEF Reporting, OverOK
    <3>2. SameAnswer(m, m', h)
      BY <1>4, <2>2, OverAnswerStays
    <3> QED BY <3>1, <3>2 DEF Redirected, SameAnswer
  <2>3. CASE m.requests[h].report # "over"
    <3>1. ~HearsEnd
      BY <1>2, <1>4, <2>1, <2>3, EndedBefore
    <3>2. h = m.request /\ ~TakesEvent("responseReceived")
      BY <1>4, <2>3, <3>1, NewlyOver
    <3>3. ~TakesEvent("loadingFinished") /\ ~TakesEvent("loadingFailed")
      <4>1. ASSUME TakesEvent("loadingFinished") \/ TakesEvent("loadingFailed")
            PROVE  SameReports(m, m')
        BY <3>1, <4>1, TakesOne DEF ManagerStep, Bookkeeps, Hears, SeesPause, HearsLate
      <4> QED BY <1>4, <2>3, <4>1 DEF SameReports
    <3>4. AnswersGoOn
      BY <3>2, <3>3 DEF AnswersStep
    <3>5. ~Unstarted(h)
      BY <3>2, UnstartedIsNew DEF Reporting
    <3> QED BY <1>4, <2>3, <3>4, <3>5 DEF AnswersGoOn
  <2> QED BY <2>2, <2>3
<1>5. ASSUME frame', Counted(browser.hop)', m'.requests[browser.hop].report = "over",
             ~CutShort(browser.hop)'
      PROVE  m'.requests[browser.hop].failed = (browser.failed /\ ~browser.empty)
  <2>1. ~CutShort(browser.hop)
    BY <1>1, <1>5, CutShortStays DEF CutShort
  <2>2. CASE m.requests[browser.hop].report = "over"
    <3>1. network = <<>>
      BY <2>2 DEF Reporting, OverOK, EndHandled
    <3>2. expecting' = expecting
      BY <3>1, ManagerQueues DEF Hears, TakesEvent
    <3>3. Counted(browser.hop)
      BY <1>1, <1>5, <3>2 DEF Counted
    <3>4. m.requests[browser.hop].failed = (browser.failed /\ ~browser.empty)
      BY <1>2, <1>5, <2>1, <2>2, <3>3 DEF Reporting, OverOK
    <3>5. SameAnswer(m, m', browser.hop)
      BY <1>1, <1>5, <2>2, OverAnswerStays
    <3> QED BY <3>4, <3>5 DEF SameAnswer
  <2>3. CASE m.requests[browser.hop].report # "over"
    <3>1. HearsEnd /\ EndHandled' /\ network # <<>> /\ network \in Seq(NetworkEvent)
      BY <1>5, <2>3, LastIsOver, TypedParts DEF HearsEnd, TakesEvent
    <3>2. 1 \in DOMAIN network /\ network[1] = Head(network) /\ \A i \in DOMAIN network : i = 1
      BY <3>1, LastIsEnd, TailItems DEF Loading
    <3>3. /\ Head(network).event = "loadingFinished" => ~browser.failed
          /\ Head(network).event = "loadingFailed" => browser.failed
      BY <3>2 DEF Loading, NetworkOK, ListOK
    <3>4. Counted(browser.hop)
      <4>1. expecting' = expecting
        BY <3>1 DEF HearsEnd
      <4> QED BY <1>1, <1>5, <4>1 DEF Counted
    <3>5. CASE TakesEvent("loadingFinished")
      <4>1. AnswersEnd
        BY <3>5, TakesOne DEF AnswersStep
      <4>2. browser.hop = m.request
        <5>1. ~TakesEvent("loadingFailed")
          BY <3>5, TakesOne
        <5> QED BY <1>1, <1>5, <2>3, <3>1, <5>1 DEF HearsEnd, IsOver
      <4>3. ~m'.requests[browser.hop].failed /\ ~browser.failed
        BY <1>1, <3>3, <3>5, <4>1, <4>2 DEF AnswersEnd, TakesEvent
      <4>4. m'.requests[browser.hop].failed \in BOOLEAN
        BY <1>1 DEF Typed, TypeOK, Manager, Request
      <4> QED BY <4>3, <4>4
    <3>6. CASE TakesEvent("loadingFailed")
      <4>1. LoadFails(m, m') /\ browser.failed
        BY <3>3, <3>6, TakesOne DEF AnswersStep, TakesEvent
      <4>2. FailsAt(m', browser.hop)
        BY <1>1, <1>5, <2>3, <4>1 DEF LoadFails
      <4>3. \/ KeepsResponse(m, m', browser.hop)
            \/ browser.hop # m.request /\ m'.requests[browser.hop].response = "none"
        BY <1>1, <4>1 DEF LoadFails
      <4>4. CASE m'.requests[browser.hop].response # "none"
        <5>1. m'.requests[browser.hop].empty = browser.empty
          BY <4>3, <4>4 DEF KeepsResponse, Reporting, ResponsesOK
        <5> QED BY <4>1, <4>2, <4>4, <5>1 DEF FailsAt
      <4>5. CASE m'.requests[browser.hop].response = "none"
        <5>1. ~browser.empty
          <6> SUFFICES ASSUME browser.empty PROVE FALSE
            OBVIOUS
          <6>1. browser.answered
            BY DEF Loading, FlagsOK
          <6>2. ~Responding
            BY <3>2, <3>6 DEF Responding, Responds, TakesEvent
          <6>3. m.requests[browser.hop].response # "none"
            BY <1>2, <1>5, <3>4, <6>1, <6>2 DEF Reporting, ResponsesOK
          <6>4. browser.hop # m.request
            BY <4>3, <4>5, <6>3 DEF KeepsResponse
          <6>5. Kept(m, browser.hop)
            BY <1>1, <1>5, <2>3, <3>1, <6>4 DEF HearsEnd, IsOver, SameReports, StopsNow, Kept
          <6> QED BY <1>1, <6>3, <6>5 DEF Reporting, WaitingOK, ResponsesOK
        <5> QED BY <4>1, <4>2, <4>5, <5>1 DEF FailsAt
      <4> QED BY <4>4, <4>5
    <3> QED BY <3>1, <3>5, <3>6 DEF HearsEnd
  <2> QED BY <2>2, <2>3
<1>6. (m.requests[browser.hop].report = "over" => EndHandled)'
  BY <1>1, <1>3
<1>7. (frame /\ kind \in {"plain", "viaWorker"} =>
         \A h \in Hop : m.requests[h].report = "over" /\ h < browser.hop /\ ~CutShort(h + 1) =>
           Redirected(m, h))'
  BY <1>1, <1>4 DEF Redirected
<1>8. (frame /\ Counted(browser.hop) /\ m.requests[browser.hop].report = "over" /\ ~CutShort(browser.hop)
         => m.requests[browser.hop].failed = (browser.failed /\ ~browser.empty))'
  BY <1>1, <1>5
<1> QED BY <1>6, <1>7, <1>8 DEF OverOK

(* The responses that the manager sees from the head of the network.         *)
LEMMA HeadResponds ==
  ASSUME Typed, NetworkOK, TakesEvent("responseReceived")
  PROVE  /\ Head(network).hop = browser.hop /\ Head(network).empty = browser.empty
         /\ browser.answered /\ Responding /\ \A h \in Hop : ~Announced(h)
<1>1. network \in Seq(NetworkEvent) /\ network # <<>> /\ Head(network).event = "responseReceived"
  BY TypedParts DEF TakesEvent
<1>2. 1 \in DOMAIN network /\ network[1] = Head(network) /\ \A i \in DOMAIN network : ~(i < 1)
  BY <1>1, TailItems
<1>3. \A i \in DOMAIN network : network[i].event # "requestWillBeSent"
  BY <1>1, <1>2 DEF NetworkOK, ListOK
<1> QED BY <1>1, <1>2, <1>3 DEF NetworkOK, ListOK, Responding, Responds, Announced, AnnouncedIn

(* An answer of the last request finds that request listed.                  *)
LEMMA AnswerFindsLast ==
  ASSUME Typed, Structure, Ordered, Loading, Reporting, ~Disturbed, ManagerStep,
         TakesEvent("responseReceived"), frame, Counted(browser.hop)
  PROVE  m'.request = browser.hop
<1>1. /\ browser.hop \in Hop /\ browser.hop \in Nat /\ network # <<>>
      /\ browser.answered /\ ~Announced(browser.hop) /\ 0 \in Hop
  BY HeadResponds, HopOrder DEF Loading, TakesEvent
<1>2. browser.stage \in {"answered", "over"} /\ ~browser.cancelled
  BY <1>1 DEF Loading, FlagsOK
<1>3. ~Hears /\ ~SeesPause /\ ~HearsEnd
  <2>1. network' # network /\ \A other : TakesEvent(other) => other = "responseReceived"
    BY TakesOne
  <2>2. ~TakesEvent("requestWillBeSent") /\ ~TakesEvent("loadingFinished") /\ ~TakesEvent("loadingFailed")
    BY <2>1
  <2> QED BY <2>1, <2>2 DEF Hears, SeesPause, HearsEnd
<1>4. CASE Kept(m, browser.hop)
  <2>1. m.requests[browser.hop].report = "new" /\ m.request # browser.hop
    BY <1>1, <1>4, UnstartedIsNew DEF Unstarted, Reporting
  <2>2. expecting[browser.hop] = "yes"
    BY <1>1, <1>4 DEF Structure, KeptIsExpected
  <2>3. kind = "viaWorker" /\ browser.hop = 0
    <3> SUFFICES ASSUME kind # "viaWorker" PROVE FALSE
      BY <2>2 DEF Counted
    <3>1. browser.pausing[browser.hop] = "yes"
      <4>1. browser.pausing[browser.hop] # "undecided"
        BY <1>1, <1>2 DEF Structure, Past, Loading, FlagsOK
      <4>2. browser.pausing[browser.hop] \notin {"no", "cut"}
        BY <1>1, <2>2 DEF Disturbed
      <4>3. browser.pausing[browser.hop] \in {"undecided", "no", "yes", "cut"}
        BY <1>1, TypedParts DEF Browser
      <4> QED BY <4>1, <4>2, <4>3
    <3>2. Unstarted(browser.hop)
      BY <1>4 DEF Unstarted
    <3>3. browser.stage = "over"
      BY <1>1, <1>2, <3>1, <3>2 DEF Ordered, UnstartedIsHeld
    <3> QED BY <1>1, <1>2, <3>1, <3>2, <3>3 DEF Reporting, WaitingOK
  <2>4. m.request = None
    BY <2>1, <2>3, ListedIsLive
  <2>5. m.sent # None /\ m.sent.hop = browser.hop
    BY <1>4 DEF Kept
  <2>6. ~Bookkeeps
    <3>1. ~LeavesBe
      BY <2>3, <2>4, <2>5 DEF LeavesBe, TakesEvent
    <3>2. network' # network
      BY TakesOne
    <3> QED BY <3>1, <3>2 DEF Bookkeeps
  <2>7. HearsLate
    BY <1>3, <2>6 DEF ManagerStep
  <2> QED BY <2>5, <2>7 DEF HearsLate, Begins
<1>5. CASE ~Kept(m, browser.hop)
  <2>1. m.requests[browser.hop].report # "new"
    BY <1>1, <1>2, <1>5 DEF Reporting, BegunOK, Unstarted
  <2>2. m.requests[browser.hop].report # "over"
    BY <1>1 DEF Reporting, OverOK, EndHandled
  <2>3. m.requests[browser.hop].report = "live"
    BY <1>1, <2>1, <2>2, TypedParts DEF ManagerTyped, Manager, Request
  <2>4. m.request = browser.hop /\ m.request # None
    BY <1>1, <2>3, HopOrder DEF Ordered, OneIsLive, Live
  <2>5. SameReports(m, m')
    BY <1>3, <2>4 DEF ManagerStep, Bookkeeps, HearsLate, StopsNow
  <2> QED BY <2>4, <2>5 DEF SameReports
<1> QED BY <1>4, <1>5

(* What a step that neither answers nor ends a load does to the answers.     *)
LEMMA AnswersKept ==
  ASSUME Typed, Structure, Ordered, Reporting, ManagerStep, AnswersGoOn,
         \A name \in {"responseReceived", "loadingFinished", "loadingFailed"} : ~TakesEvent(name),
         NEW h \in Hop
  PROVE  \/ SameAnswer(m, m', h)
         \/ Unstarted(h) /\ Fresh(m', h)
         \/ h < browser.hop /\ Redirected(m', h) /\ h = m.request
<1>1. Unstarted(h) => h # m.request
  BY UnstartedIsNew DEF Reporting
<1>2. ASSUME h = m.request, m'.requests[h].report = "over"
      PROVE  h < browser.hop
  <2>1. m.requests[h].report # "over"
    BY <1>2, HopOrder, ListedIsLive
  <2>2. ~HearsEnd
    BY DEF HearsEnd
  <2> QED BY <1>2, <2>1, <2>2, NewlyOver
<1> QED BY <1>1, <1>2 DEF AnswersGoOn

LEMMA ManagerResponses ==
  ASSUME Typed, Typed', Structure, Structure', Ordered, Loading, Reporting, ~Disturbed,
         ManagerStep, AnswersStep
  PROVE  ResponsesOK'
<1>1. kind' = kind /\ browser' = browser /\ browser.hop \in Hop /\ browser.hop \in Nat
  BY ManagerQueues, HopOrder
<1>2. frame' => frame
  BY DEF ManagerStep, Bookkeeps, Hears, SeesPause, HearsLate, HearsEnd
<1>3. m'.request # None => /\ m'.request \in Hop /\ m'.requests[m'.request].report = "live"
                           /\ m'.request <= browser.hop
  <2> SUFFICES ASSUME m'.request # None
               PROVE  /\ m'.request \in Hop /\ m'.requests[m'.request].report = "live"
                      /\ m'.request <= browser.hop
    OBVIOUS
  <2>1. m'.request \in Hop /\ m'.requests[m'.request].report = "live"
    BY DEF Typed, TypeOK, Manager
  <2>2. ~(m'.request > browser'.hop)
    BY <2>1 DEF Structure, Future
  <2>3. m'.request \in Nat
    BY <2>1, HopOrder
  <2> QED BY <1>1, <2>1, <2>2, <2>3
(* What the three parts need of each request.                               *)
<1>4. ASSUME NEW h \in Hop
      PROVE  /\ m'.requests[h].response # "none" => h <= browser.hop /\ Answered(h)
             /\ m'.requests[h].report = "new" => m'.requests[h].response = "none"
             /\ h = browser.hop /\ m'.requests[h].response # "none" =>
                  m'.requests[h].empty = browser.empty
  <2>1. /\ m.requests[h].response # "none" => h <= browser.hop /\ Answered(h)
        /\ m.requests[h].report = "new" => m.requests[h].response = "none"
        /\ h = browser.hop /\ m.requests[h].response # "none" => m.requests[h].empty = browser.empty
    BY DEF Reporting, ResponsesOK
  <2>2. m'.requests[h].report = "new" => m.requests[h].report = "new"
    BY NeverNewAgain
  <2>3. CASE KeepsResponse(m, m', h) \/ m'.requests[h].response = "none"
    BY <2>1, <2>2, <2>3 DEF KeepsResponse
  <2>4. CASE ~(KeepsResponse(m, m', h) \/ m'.requests[h].response = "none")
    <3>1. CASE AnswersGoOn /\ \A name \in {"responseReceived", "loadingFinished", "loadingFailed"} : ~TakesEvent(name)
      <4>1. h < browser.hop /\ h = m.request
        BY <2>4, <3>1, AnswersKept DEF SameAnswer, KeepsResponse, Fresh
      <4>2. m.requests[h].report = "live" /\ h \in Nat
        BY <4>1, HopOrder, ListedIsLive
      <4> QED BY <1>1, <2>2, <4>1, <4>2 DEF Answered
    <3>2. CASE AnswersCome /\ TakesEvent("responseReceived")
      <4>1. h = m'.request /\ m'.requests[h].empty = Head(network).empty
        BY <2>4, <3>2 DEF AnswersCome, SameAnswer, KeepsResponse, Fresh
      <4>2. m'.requests[h].report = "live" /\ h <= browser.hop
        BY <1>3, <4>1, HopOrder
      <4>3. browser.answered /\ Head(network).empty = browser.empty
        BY <3>2, HeadResponds DEF Loading
      <4> QED BY <4>1, <4>2, <4>3 DEF Answered
    <3>3. CASE AnswersEnd \/ LoadFails(m, m')
      BY <2>4, <3>3 DEF AnswersEnd, LoadFails, SameAnswer, KeepsResponse
    <3> QED BY <3>1, <3>2, <3>3 DEF AnswersStep
  <2> QED BY <2>3, <2>4
<1>5. ASSUME frame', Counted(browser.hop)', browser.answered, ~Responding'
      PROVE  m'.requests[browser.hop].response # "none"
  <2>1. CASE Responding
    <3>1. TakesEvent("responseReceived")
      <4>1. network \in Seq(NetworkEvent) /\ network # <<>> /\ network' = Tail(network)
        BY <1>5, <2>1, TypedParts, ManagerQueues DEF Responding, Responds
      <4>2. PICK i \in DOMAIN network : network[i].event = "responseReceived"
        BY <2>1 DEF Responding, Responds
      <4>3. i = 1
        <5>1. i # 1 => i - 1 \in DOMAIN Tail(network) /\ Tail(network)[i - 1] = network[i]
          BY <4>1, <4>2, TailItems
        <5>2. ~Responds(network')
          BY <1>5 DEF Responding, Responds
        <5> QED BY <4>1, <4>2, <5>1, <5>2 DEF Responds
      <4>4. network[1] = Head(network)
        BY <4>1, TailItems
      <4> QED BY <4>1, <4>2, <4>3, <4>4 DEF TakesEvent
    <3>2. AnswersCome
      BY <3>1, TakesOne DEF AnswersStep
    <3>3. Counted(browser.hop)
      <4>1. ~Hears
        BY <3>1, TakesOne DEF Hears
      <4> QED BY <1>1, <1>5, <4>1, ManagerQueues DEF Counted
    <3>4. m'.request = browser.hop
      BY <1>2, <1>5, <3>1, <3>3, AnswerFindsLast
    <3> QED BY <1>1, <3>2, <3>4 DEF AnswersCome
  <2>2. CASE ~Responding
    <3>1. ~Announced(browser.hop)
      BY <1>1, <1>5, <2>2 DEF Loading, NetworkOK, ListOK, Responding, Announced
    <3>2. Counted(browser.hop)
      <4>1. expecting'[browser.hop] = expecting[browser.hop]
        BY <1>1, <3>1, ManagerHears, HeardIsAnnounced
      <4> QED BY <1>1, <1>5, <4>1 DEF Counted
    <3>3. m.requests[browser.hop].response # "none"
      BY <1>2, <1>5, <2>2, <3>2 DEF Reporting, ResponsesOK
    <3>4. m.requests[browser.hop].report # "new"
      BY <1>1, <3>3 DEF Reporting, ResponsesOK
    <3>5. ~Unstarted(browser.hop) /\ ~Kept(m, browser.hop)
      BY <1>1, <3>4, OverIsStarted DEF Reporting
    <3>6. ~TakesEvent("responseReceived")
      BY <2>2, HeadResponds DEF Loading
    <3>7. CASE AnswersGoOn /\ \A name \in {"responseReceived", "loadingFinished", "loadingFailed"} : ~TakesEvent(name)
      BY <1>1, <3>3, <3>5, <3>7, AnswersKept DEF SameAnswer
    <3>8. CASE AnswersEnd
      BY <1>1, <3>3, <3>8 DEF AnswersEnd, SameAnswer, KeepsResponse
    <3>9. CASE LoadFails(m, m')
      BY <1>1, <3>3, <3>5, <3>9 DEF LoadFails, SameAnswer, KeepsResponse
    <3> QED BY <3>6, <3>7, <3>8, <3>9 DEF AnswersStep
  <2> QED BY <2>1, <2>2
<1>6. (\A h \in Hop : m.requests[h].response # "none" => h <= browser.hop /\ Answered(h))'
  BY <1>1, <1>4 DEF Answered
<1>7. /\ (\A h \in Hop : m.requests[h].report = "new" => m.requests[h].response = "none")'
      /\ (m.requests[browser.hop].response # "none" => m.requests[browser.hop].empty = browser.empty)'
  BY <1>1, <1>4
<1>8. (frame /\ Counted(browser.hop) /\ browser.answered /\ ~Responding
         => m.requests[browser.hop].response # "none")'
  BY <1>1, <1>5
<1> QED BY <1>6, <1>7, <1>8 DEF ResponsesOK

LEMMA ManagerLoading ==
  ASSUME Typed, Structure, Loading, ManagerStep
  PROVE  Loading'
<1>1. FlagsOK'
  BY ManagerQueues DEF Loading, FlagsOK
<1> QED BY <1>1, ManagerList, ManagerHeard DEF Loading

LEMMA ManagerReporting ==
  ASSUME Typed, Typed', Structure, Structure', Ordered, Loading, Reporting, ~Disturbed,
         ManagerStep, AnswersStep
  PROVE  Reporting'
<1>1. WaitingOK' /\ EndOK' /\ BegunOK'
  BY ManagerWaiting, ManagerEndOK, ManagerBegun DEF Reporting
<1>2. OverOK' /\ ResponsesOK'
  BY ManagerOver, ManagerResponses
<1> QED BY <1>1, <1>2 DEF Reporting

(***************************************************************************)
(* No request of a load is lost.                                            *)
(***************************************************************************)
LInv == IInv /\ Loading /\ (Disturbed \/ Reporting)

LEMMA LoadingInit == Init => LInv
<1> SUFFICES ASSUME Init PROVE LInv
  OBVIOUS
<1>1. Typed /\ Structure /\ Ordered
  BY InitHolds
<1>2. /\ m.sent = None /\ m.request = None /\ m.requests = [h \in Hop |-> NoRequest]
      /\ browser.stage = "none" /\ browser.hop = 0 /\ ~browser.answered /\ ~browser.empty
      /\ ~browser.cancelled /\ ~browser.failed /\ network = <<>>
  BY DEF Init
<1>3. \A h \in Hop : m.requests[h].report = "new" /\ m.requests[h].response = "none" /\ ~Kept(m, h)
  BY <1>2 DEF NoRequest, Kept
<1>4. FlagsOK /\ HeardOK
  BY <1>2, <1>3 DEF FlagsOK, HeardOK
<1>5. NetworkOK
  BY <1>2, EmptyListOK DEF NetworkOK
<1>6. WaitingOK /\ EndOK /\ BegunOK
  BY <1>2, <1>3 DEF WaitingOK, EndOK, EndHandled, BegunOK
<1>7. OverOK /\ ResponsesOK
  BY <1>2, <1>3, HopOrder DEF OverOK, ResponsesOK
<1> QED BY <1>1, <1>4, <1>5, <1>6, <1>7 DEF LInv, IInv, Typed, Loading, Reporting

LEMMA LoadingKept == LInv /\ [Next]_vars => LInv'
<1> SUFFICES ASSUME LInv, [Next]_vars PROVE LInv'
  OBVIOUS
<1>1. Typed /\ Structure /\ (Disturbed \/ Ordered) /\ Loading /\ (Disturbed \/ Reporting)
  BY DEF LInv, IInv, Typed, Structure
<1>2. IInv' /\ Typed' /\ Structure'
  BY InvariantKept DEF LInv, IInv, Typed, Structure
<1>3. (BrowserStep /\ LoadStep) \/ (ManagerStep /\ AnswersStep)
  BY <1>1, StepsAreTold DEF Loading
<1>4. Loading'
  BY <1>1, <1>3, BrowserFlags, BrowserList, BrowserHeard, ManagerLoading DEF Loading
<1>5. ASSUME ~Disturbed' PROVE Reporting'
  <2>1. ~Disturbed
    BY <1>1, <1>3, <1>5, BrowserDisturbs, ManagerDisturbs
  <2> QED BY <1>1, <1>2, <1>3, <2>1, BrowserReports, ManagerReporting
<1> QED BY <1>2, <1>4, <1>5 DEF LInv

(* When nothing is under way any more, LInv says what became of each request. *)
LEMMA QuietIsReported == LInv => LoadsAreReported
<1> SUFFICES ASSUME LInv, Quiet, ~Disturbed, NEW h \in 0..browser.hop
             PROVE  /\ m.requests[h].report = "live" => CutShort(h)
                    /\ frame /\ Reportable(h) /\ (\A g \in {h, h + 1} : ~CutShort(g)) =>
                         /\ m.requests[h].report = "over"
                         /\ (m.requests[h].response # "none") = Answered(h)
                         /\ m.requests[h].failed = (h = browser.hop /\ browser.failed /\ ~browser.empty)
  BY DEF LoadsAreReported
<1>1. Typed /\ Structure /\ Ordered /\ Loading /\ Reporting
  BY DEF LInv, IInv, Typed, Structure
<1>2. browser.stage = "over" /\ network = <<>> /\ \A g : ~Announced(g)
  BY DEF Quiet, Announced, AnnouncedIn
<1>3. h \in Hop /\ h \in Nat /\ browser.hop \in Nat /\ browser.hop \in Hop /\ h <= browser.hop
  <2>1. browser.hop \in Hop /\ browser.hop \in Nat
    BY <1>1, HopOrder
  <2> QED BY <2>1, BoundAssumption DEF Hop
<1>4. m.requests[h].report = "live" => CutShort(h)
  <2> SUFFICES ASSUME m.requests[h].report = "live" PROVE CutShort(h)
    OBVIOUS
  <2>1. m.request = h /\ m.request # None
    BY <1>1, <1>3, HopOrder DEF Ordered, OneIsLive, Live
  <2>2. kind # "foreign"
    BY <1>1, <2>1 DEF Loading, HeardOK
  <2> QED BY <1>1, <1>2, <2>1, <2>2 DEF Reporting, EndOK, EndHandled
<1>5. ASSUME frame, Reportable(h), ~CutShort(h), ~CutShort(h + 1)
      PROVE  /\ m.requests[h].report = "over"
             /\ (m.requests[h].response # "none") = Answered(h)
             /\ m.requests[h].failed = (h = browser.hop /\ browser.failed /\ ~browser.empty)
  <2>1. kind \in {"plain", "viaWorker"} /\ EndHandled
    BY <1>2, <1>5 DEF Reportable, EndHandled
  <2>2. Counted(h)
    BY <1>5 DEF Reportable, Counted
  <2>3. m.requests[h].report # "new"
    <3>1. CASE h > 0
      BY <1>1, <1>2, <1>3, <1>5, <2>1, <3>1, NewIsCut
    <3>2. CASE h = 0
      <4>1. ~Kept(m, h)
        <5> SUFFICES ASSUME Kept(m, h) PROVE FALSE
          OBVIOUS
        <5>1. kind = "viaWorker"
          BY <1>1, <1>3, <1>5, <2>1 DEF Reporting, EndOK
        <5>2. expecting[h] = "yes"
          BY <1>1, <1>3 DEF Structure, KeptIsExpected
        <5>3. browser.hop = 0 /\ (browser.answered \/ browser.failed)
          BY <1>5, <5>1, <5>2 DEF Reportable
        <5> QED BY <1>1, <1>5, <2>1, <3>2, <5>1, <5>3 DEF Reporting, EndOK
      <4> QED BY <1>1, <1>2, <1>3, <1>5, <2>2, <4>1 DEF Reporting, BegunOK, Unstarted
    <3> QED BY <1>3, <3>1, <3>2
  <2>4. m.requests[h].report = "over"
    BY <1>1, <1>3, <1>4, <1>5, <2>3, TypedParts DEF ManagerTyped, Manager, Request
  <2>5. m.requests[h].failed \in BOOLEAN /\ browser.answered \in BOOLEAN /\ browser.failed \in BOOLEAN
    BY <1>1, <1>3, TypedParts DEF ManagerTyped, Manager, Request, Browser
  <2>6. m.requests[h].response # "none" => Answered(h)
    BY <1>1, <1>3 DEF Reporting, ResponsesOK
  <2>7. CASE h < browser.hop
    <3>1. m.requests[h].response # "none" /\ ~m.requests[h].failed
      BY <1>1, <1>3, <1>5, <2>1, <2>4, <2>7 DEF Reporting, OverOK, Redirected
    <3>2. h # browser.hop
      BY <1>3, <2>7
    <3> QED BY <2>4, <2>5, <2>7, <3>1, <3>2 DEF Answered
  <2>8. CASE h = browser.hop
    <3>1. ~Responding
      BY <1>2 DEF Responding, Responds
    <3>2. m.requests[h].failed = (browser.failed /\ ~browser.empty)
      BY <1>1, <1>5, <2>2, <2>4, <2>8 DEF Reporting, OverOK
    <3>3. Answered(h) => m.requests[h].response # "none"
      BY <1>1, <1>3, <1>5, <2>2, <2>8, <3>1 DEF Answered, Reporting, ResponsesOK
    <3>4. (m.requests[h].response # "none") = Answered(h)
      BY <2>5, <2>6, <3>3 DEF Answered
    <3>5. m.requests[h].failed = (h = browser.hop /\ browser.failed /\ ~browser.empty)
      BY <2>8, <3>2
    <3> QED BY <2>4, <3>4, <3>5
  <2> QED BY <1>3, <2>7, <2>8
<1> QED BY <1>4, <1>5

(* Whatever the order in which the events of the three sources arrive, and   *)
(* however the client switches interception: once all of them have been      *)
(* handled, no request of the chain is left in flight, and each has been      *)
(* reported with its response and its end, unless interception was switched  *)
(* while it began or the load was cancelled before its pause was seen.        *)
THEOREM LoadsReported == Spec => []LoadsAreReported
<1>1. LInv /\ [Next]_vars => LInv'
  BY LoadingKept
<1> QED BY <1>1, LoadingInit, QuietIsReported, PTL DEF Spec
=============================================================================
