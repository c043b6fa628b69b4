------------------------- MODULE ResponseTrackerProofs -------------------------
(***************************************************************************)
(* Proofs about the tracker of extra info in NetworkManager, for chains of *)
(* any length: no request gets what belongs to another one of its chain.   *)
(*                                                                         *)
(* Below, e is the entry of the tracker and g the hops of the chain whose  *)
(* answers came over the network, in their order: the browser sends extra  *)
(* info for these and no others, so the i-th response and the i-th extra   *)
(* info of each kind are those of g[i].  The tracker is compared with g    *)
(* (Sound), and so is all that is on its way to it (Aligned).              *)
(***************************************************************************)
EXTENDS NetworkManagerProofs

Among(h, list) == \E i \in DOMAIN list : list[i] = h

Settled(r) == r.rawRequest # "pending" /\ r.rawResponse # "pending"

Own(s) == \A h \in Hop : "other" \notin {s.requests[h].response, s.requests[h].rawRequest,
                                         s.requests[h].rawResponse}

(* Headers that are not settled are awaited by the tracker.                 *)
Awaited(s, e) == \A h \in Hop : s.requests[h].response # "none" =>
                   Settled(s.requests[h]) \/ Among(h, e.responses)
Blamed(s) == \A h \in Hop : s.requests[h].failed =>
               s.requests[h].rawRequest # "pending" \/ s.requests[h].response # "none"
Begun(s, e) == \A i \in DOMAIN e.responses : s.requests[e.responses[i]].report # "new"

(* An event that is used was for a response that is there, and any other one *)
(* is that of the hop in its place.                                         *)
Fit(list, e, g) ==
  \A i \in DOMAIN list : IF list[i] = None THEN i \in DOMAIN e.responses
                         ELSE i \in DOMAIN g => list[i] = g[i]
Matched(e, g) ==
  /\ Len(e.responses) <= Len(g) /\ \A i \in DOMAIN e.responses : e.responses[i] = g[i]
  /\ Fit(e.sentExtra, e, g) /\ Fit(e.receivedExtra, e, g)

(* A response and its extra info that are both there have been put together. *)
SentDone(s, e, i) ==
  i \in DOMAIN e.responses /\ i \in DOMAIN e.sentExtra =>
    e.sentExtra[i] = None /\ s.requests[e.responses[i]].rawRequest # "pending"
ReceivedDone(s, e, i) ==
  i \in DOMAIN e.responses /\ i \in DOMAIN e.receivedExtra =>
    e.receivedExtra[i] = None /\ s.requests[e.responses[i]].rawResponse # "pending"

Straight(s, e, g) == Own(s) /\ Blamed(s) /\ Awaited(s, e) /\ Begun(s, e) /\ Matched(e, g)
SoundBut(s, e, g, I) ==
  Straight(s, e, g) /\ \A i \in Nat \ I : SentDone(s, e, i) /\ ReceivedDone(s, e, i)
Sound(s, g) == SoundBut(s, EntryOf(s), g, {})

(* Lists of the same lengths.                                               *)
SameLists(e, f) ==
  /\ f.responses = e.responses /\ Len(f.sentExtra) = Len(e.sentExtra)
  /\ Len(f.receivedExtra) = Len(e.receivedExtra) /\ f.cached = e.cached /\ f.over = e.over

LEMMA EntryIs ==
  ASSUME NEW s \in Manager
  PROVE  /\ s.tracker \in Entry => EntryOf(s) = s.tracker
         /\ s.tracker = None => EntryOf(s) = NewEntry
         /\ s.tracker # None => s.tracker \in Entry
BY EntryAssumption DEF EntryOf, Manager

LEMMA SetRawRequestDoes ==
  ASSUME NEW s \in Manager, NEW h \in Hop, NEW value \in {"provisional", "own", "other"}
  PROVE  \A k \in Hop :
           LET q == s.requests[k]
               r == SetRawRequest(s, h, value).requests[k]
           IN /\ r.rawResponse = q.rawResponse
              /\ r.rawRequest = IF k = h /\ q.rawRequest = "pending" THEN value ELSE q.rawRequest
<1>1. s.requests \in [Hop -> Request]
  BY DEF Manager
<1>2. CASE s.requests[h].rawRequest = "pending"
  <2> DEFINE t == [s EXCEPT !.requests[h].rawRequest = value]
  <2>1. SetRawRequest(s, h, value) = t
    BY <1>2 DEF SetRawRequest
  <2>2. \A k \in Hop : t.requests[k] = IF k = h THEN [s.requests[h] EXCEPT !.rawRequest = value]
                                       ELSE s.requests[k]
    BY <1>1 DEF Manager
  <2> HIDE DEF t
  <2> QED BY <1>1, <1>2, <2>1, <2>2 DEF Request
<1>3. CASE s.requests[h].rawRequest # "pending"
  BY <1>3 DEF SetRawRequest
<1> QED BY <1>2, <1>3

LEMMA SetRawResponseDoes ==
  ASSUME NEW s \in Manager, NEW h \in Hop, NEW value \in {"provisional", "own", "other"}
  PROVE  \A k \in Hop :
           LET q == s.requests[k]
               r == SetRawResponse(s, h, value).requests[k]
           IN /\ r.rawRequest = q.rawRequest
              /\ r.rawResponse = IF k = h /\ q.rawResponse = "pending" THEN value ELSE q.rawResponse
<1>1. s.requests \in [Hop -> Request]
  BY DEF Manager
<1>2. CASE s.requests[h].rawResponse = "pending"
  <2> DEFINE t == [s EXCEPT !.requests[h].rawResponse = value]
  <2>1. SetRawResponse(s, h, value) = t
    BY <1>2 DEF SetRawResponse
  <2>2. \A k \in Hop : t.requests[k] = IF k = h THEN [s.requests[h] EXCEPT !.rawResponse = value]
                                       ELSE s.requests[k]
    BY <1>1 DEF Manager
  <2> HIDE DEF t
  <2> QED BY <1>1, <1>2, <2>1, <2>2 DEF Request
<1>3. CASE s.requests[h].rawResponse # "pending"
  BY <1>3 DEF SetRawResponse
<1> QED BY <1>2, <1>3

LEMMA PatchSentDoes ==
  ASSUME NEW s \in Manager, s.tracker \in Entry, NEW i \in Nat
  PROVE  LET t == PatchSent(s, i)
             e == s.tracker
         IN \/ t = s /\ ~(i \in DOMAIN e.responses /\ Present(e.sentExtra, i))
            \/ /\ i \in DOMAIN e.responses /\ Present(e.sentExtra, i)
               /\ t.tracker = [e EXCEPT !.sentExtra = [e.sentExtra EXCEPT ![i] = None]]
               /\ \A k \in Hop :
                    /\ t.requests[k].rawResponse = s.requests[k].rawResponse
                    /\ t.requests[k].rawRequest =
                         IF k = e.responses[i] /\ s.requests[k].rawRequest = "pending"
                         THEN OriginOf(k, e.sentExtra[i]) ELSE s.requests[k].rawRequest
<1> DEFINE e == s.tracker
           h == e.responses[i]
           value == OriginOf(h, e.sentExtra[i])
           u == SetRawRequest(s, h, value)
           t == [u EXCEPT !.tracker.sentExtra[i] = None]
<1>1. CASE i \in DOMAIN e.responses /\ Present(e.sentExtra, i)
  <2>1. h \in Hop /\ value \in {"own", "other"}
    BY <1>1 DEF Entry, OriginOf
  <2>2. /\ u \in Manager /\ u.tracker = e
        /\ \A k \in Hop : /\ u.requests[k].rawResponse = s.requests[k].rawResponse
                          /\ u.requests[k].rawRequest = IF k = h /\ s.requests[k].rawRequest = "pending"
                                                        THEN value ELSE s.requests[k].rawRequest
    <3>1. h \in Hop /\ value \in {"provisional", "own", "other"}
      BY <2>1
    <3> HIDE DEF h, value
    <3>2. u \in Manager /\ u.tracker = e
      BY <3>1, SetRawRequestKeeps
    <3> QED BY <3>1, <3>2, SetRawRequestDoes
  <2>3. PatchSent(s, i) = t
    BY <1>1 DEF PatchSent
  <2>4. t.requests = u.requests /\ t.tracker = [u.tracker EXCEPT !.sentExtra[i] = None]
    <3> HIDE DEF u
    <3> QED BY <2>2 DEF Manager
  <2> HIDE DEF u, t
  <2>5. [e EXCEPT !.sentExtra[i] = None] = [e EXCEPT !.sentExtra = [e.sentExtra EXCEPT ![i] = None]]
    BY DEF Entry
  <2> QED BY <1>1, <2>2, <2>3, <2>4, <2>5
<1>2. CASE ~(i \in DOMAIN e.responses /\ Present(e.sentExtra, i))
  BY <1>2 DEF PatchSent
<1> QED BY <1>1, <1>2

LEMMA PatchReceivedDoes ==
  ASSUME NEW s \in Manager, s.tracker \in Entry, NEW i \in Nat
  PROVE  LET t == PatchReceived(s, i)
             e == s.tracker
         IN \/ t = s /\ ~(i \in DOMAIN e.responses /\ Present(e.receivedExtra, i))
            \/ /\ i \in DOMAIN e.responses /\ Present(e.receivedExtra, i)
               /\ t.tracker = [e EXCEPT !.receivedExtra = [e.receivedExtra EXCEPT ![i] = None]]
               /\ \A k \in Hop :
                    /\ t.requests[k].rawRequest = s.requests[k].rawRequest
                    /\ t.requests[k].rawResponse =
                         IF k = e.responses[i] /\ s.requests[k].rawResponse = "pending"
                         THEN OriginOf(k, e.receivedExtra[i]) ELSE s.requests[k].rawResponse
<1> DEFINE e == s.tracker
           h == e.responses[i]
           value == OriginOf(h, e.receivedExtra[i])
           u == SetRawResponse(s, h, value)
           t == [u EXCEPT !.tracker.receivedExtra[i] = None]
<1>1. CASE i \in DOMAIN e.responses /\ Present(e.receivedExtra, i)
  <2>1. h \in Hop /\ value \in {"own", "other"}
    BY <1>1 DEF Entry, OriginOf
  <2>2. /\ u \in Manager /\ u.tracker = e
        /\ \A k \in Hop : /\ u.requests[k].rawRequest = s.requests[k].rawRequest
                          /\ u.requests[k].rawResponse = IF k = h /\ s.requests[k].rawResponse = "pending"
                                                         THEN value ELSE s.requests[k].rawResponse
    <3>1. h \in Hop /\ value \in {"provisional", "own", "other"}
      BY <2>1
    <3> HIDE DEF h, value
    <3>2. u \in Manager /\ u.tracker = e
      BY <3>1, SetRawResponseKeeps
    <3> QED BY <3>1, <3>2, SetRawResponseDoes
  <2>3. PatchReceived(s, i) = t
    BY <1>1 DEF PatchReceived
  <2>4. t.requests = u.requests /\ t.tracker = [u.tracker EXCEPT !.receivedExtra[i] = None]
    <3> HIDE DEF u
    <3> QED BY <2>2 DEF Manager
  <2> HIDE DEF u, t
  <2>5. [e EXCEPT !.receivedExtra[i] = None] = [e EXCEPT !.receivedExtra = [e.receivedExtra EXCEPT ![i] = None]]
    BY DEF Entry
  <2> QED BY <1>1, <2>2, <2>3, <2>4, <2>5
<1>2. CASE ~(i \in DOMAIN e.responses /\ Present(e.receivedExtra, i))
  BY <1>2 DEF PatchReceived
<1> QED BY <1>1, <1>2

(* Headers are filled in, or extra info is used up.                         *)
Fills(s, t) == \A k \in Hop :
  /\ t.requests[k].rawRequest \in {s.requests[k].rawRequest, "own"}
  /\ t.requests[k].rawResponse \in {s.requests[k].rawResponse, "own"}
UsesUp(list, after, e) ==
  /\ Len(after) = Len(list) /\ DOMAIN after = DOMAIN list
  /\ \A i \in DOMAIN list : after[i] = list[i] \/ (after[i] = None /\ i \in DOMAIN e.responses)

LEMMA FilledIsSound ==
  ASSUME NEW s \in Manager, NEW t \in Manager, Untouched(s, t), Fills(s, t),
         NEW e \in Entry, NEW f \in Entry, f.responses = e.responses,
         UsesUp(e.sentExtra, f.sentExtra, e), UsesUp(e.receivedExtra, f.receivedExtra, e),
         NEW g \in Seq(Hop), Straight(s, e, g)
  PROVE  /\ Straight(t, f, g)
         /\ \A i \in Nat : /\ SentDone(s, e, i) => SentDone(t, f, i)
                           /\ ReceivedDone(s, e, i) => ReceivedDone(t, f, i)
<1>1. \A k \in Hop : /\ t.requests[k].response = s.requests[k].response
                     /\ t.requests[k].failed = s.requests[k].failed
                     /\ t.requests[k].report = s.requests[k].report
  BY DEF Untouched, SameButAnswers, SameAnswer
<1>2. \A i \in DOMAIN e.responses : e.responses[i] \in Hop
  BY DEF Entry
<1>3. Own(t) /\ Blamed(t) /\ Begun(t, f)
  BY <1>1, <1>2 DEF Straight, Own, Blamed, Begun, Fills
<1>4. Awaited(t, f)
  BY <1>1 DEF Straight, Awaited, Among, Settled, Fills
<1>5. Matched(f, g)
  BY DEF Straight, Matched, Fit, UsesUp
<1>6. ASSUME NEW i \in Nat
      PROVE  /\ SentDone(s, e, i) => SentDone(t, f, i)
             /\ ReceivedDone(s, e, i) => ReceivedDone(t, f, i)
  BY <1>2 DEF SentDone, ReceivedDone, Fills, UsesUp
<1> QED BY <1>3, <1>4, <1>5, <1>6 DEF Straight

LEMMA PatchSentSound ==
  ASSUME NEW s \in Manager, s.tracker \in Entry, NEW i \in Nat, NEW g \in Seq(Hop),
         Straight(s, s.tracker, g),
         SentDone(s, s.tracker, i) \/ Present(s.tracker.sentExtra, i)
  PROVE  LET t == PatchSent(s, i)
         IN /\ t \in Manager /\ t.tracker \in Entry /\ SameLists(s.tracker, t.tracker)
            /\ Untouched(s, t) /\ Straight(t, t.tracker, g) /\ SentDone(t, t.tracker, i)
            /\ t.tracker.receivedExtra = s.tracker.receivedExtra
            /\ \A j \in Nat : /\ SentDone(s, s.tracker, j) => SentDone(t, t.tracker, j)
                              /\ ReceivedDone(s, s.tracker, j) => ReceivedDone(t, t.tracker, j)
<1> DEFINE t == PatchSent(s, i)
           e == s.tracker
           f == [e EXCEPT !.sentExtra = [e.sentExtra EXCEPT ![i] = None]]
<1>1. t \in Manager /\ t.tracker \in Entry /\ Untouched(s, t)
  BY PatchSentKeeps
<1>2. CASE t = s /\ ~(i \in DOMAIN e.responses /\ Present(e.sentExtra, i))
  BY <1>1, <1>2 DEF SentDone, SameLists
<1>3. CASE /\ i \in DOMAIN e.responses /\ Present(e.sentExtra, i) /\ t.tracker = f
           /\ \A k \in Hop :
                /\ t.requests[k].rawResponse = s.requests[k].rawResponse
                /\ t.requests[k].rawRequest =
                     IF k = e.responses[i] /\ s.requests[k].rawRequest = "pending"
                     THEN OriginOf(k, e.sentExtra[i]) ELSE s.requests[k].rawRequest
  <2> DEFINE h == e.responses[i]
  <2>1. h \in Hop /\ h = g[i] /\ i \in DOMAIN g
    BY <1>3 DEF Straight, Matched, Entry
  <2>2. e.sentExtra[i] = h
    BY <1>3, <2>1 DEF Straight, Matched, Fit, Present
  <2>3. /\ f.responses = e.responses /\ f.receivedExtra = e.receivedExtra
        /\ f.cached = e.cached /\ f.over = e.over
        /\ UsesUp(e.sentExtra, f.sentExtra, e) /\ UsesUp(e.receivedExtra, f.receivedExtra, e)
        /\ i \in DOMAIN f.sentExtra /\ f.sentExtra[i] = None
    BY <1>3 DEF Entry, UsesUp, Present
  <2>4. Fills(s, t) /\ t.requests[h].rawRequest # "pending"
    BY <1>3, <2>1, <2>2 DEF Fills, OriginOf
  <2>5. f \in Entry /\ t.tracker = f
    BY <1>1, <1>3
  <2> HIDE DEF t, f, h
  <2>6. /\ Straight(t, f, g)
        /\ \A j \in Nat : /\ SentDone(s, e, j) => SentDone(t, f, j)
                          /\ ReceivedDone(s, e, j) => ReceivedDone(t, f, j)
    BY <1>1, <2>3, <2>4, <2>5, FilledIsSound
  <2>7. SentDone(t, f, i) /\ SameLists(e, f)
    BY <2>3, <2>4 DEF SentDone, SameLists, UsesUp, h
  <2> QED BY <1>1, <2>3, <2>5, <2>6, <2>7 DEF t
<1>4. \/ t = s /\ ~(i \in DOMAIN e.responses /\ Present(e.sentExtra, i))
      \/ /\ i \in DOMAIN e.responses /\ Present(e.sentExtra, i) /\ t.tracker = f
         /\ \A k \in Hop :
              /\ t.requests[k].rawResponse = s.requests[k].rawResponse
              /\ t.requests[k].rawRequest =
                   IF k = e.responses[i] /\ s.requests[k].rawRequest = "pending"
                   THEN OriginOf(k, e.sentExtra[i]) ELSE s.requests[k].rawRequest
  BY PatchSentDoes
<1> QED BY <1>2, <1>3, <1>4

LEMMA PatchReceivedSound ==
  ASSUME NEW s \in Manager, s.tracker \in Entry, NEW i \in Nat, NEW g \in Seq(Hop),
         Straight(s, s.tracker, g),
         ReceivedDone(s, s.tracker, i) \/ Present(s.tracker.receivedExtra, i)
  PROVE  LET t == PatchReceived(s, i)
         IN /\ t \in Manager /\ t.tracker \in Entry /\ SameLists(s.tracker, t.tracker)
            /\ Untouched(s, t) /\ Straight(t, t.tracker, g) /\ ReceivedDone(t, t.tracker, i)
            /\ t.tracker.sentExtra = s.tracker.sentExtra
            /\ \A j \in Nat : /\ ReceivedDone(s, s.tracker, j) => ReceivedDone(t, t.tracker, j)
                              /\ SentDone(s, s.tracker, j) => SentDone(t, t.tracker, j)
<1> DEFINE t == PatchReceived(s, i)
           e == s.tracker
           f == [e EXCEPT !.receivedExtra = [e.receivedExtra EXCEPT ![i] = None]]
<1>1. t \in Manager /\ t.tracker \in Entry /\ Untouched(s, t)
  BY PatchReceivedKeeps
<1>2. CASE t = s /\ ~(i \in DOMAIN e.responses /\ Present(e.receivedExtra, i))
  BY <1>1, <1>2 DEF ReceivedDone, SameLists
<1>3. CASE /\ i \in DOMAIN e.responses /\ Present(e.receivedExtra, i) /\ t.tracker = f
           /\ \A k \in Hop :
                /\ t.requests[k].rawRequest = s.requests[k].rawRequest
                /\ t.requests[k].rawResponse =
                     IF k = e.responses[i] /\ s.requests[k].rawResponse = "pending"
                     THEN OriginOf(k, e.receivedExtra[i]) ELSE s.requests[k].rawResponse
  <2> DEFINE h == e.responses[i]
  <2>1. h \in Hop /\ h = g[i] /\ i \in DOMAIN g
    BY <1>3 DEF Straight, Matched, Entry
  <2>2. e.receivedExtra[i] = h
    BY <1>3, <2>1 DEF Straight, Matched, Fit, Present
  <2>3. /\ f.responses = e.responses /\ f.sentExtra = e.sentExtra
        /\ f.cached = e.cached /\ f.over = e.over
        /\ UsesUp(e.receivedExtra, f.receivedExtra, e) /\ UsesUp(e.sentExtra, f.sentExtra, e)
        /\ i \in DOMAIN f.receivedExtra /\ f.receivedExtra[i] = None
    BY <1>3 DEF Entry, UsesUp, Present
  <2>4. Fills(s, t) /\ t.requests[h].rawResponse # "pending"
    BY <1>3, <2>1, <2>2 DEF Fills, OriginOf
  <2>5. f \in Entry /\ t.tracker = f
    BY <1>1, <1>3
  <2> HIDE DEF t, f, h
  <2>6. /\ Straight(t, f, g)
        /\ \A j \in Nat : /\ ReceivedDone(s, e, j) => ReceivedDone(t, f, j)
                          /\ SentDone(s, e, j) => SentDone(t, f, j)
    BY <1>1, <2>3, <2>4, <2>5, FilledIsSound
  <2>7. ReceivedDone(t, f, i) /\ SameLists(e, f)
    BY <2>3, <2>4 DEF ReceivedDone, SameLists, UsesUp, h
  <2> QED BY <1>1, <2>3, <2>5, <2>6, <2>7 DEF t
<1>4. \/ t = s /\ ~(i \in DOMAIN e.responses /\ Present(e.receivedExtra, i))
      \/ /\ i \in DOMAIN e.responses /\ Present(e.receivedExtra, i) /\ t.tracker = f
         /\ \A k \in Hop :
              /\ t.requests[k].rawRequest = s.requests[k].rawRequest
              /\ t.requests[k].rawResponse =
                   IF k = e.responses[i] /\ s.requests[k].rawResponse = "pending"
                   THEN OriginOf(k, e.receivedExtra[i]) ELSE s.requests[k].rawResponse
  BY PatchReceivedDoes
<1> QED BY <1>2, <1>3, <1>4

LEMMA PatchHeadersSound ==
  ASSUME NEW s \in Manager, s.tracker \in Entry, NEW i \in Nat, NEW g \in Seq(Hop),
         SoundBut(s, s.tracker, g, {i}),
         SentDone(s, s.tracker, i) \/ Present(s.tracker.sentExtra, i),
         ReceivedDone(s, s.tracker, i) \/ Present(s.tracker.receivedExtra, i)
  PROVE  LET t == PatchHeaders(s, i)
         IN /\ t \in Manager /\ t.tracker \in Entry /\ SameLists(s.tracker, t.tracker)
            /\ Untouched(s, t) /\ Sound(t, g)
<1> DEFINE u == PatchSent(s, i)
           t == PatchReceived(u, i)
<1>1. /\ u \in Manager /\ u.tracker \in Entry /\ SameLists(s.tracker, u.tracker)
      /\ Untouched(s, u) /\ Straight(u, u.tracker, g) /\ SentDone(u, u.tracker, i)
      /\ u.tracker.receivedExtra = s.tracker.receivedExtra
      /\ \A j \in Nat : /\ SentDone(s, s.tracker, j) => SentDone(u, u.tracker, j)
                        /\ ReceivedDone(s, s.tracker, j) => ReceivedDone(u, u.tracker, j)
  BY PatchSentSound DEF SoundBut
<1> HIDE DEF u
<1>2. ReceivedDone(u, u.tracker, i) \/ Present(u.tracker.receivedExtra, i)
  BY <1>1
<1>3. /\ t \in Manager /\ t.tracker \in Entry /\ SameLists(u.tracker, t.tracker)
      /\ Untouched(u, t) /\ Straight(t, t.tracker, g) /\ ReceivedDone(t, t.tracker, i)
      /\ \A j \in Nat : /\ SentDone(u, u.tracker, j) => SentDone(t, t.tracker, j)
                        /\ ReceivedDone(u, u.tracker, j) => ReceivedDone(t, t.tracker, j)
  BY <1>1, <1>2, PatchReceivedSound
<1> HIDE DEF t
<1>4. SoundBut(t, t.tracker, g, {})
  BY <1>1, <1>3 DEF SoundBut
<1>5. Untouched(s, t) /\ SameLists(s.tracker, t.tracker)
  BY <1>1, <1>3, UntouchedTwice DEF SameLists
<1> QED BY <1>3, <1>4, <1>5, EntryIs DEF PatchHeaders, Sound, t, u

(* How many events of each kind, and how many responses with extra info,     *)
(* the tracker has seen.                                                    *)
SentCount(s) == Len(EntryOf(s).sentExtra)
ReceivedCount(s) == Len(EntryOf(s).receivedExtra)
ResponseCount(s) == Len(EntryOf(s).responses)
SameCounts(s, t) ==
  /\ SentCount(t) = SentCount(s) /\ ReceivedCount(t) = ReceivedCount(s)
  /\ ResponseCount(t) = ResponseCount(s)
  /\ EntryOf(t).cached = EntryOf(s).cached /\ EntryOf(t).over = EntryOf(s).over

(* The entry is gone, with nothing left to do.                              *)
Gone(s, t) == t.tracker = None /\ EntryOf(s).over

LEMMA CheckFinishedSound ==
  ASSUME NEW s \in Manager, s.tracker \in Entry, NEW g \in Seq(Hop), Sound(s, g),
         ReceivedCount(s) <= SentCount(s) \/ g = <<>>
  PROVE  LET t == CheckFinished(s)
         IN /\ t \in Manager /\ Untouched(s, t)
            /\ \/ Sound(t, g) /\ SameCounts(s, t)
               \/ Sound(t, <<>>) /\ Gone(s, t)
<1> DEFINE t == CheckFinished(s)
           e == s.tracker
<1>1. t \in Manager /\ Untouched(s, t) /\ EntryOf(s) = e
  BY CheckFinishedKeeps, EntryIs
<1>2. CASE e.over /\ Len(e.responses) <= Len(e.receivedExtra)
  <2>1. t = [s EXCEPT !.tracker = None]
    BY <1>2 DEF CheckFinished
  <2>2. t.tracker = None /\ t.requests = s.requests
    BY <2>1 DEF Manager
  <2> HIDE DEF t
  <2>3. /\ Own(s) /\ Blamed(s) /\ Awaited(s, e) /\ Matched(e, g)
        /\ \A i \in Nat : SentDone(s, e, i) /\ ReceivedDone(s, e, i)
    BY <1>1 DEF Sound, SoundBut, Straight
  <2>4. ASSUME NEW i \in DOMAIN e.responses PROVE Settled(s.requests[e.responses[i]])
    <3>1. i \in Nat /\ i \in DOMAIN e.receivedExtra /\ i \in DOMAIN e.sentExtra
      <4>1. /\ DOMAIN e.responses = 1..Len(e.responses) /\ Len(e.responses) \in Nat
            /\ DOMAIN e.receivedExtra = 1..Len(e.receivedExtra) /\ Len(e.receivedExtra) \in Nat
            /\ DOMAIN e.sentExtra = 1..Len(e.sentExtra) /\ Len(e.sentExtra) \in Nat
        BY DEF Entry
      <4>2. g # <<>>
        BY <2>3, <4>1 DEF Matched
      <4> QED BY <1>1, <1>2, <4>1, <4>2 DEF ReceivedCount, SentCount
    <3> QED BY <2>3, <3>1 DEF SentDone, ReceivedDone, Settled
  <2>5. EntryOf(t) = NewEntry
    BY <2>2 DEF EntryOf
  <2>6. Own(t) /\ Blamed(t)
    BY <2>2, <2>3 DEF Own, Blamed
  <2>7. Awaited(t, NewEntry)
    BY <2>2, <2>3, <2>4 DEF Awaited, Among
  <2>8. Begun(t, NewEntry) /\ Matched(NewEntry, <<>>)
    BY DEF Begun, Matched, Fit, NewEntry
  <2>9. \A i \in Nat : SentDone(t, NewEntry, i) /\ ReceivedDone(t, NewEntry, i)
    BY DEF SentDone, ReceivedDone, NewEntry
  <2> QED BY <1>1, <1>2, <2>2, <2>5, <2>6, <2>7, <2>8, <2>9 DEF Sound, SoundBut, Straight, Gone, t
<1>3. CASE ~(e.over /\ Len(e.responses) <= Len(e.receivedExtra))
  BY <1>1, <1>3 DEF CheckFinished, SameCounts
<1> QED BY <1>2, <1>3

LEMMA SentExtraSound ==
  ASSUME NEW s \in Manager, NEW h \in Hop, NEW g \in Seq(Hop), Sound(s, g),
         SentCount(s) + 1 \in DOMAIN g => g[SentCount(s) + 1] = h,
         ReceivedCount(s) <= SentCount(s) + 1 \/ g = <<>>
  PROVE  LET t == RequestWillBeSentExtraInfo(s, h)
         IN /\ t \in Manager /\ Untouched(s, t)
            /\ \/ /\ Sound(t, g) /\ SentCount(t) = SentCount(s) + 1
                  /\ ReceivedCount(t) = ReceivedCount(s) /\ ResponseCount(t) = ResponseCount(s)
                  /\ EntryOf(t).cached = EntryOf(s).cached /\ EntryOf(t).over = EntryOf(s).over
               \/ Sound(t, <<>>) /\ Gone(s, t)
<1> DEFINE E == EntryOf(s)
           e == [E EXCEPT !.sentExtra = Append(@, h)]
           i == Len(e.sentExtra)
           u == [s EXCEPT !.tracker = e]
           v == PatchHeaders(u, i)
           t == CheckFinished(v)
<1>1. E \in Entry
  BY EntryOfType
<1>2. /\ E.sentExtra \in Seq(Hop \cup {None}) /\ E.receivedExtra \in Seq(Hop \cup {None})
      /\ E.responses \in Seq(Hop)
  BY <1>1 DEF Entry
<1>3. /\ e.sentExtra = Append(E.sentExtra, h) /\ e.receivedExtra = E.receivedExtra
      /\ e.responses = E.responses /\ e.cached = E.cached /\ e.over = E.over /\ e \in Entry
  <2>1. Append(E.sentExtra, h) \in Seq(Hop \cup {None})
    BY <1>2
  <2> HIDE DEF E
  <2> QED BY <1>1, <2>1 DEF Entry
<1>4. /\ i = Len(E.sentExtra) + 1 /\ i \in Nat /\ DOMAIN e.sentExtra = 1..i
      /\ DOMAIN E.sentExtra = 1..Len(E.sentExtra)
      /\ \A j \in DOMAIN e.sentExtra : e.sentExtra[j] = IF j = i THEN h ELSE E.sentExtra[j]
  BY <1>2, <1>3, AppendItems
<1>5. u \in Manager /\ Untouched(s, u) /\ u.tracker = e /\ u.requests = s.requests
  BY <1>3, TrackerUpdate DEF Manager
<1>6. t = RequestWillBeSentExtraInfo(s, h)
  BY DEF RequestWillBeSentExtraInfo
<1>7. h # None /\ h \in Hop
  BY HopOrder
<1> HIDE DEF e, i, u, v, t, E
<1>8. Straight(s, E, g) /\ \A j \in Nat : SentDone(s, E, j) /\ ReceivedDone(s, E, j)
  BY DEF Sound, SoundBut, E
<1>9. Straight(u, e, g)
  <2>1. Own(u) /\ Blamed(u) /\ Awaited(u, e) /\ Begun(u, e)
    BY <1>3, <1>5, <1>8 DEF Straight, Own, Blamed, Awaited, Begun, Among
  <2>2. i \in DOMAIN g => g[i] = h
    BY <1>4 DEF SentCount, E
  <2>3. Fit(e.sentExtra, e, g)
    BY <1>3, <1>4, <1>7, <1>8, <2>2 DEF Straight, Matched, Fit
  <2>4. Matched(e, g)
    BY <1>3, <1>8, <2>3 DEF Straight, Matched, Fit
  <2> QED BY <2>1, <2>4 DEF Straight
<1>10. \A j \in Nat : /\ j # i => SentDone(u, e, j)
                      /\ ReceivedDone(u, e, j)
  BY <1>3, <1>4, <1>5, <1>8 DEF SentDone, ReceivedDone
<1>11. Present(e.sentExtra, i)
  BY <1>4, <1>7 DEF Present
<1>12. SoundBut(u, e, g, {i})
  BY <1>9, <1>10 DEF SoundBut
<1>13. /\ v \in Manager /\ v.tracker \in Entry /\ SameLists(e, v.tracker)
       /\ Untouched(u, v) /\ Sound(v, g)
  BY <1>3, <1>4, <1>5, <1>10, <1>11, <1>12, PatchHeadersSound DEF v
<1>14. /\ SentCount(v) = SentCount(s) + 1 /\ ReceivedCount(v) = ReceivedCount(s)
       /\ ResponseCount(v) = ResponseCount(s)
       /\ EntryOf(v).cached = E.cached /\ EntryOf(v).over = E.over
  BY <1>3, <1>4, <1>13, EntryIs DEF SameLists, SentCount, ReceivedCount, ResponseCount, i, E
<1>15. /\ t \in Manager /\ Untouched(v, t)
       /\ \/ Sound(t, g) /\ SameCounts(v, t)
          \/ Sound(t, <<>>) /\ Gone(v, t)
  BY <1>13, <1>14, CheckFinishedSound DEF t
<1>16. Untouched(s, t)
  BY <1>5, <1>13, <1>15, UntouchedTwice
<1> QED BY <1>6, <1>14, <1>15, <1>16 DEF SameCounts, Gone, E

LEMMA ReceivedExtraSound ==
  ASSUME NEW s \in Manager, NEW h \in Hop, NEW g \in Seq(Hop), Sound(s, g),
         ReceivedCount(s) + 1 \in DOMAIN g => g[ReceivedCount(s) + 1] = h,
         ReceivedCount(s) + 1 <= SentCount(s) \/ g = <<>>
  PROVE  LET t == ResponseReceivedExtraInfo(s, h)
         IN /\ t \in Manager /\ Untouched(s, t)
            /\ \/ /\ Sound(t, g) /\ ReceivedCount(t) = ReceivedCount(s) + 1
                  /\ SentCount(t) = SentCount(s) /\ ResponseCount(t) = ResponseCount(s)
                  /\ EntryOf(t).cached = EntryOf(s).cached /\ EntryOf(t).over = EntryOf(s).over
               \/ Sound(t, <<>>) /\ Gone(s, t)
<1> DEFINE E == EntryOf(s)
           e == [E EXCEPT !.receivedExtra = Append(@, h)]
           i == Len(e.receivedExtra)
           u == [s EXCEPT !.tracker = e]
           v == PatchHeaders(u, i)
           t == CheckFinished(v)
<1>1. E \in Entry
  BY EntryOfType
<1>2. /\ E.receivedExtra \in Seq(Hop \cup {None}) /\ E.sentExtra \in Seq(Hop \cup {None})
      /\ E.responses \in Seq(Hop)
  BY <1>1 DEF Entry
<1>3. /\ e.receivedExtra = Append(E.receivedExtra, h) /\ e.sentExtra = E.sentExtra
      /\ e.responses = E.responses /\ e.cached = E.cached /\ e.over = E.over /\ e \in Entry
  <2>1. Append(E.receivedExtra, h) \in Seq(Hop \cup {None})
    BY <1>2
  <2> HIDE DEF E
  <2> QED BY <1>1, <2>1 DEF Entry
<1>4. /\ i = Len(E.receivedExtra) + 1 /\ i \in Nat /\ DOMAIN e.receivedExtra = 1..i
      /\ DOMAIN E.receivedExtra = 1..Len(E.receivedExtra)
      /\ \A j \in DOMAIN e.receivedExtra : e.receivedExtra[j] = IF j = i THEN h ELSE E.receivedExtra[j]
  BY <1>2, <1>3, AppendItems
<1>5. u \in Manager /\ Untouched(s, u) /\ u.tracker = e /\ u.requests = s.requests
  BY <1>3, TrackerUpdate DEF Manager
<1>6. t = ResponseReceivedExtraInfo(s, h)
  BY DEF ResponseReceivedExtraInfo
<1>7. h # None /\ h \in Hop
  BY HopOrder
<1> HIDE DEF e, i, u, v, t, E
<1>8. Straight(s, E, g) /\ \A j \in Nat : ReceivedDone(s, E, j) /\ SentDone(s, E, j)
  BY DEF Sound, SoundBut, E
<1>9. Straight(u, e, g)
  <2>1. Own(u) /\ Blamed(u) /\ Awaited(u, e) /\ Begun(u, e)
    BY <1>3, <1>5, <1>8 DEF Straight, Own, Blamed, Awaited, Begun, Among
  <2>2. i \in DOMAIN g => g[i] = h
    BY <1>4 DEF ReceivedCount, E
  <2>3. Fit(e.receivedExtra, e, g)
    BY <1>3, <1>4, <1>7, <1>8, <2>2 DEF Straight, Matched, Fit
  <2>4. Matched(e, g)
    BY <1>3, <1>8, <2>3 DEF Straight, Matched, Fit
  <2> QED BY <2>1, <2>4 DEF Straight
<1>10. \A j \in Nat : /\ j # i => ReceivedDone(u, e, j)
                      /\ SentDone(u, e, j)
  BY <1>3, <1>4, <1>5, <1>8 DEF ReceivedDone, SentDone
<1>11. Present(e.receivedExtra, i)
  BY <1>4, <1>7 DEF Present
<1>12. SoundBut(u, e, g, {i})
  BY <1>9, <1>10 DEF SoundBut
<1>13. /\ v \in Manager /\ v.tracker \in Entry /\ SameLists(e, v.tracker)
       /\ Untouched(u, v) /\ Sound(v, g)
  BY <1>3, <1>4, <1>5, <1>10, <1>11, <1>12, PatchHeadersSound DEF v
<1>14. /\ ReceivedCount(v) = ReceivedCount(s) + 1 /\ SentCount(v) = SentCount(s)
       /\ ResponseCount(v) = ResponseCount(s)
       /\ EntryOf(v).cached = E.cached /\ EntryOf(v).over = E.over
  BY <1>3, <1>4, <1>13, EntryIs DEF SameLists, ReceivedCount, SentCount, ResponseCount, i, E
<1>15. /\ t \in Manager /\ Untouched(v, t)
       /\ \/ Sound(t, g) /\ SameCounts(v, t)
          \/ Sound(t, <<>>) /\ Gone(v, t)
  BY <1>13, <1>14, CheckFinishedSound DEF t
<1>16. Untouched(s, t)
  BY <1>5, <1>13, <1>15, UntouchedTwice
<1> QED BY <1>6, <1>14, <1>15, <1>16 DEF SameCounts, Gone, E

SameEntry(e, f) == /\ f.sentExtra = e.sentExtra /\ f.receivedExtra = e.receivedExtra
                   /\ f.responses = e.responses

(* The other fields of an entry do not matter to the headers.               *)
LEMMA RelabelSound ==
  ASSUME NEW s \in Manager, NEW e \in Entry, SameEntry(EntryOf(s), e),
         NEW g \in Seq(Hop), Sound(s, g)
  PROVE  LET t == [s EXCEPT !.tracker = e]
         IN /\ t \in Manager /\ Untouched(s, t) /\ t.tracker = e /\ EntryOf(t) = e /\ Sound(t, g)
            /\ SentCount(t) = SentCount(s) /\ ReceivedCount(t) = ReceivedCount(s)
            /\ ResponseCount(t) = ResponseCount(s)
<1> DEFINE t == [s EXCEPT !.tracker = e]
           E == EntryOf(s)
<1>1. t \in Manager /\ Untouched(s, t) /\ t.tracker = e /\ t.requests = s.requests
  BY TrackerUpdate DEF Manager
<1> HIDE DEF t, E
<1>2. EntryOf(t) = e
  BY <1>1, EntryIs
<1>3. /\ e.sentExtra = E.sentExtra /\ e.receivedExtra = E.receivedExtra /\ e.responses = E.responses
  BY DEF SameEntry, E
<1>4. Straight(s, E, g) /\ \A i \in Nat : SentDone(s, E, i) /\ ReceivedDone(s, E, i)
  BY DEF Sound, SoundBut, E
<1>5. Straight(t, e, g)
  BY <1>1, <1>3, <1>4 DEF Straight, Own, Blamed, Awaited, Begun, Among, Matched, Fit
<1>6. \A i \in Nat : SentDone(t, e, i) /\ ReceivedDone(t, e, i)
  BY <1>1, <1>3, <1>4 DEF SentDone, ReceivedDone
<1> QED BY <1>1, <1>2, <1>3, <1>5, <1>6
        DEF Sound, SoundBut, SentCount, ReceivedCount, ResponseCount, t, E

LEMMA ServedFromCacheSound ==
  ASSUME NEW s \in Manager, NEW g \in Seq(Hop), Sound(s, g)
  PROVE  LET t == RequestServedFromCache(s)
         IN /\ t \in Manager /\ Untouched(s, t) /\ Sound(t, g) /\ EntryOf(t).over = EntryOf(s).over
            /\ SentCount(t) = SentCount(s) /\ ReceivedCount(t) = ReceivedCount(s)
            /\ ResponseCount(t) = ResponseCount(s)
<1> DEFINE e == [EntryOf(s) EXCEPT !.cached = TRUE]
<1>1. e \in Entry /\ SameEntry(EntryOf(s), e) /\ e.over = EntryOf(s).over
  BY EntryOfType DEF Entry, SameEntry
<1>2. RequestServedFromCache(s) = [s EXCEPT !.tracker = e]
  BY DEF RequestServedFromCache
<1> HIDE DEF e
<1> QED BY <1>1, <1>2, RelabelSound

LEMMA LoadingOverSound ==
  ASSUME NEW s \in Manager, NEW g \in Seq(Hop), Sound(s, g),
         ReceivedCount(s) <= SentCount(s) \/ g = <<>>
  PROVE  LET t == LoadingOver(s)
         IN /\ t \in Manager /\ Untouched(s, t)
            /\ \/ /\ Sound(t, g) /\ EntryOf(t).cached = EntryOf(s).cached
                  /\ SentCount(t) = SentCount(s) /\ ReceivedCount(t) = ReceivedCount(s)
                  /\ ResponseCount(t) = ResponseCount(s)
               \/ Sound(t, <<>>)
<1>1. CASE s.tracker = None
  BY <1>1, UntouchedSelf DEF LoadingOver
<1>2. CASE s.tracker # None
  <2> DEFINE e == [s.tracker EXCEPT !.over = TRUE]
             u == [s EXCEPT !.tracker = e]
  <2>1. EntryOf(s) = s.tracker /\ s.tracker \in Entry
    BY <1>2, EntryIs
  <2>2. e \in Entry /\ SameEntry(EntryOf(s), e) /\ e.cached = EntryOf(s).cached
    BY <2>1 DEF Entry, SameEntry
  <2>3. LoadingOver(s) = CheckFinished(u)
    BY <1>2 DEF LoadingOver
  <2> HIDE DEF e
  <2>4. /\ u \in Manager /\ Untouched(s, u) /\ u.tracker = e /\ EntryOf(u) = e /\ Sound(u, g)
        /\ SentCount(u) = SentCount(s) /\ ReceivedCount(u) = ReceivedCount(s)
        /\ ResponseCount(u) = ResponseCount(s)
    BY <2>2, RelabelSound
  <2> HIDE DEF u
  <2> DEFINE t == CheckFinished(u)
  <2>5. /\ t \in Manager /\ Untouched(u, t)
        /\ \/ Sound(t, g) /\ SameCounts(u, t)
           \/ Sound(t, <<>>) /\ Gone(u, t)
    BY <2>2, <2>4, CheckFinishedSound
  <2> HIDE DEF t
  <2>6. Untouched(s, t)
    BY <2>4, <2>5, UntouchedTwice
  <2> QED BY <2>2, <2>3, <2>4, <2>5, <2>6 DEF SameCounts, t
<1> QED BY <1>1, <1>2

(* A response of hop h that the tracker has not seen: the headers of h are   *)
(* not awaited yet.                                                         *)
Arrives(s, e, g, h) ==
  /\ Own(s) /\ Blamed(s) /\ Begun(s, e) /\ Matched(e, g)
  /\ \A k \in Hop \ {h} : s.requests[k].response # "none" =>
                            Settled(s.requests[k]) \/ Among(k, e.responses)
  /\ \A i \in Nat : SentDone(s, e, i) /\ ReceivedDone(s, e, i)
  /\ s.requests[h].report # "new" /\ s.requests[h].response # "none"

LEMMA ProvisionalSound ==
  ASSUME NEW s \in Manager, NEW h \in Hop, NEW g \in Seq(Hop), Arrives(s, EntryOf(s), g, h)
  PROVE  LET t == SetRawResponse(SetRawRequest(s, h, "provisional"), h, "provisional")
         IN t \in Manager /\ Untouched(s, t) /\ t.tracker = s.tracker /\ Sound(t, g)
<1> DEFINE u == SetRawRequest(s, h, "provisional")
           t == SetRawResponse(u, h, "provisional")
           e == EntryOf(s)
<1>1. /\ u \in Manager /\ Untouched(s, u) /\ u.tracker = s.tracker
      /\ \A k \in Hop :
           /\ u.requests[k].rawResponse = s.requests[k].rawResponse
           /\ u.requests[k].rawRequest = IF k = h /\ s.requests[k].rawRequest = "pending"
                                         THEN "provisional" ELSE s.requests[k].rawRequest
  BY SetRawRequestKeeps, SetRawRequestDoes
<1> HIDE DEF u
<1>2. /\ t \in Manager /\ Untouched(u, t) /\ t.tracker = u.tracker
      /\ \A k \in Hop :
           /\ t.requests[k].rawRequest = u.requests[k].rawRequest
           /\ t.requests[k].rawResponse = IF k = h /\ u.requests[k].rawResponse = "pending"
                                          THEN "provisional" ELSE u.requests[k].rawResponse
  BY <1>1, SetRawResponseKeeps, SetRawResponseDoes
<1> HIDE DEF t, e
<1>3. Untouched(s, t) /\ EntryOf(t) = e
  BY <1>1, <1>2, UntouchedTwice DEF EntryOf, e
<1>4. \A k \in Hop : /\ t.requests[k].response = s.requests[k].response
                     /\ t.requests[k].failed = s.requests[k].failed
                     /\ t.requests[k].report = s.requests[k].report
  BY <1>3 DEF Untouched, SameButAnswers, SameAnswer
<1>5. \A k \in Hop :
        /\ t.requests[k].rawRequest = IF k = h /\ s.requests[k].rawRequest = "pending"
                                      THEN "provisional" ELSE s.requests[k].rawRequest
        /\ t.requests[k].rawResponse = IF k = h /\ s.requests[k].rawResponse = "pending"
                                       THEN "provisional" ELSE s.requests[k].rawResponse
  BY <1>1, <1>2
<1>6. \A i \in DOMAIN e.responses : e.responses[i] \in Hop
  <2>1. e \in Entry
    BY EntryOfType DEF e
  <2> QED BY <2>1 DEF Entry
<1>7. Arrives(s, e, g, h)
  BY DEF e
<1>8. Own(t) /\ Blamed(t) /\ Begun(t, e) /\ Matched(e, g)
  BY <1>4, <1>5, <1>6, <1>7 DEF Arrives, Own, Blamed, Begun
<1>9. Awaited(t, e)
  BY <1>4, <1>5, <1>7 DEF Arrives, Awaited, Settled
<1>10. \A i \in Nat : SentDone(t, e, i) /\ ReceivedDone(t, e, i)
  BY <1>5, <1>6, <1>7 DEF Arrives, SentDone, ReceivedDone
<1> QED BY <1>1, <1>2, <1>3, <1>8, <1>9, <1>10 DEF Sound, SoundBut, Straight, t, u

LEMMA ListedResponseSound ==
  ASSUME NEW s \in Manager, NEW h \in Hop, NEW g \in Seq(Hop), Arrives(s, EntryOf(s), g, h),
         ResponseCount(s) + 1 \in DOMAIN g, g[ResponseCount(s) + 1] = h
  PROVE  LET e == [EntryOf(s) EXCEPT !.responses = Append(@, h)]
             t == PatchHeaders([s EXCEPT !.tracker = e], Len(e.responses))
         IN /\ t \in Manager /\ Untouched(s, t) /\ Sound(t, g)
            /\ SentCount(t) = SentCount(s) /\ ReceivedCount(t) = ReceivedCount(s)
            /\ ResponseCount(t) = ResponseCount(s) + 1
            /\ EntryOf(t).cached = EntryOf(s).cached /\ EntryOf(t).over = EntryOf(s).over
<1> DEFINE E == EntryOf(s)
           e == [E EXCEPT !.responses = Append(@, h)]
           i == Len(e.responses)
           u == [s EXCEPT !.tracker = e]
           t == PatchHeaders(u, i)
<1>1. E \in Entry
  BY EntryOfType
<1>2. /\ E.sentExtra \in Seq(Hop \cup {None}) /\ E.receivedExtra \in Seq(Hop \cup {None})
      /\ E.responses \in Seq(Hop)
  BY <1>1 DEF Entry
<1>3. /\ e.responses = Append(E.responses, h) /\ e.receivedExtra = E.receivedExtra
      /\ e.sentExtra = E.sentExtra /\ e.cached = E.cached /\ e.over = E.over /\ e \in Entry
  <2>1. Append(E.responses, h) \in Seq(Hop)
    BY <1>2
  <2> HIDE DEF E
  <2> QED BY <1>1, <2>1 DEF Entry
<1>4. /\ i = Len(E.responses) + 1 /\ i \in Nat /\ DOMAIN e.responses = 1..i
      /\ DOMAIN E.responses = 1..Len(E.responses) /\ Len(E.responses) \in Nat
      /\ \A j \in DOMAIN e.responses : e.responses[j] = IF j = i THEN h ELSE E.responses[j]
  BY <1>2, <1>3, AppendItems
<1>5. u \in Manager /\ Untouched(s, u) /\ u.tracker = e /\ u.requests = s.requests
  BY <1>3, TrackerUpdate DEF Manager
<1> HIDE DEF e, i, u, t, E
<1>6. Arrives(s, E, g, h)
  BY DEF E
<1>7. i \in DOMAIN g /\ g[i] = h /\ i <= Len(g)
  BY <1>4 DEF ResponseCount, E
<1>8. Straight(u, e, g)
  <2>1. Own(u) /\ Blamed(u)
    BY <1>5, <1>6 DEF Arrives, Own, Blamed
  <2>2. Awaited(u, e)
    <3> SUFFICES ASSUME NEW k \in Hop, s.requests[k].response # "none", ~Settled(s.requests[k])
                 PROVE  Among(k, e.responses)
      BY <1>5 DEF Awaited
    <3>1. CASE k = h
      <4>1. i \in DOMAIN e.responses /\ e.responses[i] = k
        BY <1>4, <3>1
      <4> QED BY <4>1 DEF Among
    <3>2. CASE k # h
      <4>1. PICK j \in DOMAIN E.responses : E.responses[j] = k
        BY <1>6, <3>2 DEF Arrives, Among
      <4>2. j \in DOMAIN e.responses /\ e.responses[j] = k
        BY <1>4, <4>1
      <4> QED BY <4>2 DEF Among
    <3> QED BY <3>1, <3>2
  <2>3. Begun(u, e)
    BY <1>4, <1>5, <1>6 DEF Arrives, Begun
  <2>4. Matched(e, g)
    BY <1>3, <1>4, <1>6, <1>7 DEF Arrives, Matched, Fit
  <2> QED BY <2>1, <2>2, <2>3, <2>4 DEF Straight
<1>9. \A j \in Nat \ {i} : SentDone(u, e, j) /\ ReceivedDone(u, e, j)
  BY <1>3, <1>4, <1>5, <1>6 DEF Arrives, SentDone, ReceivedDone
<1>10. /\ SentDone(u, e, i) \/ Present(e.sentExtra, i)
       /\ ReceivedDone(u, e, i) \/ Present(e.receivedExtra, i)
  <2>1. i \notin DOMAIN E.responses
    BY <1>4
  <2> QED BY <1>3, <1>6, <2>1 DEF Arrives, Matched, Fit, SentDone, ReceivedDone, Present
<1>11. SoundBut(u, e, g, {i})
  BY <1>8, <1>9 DEF SoundBut
<1>12. /\ t \in Manager /\ t.tracker \in Entry /\ SameLists(e, t.tracker)
       /\ Untouched(u, t) /\ Sound(t, g)
  BY <1>3, <1>4, <1>5, <1>10, <1>11, PatchHeadersSound DEF t
<1>13. Untouched(s, t)
  BY <1>5, <1>12, UntouchedTwice
<1>14. /\ SentCount(t) = SentCount(s) /\ ReceivedCount(t) = ReceivedCount(s)
       /\ ResponseCount(t) = ResponseCount(s) + 1
       /\ EntryOf(t).cached = E.cached /\ EntryOf(t).over = E.over
  BY <1>3, <1>4, <1>12, EntryIs DEF SameLists, SentCount, ReceivedCount, ResponseCount, i, E
<1> QED BY <1>12, <1>13, <1>14 DEF t, u, i, e, E

(* A request gets its own response, and the tracker takes it up.             *)
LEMMA CreateResponseSound ==
  ASSUME NEW s \in Manager, NEW h \in Hop, NEW hasExtraInfo \in BOOLEAN, NEW empty \in BOOLEAN,
         NEW g \in Seq(Hop), Sound(s, g), s.requests[h].report # "new",
         ~Among(h, EntryOf(s).responses),
         hasExtraInfo /\ ~EntryOf(s).cached =>
           ResponseCount(s) + 1 \in DOMAIN g /\ g[ResponseCount(s) + 1] = h
  PROVE  LET t == CreateResponse(s, h, h, hasExtraInfo, empty)
         IN /\ t \in Manager /\ SameButAnswers(s, t) /\ Sound(t, g)
            /\ \A k \in Hop \ {h} : SameAnswer(s, t, k)
            /\ t.requests[h].response # "none" /\ t.requests[h].failed = s.requests[h].failed
            /\ SentCount(t) = SentCount(s) /\ ReceivedCount(t) = ReceivedCount(s)
            /\ ResponseCount(t) = IF hasExtraInfo /\ ~EntryOf(s).cached THEN ResponseCount(s) + 1
                                  ELSE ResponseCount(s)
            /\ EntryOf(t).cached = EntryOf(s).cached /\ EntryOf(t).over = EntryOf(s).over
<1> DEFINE r == [s.requests[h] EXCEPT !.response = OriginOf(h, h),
                                      !.empty = empty, !.rawResponse = "pending"]
           u == [s EXCEPT !.requests[h] = r]
           t == CreateResponse(s, h, h, hasExtraInfo, empty)
           E == EntryOf(s)
<1>1. s.requests \in [Hop -> Request] /\ OriginOf(h, h) = "own"
  BY DEF Manager, OriginOf
<1>2. /\ r \in Request
      /\ r.report = s.requests[h].report /\ r.route = s.requests[h].route
      /\ r.interception = s.requests[h].interception /\ r.original = s.requests[h].original
      /\ r.response = "own" /\ r.rawRequest = s.requests[h].rawRequest /\ r.rawResponse = "pending"
      /\ r.failed = s.requests[h].failed
  <2>1. s.requests[h] \in Request /\ OriginOf(h, h) \in {"own", "other"}
    BY <1>1
  <2> QED BY <1>1, <2>1 DEF Request
<1>3. u.requests = [s.requests EXCEPT ![h] = r]
  <2> HIDE DEF r
  <2> QED BY DEF Manager
<1>4. \A k \in Hop : u.requests[k] = IF k = h THEN r ELSE s.requests[k]
  <2> HIDE DEF r, u
  <2> QED BY <1>1, <1>3
<1>5. u \in Manager /\ u.tracker = s.tracker
  <2> HIDE DEF r
  <2> QED BY <1>2, HeadersUpdate
<1>6. u = [s EXCEPT !.requests[h].response = OriginOf(h, h),
                    !.requests[h].empty = empty,
                    !.requests[h].rawResponse = "pending"]
  BY <1>1 DEF Manager, Request
<1>7. t = ProcessResponse(u, h, hasExtraInfo)
  BY <1>6 DEF CreateResponse
<1>8. /\ t \in Manager /\ SameButAnswers(s, t) /\ \A k \in Hop \ {h} : SameAnswer(s, t, k)
      /\ t.requests[h].response # "none" /\ t.requests[h].failed = s.requests[h].failed
  BY CreateResponseKeeps
<1> HIDE DEF r, u, t, E
<1>9. EntryOf(u) = E /\ E \in Entry
  BY <1>5, EntryOfType DEF EntryOf, E
<1>10. Straight(s, E, g) /\ \A i \in Nat : SentDone(s, E, i) /\ ReceivedDone(s, E, i)
  BY DEF Sound, SoundBut, E
<1>11. \A i \in DOMAIN E.responses : E.responses[i] \in Hop \ {h}
  <2>1. \A i \in DOMAIN E.responses : E.responses[i] \in Hop
    BY <1>9 DEF Entry
  <2> QED BY <2>1 DEF Among, E
<1>12. Arrives(u, E, g, h)
  <2>1. Own(u) /\ Blamed(u) /\ Begun(u, E)
    BY <1>2, <1>4, <1>10, <1>11 DEF Straight, Own, Blamed, Begun
  <2>2. \A k \in Hop \ {h} : u.requests[k].response # "none" =>
                               Settled(u.requests[k]) \/ Among(k, E.responses)
    BY <1>4, <1>10 DEF Straight, Awaited
  <2>3. \A i \in Nat : SentDone(u, E, i) /\ ReceivedDone(u, E, i)
    BY <1>4, <1>10, <1>11 DEF SentDone, ReceivedDone
  <2>4. u.requests[h].report # "new" /\ u.requests[h].response # "none"
    BY <1>2, <1>4
  <2> QED BY <1>10, <2>1, <2>2, <2>3, <2>4 DEF Arrives, Straight
<1>13. /\ SentCount(u) = SentCount(s) /\ ReceivedCount(u) = ReceivedCount(s)
       /\ ResponseCount(u) = ResponseCount(s)
  BY <1>9 DEF SentCount, ReceivedCount, ResponseCount, E
<1>14. CASE hasExtraInfo /\ ~E.cached
  <2> DEFINE e == [EntryOf(u) EXCEPT !.responses = Append(@, h)]
             v == PatchHeaders([u EXCEPT !.tracker = e], Len(e.responses))
  <2>1. t = v
    BY <1>7, <1>9, <1>14 DEF ProcessResponse
  <2>2. ResponseCount(u) + 1 \in DOMAIN g /\ g[ResponseCount(u) + 1] = h
    BY <1>13, <1>14 DEF E
  <2>3. Arrives(u, EntryOf(u), g, h)
    BY <1>9, <1>12
  <2>4. /\ v \in Manager /\ Sound(v, g)
        /\ SentCount(v) = SentCount(u) /\ ReceivedCount(v) = ReceivedCount(u)
        /\ ResponseCount(v) = ResponseCount(u) + 1
        /\ EntryOf(v).cached = EntryOf(u).cached /\ EntryOf(v).over = EntryOf(u).over
    BY <1>5, <2>2, <2>3, ListedResponseSound
  <2> HIDE DEF v
  <2> QED BY <1>8, <1>9, <1>13, <1>14, <2>1, <2>4 DEF t, E
<1>15. CASE ~(hasExtraInfo /\ ~E.cached)
  <2> DEFINE v == SetRawResponse(SetRawRequest(u, h, "provisional"), h, "provisional")
  <2>1. t = v
    BY <1>7, <1>9, <1>15 DEF ProcessResponse
  <2>2. Arrives(u, EntryOf(u), g, h)
    BY <1>9, <1>12
  <2>3. v.tracker = u.tracker /\ Sound(v, g)
    BY <1>5, <2>2, ProvisionalSound
  <2> HIDE DEF v
  <2>4. EntryOf(t) = E
    BY <1>5, <2>1, <2>3 DEF EntryOf, E
  <2> QED BY <1>8, <1>15, <2>1, <2>3, <2>4 DEF SentCount, ReceivedCount, ResponseCount, t, E
<1> QED BY <1>14, <1>15

(* A request may begin or end, or do without headers that will not come;     *)
(* otherwise nothing changes that the tracker has to do with.               *)
SameHeaders(s, t, k) ==
  /\ t.requests[k].response = s.requests[k].response
  /\ t.requests[k].rawRequest = s.requests[k].rawRequest
  /\ t.requests[k].rawResponse = s.requests[k].rawResponse
NoHeaders(t, k) ==
  /\ t.requests[k].response = "none" /\ ~t.requests[k].failed
  /\ t.requests[k].rawRequest # "other" /\ t.requests[k].rawResponse # "other"
Excused(t, k) == t.requests[k].rawRequest # "pending" \/ t.requests[k].response # "none"
Calm(s, t) ==
  /\ t.tracker = s.tracker
  /\ \A k \in Hop :
       /\ s.requests[k].report # "new" => t.requests[k].report # "new"
       /\ \/ SameHeaders(s, t, k) /\ (t.requests[k].failed => s.requests[k].failed \/ Excused(t, k))
          \/ s.requests[k].report = "new" /\ NoHeaders(t, k)

LEMMA CalmSound ==
  ASSUME NEW s \in Manager, NEW t \in Manager, Calm(s, t), NEW g \in Seq(Hop), Sound(s, g)
  PROVE  Sound(t, g) /\ SameCounts(s, t) /\ EntryOf(t) = EntryOf(s)
<1> DEFINE e == EntryOf(s)
<1>1. EntryOf(t) = e /\ e \in Entry
  BY EntryOfType DEF EntryOf, Calm
<1> HIDE DEF e
<1>2. \A i \in DOMAIN e.responses : e.responses[i] \in Hop
  BY <1>1 DEF Entry
<1>3. Straight(s, e, g) /\ \A i \in Nat : SentDone(s, e, i) /\ ReceivedDone(s, e, i)
  BY DEF Sound, SoundBut, e
<1>4. \A i \in DOMAIN e.responses : SameHeaders(s, t, e.responses[i])
  BY <1>2, <1>3 DEF Straight, Begun, Calm
<1>5. Own(t) /\ Blamed(t)
  BY <1>3 DEF Straight, Own, Blamed, Calm, SameHeaders, NoHeaders, Excused
<1>6. Awaited(t, e)
  BY <1>3 DEF Straight, Awaited, Calm, SameHeaders, NoHeaders, Settled
<1>7. Begun(t, e) /\ Matched(e, g)
  BY <1>2, <1>3 DEF Straight, Begun, Calm
<1>8. \A i \in Nat : SentDone(t, e, i) /\ ReceivedDone(t, e, i)
  BY <1>2, <1>3, <1>4 DEF SentDone, ReceivedDone, SameHeaders
<1> QED BY <1>1, <1>5, <1>6, <1>7, <1>8
        DEF Sound, SoundBut, Straight, SameCounts, SentCount, ReceivedCount, ResponseCount, e

LEMMA SameIsCalm ==
  ASSUME NEW s, NEW t, t.tracker = s.tracker, t.requests = s.requests
  PROVE  Calm(s, t)
BY DEF Calm, SameHeaders

LEMMA RequestStartedIsCalm ==
  ASSUME NEW s \in Manager, NEW h \in Hop, NEW pause \in Pause \cup {None},
         NEW from \in Hop \cup {None}, s.requests[h].report = "new"
  PROVE  Calm(s, RequestStarted(s, h, pause, from))
<1> DEFINE routed == pause # None /\ ~ContinuesAtOnce(s, from)
           original == IF routed THEN h ELSE IF from = None THEN None ELSE s.requests[from].original
           r == [NoRequest EXCEPT
                  !.report = "live",
                  !.rawRequest = IF routed THEN "paused" ELSE "pending",
                  !.interception = pause,
                  !.route = IF routed THEN "open" ELSE "none",
                  !.original = original]
           f == [s.requests EXCEPT ![h] = r]
           t == [s EXCEPT !.requests = f, !.request = h]
<1>1. s.requests \in [Hop -> Request]
  BY DEF Manager
<1>2. /\ r.response = "none" /\ r.failed = FALSE /\ r.report = "live"
      /\ r.rawRequest \in {"pending", "paused"} /\ r.rawResponse = "pending"
  BY DEF NoRequest
<1>3. t.requests = f /\ t.tracker = s.tracker
  <2> HIDE DEF f
  <2> QED BY DEF Manager
<1>4. \A k \in Hop : f[k] = IF k = h THEN r ELSE s.requests[k]
  BY <1>1
<1>5. RequestStarted(s, h, pause, from) \in {t, Send(t, "continue", pause)}
  BY <1>1 DEF RequestStarted, Manager
<1>6. t \in Manager => /\ Send(t, "continue", pause).requests = t.requests
                       /\ Send(t, "continue", pause).tracker = t.tracker
  BY DEF Send, Manager
<1>7. t \in Manager
  <2>1. original \in Hop \cup {None}
    BY <1>1 DEF Request
  <2>2. r \in Request
    <3> HIDE DEF original
    <3> QED BY <2>1 DEF Request, NoRequest
  <2>3. f \in [Hop -> Request]
    <3> HIDE DEF r
    <3> QED BY <1>1, <2>2
  <2> HIDE DEF f
  <2> QED BY <2>3 DEF Manager
<1> HIDE DEF t, f, r
<1> QED BY <1>2, <1>3, <1>4, <1>5, <1>6, <1>7 DEF Calm, SameHeaders, NoHeaders

LEMMA ReportOverIsCalm ==
  ASSUME NEW s \in Manager, NEW h \in Hop, NEW failed \in BOOLEAN, failed => Excused(s, h)
  PROVE  Calm(s, ReportOver(s, h, failed))
<1> DEFINE r == [s.requests[h] EXCEPT !.report = "over", !.failed = failed]
           f == [s.requests EXCEPT ![h] = r]
           a == s.attempted \ {s.requests[h].interception}
           t == [s EXCEPT !.request = None, !.attempted = a, !.requests = f]
<1>1. s.requests \in [Hop -> Request] /\ s.requests[h] \in Request
  BY DEF Manager
<1>2. /\ r.response = s.requests[h].response /\ r.failed = failed /\ r.report = "over"
      /\ r.rawRequest = s.requests[h].rawRequest /\ r.rawResponse = s.requests[h].rawResponse
  BY <1>1 DEF Request
<1>3. ReportOver(s, h, failed) = t
  BY <1>1 DEF ReportOver, DeleteRequest, Manager
<1>4. t.requests = f /\ t.tracker = s.tracker
  <2> HIDE DEF f, a
  <2> QED BY DEF Manager
<1>5. \A k \in Hop : f[k] = IF k = h THEN r ELSE s.requests[k]
  BY <1>1
<1> HIDE DEF t, f, r
<1> QED BY <1>2, <1>3, <1>4, <1>5 DEF Calm, SameHeaders, Excused

LEMMA SendIsCalm ==
  ASSUME NEW s \in Manager, NEW method, NEW pause,
         [method |-> method, pause |-> pause] \in Command
  PROVE  Send(s, method, pause) \in Manager /\ Calm(s, Send(s, method, pause))
BY SendKeeps, SameIsCalm

(* The headers of a request that fails will not come.                       *)
LEMMA ExcusedSound ==
  ASSUME NEW s \in Manager, NEW h \in Hop, NEW g \in Seq(Hop), Sound(s, g)
  PROVE  LET t == SetRawRequest(s, h, "provisional")
         IN /\ t \in Manager /\ Untouched(s, t) /\ Sound(t, g) /\ EntryOf(t) = EntryOf(s)
            /\ Excused(t, h)
<1> DEFINE t == SetRawRequest(s, h, "provisional")
           e == EntryOf(s)
<1>1. /\ t \in Manager /\ Untouched(s, t) /\ t.tracker = s.tracker
      /\ \A k \in Hop :
           /\ t.requests[k].rawResponse = s.requests[k].rawResponse
           /\ t.requests[k].rawRequest = IF k = h /\ s.requests[k].rawRequest = "pending"
                                         THEN "provisional" ELSE s.requests[k].rawRequest
  BY SetRawRequestKeeps, SetRawRequestDoes
<1> HIDE DEF t, e
<1>2. EntryOf(t) = e /\ e \in Entry
  BY <1>1, EntryOfType DEF EntryOf, e
<1>3. \A k \in Hop : /\ t.requests[k].response = s.requests[k].response
                     /\ t.requests[k].failed = s.requests[k].failed
                     /\ t.requests[k].report = s.requests[k].report
  BY <1>1 DEF Untouched, SameButAnswers, SameAnswer
<1>4. \A i \in DOMAIN e.responses : e.responses[i] \in Hop
  BY <1>2 DEF Entry
<1>5. Straight(s, e, g) /\ \A i \in Nat : SentDone(s, e, i) /\ ReceivedDone(s, e, i)
  BY DEF Sound, SoundBut, e
<1>6. Straight(t, e, g)
  BY <1>1, <1>3, <1>4, <1>5 DEF Straight, Own, Blamed, Begun, Awaited, Settled
<1>7. \A i \in Nat : SentDone(t, e, i) /\ ReceivedDone(t, e, i)
  BY <1>1, <1>4, <1>5 DEF SentDone, ReceivedDone
<1> QED BY <1>1, <1>2, <1>6, <1>7 DEF Sound, SoundBut, Excused, t, e

Advances(s, t, n) ==
  /\ SentCount(t) = SentCount(s) /\ ReceivedCount(t) = ReceivedCount(s)
  /\ ResponseCount(t) = ResponseCount(s) + n
  /\ EntryOf(t).cached = EntryOf(s).cached /\ EntryOf(t).over = EntryOf(s).over

(* A redirect to the hop of "event" comes from the hop before it, whose      *)
(* response is the next one.                                                *)
Redirectable(s, event, g) ==
  LET h == Predecessor(s, event.hop) IN
  h # None =>
    /\ h = event.hop - 1 /\ s.requests[h].report # "new" /\ ~Among(h, EntryOf(s).responses)
    /\ event.redirected /\ ~EntryOf(s).cached =>
         ResponseCount(s) + 1 \in DOMAIN g /\ g[ResponseCount(s) + 1] = h
Responses(s, event) ==
  IF Predecessor(s, event.hop) # None /\ event.redirected /\ ~EntryOf(s).cached THEN 1 ELSE 0

LEMMA CountsType ==
  ASSUME NEW s \in Manager
  PROVE  SentCount(s) \in Nat /\ ReceivedCount(s) \in Nat /\ ResponseCount(s) \in Nat
BY EntryOfType DEF Entry, SentCount, ReceivedCount, ResponseCount

LEMMA SameAdvances ==
  ASSUME NEW s \in Manager, NEW t, SameCounts(s, t)
  PROVE  Advances(s, t, 0)
BY CountsType DEF SameCounts, Advances

LEMMA AdvancesCalmly ==
  ASSUME NEW s, NEW t \in Manager, NEW u \in Manager, NEW n \in Nat, NEW g \in Seq(Hop),
         Advances(s, t, n), Sound(t, g), Calm(t, u)
  PROVE  Advances(s, u, n) /\ Sound(u, g)
BY CalmSound DEF SameCounts, Advances

LEMMA RedirectSound ==
  ASSUME NEW s \in Manager, NEW event \in Sent, NEW g \in Seq(Hop), Sound(s, g),
         s.request # None, event.hop > 0, Redirectable(s, event, g)
  PROVE  LET t == HandleRequestRedirect(s, s.request, event)
         IN t \in Manager /\ Sound(t, g) /\ Advances(s, t, Responses(s, event))
<1> DEFINE h == s.request
           u == CreateResponse(s, h, event.hop - 1, event.redirected, FALSE)
           t == ReportOver(u, h, FALSE)
           n == Responses(s, event)
<1>1. h \in Hop /\ h = event.hop - 1 /\ event.redirected \in BOOLEAN /\ Predecessor(s, event.hop) = h
  BY DEF Manager, Sent, Redirectable, Predecessor
<1>2. /\ s.requests[h].report # "new" /\ ~Among(h, EntryOf(s).responses)
      /\ event.redirected /\ ~EntryOf(s).cached =>
           ResponseCount(s) + 1 \in DOMAIN g /\ g[ResponseCount(s) + 1] = h
  BY <1>1 DEF Redirectable
<1>3. u = CreateResponse(s, h, h, event.redirected, FALSE)
  BY <1>1
<1>4. n = (IF event.redirected /\ ~EntryOf(s).cached THEN 1 ELSE 0) /\ n \in Nat
  BY <1>1 DEF Responses
<1> HIDE DEF u, n, h
<1>5. /\ u \in Manager /\ Sound(u, g)
      /\ SentCount(u) = SentCount(s) /\ ReceivedCount(u) = ReceivedCount(s)
      /\ ResponseCount(u) = IF event.redirected /\ ~EntryOf(s).cached THEN ResponseCount(s) + 1
                            ELSE ResponseCount(s)
      /\ EntryOf(u).cached = EntryOf(s).cached /\ EntryOf(u).over = EntryOf(s).over
  <2> DEFINE hasExtraInfo == event.redirected
             empty == FALSE
             v == CreateResponse(s, h, h, hasExtraInfo, empty)
  <2>1. hasExtraInfo \in BOOLEAN /\ empty \in BOOLEAN
    BY <1>1
  <2>2. hasExtraInfo /\ ~EntryOf(s).cached =>
          ResponseCount(s) + 1 \in DOMAIN g /\ g[ResponseCount(s) + 1] = h
    BY <1>2
  <2> HIDE DEF hasExtraInfo, empty
  <2>3. /\ v \in Manager /\ Sound(v, g)
        /\ SentCount(v) = SentCount(s) /\ ReceivedCount(v) = ReceivedCount(s)
        /\ ResponseCount(v) = IF hasExtraInfo /\ ~EntryOf(s).cached THEN ResponseCount(s) + 1
                              ELSE ResponseCount(s)
        /\ EntryOf(v).cached = EntryOf(s).cached /\ EntryOf(v).over = EntryOf(s).over
    BY <1>1, <1>2, <2>1, <2>2, CreateResponseSound
  <2>4. u = v
    BY <1>3 DEF hasExtraInfo, empty
  <2> HIDE DEF v
  <2> QED BY <2>3, <2>4 DEF hasExtraInfo
<1>6. Advances(s, u, n)
  BY <1>4, <1>5, CountsType DEF Advances
<1>7. t \in Manager /\ Calm(u, t)
  BY <1>1, <1>5, ReportOverIsCalm, ReportOverEnds
<1> HIDE DEF t
<1>8. Advances(s, t, n) /\ Sound(t, g)
  BY <1>4, <1>5, <1>6, <1>7, AdvancesCalmly
<1> QED BY <1>7, <1>8 DEF HandleRequestRedirect, t, u, h, n

LEMMA OnRequestSound ==
  ASSUME NEW s \in Manager, NEW event \in Sent, NEW pause \in Pause \cup {None},
         NEW g \in Seq(Hop), Sound(s, g), s.requests[event.hop].report = "new",
         Redirectable(s, event, g)
  PROVE  LET t == OnRequest(s, event, pause)
         IN t \in Manager /\ Sound(t, g) /\ Advances(s, t, Responses(s, event))
<1> DEFINE e == event.hop
           from == Predecessor(s, e)
           t == IF from = None THEN s ELSE HandleRequestRedirect(s, from, event)
           u == OnRequest(s, event, pause)
           n == Responses(s, event)
<1>1. e \in Hop /\ from \in Hop \cup {None} /\ None \notin Hop /\ e \in Nat /\ n \in Nat
  BY NoneAssumption, HopOrder DEF Sent, Predecessor, Manager, Responses
<1>2. /\ t \in Manager /\ Sound(t, g) /\ Advances(s, t, n) /\ t.requests[e].report = "new"
  <2>1. CASE from = None
    <3>1. n = 0 /\ t = s
      BY <2>1 DEF Responses
    <3> QED BY <3>1, CountsType DEF Advances
  <2>2. CASE from # None
    <3>1. from = s.request /\ e > 0 /\ from = e - 1 /\ from \in Nat /\ from \in Hop
      BY <1>1, <2>2, HopOrder DEF Predecessor, Redirectable
    <3>2. t = HandleRequestRedirect(s, s.request, event)
      BY <2>2, <3>1
    <3>3. s.request # None /\ event.hop > 0
      BY <2>2, <3>1
    <3> HIDE DEF t, n
    <3>4. t \in Manager /\ Sound(t, g) /\ Advances(s, t, n)
      BY <3>2, <3>3, RedirectSound DEF n
    <3>5. Ends(s, t, s.request)
      BY <3>1, <3>2, RedirectEnds
    <3>6. e # s.request
      BY <1>1, <3>1
    <3> QED BY <1>1, <3>4, <3>5, <3>6 DEF Ends
  <2> QED BY <2>1, <2>2
<1>3. \/ pause # None /\ u \in {Send(t, "fulfill", pause), Send(t, "continue", pause)}
      \/ u = t \/ u = RequestStarted(t, e, pause, from)
  BY DEF OnRequest, Predecessor
<1> HIDE DEF t, u, n, from, e
<1>4. u \in Manager /\ Calm(t, u)
  <2>1. CASE pause # None /\ u \in {Send(t, "fulfill", pause), Send(t, "continue", pause)}
    <3>1. \A method \in {"fulfill", "continue"} : [method |-> method, pause |-> pause] \in Command
      BY <2>1 DEF Command
    <3> QED BY <1>2, <2>1, <3>1, SendIsCalm
  <2>2. CASE u = t
    BY <1>2, <2>2, SameIsCalm
  <2>3. CASE u = RequestStarted(t, e, pause, from)
    BY <1>1, <1>2, <2>3, RequestStartedIsCalm, RequestStartedBegins
  <2> QED BY <1>3, <2>1, <2>2, <2>3
<1>5. Advances(s, u, n) /\ Sound(u, g)
  BY <1>1, <1>2, <1>4, AdvancesCalmly
<1> QED BY <1>4, <1>5 DEF u, n

LEMMA UpdatesAreCalm ==
  ASSUME NEW s \in Manager
  PROVE  /\ \A event \in Sent \cup {None} :
              [s EXCEPT !.sent = event] \in Manager /\ Calm(s, [s EXCEPT !.sent = event])
         /\ \A pause \in Pause \cup {None} :
              [s EXCEPT !.paused = pause] \in Manager /\ Calm(s, [s EXCEPT !.paused = pause])
<1>1. ASSUME NEW event \in Sent \cup {None}
      PROVE  [s EXCEPT !.sent = event] \in Manager /\ Calm(s, [s EXCEPT !.sent = event])
  <2> DEFINE t == [s EXCEPT !.sent = event]
  <2>1. t \in Manager
    BY SentUpdate
  <2>2. t.tracker = s.tracker /\ t.requests = s.requests
    BY DEF Manager
  <2> HIDE DEF t
  <2>3. t \in Manager /\ Calm(s, t)
    BY <2>1, <2>2, SameIsCalm
  <2> QED BY <2>3 DEF t
<1>2. ASSUME NEW pause \in Pause \cup {None}
      PROVE  [s EXCEPT !.paused = pause] \in Manager /\ Calm(s, [s EXCEPT !.paused = pause])
  <2> DEFINE t == [s EXCEPT !.paused = pause]
  <2>1. t \in Manager
    BY PausedUpdate
  <2>2. t.tracker = s.tracker /\ t.requests = s.requests
    BY DEF Manager
  <2> HIDE DEF t
  <2>3. t \in Manager /\ Calm(s, t)
    BY <2>1, <2>2, SameIsCalm
  <2> QED BY <2>3 DEF t
<1> QED BY <1>1, <1>2

LEMMA CalmAdvances ==
  ASSUME NEW s \in Manager, NEW t \in Manager, Calm(s, t), NEW g \in Seq(Hop), Sound(s, g)
  PROVE  Sound(t, g) /\ Advances(s, t, 0)
BY CalmSound, SameAdvances

LEMMA OnRequestWillBeSentSound ==
  ASSUME NEW s \in Manager, NEW event \in Sent, NEW g \in Seq(Hop), Sound(s, g),
         s.requests[event.hop].report = "new", Redirectable(s, event, g)
  PROVE  LET t == OnRequestWillBeSent(s, event)
         IN /\ t \in Manager /\ Sound(t, g)
            /\ Advances(s, t, IF s.protocol /\ s.paused = None THEN 0 ELSE Responses(s, event))
<1>1. s.paused \in Pause \cup {None} /\ Responses(s, event) \in Nat /\ s.protocol \in BOOLEAN
  BY DEF Manager, Responses
<1>2. CASE ~s.protocol
  <2>1. OnRequestWillBeSent(s, event) = OnRequest(s, event, None)
    BY <1>2 DEF OnRequestWillBeSent
  <2> QED BY <1>2, <2>1, OnRequestSound
<1>3. CASE s.protocol /\ s.paused = None
  <2> DEFINE t == [s EXCEPT !.sent = event]
  <2>1. OnRequestWillBeSent(s, event) = t
    BY <1>3 DEF OnRequestWillBeSent
  <2>2. t \in Manager /\ Calm(s, t)
    BY UpdatesAreCalm
  <2> HIDE DEF t
  <2> QED BY <1>3, <2>1, <2>2, CalmAdvances
<1>4. CASE s.protocol /\ s.paused # None
  <2> DEFINE u == OnRequest(s, event, s.paused)
             t == [u EXCEPT !.paused = None]
  <2>1. OnRequestWillBeSent(s, event) = t
    BY <1>4 DEF OnRequestWillBeSent
  <2>2. u \in Manager /\ Sound(u, g) /\ Advances(s, u, Responses(s, event))
    BY <1>1, OnRequestSound
  <2> HIDE DEF u
  <2>3. t \in Manager /\ Calm(u, t)
    BY <2>2, UpdatesAreCalm
  <2> HIDE DEF t
  <2>4. Advances(s, t, Responses(s, event)) /\ Sound(t, g)
    BY <1>1, <2>2, <2>3, AdvancesCalmly
  <2> QED BY <1>4, <2>1, <2>3, <2>4
<1> QED BY <1>1, <1>2, <1>3, <1>4

LEMMA OnRequestPausedSound ==
  ASSUME NEW s \in Manager, NEW pause \in Pause, NEW g \in Seq(Hop), Sound(s, g),
         s.sent # None => s.requests[s.sent.hop].report = "new" /\ Redirectable(s, s.sent, g)
  PROVE  LET t == OnRequestPaused(s, pause)
         IN /\ t \in Manager /\ Sound(t, g)
            /\ Advances(s, t, IF kind # "foreign" /\ s.sent # None THEN Responses(s, s.sent) ELSE 0)
<1> DEFINE u == Send(s, "continue", pause)
           v == [s EXCEPT !.paused = pause]
           w == OnRequest(s, s.sent, pause)
<1>1. u \in Manager /\ Sound(u, g) /\ Advances(s, u, 0)
  <2>1. [method |-> "continue", pause |-> pause] \in Command
    BY DEF Command
  <2> QED BY <2>1, SendIsCalm, CalmAdvances
<1>2. v \in Manager /\ Sound(v, g) /\ Advances(s, v, 0)
  <2>1. v \in Manager /\ Calm(s, v)
    BY UpdatesAreCalm
  <2> HIDE DEF v
  <2> QED BY <2>1, CalmAdvances
<1>3. CASE kind # "foreign" /\ s.sent # None
  <2> DEFINE t == [w EXCEPT !.sent = None]
  <2>1. OnRequestPaused(s, pause) = t
    BY <1>3 DEF OnRequestPaused
  <2>2. s.sent \in Sent /\ Responses(s, s.sent) \in Nat
    BY <1>3 DEF Manager, Responses
  <2>3. w \in Manager /\ Sound(w, g) /\ Advances(s, w, Responses(s, s.sent))
    BY <1>3, <2>2, OnRequestSound
  <2> HIDE DEF w
  <2>4. t \in Manager /\ Calm(w, t)
    BY <2>3, UpdatesAreCalm
  <2> HIDE DEF t
  <2>5. Advances(s, t, Responses(s, s.sent)) /\ Sound(t, g)
    BY <2>2, <2>3, <2>4, AdvancesCalmly
  <2> QED BY <1>3, <2>1, <2>4, <2>5
<1>4. CASE ~(kind # "foreign" /\ s.sent # None)
  <2>1. OnRequestPaused(s, pause) \in {u, v}
    BY <1>4 DEF OnRequestPaused
  <2> HIDE DEF u, v
  <2> QED BY <1>1, <1>2, <1>4, <2>1
<1> QED BY <1>3, <1>4

LEMMA StopWaitingSound ==
  ASSUME NEW s \in Manager, NEW g \in Seq(Hop), Sound(s, g),
         s.request = None /\ s.sent # None => s.requests[s.sent.hop].report = "new"
  PROVE  LET t == StopWaiting(s) IN t \in Manager /\ Sound(t, g) /\ Advances(s, t, 0)
<1>1. CASE s.request = None /\ s.sent # None
  <2> DEFINE u == [s EXCEPT !.sent = None]
             t == OnRequest(u, s.sent, None)
  <2>1. StopWaiting(s) = t
    BY <1>1 DEF StopWaiting
  <2>2. u \in Manager /\ Calm(s, u)
    BY UpdatesAreCalm
  <2>3. u.request = None /\ u.requests = s.requests /\ s.sent \in Sent
    BY <1>1 DEF Manager
  <2> HIDE DEF u
  <2>4. Sound(u, g) /\ Advances(s, u, 0)
    BY <2>2, CalmAdvances
  <2>5. Predecessor(u, s.sent.hop) = None
    BY <2>3 DEF Predecessor
  <2>6. Redirectable(u, s.sent, g) /\ Responses(u, s.sent) = 0
    BY <2>5 DEF Redirectable, Responses
  <2>7. u.requests[s.sent.hop].report = "new"
    BY <1>1, <2>3
  <2> HIDE DEF t
  <2>8. t \in Manager /\ Sound(t, g) /\ Advances(u, t, Responses(u, s.sent))
    BY <2>2, <2>3, <2>4, <2>6, <2>7, OnRequestSound DEF t
  <2>9. Advances(s, t, 0)
    <3>1. SentCount(u) \in Nat /\ ResponseCount(u) \in Nat /\ ResponseCount(s) \in Nat
      BY <2>2, CountsType
    <3> QED BY <2>4, <2>6, <2>8, <3>1 DEF Advances
  <2> QED BY <2>1, <2>8, <2>9
<1>2. CASE ~(s.request = None /\ s.sent # None)
  BY <1>2, CountsType DEF StopWaiting, Advances
<1> QED BY <1>1, <1>2

(* The responses that are there are those of the first hops of g.            *)
LEMMA NotAmong ==
  ASSUME NEW s \in Manager, NEW g \in Seq(Hop), Sound(s, g), NEW h,
         \A i \in DOMAIN g : i <= ResponseCount(s) => g[i] # h
  PROVE  ~Among(h, EntryOf(s).responses)
<1> DEFINE e == EntryOf(s)
<1>1. e \in Entry /\ Matched(e, g)
  BY EntryOfType DEF Sound, SoundBut, Straight
<1>2. /\ DOMAIN e.responses = 1..Len(e.responses) /\ Len(e.responses) \in Nat
      /\ DOMAIN g = 1..Len(g) /\ Len(g) \in Nat /\ ResponseCount(s) = Len(e.responses)
  BY <1>1 DEF Entry, ResponseCount
<1> QED BY <1>1, <1>2 DEF Among, Matched

LEMMA OnResponseReceivedSound ==
  ASSUME NEW s \in Manager, Listed(s), NEW h \in Hop, NEW hasExtraInfo \in BOOLEAN,
         NEW empty \in BOOLEAN, NEW g \in Seq(Hop), Sound(s, g),
         s.request = None /\ s.sent # None => s.requests[s.sent.hop].report = "new",
         LET t == OnResponseReceived(s, h, hasExtraInfo, empty)
         IN t.request # None =>
              /\ t.request = h
              /\ \A i \in DOMAIN g : i <= ResponseCount(s) => g[i] # h
              /\ hasExtraInfo /\ ~EntryOf(s).cached =>
                   ResponseCount(s) + 1 \in DOMAIN g /\ g[ResponseCount(s) + 1] = h
  PROVE  LET t == OnResponseReceived(s, h, hasExtraInfo, empty)
         IN /\ t \in Manager /\ Sound(t, g)
            /\ Advances(s, t, IF t.request # None /\ hasExtraInfo /\ ~EntryOf(s).cached THEN 1 ELSE 0)
<1> DEFINE u == IF kind = "viaWorker" THEN StopWaiting(s) ELSE s
           t == OnResponseReceived(s, h, hasExtraInfo, empty)
<1>1. u \in Manager /\ Sound(u, g) /\ Advances(s, u, 0) /\ Listed(u)
  <2>1. CASE kind = "viaWorker"
    BY <2>1, StopWaitingSound, StopWaitingEffect DEF StopsWaiting, Effect
  <2>2. CASE kind # "viaWorker"
    BY <2>2, CountsType DEF Advances
  <2> QED BY <2>1, <2>2
<1>2. t = IF u.request = None THEN u ELSE CreateResponse(u, u.request, h, hasExtraInfo, empty)
  BY DEF OnResponseReceived
<1>3. /\ t.request # None =>
           /\ t.request = h
           /\ \A i \in DOMAIN g : i <= ResponseCount(s) => g[i] # h
           /\ hasExtraInfo /\ ~EntryOf(s).cached =>
                ResponseCount(s) + 1 \in DOMAIN g /\ g[ResponseCount(s) + 1] = h
  OBVIOUS
<1> HIDE DEF u, t
<1>4. /\ ResponseCount(u) = ResponseCount(s) /\ ResponseCount(s) \in Nat
      /\ EntryOf(u).cached = EntryOf(s).cached
  BY <1>1, CountsType DEF Advances
<1>5. ASSUME u.request = None
      PROVE  /\ t \in Manager /\ Sound(t, g)
             /\ Advances(s, t, IF t.request # None /\ hasExtraInfo /\ ~EntryOf(s).cached
                               THEN 1 ELSE 0)
  BY <1>1, <1>2, <1>5
<1>6. ASSUME u.request # None
      PROVE  /\ t \in Manager /\ Sound(t, g)
             /\ Advances(s, t, IF t.request # None /\ hasExtraInfo /\ ~EntryOf(s).cached
                               THEN 1 ELSE 0)
  <2>1. u.request \in Hop /\ u.requests[u.request].report = "live"
    BY <1>1, <1>6 DEF Manager, Listed
  <2>2. t.request = u.request
    BY <1>1, <1>2, <1>6, <2>1, CreateResponseKeeps DEF SameButAnswers
  <2>3. u.request = h /\ h # None
    BY <1>3, <1>6, <2>2
  <2>4. ~Among(h, EntryOf(u).responses)
    BY <1>1, <1>3, <1>4, <2>2, <2>3, NotAmong
  <2>5. hasExtraInfo /\ ~EntryOf(u).cached =>
          ResponseCount(u) + 1 \in DOMAIN g /\ g[ResponseCount(u) + 1] = h
    BY <1>3, <1>4, <2>2, <2>3
  <2>6. t = CreateResponse(u, h, h, hasExtraInfo, empty) /\ u.requests[h].report # "new"
    BY <1>2, <1>6, <2>1, <2>3
  <2>7. /\ t \in Manager /\ Sound(t, g)
        /\ SentCount(t) = SentCount(u) /\ ReceivedCount(t) = ReceivedCount(u)
        /\ ResponseCount(t) = IF hasExtraInfo /\ ~EntryOf(u).cached THEN ResponseCount(u) + 1
                              ELSE ResponseCount(u)
        /\ EntryOf(t).cached = EntryOf(u).cached /\ EntryOf(t).over = EntryOf(u).over
    BY <1>1, <2>4, <2>5, <2>6, CreateResponseSound
  <2>8. t.request # None
    BY <2>2, <2>3
  <2>9. CASE hasExtraInfo /\ ~EntryOf(s).cached
    <3>1. Advances(s, t, 1)
      BY <1>1, <1>4, <2>7, <2>9 DEF Advances
    <3> QED BY <2>7, <2>8, <2>9, <3>1
  <2>10. CASE ~(hasExtraInfo /\ ~EntryOf(s).cached)
    <3>1. Advances(s, t, 0)
      BY <1>1, <1>4, <2>7, <2>10 DEF Advances
    <3> QED BY <2>7, <2>10, <3>1
  <2> QED BY <2>9, <2>10
<1>7. /\ t \in Manager /\ Sound(t, g)
      /\ Advances(s, t, IF t.request # None /\ hasExtraInfo /\ ~EntryOf(s).cached THEN 1 ELSE 0)
  BY <1>5, <1>6
<1> QED BY <1>7 DEF t

(* The rest of the handlers of loadingFinished and loadingFailed, after the  *)
(* tracker heard of it.                                                     *)
LEMMA FinishesSound ==
  ASSUME NEW u \in Manager, NEW g \in Seq(Hop), Sound(u, g)
  PROVE  LET t == IF u.request = None THEN u ELSE ReportOver(u, u.request, FALSE)
         IN t \in Manager /\ Sound(t, g) /\ Advances(u, t, 0)
<1>1. CASE u.request = None
  BY <1>1, CountsType DEF Advances
<1>2. CASE u.request # None
  <2> DEFINE t == ReportOver(u, u.request, FALSE)
  <2>1. u.request \in Hop
    BY <1>2 DEF Manager
  <2>2. t \in Manager /\ Calm(u, t)
    BY <2>1, ReportOverIsCalm, ReportOverEnds
  <2> HIDE DEF t
  <2>3. t \in Manager /\ Sound(t, g) /\ Advances(u, t, 0)
    BY <2>2, CalmAdvances
  <2> QED BY <1>2, <2>3 DEF t
<1> QED BY <1>1, <1>2

LEMMA FailsSound ==
  ASSUME NEW u \in Manager, NEW g \in Seq(Hop), Sound(u, g),
         Listed(u), u.request = None /\ u.sent # None => u.requests[u.sent.hop].report = "new"
  PROVE  LET v == StopWaiting(u)
             h == v.request
             t == IF h = None THEN v
                  ELSE IF v.requests[h].response = "none"
                  THEN ReportOver(SetRawRequest(v, h, "provisional"), h, TRUE)
                  ELSE ReportOver(v, h, ~v.requests[h].empty)
         IN t \in Manager /\ Sound(t, g) /\ Advances(u, t, 0)
<1> DEFINE v == StopWaiting(u)
           h == v.request
           w == SetRawRequest(v, h, "provisional")
           empty == v.requests[h].empty
           x == ReportOver(w, h, TRUE)
           y == ReportOver(v, h, ~empty)
<1>1. v \in Manager /\ Sound(v, g) /\ Advances(u, v, 0)
  BY StopWaitingSound
<1> HIDE DEF v
<1>2. CASE h = None
  BY <1>1, <1>2 DEF v
<1>3. CASE h # None
  <2>1. h \in Hop
    BY <1>1, <1>3 DEF Manager
  <2>2. v.requests[h] \in Request /\ (~empty) \in BOOLEAN
    <3>1. v.requests \in [Hop -> Request]
      BY <1>1 DEF Manager
    <3>2. v.requests[h] \in Request
      BY <2>1, <3>1
    <3>3. \A r \in Request : (~r.empty) \in BOOLEAN
      BY DEF Request
    <3> QED BY <3>2, <3>3
  <2> HIDE DEF h
  <2>3. CASE v.requests[h].response = "none"
    <3>1. w \in Manager /\ Sound(w, g) /\ EntryOf(w) = EntryOf(v) /\ Excused(w, h)
      BY <1>1, <2>1, ExcusedSound
    <3> HIDE DEF w
    <3>2. Advances(u, w, 0)
      BY <1>1, <3>1 DEF Advances, SentCount, ReceivedCount, ResponseCount
    <3>3. x \in Manager /\ Calm(w, x)
      BY <2>1, <3>1, ReportOverIsCalm, ReportOverEnds
    <3> HIDE DEF x
    <3>4. x \in Manager /\ Sound(x, g) /\ Advances(u, x, 0)
      BY <3>1, <3>2, <3>3, AdvancesCalmly
    <3> QED BY <1>3, <2>3, <3>4 DEF x, w, h, v
  <2>4. CASE v.requests[h].response # "none"
    <3>1. Excused(v, h)
      BY <2>4 DEF Excused
    <3> HIDE DEF empty
    <3>2. y \in Manager /\ Calm(v, y)
      BY <1>1, <2>1, <2>2, <3>1, ReportOverIsCalm, ReportOverEnds
    <3> HIDE DEF y
    <3>3. y \in Manager /\ Sound(y, g) /\ Advances(u, y, 0)
      BY <1>1, <3>2, AdvancesCalmly
    <3> QED BY <1>3, <2>4, <3>3 DEF y, empty, h, v
  <2> QED BY <2>3, <2>4
<1> QED BY <1>2, <1>3

(* The entry is kept, or everything is settled.                             *)
SameLengths(s, t) ==
  /\ SentCount(t) = SentCount(s) /\ ReceivedCount(t) = ReceivedCount(s)
  /\ ResponseCount(t) = ResponseCount(s) /\ EntryOf(t).cached = EntryOf(s).cached

LEMMA OnLoadingFinishedSound ==
  ASSUME NEW s \in Manager, NEW g \in Seq(Hop), Sound(s, g),
         ReceivedCount(s) <= SentCount(s) \/ g = <<>>
  PROVE  LET t == OnLoadingFinished(s)
         IN t \in Manager /\ ((Sound(t, g) /\ SameLengths(s, t)) \/ Sound(t, <<>>))
<1> DEFINE u == LoadingOver(s)
           t == IF u.request = None THEN u ELSE ReportOver(u, u.request, FALSE)
<1>1. OnLoadingFinished(s) = t
  BY DEF OnLoadingFinished
<1>2. u \in Manager /\ ((Sound(u, g) /\ SameLengths(s, u)) \/ Sound(u, <<>>))
  BY LoadingOverSound DEF SameLengths
<1> HIDE DEF u
<1>3. <<>> \in Seq(Hop)
  OBVIOUS
<1>4. ASSUME NEW f \in Seq(Hop), Sound(u, f)
      PROVE  t \in Manager /\ Sound(t, f) /\ Advances(u, t, 0)
  BY <1>2, <1>4, FinishesSound
<1> HIDE DEF t
<1>5. Advances(u, t, 0) => SameLengths(u, t)
  BY <1>2, CountsType DEF Advances, SameLengths
<1> QED BY <1>1, <1>2, <1>3, <1>4, <1>5 DEF SameLengths

LEMMA OnLoadingFailedSound ==
  ASSUME NEW s \in Manager, Listed(s), NEW g \in Seq(Hop), Sound(s, g),
         ReceivedCount(s) <= SentCount(s) \/ g = <<>>,
         s.request = None /\ s.sent # None => s.requests[s.sent.hop].report = "new"
  PROVE  LET t == OnLoadingFailed(s)
         IN t \in Manager /\ ((Sound(t, g) /\ SameLengths(s, t)) \/ Sound(t, <<>>))
<1> DEFINE u == LoadingOver(s)
           v == StopWaiting(u)
           h == v.request
           t == IF h = None THEN v
                ELSE IF v.requests[h].response = "none"
                THEN ReportOver(SetRawRequest(v, h, "provisional"), h, TRUE)
                ELSE ReportOver(v, h, ~v.requests[h].empty)
<1>1. OnLoadingFailed(s) = t
  BY DEF OnLoadingFailed
<1>2. /\ u \in Manager /\ Untouched(s, u)
      /\ (Sound(u, g) /\ SameLengths(s, u)) \/ Sound(u, <<>>)
  BY LoadingOverSound DEF SameLengths
<1> HIDE DEF u
<1>3. <<>> \in Seq(Hop)
  OBVIOUS
<1>4. Listed(u) /\ (u.request = None /\ u.sent # None => u.requests[u.sent.hop].report = "new")
  <2>1. /\ u.request = s.request /\ u.sent = s.sent
        /\ \A k \in Hop : u.requests[k].report = s.requests[k].report
    BY <1>2 DEF Untouched, SameButAnswers
  <2>2. /\ s.request # None => s.request \in Hop
        /\ s.sent # None => s.sent.hop \in Hop
    BY DEF Manager, Sent
  <2> QED BY <2>1, <2>2 DEF Listed
<1>5. ASSUME NEW f \in Seq(Hop), Sound(u, f)
      PROVE  t \in Manager /\ Sound(t, f) /\ Advances(u, t, 0)
  BY <1>2, <1>4, <1>5, FailsSound
<1> HIDE DEF t
<1>6. Advances(u, t, 0) => SameLengths(u, t)
  BY <1>2, CountsType DEF Advances, SameLengths
<1> QED BY <1>1, <1>2, <1>3, <1>5, <1>6 DEF SameLengths

(***************************************************************************)
(* How the requests of a chain follow each other.                          *)
(***************************************************************************)
(* What is announced after a hop that is announced is announced, too.        *)
AnnouncedOn == \A g, h \in Hop : Announced(g) /\ g < h /\ h <= browser.hop => Announced(h)

(* All hops after the listed one have still to be started.                   *)
Follows == m.request # None => \A h \in Hop : m.request < h /\ h <= browser.hop => Unstarted(h)

RespondsOnce(list) == \A i, j \in DOMAIN list :
  list[i].event = "responseReceived" /\ list[j].event = "responseReceived" => i = j

(* Only the last hop is listed with a response.                             *)
LiveUnanswered == m.request # None /\ m.requests[m.request].response # "none" =>
                    m.request = browser.hop /\ ~Responding

(* As long as a frame asks for it and it has not ended, a plain load has a   *)
(* listed request or none that was started.                                 *)
NoneLive == frame /\ kind = "plain" /\ m.request = None /\ ~EndHandled =>
              \A h \in Hop : m.requests[h].report = "new"

Chained == AnnouncedOn /\ Follows /\ RespondsOnce(network) /\ LiveUnanswered /\ NoneLive

LEMMA BrowserAnnouncesOn ==
  ASSUME Typed, Structure, AnnouncedOn, BrowserStep, LoadStep
  PROVE  AnnouncedOn'
<1> SUFFICES ASSUME NEW g \in Hop, NEW h \in Hop, Announced(g)', g < h, h <= browser'.hop
             PROVE  Announced(h)'
  BY DEF AnnouncedOn
<1>1. g \in Nat /\ h \in Nat /\ browser.hop \in Nat /\ browser'.hop \in Nat
  BY HopOrder, BrowserShape
<1>2. Announced(g) \/ NewsOf(g)
  BY BrowserKeeps
<1>3. browser.stage = "none" => browser.hop = 0
  BY DEF Structure, Beginning
<1>4. kind # "foreign"
  <2>1. network' = network \/ kind # "foreign"
    BY DEF BrowserStep, Begins0, GoesOn, IsPaused, IsNotPaused, MovesOn, AppendsMiddle, Appends,
           IsOverNow, AppendsEnd, IsLetGo, IsCut, Ignores
  <2>2. kind = "foreign" => network = <<>>
    BY DEF Structure, ByKind
  <2> QED BY <2>1, <2>2 DEF Announced, AnnouncedIn
<1>5. CASE GoesOn /\ h = browser'.hop
  BY <1>4, <1>5, NewsIsAnnounced DEF NewsOf
<1>6. CASE ~(GoesOn /\ h = browser'.hop)
  <2>1. h <= browser.hop
    BY <1>1, <1>6, BrowserShape
  <2>2. ~NewsOf(g)
    BY <1>1, <1>3, <2>1, BrowserShape DEF NewsOf, Begins0, GoesOn, SamePauses
  <2>3. Announced(h)
    BY <1>2, <2>1, <2>2 DEF AnnouncedOn
  <2> QED BY <2>3, BrowserKeepsNews DEF Unstarted
<1> QED BY <1>5, <1>6

LEMMA BrowserFollows ==
  ASSUME Typed, Structure, HeardOK, Follows, BrowserStep, LoadStep
  PROVE  Follows'
<1> SUFFICES ASSUME m.request # None, NEW h \in Hop, m.request < h, h <= browser'.hop
             PROVE  Unstarted(h)'
  BY BrowserKeeps DEF Follows
<1>1. h \in Nat /\ browser.hop \in Nat /\ browser'.hop \in Nat
  BY HopOrder, BrowserShape
<1>2. CASE h <= browser.hop
  BY <1>2, BrowserKeepsNews DEF Follows
<1>3. CASE ~(h <= browser.hop)
  <2>1. GoesOn /\ h = browser'.hop
    BY <1>1, <1>3, BrowserShape
  <2>2. kind # "foreign"
    BY DEF HeardOK
  <2> QED BY <2>1, <2>2, NewsIsAnnounced DEF NewsOf, Unstarted
<1> QED BY <1>2, <1>3

LEMMA RespondsOnceAppend ==
  ASSUME NEW q \in Seq(NetworkEvent), NEW e \in NetworkEvent, RespondsOnce(q),
         e.event = "responseReceived" => ~Responds(q)
  PROVE  RespondsOnce(Append(q, e))
<1>1. /\ DOMAIN Append(q, e) = 1..(Len(q) + 1) /\ DOMAIN q = 1..Len(q) /\ Len(q) \in Nat
      /\ \A i \in DOMAIN Append(q, e) : Append(q, e)[i] = IF i = Len(q) + 1 THEN e ELSE q[i]
  BY AppendItems
<1> SUFFICES ASSUME NEW i \in DOMAIN Append(q, e), NEW j \in DOMAIN Append(q, e),
                    Append(q, e)[i].event = "responseReceived",
                    Append(q, e)[j].event = "responseReceived"
             PROVE  i = j
  BY DEF RespondsOnce
<1>2. \A k \in DOMAIN Append(q, e) : k # Len(q) + 1 => k \in DOMAIN q /\ Append(q, e)[k] = q[k]
  BY <1>1
<1> QED BY <1>1, <1>2 DEF RespondsOnce, Responds

LEMMA BrowserRespondsOnce ==
  ASSUME Typed, Structure, FlagsOK, NetworkOK, RespondsOnce(network), BrowserStep, LoadStep
  PROVE  RespondsOnce(network)' /\ (Responding' => Responding \/ LoadIsAnswered)
<1>1. network \in Seq(NetworkEvent)
  BY TypedParts
<1>2. browser.answered => browser.stage \in {"answered", "over"}
  BY DEF FlagsOK
<1>3. Responds(network) => browser.answered
  BY DEF NetworkOK, ListOK, Responds
<1>4. ASSUME NEW e \in NetworkEvent, Appends(e), e.event # "responseReceived"
      PROVE  RespondsOnce(network)' /\ (Responding' => Responding)
  <2>1. CASE network' = network
    BY <2>1 DEF Responding
  <2>2. CASE network' = Append(network, e)
    <3>1. RespondsOnce(Append(network, e))
      BY <1>1, <1>4, RespondsOnceAppend
    <3>2. Responds(Append(network, e)) => Responds(network)
      BY <1>1, <1>4, AppendItems DEF Responds
    <3> QED BY <2>2, <3>1, <3>2 DEF Responding
  <2> QED BY <1>4, <2>1, <2>2 DEF Appends
<1>5. CASE LoadGoesOn
  BY <1>4, <1>5 DEF LoadGoesOn, Responding
<1>6. CASE LoadIsOver
  <2>1. PICK e \in NetworkEvent :
          e.event = (IF browser'.failed THEN "loadingFailed" ELSE "loadingFinished") /\ Appends(e)
    BY <1>6 DEF LoadIsOver
  <2>2. e.event # "responseReceived"
    BY <2>1
  <2> QED BY <1>4, <2>1, <2>2
<1>7. CASE LoadIsAnswered
  <2>1. ~Responds(network)
    BY <1>2, <1>3, <1>7 DEF LoadIsAnswered
  <2>2. PICK e \in NetworkEvent :
          /\ e.event = "responseReceived"
          /\ \/ Appends(e)
             \/ \E c \in NetworkEvent :
                  /\ c.event = "requestServedFromCache" /\ kind # "foreign"
                  /\ network' = Append(Append(network, c), e)
    BY <1>7 DEF LoadIsAnswered
  <2>3. CASE Appends(e)
    BY <1>1, <2>1, <2>3, RespondsOnceAppend, <1>7 DEF Appends
  <2>4. CASE ~Appends(e)
    <3>1. PICK c \in NetworkEvent : /\ c.event = "requestServedFromCache"
                                    /\ network' = Append(Append(network, c), e)
      BY <2>2, <2>4
    <3>2. RespondsOnce(Append(network, c)) /\ Append(network, c) \in Seq(NetworkEvent)
      BY <1>1, <3>1, RespondsOnceAppend
    <3>3. ~Responds(Append(network, c))
      BY <1>1, <2>1, <3>1, AppendItems DEF Responds
    <3>4. RespondsOnce(Append(Append(network, c), e))
      BY <3>2, <3>3, RespondsOnceAppend
    <3> QED BY <1>7, <3>1, <3>4
  <2> QED BY <2>3, <2>4
<1> QED BY <1>5, <1>6, <1>7 DEF LoadStep

(* Steps of the browser keep the chain in order.                             *)
LEMMA BrowserChained ==
  ASSUME Typed, Structure, Loading, Reporting, Chained, BrowserStep, LoadStep
  PROVE  Chained'
<1>1. AnnouncedOn' /\ Follows'
  BY BrowserAnnouncesOn, BrowserFollows DEF Chained, Loading
<1>2. RespondsOnce(network)' /\ (Responding' => Responding \/ LoadIsAnswered)
  BY BrowserRespondsOnce DEF Chained, Loading
<1>3. UNCHANGED <<m, kind, frame>>
  BY BrowserKeeps
<1>4. LiveUnanswered'
  <2> SUFFICES ASSUME m.request # None, m.requests[m.request].response # "none"
               PROVE  m.request = browser'.hop /\ ~Responding'
    BY <1>3 DEF LiveUnanswered
  <2>1. m.request = browser.hop /\ ~Responding
    BY DEF Chained, LiveUnanswered
  <2>2. browser.answered
    <3>1. m.request \in Hop /\ browser.hop \in Nat
      BY ListedIsLive, HopOrder
    <3>2. m.request < browser.hop \/ browser.answered
      BY <3>1 DEF Reporting, ResponsesOK, Answered
    <3> QED BY <2>1, <3>1, <3>2
  <2>3. browser.stage \in {"answered", "over"}
    BY <2>2 DEF Loading, FlagsOK
  <2>4. ~LoadIsAnswered
    BY <2>3 DEF LoadIsAnswered
  <2>5. browser'.hop = browser.hop
    BY <2>2, HopGrows DEF Loading
  <2> QED BY <1>2, <2>1, <2>4, <2>5
<1>5. NoneLive'
  <2>1. EndHandled => EndHandled'
    BY AfterTheEnd DEF EndHandled
  <2> QED BY <1>3, <2>1 DEF Chained, NoneLive
<1> QED BY <1>1, <1>2, <1>4, <1>5 DEF Chained

(* The event that ends a load is the last one, and leaves no request listed. *)
LEMMA EndIsTaken ==
  ASSUME Typed, Structure, ManagerStep, NEW name \in Ending, TakesEvent(name)
  PROVE  m'.request = None /\ EndHandled'
<1>1. network \in Seq(NetworkEvent) /\ network # <<>> /\ network' = Tail(network)
      /\ Head(network).event = name /\ network' # network
  BY TypedParts, TakesOne DEF TakesEvent
<1>2. 1 \in DOMAIN network /\ network[1] = Head(network) /\ Len(Tail(network)) = Len(network) - 1
  BY <1>1, TailItems
<1>3. 1 = Len(network) /\ browser.stage = "over"
  BY <1>1, <1>2 DEF Structure, EndIsLast, Ending
<1>4. network' = <<>>
  <2>1. Tail(network) \in Seq(NetworkEvent)
    BY <1>1, TailType
  <2>2. Len(Tail(network)) = 0
    BY <1>2, <1>3
  <2> QED BY <1>1, <2>1, <2>2, EmptySeq
<1>5. EndHandled'
  <2>1. kind # "foreign"
    BY <1>1 DEF Structure, ByKind
  <2> QED BY <1>3, <1>4, <2>1, ManagerQueues DEF EndHandled
<1>6. \A other : TakesEvent(other) => other = name
  BY TakesOne
<1>7. ~Hears /\ ~HearsLate /\ ~SeesPause
  <2>1. ~TakesEvent("requestWillBeSent") /\ ~TakesEvent("responseReceived")
    BY <1>6 DEF Ending
  <2> QED BY <1>1, <2>1 DEF Hears, HearsLate, SeesPause
<1>8. ASSUME Bookkeeps PROVE m'.request = None
  BY <1>1, <1>8 DEF Bookkeeps, LeavesBe, SameReports, Ending
<1>9. ASSUME HearsEnd PROVE m'.request = None
  BY <1>9 DEF HearsEnd, IsOver, SameReports, StopsNow
<1> QED BY <1>5, <1>7, <1>8, <1>9 DEF ManagerStep

(* A request that waits for its pause, not that of a worker, is the last one. *)
LEMMA KeptIsLast ==
  ASSUME Typed, Structure, Ordered, ~Disturbed, NEW g \in Hop, Kept(m, g),
         kind = "viaWorker" => g > 0
  PROVE  g = browser.hop
<1>1. g \in Nat /\ browser.hop \in Nat /\ browser.hop \in Hop
  BY HopOrder
<1>2. g <= browser.hop
  BY <1>1 DEF Structure, Future, Unstarted
<1>3. ASSUME g < browser.hop PROVE FALSE
  <2>1. expecting[g] = "yes" /\ browser.pausing[g] # "undecided"
    BY <1>3 DEF Structure, KeptIsExpected, Past
  <2>2. browser.pausing[g] \in {"undecided", "no", "yes", "cut"}
    BY TypedParts DEF Browser
  <2>3. browser.pausing[g] = "yes"
    BY <2>1, <2>2 DEF Disturbed
  <2>4. browser.hop = g
    BY <2>3 DEF Ordered, UnstartedIsHeld, Unstarted
  <2> QED BY <1>1, <1>3, <2>4
<1> QED BY <1>1, <1>2, <1>3

(* The request that gets the last response is the last one.                  *)
LEMMA ResponderIsLast ==
  ASSUME Typed, Structure, Ordered, Loading, Reporting, ~Disturbed, Follows, ManagerStep,
         TakesEvent("responseReceived"), m'.request # None
  PROVE  m'.request = browser.hop
<1>1. /\ browser.hop \in Hop /\ browser.hop \in Nat /\ network # <<>>
      /\ browser.answered /\ \A h \in Hop : ~Announced(h)
  BY HeadResponds, HopOrder DEF Loading, TakesEvent
<1>2. browser.stage \in {"answered", "over"} /\ ~browser.cancelled
  BY <1>1 DEF Loading, FlagsOK
<1>3. /\ browser.pausing[browser.hop] # "undecided"
      /\ browser.pausing[browser.hop] \in {"undecided", "no", "yes", "cut"}
  <2>1. browser.pausing[browser.hop] # "undecided"
    BY <1>1, <1>2 DEF Structure, Past, Loading, FlagsOK
  <2> QED BY <1>1, <2>1, TypedParts DEF Browser
<1>4. ~Hears /\ ~SeesPause /\ ~HearsEnd
  <2>1. network' # network /\ \A other : TakesEvent(other) => other = "responseReceived"
    BY TakesOne
  <2>2. ~TakesEvent("requestWillBeSent") /\ ~TakesEvent("loadingFinished") /\ ~TakesEvent("loadingFailed")
    BY <2>1
  <2> QED BY <2>1, <2>2 DEF Hears, SeesPause, HearsEnd
<1>5. CASE Bookkeeps
  <2>1. m.request = m'.request
    BY <1>5 DEF Bookkeeps, SameReports
  <2>2. m.request \in Nat /\ m.request <= browser.hop
    BY <2>1, ListedIsLive
  <2>3. ASSUME m.request < browser.hop PROVE FALSE
    <3>1. Kept(m, browser.hop)
      BY <1>1, <2>1, <2>3 DEF Follows, Unstarted
    <3>2. expecting[browser.hop] = "yes" /\ browser.hop > 0
      BY <1>1, <2>2, <2>3, <3>1 DEF Structure, KeptIsExpected
    <3>3. browser.pausing[browser.hop] = "yes"
      BY <1>1, <1>3, <3>2 DEF Disturbed
    <3>4. browser.stage = "over"
      BY <1>1, <1>2, <3>1, <3>3 DEF Ordered, UnstartedIsHeld, Unstarted
    <3> QED BY <1>1, <1>2, <3>1, <3>3, <3>4 DEF Reporting, WaitingOK, Unstarted
  <2> QED BY <1>1, <2>1, <2>2, <2>3
<1>6. CASE HearsLate
  <2>1. frame /\ kind = "viaWorker"
    BY <1>6 DEF HearsLate, StopsNow, SameReports
  <2>2. Counted(browser.hop)
    <3>1. expecting[browser.hop] # "unheard"
      BY <1>1, <1>2, <2>1 DEF Loading, HeardOK
    <3>2. expecting[browser.hop] \in {"unheard", "yes", "no"}
      BY <1>1, TypedParts
    <3>3. ASSUME expecting[browser.hop] = "yes", browser.hop > 0 PROVE FALSE
      <4>1. browser.pausing[browser.hop] = "no"
        BY <1>1, <1>3, <2>1 DEF Structure, ByKind
      <4> QED BY <1>1, <3>3, <4>1 DEF Disturbed
    <3> QED BY <1>1, <2>1, <3>1, <3>2, <3>3 DEF Counted
  <2> QED BY <2>1, <2>2, AnswerFindsLast
<1> QED BY <1>4, <1>5, <1>6 DEF ManagerStep

(***************************************************************************)
(* Steps of the manager keep the chain in order.                            *)
(***************************************************************************)
LEMMA SkipsListsNone ==
  ASSUME Typed, NEW e \in Hop, NewFrom(m, e), Skips(m, m', e)
  PROVE  m'.request = None
BY NewIsNext DEF Skips, Predecessor

LEMMA ManagerAnnouncesOn ==
  ASSUME Typed, Structure, AnnouncedOn, ManagerStep
  PROVE  AnnouncedOn'
<1> SUFFICES ASSUME NEW g \in Hop, NEW h \in Hop, Announced(g)', g < h, h <= browser.hop
             PROVE  Announced(h)'
  BY ManagerQueues DEF AnnouncedOn
<1>1. Announced(g) /\ (Hears => Head(network).hop < g)
  BY ManagerHears
<1>2. Announced(h)
  BY <1>1 DEF AnnouncedOn
<1>3. Hears => Head(network).hop # h
  <2>1. Hears => Head(network).hop \in Nat
    BY HeardIsAnnounced, HopOrder
  <2> QED BY <1>1, <2>1, HopOrder
<1> QED BY <1>2, <1>3, ManagerHears

LEMMA BookkeepsIsQuiet ==
  ASSUME Typed, Bookkeeps
  PROVE  ~Hears
<1>1. TakesEvent("requestWillBeSent") => network' # network
  BY TakesOne
<1> QED BY <1>1 DEF Bookkeeps, LeavesBe, Hears, TakesEvent

LEMMA ManagerFollows ==
  ASSUME Typed, Typed', Structure, Ordered, Loading, Reporting, ~Disturbed, AnnouncedOn, Follows,
         ManagerStep
  PROVE  Follows'
<1> SUFFICES ASSUME m'.request # None, NEW h \in Hop, m'.request < h, h <= browser.hop
             PROVE  Unstarted(h)'
  BY ManagerQueues DEF Follows
<1>1. /\ h \in Nat /\ m'.request \in Nat /\ browser.hop \in Nat /\ m'.request \in Hop
  <2>1. m'.request \in Hop \cup {None}
    BY DEF Typed, TypeOK, Manager
  <2> QED BY <2>1, HopOrder
<1>2. Announced(h) => Announced(h)' \/ (Hears /\ Head(network).hop = h)
  BY ManagerHears
<1>3. CASE Bookkeeps
  <2>1. m'.request = m.request /\ m'.sent = m.sent
    BY <1>3 DEF Bookkeeps, SameReports, KeepsBoth
  <2> QED BY <1>2, <1>3, <2>1, BookkeepsIsQuiet DEF Follows, Unstarted, Kept
<1>4. CASE Hears
  <2> DEFINE e == Head(network).hop
  <2>1. e \in Hop /\ Announced(e) /\ NewFrom(m, e) /\ e \in Nat
    BY <1>4, HeardIsAnnounced, HopOrder DEF Ordered, NewInOrder
  <2>2. CASE /\ m.protocol /\ m.paused = None /\ SameReports(m, m')
             /\ m'.sent = [hop |-> e, redirected |-> Head(network).hasExtraInfo]
    <3>1. m'.request = m.request /\ Kept(m', e)
      <4>1. Head(network).hasExtraInfo \in BOOLEAN
        <5>1. network \in Seq(NetworkEvent) /\ network # <<>>
          BY <1>4, TypedParts DEF Hears, TakesEvent
        <5>2. Head(network) \in NetworkEvent
          BY <5>1, TailType
        <5> QED BY <5>2 DEF NetworkEvent
      <4>2. m'.sent \in Sent
        BY <2>1, <2>2, <4>1 DEF Sent
      <4>3. m'.sent # None
        BY <4>2, NoneAssumption DEF Sent, Hop
      <4> QED BY <2>2, <4>3 DEF SameReports, Kept
    <3>2. ~Kept(m, h)
      BY <1>1, <2>1, KeptForWorker
    <3>3. Announced(h)
      BY <3>1, <3>2 DEF Follows, Unstarted
    <3> QED BY <1>2, <3>1, <3>3 DEF Unstarted
  <2>3. CASE Begins(m, m', e)
    <3>1. m'.request = e
      BY <2>3 DEF Begins
    <3>2. Announced(h)
      BY <2>1, <3>1 DEF AnnouncedOn
    <3> QED BY <1>1, <1>2, <3>1, <3>2 DEF Unstarted
  <2>4. ~Skips(m, m', e)
    BY <2>1, SkipsListsNone
  <2> QED BY <1>4, <2>2, <2>3, <2>4 DEF Hears
<1>5. CASE SeesPause
  <2>1. network' = network /\ ~Hears
    BY <1>5, TakesOne DEF SeesPause, Hears
  <2>2. CASE SameReports(m, m') /\ m'.sent = m.sent
    BY <1>2, <2>1, <2>2 DEF SameReports, Follows, Unstarted, Kept
  <2>3. CASE m.sent # None /\ (Begins(m, m', m.sent.hop) \/ Skips(m, m', m.sent.hop))
    <3>1. m.sent.hop \in Hop /\ Kept(m, m.sent.hop)
      BY <2>3, SentHop
    <3>2. kind # "viaWorker"
      BY <1>5, PauseNeedsNoWorker
    <3>3. m.sent.hop = browser.hop /\ NewFrom(m, m.sent.hop)
      BY <3>1, <3>2, KeptIsLast DEF Ordered, NewInOrder, Forgotten
    <3>4. m'.request = browser.hop
      BY <2>3, <3>1, <3>3, SkipsListsNone DEF Begins
    <3> QED BY <1>1, <3>4
  <2> QED BY <1>5, <2>2, <2>3 DEF SeesPause, KeepsBoth
<1>6. CASE HearsLate
  BY <1>1, <1>6, ResponderIsLast DEF HearsLate
<1>7. CASE HearsEnd
  BY <1>7, EndIsTaken DEF HearsEnd, Ending
<1> QED BY <1>3, <1>4, <1>5, <1>6, <1>7 DEF ManagerStep

LEMMA ManagerRespondsOnce ==
  ASSUME Typed, RespondsOnce(network), ManagerStep
  PROVE  /\ RespondsOnce(network)' /\ (Responding' => Responding)
         /\ TakesEvent("responseReceived") => ~Responding'
<1>1. network \in Seq(NetworkEvent)
  BY TypedParts
<1>2. CASE network' = network
  <2>1. ~TakesEvent("responseReceived")
    BY <1>2, TakesOne
  <2> QED BY <1>2, <2>1 DEF Responding
<1>3. CASE network # <<>> /\ network' = Tail(network)
  <2>1. /\ DOMAIN network = 1..Len(network) /\ Len(network) \in Nat \ {0}
        /\ DOMAIN Tail(network) = 1..(Len(network) - 1)
        /\ \A i \in DOMAIN Tail(network) : Tail(network)[i] = network[i + 1]
        /\ network[1] = Head(network)
    BY <1>1, <1>3, TailItems
  <2>2. \A i \in DOMAIN Tail(network) : i + 1 \in DOMAIN network /\ i + 1 # 1 /\ i \in Nat
    BY <2>1
  <2>3. RespondsOnce(Tail(network))
    <3> SUFFICES ASSUME NEW i \in DOMAIN Tail(network), NEW j \in DOMAIN Tail(network),
                        Tail(network)[i].event = "responseReceived",
                        Tail(network)[j].event = "responseReceived"
                 PROVE  i = j
      BY DEF RespondsOnce
    <3>1. i + 1 = j + 1
      BY <2>1, <2>2 DEF RespondsOnce
    <3> QED BY <2>2, <3>1
  <2>4. Responds(Tail(network)) => Responds(network)
    BY <2>1, <2>2 DEF Responds
  <2>5. network[1].event = "responseReceived" => ~Responds(Tail(network))
    <3> SUFFICES ASSUME network[1].event = "responseReceived", NEW i \in DOMAIN Tail(network),
                        Tail(network)[i].event = "responseReceived"
                 PROVE  FALSE
      BY DEF Responds
    <3>1. i + 1 = 1
      BY <2>1, <2>2 DEF RespondsOnce
    <3> QED BY <2>2, <3>1
  <2> QED BY <1>3, <2>1, <2>3, <2>4, <2>5 DEF Responding, TakesEvent
<1> QED BY <1>2, <1>3, ManagerQueues

(* Which request is listed after a step that begins one.                     *)
LEMMA TakesOnLists ==
  ASSUME Typed, NEW e \in Hop, TakesOn(e), m'.request # None
  PROVE  m'.request = e /\ m.requests[e].report = "new"
<1>1. NewFrom(m, e) /\ (Begins(m, m', e) \/ Skips(m, m', e))
  BY DEF TakesOn
<1>2. ~Skips(m, m', e)
  BY <1>1, SkipsListsNone
<1>3. m.requests[e].report = "new"
  BY <1>1, HopOrder DEF NewFrom
<1> QED BY <1>1, <1>2, <1>3 DEF Begins

LEMMA ManagerLiveUnanswered ==
  ASSUME Typed, Typed', Structure, Structure', Ordered, Loading, Reporting, ~Disturbed, Chained,
         ManagerStep, AnswersStep
  PROVE  LiveUnanswered'
<1> SUFFICES ASSUME m'.request # None, m'.requests[m'.request].response # "none"
             PROVE  m'.request = browser.hop /\ ~Responding'
  BY ManagerQueues DEF LiveUnanswered
<1>1. (Responding' => Responding) /\ (TakesEvent("responseReceived") => ~Responding')
  BY ManagerRespondsOnce DEF Chained
<1>2. CASE TakesEvent("responseReceived")
  BY <1>1, <1>2, ResponderIsLast DEF Chained
<1>3. CASE TakesEvent("loadingFinished") \/ TakesEvent("loadingFailed")
  BY <1>3, EndIsTaken DEF Ending
<1>4. CASE AnswersGoOn /\ \A name \in {"responseReceived", "loadingFinished", "loadingFailed"} :
                             ~TakesEvent(name)
  <2> DEFINE k == m'.request
  <2>1. k \in Hop
    <3>1. m'.request \in Hop \cup {None}
      BY DEF Typed, TypeOK, Manager
    <3> QED BY <3>1
  <2>2. m'.requests[k].report = "live"
    BY DEF Typed, TypeOK
  <2>3. ~HearsEnd
    BY <1>4 DEF HearsEnd
  <2>4. m.requests[k].response # "none"
    <3>1. SameAnswer(m, m', k) \/ (Unstarted(k) /\ k = m.request)
      BY <1>4, <2>1, <2>2 DEF AnswersGoOn, Fresh
    <3>2. ~(Unstarted(k) /\ k = m.request)
      BY <2>1, UnstartedIsNew DEF Reporting
    <3> QED BY <3>1, <3>2 DEF SameAnswer
  <2>5. m.request = k
    <3>1. m.requests[k].report # "new"
      BY <2>1, <2>4 DEF Reporting, ResponsesOK
    <3>2. ~\E e \in Hop : TakesOn(e)
      BY <3>1, TakesOnLists
    <3> QED BY <2>3, <3>2, ManagerMoves DEF SameReports
  <2> QED BY <1>1, <2>4, <2>5 DEF Chained, LiveUnanswered
<1> QED BY <1>2, <1>3, <1>4 DEF AnswersStep

LEMMA ManagerNoneLive ==
  ASSUME Typed, Structure, Ordered, NoneLive, ManagerStep
  PROVE  NoneLive'
<1> SUFFICES ASSUME frame', kind = "plain", m'.request = None, ~EndHandled', NEW h \in Hop
             PROVE  m'.requests[h].report = "new"
  BY ManagerQueues DEF NoneLive
<1>1. ~EndHandled
  <2>1. EndHandled => network' = <<>>
    BY ManagerQueues DEF EndHandled
  <2> QED BY <2>1, ManagerQueues DEF EndHandled
<1>2. frame
  BY DEF ManagerStep, Bookkeeps, Hears, SeesPause, HearsLate, HearsEnd
<1>3. ~HearsEnd /\ ~HearsLate
  BY EndIsTaken DEF HearsEnd, HearsLate, Ending
<1>4. SameReports(m, m')
  <2>1. ASSUME Hears, ~SameReports(m, m') PROVE FALSE
    <3>1. Begins(m, m', Head(network).hop)
      BY <1>2, <2>1 DEF Hears
    <3> QED BY <2>1, <3>1, HeardIsAnnounced, HopOrder DEF Begins
  <2>2. ASSUME SeesPause, ~SameReports(m, m') PROVE FALSE
    <3>1. m.sent # None /\ Begins(m, m', m.sent.hop)
      BY <1>2, <2>2 DEF SeesPause
    <3> QED BY <3>1, SentHop, HopOrder DEF Begins
  <2> QED BY <1>3, <2>1, <2>2 DEF ManagerStep, Bookkeeps
<1> QED BY <1>1, <1>2, <1>4 DEF NoneLive, SameReports

LEMMA ManagerChained ==
  ASSUME Typed, Typed', Structure, Structure', Ordered, Loading, Reporting, ~Disturbed, Chained,
         ManagerStep, AnswersStep
  PROVE  Chained'
<1>1. AnnouncedOn' /\ Follows' /\ NoneLive'
  BY ManagerAnnouncesOn, ManagerFollows, ManagerNoneLive DEF Chained
<1>2. RespondsOnce(network)' /\ LiveUnanswered'
  BY ManagerRespondsOnce, ManagerLiveUnanswered DEF Chained
<1> QED BY <1>1, <1>2 DEF Chained

(***************************************************************************)
(* What is under way fits what the tracker has: g are the hops that came    *)
(* over the network.                                                        *)
(***************************************************************************)
Increasing(g) ==
  /\ \A i, j \in DOMAIN g : i < j => g[i] < g[j]
  /\ \A i \in DOMAIN g : /\ g[i] <= browser.hop
                         /\ g[i] = browser.hop => browser.stage \in {"answered", "over"}

OfKind(g) == /\ browser.hop > 0 => kind \in {"plain", "viaWorker"}
             /\ kind \in {"viaWorker", "foreign"} => g = <<>>

(* The two kinds of extra info take turns; the last one may be missing its   *)
(* second half, or belong to a request that failed.                         *)
Handed(s) == SentCount(s) + ReceivedCount(s)
IsExtra(x, g, p) ==
  /\ \A k \in DOMAIN g : /\ p = 2 * k - 1 => x.event = "sent" /\ x.hop = g[k]
                         /\ p = 2 * k => x.event = "received" /\ x.hop = g[k]
  /\ p = 2 * Len(g) + 1 => x.event = "sent"
Extras(g) ==
  /\ SentCount(m) = ReceivedCount(m) \/ SentCount(m) = ReceivedCount(m) + 1
  /\ \A j \in DOMAIN extra : IsExtra(extra[j], g, Handed(m) + j)
  /\ \/ Handed(m) + Len(extra) = 2 * Len(g)
     \/ browser.stage = "over" /\ Handed(m) + Len(extra) = 2 * Len(g) + 1

(* The tracker has the responses of the hops before the listed one.          *)
HasAnswer(h) == h < m.request \/ (h = m.request /\ m.requests[h].response # "none")
Position(g) == ~EndHandled /\ m.request # None =>
                 \A i \in DOMAIN g : i <= ResponseCount(m) <=> HasAnswer(g[i])

(* An event tells whether extra info comes, except after a cached answer.    *)
CachedBefore(i) == \/ EntryOf(m).cached
                   \/ \E j \in DOMAIN network : j < i /\ network[j].event = "requestServedFromCache"
SourceOf(e, g, cached) ==
  /\ e.event = "requestWillBeSent" /\ e.hop > 0 => (e.hasExtraInfo <=> Among(e.hop - 1, g))
  /\ e.event = "responseReceived" =>
       /\ Among(e.hop, g) => e.hasExtraInfo
       /\ e.hasExtraInfo => Among(e.hop, g) \/ cached
Sources(g) ==
  /\ \A i \in DOMAIN network : SourceOf(network[i], g, CachedBefore(i))
  /\ m.sent # None /\ m.sent.hop > 0 => (m.sent.redirected <=> Among(m.sent.hop - 1, g))

FromCache == \/ EntryOf(m).cached
             \/ \E j \in DOMAIN network : network[j].event = "requestServedFromCache"
Caching(g) == FromCache => g = <<>> /\ browser.stage \in {"answered", "over"}

Aligned(g) ==
  Increasing(g) /\ OfKind(g) /\ Extras(g) /\ Position(g) /\ Sources(g) /\ Caching(g)

(* The entry goes when the load has ended; what comes after that starts a    *)
(* new one, which is never looked at.                                       *)
OverIsEnd == EntryOf(m).over => EndHandled
Tracked(g) == Sound(m, g) /\ (Aligned(g) \/ (EndHandled /\ g = <<>>))
Tracking == OverIsEnd /\ \E g \in Seq(Hop) : Tracked(g)

(* What a step of the browser leaves alone.                                  *)
LEMMA BrowserLeaves ==
  ASSUME Typed, Structure, FlagsOK, BrowserStep, LoadStep, NEW g \in Seq(Hop)
  PROVE  /\ m' = m /\ kind' = kind /\ (EndHandled' = EndHandled)
         /\ Increasing(g) => Increasing(g)'
         /\ Position(g) => Position(g)'
<1>1. m' = m /\ kind' = kind
  BY BrowserKeeps
<1>2. EndHandled' = EndHandled
  <2>1. EndHandled' => browser.stage = "over"
    BY EndComesLast
  <2>2. browser.stage = "over" => EndHandled' = EndHandled
    BY AfterTheEnd
  <2>3. EndHandled \in BOOLEAN /\ EndHandled' \in BOOLEAN
    BY DEF EndHandled
  <2> QED BY <2>1, <2>2, <2>3 DEF EndHandled
<1>3. Position(g) => Position(g)'
  BY <1>1, <1>2 DEF Position, HasAnswer
<1>4. ASSUME Increasing(g) PROVE Increasing(g)'
  <2> SUFFICES ASSUME NEW i \in DOMAIN g
               PROVE  /\ g[i] <= browser'.hop
                      /\ g[i] = browser'.hop => browser'.stage \in {"answered", "over"}
    BY <1>4 DEF Increasing
  <2>1. g[i] \in Nat /\ g[i] <= browser.hop
        /\ (g[i] = browser.hop => browser.stage \in {"answered", "over"})
    <3>1. g[i] \in Hop
      OBVIOUS
    <3> QED BY <1>4, <3>1, HopOrder DEF Increasing
  <2>2. browser.hop \in Nat /\ browser'.hop \in Nat /\ browser.hop <= browser'.hop
    BY HopGrows
  <2>3. ASSUME browser.stage \in {"answered", "over"} PROVE browser'.stage \in {"answered", "over"}
    BY <2>3 DEF LoadStep, LoadGoesOn, LoadIsAnswered, LoadIsOver
  <2> QED BY <2>1, <2>2, <2>3
<1> QED BY <1>1, <1>2, <1>3, <1>4

(* A hop that has come over the network is new to g.                         *)
LEMMA AppendHop ==
  ASSUME Typed, Structure, Loading, Reporting, BrowserStep, LoadStep,
         NEW g \in Seq(Hop), Sound(m, g), Increasing(g), Position(g), Extras(g),
         browser.stage \notin {"answered", "over"},
         browser'.hop = browser.hop => browser'.stage \in {"answered", "over"},
         NEW b \in Hop, b = browser.hop
  PROVE  /\ Increasing(Append(g, b))' /\ Position(Append(g, b))'
         /\ Append(g, b) \in Seq(Hop) /\ Sound(m, Append(g, b))
<1> DEFINE f == Append(g, b)
<1>1. b \in Nat /\ browser'.hop \in Nat /\ b <= browser'.hop
  BY HopGrows DEF Loading
<1>2. /\ f \in Seq(Hop) /\ DOMAIN f = 1..(Len(g) + 1) /\ DOMAIN g = 1..Len(g) /\ Len(g) \in Nat
      /\ Len(f) = Len(g) + 1
      /\ \A i \in DOMAIN f : f[i] = IF i = Len(g) + 1 THEN b ELSE g[i]
  BY <1>1, AppendItems
<1>3. \A i \in DOMAIN g : g[i] \in Nat /\ g[i] < b
  <2> SUFFICES ASSUME NEW i \in DOMAIN g PROVE g[i] \in Nat /\ g[i] < b
    OBVIOUS
  <2>1. g[i] \in Hop
    OBVIOUS
  <2> QED BY <1>1, <2>1, HopOrder DEF Increasing
<1>4. \A i \in DOMAIN f : i \in Nat /\ (i = Len(g) + 1 \/ i \in DOMAIN g)
  BY <1>2
<1>5. \A i \in DOMAIN g : i \in DOMAIN f /\ i # Len(g) + 1 /\ f[i] = g[i]
  BY <1>2
<1> HIDE DEF f
<1>6. Increasing(f)'
  <2>1. ASSUME NEW i \in DOMAIN f, NEW j \in DOMAIN f, i < j PROVE f[i] < f[j]
    <3>1. i \in DOMAIN g
      BY <1>2, <2>1
    <3>2. CASE j \in DOMAIN g
      BY <1>5, <2>1, <3>1, <3>2 DEF Increasing
    <3>3. CASE j = Len(g) + 1
      BY <1>2, <1>3, <1>5, <3>1, <3>3
    <3> QED BY <1>4, <3>2, <3>3
  <2>2. ASSUME NEW i \in DOMAIN f
        PROVE  f[i] <= browser'.hop /\ (f[i] = browser'.hop => browser'.stage \in {"answered", "over"})
    <3>1. CASE i \in DOMAIN g
      BY <1>1, <1>3, <1>5, <3>1
    <3>2. CASE i = Len(g) + 1
      BY <1>1, <1>2, <3>2
    <3> QED BY <1>4, <3>1, <3>2
  <2> QED BY <2>1, <2>2 DEF Increasing
<1>7. m' = m /\ (EndHandled' = EndHandled)
  BY BrowserLeaves DEF Loading
<1>8. /\ ResponseCount(m) \in Nat /\ SentCount(m) \in Nat /\ ReceivedCount(m) \in Nat /\ m \in Manager
      /\ ResponseCount(m) <= Len(g)
  <2>1. m \in Manager
    BY TypedParts DEF ManagerTyped
  <2> QED BY <2>1, CountsType DEF Sound, SoundBut, Straight, Matched, ResponseCount
<1>9. Position(f)'
  <2> SUFFICES ASSUME ~EndHandled, m.request # None, NEW i \in DOMAIN f
               PROVE  i <= ResponseCount(m) <=> HasAnswer(f[i])
    BY <1>7 DEF Position, HasAnswer
  <2>1. CASE i \in DOMAIN g
    BY <1>5, <2>1 DEF Position
  <2>2. CASE i = Len(g) + 1
    <3>1. ~(i <= ResponseCount(m)) /\ f[i] = b
      BY <1>2, <1>8, <2>2
    <3>2. m.request \in Nat /\ m.request <= b /\ m.request \in Hop
      BY ListedIsLive
    <3>3. m.requests[b].response = "none"
      BY <1>1 DEF Reporting, ResponsesOK, Answered, Loading, FlagsOK
    <3> QED BY <1>1, <3>1, <3>2, <3>3 DEF HasAnswer
  <2> QED BY <1>4, <2>1, <2>2
<1>10. Sound(m, f)
  <2> DEFINE e == EntryOf(m)
  <2>1. e \in Entry /\ SentCount(m) = Len(e.sentExtra) /\ ReceivedCount(m) = Len(e.receivedExtra)
    BY <1>8, EntryOfType DEF SentCount, ReceivedCount
  <2>2. SentCount(m) <= Len(g) /\ ReceivedCount(m) <= Len(g)
    <3>1. Len(extra) \in Nat
      BY TypedParts, LenProperties
    <3>2. Handed(m) + Len(extra) = 2 * Len(g)
      BY DEF Extras
    <3> QED BY <1>2, <1>8, <3>1, <3>2 DEF Handed, Extras
  <2> HIDE DEF e
  <2>3. ASSUME NEW list \in Seq(Hop \cup {None}), Len(list) <= Len(g), Fit(list, e, g)
        PROVE  Fit(list, e, f)
    <3>1. \A i \in DOMAIN list : i \in DOMAIN g
      BY <1>2, <2>3
    <3> QED BY <1>5, <2>3, <3>1 DEF Fit
  <2>4. e.sentExtra \in Seq(Hop \cup {None}) /\ e.receivedExtra \in Seq(Hop \cup {None})
        /\ e.responses \in Seq(Hop)
    BY <2>1 DEF Entry
  <2>5. Matched(e, g) /\ Own(m) /\ Blamed(m) /\ Awaited(m, e) /\ Begun(m, e)
        /\ \A i \in Nat \ {} : SentDone(m, e, i) /\ ReceivedDone(m, e, i)
    BY DEF e, Sound, SoundBut, Straight
  <2>6. Matched(e, f)
    <3>1. Fit(e.sentExtra, e, f) /\ Fit(e.receivedExtra, e, f)
      BY <2>1, <2>2, <2>3, <2>4, <2>5 DEF Matched
    <3>2. Len(e.responses) <= Len(g) /\ \A i \in DOMAIN e.responses : e.responses[i] = g[i]
      BY <2>5 DEF Matched
    <3>3. Len(e.responses) <= Len(f) /\ \A i \in DOMAIN e.responses : i \in DOMAIN g
      BY <1>2, <2>4, <3>2
    <3> QED BY <1>5, <3>1, <3>2, <3>3 DEF Matched
  <2> QED BY <2>5, <2>6 DEF e, Sound, SoundBut, Straight
<1> QED BY <1>2, <1>6, <1>9, <1>10 DEF f

(* The events under way before a hop came over the network fit g with it.    *)
LEMMA SourcesMore ==
  ASSUME Typed, Structure, FlagsOK, NetworkOK, NEW g \in Seq(Hop), Sources(g),
         browser.stage \notin {"answered", "over"}, NEW b \in Hop, b = browser.hop
  PROVE  Sources(Append(g, b))
<1> DEFINE f == Append(g, b)
<1>1. /\ DOMAIN f = 1..(Len(g) + 1) /\ DOMAIN g = 1..Len(g) /\ Len(g) \in Nat
      /\ \A i \in DOMAIN f : f[i] = IF i = Len(g) + 1 THEN b ELSE g[i]
  BY AppendItems
<1>2. \A i \in DOMAIN f : i # Len(g) + 1 => i \in DOMAIN g /\ f[i] = g[i]
  BY <1>1
<1>3. \A i \in DOMAIN g : i \in DOMAIN f /\ f[i] = g[i]
  BY <1>1
<1>4. Len(g) + 1 \in DOMAIN f /\ f[Len(g) + 1] = b
  BY <1>1
<1> HIDE DEF f
<1>5. \A h : h # b => (Among(h, f) <=> Among(h, g))
  BY <1>2, <1>3, <1>4 DEF Among
<1>6. ASSUME NEW h \in Hop, h > 0, Unstarted(h) PROVE h - 1 # b
  BY <1>6, HopOrder DEF Structure, Future
<1>7. network \in Seq(NetworkEvent) /\ ~browser.answered
  BY TypedParts DEF FlagsOK
<1>8. ASSUME NEW i \in DOMAIN network PROVE SourceOf(network[i], f, CachedBefore(i))
  <2>1. network[i].hop \in Hop
    <3>1. network[i] \in NetworkEvent
      BY <1>7
    <3> QED BY <3>1 DEF NetworkEvent
  <2>2. network[i].event # "responseReceived"
    BY <1>7 DEF NetworkOK, ListOK
  <2>3. SourceOf(network[i], g, CachedBefore(i))
    BY DEF Sources
  <2>4. ASSUME network[i].event = "requestWillBeSent", network[i].hop > 0
        PROVE  network[i].hasExtraInfo <=> Among(network[i].hop - 1, f)
    <3>1. network[i].hop - 1 # b
      BY <1>6, <2>1, <2>4 DEF Unstarted, Announced, AnnouncedIn
    <3> QED BY <1>5, <2>3, <2>4, <3>1 DEF SourceOf
  <2> QED BY <2>2, <2>4 DEF SourceOf
<1>9. ASSUME m.sent # None, m.sent.hop > 0
      PROVE  m.sent.redirected <=> Among(m.sent.hop - 1, f)
  <2>1. m.sent.hop \in Hop /\ Kept(m, m.sent.hop)
    BY <1>9, SentHop
  <2>2. m.sent.hop - 1 # b
    BY <1>6, <1>9, <2>1 DEF Unstarted
  <2> QED BY <1>5, <1>9, <2>2 DEF Sources
<1> QED BY <1>8, <1>9 DEF f, Sources

LEMMA SourcesAppend ==
  ASSUME Typed, m' = m, NEW e \in NetworkEvent, network' = Append(network, e),
         NEW g \in Seq(Hop), Sources(g), SourceOf(e, g, FromCache)
  PROVE  /\ Sources(g)'
         /\ FromCache' => FromCache \/ e.event = "requestServedFromCache"
         /\ FromCache \/ e.event = "requestServedFromCache" => FromCache'
<1>1. network \in Seq(NetworkEvent)
  BY TypedParts
<1>2. /\ DOMAIN network' = 1..(Len(network) + 1) /\ DOMAIN network = 1..Len(network)
      /\ Len(network) \in Nat
      /\ \A i \in DOMAIN network' : network'[i] = IF i = Len(network) + 1 THEN e ELSE network[i]
  BY <1>1, AppendItems
<1>3. \A i \in DOMAIN network : i \in DOMAIN network' /\ network'[i] = network[i] /\ i < Len(network) + 1
  BY <1>2
<1>4. \A i \in DOMAIN network' : i # Len(network) + 1 => i \in DOMAIN network /\ network'[i] = network[i]
  BY <1>2
<1>5. Len(network) + 1 \in DOMAIN network' /\ network'[Len(network) + 1] = e
  BY <1>2
<1>6. ASSUME NEW i \in DOMAIN network' PROVE SourceOf(network'[i], g, CachedBefore(i)')
  <2>1. CASE i \in DOMAIN network
    <3>1. CachedBefore(i) => CachedBefore(i)'
      BY <1>3 DEF CachedBefore
    <3>2. SourceOf(network[i], g, CachedBefore(i))
      BY <2>1 DEF Sources
    <3> QED BY <1>3, <2>1, <3>1, <3>2 DEF SourceOf
  <2>2. CASE i = Len(network) + 1
    <3>1. FromCache => CachedBefore(i)'
      BY <1>3, <2>2 DEF CachedBefore, FromCache
    <3> QED BY <1>5, <2>2, <3>1 DEF SourceOf
  <2> QED BY <1>4, <2>1, <2>2
<1>7. Sources(g)'
  BY <1>6 DEF Sources
<1>8. FromCache' => FromCache \/ e.event = "requestServedFromCache"
  BY <1>4, <1>5 DEF FromCache
<1>9. FromCache \/ e.event = "requestServedFromCache" => FromCache'
  BY <1>3, <1>5 DEF FromCache
<1> QED BY <1>7, <1>8, <1>9

(* The steps of the browser that bring no answer.                            *)
Quietly ==
  /\ browser'.hop = browser.hop /\ extra' = extra
  /\ \/ network' = network
     \/ \E e \in NetworkEvent :
          Appends(e) /\ (e.event \in Ending \/ (e.event = "requestWillBeSent" /\ e.hop = 0))

LEMMA OverIsQuiet ==
  ASSUME Typed, LoadIsOver, extra' = extra
  PROVE  Quietly
<1>1. browser'.hop = browser.hop
  BY DEF LoadIsOver, SamePauses
<1>2. PICK e \in NetworkEvent :
        e.event = (IF browser'.failed THEN "loadingFailed" ELSE "loadingFinished") /\ Appends(e)
  BY DEF LoadIsOver
<1>3. e.event \in Ending
  BY <1>2 DEF Ending
<1> QED BY <1>1, <1>2, <1>3 DEF Quietly

LEMMA BrowserIsQuiet ==
  ASSUME Typed, FlagsOK,
         \/ Begin \/ Decide \/ Finish \/ (Fail /\ extra' = extra) \/ Cancel \/ Restart \/ Challenge
         \/ ReceiveCommand
  PROVE  Quietly
<1>1. browser \in Browser /\ TypeOK
  BY TypedParts DEF Typed
<1>2. CASE Begin
  <2> DEFINE e == Event("requestWillBeSent", 0, FALSE, FALSE)
  <2>1. e \in NetworkEvent /\ e.event = "requestWillBeSent" /\ e.hop = 0
    BY BoundAssumption DEF Event, NetworkEvent, Hop
  <2>2. Emit(<<e>>) /\ extra' = extra /\ browser'.hop = browser.hop
    BY <1>1, <1>2 DEF Begin, Browser
  <2> HIDE DEF e
  <2> QED BY <1>1, <2>1, <2>2, EmitAppends DEF Quietly
<1>3. CASE Decide \/ Restart \/ Challenge
  BY <1>1, <1>3 DEF Decide, Restart, Challenge, Browser, Quietly
<1>4. CASE Finish \/ (Fail /\ extra' = extra) \/ Cancel
  <2>1. extra' = extra
    BY <1>4 DEF Finish, Cancel
  <2> QED BY <1>4, <2>1, LoadEnds, OverIsQuiet
<1>5. CASE ReceiveCommand
  <2>1. extra' = extra
    BY <1>5 DEF ReceiveCommand
  <2>2. ASSUME FailLoad(FALSE) PROVE Quietly
    <3> DEFINE e == Event("loadingFailed", browser.hop, FALSE, FALSE)
    <3>1. e \in NetworkEvent /\ e.event \in Ending
      BY <1>1 DEF Event, NetworkEvent, Browser, Ending
    <3>2. Emit(<<e>>)
      BY <2>2 DEF FailLoad
    <3> HIDE DEF e
    <3>3. browser'.hop = browser.hop
      BY <1>1, <2>2 DEF FailLoad, Browser
    <3> QED BY <1>1, <2>1, <3>1, <3>2, <3>3, EmitAppends DEF Quietly
  <2>3. ASSUME ~FailLoad(FALSE) PROVE Quietly
    <3> DEFINE c == Head(commands)
               enabled == CASE c.method = "enable" -> TRUE
                            [] c.method = "disable" -> FALSE
                            [] OTHER -> browser.enabled
    <3>1. /\ browser' = [browser EXCEPT
                          !.enabled = enabled,
                          !.stage = IF Holds(c) THEN Released(c) ELSE @,
                          !.pausing = PausingAfter(c)]
          /\ UNCHANGED network
      BY <1>5, <2>3 DEF ReceiveCommand
    <3> HIDE DEF c, enabled
    <3>2. browser'.hop = browser.hop
      BY <1>1, <3>1 DEF Browser
    <3> QED BY <2>1, <3>1, <3>2 DEF Quietly
  <2> QED BY <2>2, <2>3
<1> QED BY <1>2, <1>3, <1>4, <1>5

LEMMA QuietlySources ==
  ASSUME Typed, Structure, Quietly, m' = m, NEW g \in Seq(Hop), Sources(g)
  PROVE  Sources(g)' /\ (FromCache' => FromCache)
<1>1. CASE network' = network
  BY <1>1 DEF Sources, FromCache, CachedBefore
<1>2. CASE network' # network
  <2>1. PICK e \in NetworkEvent :
          Appends(e) /\ (e.event \in Ending \/ (e.event = "requestWillBeSent" /\ e.hop = 0))
    BY <1>2 DEF Quietly
  <2>2. network' = Append(network, e) /\ e.event # "requestServedFromCache"
    BY <1>2, <2>1 DEF Appends, Ending
  <2>3. SourceOf(e, g, FromCache)
    BY <2>1 DEF SourceOf, Ending
  <2> QED BY <2>2, <2>3, SourcesAppend
<1> QED BY <1>1, <1>2

LEMMA HandedType ==
  ASSUME Typed
  PROVE  /\ Handed(m) \in Nat /\ SentCount(m) \in Nat /\ ReceivedCount(m) \in Nat /\ ResponseCount(m) \in Nat
         /\ m \in Manager /\ extra \in Seq(ExtraEvent) /\ Len(extra) \in Nat
<1>1. m \in Manager /\ extra \in Seq(ExtraEvent)
  BY TypedParts DEF ManagerTyped
<1>2. SentCount(m) \in Nat /\ ReceivedCount(m) \in Nat /\ ResponseCount(m) \in Nat
  BY <1>1, CountsType
<1> QED BY <1>1, <1>2, LenProperties DEF Handed

(* A request that fails on the network may have sent its headers.            *)
LEMMA ExtrasFail ==
  ASSUME Typed, m' = m, browser.stage # "over", browser'.stage = "over", NEW h \in Hop,
         extra' = Append(extra, [event |-> "sent", hop |-> h]),
         NEW g \in Seq(Hop), Extras(g)
  PROVE  Extras(g)'
<1> DEFINE x == [event |-> "sent", hop |-> h]
           n == Len(extra)
           c == Handed(m)
           l == Len(g)
<1>1. c \in Nat /\ n \in Nat /\ extra \in Seq(ExtraEvent) /\ l \in Nat /\ DOMAIN g = 1..l
  BY HandedType, LenProperties
<1>2. x \in ExtraEvent /\ x.event = "sent"
  BY DEF ExtraEvent
<1>3. extra' = Append(extra, x) /\ c + n = 2 * l
  BY DEF Extras
<1> HIDE DEF x, n, c, l
<1>4. /\ DOMAIN extra' = 1..(n + 1) /\ DOMAIN extra = 1..n /\ Len(extra') = n + 1
      /\ \A j \in DOMAIN extra' : extra'[j] = IF j = n + 1 THEN x ELSE extra[j]
  BY <1>1, <1>2, <1>3, AppendItems DEF n
<1>5. ASSUME NEW j \in DOMAIN extra' PROVE IsExtra(extra'[j], g, c + j)
  <2>1. CASE j \in DOMAIN extra
    <3>1. extra'[j] = extra[j]
      BY <1>1, <1>4, <2>1
    <3> QED BY <2>1, <3>1 DEF Extras, c
  <2>2. CASE j = n + 1
    <3>1. c + j = 2 * l + 1 /\ extra'[j] = x
      <4>1. c + j = 2 * l + 1
        BY <1>1, <1>3, <2>2
      <4> QED BY <1>4, <2>2, <4>1
    <3>2. \A k \in DOMAIN g : c + j # 2 * k - 1 /\ c + j # 2 * k
      BY <1>1, <3>1
    <3> QED BY <1>2, <3>1, <3>2 DEF IsExtra, l
  <2> QED BY <1>1, <1>4, <2>1, <2>2
<1>6. c + Len(extra') = 2 * l + 1
  <2>1. c + (n + 1) = 2 * l + 1
    BY <1>1, <1>3
  <2>2. Len(extra') = n + 1
    BY <1>4
  <2> QED BY ONLY <2>1, <2>2
<1>7. SentCount(m) = ReceivedCount(m) \/ SentCount(m) = ReceivedCount(m) + 1
  BY DEF Extras
<1> QED BY <1>5, <1>6, <1>7 DEF Extras, c, l

(* The extra info of a hop that came over the network.                       *)
LEMMA ExtrasBoth ==
  ASSUME Typed, m' = m, browser.stage # "over", NEW b \in Hop,
         extra' = extra \o <<[event |-> "sent", hop |-> b], [event |-> "received", hop |-> b]>>,
         NEW g \in Seq(Hop), Extras(g)
  PROVE  Extras(Append(g, b))'
<1> DEFINE x == [event |-> "sent", hop |-> b]
           y == [event |-> "received", hop |-> b]
           n == Len(extra)
           c == Handed(m)
           f == Append(g, b)
           l == Len(g)
<1>1. c \in Nat /\ n \in Nat /\ extra \in Seq(ExtraEvent) /\ l \in Nat
  BY HandedType, LenProperties
<1>2. x \in ExtraEvent /\ x.event = "sent" /\ x.hop = b /\ y \in ExtraEvent /\ y.event = "received"
      /\ y.hop = b
  BY DEF ExtraEvent
<1>3. extra' = extra \o <<x, y>> /\ c + n = 2 * l
  BY DEF Extras
<1>4. /\ DOMAIN f = 1..(l + 1) /\ DOMAIN g = 1..l /\ Len(f) = l + 1
      /\ \A i \in DOMAIN f : f[i] = IF i = l + 1 THEN b ELSE g[i]
  BY AppendItems
<1>5. SentCount(m) = ReceivedCount(m) \/ SentCount(m) = ReceivedCount(m) + 1
  BY DEF Extras
<1>6. \A j \in DOMAIN extra : IsExtra(extra[j], g, c + j)
  BY DEF Extras
<1> HIDE DEF x, y, n, c, f, l
<1>7. extra' = Append(Append(extra, x), y) /\ Append(extra, x) \in Seq(ExtraEvent)
  <2>1. extra' = Append(Append(extra, x), y)
    BY <1>1, <1>2, <1>3, ConcatTwo
  <2> QED BY <1>1, <1>2, <2>1
<1>8. /\ DOMAIN extra = 1..n /\ DOMAIN Append(extra, x) = 1..(n + 1) /\ Len(Append(extra, x)) = n + 1
      /\ \A j \in DOMAIN Append(extra, x) : Append(extra, x)[j] = IF j = n + 1 THEN x ELSE extra[j]
  BY <1>1, <1>2, AppendItems DEF n
<1>9. /\ DOMAIN extra' = 1..(n + 2) /\ Len(extra') = n + 2
      /\ \A j \in DOMAIN extra' : extra'[j] = IF j = n + 2 THEN y ELSE Append(extra, x)[j]
  <2>1. /\ DOMAIN extra' = 1..(Len(Append(extra, x)) + 1) /\ Len(extra') = Len(Append(extra, x)) + 1
        /\ \A j \in DOMAIN extra' :
             extra'[j] = IF j = Len(Append(extra, x)) + 1 THEN y ELSE Append(extra, x)[j]
    BY <1>2, <1>7, AppendItems
  <2>2. Len(Append(extra, x)) + 1 = n + 2
    BY <1>1, <1>8
  <2> QED BY <2>1, <2>2
<1>10. ASSUME NEW j \in DOMAIN extra' PROVE IsExtra(extra'[j], f, c + j)
  <2>1. CASE j \in DOMAIN extra
    <3>1. extra'[j] = extra[j]
      BY <1>1, <1>8, <1>9, <2>1
    <3>2. j \in Nat /\ j <= n
      BY <1>1, <1>8, <2>1
    <3>3. c + j <= 2 * l
      BY <1>1, <1>3, <3>2
    <3>4. ASSUME NEW k \in DOMAIN f, c + j = 2 * k - 1 \/ c + j = 2 * k
          PROVE  k \in DOMAIN g /\ f[k] = g[k]
      <4>1. k \in Nat /\ k <= l + 1 /\ k >= 1
        BY <1>1, <1>4
      <4>2. k <= l
        BY <1>1, <3>2, <3>3, <3>4, <4>1
      <4> QED BY <1>1, <1>4, <4>1, <4>2
    <3>5. c + j # 2 * Len(f) + 1
      BY <1>1, <1>4, <3>2, <3>3
    <3>6. IsExtra(extra[j], g, c + j)
      BY <1>6, <2>1
    <3> QED BY <3>1, <3>4, <3>5, <3>6 DEF IsExtra
  <2>2. CASE j = n + 1
    <3>1. extra'[j] = x
      <4>1. j # n + 2 /\ j \in DOMAIN Append(extra, x)
        BY <1>1, <1>8, <2>2
      <4>2. extra'[j] = Append(extra, x)[j]
        BY <1>9, <4>1
      <4> QED BY <1>8, <2>2, <4>1, <4>2
    <3>2. c + j = 2 * l + 1
      BY <1>1, <1>3, <2>2
    <3>3. ASSUME NEW k \in DOMAIN f
          PROVE  (c + j = 2 * k - 1 => f[k] = b) /\ c + j # 2 * k
      <4>1. k \in Nat
        BY <1>1, <1>4
      <4>2. c + j = 2 * k - 1 => k = l + 1
        BY <1>1, <3>2, <4>1
      <4> QED BY <1>1, <1>4, <3>2, <4>1, <4>2
    <3>4. c + j # 2 * Len(f) + 1
      BY <1>1, <1>4, <3>2
    <3> QED BY <1>2, <3>1, <3>3, <3>4 DEF IsExtra
  <2>3. CASE j = n + 2
    <3>1. extra'[j] = y
      BY <1>9, <2>3
    <3>2. c + j = 2 * l + 2
      BY <1>1, <1>3, <2>3
    <3>3. ASSUME NEW k \in DOMAIN f
          PROVE  (c + j = 2 * k => f[k] = b) /\ c + j # 2 * k - 1
      <4>1. k \in Nat
        BY <1>1, <1>4
      <4>2. c + j = 2 * k => k = l + 1
        BY <1>1, <3>2, <4>1
      <4> QED BY <1>1, <1>4, <3>2, <4>1, <4>2
    <3>4. c + j # 2 * Len(f) + 1
      BY <1>1, <1>4, <3>2
    <3> QED BY <1>2, <3>1, <3>3, <3>4 DEF IsExtra
  <2> QED BY <1>1, <1>8, <1>9, <2>1, <2>2, <2>3
<1>11. c + Len(extra') = 2 * Len(f)
  <2>1. c + (n + 2) = 2 * (l + 1)
    BY <1>1, <1>3
  <2>2. Len(extra') = n + 2 /\ Len(f) = l + 1
    BY <1>4, <1>9
  <2> QED BY ONLY <2>1, <2>2
<1> QED BY <1>5, <1>10, <1>11 DEF Extras, c, f

(***************************************************************************)
(* Steps of the browser keep to it.                                         *)
(***************************************************************************)
LEMMA LoadActs ==
  ASSUME Typed, Structure, FlagsOK, Begin \/ Decide \/ Progress \/ Cancel \/ ReceiveCommand
  PROVE  BrowserStep /\ LoadStep
<1>1. ByKind /\ PausesHaveIds /\ TypeOK
  BY DEF Structure, Typed
<1>2. BrowserStep
  BY <1>1, BeginStep, DecideStep, RedirectStep, MoveStep, OverStep, CommandStep DEF Progress
<1>3. LoadStep
  BY LoadBegins, LoadAnswers, LoadEnds, LoadIsCommanded DEF Progress, LoadStep
<1> QED BY <1>2, <1>3

LEMMA LastStages ==
  ASSUME LoadStep, browser.stage \in {"answered", "over"}
  PROVE  browser'.stage \in {"answered", "over"} /\ (browser.stage = "over" => browser'.stage = "over")
BY DEF LoadStep, LoadGoesOn, LoadIsAnswered, LoadIsOver

(* A load that has ended, and whose tracker has nothing to put together.     *)
LEMMA EndedTracked ==
  ASSUME Typed, Structure, Loading, BrowserStep, LoadStep, Sound(m, <<>>), EndHandled
  PROVE  Tracked(<<>>)'
<1>1. <<>> \in Seq(Hop)
  OBVIOUS
<1>2. m' = m /\ EndHandled'
  BY <1>1, BrowserLeaves DEF Loading
<1> QED BY <1>2 DEF Tracked

LEMMA QuietlyTracked ==
  ASSUME Typed, Structure, Loading, BrowserStep, LoadStep, Quietly,
         NEW g \in Seq(Hop), Sound(m, g), Aligned(g)
  PROVE  Tracked(g)'
<1>1. m' = m /\ kind' = kind /\ Increasing(g)' /\ Position(g)'
  BY BrowserLeaves DEF Loading, Aligned
<1>2. OfKind(g)'
  BY <1>1 DEF Aligned, OfKind, Quietly
<1>3. Extras(g)'
  BY <1>1, LastStages DEF Aligned, Extras, Quietly
<1>4. Sources(g)' /\ (FromCache' => FromCache)
  BY <1>1, QuietlySources DEF Aligned
<1>5. Caching(g)'
  BY <1>4, LastStages DEF Aligned, Caching
<1> QED BY <1>1, <1>2, <1>3, <1>4, <1>5 DEF Tracked, Aligned

LEMMA FailTracked ==
  ASSUME Typed, Structure, Loading, BrowserStep, LoadStep, Fail, extra' # extra,
         NEW g \in Seq(Hop), Sound(m, g), Aligned(g)
  PROVE  Tracked(g)'
<1>1. m' = m /\ kind' = kind /\ Increasing(g)' /\ Position(g)'
  BY BrowserLeaves DEF Loading, Aligned
<1>2. LoadIsOver /\ browser'.hop = browser.hop
  BY LoadEnds DEF Loading, LoadIsOver, SamePauses
<1>3. OfKind(g)'
  BY <1>1, <1>2 DEF Aligned, OfKind
<1>4. Extras(g)'
  <2>1. PICK h \in Hop : h = browser.hop
    BY HopOrder
  <2>2. extra' = Append(extra, [event |-> "sent", hop |-> h])
    BY <2>1 DEF Fail
  <2> QED BY <1>1, <1>2, <2>2, ExtrasFail DEF LoadIsOver, Aligned
<1>5. Sources(g)' /\ (FromCache' => FromCache)
  <2>1. PICK e \in NetworkEvent :
          e.event = (IF browser'.failed THEN "loadingFailed" ELSE "loadingFinished") /\ Appends(e)
    BY <1>2 DEF LoadIsOver
  <2>2. CASE network' = network
    BY <1>1, <2>2 DEF Aligned, Sources, FromCache, CachedBefore
  <2>3. CASE network' = Append(network, e)
    <3>1. e.event \notin {"requestWillBeSent", "responseReceived", "requestServedFromCache"}
      BY <2>1
    <3>2. SourceOf(e, g, FromCache)
      BY <3>1 DEF SourceOf
    <3> QED BY <1>1, <2>3, <3>1, <3>2, SourcesAppend DEF Aligned
  <2> QED BY <2>1, <2>2, <2>3 DEF Appends
<1>6. Caching(g)'
  BY <1>5, LastStages DEF Aligned, Caching
<1> QED BY <1>1, <1>3, <1>4, <1>5, <1>6 DEF Tracked, Aligned

(* The current hop came over the network: its two extra infos go with the    *)
(* event that says so.                                                      *)
LEMMA HopTracked ==
  ASSUME Typed, Structure, Loading, Reporting, BrowserStep, LoadStep,
         kind \notin {"viaWorker", "foreign"}, browser.stage \notin {"answered", "over"},
         browser'.hop = browser.hop => browser'.stage \in {"answered", "over"},
         browser'.hop # browser.hop => kind = "plain",
         EmitExtra, OverTheNetwork,
         NEW e \in NetworkEvent, network' = Append(network, e), e.hasExtraInfo,
         \/ e.event = "requestWillBeSent" /\ e.hop = browser.hop + 1
         \/ e.event = "responseReceived" /\ e.hop = browser.hop,
         NEW g \in Seq(Hop), Sound(m, g), Aligned(g)
  PROVE  \E f \in Seq(Hop) : Tracked(f)'
<1>1. PICK b \in Hop : b = browser.hop
  BY HopOrder
<1> DEFINE f == Append(g, b)
<1>2. Increasing(f)' /\ Position(f)' /\ f \in Seq(Hop) /\ Sound(m, f)
  BY <1>1, AppendHop DEF Aligned
<1>3. m' = m /\ kind' = kind
  BY BrowserKeeps
<1>4. OfKind(f)'
  BY <1>1, <1>3 DEF Aligned, OfKind
<1>5. Extras(f)'
  BY <1>1, <1>3, ExtrasBoth DEF EmitExtra, Aligned
<1>6. Among(b, f)
  <2>1. Len(g) + 1 \in DOMAIN f /\ f[Len(g) + 1] = b
    BY AppendItems
  <2> HIDE DEF f
  <2> QED BY <2>1 DEF Among
<1>7. Sources(f)
  BY <1>1, SourcesMore DEF Aligned, Loading
<1> HIDE DEF f
<1>8. SourceOf(e, f, FromCache)
  <2>1. b \in Nat /\ b + 1 - 1 = b
    BY HopOrder
  <2> QED BY <1>1, <1>6, <2>1 DEF SourceOf
<1>9. Sources(f)' /\ ~FromCache'
  BY <1>2, <1>3, <1>7, <1>8, SourcesAppend DEF Aligned, Caching
<1>10. Tracked(f)'
  BY <1>2, <1>3, <1>4, <1>5, <1>9 DEF Tracked, Aligned, Caching
<1> QED BY <1>2, <1>10

(* The current hop did not: nothing is heard of it but that.                 *)
LEMMA EventTracked ==
  ASSUME Typed, Structure, Loading, Reporting, BrowserStep, LoadStep,
         browser.stage \notin {"answered", "over"},
         browser'.hop > 0 => kind \in {"plain", "viaWorker"}, extra' = extra,
         NEW e \in NetworkEvent, network' = Append(network, e), ~e.hasExtraInfo,
         \/ e.event = "requestWillBeSent" /\ e.hop = browser.hop + 1
         \/ e.event = "responseReceived" /\ e.hop = browser.hop,
         NEW g \in Seq(Hop), Sound(m, g), Aligned(g)
  PROVE  Tracked(g)'
<1>1. m' = m /\ kind' = kind /\ Increasing(g)' /\ Position(g)'
  BY BrowserLeaves DEF Loading, Aligned
<1>2. OfKind(g)'
  BY <1>1 DEF Aligned, OfKind
<1>3. Extras(g)'
  BY <1>1 DEF Aligned, Extras
<1>4. ~Among(browser.hop, g)
  BY DEF Aligned, Increasing, Among
<1>5. SourceOf(e, g, FromCache)
  <2>1. browser.hop \in Nat
    BY HopOrder
  <2>2. e.hop = browser.hop + 1 => e.hop - 1 = browser.hop
    BY <2>1
  <2> QED BY <1>4, <2>2 DEF SourceOf
<1>6. Sources(g)' /\ ~FromCache'
  BY <1>1, <1>5, SourcesAppend DEF Aligned, Caching
<1> QED BY <1>1, <1>2, <1>3, <1>6 DEF Tracked, Aligned, Caching

LEMMA RedirectTracked ==
  ASSUME Typed, Structure, Loading, Reporting, BrowserStep, LoadStep, Redirect,
         NEW g \in Seq(Hop), Sound(m, g), Aligned(g)
  PROVE  \E f \in Seq(Hop) : Tracked(f)'
<1>1. browser \in Browser /\ TypeOK /\ network \in Seq(NetworkEvent)
  BY TypedParts DEF Typed
<1>2. /\ kind \in {"plain", "viaWorker"} /\ browser.stage \notin {"answered", "over"}
      /\ browser'.hop = browser.hop + 1
  BY <1>1 DEF Redirect, Browser
<1>3. browser'.hop # browser.hop /\ browser'.hop \in Hop
  <2>1. browser.hop \in Nat
    BY HopOrder
  <2> QED BY <1>2, <2>1, BrowserShape
<1>4. PICK h \in Hop : h = browser.hop + 1
  BY <1>2, <1>3
<1> DEFINE e == Event("requestWillBeSent", h, OverTheNetwork, FALSE)
<1>5. /\ e \in NetworkEvent /\ e.event = "requestWillBeSent" /\ e.hop = h
      /\ e.hasExtraInfo = OverTheNetwork
  BY OverTheNetworkType DEF Event, NetworkEvent
<1>6. network' = network \o <<e>>
  BY <1>2, <1>4 DEF Redirect, Emit
<1> HIDE DEF e
<1>7. network' = Append(network, e)
  BY <1>1, <1>5, <1>6, AppendIsConcat
<1>8. EmitExtra
  BY DEF Redirect
<1>9. CASE OverTheNetwork
  <2>1. kind = "plain"
    BY <1>2, <1>9 DEF OverTheNetwork
  <2> QED BY <1>2, <1>3, <1>4, <1>5, <1>7, <1>8, <1>9, <2>1, HopTracked
<1>10. CASE ~OverTheNetwork
  <2>1. extra' = extra
    BY <1>8, <1>10 DEF EmitExtra
  <2>2. Tracked(g)'
    BY <1>2, <1>4, <1>5, <1>7, <1>10, <2>1, EventTracked
  <2> QED BY <2>2
<1> QED BY <1>9, <1>10

LEMMA AnswerTracked ==
  ASSUME Typed, Structure, Loading, Reporting, BrowserStep, LoadStep, NEW empty \in BOOLEAN,
         Answer(empty), NEW g \in Seq(Hop), Sound(m, g), Aligned(g)
  PROVE  \E f \in Seq(Hop) : Tracked(f)'
<1>1. browser \in Browser /\ TypeOK /\ network \in Seq(NetworkEvent)
  BY TypedParts DEF Typed
<1>2. /\ browser.stage \notin {"answered", "over"} /\ browser'.hop = browser.hop
      /\ browser'.stage = "answered"
  BY <1>1 DEF Answer, Browser
<1>3. PICK h \in Hop : h = browser.hop
  BY HopOrder
<1> DEFINE e == Event("responseReceived", h, OverTheNetwork, empty)
<1>4. /\ e \in NetworkEvent /\ e.event = "responseReceived" /\ e.hop = h
      /\ e.hasExtraInfo = OverTheNetwork
  BY OverTheNetworkType DEF Event, NetworkEvent
<1>5. Emit(<<e>>) /\ EmitExtra
  BY <1>3 DEF Answer
<1> HIDE DEF e
<1>6. kind # "foreign" => network' = Append(network, e)
  BY <1>1, <1>4, <1>5, AppendIsConcat DEF Emit
<1>7. CASE kind = "foreign"
  <2>1. extra' = extra /\ network' = network
    BY <1>5, <1>7 DEF EmitExtra, Emit
  <2>2. Tracked(g)'
    BY <1>2, <2>1, QuietlyTracked DEF Quietly
  <2> QED BY <2>2
<1>8. CASE kind # "foreign" /\ OverTheNetwork
  <2>1. kind # "viaWorker"
    BY <1>8 DEF OverTheNetwork
  <2> QED BY <1>2, <1>3, <1>4, <1>5, <1>6, <1>8, <2>1, HopTracked
<1>9. CASE kind # "foreign" /\ ~OverTheNetwork
  <2>1. extra' = extra
    BY <1>5, <1>9 DEF EmitExtra
  <2>2. browser'.hop > 0 => kind \in {"plain", "viaWorker"}
    BY <1>2 DEF Aligned, OfKind
  <2>3. Tracked(g)'
    BY <1>2, <1>3, <1>4, <1>6, <1>9, <2>1, <2>2, EventTracked
  <2> QED BY <2>3
<1> QED BY <1>7, <1>8, <1>9

(* The cache answers at most the first request, of which nothing came over    *)
(* the network.                                                             *)
LEMMA FromCacheTracked ==
  ASSUME Typed, Structure, Loading, Reporting, BrowserStep, LoadStep, AnswerFromCache,
         NEW g \in Seq(Hop), Sound(m, g), Aligned(g)
  PROVE  \E f \in Seq(Hop) : Tracked(f)'
<1>1. browser \in Browser /\ TypeOK /\ network \in Seq(NetworkEvent)
  BY TypedParts DEF Typed
<1>2. /\ browser.stage \notin {"answered", "over"} /\ browser.hop = 0 /\ browser'.hop = browser.hop
      /\ browser'.stage = "answered" /\ kind = "plain" /\ extra' = extra
  BY <1>1 DEF AnswerFromCache, Browser
<1>3. g = <<>>
  <2>1. \A i \in DOMAIN g : FALSE
    <3> SUFFICES ASSUME NEW i \in DOMAIN g PROVE FALSE
      OBVIOUS
    <3>1. g[i] \in Hop
      OBVIOUS
    <3>2. g[i] \in Nat /\ g[i] <= browser.hop /\ g[i] # browser.hop
      BY <1>2, <3>1, HopOrder DEF Aligned, Increasing
    <3> QED BY <1>2, <3>2
  <2>2. Len(g) \in Nat /\ DOMAIN g = 1..Len(g)
    OBVIOUS
  <2>3. Len(g) = 0
    BY <2>1, <2>2
  <2> QED BY <2>3, EmptySeq
<1> DEFINE c == Event("requestServedFromCache", 0, FALSE, FALSE)
           e == Event("responseReceived", 0, TRUE, FALSE)
<1>4. /\ c \in NetworkEvent /\ c.event = "requestServedFromCache"
      /\ e \in NetworkEvent /\ e.event = "responseReceived"
  BY BoundAssumption DEF Event, NetworkEvent, Hop
<1>5. network' = network \o <<c, e>>
  BY <1>2 DEF AnswerFromCache, Emit
<1> HIDE DEF c, e
<1>6. network' = Append(Append(network, c), e) /\ Append(network, c) \in Seq(NetworkEvent)
  <2>1. network' = Append(Append(network, c), e)
    BY <1>1, <1>4, <1>5, ConcatTwo
  <2> QED BY <1>1, <1>4, <2>1
<1>7. m' = m /\ kind' = kind /\ Increasing(g)' /\ Position(g)'
  BY BrowserLeaves DEF Loading, Aligned
<1>8. OfKind(g)' /\ Extras(g)'
  BY <1>2, <1>7 DEF Aligned, OfKind, Extras
<1> DEFINE q == Append(network, c)
           n == Len(network)
<1>9. /\ DOMAIN q = 1..(n + 1) /\ Len(q) = n + 1 /\ n \in Nat /\ DOMAIN network = 1..n
      /\ \A i \in DOMAIN q : q[i] = IF i = n + 1 THEN c ELSE network[i]
  BY <1>1, <1>4, AppendItems
<1> HIDE DEF q, n
<1>10. /\ DOMAIN network' = 1..(n + 2)
       /\ \A i \in DOMAIN network' : network'[i] = IF i = n + 2 THEN e ELSE q[i]
  <2>1. q \in Seq(NetworkEvent) /\ network' = Append(q, e)
    BY <1>6 DEF q
  <2>2. /\ DOMAIN network' = 1..(Len(q) + 1)
        /\ \A i \in DOMAIN network' : network'[i] = IF i = Len(q) + 1 THEN e ELSE q[i]
    BY <1>4, <2>1, AppendItems
  <2>3. Len(q) + 1 = n + 2
    BY <1>9
  <2> QED BY <2>2, <2>3
<1>11. /\ \A i \in DOMAIN network : i \in DOMAIN network' /\ network'[i] = network[i]
       /\ n + 1 \in DOMAIN network' /\ network'[n + 1] = c /\ n + 1 < n + 2
       /\ n + 2 \in DOMAIN network' /\ network'[n + 2] = e
       /\ \A i \in DOMAIN network' : i \in DOMAIN network \/ i = n + 1 \/ i = n + 2
  BY <1>9, <1>10
<1>12. ASSUME NEW i \in DOMAIN network' PROVE SourceOf(network'[i], g, CachedBefore(i)')
  <2>1. CASE i \in DOMAIN network
    <3>1. CachedBefore(i) => CachedBefore(i)'
      BY <1>7, <1>11 DEF CachedBefore
    <3>2. SourceOf(network[i], g, CachedBefore(i))
      BY <2>1 DEF Aligned, Sources
    <3> QED BY <1>11, <2>1, <3>1, <3>2 DEF SourceOf
  <2>2. CASE i = n + 1
    BY <1>4, <1>11, <2>2 DEF SourceOf
  <2>3. CASE i = n + 2
    <3>1. CachedBefore(i)'
      BY <1>4, <1>11, <2>3 DEF CachedBefore
    <3>2. ~Among(e.hop, g)
      BY <1>3 DEF Among
    <3> QED BY <1>4, <1>11, <2>3, <3>1, <3>2 DEF SourceOf
  <2> QED BY <1>11, <2>1, <2>2, <2>3
<1>13. Sources(g)'
  BY <1>7, <1>12 DEF Aligned, Sources
<1>14. Tracked(g)'
  BY <1>2, <1>3, <1>7, <1>8, <1>13 DEF Tracked, Aligned, Caching
<1> QED BY <1>14

LEMMA BrowserTracks ==
  ASSUME Typed, Structure, Loading, Reporting, Tracking,
         Begin \/ Decide \/ Progress \/ Cancel \/ ReceiveCommand
  PROVE  Tracking'
<1>1. BrowserStep /\ LoadStep
  BY LoadActs DEF Loading
<1>2. <<>> \in Seq(Hop)
  OBVIOUS
<1>3. OverIsEnd'
  BY <1>1, <1>2, BrowserLeaves DEF Loading, Tracking, OverIsEnd
<1>4. PICK g \in Seq(Hop) : Tracked(g)
  BY DEF Tracking
<1>5. CASE Sound(m, <<>>) /\ EndHandled
  BY <1>1, <1>2, <1>3, <1>5, EndedTracked DEF Tracking
<1>6. CASE Aligned(g)
  <2>1. Sound(m, g)
    BY <1>4 DEF Tracked
  <2>2. CASE Quietly
    BY <1>1, <1>3, <1>6, <2>1, <2>2, QuietlyTracked DEF Tracking
  <2>3. CASE Fail /\ extra' # extra
    BY <1>1, <1>3, <1>6, <2>1, <2>3, FailTracked DEF Tracking
  <2>4. CASE Redirect
    BY <1>1, <1>3, <1>6, <2>1, <2>4, RedirectTracked DEF Tracking
  <2>5. CASE \E empty \in BOOLEAN : Answer(empty)
    BY <1>1, <1>3, <1>6, <2>1, <2>5, AnswerTracked DEF Tracking
  <2>6. CASE AnswerFromCache
    BY <1>1, <1>3, <1>6, <2>1, <2>6, FromCacheTracked DEF Tracking
  <2> QED BY <2>2, <2>3, <2>4, <2>5, <2>6, BrowserIsQuiet DEF Progress, Loading
<1> QED BY <1>4, <1>5, <1>6 DEF Tracked

(***************************************************************************)
(* What the manager is told keeps to it.                                    *)
(***************************************************************************)
LEMMA HandledSound ==
  ASSUME NEW s \in Manager, Handled(s), NEW g \in Seq(Hop), Sound(s, g)
  PROVE  Sound(m', g) /\ EntryOf(m') = EntryOf(s) /\ m' \in Manager
<1> DEFINE t == [s EXCEPT !.out = <<>>]
<1>1. m' = t
  BY DEF Handled
<1>2. t \in Manager
  <2>1. <<>> \in Seq(Command)
    OBVIOUS
  <2> QED BY <2>1 DEF Manager
<1>3. t.tracker = s.tracker /\ t.requests = s.requests
  BY DEF Manager
<1> HIDE DEF t
<1> QED BY <1>1, <1>2, <1>3, SameIsCalm, CalmSound

(* All but the position stays when the lists of the tracker keep their length. *)
LEMMA AlignedStays ==
  ASSUME Typed, Typed', NEW g \in Seq(Hop), Aligned(g), Position(g)',
         UNCHANGED <<kind, browser, extra>>,
         SentCount(m') = SentCount(m), ReceivedCount(m') = ReceivedCount(m),
         EntryOf(m).cached => EntryOf(m').cached, EntryOf(m').cached => FromCache,
         \/ network' = network
         \/ /\ network # <<>> /\ network' = Tail(network)
            /\ Head(network).event = "requestServedFromCache" => EntryOf(m').cached,
         \/ m'.sent = m.sent \/ m'.sent = None
         \/ /\ network # <<>> /\ Head(network).event = "requestWillBeSent"
            /\ m'.sent = [hop |-> Head(network).hop, redirected |-> Head(network).hasExtraInfo]
  PROVE  Aligned(g)'
<1>1. Increasing(g)' /\ OfKind(g)'
  BY DEF Aligned, Increasing, OfKind
<1>2. Extras(g)'
  BY DEF Aligned, Extras, Handed
<1>3. network \in Seq(NetworkEvent)
  BY TypedParts
<1>5. ASSUME network # <<>>, network' = Tail(network),
             Head(network).event = "requestServedFromCache" => EntryOf(m').cached
      PROVE  /\ \A i \in DOMAIN network' : SourceOf(network'[i], g, CachedBefore(i)')
             /\ FromCache' => FromCache
  <2>1. /\ DOMAIN network = 1..Len(network) /\ Len(network) \in Nat \ {0}
        /\ DOMAIN network' = 1..(Len(network) - 1)
        /\ \A i \in DOMAIN network' : network'[i] = network[i + 1]
        /\ network[1] = Head(network)
    BY <1>3, <1>5, TailItems
  <2>2. \A i \in DOMAIN network' : i + 1 \in DOMAIN network /\ i \in Nat
    BY <2>1
  <2>3. \A j \in DOMAIN network : j = 1 \/ (j - 1 \in DOMAIN network' /\ network'[j - 1] = network[j])
    BY <2>1
  <2>4. ASSUME NEW i \in DOMAIN network', CachedBefore(i + 1) PROVE CachedBefore(i)'
    <3>1. CASE EntryOf(m).cached
      BY <3>1 DEF CachedBefore
    <3>2. ASSUME NEW j \in DOMAIN network, j < i + 1, network[j].event = "requestServedFromCache"
          PROVE  CachedBefore(i)'
      <4>1. CASE j = 1
        BY <1>5, <2>1, <3>2, <4>1 DEF CachedBefore
      <4>2. CASE j # 1
        <5>1. j - 1 \in DOMAIN network' /\ network'[j - 1] = network[j]
          BY <2>3, <4>2
        <5>2. j - 1 < i
          BY <2>1, <2>2, <3>2
        <5> QED BY <3>2, <5>1, <5>2 DEF CachedBefore
      <4> QED BY <4>1, <4>2
    <3> QED BY <2>4, <3>1, <3>2 DEF CachedBefore
  <2>5. ASSUME NEW i \in DOMAIN network' PROVE SourceOf(network'[i], g, CachedBefore(i)')
    <3>1. SourceOf(network[i + 1], g, CachedBefore(i + 1))
      BY <2>2 DEF Aligned, Sources
    <3> QED BY <2>1, <2>4, <3>1 DEF SourceOf
  <2>6. FromCache' => FromCache
    BY <2>1, <2>2 DEF FromCache
  <2> QED BY <2>5, <2>6
<1>6. (\A i \in DOMAIN network' : SourceOf(network'[i], g, CachedBefore(i)')) /\ (FromCache' => FromCache)
  <2>1. CASE network' = network
    <3>1. ASSUME NEW i PROVE CachedBefore(i) => CachedBefore(i)'
      BY <2>1 DEF CachedBefore
    <3>2. FromCache' => FromCache
      BY <2>1 DEF FromCache
    <3>3. ASSUME NEW i \in DOMAIN network' PROVE SourceOf(network'[i], g, CachedBefore(i)')
      BY <2>1, <3>1 DEF Aligned, Sources, SourceOf
    <3> QED BY <3>2, <3>3
  <2> QED BY <1>5, <2>1
<1>7. m'.sent # None /\ m'.sent.hop > 0 => (m'.sent.redirected <=> Among(m'.sent.hop - 1, g))
  <2>1. CASE m'.sent = m.sent \/ m'.sent = None
    BY <2>1 DEF Aligned, Sources
  <2>2. CASE /\ network # <<>> /\ Head(network).event = "requestWillBeSent"
             /\ m'.sent = [hop |-> Head(network).hop, redirected |-> Head(network).hasExtraInfo]
    <3>1. 1 \in DOMAIN network /\ network[1] = Head(network)
      BY <1>3, <2>2, TailItems
    <3>2. SourceOf(Head(network), g, CachedBefore(1))
      BY <3>1 DEF Aligned, Sources
    <3> QED BY <2>2, <3>2 DEF SourceOf
  <2> QED BY <2>1, <2>2
<1>8. Sources(g)' /\ Caching(g)'
  BY <1>6, <1>7 DEF Aligned, Sources, Caching
<1> QED BY <1>1, <1>2, <1>8 DEF Aligned

LEMMA PositionStays ==
  ASSUME Typed, Typed', Structure, Ordered, Reporting, ManagerStep, AnswersGoOn,
         m'.request = m.request, ResponseCount(m') = ResponseCount(m),
         NEW g \in Seq(Hop), Position(g)
  PROVE  Position(g)'
<1> SUFFICES ASSUME ~EndHandled', m.request # None, NEW i \in DOMAIN g
             PROVE  i <= ResponseCount(m) <=> HasAnswer(g[i])'
  BY DEF Position
<1>1. ~EndHandled
  <2>1. EndHandled => network' = <<>>
    BY ManagerQueues DEF EndHandled
  <2> QED BY <2>1, ManagerQueues DEF EndHandled
<1> DEFINE k == m.request
<1>2. k \in Hop /\ m'.requests[k].report # "over"
  <2>1. m'.requests[k].report = "live"
    BY DEF Typed, TypeOK
  <2> QED BY <2>1, ListedIsLive
<1>3. ~Unstarted(k)
  BY <1>2, UnstartedIsNew DEF Reporting
<1>4. m'.requests[k].response = m.requests[k].response
  BY <1>2, <1>3 DEF AnswersGoOn, SameAnswer
<1> QED BY <1>1, <1>4 DEF Position, HasAnswer

(* The hop that follows those with an answer has the next place.             *)
LEMMA NextPlace ==
  ASSUME NEW g \in Seq(Hop), \A i, j \in DOMAIN g : i < j => g[i] < g[j], NEW n \in Nat,
         NEW h \in Hop, \A i \in DOMAIN g : i <= n <=> g[i] < h
  PROVE  /\ \A k \in DOMAIN g : g[k] = h => k = n + 1
         /\ Among(h, g) => n + 1 \in DOMAIN g /\ g[n + 1] = h
<1>1. ASSUME NEW k \in DOMAIN g, g[k] = h PROVE k = n + 1
  <2>1. DOMAIN g = 1..Len(g) /\ Len(g) \in Nat /\ k \in Nat
    OBVIOUS
  <2>2. h \in Nat
    BY HopOrder
  <2>3. ~(k <= n)
    BY <1>1, <2>2
  <2>4. ASSUME n + 1 < k PROVE FALSE
    <3>1. n + 1 \in DOMAIN g
      BY <2>1, <2>4
    <3>2. g[n + 1] < h
      BY <1>1, <2>4, <3>1
    <3> QED BY <3>1, <3>2
  <2> QED BY <2>1, <2>3, <2>4
<1> QED BY <1>1 DEF Among

Steady == /\ Typed /\ Structure /\ Ordered /\ Loading /\ Reporting /\ Chained
          /\ ~Disturbed

(* The request that begins follows the one that is listed.                   *)
BeginsNext(e) == /\ Unstarted(e) /\ NewFrom(m, e)
                 /\ \A h \in Hop : Announced(h) => e <= h

LEMMA HeadIsFirst ==
  ASSUME Steady, NetworkIs("requestWillBeSent"), NEW e, e = Head(network).hop
  PROVE  e \in Hop /\ BeginsNext(e)
<1>1. network \in Seq(NetworkEvent) /\ network # <<>> /\ Head(network).event = "requestWillBeSent"
  BY TypedParts DEF Steady, NetworkIs
<1>2. /\ DOMAIN network = 1..Len(network) /\ Len(network) \in Nat \ {0} /\ network[1] = Head(network)
      /\ Head(network) \in NetworkEvent
  BY <1>1, TailItems, TailType
<1>3. 1 \in DOMAIN network /\ e \in Hop
  BY <1>2 DEF NetworkEvent
<1>4. Announced(e)
  BY <1>1, <1>2, <1>3 DEF Announced, AnnouncedIn
<1>5. ASSUME NEW h \in Hop, Announced(h) PROVE e <= h
  <2>1. PICK i \in DOMAIN network : network[i].event = "requestWillBeSent" /\ network[i].hop = h
    BY <1>5 DEF Announced, AnnouncedIn
  <2>2. i = 1 \/ 1 < i
    BY <1>2
  <2>3. 1 < i => e < h
    BY <1>1, <1>2, <1>3, <2>1 DEF Steady, Structure, AnnouncedInOrder, InOrder
  <2> QED BY <1>2, <1>3, <2>1, <2>2, <2>3, HopOrder
<1> QED BY <1>3, <1>4, <1>5 DEF BeginsNext, Unstarted, Steady, Ordered, NewInOrder

LEMMA KeptIsFirst ==
  ASSUME Steady, m.sent # None, kind # "viaWorker"
  PROVE  m.sent.hop \in Hop /\ BeginsNext(m.sent.hop)
<1>1. m.sent.hop \in Hop /\ Kept(m, m.sent.hop)
  BY SentHop DEF Steady
<1>2. NewFrom(m, m.sent.hop)
  BY <1>1 DEF Steady, Ordered, NewInOrder, Forgotten
<1>3. ASSUME NEW h \in Hop, Announced(h) PROVE m.sent.hop <= h
  <2>1. m.sent.hop < h
    BY <1>1, <1>3 DEF Steady, Structure, AnnouncedInOrder
  <2>2. m.sent.hop \in Nat /\ h \in Nat
    BY <1>1, HopOrder
  <2> QED BY <2>1, <2>2
<1> QED BY <1>1, <1>2, <1>3 DEF BeginsNext, Unstarted

LEMMA RedirectsLast ==
  ASSUME Steady, NEW e \in Hop, BeginsNext(e)
  PROVE  /\ m.requests[e].report = "new" /\ e <= browser.hop /\ e \in Nat
         /\ m.request # None =>
              /\ m.request \in Hop /\ m.request = e - 1 /\ m.request < e /\ ~EndHandled
              /\ m.requests[m.request].report # "new"
<1>1. /\ m.requests[e].report = "new" /\ e <= browser.hop /\ e \in Nat
      /\ m.request # None => m.request \in Hop /\ m.request < e
  BY UnstartedIsNew, NewIsNext DEF Steady, BeginsNext, Reporting
<1> SUFFICES ASSUME m.request # None
             PROVE  m.request = e - 1 /\ ~EndHandled /\ m.requests[m.request].report # "new"
  BY <1>1
<1> DEFINE r == m.request
<1>2. r \in Hop /\ r \in Nat /\ r < e /\ m.requests[r].report = "live" /\ browser.hop \in Nat
  BY <1>1, ListedIsLive, HopOrder DEF Steady
<1> HIDE DEF r
<1>3. ASSUME r < e - 1 PROVE FALSE
  <2> DEFINE h == e - 1
  <2>1. h \in Hop /\ r < h /\ h <= browser.hop /\ h < e /\ h # 0
    <3>1. e \in 0..MaxHop /\ MaxHop \in Nat
      BY BoundAssumption DEF Hop
    <3>2. browser.hop \in Nat /\ r \in Nat
      BY <1>2
    <3> QED BY <1>1, <1>2, <1>3, <3>1, <3>2 DEF Hop
  <2> HIDE DEF h
  <2>2. Unstarted(h)
    BY <2>1 DEF Steady, Chained, Follows, r
  <2>3. ~Announced(h)
    BY <1>1, <1>2, <2>1, HopOrder DEF BeginsNext
  <2>4. Kept(m, h)
    BY <2>2, <2>3 DEF Unstarted
  <2>5. ~Kept(m, e)
    BY <1>1, <2>1, <2>4, HopOrder DEF Kept
  <2>6. Announced(e)
    BY <2>5 DEF BeginsNext, Unstarted
  <2> QED BY <2>1, <2>4, <2>6, KeptForWorker DEF Steady
<1>4. ~EndHandled
  <2> SUFFICES ASSUME EndHandled PROVE FALSE
    OBVIOUS
  <2>1. CutShort(r)
    BY DEF Steady, Reporting, EndOK, r
  <2> QED BY <1>1, <1>2, <2>1 DEF CutShort
<1> QED BY <1>1, <1>2, <1>3, <1>4 DEF r

(* A redirect takes the next place among the responses, or none.             *)
LEMMA RedirectableNow ==
  ASSUME Steady, NEW event \in Sent, BeginsNext(event.hop), NEW g \in Seq(Hop), Tracked(g),
         Aligned(g) /\ event.hop > 0 => (event.redirected <=> Among(event.hop - 1, g))
  PROVE  /\ Redirectable(m, event, g) /\ m.requests[event.hop].report = "new"
         /\ Aligned(g) /\ Predecessor(m, event.hop) # None =>
              \A i \in DOMAIN g : i <= ResponseCount(m) + Responses(m, event) <=> g[i] < event.hop
<1> DEFINE e == event.hop
           r == m.request
           n == ResponseCount(m)
<1>1. e \in Hop /\ event.redirected \in BOOLEAN
  BY DEF Sent
<1>2. m.requests[e].report = "new" /\ e \in Nat /\ e <= browser.hop
  BY <1>1, RedirectsLast
<1>3. m \in Manager /\ n \in Nat
  BY TypedParts, CountsType DEF Steady, ManagerTyped
<1> SUFFICES ASSUME e > 0, r # None
             PROVE  /\ Redirectable(m, event, g)
                    /\ Aligned(g) => \A i \in DOMAIN g : i <= n + Responses(m, event) <=> g[i] < e
  BY <1>2 DEF Redirectable, Predecessor
<1>4. r \in Hop /\ r = e - 1 /\ r < e /\ ~EndHandled /\ m.requests[r].report # "new"
  BY <1>1, RedirectsLast
<1>5. Sound(m, g) /\ Aligned(g)
  BY <1>4 DEF Tracked
<1>6. m.requests[r].response = "none"
  <2>1. r # browser.hop
    BY <1>2, <1>4, HopOrder DEF Steady
  <2> QED BY <1>4, <2>1 DEF Steady, Chained, LiveUnanswered
<1>7. \A i \in DOMAIN g : i <= n <=> g[i] < r
  BY <1>4, <1>5, <1>6 DEF Aligned, Position, HasAnswer
<1>8. ASSUME NEW i \in DOMAIN g PROVE g[i] \in Nat /\ (g[i] < e <=> (g[i] < r \/ g[i] = r))
  <2>1. g[i] \in Hop
    OBVIOUS
  <2> QED BY <1>2, <1>4, <2>1, HopOrder
<1>9. /\ \A k \in DOMAIN g : g[k] = r => k = n + 1
      /\ Among(r, g) => n + 1 \in DOMAIN g /\ g[n + 1] = r
  <2>1. \A i, j \in DOMAIN g : i < j => g[i] < g[j]
    BY <1>5 DEF Aligned, Increasing
  <2> QED BY <1>3, <1>4, <1>7, <2>1, NextPlace
<1>10. ~Among(r, EntryOf(m).responses)
  <2>1. \A i \in DOMAIN g : i <= n => g[i] # r
    BY <1>4, <1>7, <1>8, HopOrder
  <2> QED BY <1>3, <1>5, <2>1, NotAmong
<1>11. event.redirected <=> Among(r, g)
  BY <1>4, <1>5
<1>12. Predecessor(m, e) = r
  BY DEF Predecessor
<1>13. Redirectable(m, event, g)
  BY <1>4, <1>9, <1>10, <1>11, <1>12 DEF Redirectable
<1>14. CASE event.redirected /\ ~EntryOf(m).cached
  <2>1. Responses(m, event) = 1 /\ n + 1 \in DOMAIN g /\ g[n + 1] = r
    BY <1>9, <1>11, <1>12, <1>14 DEF Responses
  <2>2. ASSUME NEW i \in DOMAIN g PROVE i <= n + 1 <=> g[i] < e
    <3>1. i \in Nat
      OBVIOUS
    <3>2. i <= n + 1 <=> i <= n \/ i = n + 1
      BY <1>3, <3>1
    <3>3. i = n + 1 <=> g[i] = r
      BY <1>9, <2>1
    <3> QED BY <1>7, <1>8, <3>2, <3>3
  <2> QED BY <1>13, <2>1, <2>2
<1>15. CASE ~event.redirected
  <2>1. Responses(m, event) = 0 /\ n + 0 = n
    BY <1>3, <1>15 DEF Responses
  <2>2. ASSUME NEW i \in DOMAIN g PROVE g[i] # r
    BY <1>11, <1>15 DEF Among
  <2> QED BY <1>7, <1>8, <1>13, <2>1, <2>2
<1>16. CASE EntryOf(m).cached
  <2>1. g = <<>>
    BY <1>5, <1>16 DEF Aligned, Caching, FromCache
  <2> QED BY <1>13, <2>1
<1> QED BY <1>1, <1>14, <1>15, <1>16

LEMMA BeginsPosition ==
  ASSUME Steady, Typed', ManagerStep, AnswersGoOn, NEW event \in Sent, BeginsNext(event.hop),
         Begins(m, m', event.hop) \/ Skips(m, m', event.hop),
         ~frame /\ kind # "preflight" => Skips(m, m', event.hop),
         NEW g \in Seq(Hop), Tracked(g), Aligned(g),
         event.hop > 0 => (event.redirected <=> Among(event.hop - 1, g)),
         ResponseCount(m') = ResponseCount(m) + Responses(m, event)
  PROVE  Position(g)'
<1> DEFINE e == event.hop
<1> SUFFICES ASSUME ~EndHandled', m'.request # None, NEW i \in DOMAIN g
             PROVE  i <= ResponseCount(m') <=> HasAnswer(g[i])'
  BY DEF Position
<1>1. e \in Hop /\ TakesOn(e)
  BY DEF Sent, TakesOn, BeginsNext
<1>2. m'.request = e /\ m.requests[e].report = "new" /\ Begins(m, m', e)
  BY <1>1, TakesOnLists, SkipsListsNone DEF Steady, BeginsNext
<1>3. /\ e \in Nat /\ e <= browser.hop
      /\ m.request # None => m.request \in Hop /\ m.request < e
  BY <1>1, RedirectsLast
<1>4. m'.requests[e].response = "none"
  <2>1. m.requests[e].response = "none"
    BY <1>1, <1>2 DEF Steady, Reporting, ResponsesOK
  <2>2. e # m.request
    BY <1>1, <1>3, HopOrder
  <2> QED BY <1>1, <2>1, <2>2 DEF AnswersGoOn, SameAnswer, Fresh
<1>5. HasAnswer(g[i])' <=> g[i] < e
  BY <1>2, <1>4 DEF HasAnswer
<1>6. CASE Predecessor(m, e) # None
  BY <1>5, <1>6, RedirectableNow
<1>7. ASSUME Predecessor(m, e) = None PROVE i <= ResponseCount(m') <=> g[i] < e
  <2>1. ResponseCount(m') = ResponseCount(m) + 0 /\ ResponseCount(m) \in Nat
    BY <1>7, TypedParts, CountsType DEF Responses, Steady, ManagerTyped
  <2>2. Sound(m, g) /\ i \in Nat /\ i # 0 /\ g[i] \in Hop
    <3>1. i \in Nat /\ i # 0 /\ g[i] \in Hop
      OBVIOUS
    <3> QED BY <3>1 DEF Tracked
  <2>3. CASE e = 0
    <3>1. \A k \in Hop : m.requests[k].report = "new"
      BY <2>3, HopOrder DEF BeginsNext, NewFrom, Hop
    <3>2. EntryOf(m).responses \in Seq(Hop)
      BY EntryOfType, TypedParts DEF Steady, ManagerTyped, Entry
    <3>3. \A j \in DOMAIN EntryOf(m).responses : EntryOf(m).responses[j] \in Hop
      BY <3>2
    <3>4. DOMAIN EntryOf(m).responses = {}
      BY <2>2, <3>1, <3>3 DEF Sound, SoundBut, Straight, Begun
    <3>5. ResponseCount(m) = 0
      <4> DEFINE q == EntryOf(m).responses
      <4>1. q \in Seq(Hop) /\ DOMAIN q = {}
        BY <3>2, <3>4
      <4> HIDE DEF q
      <4>2. Len(q) \in Nat /\ DOMAIN q = 1..Len(q)
        BY <4>1
      <4>3. ~(1 \in 1..Len(q))
        BY <4>1, <4>2
      <4>4. Len(q) = 0
        BY <4>2, <4>3
      <4> QED BY <4>4 DEF ResponseCount, q
    <3>6. ResponseCount(m') = 0
      BY <2>1, <3>5
    <3>7. g[i] \in Nat
      BY <2>2, HopOrder
    <3>8. ~(i <= 0) /\ ~(g[i] < 0)
      BY <2>2, <3>7
    <3> QED BY <2>3, <3>6, <3>8
  <2>4. ASSUME e # 0 PROVE FALSE
    <3>1. m.request = None /\ 0 < e
      BY <1>3, <1>7, <2>4 DEF Predecessor
    <3>2. kind = "plain" /\ frame
      <4>0. browser.hop \in Nat
        BY HopOrder DEF Steady
      <4>1. browser.hop > 0
        BY <1>3, <3>1, <4>0
      <4>2. kind \in {"plain", "viaWorker"}
        BY <4>1 DEF Aligned, OfKind
      <4>3. kind # "viaWorker"
        BY DEF Aligned, OfKind
      <4> QED BY <1>1, <1>2, <4>2, <4>3, SkipsListsNone DEF Steady, BeginsNext
    <3>3. ~EndHandled
      <4>1. EndHandled => network' = <<>>
        BY ManagerQueues DEF EndHandled, Steady
      <4> QED BY <4>1, ManagerQueues DEF EndHandled, Steady
    <3>4. m.requests[0].report = "new"
      BY <3>1, <3>2, <3>3, HopOrder DEF Steady, Chained, NoneLive
    <3>5. browser.stage # "none"
      BY <1>1 DEF Steady, Structure, Future, BeginsNext
    <3>6. 0 \in Hop /\ 0 <= browser.hop /\ Counted(0)
      <4>1. browser.hop \in Nat /\ 0 \in Hop
        BY HopOrder DEF Steady
      <4> QED BY <3>2, <4>1 DEF Counted
    <3>7. Unstarted(0)
      BY <3>2, <3>4, <3>5, <3>6 DEF Steady, Reporting, BegunOK
    <3>8. ~Announced(0)
      BY <1>3, <3>1, <3>6 DEF BeginsNext
    <3>9. Kept(m, 0) /\ ~Kept(m, e)
      BY <2>4, <3>7, <3>8 DEF Unstarted, Kept
    <3>10. Announced(e)
      BY <3>9 DEF BeginsNext, Unstarted
    <3> QED BY <1>1, <3>2, <3>6, <3>9, <3>10, KeptForWorker DEF Steady
  <2> QED BY <2>3, <2>4
<1> QED BY <1>5, <1>6, <1>7

(***************************************************************************)
(* Each handler of the manager keeps to the sources.                        *)
(***************************************************************************)
LEMMA EndStaysHandled ==
  ASSUME Typed, ManagerStep
  PROVE  /\ EndHandled => EndHandled' /\ network' = network
         /\ OverIsEnd /\ EntryOf(m').over = EntryOf(m).over => OverIsEnd'
<1>1. ASSUME EndHandled PROVE EndHandled' /\ network' = network
  BY <1>1, ManagerQueues DEF EndHandled
<1> QED BY <1>1 DEF OverIsEnd

LEMMA HeadHasSource ==
  ASSUME Typed, network # <<>>, NEW g \in Seq(Hop), Aligned(g)
  PROVE  SourceOf(Head(network), g, EntryOf(m).cached) /\ Head(network) \in NetworkEvent
<1>1. network \in Seq(NetworkEvent)
  BY TypedParts
<1>2. /\ Len(network) \in Nat \ {0} /\ DOMAIN network = 1..Len(network) /\ network[1] = Head(network)
      /\ Head(network) \in NetworkEvent
  BY <1>1, TailItems, TailType
<1>3. 1 \in DOMAIN network /\ \A j \in DOMAIN network : ~(j < 1)
  BY <1>2
<1>4. SourceOf(network[1], g, CachedBefore(1))
  BY <1>3 DEF Aligned, Sources
<1>5. CachedBefore(1) <=> EntryOf(m).cached
  BY <1>3 DEF CachedBefore
<1> QED BY <1>2, <1>4, <1>5 DEF SourceOf

LEMMA HearsTracks ==
  ASSUME Steady, Tracking, ReceiveRequestWillBeSent
  PROVE  Tracking'
<1>1. Typed' /\ ManagerStep /\ AnswersGoOn
  BY ReceiveRequestWillBeSentStep, HearsAnswers DEF Steady
<1>2. /\ NetworkIs("requestWillBeSent") /\ network # <<>> /\ network' = Tail(network)
      /\ Head(network).event = "requestWillBeSent" /\ extra' = extra /\ UNCHANGED <<kind, browser>>
  BY DEF ReceiveRequestWillBeSent, ReceiveNetwork, NetworkIs
<1>3. Hears
  <2>1. TakesEvent("requestWillBeSent")
    BY <1>2 DEF TakesEvent
  <2>2. network' # network /\ \A other : TakesEvent(other) => other = "requestWillBeSent"
    BY <2>1, TakesOne DEF Steady
  <2>3. ~TakesEvent("responseReceived") /\ ~TakesEvent("loadingFinished") /\ ~TakesEvent("loadingFailed")
    BY <2>2
  <2> QED BY <1>1, <1>2, <2>2, <2>3
           DEF ManagerStep, Bookkeeps, LeavesBe, SeesPause, HearsLate, HearsEnd
<1> DEFINE e == Head(network).hop
           event == [hop |-> e, redirected |-> Head(network).hasExtraInfo]
           s == OnRequestWillBeSent(m, event)
<1>4. Handled(s)
  BY DEF ReceiveRequestWillBeSent, ReceiveNetwork
<1>5. PICK g \in Seq(Hop) : Tracked(g)
  BY DEF Tracking
<1>6. Sound(m, g) /\ Aligned(g) /\ ~EndHandled
  BY <1>2, <1>5 DEF Tracked, EndHandled
<1>7. /\ SourceOf(Head(network), g, EntryOf(m).cached)
      /\ event \in Sent /\ event.hop = e /\ event.redirected = Head(network).hasExtraInfo
  <2>1. Head(network) \in NetworkEvent /\ SourceOf(Head(network), g, EntryOf(m).cached)
    BY <1>2, <1>6, HeadHasSource DEF Steady
  <2> QED BY <2>1 DEF NetworkEvent, Sent
<1>8. e \in Hop /\ BeginsNext(e)
  BY <1>2, HeadIsFirst
<1>9. event.hop > 0 => (event.redirected <=> Among(event.hop - 1, g))
  BY <1>2, <1>7 DEF SourceOf
<1> HIDE DEF event
<1>10. Redirectable(m, event, g) /\ m.requests[event.hop].report = "new"
  BY <1>5, <1>7, <1>8, <1>9, RedirectableNow
<1>11. m \in Manager
  BY TypedParts DEF Steady, ManagerTyped
<1>12. /\ s \in Manager /\ Sound(s, g)
       /\ Advances(m, s, IF m.protocol /\ m.paused = None THEN 0 ELSE Responses(m, event))
  BY <1>6, <1>7, <1>10, <1>11, OnRequestWillBeSentSound
<1> HIDE DEF s
<1>13. Sound(m', g) /\ EntryOf(m') = EntryOf(s)
  BY <1>4, <1>12, HandledSound
<1>14. Advances(m, m', IF m.protocol /\ m.paused = None THEN 0 ELSE Responses(m, event))
  BY <1>12, <1>13 DEF Advances, SentCount, ReceivedCount, ResponseCount
<1>15. Position(g)'
  <2>1. CASE m.protocol /\ m.paused = None
    <3>1. m'.request = m.request
      BY <1>3, <2>1 DEF Hears, SameReports
    <3>2. ResponseCount(m') = ResponseCount(m)
      BY <1>11, <1>14, <2>1, CountsType DEF Advances
    <3> QED BY <1>1, <1>6, <3>1, <3>2, PositionStays DEF Aligned, Steady
  <2>2. CASE ~(m.protocol /\ m.paused = None)
    <3>1. /\ Begins(m, m', e) \/ Skips(m, m', e)
          /\ ~frame /\ kind # "preflight" => Skips(m, m', e)
      BY <1>3, <2>2 DEF Hears
    <3>2. ResponseCount(m') = ResponseCount(m) + Responses(m, event)
      BY <1>14, <2>2 DEF Advances
    <3> QED BY <1>1, <1>5, <1>6, <1>7, <1>8, <1>9, <3>1, <3>2, BeginsPosition
  <2> QED BY <2>1, <2>2
<1>16. \/ m'.sent = m.sent
       \/ m'.sent = [hop |-> Head(network).hop, redirected |-> Head(network).hasExtraInfo]
  BY <1>3 DEF Hears
<1>17. /\ SentCount(m') = SentCount(m) /\ ReceivedCount(m') = ReceivedCount(m)
       /\ EntryOf(m').cached = EntryOf(m).cached /\ EntryOf(m').over = EntryOf(m).over
  BY <1>14 DEF Advances
<1>18. Aligned(g)'
  <2>1. EntryOf(m').cached => FromCache
    BY <1>17 DEF FromCache
  <2> QED BY <1>1, <1>2, <1>6, <1>15, <1>16, <1>17, <2>1, AlignedStays DEF Steady
<1>19. OverIsEnd'
  BY <1>1, <1>17, EndStaysHandled DEF Tracking, Steady
<1> QED BY <1>13, <1>18, <1>19 DEF Tracking, Tracked

LEMMA CachedTracks ==
  ASSUME Steady, Tracking, ReceiveServedFromCache
  PROVE  Tracking'
<1>1. Typed' /\ ManagerStep /\ AnswersGoOn
  BY ReceiveServedFromCacheStep, CachedAnswers DEF Steady
<1>2. /\ network # <<>> /\ network' = Tail(network)
      /\ Head(network).event = "requestServedFromCache" /\ extra' = extra /\ UNCHANGED <<kind, browser>>
  BY DEF ReceiveServedFromCache, ReceiveNetwork, NetworkIs
<1> DEFINE s == RequestServedFromCache(m)
<1>3. Handled(s)
  BY DEF ReceiveServedFromCache, ReceiveNetwork
<1>4. m \in Manager /\ network \in Seq(NetworkEvent)
  BY TypedParts DEF Steady, ManagerTyped
<1>5. PICK g \in Seq(Hop) : Tracked(g)
  BY DEF Tracking
<1>6. Sound(m, g) /\ Aligned(g)
  BY <1>2, <1>5 DEF Tracked, EndHandled
<1>7. /\ s \in Manager /\ Sound(s, g) /\ EntryOf(s).over = EntryOf(m).over
      /\ SentCount(s) = SentCount(m) /\ ReceivedCount(s) = ReceivedCount(m)
      /\ ResponseCount(s) = ResponseCount(m) /\ Untouched(m, s)
  BY <1>4, <1>6, ServedFromCacheSound
<1>8. EntryOf(s).cached = TRUE
  <2> DEFINE f == [EntryOf(m) EXCEPT !.cached = TRUE]
  <2>1. f \in Entry /\ f.cached = TRUE
    BY <1>4, EntryOfType DEF Entry
  <2>2. s.tracker = f
    BY <1>4 DEF RequestServedFromCache, Manager
  <2> HIDE DEF f
  <2>3. f # None
    BY <2>1, EntryAssumption
  <2> QED BY <2>1, <2>2, <2>3 DEF EntryOf
<1> HIDE DEF s
<1>9. Sound(m', g) /\ EntryOf(m') = EntryOf(s) /\ m'.request = m.request
  <2>1. m'.request = s.request
    BY <1>3, <1>7, HandledRequests
  <2> QED BY <1>3, <1>7, <2>1, HandledSound DEF Untouched, SameButAnswers
<1>10. /\ SentCount(m') = SentCount(m) /\ ReceivedCount(m') = ReceivedCount(m)
       /\ ResponseCount(m') = ResponseCount(m)
       /\ EntryOf(m').cached = TRUE /\ EntryOf(m').over = EntryOf(m).over
  BY <1>7, <1>8, <1>9 DEF SentCount, ReceivedCount, ResponseCount
<1>11. Position(g)'
  BY <1>1, <1>6, <1>9, <1>10, PositionStays DEF Aligned, Steady
<1>12. FromCache
  <2>1. 1 \in DOMAIN network /\ network[1] = Head(network)
    BY <1>2, <1>4, TailItems
  <2> QED BY <1>2, <2>1 DEF FromCache
<1>13. m'.sent = m.sent
  <2>1. m'.sent = s.sent
    BY <1>3, <1>7 DEF Handled, Manager
  <2> QED BY <1>7, <2>1 DEF Untouched, SameButAnswers
<1>14. Aligned(g)'
  BY <1>1, <1>2, <1>6, <1>10, <1>11, <1>12, <1>13, AlignedStays DEF Steady
<1>15. OverIsEnd'
  BY <1>1, <1>10, EndStaysHandled DEF Tracking, Steady
<1> QED BY <1>9, <1>14, <1>15 DEF Tracking, Tracked

(* A response finds the last request of the chain, which has none.           *)
LEMMA ResponseFits ==
  ASSUME Steady, Typed', ManagerStep, TakesEvent("responseReceived"), m'.request # None,
         NEW g \in Seq(Hop), Tracked(g), Aligned(g), NEW e, e = Head(network)
  PROVE  /\ m'.request = e.hop
         /\ \A i \in DOMAIN g : i <= ResponseCount(m) => g[i] # e.hop
         /\ e.hasExtraInfo /\ ~EntryOf(m).cached =>
              ResponseCount(m) + 1 \in DOMAIN g /\ g[ResponseCount(m) + 1] = e.hop
         /\ \A i \in DOMAIN g :
              i <= ResponseCount(m) + (IF e.hasExtraInfo /\ ~EntryOf(m).cached THEN 1 ELSE 0)
<1> DEFINE h == e.hop
           n == ResponseCount(m)
<1>1. /\ network # <<>> /\ network' = Tail(network) /\ e.event = "responseReceived"
      /\ h = browser.hop /\ Responding /\ h \in Hop
  BY HeadResponds, HopOrder DEF TakesEvent, Steady, Loading
<1>2. m'.request = h
  BY <1>1, ResponderIsLast DEF Steady, Chained
<1>3. n \in Nat /\ m \in Manager /\ h \in Nat
  BY <1>1, TypedParts, CountsType, HopOrder DEF Steady, ManagerTyped
<1>4. SourceOf(e, g, EntryOf(m).cached) /\ e \in NetworkEvent
  BY <1>1, HeadHasSource DEF Steady
<1>5. ASSUME m.request = None PROVE g = <<>>
  <2>1. ~SameReports(m, m')
    BY <1>5 DEF SameReports
  <2>2. ~Hears /\ ~SeesPause /\ ~HearsEnd
    <3>1. network' # network /\ \A other : TakesEvent(other) => other = "responseReceived"
      BY TakesOne DEF Steady
    <3>2. ~TakesEvent("requestWillBeSent") /\ ~TakesEvent("loadingFinished") /\ ~TakesEvent("loadingFailed")
      BY <3>1
    <3> QED BY <3>1, <3>2 DEF Hears, SeesPause, HearsEnd
  <2>3. kind = "viaWorker"
    BY <2>1, <2>2 DEF ManagerStep, Bookkeeps, HearsLate
  <2> QED BY <2>3 DEF Aligned, OfKind
<1>6. CASE g = <<>>
  <2>1. DOMAIN g = {} /\ ~Among(h, g)
    BY <1>6 DEF Among
  <2>2. ~(e.hasExtraInfo /\ ~EntryOf(m).cached)
    BY <1>1, <1>4, <2>1 DEF SourceOf
  <2> QED BY <1>2, <2>1, <2>2
<1>7. CASE g # <<>>
  <2>1. m.request = h
    <3>1. m.request # None
      BY <1>5, <1>7
    <3>2. Bookkeeps
      <4>1. network' # network /\ \A other : TakesEvent(other) => other = "responseReceived"
        BY TakesOne DEF Steady
      <4>2. ~TakesEvent("requestWillBeSent") /\ ~TakesEvent("loadingFinished") /\ ~TakesEvent("loadingFailed")
        BY <4>1
      <4> QED BY <3>1, <4>1, <4>2 DEF ManagerStep, Hears, SeesPause, HearsEnd, HearsLate, StopsNow
    <3> QED BY <1>2, <3>2 DEF Bookkeeps, SameReports
  <2>2. m.requests[h].response = "none"
    BY <1>1, <1>3, <2>1, HopOrder DEF Steady, Chained, LiveUnanswered
  <2>3. ~EndHandled /\ m.request # None
    BY <1>1, <1>5, <1>7 DEF EndHandled
  <2>4. \A i \in DOMAIN g : i <= n <=> g[i] < h
    BY <2>1, <2>2, <2>3 DEF Aligned, Position, HasAnswer
  <2>5. /\ \A k \in DOMAIN g : g[k] = h => k = n + 1
        /\ Among(h, g) => n + 1 \in DOMAIN g /\ g[n + 1] = h
    <3>1. \A i, j \in DOMAIN g : i < j => g[i] < g[j]
      BY DEF Aligned, Increasing
    <3> QED BY <1>1, <1>3, <2>4, <3>1, NextPlace
  <2>6. ~EntryOf(m).cached
    BY <1>7 DEF Aligned, Caching, FromCache
  <2>7. /\ Among(h, g) => e.hasExtraInfo
        /\ e.hasExtraInfo => Among(h, g)
    BY <1>1, <1>4, <2>6 DEF SourceOf
  <2>8. ASSUME NEW i \in DOMAIN g
        PROVE  i \in Nat /\ (i <= n \/ (i = n + 1 /\ e.hasExtraInfo))
    <3>1. i \in Nat /\ g[i] \in Hop
      OBVIOUS
    <3>2. g[i] <= h /\ g[i] \in Nat
      BY <1>1, <3>1, HopOrder DEF Aligned, Increasing
    <3>3. g[i] = h => i = n + 1 /\ e.hasExtraInfo
      BY <2>5, <2>7 DEF Among
    <3>4. g[i] < h \/ g[i] = h
      BY <1>3, <3>2
    <3> QED BY <2>4, <3>1, <3>3, <3>4
  <2>9. \A i \in DOMAIN g : i <= n => g[i] # h
    BY <1>3, <2>4
  <2>10. ASSUME NEW i \in DOMAIN g
         PROVE  i <= n + (IF e.hasExtraInfo /\ ~EntryOf(m).cached THEN 1 ELSE 0)
    <3>1. CASE e.hasExtraInfo
      BY <1>3, <2>6, <2>8, <3>1
    <3>2. CASE ~e.hasExtraInfo
      BY <1>3, <2>6, <2>8, <3>2
    <3> QED BY <3>1, <3>2
  <2> QED BY <1>2, <2>5, <2>7, <2>9, <2>10
<1> QED BY <1>6, <1>7

LEMMA ResponseTracks ==
  ASSUME Steady, Tracking, ReceiveResponse
  PROVE  Tracking'
<1>1. Typed' /\ ManagerStep /\ AnswersCome /\ TakesEvent("responseReceived")
  BY ReceiveResponseStep, ResponseAnswers DEF Steady
<1>2. /\ network # <<>> /\ network' = Tail(network)
      /\ Head(network).event = "responseReceived" /\ extra' = extra /\ UNCHANGED <<kind, browser>>
  BY DEF ReceiveResponse, ReceiveNetwork, NetworkIs
<1>3. PICK g \in Seq(Hop) : Tracked(g)
  BY DEF Tracking
<1>4. Sound(m, g) /\ Aligned(g) /\ ~EndHandled
  BY <1>2, <1>3 DEF Tracked, EndHandled
<1>5. m \in Manager /\ Listed(m)
  BY TypedParts DEF Steady, ManagerTyped
<1> DEFINE e == Head(network)
           s == OnResponseReceived(m, e.hop, e.hasExtraInfo, e.empty)
<1>6. e \in NetworkEvent
  BY <1>2, <1>4, HeadHasSource DEF Steady
<1>7. e.hop \in Hop /\ e.hasExtraInfo \in BOOLEAN /\ e.empty \in BOOLEAN
  BY <1>6 DEF NetworkEvent
<1>8. Handled(s)
  BY DEF ReceiveResponse, ReceiveNetwork
<1>9. s \in Manager /\ m'.request = s.request
  <2>1. s \in Manager
    BY <1>5, <1>7, OnResponseReceivedEffect DEF Effect
  <2> QED BY <1>8, <2>1, HandledRequests
<1>10. m.request = None /\ m.sent # None => m.requests[m.sent.hop].report = "new"
  BY SentHop DEF Steady, Reporting, WaitingOK
<1> DEFINE n == IF m'.request # None /\ e.hasExtraInfo /\ ~EntryOf(m).cached THEN 1 ELSE 0
<1>11. Sound(s, g) /\ Advances(m, s, n)
  <2>1. s.request # None =>
          /\ s.request = e.hop
          /\ \A i \in DOMAIN g : i <= ResponseCount(m) => g[i] # e.hop
          /\ e.hasExtraInfo /\ ~EntryOf(m).cached =>
               ResponseCount(m) + 1 \in DOMAIN g /\ g[ResponseCount(m) + 1] = e.hop
    BY <1>1, <1>3, <1>4, <1>9, ResponseFits
  <2> HIDE DEF e
  <2> QED BY <1>4, <1>5, <1>7, <1>9, <1>10, <2>1, OnResponseReceivedSound
<1> HIDE DEF s
<1>12. Sound(m', g) /\ EntryOf(m') = EntryOf(s)
  BY <1>8, <1>9, <1>11, HandledSound
<1>13. Advances(m, m', n)
  BY <1>11, <1>12 DEF Advances, SentCount, ReceivedCount, ResponseCount
<1>14. Position(g)'
  <2> SUFFICES ASSUME m'.request # None, NEW i \in DOMAIN g
               PROVE  i <= ResponseCount(m') /\ HasAnswer(g[i])'
    BY DEF Position
  <2>1. m'.request = e.hop /\ e.hop = browser.hop
    BY <1>1, <1>3, <1>4, ResponseFits, HeadResponds DEF Steady, Loading
  <2>2. i <= ResponseCount(m) + n
    BY <1>1, <1>3, <1>4, ResponseFits
  <2>3. m'.requests[e.hop].response # "none"
    BY <1>1, <1>7, <2>1 DEF AnswersCome
  <2>4. g[i] < e.hop \/ g[i] = e.hop
    <3>1. g[i] \in Hop /\ g[i] <= browser.hop
      <4>1. g[i] \in Hop
        OBVIOUS
      <4> QED BY <1>4, <4>1 DEF Aligned, Increasing
    <3>2. g[i] \in Nat /\ e.hop \in Nat
      BY <1>7, <3>1, HopOrder
    <3> QED BY <2>1, <3>1, <3>2
  <2>5. HasAnswer(g[i])'
    BY <2>1, <2>3, <2>4 DEF HasAnswer
  <2> QED BY <1>13, <2>2, <2>5 DEF Advances
<1>15. m'.sent = m.sent \/ m'.sent = None
  <2>1. network' # network /\ \A other : TakesEvent(other) => other = "responseReceived"
    BY <1>1, TakesOne DEF Steady
  <2>2. ~TakesEvent("requestWillBeSent") /\ ~TakesEvent("loadingFinished") /\ ~TakesEvent("loadingFailed")
    BY <2>1
  <2> QED BY <1>1, <2>1, <2>2
           DEF ManagerStep, Bookkeeps, KeepsBoth, Hears, SeesPause, HearsEnd, HearsLate, StopsNow
<1>16. /\ SentCount(m') = SentCount(m) /\ ReceivedCount(m') = ReceivedCount(m)
       /\ EntryOf(m').cached = EntryOf(m).cached /\ EntryOf(m').over = EntryOf(m).over
  BY <1>13 DEF Advances
<1>17. Aligned(g)'
  <2>1. EntryOf(m').cached => FromCache
    BY <1>16 DEF FromCache
  <2> QED BY <1>1, <1>2, <1>4, <1>14, <1>15, <1>16, <2>1, AlignedStays DEF Steady
<1>18. OverIsEnd'
  BY <1>1, <1>16, EndStaysHandled DEF Tracking, Steady
<1> QED BY <1>12, <1>17, <1>18 DEF Tracking, Tracked

(* The tracker hears of the end before or after the last extra info.         *)
LEMMA EndTracks ==
  ASSUME Steady, Tracking, ReceiveLoadingFinished \/ ReceiveLoadingFailed
  PROVE  Tracking'
<1>1. Typed' /\ ManagerStep
  BY ReceiveEndStep DEF Steady
<1>2. /\ network # <<>> /\ network' = Tail(network)
      /\ Head(network).event \in Ending /\ extra' = extra /\ UNCHANGED <<kind, browser>>
  BY DEF ReceiveLoadingFinished, ReceiveLoadingFailed, ReceiveNetwork, NetworkIs, Ending
<1>3. PICK g \in Seq(Hop) : Tracked(g)
  BY DEF Tracking
<1>4. Sound(m, g) /\ Aligned(g)
  BY <1>2, <1>3 DEF Tracked, EndHandled
<1>5. m \in Manager /\ Listed(m)
  BY TypedParts DEF Steady, ManagerTyped
<1>6. ReceivedCount(m) <= SentCount(m)
  BY <1>4, <1>5, CountsType DEF Aligned, Extras
<1>7. m'.request = None /\ EndHandled'
  BY <1>1, <1>2, EndIsTaken DEF TakesEvent, Steady
<1>8. m.request = None /\ m.sent # None => m.requests[m.sent.hop].report = "new"
  BY SentHop DEF Steady, Reporting, WaitingOK
<1>9. PICK s \in Manager : Handled(s) /\ ((Sound(s, g) /\ SameLengths(m, s)) \/ Sound(s, <<>>))
  <2>1. CASE ReceiveLoadingFinished
    BY <1>4, <1>5, <1>6, <2>1, OnLoadingFinishedSound DEF ReceiveLoadingFinished, ReceiveNetwork
  <2>2. CASE ReceiveLoadingFailed
    BY <1>4, <1>5, <1>6, <1>8, <2>2, OnLoadingFailedSound DEF ReceiveLoadingFailed, ReceiveNetwork
  <2> QED BY <2>1, <2>2
<1>10. OverIsEnd'
  BY <1>7 DEF OverIsEnd
<1>11. CASE Sound(s, <<>>)
  <2>1. <<>> \in Seq(Hop)
    OBVIOUS
  <2>2. Sound(m', <<>>)
    BY <1>9, <1>11, <2>1, HandledSound
  <2>3. Tracked(<<>>)'
    BY <1>7, <2>2 DEF Tracked
  <2> QED BY <1>10, <2>1, <2>3 DEF Tracking
<1>12. CASE Sound(s, g) /\ SameLengths(m, s)
  <2>1. Sound(m', g) /\ EntryOf(m') = EntryOf(s)
    BY <1>9, <1>12, HandledSound
  <2>2. /\ SentCount(m') = SentCount(m) /\ ReceivedCount(m') = ReceivedCount(m)
        /\ EntryOf(m').cached = EntryOf(m).cached
    BY <1>12, <2>1 DEF SameLengths, SentCount, ReceivedCount
  <2>3. Position(g)'
    BY <1>7 DEF Position
  <2>4. m'.sent = m.sent \/ m'.sent = None
    <3>1. ~Hears
      <4>1. TakesEvent(Head(network).event)
        BY <1>2 DEF TakesEvent
      <4>2. \A other : TakesEvent(other) => other = Head(network).event
        BY <4>1, TakesOne DEF Steady
      <4>3. "requestWillBeSent" \notin Ending
        BY DEF Ending
      <4> QED BY <1>2, <4>2, <4>3 DEF Hears
    <3>2. ~SeesPause
      <4>1. network' # network
        BY <1>2, TakesOne DEF TakesEvent, Steady
      <4> QED BY <4>1 DEF SeesPause
    <3> QED BY <1>1, <3>1, <3>2
             DEF ManagerStep, Bookkeeps, KeepsBoth, HearsEnd, HearsLate, StopsNow
  <2>5. EntryOf(m').cached => FromCache
    BY <2>2 DEF FromCache
  <2>6. Head(network).event # "requestServedFromCache"
    BY <1>2 DEF Ending
  <2>7. Aligned(g)'
    BY <1>1, <1>2, <1>4, <2>2, <2>3, <2>4, <2>5, <2>6, AlignedStays DEF Steady
  <2> QED BY <1>10, <2>1, <2>7 DEF Tracking, Tracked
<1> QED BY <1>9, <1>11, <1>12

(* The extra info that arrives is that of the next place.                    *)
LEMMA ExtraFits ==
  ASSUME Typed, extra # <<>>, NEW g \in Seq(Hop), Extras(g), NEW e, e = Head(extra)
  PROVE  /\ e \in ExtraEvent
         /\ e.event = "sent" =>
              /\ SentCount(m) = ReceivedCount(m)
              /\ SentCount(m) + 1 \in DOMAIN g => g[SentCount(m) + 1] = e.hop
         /\ e.event = "received" =>
              /\ SentCount(m) = ReceivedCount(m) + 1
              /\ ReceivedCount(m) + 1 \in DOMAIN g => g[ReceivedCount(m) + 1] = e.hop
<1> DEFINE a == SentCount(m)
           b == ReceivedCount(m)
           n == Len(g)
           l == Len(extra)
<1>1. /\ a \in Nat /\ b \in Nat /\ l \in Nat /\ n \in Nat /\ DOMAIN g = 1..n
      /\ extra \in Seq(ExtraEvent) /\ Handed(m) = a + b
  BY HandedType DEF Handed
<1>2. e \in ExtraEvent /\ l # 0 /\ 1 \in DOMAIN extra /\ extra[1] = e
  BY <1>1, TailItems, TailType
<1>3. IsExtra(e, g, a + b + 1)
  BY <1>1, <1>2 DEF Extras
<1>4. a = b \/ a = b + 1
  BY DEF Extras
<1>5. a + b + l = 2 * n \/ a + b + l = 2 * n + 1
  BY <1>1 DEF Extras
<1> HIDE DEF a, b, n, l
<1>6. ASSUME a = b
      PROVE  e.event = "sent" /\ (a + 1 \in DOMAIN g => g[a + 1] = e.hop)
  <2>1. a + b + 1 = 2 * (a + 1) - 1 /\ a + b + 1 = 2 * a + 1
    BY <1>1, <1>6
  <2>2. CASE a + 1 \in DOMAIN g
    BY <1>3, <2>1, <2>2 DEF IsExtra
  <2>3. CASE a + 1 \notin DOMAIN g
    <3>1. a >= n
      BY <1>1, <2>3
    <3>2. a = n
      BY <1>1, <1>2, <1>5, <1>6, <3>1
    <3> QED BY <1>3, <2>1, <2>3, <3>2 DEF IsExtra, n
  <2> QED BY <2>2, <2>3
<1>7. ASSUME a = b + 1
      PROVE  e.event = "received" /\ (b + 1 \in DOMAIN g => g[b + 1] = e.hop)
  <2>1. a + b + 1 = 2 * (b + 1)
    BY <1>1, <1>7
  <2>2. b + 1 \in DOMAIN g
    <3>1. b + 1 <= n
      BY <1>1, <1>2, <1>5, <1>7
    <3> QED BY <1>1, <3>1
  <2> QED BY <1>3, <2>1, <2>2 DEF IsExtra
<1>8. a = b => a # b + 1
  BY <1>1
<1> QED BY <1>2, <1>4, <1>6, <1>7, <1>8 DEF a, b

LEMMA ExtrasTail ==
  ASSUME Typed, Typed', extra # <<>>, extra' = Tail(extra), UNCHANGED browser,
         NEW g \in Seq(Hop), Extras(g),
         \/ /\ SentCount(m) = ReceivedCount(m) /\ SentCount(m') = SentCount(m) + 1
            /\ ReceivedCount(m') = ReceivedCount(m)
         \/ /\ SentCount(m) = ReceivedCount(m) + 1 /\ SentCount(m') = SentCount(m)
            /\ ReceivedCount(m') = ReceivedCount(m) + 1
  PROVE  Extras(g)'
<1> DEFINE a == Handed(m)
           l == Len(extra)
<1>1. /\ a \in Nat /\ l \in Nat /\ SentCount(m) \in Nat /\ ReceivedCount(m) \in Nat
      /\ extra \in Seq(ExtraEvent)
  BY HandedType
<1>2. Handed(m') = a + 1
  BY <1>1 DEF Handed
<1>3. /\ l # 0 /\ DOMAIN extra = 1..l /\ Len(extra') = l - 1 /\ DOMAIN extra' = 1..(l - 1)
      /\ \A j \in DOMAIN extra' : extra'[j] = extra[j + 1]
  BY <1>1, TailItems
<1>4. \A j \in DOMAIN extra : IsExtra(extra[j], g, a + j)
  BY DEF Extras
<1>5. \/ a + l = 2 * Len(g)
      \/ browser.stage = "over" /\ a + l = 2 * Len(g) + 1
  BY DEF Extras
<1>6. SentCount(m') = ReceivedCount(m') \/ SentCount(m') = ReceivedCount(m') + 1
  BY <1>1
<1> HIDE DEF a, l
<1>7. ASSUME NEW j \in DOMAIN extra' PROVE IsExtra(extra'[j], g, Handed(m') + j)
  <2>1. j + 1 \in DOMAIN extra /\ Handed(m') + j = a + (j + 1)
    <3>1. j \in 1..(l - 1)
      BY <1>3
    <3>2. j \in Nat /\ j + 1 \in 1..l
      BY <1>1, <3>1
    <3>3. (a + 1) + j = a + (j + 1)
      BY <1>1, <3>2
    <3> QED BY <1>2, <1>3, <3>2, <3>3
  <2> QED BY <1>3, <1>4, <2>1
<1>8. Handed(m') + Len(extra') = a + l
  BY <1>1, <1>2, <1>3
<1> QED BY <1>5, <1>6, <1>7, <1>8 DEF Extras, IsExtra

LEMMA ExtraTracks ==
  ASSUME Steady, Tracking, ReceiveExtra
  PROVE  Tracking'
<1>1. Typed' /\ ManagerStep /\ AnswersGoOn
  BY ReceiveExtraStep, ExtraAnswers DEF Steady
<1>2. /\ extra # <<>> /\ extra' = Tail(extra) /\ UNCHANGED <<kind, browser, network>>
  BY DEF ReceiveExtra
<1>3. PICK g \in Seq(Hop) : Tracked(g)
  BY DEF Tracking
<1>4. m \in Manager /\ SentCount(m) \in Nat /\ ReceivedCount(m) \in Nat
  BY TypedParts, CountsType DEF Steady, ManagerTyped
<1> DEFINE e == Head(extra)
           s == IF e.event = "sent" THEN RequestWillBeSentExtraInfo(m, e.hop)
                ELSE ResponseReceivedExtraInfo(m, e.hop)
<1>5. Handled(s) /\ Sound(m, g)
  BY <1>3 DEF ReceiveExtra, Tracked
<1>6. e \in ExtraEvent /\ e.hop \in Hop /\ e.event \in {"sent", "received"}
  <2>1. extra \in Seq(ExtraEvent)
    BY TypedParts DEF Steady
  <2>2. e \in ExtraEvent
    BY <1>2, <2>1, TailType
  <2> QED BY <2>2 DEF ExtraEvent
<1>7. /\ s \in Manager /\ Untouched(m, s)
      /\ \/ /\ Sound(s, g) /\ ResponseCount(s) = ResponseCount(m)
            /\ EntryOf(s).cached = EntryOf(m).cached /\ EntryOf(s).over = EntryOf(m).over
            /\ Aligned(g) =>
               \/ /\ SentCount(m) = ReceivedCount(m) /\ SentCount(s) = SentCount(m) + 1
                  /\ ReceivedCount(s) = ReceivedCount(m)
               \/ /\ SentCount(m) = ReceivedCount(m) + 1 /\ SentCount(s) = SentCount(m)
                  /\ ReceivedCount(s) = ReceivedCount(m) + 1
         \/ Sound(s, <<>>) /\ Gone(m, s)
  <2>1. Aligned(g) =>
          /\ e.event = "sent" =>
               /\ SentCount(m) = ReceivedCount(m)
               /\ SentCount(m) + 1 \in DOMAIN g => g[SentCount(m) + 1] = e.hop
          /\ e.event = "received" =>
               /\ SentCount(m) = ReceivedCount(m) + 1
               /\ ReceivedCount(m) + 1 \in DOMAIN g => g[ReceivedCount(m) + 1] = e.hop
    BY <1>2, ExtraFits DEF Aligned, Steady
  <2>2. Aligned(g) \/ g = <<>>
    BY <1>3 DEF Tracked
  <2>3. g = <<>> => DOMAIN g = {}
    OBVIOUS
  <2>4. CASE e.event = "sent"
    <3>1. SentCount(m) + 1 \in DOMAIN g => g[SentCount(m) + 1] = e.hop
      BY <2>1, <2>2, <2>3, <2>4
    <3>2. ReceivedCount(m) <= SentCount(m) + 1 \/ g = <<>>
      BY <1>4, <2>1, <2>2, <2>4
    <3> HIDE DEF e
    <3>3. s = RequestWillBeSentExtraInfo(m, e.hop)
      BY <2>4
    <3> QED BY <1>4, <1>5, <1>6, <2>1, <2>4, <3>1, <3>2, <3>3, SentExtraSound
  <2>5. CASE e.event = "received"
    <3>1. ReceivedCount(m) + 1 \in DOMAIN g => g[ReceivedCount(m) + 1] = e.hop
      BY <2>1, <2>2, <2>3, <2>5
    <3>2. ReceivedCount(m) + 1 <= SentCount(m) \/ g = <<>>
      BY <1>4, <2>1, <2>2, <2>5
    <3> HIDE DEF e
    <3>3. s = ResponseReceivedExtraInfo(m, e.hop)
      BY <2>5
    <3> QED BY <1>4, <1>5, <1>6, <2>1, <2>5, <3>1, <3>2, <3>3, ReceivedExtraSound
  <2> QED BY <1>6, <2>4, <2>5
<1> HIDE DEF s
<1>8. m'.request = m.request /\ m'.sent = m.sent /\ EntryOf(m') = EntryOf(s)
  <2>1. m'.tracker = s.tracker /\ m'.sent = s.sent /\ m'.request = s.request
    BY <1>5, <1>7 DEF Handled, Manager
  <2> QED BY <1>7, <2>1 DEF Untouched, SameButAnswers, EntryOf
<1>9. CASE Sound(s, <<>>) /\ Gone(m, s)
  <2>1. <<>> \in Seq(Hop)
    OBVIOUS
  <2>2. Sound(m', <<>>)
    BY <1>5, <1>7, <1>9, <2>1, HandledSound
  <2>3. EndHandled'
    BY <1>1, <1>9, EndStaysHandled DEF Gone, Tracking, OverIsEnd, Steady
  <2>4. Tracked(<<>>)' /\ OverIsEnd'
    BY <2>2, <2>3 DEF Tracked, OverIsEnd
  <2> QED BY <2>1, <2>4 DEF Tracking
<1>10. ASSUME Sound(s, g), ResponseCount(s) = ResponseCount(m),
              EntryOf(s).cached = EntryOf(m).cached, EntryOf(s).over = EntryOf(m).over,
              Aligned(g) =>
               \/ /\ SentCount(m) = ReceivedCount(m) /\ SentCount(s) = SentCount(m) + 1
                  /\ ReceivedCount(s) = ReceivedCount(m)
               \/ /\ SentCount(m) = ReceivedCount(m) + 1 /\ SentCount(s) = SentCount(m)
                  /\ ReceivedCount(s) = ReceivedCount(m) + 1
       PROVE  Tracking'
  <2>1. Sound(m', g)
    BY <1>5, <1>7, <1>10, HandledSound
  <2>2. OverIsEnd'
    BY <1>1, <1>8, <1>10, EndStaysHandled DEF Tracking, Steady
  <2>3. CASE EndHandled /\ g = <<>>
    BY <1>1, <2>1, <2>2, <2>3, EndStaysHandled DEF Tracking, Tracked, Steady
  <2>4. CASE Aligned(g)
    <3>1. /\ SentCount(m') = SentCount(s) /\ ReceivedCount(m') = ReceivedCount(s)
          /\ ResponseCount(m') = ResponseCount(m)
          /\ EntryOf(m').cached = EntryOf(m).cached
      BY <1>8, <1>10 DEF SentCount, ReceivedCount, ResponseCount
    <3>2. Extras(g)'
      BY <1>1, <1>2, <1>10, <2>4, <3>1, ExtrasTail DEF Aligned, Steady
    <3>3. Position(g)'
      BY <1>1, <1>8, <2>4, <3>1, PositionStays DEF Aligned, Steady
    <3>4. Increasing(g)' /\ OfKind(g)'
      BY <1>2, <2>4 DEF Aligned, Increasing, OfKind
    <3>5. Sources(g)' /\ Caching(g)'
      <4>1. \A i : CachedBefore(i)' <=> CachedBefore(i)
        BY <1>2, <3>1 DEF CachedBefore
      <4>2. FromCache' <=> FromCache
        BY <1>2, <3>1 DEF FromCache
      <4> QED BY <1>2, <1>8, <2>4, <4>1, <4>2 DEF Aligned, Sources, SourceOf, Caching
    <3>6. Aligned(g)'
      BY <3>2, <3>3, <3>4, <3>5 DEF Aligned
    <3> QED BY <2>1, <2>2, <3>6 DEF Tracking, Tracked
  <2> QED BY <1>3, <2>3, <2>4 DEF Tracked
<1> QED BY <1>7, <1>9, <1>10

(* What changes neither the tracker nor an answer keeps to the sources.      *)
LEMMA CalmTracks ==
  ASSUME Steady, Tracking, Typed', ManagerStep, AnswersGoOn, NEW s \in Manager, Calm(m, s),
         \/ Handled(s)
         \/ m' = s,
         s.request = m.request, s.sent = m.sent, UNCHANGED <<kind, browser, network, extra>>
  PROVE  Tracking'
<1>1. m \in Manager
  BY TypedParts DEF Steady, ManagerTyped
<1>2. PICK g \in Seq(Hop) : Tracked(g)
  BY DEF Tracking
<1>3. Sound(s, g) /\ EntryOf(s) = EntryOf(m)
  BY <1>1, <1>2, CalmSound DEF Tracked
<1>4. Sound(m', g) /\ EntryOf(m') = EntryOf(m) /\ m'.request = m.request /\ m'.sent = m.sent
  <2>1. CASE Handled(s)
    <3>1. m'.request = s.request /\ m'.sent = s.sent
      BY <2>1 DEF Handled, Manager
    <3> QED BY <1>3, <2>1, <3>1, HandledSound
  <2>2. CASE m' = s
    BY <1>3, <2>2
  <2> QED BY <2>1, <2>2
<1>5. /\ SentCount(m') = SentCount(m) /\ ReceivedCount(m') = ReceivedCount(m)
      /\ ResponseCount(m') = ResponseCount(m)
      /\ EntryOf(m').cached = EntryOf(m).cached /\ EntryOf(m').over = EntryOf(m).over
  BY <1>4 DEF SentCount, ReceivedCount, ResponseCount
<1>6. OverIsEnd'
  BY <1>5, EndStaysHandled DEF Tracking, Steady
<1>7. CASE EndHandled /\ g = <<>>
  BY <1>4, <1>6, <1>7, EndStaysHandled DEF Tracking, Tracked, Steady
<1>8. CASE Aligned(g)
  <2>1. Position(g)'
    BY <1>4, <1>5, <1>8, PositionStays DEF Aligned, Steady
  <2>2. EntryOf(m').cached => FromCache
    BY <1>5 DEF FromCache
  <2>3. Aligned(g)'
    BY <1>4, <1>5, <1>8, <2>1, <2>2, AlignedStays DEF Steady
  <2> QED BY <1>4, <1>6, <2>3 DEF Tracking, Tracked
<1> QED BY <1>2, <1>7, <1>8 DEF Tracked

LEMMA UpdateIsCalm ==
  ASSUME NEW s \in Manager
  PROVE  LET t == UpdateProtocolRequestInterception(s)
         IN /\ t \in Manager /\ t.tracker = s.tracker /\ t.requests = s.requests
            /\ t.request = s.request /\ t.sent = s.sent
<1> DEFINE enabled == s.user \/ s.credentials
           method == IF enabled THEN "enable" ELSE "disable"
           u == Send(s, method, None)
<1>1. enabled \in BOOLEAN
  BY DEF Manager
<1>2. [method |-> method, pause |-> None] \in Command
  BY DEF Command
<1>3. /\ u \in Manager /\ u.tracker = s.tracker /\ u.requests = s.requests
      /\ u.request = s.request /\ u.sent = s.sent
  BY <1>2, SendKeeps
<1> HIDE DEF enabled, u
<1> DEFINE t == [u EXCEPT !.protocol = enabled]
<1>4. /\ t \in Manager /\ t.tracker = s.tracker /\ t.requests = s.requests
      /\ t.request = s.request /\ t.sent = s.sent
  BY <1>1, <1>3 DEF Manager
<1>5. UpdateProtocolRequestInterception(s) = IF enabled = s.protocol THEN s ELSE t
  BY DEF UpdateProtocolRequestInterception, enabled, u
<1> HIDE DEF t
<1> QED BY <1>4, <1>5

LEMMA ChangeIsCalm ==
  ASSUME Typed, ChangeInterception
  PROVE  \E s \in Manager : /\ Handled(s) /\ s.tracker = m.tracker /\ s.requests = m.requests
                            /\ s.request = m.request /\ s.sent = m.sent
<1>1. m \in Manager
  BY TypedParts DEF ManagerTyped
<1> DEFINE Same(s) == /\ s \in Manager /\ s.tracker = m.tracker /\ s.requests = m.requests
                      /\ s.request = m.request /\ s.sent = m.sent
<1>2. ASSUME NEW s, Same(s) PROVE Same(UpdateProtocolRequestInterception(s))
  BY <1>2, UpdateIsCalm
<1>3. /\ Same([m EXCEPT !.needs = TRUE, !.user = TRUE]) /\ Same([m EXCEPT !.needs = FALSE])
      /\ Same([m EXCEPT !.user = m.needs]) /\ Same([m EXCEPT !.credentials = ~@])
  BY <1>1 DEF Manager
<1>4. \E s : Same(s) /\ Handled(s)
  <2> HIDE DEF Same
  <2> QED BY <1>2, <1>3 DEF ChangeInterception, AddRequestInterceptor, RemoveRequestInterceptor,
                            SetRequestInterception, Authenticate
<1> QED BY <1>4

LEMMA RouteIsCalm ==
  ASSUME Typed, AnswerAnyRoute
  PROVE  \E s \in Manager : Handled(s) /\ Calm(m, s) /\ s.request = m.request /\ s.sent = m.sent
<1>1. PICK h \in Hop, state \in {"continued", "fulfilled", "aborted"},
           method \in {"continue", "fulfill", "fail"} : AnswerRoute(h, state, method)
  BY DEF AnswerAnyRoute, RouteContinue, RouteFulfill, RouteAbort
<1> DEFINE r == [m.requests[h] EXCEPT !.route = state]
           f == [m.requests EXCEPT ![h] = r]
           t == [m EXCEPT !.requests = f]
           p == m.requests[h].interception
           u == Send(t, method, p)
<1>2. m \in Manager /\ m.requests \in [Hop -> Request]
  BY TypedParts DEF ManagerTyped, Manager
<1>3. p \in Pause
  BY <1>1, TypedParts DEF ManagerTyped, RoutesHold, AnswerRoute
<1>4. /\ r \in Request /\ r.report = m.requests[h].report /\ r.failed = m.requests[h].failed
      /\ r.response = m.requests[h].response /\ r.rawRequest = m.requests[h].rawRequest
      /\ r.rawResponse = m.requests[h].rawResponse
  <2>1. m.requests[h] \in Request
    BY <1>2
  <2> QED BY <2>1 DEF Request
<1>5. /\ t \in Manager /\ t.tracker = m.tracker /\ t.request = m.request /\ t.sent = m.sent
      /\ \A k \in Hop : t.requests[k] = IF k = h THEN r ELSE m.requests[k]
  <2> HIDE DEF r
  <2>1. f \in [Hop -> Request] /\ \A k \in Hop : f[k] = IF k = h THEN r ELSE m.requests[k]
    BY <1>2, <1>4
  <2> HIDE DEF f
  <2> QED BY <1>2, <2>1 DEF Manager
<1>6. Handled(u)
  <2>1. t = [m EXCEPT !.requests[h].route = state]
    BY <1>2 DEF Manager
  <2> QED BY <1>1, <2>1 DEF AnswerRoute
<1> HIDE DEF t, r
<1>7. [method |-> method, pause |-> p] \in Command
  BY <1>3 DEF Command
<1>8. /\ u \in Manager /\ u.tracker = t.tracker /\ u.requests = t.requests
      /\ u.request = t.request /\ u.sent = t.sent
  BY <1>5, <1>7, SendKeeps
<1> HIDE DEF u
<1>9. Calm(m, u)
  BY <1>4, <1>5, <1>8 DEF Calm, SameHeaders
<1> QED BY <1>5, <1>6, <1>8, <1>9

LEMMA OtherTracks ==
  ASSUME Steady, Tracking, \/ ChangeInterception \/ AnswerAnyRoute \/ DetachFrame \/ UNCHANGED vars
  PROVE  Tracking'
<1>1. Typed' /\ ManagerStep
  BY ChangeStep, AnswerAnyRouteStep, DetachFrameStep, StutterStep DEF Steady
<1>2. UNCHANGED <<kind, browser, network, extra>>
  BY DEF ChangeInterception, AddRequestInterceptor, RemoveRequestInterceptor, SetRequestInterception,
         Authenticate, AnswerAnyRoute, RouteContinue, RouteFulfill, RouteAbort, AnswerRoute,
         DetachFrame, vars, channels
<1>3. AnswersGoOn
  BY <1>2, OtherAnswers, NetworkKept DEF AnswersStep, Steady
<1>4. m \in Manager
  BY TypedParts DEF Steady, ManagerTyped
<1>5. CASE ChangeInterception
  <2>1. PICK s \in Manager : /\ Handled(s) /\ s.tracker = m.tracker /\ s.requests = m.requests
                             /\ s.request = m.request /\ s.sent = m.sent
    BY <1>5, ChangeIsCalm DEF Steady
  <2>2. Calm(m, s)
    BY <2>1, SameIsCalm
  <2> QED BY <1>1, <1>2, <1>3, <2>1, <2>2, CalmTracks
<1>6. CASE AnswerAnyRoute
  <2>1. PICK s \in Manager : Handled(s) /\ Calm(m, s) /\ s.request = m.request /\ s.sent = m.sent
    BY <1>6, RouteIsCalm DEF Steady
  <2> QED BY <1>1, <1>2, <1>3, <2>1, CalmTracks
<1>7. CASE DetachFrame \/ UNCHANGED vars
  <2>1. m' = m
    BY <1>7 DEF DetachFrame, vars
  <2>2. Calm(m, m)
    BY SameIsCalm
  <2> QED BY <1>1, <1>2, <1>3, <1>4, <2>1, <2>2, CalmTracks
<1> QED BY <1>5, <1>6, <1>7

LEMMA SeesPauseTracks ==
  ASSUME Steady, Tracking, ReceiveFetch
  PROVE  Tracking'
<1>1. Typed' /\ ManagerStep /\ AnswersGoOn
  BY ReceiveFetchStep, SeesPauseAnswers DEF Steady
<1>2. fetch # <<>> /\ UNCHANGED <<kind, browser, network, extra>>
  BY DEF ReceiveFetch
<1>3. m \in Manager /\ Listed(m)
  BY TypedParts DEF Steady, ManagerTyped
<1> DEFINE pause == Head(fetch).pause
           t == OnRequestPaused(m, pause)
           u == OnAuthRequired(m, pause)
<1>4. pause \in Pause /\ Head(fetch) \in FetchEvent
  <2>1. fetch \in Seq(FetchEvent)
    BY TypedParts DEF Steady
  <2>2. Head(fetch) \in FetchEvent
    BY <1>2, <2>1, TailType
  <2> QED BY <2>2 DEF FetchEvent
<1>5. Handled(IF Head(fetch).event = "paused" THEN t ELSE u)
  BY DEF ReceiveFetch
<1>6. CASE Head(fetch).event # "paused"
  <2>1. Handled(u)
    BY <1>5, <1>6
  <2> HIDE DEF pause
  <2>2. u \in Manager /\ Calm(m, u) /\ u.request = m.request /\ u.sent = m.sent
    <3>1. u \in Manager /\ u.request = m.request /\ u.sent = m.sent
      BY <1>3, <1>4, OnAuthRequiredEffect DEF Effect, SameReports
    <3> DEFINE v(method) == Send(m, method, pause)
               w == [v("credentials") EXCEPT !.attempted = @ \cup {pause}]
    <3>2. ASSUME NEW method \in {"credentials", "cancelAuth", "default"}
          PROVE  /\ v(method) \in Manager /\ v(method).tracker = m.tracker
                 /\ v(method).requests = m.requests
      <4>1. [method |-> method, pause |-> pause] \in Command
        BY <1>4 DEF Command
      <4> QED BY <1>3, <4>1, SendKeeps
    <3>3. w.tracker = m.tracker /\ w.requests = m.requests
      <4> HIDE DEF v
      <4>1. v("credentials") \in Manager /\ v("credentials").tracker = m.tracker
            /\ v("credentials").requests = m.requests
        BY <3>2
      <4> QED BY <4>1 DEF Manager
    <3>4. u \in {v("cancelAuth"), w, v("default")}
      BY DEF OnAuthRequired
    <3> HIDE DEF u, v, w
    <3>5. u.tracker = m.tracker /\ u.requests = m.requests
      BY <3>2, <3>3, <3>4
    <3> QED BY <3>1, <3>5, SameIsCalm
  <2> HIDE DEF u
  <2> QED BY <1>1, <1>2, <2>1, <2>2, CalmTracks
<1>7. CASE Head(fetch).event = "paused"
  <2>1. Handled(t) /\ Head(fetch) = PausedEvent(pause)
    BY <1>4, <1>5, <1>7 DEF FetchEvent, PausedEvent
  <2>2. PICK g \in Seq(Hop) : Tracked(g)
    BY DEF Tracking
  <2>3. SeesPause
    <3>1. fetch' # fetch
      <4>1. fetch \in Seq(FetchEvent) /\ fetch' = Tail(fetch)
        BY TypedParts DEF Steady, ReceiveFetch
      <4>2. Len(Tail(fetch)) # Len(fetch)
        BY <1>2, <4>1, TailItems
      <4> QED BY <4>1, <4>2
    <3>2. ~Bookkeeps
      BY <1>7, <3>1 DEF Bookkeeps
    <3> QED BY <1>1, <3>1, <3>2 DEF ManagerStep, Hears, HearsLate, HearsEnd
  <2>4. kind # "viaWorker"
    BY <2>3, PauseNeedsNoWorker DEF Steady
  <2>5. m.sent # None => m.sent \in Sent /\ m.sent.hop \in Hop /\ BeginsNext(m.sent.hop)
    <3>1. m.sent # None => m.sent \in Sent
      BY <1>3 DEF Manager
    <3> QED BY <2>4, <3>1, KeptIsFirst
  <2>6. /\ m.sent # None /\ Aligned(g) /\ m.sent.hop > 0 =>
             (m.sent.redirected <=> Among(m.sent.hop - 1, g))
    BY DEF Aligned, Sources
  <2>7. m.sent # None => m.requests[m.sent.hop].report = "new" /\ Redirectable(m, m.sent, g)
    BY <2>2, <2>5, <2>6, RedirectableNow
  <2> HIDE DEF pause
  <2>8. /\ t \in Manager /\ Sound(t, g)
        /\ Advances(m, t, IF kind # "foreign" /\ m.sent # None THEN Responses(m, m.sent) ELSE 0)
    BY <1>3, <1>4, <2>2, <2>7, OnRequestPausedSound DEF Tracked
  <2> HIDE DEF t
  <2>9. Sound(m', g) /\ EntryOf(m') = EntryOf(t)
    BY <2>1, <2>8, HandledSound
  <2>10. Advances(m, m', IF kind # "foreign" /\ m.sent # None THEN Responses(m, m.sent) ELSE 0)
    BY <2>8, <2>9 DEF Advances, SentCount, ReceivedCount, ResponseCount
  <2>11. OverIsEnd'
    BY <1>1, <2>10, EndStaysHandled DEF Tracking, Steady, Advances
  <2>12. CASE EndHandled /\ g = <<>>
    BY <1>1, <2>9, <2>11, <2>12, EndStaysHandled DEF Tracking, Tracked, Steady
  <2>13. CASE Aligned(g)
    <3>1. kind = "foreign" => m.sent = None
      BY DEF Steady, Structure, ByKind
    <3>2. Position(g)'
      <4>1. CASE m.sent = None
        <5>1. m'.request = m.request
          BY <2>3, <4>1 DEF SeesPause, SameReports
        <5>2. ResponseCount(m') = ResponseCount(m)
          BY <1>3, <2>10, <4>1, CountsType DEF Advances
        <5> QED BY <1>1, <2>13, <5>1, <5>2, PositionStays DEF Aligned, Steady
      <4>2. CASE m.sent # None
        <5>1. /\ Begins(m, m', m.sent.hop) \/ Skips(m, m', m.sent.hop)
              /\ ~frame /\ kind # "preflight" => Skips(m, m', m.sent.hop)
          BY <2>3, <3>1, <4>2 DEF SeesPause
        <5>2. ResponseCount(m') = ResponseCount(m) + Responses(m, m.sent)
          BY <2>10, <3>1, <4>2 DEF Advances
        <5> QED BY <1>1, <2>2, <2>5, <2>6, <2>13, <4>2, <5>1, <5>2, BeginsPosition
      <4> QED BY <4>1, <4>2
    <3>3. m'.sent = m.sent \/ m'.sent = None
      BY <2>3 DEF SeesPause, KeepsBoth
    <3>4. /\ SentCount(m') = SentCount(m) /\ ReceivedCount(m') = ReceivedCount(m)
          /\ EntryOf(m').cached = EntryOf(m).cached
      BY <2>10 DEF Advances
    <3>5. EntryOf(m').cached => FromCache
      BY <3>4 DEF FromCache
    <3>6. Aligned(g)'
      BY <1>1, <1>2, <2>13, <3>2, <3>3, <3>4, <3>5, AlignedStays DEF Steady
    <3> QED BY <2>9, <2>11, <3>6 DEF Tracking, Tracked
  <2> QED BY <2>2, <2>12, <2>13 DEF Tracked
<1> QED BY <1>6, <1>7

(***************************************************************************)
(* No request gets what belongs to another one, and none waits in vain.     *)
(***************************************************************************)
TInv == LInv /\ (Disturbed \/ (Chained /\ Tracking))

LEMMA TrackingInit == Init => TInv
<1> SUFFICES ASSUME Init PROVE TInv
  OBVIOUS
<1>1. LInv /\ Typed
  BY LoadingInit, InitHolds
<1>2. /\ m.sent = None /\ m.request = None /\ m.requests = [h \in Hop |-> NoRequest]
      /\ m.tracker = None /\ browser.stage = "none" /\ browser.hop = 0
      /\ network = <<>> /\ extra = <<>>
  BY DEF Init
<1>3. \A h \in Hop : m.requests[h] = NoRequest
  BY <1>2
<1>4. EntryOf(m) = NewEntry
  BY <1>2 DEF EntryOf
<1>5. /\ \A h : ~Announced(h)
      /\ \A i \in DOMAIN network : FALSE
  BY <1>2 DEF Announced, AnnouncedIn
<1>6. Chained
  <2>1. AnnouncedOn /\ RespondsOnce(network)
    BY <1>5 DEF AnnouncedOn, RespondsOnce
  <2>2. Follows /\ LiveUnanswered /\ NoneLive
    BY <1>2, <1>3 DEF Follows, LiveUnanswered, NoneLive, NoRequest
  <2> QED BY <2>1, <2>2 DEF Chained
<1> DEFINE g == <<>>
<1>7. g \in Seq(Hop) /\ Len(g) = 0 /\ DOMAIN g = {}
  OBVIOUS
<1>8. /\ NewEntry.responses = <<>> /\ NewEntry.sentExtra = <<>> /\ NewEntry.receivedExtra = <<>>
      /\ ~NewEntry.over /\ ~NewEntry.cached
  BY DEF NewEntry
<1>9. SentCount(m) = 0 /\ ReceivedCount(m) = 0
  BY <1>4, <1>8 DEF SentCount, ReceivedCount
<1> HIDE DEF g
<1>10. Sound(m, g)
  <2>1. Own(m) /\ Blamed(m) /\ Awaited(m, NewEntry)
    BY <1>3 DEF Own, Blamed, Awaited, NoRequest
  <2>2. Begun(m, NewEntry) /\ Matched(NewEntry, g)
    BY <1>7, <1>8 DEF Begun, Matched, Fit
  <2>3. \A i \in Nat \ {} : SentDone(m, NewEntry, i) /\ ReceivedDone(m, NewEntry, i)
    BY <1>8 DEF SentDone, ReceivedDone
  <2> QED BY <1>4, <2>1, <2>2, <2>3 DEF Sound, SoundBut, Straight
<1>11. Aligned(g)
  <2>1. Increasing(g) /\ OfKind(g)
    BY <1>2, <1>7 DEF Increasing, OfKind, g
  <2>2. Extras(g)
    <3>1. Len(extra) = 0 /\ \A j \in DOMAIN extra : FALSE
      BY <1>2
    <3>2. Handed(m) = 0
      BY <1>9 DEF Handed
    <3> QED BY <1>7, <1>9, <3>1, <3>2 DEF Extras
  <2>3. Position(g) /\ Sources(g)
    BY <1>2, <1>5 DEF Position, Sources
  <2>4. Caching(g)
    BY <1>4, <1>5, <1>8 DEF Caching, FromCache
  <2> QED BY <2>1, <2>2, <2>3, <2>4 DEF Aligned
<1>12. Tracking
  BY <1>4, <1>7, <1>8, <1>10, <1>11 DEF Tracking, Tracked, OverIsEnd
<1> QED BY <1>1, <1>6, <1>12 DEF TInv

LEMMA TrackingKept == TInv /\ [Next]_vars => TInv'
<1> SUFFICES ASSUME TInv, [Next]_vars PROVE TInv'
  OBVIOUS
<1>1. /\ Typed /\ Structure /\ (Disturbed \/ Ordered) /\ Loading /\ (Disturbed \/ Reporting)
      /\ Disturbed \/ (Chained /\ Tracking)
  BY DEF TInv, LInv, IInv, Typed, Structure
<1>2. LInv'
  BY LoadingKept DEF TInv
<1>3. Typed' /\ Structure'
  BY <1>2 DEF LInv, IInv, Typed, Structure
<1>4. (BrowserStep /\ LoadStep) \/ (ManagerStep /\ AnswersStep)
  BY <1>1, StepsAreTold DEF Loading
<1>5. ASSUME ~Disturbed' PROVE Chained' /\ Tracking'
  <2>1. ~Disturbed
    BY <1>1, <1>4, <1>5, BrowserDisturbs, ManagerDisturbs
  <2>2. Steady /\ Tracking
    BY <1>1, <2>1 DEF Steady
  <2>3. Chained'
    BY <1>1, <1>3, <1>4, <2>1, BrowserChained, ManagerChained
  <2>4. CASE Begin \/ Decide \/ Progress \/ Cancel \/ ReceiveCommand
    BY <1>1, <2>1, <2>3, <2>4, BrowserTracks
  <2>5. CASE Receive
    BY <2>2, <2>3, <2>5, HearsTracks, CachedTracks, ResponseTracks, EndTracks DEF Receive
  <2>6. CASE ReceiveExtra
    BY <2>2, <2>3, <2>6, ExtraTracks
  <2>7. CASE ReceiveFetch
    BY <2>2, <2>3, <2>7, SeesPauseTracks
  <2>8. CASE ChangeInterception \/ AnswerAnyRoute \/ DetachFrame \/ UNCHANGED vars
    BY <2>2, <2>3, <2>8, OtherTracks
  <2> QED BY <2>4, <2>5, <2>6, <2>7, <2>8 DEF Next
<1> QED BY <1>2, <1>5 DEF TInv

(* Once all extra info is there, each listed response has used up its own.   *)
LEMMA TrackedIsSettled ==
  ASSUME Typed, Quiet, NEW g \in Seq(Hop), Tracked(g), NEW h \in Hop,
         m.requests[h].response # "none"
  PROVE  Settled(m.requests[h])
<1> DEFINE e == EntryOf(m)
<1>1. e \in Entry
  BY EntryOfType, TypedParts DEF ManagerTyped
<1>2. /\ Settled(m.requests[h]) \/ Among(h, e.responses)
      /\ Len(e.responses) <= Len(g)
      /\ \A i \in Nat : SentDone(m, e, i) /\ ReceivedDone(m, e, i)
  BY DEF Tracked, Sound, SoundBut, Straight, Awaited, Matched
<1> SUFFICES ASSUME Among(h, e.responses) PROVE Settled(m.requests[h])
  BY <1>2
<1>3. PICK i \in DOMAIN e.responses : e.responses[i] = h
  BY DEF Among
<1>4. /\ e.responses \in Seq(Hop) /\ e.sentExtra \in Seq(Hop \cup {None})
      /\ e.receivedExtra \in Seq(Hop \cup {None})
  BY <1>1 DEF Entry
<1>5. /\ i \in Nat /\ i # 0 /\ i <= Len(g) /\ Len(g) \in Nat
  <2>1. DOMAIN e.responses = 1..Len(e.responses) /\ Len(e.responses) \in Nat /\ Len(g) \in Nat
    BY <1>4
  <2> QED BY <1>2, <2>1
<1>6. SentCount(m) >= Len(g) /\ ReceivedCount(m) >= Len(g)
  <2>1. g # <<>>
    BY <1>5
  <2>2. Extras(g)
    BY <2>1 DEF Tracked, Aligned
  <2>3. SentCount(m) \in Nat /\ ReceivedCount(m) \in Nat /\ Len(extra) = 0
    BY HandedType DEF Quiet
  <2>4. SentCount(m) = ReceivedCount(m) \/ SentCount(m) = ReceivedCount(m) + 1
    BY <2>2 DEF Extras
  <2>5. \/ SentCount(m) + ReceivedCount(m) = 2 * Len(g)
        \/ SentCount(m) + ReceivedCount(m) = 2 * Len(g) + 1
    BY <2>2, <2>3 DEF Extras, Handed
  <2> QED BY <1>5, <2>3, <2>4, <2>5
<1>7. i \in DOMAIN e.sentExtra /\ i \in DOMAIN e.receivedExtra
  <2>1. /\ DOMAIN e.sentExtra = 1..SentCount(m) /\ SentCount(m) \in Nat
        /\ DOMAIN e.receivedExtra = 1..ReceivedCount(m) /\ ReceivedCount(m) \in Nat
    BY <1>4 DEF SentCount, ReceivedCount
  <2> QED BY <1>5, <1>6, <2>1
<1> HIDE DEF e
<1> QED BY <1>2, <1>3, <1>5, <1>7 DEF SentDone, ReceivedDone, Settled

LEMMA TrackedIsOwn == TInv => AnswersAreOwn
<1> SUFFICES ASSUME TInv, ~Disturbed PROVE AnswersAreOwn
  BY DEF AnswersAreOwn
<1>1. Typed /\ Tracking
  BY DEF TInv, LInv, IInv, Typed, Structure
<1>2. PICK g \in Seq(Hop) : Tracked(g)
  BY <1>1 DEF Tracking
<1>3. Own(m) /\ Blamed(m)
  BY <1>2 DEF Tracked, Sound, SoundBut, Straight
<1>4. ASSUME NEW h \in Hop, Quiet, m.requests[h].response # "none"
      PROVE  m.requests[h].rawRequest # "pending" /\ m.requests[h].rawResponse # "pending"
  BY <1>1, <1>2, <1>4, TrackedIsSettled DEF Settled
<1> QED BY <1>3, <1>4 DEF AnswersAreOwn, Own, Blamed

(* Whatever the order in which the Network, extra-info and Fetch events of a *)
(* load arrive, however often it is redirected, paused and challenged, no    *)
(* request gets the response or the headers of another one of its chain, and *)
(* when all events have been handled the headers of a request that failed or *)
(* has a response are there: until interception is switched while a request  *)
(* begins, _patchHeaders never pairs a response with the extra info of       *)
(* another one and never leaves one that listens for it without.            *)
THEOREM AnswersOwn == Spec => []AnswersAreOwn
<1>1. Init => TInv
  BY TrackingInit
<1>2. TInv /\ [Next]_vars => TInv'
  BY TrackingKept
<1>3. TInv => AnswersAreOwn
  BY TrackedIsOwn
<1> QED BY <1>1, <1>2, <1>3, PTL DEF Spec

=============================================================================
