----------------------------- MODULE FrameProofs -----------------------------
(***************************************************************************)
(* Proofs about FrameManager, for any number of frames, requests and       *)
(* documents: type correctness, the assertion in _startNetworkIdleTimer,   *)
(* and the soundness of every "networkidle" that is announced.  Then about *)
(* FrameNavigation, for any number of calls: what is proved of the frame   *)
(* manager holds under its calls, and no call misses its navigation or     *)
(* mistakes another one for it.                                            *)
(***************************************************************************)
EXTENDS FrameNavigation, TLAPS

USE MainFrameAssumption, ExcludedAssumption, EventAssumption, NoneAssumption

(* The initial state of the page has the right types.                      *)
LEMMA InitTypeOK == Init => TypeOK
BY DEF Init, TypeOK, DocumentInfo, NoRequest, Lifecycle

(* _recalculateNetworkIdle only ever adds or removes one lifecycle event.   *)
LEMMA RecalculatedType ==
  ASSUME NEW events \in [Frame -> SUBSET Lifecycle], NEW idle, NEW tree, NEW up
  PROVE  Recalculated(events, idle, tree, up) \in [Frame -> SUBSET Lifecycle]
BY DEF Recalculated, Lifecycle

(* What the helpers of the handlers assign has the right types.             *)
LEMMA HelperTypes ==
  ASSUME TypeOK
  PROVE  /\ \A S : /\ StoppedTimer(S) \in [Frame -> {"none", "armed", "elapsed"}]
                   /\ StoppedIdleSelf(S) \in [Frame -> BOOLEAN]
         /\ \A f \in Frame : Started(f) \in {"none", "armed"}
         /\ \A f \in Frame, d \in Document : CommittedDocument(f, d) \in DocumentInfo
BY DEF TypeOK, StoppedTimer, StoppedIdleSelf, Started, CommittedDocument,
       IsPendingDocument, DocumentInfo

LEMMA RemovedType ==
  ASSUME TypeOK, NEW gone, Removed(gone)
  PROVE  /\ scope' \in [Frame -> {"new", "open", "closed"}]
         /\ chain' \in [Frame -> SUBSET Frame]
BY DEF TypeOK, Removed

(* Every callback of FrameManager and every timer keeps the types.          *)
LEMMA NextTypeOK == TypeOK /\ [Next]_vars => TypeOK'
<1> SUFFICES ASSUME TypeOK, [Next]_vars PROVE TypeOK'
  OBVIOUS
<1> USE DEF treeVars, idleVars, docVars
<1>1. ASSUME NEW f \in Frame, NEW parent \in Frame, FrameAttached(f, parent) PROVE TypeOK'
  BY <1>1 DEF TypeOK, FrameAttached, Attached, Lifecycle
<1>2. ASSUME NEW f \in Frame, FrameDetached(f) PROVE TypeOK'
  BY <1>2, HelperTypes, RemovedType, RecalculatedType DEF TypeOK, FrameDetached
<1>3. ASSUME NEW f \in Frame, RemoveChildFramesRecursively(f) PROVE TypeOK'
  BY <1>3, HelperTypes, RemovedType DEF TypeOK, RemoveChildFramesRecursively
<1>4. ASSUME NEW r \in Request, NEW f \in Frame, NEW d \in Document \cup {None},
             RequestStarted(r, f, d)
      PROVE  TypeOK'
  BY <1>4, HelperTypes DEF TypeOK, RequestStarted, InflightRequestStarted, SetPending, DocumentInfo
<1>5. ASSUME NEW r \in Request, NEW next \in Request, RequestRedirected(r, next) PROVE TypeOK'
  <2> DEFINE f == req[r].frame
             d == req[r].doc
  <2>1. f \in Frame /\ d \in Document \cup {None}
    BY DEF TypeOK
  <2>2. req' \in [Request -> [state : {"new", "started", "finished", "failed"},
                             frame : Frame, doc : Document \cup {None}]]
    BY <1>5, <2>1 DEF TypeOK, RequestRedirected
  <2>3. /\ fired' \in [Frame -> SUBSET Lifecycle]
        /\ idleSelf' \in [Frame -> BOOLEAN]
        /\ timer' \in [Frame -> {"none", "armed", "elapsed"}]
        /\ inflight' \in [Frame -> SUBSET Request]
    BY <1>5, <2>1, HelperTypes DEF TypeOK, RequestRedirected, InflightRequestStarted
  <2>4. pending' \in [Frame -> DocumentInfo \cup {None}]
    BY <1>5, <2>1 DEF TypeOK, RequestRedirected, SetPending, DocumentInfo
  <2> QED
    BY <1>5, <2>2, <2>3, <2>4 DEF TypeOK, RequestRedirected
<1>6. ASSUME NEW r \in Request, ReportRequestFinished(r) PROVE TypeOK'
  BY <1>6, HelperTypes DEF TypeOK, ReportRequestFinished, InflightRequestFinished
<1>7. ASSUME NEW r \in Request, RequestFailed(r) PROVE TypeOK'
  BY <1>7, HelperTypes DEF TypeOK, RequestFailed, InflightRequestFinished
<1>8. ASSUME NEW f \in Frame, NEW d \in Document \cup {None}, FrameRequestedNavigation(f, d)
      PROVE  TypeOK'
  BY <1>8 DEF TypeOK, FrameRequestedNavigation, SetPending, DocumentInfo
<1>9. ASSUME NEW f \in Frame, NEW d \in Document, FrameCommittedNewDocumentNavigation(f, d)
      PROVE  TypeOK'
  <2> DEFINE gone == Subtree(f) \ {f}
             base == [fired EXCEPT ![f] = {"commit"}]
  <2>1. base \in [Frame -> SUBSET Lifecycle]
    BY DEF TypeOK, Lifecycle
  <2>2. fired' \in [Frame -> SUBSET Lifecycle]
    BY <1>9, <2>1, RecalculatedType DEF FrameCommittedNewDocumentNavigation
  <2>3. CommittedDocument(f, d) \in DocumentInfo
    BY HelperTypes
  <2> QED
    BY <1>9, <2>2, <2>3, HelperTypes, RemovedType
    DEF TypeOK, FrameCommittedNewDocumentNavigation
<1>10. ASSUME NEW f \in Frame, FrameCommittedSameDocumentNavigation(f) PROVE TypeOK'
  BY <1>10 DEF TypeOK, FrameCommittedSameDocumentNavigation
<1>11. ASSUME NEW f \in Frame, NEW d \in Document \cup {None}, FrameAbortedNavigation(f, d)
       PROVE  TypeOK'
  BY <1>11 DEF TypeOK, FrameAbortedNavigation
<1>12. ASSUME NEW f \in Frame, NEW event \in RegularEvent, FrameLifecycleEvent(f, event)
       PROVE  TypeOK'
  <2>1. [fired EXCEPT ![f] = @ \cup {event}] \in [Frame -> SUBSET Lifecycle]
    BY DEF TypeOK, Lifecycle
  <2> QED
    BY <1>12, <2>1, RecalculatedType DEF TypeOK, FrameLifecycleEvent
<1>13. CASE PageDidCrash
  BY <1>13, HelperTypes DEF TypeOK, PageDidCrash
<1>14. CASE PageDidClose
  BY <1>14, HelperTypes DEF TypeOK, PageDidClose
<1>15. ASSUME NEW f \in Frame, NetworkIdleTimerFired(f) PROVE TypeOK'
  BY <1>15, RecalculatedType DEF TypeOK, NetworkIdleTimerFired
<1>16. CASE UNCHANGED vars
  BY <1>16 DEF TypeOK, vars
<1> QED
  BY <1>1, <1>2, <1>3, <1>4, <1>5, <1>6, <1>7, <1>8, <1>9, <1>10, <1>11, <1>12, <1>13,
     <1>14, <1>15, <1>16 DEF Next, BrowserStep

(* The state of every frame and request always has the right type.          *)
THEOREM TypeCorrect == Spec => []TypeOK
BY InitTypeOK, NextTypeOK, PTL DEF Spec

(***************************************************************************)
(* The network-idle timer.  A frame has a timer only while it is attached  *)
(* and nothing is in flight in it.  The strengthening: requests are only   *)
(* ever counted in frames that have been constructed.                      *)
(***************************************************************************)
NewFramesAreEmpty == \A f \in Frame : scope[f] = "new" => inflight[f] = {}

IdleInv == NoTimerWhileInflight /\ IdleSelfIsElapsedTimer /\ NewFramesAreEmpty

LEMMA InitIdleInv == Init => IdleInv
BY DEF Init, IdleInv, NoTimerWhileInflight, IdleSelfIsElapsedTimer, NewFramesAreEmpty, Attached

(* The end of a request leaves a running timer only where nothing is left.  *)
LEMMA FinishedIdleInv ==
  ASSUME TypeOK, IdleInv, NEW r \in Request, InflightRequestFinished(r), UNCHANGED treeVars
  PROVE  IdleInv'
BY DEF TypeOK, IdleInv, NoTimerWhileInflight, IdleSelfIsElapsedTimer, NewFramesAreEmpty,
       Attached, InflightRequestFinished, Started, treeVars

(* The start of a request stops the timer of its frame, also when it takes  *)
(* the place of the request it is redirected from.                          *)
LEMMA StartedIdleInv ==
  ASSUME TypeOK, IdleInv, NEW r \in Request, NEW f \in Attached, NEW others \in SUBSET inflight[f],
         InflightRequestStarted(r, f, others), UNCHANGED treeVars
  PROVE  IdleInv'
<1>1. f \in Frame /\ scope[f] = "open"
  BY DEF Attached
<1>2. CASE r \notin ExcludedRequest /\ others = {}
  <2>1. timer'[f] = "none" /\ ~idleSelf'[f] /\ UNCHANGED treeVars
    BY <1>1, <1>2 DEF InflightRequestStarted, StoppedTimer, StoppedIdleSelf
  <2>2. \A g \in Frame : g # f => /\ inflight'[g] = inflight[g]
                                  /\ timer'[g] = timer[g]
                                  /\ idleSelf'[g] = idleSelf[g]
    BY <1>1, <1>2 DEF TypeOK, InflightRequestStarted, StoppedTimer, StoppedIdleSelf
  <2> QED
    BY <1>1, <2>1, <2>2 DEF IdleInv, NoTimerWhileInflight, IdleSelfIsElapsedTimer,
       NewFramesAreEmpty, Attached, treeVars
<1>3. CASE r \in ExcludedRequest \/ others # {}
  <2>1. UNCHANGED <<timer, idleSelf, treeVars>>
    BY <1>3 DEF InflightRequestStarted
  <2>2. inflight'[f] # {} => inflight[f] # {}
    BY <1>1, <1>3 DEF TypeOK, InflightRequestStarted
  <2>3. \A g \in Frame : g # f => inflight'[g] = inflight[g]
    BY <1>1 DEF TypeOK, InflightRequestStarted
  <2> QED
    BY <1>1, <2>1, <2>2, <2>3 DEF IdleInv, NoTimerWhileInflight, IdleSelfIsElapsedTimer,
       NewFramesAreEmpty, Attached, treeVars
<1> QED
  BY <1>2, <1>3

LEMMA NextIdleInv == TypeOK /\ IdleInv /\ [Next]_vars => IdleInv'
<1> SUFFICES ASSUME TypeOK, IdleInv, [Next]_vars PROVE IdleInv'
  OBVIOUS
<1> USE DEF idleVars, docVars
<1>1. ASSUME NEW f \in Frame, NEW parent \in Frame, FrameAttached(f, parent) PROVE IdleInv'
  BY <1>1 DEF TypeOK, IdleInv, NoTimerWhileInflight, IdleSelfIsElapsedTimer, NewFramesAreEmpty,
              Attached, FrameAttached
<1>2. ASSUME NEW f \in Frame, FrameDetached(f) PROVE IdleInv'
  BY <1>2 DEF TypeOK, IdleInv, NoTimerWhileInflight, IdleSelfIsElapsedTimer, NewFramesAreEmpty,
              Attached, FrameDetached, Removed, Subtree, StoppedTimer, StoppedIdleSelf
<1>3. ASSUME NEW f \in Frame, RemoveChildFramesRecursively(f) PROVE IdleInv'
  BY <1>3 DEF TypeOK, IdleInv, NoTimerWhileInflight, IdleSelfIsElapsedTimer, NewFramesAreEmpty,
              Attached, RemoveChildFramesRecursively, Removed, Subtree, StoppedTimer, StoppedIdleSelf
<1>4. ASSUME NEW r \in Request, NEW f \in Frame, NEW d \in Document \cup {None},
             RequestStarted(r, f, d)
      PROVE  IdleInv'
  BY <1>4, StartedIdleInv DEF RequestStarted
<1>5. ASSUME NEW r \in Request, NEW next \in Request, RequestRedirected(r, next) PROVE IdleInv'
  BY <1>5, StartedIdleInv DEF RequestRedirected
<1>6. ASSUME NEW r \in Request, ReportRequestFinished(r) \/ RequestFailed(r) PROVE IdleInv'
  BY <1>6, FinishedIdleInv DEF ReportRequestFinished, RequestFailed
<1>7. ASSUME NEW f \in Frame, NEW d \in Document, FrameCommittedNewDocumentNavigation(f, d)
      PROVE  IdleInv'
  BY <1>7 DEF TypeOK, IdleInv, NoTimerWhileInflight, IdleSelfIsElapsedTimer, NewFramesAreEmpty,
              Attached, FrameCommittedNewDocumentNavigation, Removed, Subtree,
              StoppedTimer, StoppedIdleSelf
<1>8. CASE UNCHANGED <<treeVars, timer, idleSelf, inflight>>
  BY <1>8 DEF IdleInv, NoTimerWhileInflight, IdleSelfIsElapsedTimer, NewFramesAreEmpty,
              Attached, treeVars
<1>9. CASE PageDidCrash \/ PageDidClose
  <2>1. CASE UNCHANGED <<timer, idleSelf>>
    BY <1>8, <1>9, <2>1 DEF PageDidCrash, PageDidClose
  <2>2. CASE timer' = StoppedTimer(Attached) /\ idleSelf' = StoppedIdleSelf(Attached)
    BY <1>9, <2>2 DEF TypeOK, IdleInv, NoTimerWhileInflight, IdleSelfIsElapsedTimer,
       NewFramesAreEmpty, Attached, PageDidCrash, PageDidClose, StoppedTimer, StoppedIdleSelf, treeVars
  <2> QED
    BY <1>9, <2>1, <2>2 DEF PageDidCrash, PageDidClose
<1>10. ASSUME NEW f \in Frame, NetworkIdleTimerFired(f) PROVE IdleInv'
  BY <1>10 DEF TypeOK, IdleInv, NoTimerWhileInflight, IdleSelfIsElapsedTimer, NewFramesAreEmpty,
               Attached, NetworkIdleTimerFired, treeVars
<1>11. ASSUME NEW f \in Frame, NEW d \in Document \cup {None},
              \/ FrameRequestedNavigation(f, d)
              \/ FrameAbortedNavigation(f, d)
              \/ FrameCommittedSameDocumentNavigation(f)
              \/ \E event \in RegularEvent : FrameLifecycleEvent(f, event)
       PROVE  IdleInv'
  BY <1>8, <1>11 DEF FrameRequestedNavigation, FrameCommittedSameDocumentNavigation,
                     FrameAbortedNavigation, FrameLifecycleEvent
<1>12. CASE UNCHANGED vars
  BY <1>8, <1>12 DEF vars, treeVars
<1> QED
  BY <1>1, <1>2, <1>3, <1>4, <1>5, <1>6, <1>7, <1>9, <1>10, <1>11, <1>12 DEF Next, BrowserStep

LEMMA IdleInvariance == Spec => [](TypeOK /\ IdleInv)
BY InitTypeOK, NextTypeOK, InitIdleInv, NextIdleInv, PTL DEF Spec

(* _startNetworkIdleTimer never meets a timer: a frame with requests in      *)
(* flight has none, so the assertion there cannot fail.                      *)
THEOREM AssertionHolds == Spec => []NoTimerWhileInflight
BY IdleInvariance, PTL DEF IdleInv

(* _firedNetworkIdleSelf says exactly that the last timer of the frame ran   *)
(* out undisturbed, and detached frames have no timer.                       *)
THEOREM IdleSelfIsTimer == Spec => []IdleSelfIsElapsedTimer
BY IdleInvariance, PTL DEF IdleInv

(* Both, in every state: the flag, the timer and the requests in flight     *)
(* never contradict each other.                                             *)
THEOREM TimersAgree == Spec => []IdleTimersAgree
BY AssertionHolds, IdleSelfIsTimer, PTL DEF IdleTimersAgree

(***************************************************************************)
(* Every announcement of "networkidle" is sound.                           *)
(***************************************************************************)
Announced(f) == "networkidle" \in fired'[f] \ fired[f]
QuietSubtree(f) == \A g \in Subtree(f) : inflight[g] = {} /\ timer[g] = "elapsed"

(* A recalculation announces the event for a frame only if all frames on    *)
(* whose chain it is are idle by themselves.                                *)
LEMMA RecalculatedSound ==
  ASSUME NEW events \in [Frame -> SUBSET Lifecycle], NEW idle, NEW tree, NEW up, NEW f \in Frame,
         "networkidle" \in Recalculated(events, idle, tree, up)[f], "networkidle" \notin events[f]
  PROVE  \A g \in tree : f \in up[g] => idle[g]
BY DEF Recalculated

LEMMA IdleSelfQuiet ==
  ASSUME IdleInv, NEW f \in Frame, \A g \in Subtree(f) : idleSelf[g]
  PROVE  QuietSubtree(f)
BY DEF IdleInv, NoTimerWhileInflight, IdleSelfIsElapsedTimer, QuietSubtree, Subtree, Attached

LEMMA StepIsSound ==
  ASSUME TypeOK, IdleInv', [Next]_vars, NEW f \in Frame, Announced(f)
  PROVE  QuietSubtree(f)'
<1> SUFFICES \A g \in Subtree(f)' : idleSelf'[g]
  BY DEF IdleInv, NoTimerWhileInflight, IdleSelfIsElapsedTimer, QuietSubtree, Subtree, Attached
<1> USE DEF Announced
<1>1. ASSUME NEW h \in Frame, FrameDetached(h) PROVE \A g \in Subtree(f)' : idleSelf'[g]
  <2>1. \A g \in Attached \ Subtree(h) : f \in chain[g] => idleSelf'[g]
    BY <1>1, RecalculatedSound DEF TypeOK, FrameDetached
  <2> QED
    BY <1>1, <2>1 DEF TypeOK, FrameDetached, Removed, Subtree, Attached
<1>2. ASSUME NEW h \in Frame, NEW d \in Document, FrameCommittedNewDocumentNavigation(h, d)
      PROVE  \A g \in Subtree(f)' : idleSelf'[g]
  <2> DEFINE gone == Subtree(h) \ {h}
             base == [fired EXCEPT ![h] = {"commit"}]
  <2>1. base \in [Frame -> SUBSET Lifecycle] /\ "networkidle" \notin base[f]
    BY DEF TypeOK, Lifecycle
  <2>2. \A g \in Attached \ gone : f \in chain[g] => idleSelf'[g]
    BY <1>2, <2>1, RecalculatedSound DEF FrameCommittedNewDocumentNavigation
  <2> QED
    BY <1>2, <2>2 DEF TypeOK, FrameCommittedNewDocumentNavigation, Removed, Subtree, Attached
<1>3. ASSUME NEW h \in Frame, NEW event \in RegularEvent, FrameLifecycleEvent(h, event)
      PROVE  \A g \in Subtree(f)' : idleSelf'[g]
  <2> DEFINE base == [fired EXCEPT ![h] = @ \cup {event}]
  <2>1. base \in [Frame -> SUBSET Lifecycle] /\ "networkidle" \notin base[f]
    BY DEF TypeOK, Lifecycle
  <2>2. \A g \in Attached : f \in chain[g] => idleSelf[g]
    BY <1>3, <2>1, RecalculatedSound DEF FrameLifecycleEvent
  <2> QED
    BY <1>3, <2>2 DEF FrameLifecycleEvent, Subtree, Attached, treeVars
<1>4. ASSUME NEW h \in Frame, NetworkIdleTimerFired(h) PROVE \A g \in Subtree(f)' : idleSelf'[g]
  <2>1. \A g \in Attached : f \in chain[g] => idleSelf'[g]
    <3>1. /\ fired' = Recalculated(fired, idleSelf', Attached, chain)
          /\ fired \in [Frame -> SUBSET Lifecycle]
      BY <1>4 DEF TypeOK, NetworkIdleTimerFired
    <3> QED
      BY <3>1, RecalculatedSound
  <2> QED
    BY <1>4, <2>1 DEF NetworkIdleTimerFired, Subtree, Attached, treeVars
<1>5. ASSUME NEW h \in Frame, NEW parent \in Frame, FrameAttached(h, parent) PROVE FALSE
  BY <1>5 DEF TypeOK, FrameAttached
<1>6. ASSUME UNCHANGED fired PROVE FALSE
  BY <1>6
<1> QED
  BY <1>1, <1>2, <1>3, <1>4, <1>5, <1>6
  DEF Next, BrowserStep, vars, idleVars, RemoveChildFramesRecursively, RequestStarted,
      InflightRequestStarted, RequestRedirected, ReportRequestFinished, RequestFailed,
      InflightRequestFinished, FrameRequestedNavigation, FrameCommittedSameDocumentNavigation,
      FrameAbortedNavigation, PageDidCrash, PageDidClose

(* "networkidle" is announced for a frame only when its whole subtree has no *)
(* request in flight and has been quiet for the time of a timer.             *)
THEOREM IdleIsSound == Spec => NetworkIdleIsSound
<1> DEFINE Sound == \A f \in Frame : Announced(f) => QuietSubtree(f)'
<1>1. TypeOK /\ IdleInv' /\ [Next]_vars => [Sound]_vars
  BY StepIsSound
<1>2. Sound => \A f \in Frame : "networkidle" \in fired'[f] \ fired[f] =>
                 \A g \in Subtree(f)' : inflight'[g] = {} /\ timer'[g] = "elapsed"
  BY DEF Announced, QuietSubtree
<1> QED
  BY <1>1, <1>2, IdleInvariance, PTL DEF Spec, NetworkIdleIsSound
(***************************************************************************)
(* The frames form a tree, whatever part of it is removed.                 *)
(***************************************************************************)
LEMMA RemovedKeepsTree ==
  ASSUME TypeOK, TreeIsConnected, NEW h \in Attached, NEW gone,
         gone = Subtree(h) \/ gone = Subtree(h) \ {h}, Removed(gone)
  PROVE  TreeIsConnected'
<1>1. Attached' = Attached \ gone
  BY DEF TypeOK, Attached, Removed
<1>2. \A f \in Attached \ gone : chain'[f] = chain[f]
  BY DEF Attached, Removed
<1>3. ASSUME NEW f \in Attached \ gone, NEW g \in chain[f] PROVE g \notin gone
  BY DEF TreeIsConnected, Subtree
<1> QED
  BY <1>1, <1>2, <1>3 DEF TreeIsConnected

LEMMA NextTree == TypeOK /\ TreeIsConnected /\ [Next]_vars => TreeIsConnected'
<1> SUFFICES ASSUME TypeOK, TreeIsConnected, [Next]_vars PROVE TreeIsConnected'
  OBVIOUS
<1>1. ASSUME NEW f \in Frame, NEW parent \in Frame, FrameAttached(f, parent)
      PROVE  TreeIsConnected'
  <2>1. Attached' = Attached \cup {f} /\ f \notin Attached /\ parent \in Attached
    BY <1>1 DEF TypeOK, FrameAttached, Attached
  <2>2. chain'[f] = chain[parent] \cup {f} /\ \A g \in Attached : chain'[g] = chain[g]
    BY <1>1, <2>1 DEF TypeOK, FrameAttached, Attached
  <2> QED
    BY <2>1, <2>2 DEF TreeIsConnected
<1>2. ASSUME NEW f \in Frame,
             \/ FrameDetached(f)
             \/ RemoveChildFramesRecursively(f)
             \/ \E d \in Document : FrameCommittedNewDocumentNavigation(f, d)
      PROVE  TreeIsConnected'
  BY <1>2, RemovedKeepsTree
  DEF FrameDetached, RemoveChildFramesRecursively, FrameCommittedNewDocumentNavigation
<1>3. CASE UNCHANGED treeVars
  BY <1>3 DEF TreeIsConnected, Attached, treeVars
<1> QED
  BY <1>1, <1>2, <1>3
  DEF Next, BrowserStep, vars, treeVars, RequestStarted, RequestRedirected, ReportRequestFinished,
      RequestFailed, FrameRequestedNavigation, FrameCommittedSameDocumentNavigation,
      FrameAbortedNavigation, FrameLifecycleEvent, NetworkIdleTimerFired, PageDidCrash, PageDidClose

(* Frames.get() and the recursion over childFrames() see one connected tree. *)
THEOREM TreeStaysConnected == Spec => []TreeIsConnected
<1>1. Init => TreeIsConnected
  BY DEF Init, TreeIsConnected, Attached
<1> QED
  BY <1>1, InitTypeOK, NextTypeOK, NextTree, PTL DEF Spec

(***************************************************************************)
(* A frame that is network idle covers its subtree.  Each recalculation    *)
(* establishes that anew, because the frames below a frame below f are     *)
(* below f; between two of them frames only come as leaves, or go.         *)
(***************************************************************************)
LEMMA RecalculatedCovers ==
  ASSUME TypeOK, TreeIsConnected, NEW events \in [Frame -> SUBSET Lifecycle], NEW idle,
         NEW tree \in SUBSET Attached, NEW f \in tree, NEW g \in tree, f \in chain[g],
         "networkidle" \in Recalculated(events, idle, tree, chain)[f]
  PROVE  "networkidle" \in Recalculated(events, idle, tree, chain)[g]
<1>1. f \in Frame /\ g \in Frame
  BY DEF Attached
<1>2. \A h \in tree : f \in chain[h] => idle[h]
  BY <1>1 DEF Recalculated
<1>3. \A h \in tree : g \in chain[h] => idle[h]
  BY <1>2 DEF TreeIsConnected
<1> QED
  BY <1>1, <1>3 DEF Recalculated

LEMMA RecalculationCovers ==
  ASSUME TypeOK, TreeIsConnected, NEW events \in [Frame -> SUBSET Lifecycle], NEW idle,
         NEW gone, Attached' = Attached \ gone, \A f \in Attached \ gone : chain'[f] = chain[f],
         fired' = Recalculated(events, idle, Attached \ gone, chain)
  PROVE  NetworkIdleCoversSubtree'
<1> SUFFICES ASSUME NEW f \in Attached \ gone, "networkidle" \in fired'[f],
                    NEW g \in Attached \ gone, f \in chain[g]
             PROVE  "networkidle" \in fired'[g]
  BY DEF NetworkIdleCoversSubtree, Subtree
<1>1. Attached \ gone \in SUBSET Attached
  OBVIOUS
<1> QED
  BY <1>1, RecalculatedCovers

LEMMA NextCovers ==
  TypeOK /\ TreeIsConnected /\ NetworkIdleCoversSubtree /\ [Next]_vars => NetworkIdleCoversSubtree'
<1> SUFFICES ASSUME TypeOK, TreeIsConnected, NetworkIdleCoversSubtree, [Next]_vars
             PROVE  NetworkIdleCoversSubtree'
  OBVIOUS
<1>1. ASSUME NEW f \in Frame, NEW parent \in Frame, FrameAttached(f, parent)
      PROVE  NetworkIdleCoversSubtree'
  <2>1. Attached' = Attached \cup {f} /\ f \notin Attached
    BY <1>1 DEF TypeOK, FrameAttached, Attached
  <2>2. \A g \in Attached : chain'[g] = chain[g] /\ fired'[g] = fired[g] /\ f \notin chain[g]
    BY <1>1, <2>1 DEF TypeOK, FrameAttached, Attached, TreeIsConnected
  <2>3. fired'[f] = {"commit"}
    BY <1>1 DEF TypeOK, FrameAttached
  <2> QED
    BY <2>1, <2>2, <2>3 DEF NetworkIdleCoversSubtree, Subtree
<1>2. ASSUME NEW f \in Frame, FrameDetached(f) PROVE NetworkIdleCoversSubtree'
  <2> DEFINE gone == Subtree(f)
  <2>1. Attached' = Attached \ gone /\ \A g \in Attached \ gone : chain'[g] = chain[g]
    BY <1>2 DEF TypeOK, FrameDetached, Removed, Attached
  <2>2. fired' = Recalculated(fired, idleSelf', Attached \ gone, chain) /\ fired \in [Frame -> SUBSET Lifecycle]
    BY <1>2 DEF TypeOK, FrameDetached
  <2> QED
    BY <2>1, <2>2, RecalculationCovers
<1>3. ASSUME NEW f \in Frame, RemoveChildFramesRecursively(f) PROVE NetworkIdleCoversSubtree'
  <2> DEFINE gone == Subtree(f) \ {f}
  <2>1. Attached' = Attached \ gone /\ \A g \in Attached \ gone : chain'[g] = chain[g]
    BY <1>3 DEF TypeOK, RemoveChildFramesRecursively, Removed, Attached
  <2>2. fired' = fired
    BY <1>3 DEF RemoveChildFramesRecursively
  <2> QED
    BY <2>1, <2>2 DEF NetworkIdleCoversSubtree, Subtree
<1>4. ASSUME NEW f \in Frame, NEW d \in Document, FrameCommittedNewDocumentNavigation(f, d)
      PROVE  NetworkIdleCoversSubtree'
  <2> DEFINE gone == Subtree(f) \ {f}
             events == [fired EXCEPT ![f] = {"commit"}]
  <2>1. Attached' = Attached \ gone /\ \A g \in Attached \ gone : chain'[g] = chain[g]
    BY <1>4 DEF TypeOK, FrameCommittedNewDocumentNavigation, Removed, Attached
  <2>2. fired' = Recalculated(events, idleSelf', Attached \ gone, chain)
    BY <1>4 DEF FrameCommittedNewDocumentNavigation
  <2>3. events \in [Frame -> SUBSET Lifecycle]
    BY DEF TypeOK, Lifecycle
  <2> QED
    BY <2>1, <2>2, <2>3, RecalculationCovers
<1>5. ASSUME NEW f \in Frame, NEW event \in RegularEvent, FrameLifecycleEvent(f, event)
      PROVE  NetworkIdleCoversSubtree'
  <2> DEFINE events == [fired EXCEPT ![f] = @ \cup {event}]
  <2>1. Attached' = Attached \ {} /\ \A g \in Attached \ {} : chain'[g] = chain[g]
    BY <1>5 DEF FrameLifecycleEvent, treeVars, Attached
  <2>2. fired' = Recalculated(events, idleSelf, Attached \ {}, chain)
    <3>1. Attached \ {} = Attached
      OBVIOUS
    <3> QED BY <1>5, <3>1 DEF FrameLifecycleEvent
  <2>3. events \in [Frame -> SUBSET Lifecycle]
    BY DEF TypeOK, Lifecycle
  <2> QED
    BY <2>1, <2>2, <2>3, RecalculationCovers
<1>6. ASSUME NEW f \in Frame, NetworkIdleTimerFired(f) PROVE NetworkIdleCoversSubtree'
  <2>1. Attached' = Attached \ {} /\ \A g \in Attached \ {} : chain'[g] = chain[g]
    BY <1>6 DEF NetworkIdleTimerFired, treeVars, Attached
  <2>2. fired' = Recalculated(fired, idleSelf', Attached \ {}, chain) /\ fired \in [Frame -> SUBSET Lifecycle]
    <3>1. Attached \ {} = Attached
      OBVIOUS
    <3> QED BY <1>6, <3>1 DEF NetworkIdleTimerFired, TypeOK
  <2> QED
    BY <2>1, <2>2, RecalculationCovers
<1>7. CASE UNCHANGED <<treeVars, fired>>
  BY <1>7 DEF NetworkIdleCoversSubtree, Subtree, Attached, treeVars
<1> QED
  BY <1>1, <1>2, <1>3, <1>4, <1>5, <1>6, <1>7
  DEF Next, BrowserStep, vars, treeVars, idleVars, RequestStarted, RequestRedirected,
      ReportRequestFinished, RequestFailed, InflightRequestStarted, InflightRequestFinished,
      FrameRequestedNavigation, FrameCommittedSameDocumentNavigation,
      FrameAbortedNavigation, PageDidCrash, PageDidClose

(* Whoever waits for "networkidle" of a frame gets it for the frames below,  *)
(* whatever is attached, removed or moved between processes meanwhile.       *)
THEOREM IdleCoversSubtree == Spec => []NetworkIdleCoversSubtree
<1>1. Init => NetworkIdleCoversSubtree
  BY DEF Init, NetworkIdleCoversSubtree, Attached
<1> QED
  BY <1>1, InitTypeOK, NextTypeOK, NextCovers, TreeStaysConnected, PTL DEF Spec

(***************************************************************************)
(* Documents and the requests that load them.  The strengthening: what is  *)
(* counted in flight is live, no document refers to a request that has not *)
(* started, and a frame that is not constructed has no pending document.   *)
(***************************************************************************)
GoodInfo(info, f) ==
  info.request # None =>
    /\ req[info.request].frame = f
    /\ info.documentId # None
    /\ req[info.request].doc = info.documentId
    /\ req[info.request].state # "new"

GoodInflight(f) ==
  \A r \in inflight[f] : req[r].state = "started" /\ req[r].frame = f /\ r \notin ExcludedRequest

GoodPending(f) ==
  /\ pending[f] # None => GoodInfo(pending[f], f)
  /\ scope[f] = "new" => pending[f] = None
  /\ f \in Attached /\ pending[f] # None /\ pending[f].request # None =>
       req[pending[f].request].state # "failed"

DocInv ==
  /\ \A f \in Frame : GoodInflight(f)
  /\ \A f \in Frame : GoodInfo(current[f], f)
  /\ \A f \in Frame : GoodPending(f)

LEMMA InitDocInv == Init => DocInv
BY DEF Init, DocInv, GoodInflight, GoodInfo, GoodPending

LEMMA DocInvImplies ==
  TypeOK /\ DocInv => InflightIsLive /\ DocumentRequestMatches /\ FailedRequestIsNotPending
BY DEF TypeOK, DocInv, GoodInflight, GoodInfo, GoodPending, InflightIsLive,
       DocumentRequestMatches, FailedRequestIsNotPending, Attached

(* The request r takes a step that keeps its frame and document; every other *)
(* request, and every document, stays as it is.                              *)
LEMMA KeepsInfo ==
  ASSUME TypeOK, NEW info \in DocumentInfo, NEW f \in Frame, GoodInfo(info, f),
         \A q \in Request : req[q].state # "new" => /\ req'[q].frame = req[q].frame
                                                   /\ req'[q].doc = req[q].doc
                                                   /\ req'[q].state # "new"
  PROVE  info.request # None =>
           /\ req'[info.request].frame = f
           /\ info.documentId # None
           /\ req'[info.request].doc = info.documentId
           /\ req'[info.request].state # "new"
BY DEF GoodInfo, DocumentInfo
(* What the steps do to the requests and to the documents, and why that     *)
(* keeps the invariant: a request keeps its frame and document, only what   *)
(* is not in flight ends, and a document comes with a request of its own.   *)
RequestsAdvance ==
  \A q \in Request : req[q].state # "new" => /\ req'[q].frame = req[q].frame
                                            /\ req'[q].doc = req[q].doc
                                            /\ req'[q].state # "new"

InfoAllowed(info, f) ==
  \/ info = current[f]
  \/ info = pending[f] /\ pending[f] # None
  \/ /\ info \in DocumentInfo
     /\ info.request # None => /\ req'[info.request].frame = f
                               /\ req'[info.request].doc = info.documentId
                               /\ req'[info.request].state # "new"
                               /\ info.documentId # None

LEMMA AllowedInfoIsGood ==
  ASSUME TypeOK, DocInv, RequestsAdvance, NEW f \in Frame, NEW info, InfoAllowed(info, f)
  PROVE  info.request # None =>
           /\ req'[info.request].frame = f
           /\ info.documentId # None
           /\ req'[info.request].doc = info.documentId
           /\ req'[info.request].state # "new"
<1>1. CASE info = current[f] \/ (info = pending[f] /\ pending[f] # None)
  <2>1. info \in DocumentInfo /\ GoodInfo(info, f)
    BY <1>1 DEF TypeOK, DocInv, GoodPending
  <2> QED
    BY <2>1, KeepsInfo DEF RequestsAdvance
<1>2. CASE info # current[f] /\ ~(info = pending[f] /\ pending[f] # None)
  BY <1>2 DEF InfoAllowed
<1> QED
  BY <1>1, <1>2

(* One lemma for all steps: their effect on one frame.                      *)
FrameStep(f) ==
  /\ \A r \in inflight'[f] :
       \/ r \in inflight[f] /\ req'[r] = req[r]
       \/ req'[r].state = "started" /\ req'[r].frame = f /\ r \notin ExcludedRequest
  /\ InfoAllowed(current'[f], f)
  /\ \/ pending'[f] = None
     \/ /\ pending'[f] # None
        /\ InfoAllowed(pending'[f], f)
        /\ scope[f] = "open"
        /\ f \in Attached' /\ pending'[f].request # None => req'[pending'[f].request].state # "failed"
     \/ /\ pending'[f] = pending[f]
        /\ scope[f] # "open"
        /\ scope'[f] = scope[f]
  /\ scope'[f] = "new" => scope[f] = "new"

LEMMA FrameStepsKeepDocInv ==
  ASSUME TypeOK, DocInv, RequestsAdvance, \A f \in Frame : FrameStep(f)
  PROVE  DocInv'
<1>1. ASSUME NEW f \in Frame PROVE GoodInflight(f)'
  BY DEF FrameStep, DocInv, GoodInflight
<1>2. ASSUME NEW f \in Frame PROVE GoodInfo(current[f], f)'
  BY AllowedInfoIsGood DEF FrameStep, GoodInfo
<1>3. ASSUME NEW f \in Frame PROVE GoodPending(f)'
  <2>1. CASE pending'[f] = None
    BY <2>1 DEF GoodPending
  <2>2. CASE /\ pending'[f] # None
             /\ InfoAllowed(pending'[f], f)
             /\ scope[f] = "open"
             /\ f \in Attached' /\ pending'[f].request # None =>
                  req'[pending'[f].request].state # "failed"
    BY <2>2, AllowedInfoIsGood DEF FrameStep, GoodPending, GoodInfo
  <2>3. CASE pending'[f] = pending[f] /\ scope[f] # "open" /\ scope'[f] = scope[f]
    <3>1. f \notin Attached'
      BY <2>3 DEF Attached
    <3>2. pending[f] # None => InfoAllowed(pending[f], f)
      BY DEF InfoAllowed
    <3> QED
      BY <2>3, <3>1, <3>2, AllowedInfoIsGood DEF DocInv, GoodPending, GoodInfo
  <2> QED
    BY <2>1, <2>2, <2>3 DEF FrameStep
<1> QED
  BY <1>1, <1>2, <1>3 DEF DocInv
(* A frame whose documents a step leaves alone.                             *)
LEMMA StillFrame ==
  ASSUME TypeOK, DocInv, NEW f \in Frame,
         current'[f] = current[f], pending'[f] = pending[f] \/ pending'[f] = None,
         \A r \in inflight'[f] : r \in inflight[f] /\ req'[r] = req[r],
         scope'[f] = scope[f] \/ (scope[f] = "new" /\ scope'[f] = "open") \/ scope'[f] = "closed",
         f \in Attached' /\ pending'[f] # None /\ pending'[f].request # None =>
           req'[pending[f].request].state # "failed"
  PROVE  FrameStep(f)
<1>1. CASE pending'[f] = None
  BY <1>1 DEF FrameStep, InfoAllowed
<1>2. CASE pending'[f] # None
  <2>1. pending'[f] = pending[f] /\ scope[f] # "new"
    BY <1>2 DEF DocInv, GoodPending
  <2>2. scope[f] \in {"open", "closed"}
    BY <2>1 DEF TypeOK
  <2> QED
    BY <1>2, <2>1, <2>2 DEF FrameStep, InfoAllowed, Attached
<1> QED
  BY <1>1, <1>2

LEMMA StillReq ==
  ASSUME TypeOK, DocInv, NEW f \in Frame, UNCHANGED req, f \in Attached', scope'[f] = scope[f],
         pending'[f] # None, pending'[f].request # None, pending'[f] = pending[f]
  PROVE  req'[pending[f].request].state # "failed"
BY DEF DocInv, GoodPending, Attached

(* A request starts, possibly in the place of the one it is redirected from. *)
LEMMA StartKeepsDocInv ==
  ASSUME TypeOK, DocInv, NEW r \in Request, NEW f \in Attached, NEW d \in Document \cup {None},
         NEW others \in SUBSET inflight[f],
         InflightRequestStarted(r, f, others),
         IF d # None THEN SetPending(f, d, r) ELSE UNCHANGED pending,
         UNCHANGED <<scope, current>>, RequestsAdvance,
         req'[r] = [state |-> "started", frame |-> f, doc |-> d],
         \A q \in Request : req'[q].state = "failed" => req[q].state = "failed",
         \A g \in Frame : \A q \in inflight'[g] : q = r \/ req'[q] = req[q]
  PROVE  DocInv'
<1>1. \A q \in inflight'[f] : (q \in inflight[f] /\ q # r) \/ (q = r /\ r \notin ExcludedRequest)
  BY DEF TypeOK, InflightRequestStarted, Attached, DocInv, GoodInflight
<1>2. \A g \in Frame : g # f => inflight'[g] = inflight[g] /\ pending'[g] = pending[g]
  BY DEF TypeOK, InflightRequestStarted, SetPending
<1>3. (pending'[f] = [documentId |-> d, request |-> r] /\ d # None) \/ pending'[f] = pending[f]
  BY DEF TypeOK, SetPending, Attached
<1>4. ASSUME NEW g \in Frame PROVE FrameStep(g)
  <2>1. \A q \in inflight'[g] : \/ q \in inflight[g] /\ req'[q] = req[q]
                               \/ /\ req'[q].state = "started"
                                  /\ req'[q].frame = g
                                  /\ q \notin ExcludedRequest
    <3>1. CASE g = f
      BY <1>1, <3>1
    <3>2. CASE g # f
      <4>1. r \notin inflight[g]
        BY <3>2 DEF DocInv, GoodInflight, RequestsAdvance
      <4> QED
        BY <1>2, <3>2, <4>1
    <3> QED
      BY <3>1, <3>2
  <2>2. CASE pending'[g] = pending[g]
    <3>1. g \in Attached' /\ pending'[g] # None /\ pending'[g].request # None =>
            req'[pending[g].request].state # "failed"
      BY <2>2 DEF TypeOK, DocumentInfo, DocInv, GoodPending, Attached
    <3>2. pending[g] # None => scope[g] # "new"
      BY DEF DocInv, GoodPending
    <3> QED
      BY <2>1, <2>2, <3>1, <3>2 DEF FrameStep, InfoAllowed
  <2>3. CASE g = f /\ pending'[f] = [documentId |-> d, request |-> r] /\ d # None
    <3>1. InfoAllowed(pending'[f], f) /\ pending'[f].request = r
      BY <2>3 DEF InfoAllowed, DocumentInfo
    <3>2. scope[f] = "open" /\ scope'[f] = "open"
      BY DEF Attached
    <3> QED
      BY <2>1, <2>3, <3>1, <3>2 DEF FrameStep, InfoAllowed
  <2> QED
    BY <1>2, <1>3, <2>2, <2>3
<1> QED
  BY <1>4, FrameStepsKeepDocInv

LEMMA NextDocInv == TypeOK /\ DocInv /\ [Next]_vars => DocInv'
<1> SUFFICES ASSUME TypeOK, DocInv, [Next]_vars PROVE DocInv'
  OBVIOUS
<1>1. ASSUME NEW f \in Frame, NEW parent \in Frame, FrameAttached(f, parent) PROVE DocInv'
  <2>1. UNCHANGED <<inflight, current, pending, req>>
    BY <1>1 DEF FrameAttached, docVars
  <2>2. ASSUME NEW g \in Frame PROVE FrameStep(g)
    <3>1. scope'[g] = scope[g] \/ (scope[g] = "new" /\ scope'[g] = "open" /\ pending[g] = None)
      BY <1>1 DEF TypeOK, FrameAttached, DocInv, GoodPending
    <3> QED
      BY <2>1, <3>1, StillFrame, StillReq
  <2> QED
    BY <2>1, <2>2, FrameStepsKeepDocInv DEF RequestsAdvance
<1>2. ASSUME NEW f \in Frame, FrameDetached(f) \/ RemoveChildFramesRecursively(f) PROVE DocInv'
  <2>1. UNCHANGED <<inflight, current, pending, req>>
    BY <1>2 DEF FrameDetached, RemoveChildFramesRecursively, docVars
  <2>2. ASSUME NEW g \in Frame PROVE FrameStep(g)
    <3>1. scope'[g] = scope[g] \/ scope'[g] = "closed"
      BY <1>2 DEF FrameDetached, RemoveChildFramesRecursively, Removed
    <3>2. g \in Attached' => scope'[g] = scope[g]
      BY <3>1 DEF Attached
    <3> QED
      BY <2>1, <3>1, <3>2, StillFrame, StillReq
  <2> QED
    BY <2>1, <2>2, FrameStepsKeepDocInv DEF RequestsAdvance
<1>3. CASE UNCHANGED <<treeVars, inflight, req, current>> /\
           \A g \in Frame : pending'[g] = pending[g] \/ pending'[g] = None
  <2>1. ASSUME NEW g \in Frame PROVE FrameStep(g)
    <3>1. scope'[g] = scope[g]
      BY <1>3 DEF treeVars
    <3> QED
      BY <1>3, <3>1, StillFrame, StillReq
  <2> QED
    BY <1>3, <2>1, FrameStepsKeepDocInv DEF RequestsAdvance
<1>4. ASSUME NEW r \in Request, NEW f \in Frame, NEW d \in Document \cup {None},
             RequestStarted(r, f, d)
      PROVE  DocInv'
  <2>1. /\ req' = [req EXCEPT ![r] = [state |-> "started", frame |-> f, doc |-> d]]
        /\ req[r].state = "new"
        /\ f \in Attached
        /\ UNCHANGED <<scope, current>>
    BY <1>4 DEF RequestStarted, treeVars
  <2>2. /\ \A q \in Request : q # r => req'[q] = req[q]
        /\ req'[r] = [state |-> "started", frame |-> f, doc |-> d]
    BY <2>1 DEF TypeOK
  <2>3. RequestsAdvance /\ \A q \in Request : req'[q].state = "failed" => req[q].state = "failed"
    BY <2>1, <2>2 DEF RequestsAdvance
  <2>4. \A g \in Frame : \A q \in inflight'[g] : q = r \/ req'[q] = req[q]
    BY <1>4, <2>2, NextTypeOK DEF TypeOK
  <2> QED
    BY <1>4, <2>1, <2>2, <2>3, <2>4, StartKeepsDocInv DEF RequestStarted
<1>5. ASSUME NEW r \in Request, NEW next \in Request, RequestRedirected(r, next) PROVE DocInv'
  <2> DEFINE f == req[r].frame
             d == req[r].doc
  <2>1. /\ req' = [req EXCEPT ![r].state = "finished",
                              ![next] = [state |-> "started", frame |-> f, doc |-> d]]
        /\ req[r].state = "started" /\ req[next].state = "new"
        /\ f \in Attached /\ d \in Document \cup {None}
        /\ InflightRequestStarted(next, f, inflight[f] \ {r})
        /\ UNCHANGED <<scope, current>>
    BY <1>5 DEF TypeOK, RequestRedirected, treeVars
  <2>2. /\ \A q \in Request \ {r, next} : req'[q] = req[q]
        /\ req'[next] = [state |-> "started", frame |-> f, doc |-> d]
        /\ req'[r] = [req[r] EXCEPT !.state = "finished"]
    BY <2>1 DEF TypeOK
  <2>3. req[r] \in [state : {"new", "started", "finished", "failed"},
                   frame : Frame, doc : Document \cup {None}]
    BY DEF TypeOK
  <2>4. req'[r].state = "finished" /\ req'[r].frame = f /\ req'[r].doc = d
    BY <2>2, <2>3
  <2>5. RequestsAdvance /\ \A q \in Request : req'[q].state = "failed" => req[q].state = "failed"
    <3>1. req'[next].state = "started"
      BY <2>2
    <3>2. SUFFICES ASSUME NEW q \in Request
                   PROVE  /\ req[q].state # "new" => /\ req'[q].frame = req[q].frame
                                                     /\ req'[q].doc = req[q].doc
                                                     /\ req'[q].state # "new"
                          /\ req'[q].state = "failed" => req[q].state = "failed"
      BY DEF RequestsAdvance
    <3>3. CASE q = r
      BY <2>1, <2>4, <3>3
    <3>4. CASE q = next
      BY <2>1, <3>1, <3>4
    <3>5. CASE q \notin {r, next}
      BY <2>2, <3>5
    <3> QED
      BY <3>3, <3>4, <3>5
  <2>6. ASSUME NEW g \in Frame, NEW q \in inflight'[g] PROVE q = next \/ req'[q] = req[q]
    <3>1. (q \in inflight[g] /\ q # r) \/ q = next
      BY <2>1, <2>6 DEF TypeOK, InflightRequestStarted, Attached, DocInv, GoodInflight
    <3> QED
      BY <2>2, <3>1 DEF TypeOK
  <2> QED
    BY <1>5, <2>1, <2>2, <2>5, <2>6, StartKeepsDocInv DEF RequestRedirected
<1>6. ASSUME NEW r \in Request, ReportRequestFinished(r) \/ RequestFailed(r) PROVE DocInv'
  <2> DEFINE f == req[r].frame
  <2>1. PICK end \in {"finished", "failed"} : req' = [req EXCEPT ![r].state = end]
    BY <1>6 DEF ReportRequestFinished, RequestFailed
  <2>2. /\ \A q \in Request : q # r => req'[q] = req[q]
        /\ req'[r] = [req[r] EXCEPT !.state = end]
        /\ req[r] \in [state : {"new", "started", "finished", "failed"},
                       frame : Frame, doc : Document \cup {None}]
    BY <2>1 DEF TypeOK
  <2>3. req'[r].state = end /\ req'[r].frame = f /\ req'[r].doc = req[r].doc
    BY <2>2
  <2>4. RequestsAdvance
    BY <2>2, <2>3 DEF RequestsAdvance
  <2>5. UNCHANGED <<scope, current>> /\ inflight' = [inflight EXCEPT ![f] = inflight[f] \ {r}]
    BY <1>6 DEF ReportRequestFinished, RequestFailed, InflightRequestFinished, treeVars, docVars
  <2>6. ASSUME NEW g \in Frame, NEW q \in inflight'[g] PROVE q \in inflight[g] /\ req'[q] = req[q]
    <3>1. q \in inflight[g] /\ q # r
      BY <2>5, <2>6 DEF TypeOK, DocInv, GoodInflight
    <3> QED
      BY <2>2, <3>1 DEF TypeOK
  <2>7. ASSUME NEW g \in Frame
        PROVE  /\ pending'[g] = pending[g] \/ pending'[g] = None
               /\ g \in Attached' /\ pending'[g] # None /\ pending'[g].request # None =>
                    req'[pending[g].request].state # "failed"
    <3>1. CASE ReportRequestFinished(r)
      <4>1. pending' = pending /\ end = "finished"
        BY <1>6, <2>1, <2>3, <3>1 DEF TypeOK, ReportRequestFinished, docVars
      <4> QED
        BY <2>2, <2>3, <2>5, <4>1 DEF TypeOK, DocumentInfo, DocInv, GoodPending, Attached
    <3>2. CASE RequestFailed(r)
      <4>1. /\ pending'[g] = pending[g] \/ pending'[g] = None
            /\ g = f /\ g \in Attached /\ pending[g] # None /\ pending[g].request = r => pending'[g] = None
        BY <3>2 DEF TypeOK, RequestFailed
      <4>2. pending[g] # None /\ pending[g].request = r => g = f
        BY DEF DocInv, GoodPending, GoodInfo, TypeOK
      <4> QED
        BY <2>2, <2>5, <4>1, <4>2 DEF TypeOK, DocumentInfo, DocInv, GoodPending, Attached
    <3> QED
      BY <1>6, <3>1, <3>2
  <2> QED
    BY <2>4, <2>5, <2>6, <2>7, StillFrame, FrameStepsKeepDocInv
<1>7. ASSUME NEW f \in Frame, NEW d \in Document \cup {None}, FrameRequestedNavigation(f, d)
      PROVE  DocInv'
  <2>1. PICK r \in Request \cup {None} :
           /\ SetPending(f, d, r)
           /\ r # None => r \in inflight[f] /\ d # None /\ req[r].doc = d
    BY <1>7 DEF FrameRequestedNavigation, TypeOK
  <2>2. f \in Attached /\ UNCHANGED <<scope, current, inflight, req>>
    BY <1>7 DEF FrameRequestedNavigation, treeVars
  <2> DEFINE info == [documentId |-> d, request |-> r]
  <2>3. pending'[f] = info
    BY <2>1 DEF TypeOK, SetPending
  <2>4. \A g \in Frame : g # f => pending'[g] = pending[g]
    BY <2>1 DEF TypeOK, SetPending
  <2>5. r # None => r \in Request /\ req[r].state = "started" /\ req[r].frame = f
    <3>1. r # None => r \in inflight[f]
      BY <2>1
    <3> QED
      BY <3>1 DEF TypeOK, DocInv, GoodInflight
  <2>6. info.request = r /\ info.documentId = d /\ info \in DocumentInfo
    BY DEF DocumentInfo
  <2>7. req' = req
    BY <2>2
  <2>8. InfoAllowed(info, f)
    <3>1. r # None => /\ req'[r].frame = f /\ req'[r].doc = d /\ req'[r].state # "new" /\ d # None
      BY <2>1, <2>5, <2>7
    <3> HIDE DEF info
    <3> QED
      BY <2>6, <3>1 DEF InfoAllowed
  <2>9. r # None => req'[r].state # "failed"
    BY <2>5, <2>7
  <2> HIDE DEF info
  <2>10. FrameStep(f)
    <3>1. scope[f] = "open" /\ scope'[f] = "open"
      BY <2>2 DEF Attached
    <3> QED
      BY <2>2, <2>3, <2>6, <2>8, <2>9, <3>1 DEF FrameStep, InfoAllowed
  <2>11. ASSUME NEW g \in Frame, g # f PROVE FrameStep(g)
    BY <2>2, <2>4, <2>11, StillFrame, StillReq
  <2> QED
    BY <2>2, <2>10, <2>11, FrameStepsKeepDocInv DEF RequestsAdvance
<1>8. ASSUME NEW f \in Frame, NEW d \in Document, FrameCommittedNewDocumentNavigation(f, d)
      PROVE  DocInv'
  <2> DEFINE doc == CommittedDocument(f, d)
  <2>1. /\ f \in Attached /\ UNCHANGED req
        /\ current' = [current EXCEPT ![f] = doc]
        /\ inflight' = [inflight EXCEPT ![f] = inflight[f] \cap {doc.request}]
        /\ pending' = pending \/ pending' = [pending EXCEPT ![f] = None]
        /\ Removed(Subtree(f) \ {f})
    BY <1>8 DEF FrameCommittedNewDocumentNavigation
  <2>2. ASSUME NEW g \in Frame
        PROVE  /\ \A r \in inflight'[g] : r \in inflight[g] /\ req'[r] = req[r]
               /\ pending'[g] = pending[g] \/ pending'[g] = None
               /\ scope'[g] = scope[g] \/ scope'[g] = "closed"
    BY <2>1 DEF TypeOK, Removed
  <2>3. ASSUME NEW g \in Frame, g \in Attached', pending'[g] # None, pending'[g].request # None
        PROVE  req'[pending[g].request].state # "failed"
    BY <2>1, <2>2, <2>3 DEF DocInv, GoodPending, Attached
  <2>4. ASSUME NEW g \in Frame, g # f PROVE FrameStep(g)
    BY <2>1, <2>2, <2>3, <2>4, StillFrame DEF TypeOK
  <2>5. FrameStep(f)
    <3>1. scope[f] = "open" /\ scope'[f] = "open" /\ current'[f] = doc
      BY <2>1 DEF TypeOK, Attached, Removed
    <3>2. GoodInfo(doc, f) /\ doc \in DocumentInfo
      BY HelperTypes DEF CommittedDocument, IsPendingDocument, DocInv, GoodPending, GoodInfo
    <3>3. req' = req
      BY <2>1
    <3>4. InfoAllowed(doc, f)
      <4> HIDE DEF doc
      <4> QED
        BY <3>2, <3>3 DEF InfoAllowed, GoodInfo
    <3>5. \A r \in inflight'[f] : r \in inflight[f] /\ req'[r] = req[r]
      BY <2>2
    <3>6. CASE pending'[f] = None
      BY <3>1, <3>4, <3>5, <3>6 DEF FrameStep
    <3>7. CASE pending'[f] # None
      <4>1. pending'[f] = pending[f]
        BY <2>2, <3>7
      <4>2. InfoAllowed(pending'[f], f)
        BY <3>7, <4>1 DEF InfoAllowed
      <4> QED
        BY <2>3, <3>1, <3>4, <3>5, <3>7, <4>1, <4>2 DEF FrameStep
    <3> QED
      BY <3>6, <3>7
  <2> QED
    BY <2>1, <2>4, <2>5, FrameStepsKeepDocInv DEF RequestsAdvance
<1>9. CASE \/ \E f \in Frame : FrameCommittedSameDocumentNavigation(f)
           \/ \E f \in Frame, d \in Document \cup {None} : FrameAbortedNavigation(f, d)
           \/ \E f \in Frame, event \in RegularEvent : FrameLifecycleEvent(f, event)
           \/ \E f \in Frame : NetworkIdleTimerFired(f)
           \/ PageDidCrash
           \/ PageDidClose
           \/ UNCHANGED vars
  <2>1. UNCHANGED <<treeVars, inflight, req, current>>
    BY <1>9 DEF FrameCommittedSameDocumentNavigation, FrameAbortedNavigation, FrameLifecycleEvent,
                NetworkIdleTimerFired, PageDidCrash, PageDidClose, vars, treeVars, docVars
  <2>2. \A g \in Frame : pending'[g] = pending[g] \/ pending'[g] = None
    BY <1>9 DEF TypeOK, FrameCommittedSameDocumentNavigation, FrameAbortedNavigation,
                FrameLifecycleEvent, NetworkIdleTimerFired, PageDidCrash, PageDidClose, vars, docVars
  <2> QED
    BY <1>3, <2>1, <2>2
<1> QED
  BY <1>1, <1>2, <1>4, <1>5, <1>6, <1>7, <1>8, <1>9 DEF Next, BrowserStep, vars

LEMMA DocInvariance == Spec => [](TypeOK /\ DocInv)
BY InitTypeOK, NextTypeOK, InitDocInv, NextDocInv, PTL DEF Spec

(* _inflightRequestFinished never meets a request that was counted for      *)
(* another frame, or that has ended before.                                 *)
THEOREM InflightStaysLive == Spec => []InflightIsLive
BY DocInvariance, DocInvImplies, PTL

(* The answer of goto() is the request of the very document it waited for.  *)
THEOREM DocumentsKeepTheirRequest == Spec => []DocumentRequestMatches
BY DocInvariance, DocInvImplies, PTL

(* requestFailed always reaches the pending document of the failed request. *)
THEOREM FailureEndsPendingDocument == Spec => []FailedRequestIsNotPending
BY DocInvariance, DocInvImplies, PTL

(* Redirects, swaps of processes, competing navigations and late answers    *)
(* never mix up the requests of frames and documents.                       *)
THEOREM RequestsMatch == Spec => []RequestsMatchDocuments
BY InflightStaysLive, DocumentsKeepTheirRequest, FailureEndsPendingDocument, PTL
   DEF RequestsMatchDocuments

(* However callbacks and timers of any frames interleave, the tree, the timers *)
(* and requests in flight, and the documents and their requests agree.       *)
THEOREM EverythingAgrees == Spec => []StateAgrees
BY TreeStaysConnected, TimersAgree, RequestsMatch, PTL DEF StateAgrees

-----------------------------------------------------------------------------
USE UntilAssumption

(***************************************************************************)
(* The calls watch the frame manager and never disturb it.                 *)
(***************************************************************************)
LEMMA PageStepsAreFrameManagers == PageStep => [Next]_vars
<1> SUFFICES ASSUME PageStep PROVE [Next]_vars
  OBVIOUS
<1>1. ASSUME NEW f \in Frame, FiresTimer(f) PROVE Next
  BY <1>1 DEF FiresTimer, Next
<1>2. ASSUME NEW f \in Frame, CommitsSameDocument(f), page # "closed" PROVE [Next]_vars
  BY <1>2 DEF CommitsSameDocument, Next, BrowserStep
<1>3. ASSUME page # "closed",
             \/ \E f \in Frame, d \in Document : CommitsNewDocument(f, d)
             \/ \E f \in Frame, d \in Document \cup {None} : AbortsNavigation(f, d) \/ RequestsNavigation(f, d)
             \/ \E f, parent \in Frame : AttachesFrame(f, parent)
             \/ \E f \in Frame : RemovesFrames(f)
             \/ \E f \in Frame, event \in RegularEvent : FiresLifecycle(f, event)
             \/ Crashes \/ Closes
      PROVE  Next
  BY <1>3 DEF CommitsNewDocument, AbortsNavigation, RequestsNavigation, AttachesFrame,
              RemovesFrames, FiresLifecycle, Crashes, Closes, Next, BrowserStep
<1>4. ASSUME page # "closed",
             \/ \E r \in Request, f \in Frame, d \in Document \cup {None} : StartsRequest(r, f, d)
             \/ \E r, next \in Request : RedirectsRequest(r, next)
             \/ \E r \in Request : FinishesRequest(r) \/ FailsRequest(r)
      PROVE  Next
  BY <1>4 DEF StartsRequest, RedirectsRequest, FinishesRequest, FailsRequest, Next, BrowserStep
<1> QED
  BY <1>1, <1>2, <1>3, <1>4 DEF PageStep

LEMMA CallStepsLeaveThePage == CallStep => UNCHANGED <<vars, heard>>
BY DEF CallStep, Goto, WaitForNavigation, RedirectNavigation, NavigateFrameReturns,
       NavigateFrameFails, CommandReturns, NothingToGoTo, ResponseArrives, TimeOut, Updates

LEMMA NavStepsAreFrameManagers == [NavNext]_allVars => [Next]_vars
BY PageStepsAreFrameManagers, CallStepsLeaveThePage DEF NavNext, allVars

(* Whatever is called, the page and its frames behave as in FrameManager, so  *)
(* that each theorem about FrameManager holds with calls as well.            *)
THEOREM CallsOnlyWatch == NavSpec => Spec
<1>1. NavInit => Init
  BY DEF NavInit
<1> QED
  BY <1>1, NavStepsAreFrameManagers, PTL DEF NavSpec, Spec

(***************************************************************************)
(* The calls themselves.  CallOK is the state of one call; Awaited relates  *)
(* a call to what it has heard and to the lifecycle events of its frame.   *)
(* The strengthening says what a goto has collected when it is answered,   *)
(* and that nothing of the frame escapes a call that heard its commit.     *)
(***************************************************************************)
CallOK(r) ==
  /\ r \in CallState
  /\ r.collected # NothingCollected => r.phase = "sent"
  /\ r.phase = "sent" => r.kind \in {"goto", "redirected"}
  /\ r.phase \in {"ready", "broken"} => r.kind \in {"reload", "history"} /\ ~r.answered
  /\ r.error # "none" => r.phase \in {"failed", "following", "broken", "done"}
  /\ r.kind = "redirected" <=> r.original # None

Within(r) == r.kind = "goto" /\ r.target = None

Awaited(r, h, events) ==
  /\ r.phase \in {"idle", "waiting"} => h = {}
  /\ r.phase = "sent" /\ (r.target = None \/ r.collected.commit = None) => h = {}
  /\ r.phase = "sent" /\ r.target # None /\ r.collected.commit = r.target => h # {}
  /\ r.phase = "loading" => r.until \notin events /\ (h # {} \/ Within(r))
  /\ r.phase \in {"answering", "ready", "done"} =>
        r.error # "none" \/ Within(r) \/ r.until \in h
  /\ r.phase \in {"following", "broken"} => r.error # "none"
  /\ r.kind = "redirected" => r.target # None
  /\ h # {} => events \subseteq h

CommitFired == \A f \in Attached : "commit" \in fired[f]

NavInv ==
  /\ call \in [Call -> CallState]
  /\ heard \in [Call -> SUBSET Lifecycle]
  /\ \A c \in Call : CallOK(call[c]) /\ Awaited(call[c], heard[c], fired[call[c].frame])

LEMMA NavInvImplies == TypeOK /\ NavInv => CallsOK /\ CallsMissNothing
BY DEF NavInv, CallOK, Awaited, Within, CallsOK, CallsMissNothing, CallsSeeTheirDocument,
       NoEventIsMissed

LEMMA NewCallType == NewCall \in CallState
BY DEF NewCall, CallState, Kind, Phase, Collected, NothingCollected, Lifecycle

LEMMA InitNavInv == NavInit => NavInv /\ CommitFired
<1> SUFFICES ASSUME NavInit PROVE NavInv /\ CommitFired
  OBVIOUS
<1>1. CommitFired
  BY DEF NavInit, Init, CommitFired, Attached
<1> QED
  BY <1>1, NewCallType DEF NavInit, NavInv, CallOK, Awaited, NewCall, NothingCollected

(* A frame in the tree has always fired "commit".                           *)
LEMMA CommitStaysFired == TypeOK /\ CommitFired /\ [Next]_vars => CommitFired'
<1> SUFFICES ASSUME TypeOK, CommitFired, [Next]_vars PROVE CommitFired'
  OBVIOUS
<1> USE DEF CommitFired, Attached, treeVars, idleVars, Recalculated
<1>1. ASSUME NEW f \in Frame, NEW parent \in Frame, FrameAttached(f, parent) PROVE CommitFired'
  BY <1>1 DEF TypeOK, FrameAttached
<1>2. ASSUME NEW f \in Frame, FrameDetached(f) PROVE CommitFired'
  BY <1>2 DEF TypeOK, FrameDetached, Removed
<1>3. ASSUME NEW f \in Frame, RemoveChildFramesRecursively(f) PROVE CommitFired'
  BY <1>3 DEF TypeOK, RemoveChildFramesRecursively, Removed
<1>4. ASSUME NEW r \in Request, NEW f \in Frame, NEW d \in Document \cup {None},
             RequestStarted(r, f, d)
      PROVE  CommitFired'
  BY <1>4 DEF RequestStarted, InflightRequestStarted
<1>5. ASSUME NEW r \in Request, NEW next \in Request, RequestRedirected(r, next) PROVE CommitFired'
  BY <1>5 DEF RequestRedirected, InflightRequestStarted
<1>6. ASSUME NEW r \in Request, ReportRequestFinished(r) PROVE CommitFired'
  BY <1>6 DEF ReportRequestFinished, InflightRequestFinished
<1>7. ASSUME NEW r \in Request, RequestFailed(r) PROVE CommitFired'
  BY <1>7 DEF RequestFailed, InflightRequestFinished
<1>8. ASSUME NEW f \in Frame, NEW d \in Document \cup {None}, FrameRequestedNavigation(f, d)
      PROVE  CommitFired'
  BY <1>8 DEF FrameRequestedNavigation
<1>9. ASSUME NEW f \in Frame, NEW d \in Document, FrameCommittedNewDocumentNavigation(f, d)
      PROVE  CommitFired'
  BY <1>9 DEF TypeOK, FrameCommittedNewDocumentNavigation, Removed
<1>10. ASSUME NEW f \in Frame, FrameCommittedSameDocumentNavigation(f) PROVE CommitFired'
  BY <1>10 DEF FrameCommittedSameDocumentNavigation
<1>11. ASSUME NEW f \in Frame, NEW d \in Document \cup {None}, FrameAbortedNavigation(f, d)
       PROVE  CommitFired'
  BY <1>11 DEF FrameAbortedNavigation
<1>12. ASSUME NEW f \in Frame, NEW event \in RegularEvent, FrameLifecycleEvent(f, event)
       PROVE  CommitFired'
  BY <1>12 DEF TypeOK, FrameLifecycleEvent
<1>13. CASE PageDidCrash \/ PageDidClose
  BY <1>13 DEF PageDidCrash, PageDidClose
<1>14. ASSUME NEW f \in Frame, NetworkIdleTimerFired(f) PROVE CommitFired'
  BY <1>14 DEF TypeOK, NetworkIdleTimerFired
<1>15. CASE UNCHANGED vars
  BY <1>15 DEF vars
<1> QED
  BY <1>1, <1>2, <1>3, <1>4, <1>5, <1>6, <1>7, <1>8, <1>9, <1>10, <1>11, <1>12, <1>13,
     <1>14, <1>15 DEF Next, BrowserStep

(***************************************************************************)
(* How a call ends, or goes on behind a redirected navigation.             *)
(***************************************************************************)
Error == {"none", "aborted", "interrupted", "closed", "timeout", "refused", "redirected"}

(* What Failed and Aborted leave: no event to collect, an error, and the     *)
(* call that it was.                                                        *)
Ended(r, s) ==
  /\ s \in CallState
  /\ s.phase \in {"failed", "following"}
  /\ s.error # "none"
  /\ s.collected = NothingCollected
  /\ s.kind = r.kind /\ s.frame = r.frame /\ s.target = r.target /\ s.original = r.original

LEMMA FailedEnds ==
  ASSUME NEW r \in CallState, NEW e \in Error \ {"none"}
  PROVE  Ended(r, Failed(r, e))
<1> DEFINE s == [r EXCEPT !.phase = "failed"]
           t == [s EXCEPT !.error = e]
           u == [t EXCEPT !.collected = NothingCollected]
<1>1. NothingCollected \in Collected
  BY DEF NothingCollected, Collected
<1>2. /\ s \in CallState /\ s.phase = "failed" /\ s.kind = r.kind /\ s.frame = r.frame
      /\ s.target = r.target /\ s.original = r.original
  BY DEF CallState, Phase
<1>3. /\ t \in CallState /\ t.error = e /\ t.phase = s.phase /\ t.kind = s.kind
      /\ t.frame = s.frame /\ t.target = s.target /\ t.original = s.original
  <2> HIDE DEF s
  <2> QED
    BY <1>2 DEF CallState, Error
<1>4. /\ u \in CallState /\ u.collected = NothingCollected /\ u.error = t.error
      /\ u.phase = t.phase /\ u.kind = t.kind /\ u.frame = t.frame
      /\ u.target = t.target /\ u.original = t.original
  <2> HIDE DEF t
  <2> QED
    BY <1>1, <1>3 DEF CallState
<1>5. Failed(r, e) = u
  BY DEF Failed
<1> HIDE DEF s, t, u
<1> QED
  BY <1>2, <1>3, <1>4, <1>5 DEF Ended

LEMMA AbortedEnds ==
  ASSUME NEW r \in CallState, NEW d, NEW e \in Error \ {"none"}
  PROVE  Ended(r, Aborted(r, d, e))
<1>1. CASE r.kind # "redirected" /\ Redirection(d) # {}
  BY <1>1 DEF Aborted, Ended, CallState, Phase, NothingCollected, Collected
<1> QED
  BY <1>1, FailedEnds DEF Aborted

LEMMA EndedIsGood ==
  ASSUME NEW r, CallOK(r), NEW h, NEW events, NEW s,
         h # {} => events \subseteq h, r.kind = "redirected" => r.target # None, Ended(r, s)
  PROVE  CallOK(s) /\ Awaited(s, h, events)
BY DEF Ended, CallOK, Awaited

(* raceNavigationAction: the frame or the page is gone.                      *)
LEMMA RacedIsGood ==
  ASSUME NEW r, CallOK(r), NEW h, NEW events, Awaited(r, h, events)
  PROVE  /\ CallOK(Raced(r)) /\ Awaited(Raced(r), h, events)
         /\ Raced(r).frame = r.frame
<1>1. r \in CallState
  BY DEF CallOK
<1>2. Ended(r, Failed(r, "closed"))
  BY <1>1, FailedEnds DEF Error
<1>3. CallOK(Failed(r, "closed")) /\ Awaited(Failed(r, "closed"), h, events)
  <2>1. (h # {} => events \subseteq h) /\ (r.kind = "redirected" => r.target # None)
    BY DEF Awaited
  <2> QED
    BY <1>2, <2>1, EndedIsGood
<1> QED
  BY <1>2, <1>3 DEF Raced, Ended

(* A redirected navigation that ends moves only the calls that follow it.    *)
LEMMA FollowedIsGood ==
  ASSUME NEW calls, NEW c \in Call, CallOK(calls[c]), NEW h, NEW events,
         Awaited(calls[c], h, events)
  PROVE  /\ CallOK(Followed(calls)[c]) /\ Awaited(Followed(calls)[c], h, events)
         /\ Followed(calls)[c].frame = calls[c].frame
<1> DEFINE r == calls[c]
           done == [r EXCEPT !.phase = "done"]
<1>1. r \in CallState
  BY DEF CallOK
<1>2. \/ Followed(calls)[c] = r
      \/ r.phase = "following" /\ Followed(calls)[c] = done
      \/ Followed(calls)[c] = Failed(r, "redirected")
  BY DEF Followed
<1>3. CASE Followed(calls)[c] = r
  BY <1>3
<1>4. CASE r.phase = "following" /\ Followed(calls)[c] = done
  <2>1. /\ done \in CallState /\ done.phase = "done" /\ done.error = r.error
        /\ done.collected = r.collected /\ done.kind = r.kind /\ done.frame = r.frame
        /\ done.target = r.target /\ done.original = r.original
    BY <1>1 DEF CallState, Phase
  <2>2. CallOK(done)
    BY <1>4, <2>1 DEF CallOK
  <2>3. Awaited(done, h, events)
    BY <1>4, <2>1 DEF Awaited
  <2> QED
    BY <1>4, <2>1, <2>2, <2>3
<1>5. CASE Followed(calls)[c] = Failed(r, "redirected")
  <2>1. Ended(r, Failed(r, "redirected"))
    BY <1>1, FailedEnds DEF Error
  <2>2. CallOK(Failed(r, "redirected")) /\ Awaited(Failed(r, "redirected"), h, events)
    <3>1. (h # {} => events \subseteq h) /\ (r.kind = "redirected" => r.target # None)
      BY DEF Awaited
    <3> QED
      BY <2>1, <3>1, EndedIsGood
  <2> QED
    BY <1>5, <2>1, <2>2 DEF Ended
<1> QED
  BY <1>2, <1>3, <1>4, <1>5

(***************************************************************************)
(* The changes that a call makes to itself, field by field.                *)
(***************************************************************************)
Same(r, s) ==
  /\ s.kind = r.kind /\ s.frame = r.frame /\ s.until = r.until
  /\ s.target = r.target /\ s.original = r.original

LEMMA PhaseSet ==
  ASSUME NEW r \in CallState, NEW p \in Phase
  PROVE  LET s == [r EXCEPT !.phase = p]
         IN  /\ s \in CallState /\ Same(r, s) /\ s.phase = p
             /\ s.collected = r.collected /\ s.answered = r.answered /\ s.error = r.error
<1> HIDE DEF Phase
<1> QED
  BY DEF CallState, Same

LEMMA CollectedSet ==
  ASSUME NEW r \in CallState, NEW x \in Collected
  PROVE  LET s == [r EXCEPT !.collected = x]
         IN  /\ s \in CallState /\ Same(r, s) /\ s.phase = r.phase
             /\ s.collected = x /\ s.answered = r.answered /\ s.error = r.error
<1> HIDE DEF Collected
<1> QED
  BY DEF CallState, Same

LEMMA AnsweredSet ==
  ASSUME NEW r \in CallState
  PROVE  LET s == [r EXCEPT !.answered = TRUE]
         IN  /\ s \in CallState /\ Same(r, s) /\ s.phase = r.phase
             /\ s.collected = r.collected /\ s.answered = TRUE /\ s.error = r.error
BY DEF CallState, Same

Broken(r, d, e) == [r EXCEPT !.phase = "broken", !.document = d, !.error = e]

LEMMA BrokenSet ==
  ASSUME NEW r \in CallState, NEW d \in Document \cup {None}, NEW e \in Error
  PROVE  LET b == Broken(r, d, e)
         IN  /\ b \in CallState /\ Same(r, b) /\ b.phase = "broken"
             /\ b.collected = r.collected /\ b.answered = r.answered /\ b.error = e
<1> DEFINE s == [r EXCEPT !.phase = "broken"]
           t == [s EXCEPT !.document = d]
           u == [t EXCEPT !.error = e]
<1>1. /\ s \in CallState /\ Same(r, s) /\ s.phase = "broken"
      /\ s.collected = r.collected /\ s.answered = r.answered
  BY PhaseSet DEF Phase
<1>2. /\ t \in CallState /\ Same(s, t) /\ t.phase = s.phase
      /\ t.collected = s.collected /\ t.answered = s.answered
  <2> HIDE DEF s
  <2> QED
    BY <1>1 DEF CallState, Same
<1>3. /\ u \in CallState /\ Same(t, u) /\ u.phase = t.phase
      /\ u.collected = t.collected /\ u.answered = t.answered /\ u.error = e
  <2> HIDE DEF t
  <2> QED
    BY <1>2 DEF CallState, Same, Error
<1>4. Broken(r, d, e) = u
  BY DEF Broken
<1> HIDE DEF s, t, u
<1> QED
  BY <1>1, <1>2, <1>3, <1>4 DEF Same

(* A call that has its navigation waits for the lifecycle event unless it    *)
(* has fired, and what has fired since the commit it has heard.             *)
LEMMA NavigatedIsGood ==
  ASSUME NEW r \in CallState, r.error = "none", r.kind = "redirected" <=> r.original # None,
         r.kind = "redirected" => r.target # None,
         NEW h, NEW events, h # {} => events \subseteq h, h # {} \/ Within(r),
         NEW s \in CallState, Same(r, s), s.collected = NothingCollected, s.error = "none",
         s.phase = IF r.until \in events THEN "answering" ELSE "loading"
  PROVE  CallOK(s) /\ Awaited(s, h, events)
<1>1. s.until \in events => s.until \in h \/ Within(s)
  BY DEF Same, Within
<1>2. h # {} \/ Within(s)
  BY DEF Same, Within
<1>3. s.phase \in {"answering", "loading"} /\ (s.phase = "answering" <=> s.until \in events)
  BY DEF Same
<1>4. CallOK(s)
  BY <1>3 DEF CallOK, Same
<1>5. s.kind = "redirected" => s.target # None
  BY DEF Same
<1> QED
  BY <1>1, <1>2, <1>3, <1>4, <1>5 DEF Awaited

LEMMA NavigatedFields ==
  ASSUME NEW r \in CallState, NEW events
  PROVE  LET s == Navigated(r, events)
         IN  /\ s \in CallState /\ Same(r, s)
             /\ s.phase = IF r.until \in events THEN "answering" ELSE "loading"
             /\ s.collected = r.collected /\ s.answered = r.answered /\ s.error = r.error
<1> DEFINE p == IF r.until \in events THEN "answering" ELSE "loading"
<1>1. p \in Phase
  BY DEF Phase
<1>2. Navigated(r, events) = [r EXCEPT !.phase = p]
  BY DEF Navigated
<1> HIDE DEF p
<1>3. LET s == [r EXCEPT !.phase = p]
      IN  /\ s \in CallState /\ Same(r, s) /\ s.phase = p
          /\ s.collected = r.collected /\ s.answered = r.answered /\ s.error = r.error
  BY <1>1, PhaseSet
<1> QED
  BY <1>2, <1>3 DEF p

LEMMA NavigatedCallIsGood ==
  ASSUME NEW r, CallOK(r), r.error = "none", r.collected = NothingCollected,
         r.kind = "redirected" => r.target # None,
         NEW h, NEW events, h # {} => events \subseteq h, h # {} \/ Within(r)
  PROVE  LET s == Navigated(r, events)
         IN  CallOK(s) /\ Awaited(s, h, events) /\ s.frame = r.frame
<1> DEFINE s == Navigated(r, events)
<1>1. r \in CallState /\ (r.kind = "redirected" <=> r.original # None)
  BY DEF CallOK
<1>2. /\ s \in CallState /\ Same(r, s)
      /\ s.phase = IF r.until \in events THEN "answering" ELSE "loading"
      /\ s.collected = NothingCollected /\ s.error = "none"
  BY <1>1, NavigatedFields
<1> HIDE DEF s
<1>3. CallOK(s) /\ Awaited(s, h, events)
  BY <1>1, <1>2, NavigatedIsGood
<1> QED
  BY <1>2, <1>3 DEF Same, s

(* goBack and goForward keep the error until their command returns.          *)
LEMMA BrokenIsGood ==
  ASSUME NEW r, CallOK(r), r.kind = "history", ~r.answered, r.collected = NothingCollected,
         NEW d \in Document \cup {None},
         NEW h, NEW events, h # {} => events \subseteq h
  PROVE  LET s == Broken(r, d, "aborted")
         IN  CallOK(s) /\ Awaited(s, h, events) /\ s.frame = r.frame
<1> DEFINE s == Broken(r, d, "aborted")
<1>1. r \in CallState /\ "aborted" \in Error
  BY DEF CallOK, Error
<1>2. /\ s \in CallState /\ Same(r, s) /\ s.phase = "broken"
      /\ s.collected = r.collected /\ s.answered = r.answered /\ s.error = "aborted"
  BY <1>1, BrokenSet
<1> HIDE DEF s
<1>3. CallOK(s) /\ Awaited(s, h, events)
  BY <1>2 DEF CallOK, Awaited, Same
<1> QED
  BY <1>2, <1>3 DEF Same, s

(***************************************************************************)
(* What a call does with an event of its frame, one lemma for each phase    *)
(* in which it listens.                                                    *)
(***************************************************************************)
EventOK(e) ==
  /\ e.type \in {"none", "commit", "same", "abort"}
  /\ e.type = "commit" => e.document \in Document
  /\ e.type = "abort" => e.document \in Document \cup {None} /\ e.error \in Document \cup {None}

(* A call meets an event: "old" is what it had heard of its frame, with the   *)
(* events "before", and "h" what it has heard then, with the events after.   *)
Meets(r, old, before, e, h, events) ==
  /\ CallOK(r) /\ Awaited(r, old, before) /\ EventOK(e)
  /\ h # {} => events \subseteq h
  /\ IsAbout(r, e) => h # {}
  /\ ~IsAbout(r, e) => (h = {} <=> old = {}) /\ old \subseteq h
  /\ ~IsAbout(r, e) /\ old # {} => Added(r.frame, e) \subseteq h
  /\ before = fired[r.frame] /\ events = fired'[r.frame]

LEMMA CollectFields ==
  ASSUME NEW x \in Collected, NEW e, EventOK(e)
  PROVE  /\ Collect(x, e) \in Collected
         /\ Collect(x, e).commit = IF e.type = "commit" /\ x.commit = None
                                   THEN e.document ELSE x.commit
<1>1. CASE e.type = "commit" /\ x.commit = None
  BY <1>1 DEF Collect, Collected, EventOK
<1>2. CASE e.type = "abort" /\ x.commit = None /\ e.document # None
  BY <1>2 DEF Collect, Collected, EventOK
<1>3. CASE e.type = "same"
  BY <1>3 DEF Collect, Collected, EventOK
<1> QED
  BY <1>1, <1>2, <1>3 DEF Collect, EventOK

(* A goto that does not know its document yet.                               *)
LEMMA SentHears ==
  ASSUME NEW r, NEW old, NEW before, NEW e, NEW h, NEW events,
         Meets(r, old, before, e, h, events),
         r.phase = "sent",
         e.type # "none", e.frame = r.frame
  PROVE  LET s == [r EXCEPT !.collected = Collect(@, e)]
         IN  CallOK(s) /\ Awaited(s, h, events) /\ s.frame = r.frame
<1> USE DEF Meets
<1> DEFINE s == [r EXCEPT !.collected = Collect(@, e)]
<1>1. r \in CallState /\ r.collected \in Collected
  BY DEF CallOK, CallState
<1>2. /\ Collect(r.collected, e) \in Collected
      /\ Collect(r.collected, e).commit = IF e.type = "commit" /\ r.collected.commit = None
                                          THEN e.document ELSE r.collected.commit
  BY <1>1, CollectFields
<1>3. /\ s \in CallState /\ Same(r, s) /\ s.phase = "sent" /\ s.error = r.error
      /\ s.collected = Collect(r.collected, e)
  BY <1>1, <1>2, CollectedSet
<1>4. IsAbout(r, e) <=> e.type = "commit" /\ e.document = r.target
  BY DEF IsAbout, CallOK
<1> HIDE DEF s
<1>5. CallOK(s)
  BY <1>3 DEF CallOK, Same
<1>6. s.target = None \/ s.collected.commit = None => h = {}
  <2>0. CASE r.target = None
    BY <2>0, <1>4 DEF EventOK, Awaited
  <2>1. CASE e.type = "commit"
    BY <2>0, <2>1, <1>2, <1>3 DEF EventOK, Same
  <2>2. CASE e.type # "commit"
    BY <2>0, <2>2, <1>2, <1>3, <1>4 DEF Awaited, Same
  <2> QED
    BY <2>1, <2>2
<1>7. s.target # None /\ s.collected.commit = s.target => h # {}
  <2>1. CASE e.type = "commit" /\ r.collected.commit = None
    BY <2>1, <1>2, <1>3, <1>4 DEF Same
  <2>2. CASE ~(e.type = "commit" /\ r.collected.commit = None)
    BY <2>2, <1>2, <1>3 DEF Awaited, Same
  <2> QED
    BY <2>1, <2>2
<1>8. s.kind = "redirected" => s.target # None
  BY <1>3 DEF Awaited, Same
<1>9. Awaited(s, h, events)
  BY <1>3, <1>6, <1>7, <1>8 DEF Awaited
<1> QED
  BY <1>3, <1>5, <1>9 DEF Same, s

(* A goto that waits, of a document or within its document.                  *)
LEMMA GotoHears ==
  ASSUME NEW r, NEW old, NEW before, NEW e, NEW h, NEW events,
         Meets(r, old, before, e, h, events),
         r.phase = "waiting",
         r.kind \in {"goto", "redirected"},
         e.type # "none", e.frame = r.frame
  PROVE  LET s == HearsGoto(r, e, events)
         IN  CallOK(s) /\ Awaited(s, h, events) /\ s.frame = r.frame
<1> USE DEF Meets
<1> DEFINE s == HearsGoto(r, e, events)
<1>1. /\ r \in CallState /\ r.error = "none" /\ r.collected = NothingCollected
      /\ r.kind = "redirected" <=> r.original # None
      /\ r.kind = "redirected" => r.target # None
      /\ old = {}
  BY DEF CallOK, Awaited
<1>2. IsAbout(r, e) <=> e.type = "commit" /\ e.document = r.target
  BY DEF IsAbout
<1>3. ~IsAbout(r, e) => CallOK(r) /\ Awaited(r, h, events)
  BY <1>1 DEF Awaited
<1>4. CASE r.target = None
  <2>1. ~IsAbout(r, e)
    BY <1>4, <1>2 DEF EventOK
  <2>2. Within(r)
    BY <1>1, <1>4 DEF Within
  <2>3. LET n == Navigated(r, events)
        IN  CallOK(n) /\ Awaited(n, h, events) /\ n.frame = r.frame
    BY <1>1, <2>2, NavigatedCallIsGood
  <2> QED
    BY <1>3, <1>4, <2>1, <2>3 DEF HearsGoto
<1>5. CASE r.target # None /\ e.type = "commit" /\ e.document = r.target
  <2>1. h # {}
    BY <1>5, <1>2
  <2>2. LET n == Navigated(r, events)
        IN  CallOK(n) /\ Awaited(n, h, events) /\ n.frame = r.frame
    BY <1>1, <2>1, NavigatedCallIsGood
  <2> QED
    BY <1>5, <2>2 DEF HearsGoto, GotoCommitted
<1>6. ASSUME NEW d, NEW x \in Error \ {"none"}, s = Aborted(r, d, x)
      PROVE  CallOK(s) /\ Awaited(s, h, events) /\ s.frame = r.frame
  <2>1. Ended(r, Aborted(r, d, x))
    BY <1>1, AbortedEnds
  <2> QED
    BY <1>1, <1>6, <2>1, EndedIsGood DEF Ended
<1>7. CASE r.target # None /\ e.type = "commit" /\ e.document # r.target
  BY <1>6, <1>7 DEF HearsGoto, GotoCommitted, Error
<1>8. CASE r.target # None /\ e.type # "commit"
  <2>1. CASE e.type = "abort" /\ e.document = r.target
    BY <1>6, <1>8, <2>1 DEF HearsGoto, Error
  <2>2. CASE ~(e.type = "abort" /\ e.document = r.target)
    BY <1>2, <1>3, <1>8, <2>2 DEF HearsGoto
  <2> QED
    BY <2>1, <2>2
<1> QED
  BY <1>4, <1>5, <1>7, <1>8

(* waitForNavigation.                                                       *)
LEMMA WaitHears ==
  ASSUME NEW r, NEW old, NEW before, NEW e, NEW h, NEW events,
         Meets(r, old, before, e, h, events),
         r.phase = "waiting",
         r.kind \in {"reload", "history"},
         e.type # "none", e.frame = r.frame
  PROVE  LET s == HearsWait(r, e, events)
         IN  CallOK(s) /\ Awaited(s, h, events) /\ s.frame = r.frame
<1> USE DEF Meets
<1> DEFINE s == HearsWait(r, e, events)
<1>1. /\ r \in CallState /\ r.error = "none" /\ r.collected = NothingCollected
      /\ r.kind # "redirected" /\ r.original = None
      /\ old = {}
  BY DEF CallOK, Awaited
<1>2. IsAbout(r, e) <=> e.type = "commit" \/ (e.type = "same" /\ r.kind = "history")
  BY DEF IsAbout
<1>3. CASE e.type = "abort"
  <2>1. CASE r.kind = "history" /\ ~r.answered
    <3>1. s = Broken(r, e.error, "aborted")
      BY <1>3, <2>1 DEF HearsWait, NavigationAborted, Broken
    <3>2. e.error \in Document \cup {None}
      BY <1>3 DEF EventOK
    <3> QED
      BY <1>1, <2>1, <3>1, <3>2, BrokenIsGood
  <2>2. CASE ~(r.kind = "history" /\ ~r.answered)
    <3>1. s = Aborted(r, e.error, "aborted")
      BY <1>3, <2>2 DEF HearsWait, NavigationAborted
    <3>2. Ended(r, Aborted(r, e.error, "aborted"))
      BY <1>1, AbortedEnds DEF Error
    <3> QED
      BY <1>1, <3>1, <3>2, EndedIsGood DEF Ended
  <2> QED
    BY <2>1, <2>2
<1>4. CASE e.type = "same" /\ r.kind = "reload"
  <2>1. ~IsAbout(r, e) /\ s = r
    BY <1>2, <1>4 DEF HearsWait
  <2> QED
    BY <1>1, <2>1 DEF Awaited
<1>5. CASE e.type \in {"commit", "same"} /\ ~(e.type = "same" /\ r.kind = "reload")
  <2>1. h # {} /\ s = Navigated(r, events)
    BY <1>2, <1>5 DEF HearsWait
  <2>2. LET n == Navigated(r, events)
        IN  CallOK(n) /\ Awaited(n, h, events) /\ n.frame = r.frame
    BY <1>1, <2>1, NavigatedCallIsGood
  <2> QED
    BY <2>1, <2>2
<1> QED
  BY <1>3, <1>4, <1>5 DEF EventOK

(* Any call, whether it listens or not.                                      *)
LEMMA HearsIsGood ==
  ASSUME NEW r, NEW old, NEW before, NEW e, NEW h, NEW events,
         Meets(r, old, before, e, h, events)
  PROVE  LET s == Hears(Woken(r, e), e, events)
         IN  CallOK(s) /\ Awaited(s, h, events) /\ s.frame = r.frame
<1> DEFINE w == Woken(r, e)
           s == Hears(w, e, events)
<1>0. /\ CallOK(r) /\ Awaited(r, old, before)
      /\ h # {} => events \subseteq h
      /\ ~IsAbout(r, e) => (h = {} <=> old = {}) /\ old \subseteq h
      /\ ~IsAbout(r, e) /\ old # {} => Added(r.frame, e) \subseteq h
      /\ before = fired[r.frame] /\ events = fired'[r.frame]
  BY DEF Meets
<1>1. r \in CallState
  BY <1>0 DEF CallOK
<1>2. IsAbout(r, e) => r.phase \in {"sent", "waiting"} /\ e.type # "none" /\ e.frame = r.frame
  BY DEF IsAbout
<1>3. CASE r.phase = "loading" /\ r.until \in Added(r.frame, e)
  <2>1. w = [r EXCEPT !.phase = "answering"]
    BY <1>3 DEF Woken
  <2>2. /\ w \in CallState /\ Same(r, w) /\ w.phase = "answering"
        /\ w.collected = r.collected /\ w.answered = r.answered /\ w.error = r.error
    <3>1. "answering" \in Phase
      BY DEF Phase
    <3> QED
      BY <1>1, <2>1, <3>1, PhaseSet
  <2>3. s = w
    BY <2>2 DEF Hears
  <2>4. old # {} \/ Within(r)
    BY <1>0, <1>3 DEF Awaited
  <2>5. w.until \in h \/ Within(w)
    BY <1>0, <1>2, <1>3, <2>2, <2>4 DEF Same, Within
  <2> HIDE DEF w
  <2>6. CallOK(w)
    BY <1>0, <1>3, <2>2 DEF CallOK, Same
  <2>7. Awaited(w, h, events)
    BY <1>0, <2>2, <2>5 DEF Awaited, Same
  <2> QED
    BY <2>2, <2>3, <2>6, <2>7 DEF Same, w
<1>4. CASE r.phase = "loading" /\ r.until \notin Added(r.frame, e)
  <2>1. w = r
    BY <1>4 DEF Woken
  <2>2. s = r
    BY <1>4, <2>1 DEF Hears
  <2>3. r.until \notin events /\ (h # {} \/ Within(r))
    BY <1>0, <1>2, <1>4 DEF Awaited, Added
  <2>4. Awaited(r, h, events)
    BY <1>0, <1>4, <2>3 DEF Awaited
  <2> QED
    BY <1>0, <2>2, <2>4
<1>5. CASE r.phase \in {"sent", "waiting"} /\ e.type # "none" /\ e.frame = r.frame
  <2>1. w = r
    BY <1>5 DEF Woken
  <2>2. CASE r.phase = "sent"
    <3>1. s = [r EXCEPT !.collected = Collect(@, e)]
      BY <1>5, <2>1, <2>2 DEF Hears
    <3> QED
      BY <1>5, <2>2, <3>1, SentHears
  <2>3. CASE r.phase = "waiting" /\ r.kind \in {"goto", "redirected"}
    <3>1. s = HearsGoto(r, e, events)
      BY <1>5, <2>1, <2>3 DEF Hears
    <3> QED
      BY <1>5, <2>3, <3>1, GotoHears
  <2>4. CASE r.phase = "waiting" /\ r.kind \in {"reload", "history"}
    <3>1. s = HearsWait(r, e, events)
      BY <1>5, <2>1, <2>4 DEF Hears
    <3> QED
      BY <1>5, <2>4, <3>1, WaitHears
  <2> QED
    BY <1>1, <1>5, <2>2, <2>3, <2>4 DEF CallState, Kind
<1>6. CASE /\ r.phase # "loading"
           /\ ~(r.phase \in {"sent", "waiting"} /\ e.type # "none" /\ e.frame = r.frame)
  <2>1. w = r
    BY <1>6 DEF Woken
  <2>2. s = r
    BY <1>6, <2>1 DEF Hears
  <2>3. (h = {} <=> old = {}) /\ old \subseteq h
    BY <1>0, <1>2, <1>6
  <2>4. Awaited(r, h, events)
    BY <1>0, <1>6, <2>3 DEF Awaited
  <2> QED
    BY <1>0, <2>2, <2>4
<1> QED
  BY <1>3, <1>4, <1>5, <1>6

(* A callback of the frame manager, with all that it does to the calls.      *)
LEMMA EmitsKeepsNavInv ==
  ASSUME TypeOK, TypeOK', NavInv, NEW e, EventOK(e), Emits(e),
         e.type \in {"commit", "same"} => "commit" \in fired'[e.frame]
  PROVE  NavInv'
<1> DEFINE mid == [c \in Call |-> Raced(Hears(Woken(call[c], e), e, fired'[call[c].frame]))]
<1>1. call' = Followed(mid)
  BY DEF Emits, Seen
<1>2. ASSUME NEW c \in Call
      PROVE  /\ CallOK(mid[c]) /\ Awaited(mid[c], heard'[c], fired'[mid[c].frame])
             /\ heard'[c] \in SUBSET Lifecycle
  <2> DEFINE r == call[c]
             ev == fired'[r.frame]
             h == heard'[c]
             s == Hears(Woken(r, e), e, ev)
  <2>1. CallOK(r) /\ Awaited(r, heard[c], fired[r.frame]) /\ heard[c] \in SUBSET Lifecycle
    BY DEF NavInv
  <2>2. r.frame \in Frame
    BY <2>1 DEF CallOK, CallState
  <2>3. h = IF IsAbout(r, e) THEN ev ELSE IF heard[c] = {} THEN {}
            ELSE heard[c] \cup Added(r.frame, e)
    BY DEF Emits
  <2>4. h # {} => ev \subseteq h
    BY <2>1, <2>3 DEF Awaited, Added
  <2>5. IsAbout(r, e) => h # {}
    <3>1. IsAbout(r, e) => e.type \in {"commit", "same"} /\ e.frame = r.frame
      BY <2>1 DEF IsAbout, CallOK, CallState, Kind
    <3> QED
      BY <2>3, <3>1
  <2>6. /\ ~IsAbout(r, e) => (h = {} <=> heard[c] = {}) /\ heard[c] \subseteq h
        /\ ~IsAbout(r, e) /\ heard[c] # {} => Added(r.frame, e) \subseteq h
    BY <2>3
  <2>7. CallOK(s) /\ Awaited(s, h, ev) /\ s.frame = r.frame
    <3>1. Meets(r, heard[c], fired[r.frame], e, h, ev)
      BY <2>1, <2>4, <2>5, <2>6 DEF Meets
    <3> QED
      BY <3>1, HearsIsGood
  <2>8. h \in SUBSET Lifecycle
    <3>1. ev \in SUBSET Lifecycle
      BY <2>2 DEF TypeOK
    <3>2. Added(r.frame, e) \in SUBSET Lifecycle
      BY <3>1 DEF Added, Lifecycle
    <3> QED
      BY <2>1, <2>3, <3>1, <3>2
  <2>9. mid[c] = Raced(s)
    OBVIOUS
  <2> HIDE DEF s, mid
  <2>10. CallOK(Raced(s)) /\ Awaited(Raced(s), h, ev) /\ Raced(s).frame = r.frame
    BY <2>7, RacedIsGood
  <2> QED
    BY <2>8, <2>9, <2>10
<1> HIDE DEF mid
<1>3. ASSUME NEW c \in Call
      PROVE  CallOK(call'[c]) /\ Awaited(call'[c], heard'[c], fired'[call'[c].frame])
  BY <1>1, <1>2, FollowedIsGood
<1>4. /\ call' = [c \in Call |-> call'[c]]
      /\ heard' = [c \in Call |-> heard'[c]]
  BY <1>1 DEF Followed, Emits
<1> QED
  BY <1>2, <1>3, <1>4 DEF NavInv, CallOK, CallState

(***************************************************************************)
(* The steps that a call makes by itself.                                  *)
(***************************************************************************)
LEMMA UpdatesKeepNavInv ==
  ASSUME NavInv, NEW c \in Call, NEW s, Updates(c, s),
         CallOK(s), Awaited(s, heard[c], fired[s.frame])
  PROVE  NavInv'
<1> DEFINE calls == [call EXCEPT ![c] = s]
<1>1. /\ call' = Followed(calls) /\ heard' = heard /\ fired' = fired
  BY DEF Updates, vars
<1>2. ASSUME NEW i \in Call
      PROVE  CallOK(calls[i]) /\ Awaited(calls[i], heard[i], fired[calls[i].frame])
  BY DEF NavInv
<1> HIDE DEF calls
<1>3. ASSUME NEW i \in Call
      PROVE  CallOK(call'[i]) /\ Awaited(call'[i], heard'[i], fired'[call'[i].frame])
  BY <1>1, <1>2, FollowedIsGood
<1>4. call' = [i \in Call |-> call'[i]]
  BY <1>1 DEF Followed
<1> QED
  BY <1>1, <1>3, <1>4 DEF NavInv, CallOK

(* What a new call has in common with the others: nothing was heard yet.     *)
LEMMA NewCallIsGood ==
  ASSUME NavInv, NEW c \in Call, call[c].phase = "idle", NEW s \in CallState, Updates(c, s),
         s.collected = NothingCollected, s.error = "none", ~s.answered,
         \/ s.phase = "sent" /\ s.kind = "goto" /\ s.original = None
         \/ s.phase = "sent" /\ s.kind = "redirected" /\ s.original # None /\ s.target # None
         \/ s.phase = "waiting" /\ s.kind \in {"reload", "history"} /\ s.original = None
  PROVE  NavInv'
<1>1. heard[c] = {}
  BY DEF NavInv, Awaited
<1>2. CallOK(s)
  BY DEF CallOK
<1>3. s.collected.commit = None
  BY DEF NothingCollected
<1>4. Awaited(s, heard[c], fired[s.frame])
  BY <1>1, <1>3 DEF Awaited
<1> QED
  BY <1>2, <1>4, UpdatesKeepNavInv

(* goto is answered, with what it collected meanwhile.                       *)
LEMMA GotoAnsweredIsGood ==
  ASSUME NEW r, CallOK(r), NEW h, NEW events, Awaited(r, h, events), r.phase = "sent"
  PROVE  LET s == [GotoAnswered(r, events) EXCEPT !.collected = NothingCollected]
         IN  CallOK(s) /\ Awaited(s, h, events) /\ s.frame = r.frame
<1> DEFINE g == GotoAnswered(r, events)
           s == [g EXCEPT !.collected = NothingCollected]
<1>1. /\ r \in CallState /\ r.error = "none" /\ r.collected \in Collected
      /\ r.target \in Document \cup {None}
      /\ r.kind \in {"goto", "redirected"}
      /\ r.kind = "redirected" <=> r.original # None
      /\ r.kind = "redirected" => r.target # None
      /\ h # {} => events \subseteq h
  BY DEF CallOK, Awaited, CallState
<1>2. NothingCollected \in Collected
  BY DEF NothingCollected, Collected
<1>3. ASSUME g = Navigated(r, events), h # {} \/ Within(r)
      PROVE  CallOK(s) /\ Awaited(s, h, events) /\ s.frame = r.frame
  <2>1. /\ g \in CallState /\ Same(r, g)
        /\ g.phase = IF r.until \in events THEN "answering" ELSE "loading"
        /\ g.collected = r.collected /\ g.answered = r.answered /\ g.error = r.error
    BY <1>1, <1>3, NavigatedFields
  <2> HIDE DEF g
  <2>2. /\ s \in CallState /\ Same(g, s) /\ s.phase = g.phase
        /\ s.collected = NothingCollected /\ s.error = g.error
    BY <1>2, <2>1, CollectedSet
  <2> HIDE DEF s
  <2>3. Same(r, s)
    BY <2>1, <2>2 DEF Same
  <2>4. CallOK(s) /\ Awaited(s, h, events)
    BY <1>1, <1>3, <2>1, <2>2, <2>3, NavigatedIsGood
  <2> QED
    BY <2>3, <2>4 DEF Same
<1>4. ASSUME NEW d, NEW x \in Error \ {"none"}, g = Aborted(r, d, x)
      PROVE  CallOK(s) /\ Awaited(s, h, events) /\ s.frame = r.frame
  <2>1. Ended(r, g)
    BY <1>1, <1>4, AbortedEnds
  <2> HIDE DEF g
  <2>2. /\ s \in CallState /\ Same(g, s) /\ s.phase = g.phase
        /\ s.collected = NothingCollected /\ s.error = g.error
    BY <1>2, <2>1, CollectedSet DEF Ended
  <2> HIDE DEF s
  <2>3. Ended(r, s)
    BY <2>1, <2>2 DEF Ended, Same
  <2> QED
    BY <1>1, <2>3, EndedIsGood DEF Ended
<1>5. ASSUME g = [r EXCEPT !.phase = "waiting"], h = {}
      PROVE  CallOK(s) /\ Awaited(s, h, events) /\ s.frame = r.frame
  <2>1. "waiting" \in Phase
    BY DEF Phase
  <2>2. /\ g \in CallState /\ Same(r, g) /\ g.phase = "waiting" /\ g.error = r.error
    BY <1>1, <1>5, <2>1, PhaseSet
  <2> HIDE DEF g
  <2>3. /\ s \in CallState /\ Same(g, s) /\ s.phase = g.phase
        /\ s.collected = NothingCollected /\ s.error = g.error
    BY <1>2, <2>2, CollectedSet
  <2> HIDE DEF s
  <2>4. CallOK(s)
    BY <1>1, <2>2, <2>3 DEF CallOK, Same
  <2>5. Awaited(s, h, events)
    BY <1>1, <1>5, <2>2, <2>3 DEF Awaited, Same
  <2> QED
    BY <2>2, <2>3, <2>4, <2>5 DEF Same
<1>6. CASE r.target = None
  <2>1. Within(r)
    BY <1>1, <1>6 DEF Within
  <2>2. r.target \notin r.collected.aborted /\ r.target \notin Document
    BY <1>1, <1>6 DEF Collected
  <2>3. h = {}
    BY <1>6 DEF Awaited
  <2> QED
    BY <1>3, <1>5, <1>6, <2>1, <2>2, <2>3 DEF GotoAnswered
<1>7. CASE r.target \in r.collected.aborted
  <2>1. r.target # None
    BY <1>1, <1>7 DEF Collected
  <2> QED
    BY <1>4, <1>7, <2>1 DEF GotoAnswered, Error
<1>8. CASE r.target \in Document \ r.collected.aborted /\ r.collected.commit # None
  <2>1. r.target # None
    BY <1>8
  <2>2. g = GotoCommitted(r, r.collected.commit, events)
    BY <1>8, <2>1 DEF GotoAnswered
  <2>3. CASE r.collected.commit = r.target
    <3>1. h # {}
      BY <2>1, <2>3 DEF Awaited
    <3> QED
      BY <1>3, <2>2, <2>3, <3>1 DEF GotoCommitted
  <2>4. CASE r.collected.commit # r.target
    BY <1>4, <2>2, <2>4 DEF GotoCommitted, Error
  <2> QED
    BY <2>3, <2>4
<1>9. CASE r.target \in Document \ r.collected.aborted /\ r.collected.commit = None
  <2>1. h = {}
    BY <1>9 DEF Awaited
  <2>2. r.target # None
    BY <1>9
  <2>3. g = [r EXCEPT !.phase = "waiting"]
    BY <1>9, <2>2 DEF GotoAnswered
  <2> QED
    BY <1>5, <2>1, <2>3
<1> QED
  BY <1>1, <1>6, <1>7, <1>8, <1>9

(* The answers of commands, the response of the document, and the timeout.   *)
LEMMA AnswersKeepNavInv ==
  ASSUME NavInv, NEW c \in Call,
         \/ NavigateFrameReturns(c) \/ NavigateFrameFails(c) \/ CommandReturns(c)
         \/ NothingToGoTo(c) \/ ResponseArrives(c) \/ TimeOut(c)
  PROVE  NavInv'
<1> DEFINE r == call[c]
           h == heard[c]
           events == fired[r.frame]
<1>1. /\ CallOK(r) /\ Awaited(r, h, events) /\ r \in CallState
      /\ h # {} => events \subseteq h
      /\ r.kind = "redirected" => r.target # None
  BY DEF NavInv, CallOK, Awaited
<1>2. ASSUME NEW s, CallOK(s), Awaited(s, h, events), s.frame = r.frame, Updates(c, s)
      PROVE  NavInv'
  BY <1>2, UpdatesKeepNavInv
<1>3. ASSUME NEW s, Ended(r, s), Updates(c, s) PROVE NavInv'
  <2>1. CallOK(s) /\ Awaited(s, h, events) /\ s.frame = r.frame
    BY <1>1, <1>3, EndedIsGood DEF Ended
  <2> QED
    BY <1>2, <1>3, <2>1
<1>4. CASE NavigateFrameReturns(c)
  <2> DEFINE s == [GotoAnswered(r, events) EXCEPT !.collected = NothingCollected]
  <2>1. Updates(c, s) /\ r.phase = "sent"
    BY <1>4 DEF NavigateFrameReturns
  <2>2. CallOK(s) /\ Awaited(s, h, events) /\ s.frame = r.frame
    BY <1>1, <2>1, GotoAnsweredIsGood
  <2> HIDE DEF s
  <2> QED
    BY <1>2, <2>1, <2>2
<1>5. CASE NavigateFrameFails(c)
  <2>1. "aborted" \in Error \ {"none"} /\ "refused" \in Error \ {"none"}
    BY DEF Error
  <2>2. Ended(r, Aborted(r, r.target, "aborted")) /\ Ended(r, Failed(r, "refused"))
    BY <1>1, <2>1, AbortedEnds, FailedEnds
  <2> QED
    BY <1>3, <1>5, <2>2 DEF NavigateFrameFails
<1>6. CASE TimeOut(c)
  <2>1. "timeout" \in Error \ {"none"}
    BY DEF Error
  <2>2. Ended(r, Failed(r, "timeout"))
    BY <1>1, <2>1, FailedEnds
  <2> QED
    BY <1>3, <1>6, <2>2 DEF TimeOut
<1>7. CASE ResponseArrives(c)
  <2> DEFINE p == IF r.kind \in {"reload", "history"} /\ ~r.answered THEN "ready" ELSE "done"
             s == [r EXCEPT !.phase = p]
  <2>1. p \in Phase /\ Updates(c, s) /\ r.phase = "answering"
    BY <1>7 DEF ResponseArrives, Finished, Phase
  <2>2. /\ s \in CallState /\ Same(r, s) /\ s.phase = p
        /\ s.collected = r.collected /\ s.answered = r.answered /\ s.error = r.error
    <3> HIDE DEF p
    <3> QED
      BY <1>1, <2>1, PhaseSet
  <2> HIDE DEF s
  <2>3. CallOK(s)
    BY <1>1, <2>1, <2>2 DEF CallOK, Same
  <2>4. Awaited(s, h, events)
    BY <1>1, <2>1, <2>2 DEF Awaited, Same, Within
  <2> QED
    BY <1>2, <2>1, <2>2, <2>3, <2>4 DEF Same
<1>8. CASE CommandReturns(c)
  <2> DEFINE a == [r EXCEPT !.answered = TRUE]
             s == [a EXCEPT !.phase = "done"]
  <2>1. /\ a \in CallState /\ Same(r, a) /\ a.phase = r.phase
        /\ a.collected = r.collected /\ a.answered = TRUE /\ a.error = r.error
    BY <1>1, AnsweredSet
  <2>2. CASE r.phase = "ready"
    <3>1. Updates(c, s)
      BY <1>8, <2>2 DEF CommandReturns
    <3>2. "done" \in Phase
      BY DEF Phase
    <3> HIDE DEF a
    <3>3. /\ s \in CallState /\ Same(a, s) /\ s.phase = "done"
          /\ s.collected = a.collected /\ s.answered = a.answered /\ s.error = a.error
      BY <2>1, <3>2, PhaseSet
    <3> HIDE DEF s
    <3>4. CallOK(s)
      BY <1>1, <2>1, <2>2, <3>3 DEF CallOK, Same
    <3>5. Awaited(s, h, events)
      BY <1>1, <2>1, <2>2, <3>3 DEF Awaited, Same, Within
    <3> QED
      BY <1>2, <2>1, <3>1, <3>3, <3>4, <3>5 DEF Same
  <2>3. CASE r.phase = "broken"
    <3>1. Updates(c, Aborted(a, a.document, a.error))
      BY <1>8, <2>3 DEF CommandReturns
    <3>2. a.error \in Error \ {"none"}
      <4>1. r.error # "none" /\ r.error \in Error
        BY <1>1, <2>3 DEF Awaited, CallState, Error
      <4> QED
        BY <2>1, <4>1
    <3>3. Ended(a, Aborted(a, a.document, a.error))
      BY <2>1, <3>2, AbortedEnds
    <3>4. Ended(r, Aborted(a, a.document, a.error))
      BY <2>1, <3>3 DEF Ended, Same
    <3> QED
      BY <1>3, <3>1, <3>4
  <2>4. CASE r.phase \notin {"ready", "broken"}
    <3>1. Updates(c, a)
      BY <1>8, <2>4 DEF CommandReturns
    <3> HIDE DEF a
    <3>2. CallOK(a)
      BY <1>1, <2>1, <2>4 DEF CallOK, Same
    <3>3. Awaited(a, h, events)
      BY <1>1, <2>1, <2>4 DEF Awaited, Same, Within
    <3> QED
      BY <1>2, <2>1, <3>1, <3>2, <3>3 DEF Same
  <2> QED
    BY <2>2, <2>3, <2>4
<1>9. CASE NothingToGoTo(c)
  <2> DEFINE a == [r EXCEPT !.phase = "done"]
             b == [a EXCEPT !.answered = TRUE]
             s == [b EXCEPT !.error = "refused"]
  <2>1. Updates(c, s)
    BY <1>9 DEF NothingToGoTo
  <2>2. "done" \in Phase
    BY DEF Phase
  <2>3. /\ a \in CallState /\ Same(r, a) /\ a.phase = "done" /\ a.collected = r.collected
    BY <1>1, <2>2, PhaseSet
  <2> HIDE DEF a
  <2>4. /\ b \in CallState /\ Same(a, b) /\ b.phase = "done" /\ b.collected = a.collected
    BY <2>3, AnsweredSet
  <2> HIDE DEF b
  <2>5. /\ s \in CallState /\ Same(b, s) /\ s.phase = b.phase /\ s.collected = b.collected
        /\ s.error = "refused"
    BY <2>4 DEF CallState, Same
  <2> HIDE DEF s
  <2>6. r.kind = "history" /\ r.phase # "sent"
    BY <1>1, <1>9 DEF NothingToGoTo, CallOK
  <2>7. Same(r, s) /\ s.phase = "done" /\ s.collected = r.collected /\ s.error = "refused"
    BY <2>3, <2>4, <2>5 DEF Same
  <2>8. CallOK(s)
    BY <1>1, <2>5, <2>6, <2>7 DEF CallOK, Same
  <2>9. Awaited(s, h, events)
    BY <1>1, <2>6, <2>7 DEF Awaited, Same
  <2> QED
    BY <1>2, <2>1, <2>7, <2>8, <2>9 DEF Same
<1> QED
  BY <1>4, <1>5, <1>6, <1>7, <1>8, <1>9

(* A call starts: goto, reload, goBack or goForward, or a redirected         *)
(* navigation.                                                              *)
LEMMA StartsKeepNavInv ==
  ASSUME TypeOK, NavInv, NEW c \in Call,
         \/ \E f \in Frame, until \in Until, d \in Document \cup {None} : Goto(c, f, until, d)
         \/ \E kind \in {"reload", "history"}, until \in Until : WaitForNavigation(c, kind, until)
         \/ \E r \in Request, d \in Document : RedirectNavigation(c, r, d)
  PROVE  NavInv'
<1>1. /\ NewCall \in CallState /\ NewCall.kind = "goto"
      /\ NewCall.collected = NothingCollected /\ NewCall.error = "none"
      /\ ~NewCall.answered /\ NewCall.target = None /\ NewCall.original = None
  BY NewCallType DEF NewCall
<1>2. {"goto", "redirected", "reload", "history"} \subseteq Kind /\ {"sent", "waiting"} \subseteq Phase
  BY DEF Kind, Phase
<1>3. ASSUME NEW f \in Frame, NEW until \in Until, NEW d \in Document \cup {None},
             Goto(c, f, until, d)
      PROVE  NavInv'
  <2> DEFINE s == [NewCall EXCEPT !.kind = "goto", !.phase = "sent", !.frame = f,
                                  !.until = until, !.target = d]
  <2>1. Updates(c, s) /\ call[c].phase = "idle"
    BY <1>3 DEF Goto
  <2>2. /\ s \in CallState /\ s.kind = "goto" /\ s.phase = "sent" /\ s.original = None
        /\ s.collected = NothingCollected /\ s.error = "none" /\ ~s.answered
    BY <1>1, <1>2 DEF CallState
  <2> HIDE DEF s
  <2> QED
    BY <2>1, <2>2, NewCallIsGood
<1>4. ASSUME NEW kind \in {"reload", "history"}, NEW until \in Until,
             WaitForNavigation(c, kind, until)
      PROVE  NavInv'
  <2> DEFINE s == [NewCall EXCEPT !.kind = kind, !.phase = "waiting", !.until = until]
  <2>1. Updates(c, s) /\ call[c].phase = "idle"
    BY <1>4 DEF WaitForNavigation
  <2>2. /\ s \in CallState /\ s.kind = kind /\ s.phase = "waiting" /\ s.original = None
        /\ s.collected = NothingCollected /\ s.error = "none" /\ ~s.answered
    BY <1>1, <1>2 DEF CallState
  <2> HIDE DEF s
  <2> QED
    BY <2>1, <2>2, NewCallIsGood
<1>5. ASSUME NEW r \in Request, NEW d \in Document, RedirectNavigation(c, r, d)
      PROVE  NavInv'
  <2> DEFINE f == req[r].frame
             o == req[r].doc
             s == [NewCall EXCEPT !.kind = "redirected", !.phase = "sent", !.frame = f,
                                  !.target = d, !.original = o]
  <2>1. Updates(c, s) /\ call[c].phase = "idle" /\ o # None
    BY <1>5 DEF RedirectNavigation
  <2>2. f \in Frame /\ o \in Document \cup {None}
    BY DEF TypeOK
  <2> HIDE DEF f, o
  <2>3. /\ s \in CallState /\ s.kind = "redirected" /\ s.phase = "sent"
        /\ s.original = o /\ s.target = d
        /\ s.collected = NothingCollected /\ s.error = "none" /\ ~s.answered
    BY <1>1, <1>2, <2>2 DEF CallState
  <2> HIDE DEF s
  <2> QED
    BY <2>1, <2>3, NewCallIsGood
<1> QED
  BY <1>3, <1>4, <1>5

LEMMA PageStepsKeepNavInv ==
  ASSUME TypeOK, TypeOK', CommitFired, NavInv, PageStep
  PROVE  NavInv'
<1>1. ASSUME Quietly PROVE NavInv'
  BY <1>1, EmitsKeepsNavInv DEF Quietly, EventOK, NoEvent
<1>2. ASSUME NEW f \in Frame, NEW d \in Document, CommitsNewDocument(f, d) PROVE NavInv'
  <2> DEFINE e == CommitEvent(f, d)
  <2>1. Emits(e) /\ e.type = "commit" /\ e.frame = f /\ e.document = d
    BY <1>2 DEF CommitsNewDocument, CommitEvent, NoEvent
  <2>2. "commit" \in fired'[f]
    BY <1>2 DEF CommitsNewDocument, FrameCommittedNewDocumentNavigation, Recalculated, TypeOK
  <2> HIDE DEF e
  <2> QED
    BY <2>1, <2>2, EmitsKeepsNavInv DEF EventOK
<1>3. ASSUME NEW f \in Frame, CommitsSameDocument(f) PROVE NavInv'
  <2> DEFINE e == SameEvent(f)
  <2>1. Emits(e) /\ e.type = "same" /\ e.frame = f /\ f \in Attached
    BY <1>3 DEF CommitsSameDocument, SameEvent, NoEvent
  <2>2. fired' = fired
    BY <1>3 DEF CommitsSameDocument, FrameCommittedSameDocumentNavigation, idleVars, vars
  <2>3. "commit" \in fired'[f]
    BY <2>1, <2>2 DEF CommitFired
  <2> HIDE DEF e
  <2> QED
    BY <2>1, <2>3, EmitsKeepsNavInv DEF EventOK
<1>4. ASSUME NEW f, NEW d \in Document \cup {None}, NEW x \in Document \cup {None},
             Emits(AbortEvent(f, d, x))
      PROVE  NavInv'
  <2> DEFINE e == AbortEvent(f, d, x)
  <2>1. e.type = "abort" /\ e.document = d /\ e.error = x
    BY DEF AbortEvent, NoEvent
  <2> HIDE DEF e
  <2> QED
    BY <1>4, <2>1, EmitsKeepsNavInv DEF EventOK, e
<1>5. ASSUME NEW f \in Frame, NEW d \in Document \cup {None}, AbortsNavigation(f, d) PROVE NavInv'
  <2>1. pending[f].documentId \in Document \cup {None}
    BY <1>5 DEF AbortsNavigation, FrameAbortedNavigation, TypeOK, DocumentInfo
  <2> QED
    BY <1>4, <1>5, <2>1 DEF AbortsNavigation
<1>6. ASSUME NEW r \in Request, FailsRequest(r) PROVE NavInv'
  <2> DEFINE f == req[r].frame
  <2>1. f \in Frame
    BY DEF TypeOK
  <2>2. CASE pending'[f] = pending[f]
    BY <1>1, <1>6, <2>2 DEF FailsRequest
  <2>3. CASE pending'[f] # pending[f]
    <3>1. pending[f] # None
      BY <1>6, <2>1, <2>3 DEF FailsRequest, RequestFailed, TypeOK
    <3>2. pending[f].documentId \in Document \cup {None}
      BY <2>1, <3>1 DEF TypeOK, DocumentInfo
    <3> QED
      BY <1>4, <1>6, <2>3, <3>2 DEF FailsRequest
  <2> QED
    BY <2>2, <2>3
<1> QED
  BY <1>1, <1>2, <1>3, <1>5, <1>6
  DEF PageStep, RemovesFrames, RequestsNavigation, StartsRequest, RedirectsRequest,
      FinishesRequest, AttachesFrame, FiresLifecycle, Crashes, Closes, FiresTimer

(***************************************************************************)
(* The invariant of the calls, next to that of the page.                   *)
(***************************************************************************)
LEMMA NextNavInv ==
  TypeOK /\ CommitFired /\ NavInv /\ [NavNext]_allVars => TypeOK' /\ CommitFired' /\ NavInv'
<1> SUFFICES ASSUME TypeOK, CommitFired, NavInv, [NavNext]_allVars
             PROVE  TypeOK' /\ CommitFired' /\ NavInv'
  OBVIOUS
<1>1. TypeOK' /\ CommitFired'
  BY NavStepsAreFrameManagers, NextTypeOK, CommitStaysFired
<1>2. CASE PageStep
  BY <1>1, <1>2, PageStepsKeepNavInv
<1>3. CASE CallStep
  <2>1. PICK c \in Call :
          \/ \/ \E f \in Frame, until \in Until, d \in Document \cup {None} : Goto(c, f, until, d)
             \/ \E kind \in {"reload", "history"}, until \in Until : WaitForNavigation(c, kind, until)
             \/ \E r \in Request, d \in Document : RedirectNavigation(c, r, d)
          \/ \/ NavigateFrameReturns(c) \/ NavigateFrameFails(c) \/ CommandReturns(c)
             \/ NothingToGoTo(c) \/ ResponseArrives(c) \/ TimeOut(c)
    BY <1>3 DEF CallStep
  <2> QED
    BY <1>1, <2>1, StartsKeepNavInv, AnswersKeepNavInv
<1>4. CASE UNCHANGED allVars
  <2>1. call' = call /\ heard' = heard /\ fired' = fired
    BY <1>4 DEF allVars, vars
  <2>2. NavInv'
    BY <2>1 DEF NavInv
  <2> QED
    BY <1>1, <2>2
<1> QED
  BY <1>1, <1>2, <1>3, <1>4 DEF NavNext

LEMMA NavInvariance == NavSpec => [](TypeOK /\ CommitFired /\ NavInv)
<1>1. NavInit => TypeOK /\ CommitFired /\ NavInv
  BY InitTypeOK, InitNavInv DEF NavInit
<1> QED
  BY <1>1, NextNavInv, PTL DEF NavSpec

(* The state of every call fits its kind, whatever interleaves.              *)
THEOREM CallsStayOK == NavSpec => []CallsOK
BY NavInvariance, NavInvImplies, PTL

(* No call misses its navigation or the lifecycle event it waits for, and    *)
(* none that succeeds has mistaken another document for its own.            *)
THEOREM NothingIsMissed == NavSpec => []CallsMissNothing
BY NavInvariance, NavInvImplies, PTL

(***************************************************************************)
(* A goto whose document is redirected.  It follows the redirected          *)
(* navigation if that is in the table when the abort reaches it, and the    *)
(* entry leaves the table only with the end of that navigation: before      *)
(* that, the navigation has heard of its commit, and the same commit, or    *)
(* the answer before it, has reached the goto.                             *)
(***************************************************************************)
(* A request of the document was sent in the frame.                          *)
Begun(reqs, d, f) ==
  \E r \in Request : reqs[r].state # "new" /\ reqs[r].doc = d /\ reqs[r].frame = f

(* The call has heard of the commit of its document.                        *)
Settled(x) ==
  \/ x.phase \in {"loading", "answering", "done"}
  \/ x.phase = "sent" /\ x.collected.commit = x.target

Listens(x) == x.phase \in {"sent", "waiting"}

RedirectionOK(x, reqs) ==
  x.kind = "redirected" =>
    /\ x.original \in Document /\ x.target \in Document /\ x.target # x.original
    /\ Begun(reqs, x.original, x.frame)

FollowerOK(x) == x.phase = "following" => x.error = "redirected" /\ x.kind # "redirected"

(* A document has one frame, for its requests as for the call it is for.     *)
TargetOK(x, reqs) ==
  \A r \in Request :
    reqs[r].state # "new" /\ reqs[r].doc # None /\ reqs[r].doc = x.target => reqs[r].frame = x.frame

(* Who was redirected has stopped to listen when the redirected navigation   *)
(* has its document.                                                        *)
SettledOK(x, y) ==
  x.kind = "redirected" /\ Settled(x) /\ y.kind = "goto" /\ y.target = x.original => ~Listens(y)

RedirectsOK(calls, reqs) ==
  \A c \in Call :
    /\ calls[c] \in CallState
    /\ RedirectionOK(calls[c], reqs) /\ FollowerOK(calls[c]) /\ TargetOK(calls[c], reqs)
    /\ \A i \in Call : SettledOK(calls[i], calls[c])

RedirectInv == RedirectsOK(call, req)

LEMMA InitRedirectInv == NavInit => RedirectInv
<1> SUFFICES ASSUME NavInit PROVE RedirectInv
  OBVIOUS
<1>1. /\ NewCall \in CallState /\ NewCall.kind = "goto" /\ NewCall.phase = "idle"
      /\ \A c \in Call : call[c] = NewCall
  BY NewCallType DEF NavInit, NewCall
<1>2. \A r \in Request : req[r].state = "new"
  BY DEF NavInit, Init, NoRequest
<1> QED
  BY <1>1, <1>2 DEF RedirectInv, RedirectsOK, RedirectionOK, FollowerOK, TargetOK, SettledOK

(* A goto that is in progress, and was or is redirected.                     *)
Protected(c) ==
  /\ call[c].kind = "goto" /\ Active(call[c])
  /\ \E i \in Call : /\ call[i].original # None /\ call[i].original = call[c].target
                    /\ (Active(call[i]) \/ call[i].phase = "done")

LEMMA ProtectedFollows ==
  ASSUME NavInv, RedirectInv, NEW c \in Call, Protected(c), Listens(call[c])
  PROVE  /\ Redirection(call[c].target) # {}
         /\ \E i \in Call : call[i].original # None /\ call[i].original = call[c].target
<1>1. PICK i \in Call : /\ call[i].original # None /\ call[i].original = call[c].target
                        /\ (Active(call[i]) \/ call[i].phase = "done")
  BY DEF Protected
<1>2. call[i].kind = "redirected"
  BY <1>1 DEF NavInv, CallOK
<1>3. SettledOK(call[i], call[c])
  BY DEF RedirectInv, RedirectsOK
<1>4. call[i].phase # "done"
  BY <1>1, <1>2, <1>3 DEF SettledOK, Settled, Protected
<1> QED
  BY <1>1, <1>2, <1>4 DEF Redirection

(***************************************************************************)
(* What a step makes of one call, but for the end of those it follows.      *)
(***************************************************************************)
Remains(r, s) ==
  /\ s \in CallState
  /\ s.kind = r.kind /\ s.frame = r.frame /\ s.target = r.target /\ s.original = r.original

Turned(c, s) ==
  /\ Remains(call[c], s)
  /\ FollowerOK(s)
  /\ Listens(s) => Listens(call[c])
  /\ Protected(c) => s.error \notin {"aborted", "interrupted"}

(* A call that has no new error.                                            *)
LEMMA StillTurned ==
  ASSUME RedirectInv, NavInv, NEW c \in Call, NEW s, Remains(call[c], s),
         s.error = call[c].error,
         s.phase = "following" => call[c].phase = "following",
         Listens(s) => Listens(call[c])
  PROVE  Turned(c, s)
<1>1. CallOK(call[c]) /\ FollowerOK(call[c])
  BY DEF NavInv, RedirectInv, RedirectsOK
<1>2. FollowerOK(s)
  BY <1>1 DEF FollowerOK, Remains
<1>3. Protected(c) => s.error \notin {"aborted", "interrupted"}
  BY <1>1 DEF Protected, Active, Over, CallOK, FollowerOK
<1> QED
  BY <1>2, <1>3 DEF Turned

LEMMA FailedTurned ==
  ASSUME NEW c \in Call, NEW r, Remains(call[c], r), NEW x \in Error \ {"none"},
         Protected(c) => x \notin {"aborted", "interrupted"}
  PROVE  /\ Turned(c, Failed(r, x))
         /\ Failed(r, x).phase = "failed" /\ Failed(r, x).error = x
<1>1. Ended(r, Failed(r, x))
  BY FailedEnds DEF Remains
<1>2. Failed(r, x).phase = "failed" /\ Failed(r, x).error = x
  BY DEF Failed, Remains, CallState
<1> QED
  BY <1>1, <1>2 DEF Ended, Turned, Remains, FollowerOK, Listens

LEMMA AbortedTurned ==
  ASSUME NEW c \in Call, NEW r, Remains(call[c], r), NEW d, NEW x \in Error \ {"none"},
         Protected(c) => Redirection(d) # {}
  PROVE  Turned(c, Aborted(r, d, x)) /\ Aborted(r, d, x).phase \in {"failed", "following"}
<1> DEFINE s == Aborted(r, d, x)
<1>1. Ended(r, s)
  BY AbortedEnds DEF Remains
<1>2. CASE r.kind # "redirected" /\ Redirection(d) # {}
  <2>1. s.phase = "following" /\ s.error = "redirected"
    BY <1>2 DEF Aborted, Remains, CallState
  <2> HIDE DEF s
  <2>2. Turned(c, s)
    BY <1>1, <1>2, <2>1 DEF Ended, Turned, Remains, FollowerOK, Listens
  <2> QED
    BY <2>1, <2>2 DEF s
<1>3. CASE ~(r.kind # "redirected" /\ Redirection(d) # {})
  <2>1. s = Failed(r, x)
    BY <1>3 DEF Aborted
  <2>2. ~Protected(c)
    BY <1>3 DEF Protected, Remains
  <2> QED
    BY <2>1, <2>2, FailedTurned
<1> QED
  BY <1>2, <1>3

(* The followers of a redirected navigation that ends.                      *)
LEMMA FollowedFields ==
  ASSUME NEW calls, NEW c \in Call, calls[c] \in CallState, FollowerOK(calls[c])
  PROVE  LET s == Followed(calls)[c]
         IN  /\ Remains(calls[c], s) /\ FollowerOK(s)
             /\ s.error \in {calls[c].error, "redirected"}
             /\ s = calls[c] \/ (s.kind # "redirected" /\ s.phase \in {"done", "failed"})
<1> DEFINE r == calls[c]
           done == [r EXCEPT !.phase = "done"]
           s == Followed(calls)[c]
<1>1. \/ s = r
      \/ r.phase = "following" /\ (s = done \/ s = Failed(r, "redirected"))
  BY DEF Followed
<1>2. CASE s = r
  BY <1>2 DEF Remains
<1>3. CASE r.phase = "following" /\ s = done
  <2>1. done \in CallState /\ Same(r, done) /\ done.phase = "done" /\ done.error = r.error
    BY PhaseSet DEF Phase
  <2>2. Remains(r, done) /\ FollowerOK(done) /\ done.kind # "redirected"
    <3> HIDE DEF done
    <3> QED
      BY <1>3, <2>1 DEF Remains, FollowerOK, Same
  <2> QED
    BY <1>3, <2>1, <2>2
<1>4. CASE r.phase = "following" /\ s = Failed(r, "redirected")
  <2>1. Ended(r, Failed(r, "redirected"))
    BY FailedEnds DEF Error
  <2>2. Failed(r, "redirected").phase = "failed" /\ Failed(r, "redirected").error = "redirected"
    BY DEF Failed, CallState
  <2>3. Remains(r, Failed(r, "redirected")) /\ Failed(r, "redirected").kind # "redirected"
    BY <1>4, <2>1 DEF Remains, FollowerOK, Ended
  <2>4. FollowerOK(Failed(r, "redirected"))
    BY <2>2 DEF FollowerOK
  <2> QED
    BY <1>4, <2>2, <2>3, <2>4
<1> QED
  BY <1>1, <1>2, <1>3, <1>4

LEMMA FollowedKeepsRedirects ==
  ASSUME NEW calls, NEW reqs, RedirectsOK(calls, reqs)
  PROVE  RedirectsOK(Followed(calls), reqs)
<1> DEFINE after == Followed(calls)
<1>1. \A c \in Call : /\ Remains(calls[c], after[c]) /\ FollowerOK(after[c])
                      /\ \/ after[c] = calls[c]
                         \/ after[c].kind # "redirected" /\ after[c].phase \in {"done", "failed"}
  BY FollowedFields DEF RedirectsOK
<1> HIDE DEF after
<1>2. ASSUME NEW c \in Call
      PROVE  RedirectionOK(after[c], reqs) /\ TargetOK(after[c], reqs)
  BY <1>1 DEF RedirectsOK, Remains, RedirectionOK, TargetOK
<1>3. ASSUME NEW i \in Call, NEW c \in Call PROVE SettledOK(after[i], after[c])
  <2>1. SettledOK(calls[i], calls[c])
    BY DEF RedirectsOK
  <2>2. CASE after[i] = calls[i]
    BY <1>1, <2>1, <2>2 DEF SettledOK, Remains, Listens
  <2>3. CASE after[i] # calls[i]
    BY <1>1, <2>3 DEF SettledOK
  <2> QED
    BY <2>2, <2>3
<1>4. RedirectsOK(after, reqs)
  BY <1>1, <1>2, <1>3 DEF RedirectsOK, Remains
<1> QED
  BY <1>4 DEF after

(* All calls have turned, and who listens agrees with who is settled.        *)
Conclusion ==
  /\ RedirectInv'
  /\ \A c \in Call : Protected(c) => call'[c].error \notin {"aborted", "interrupted"}

LEMMA TurnedConclusion ==
  ASSUME RedirectInv, NEW mid, call' = Followed(mid),
         \A c \in Call : Turned(c, mid[c]),
         \A i, c \in Call : SettledOK(mid[i], mid[c]),
         RequestsAdvance,
         \A r \in Request, c \in Call :
           req'[r].state # "new" /\ req'[r].doc # None /\ req'[r].doc = call[c].target
             => call[c].frame = req'[r].frame
  PROVE  Conclusion
<1>1. ASSUME NEW c \in Call PROVE RedirectionOK(mid[c], req')
  <2>1. RedirectionOK(call[c], req)
    BY DEF RedirectInv, RedirectsOK
  <2>2. ASSUME NEW d, NEW f, Begun(req, d, f) PROVE Begun(req', d, f)
    BY <2>2 DEF Begun, RequestsAdvance
  <2> QED
    BY <2>1, <2>2 DEF RedirectionOK, Turned, Remains
<1>2. ASSUME NEW c \in Call PROVE TargetOK(mid[c], req')
  BY DEF TargetOK, Turned, Remains
<1>3. RedirectsOK(mid, req')
  BY <1>1, <1>2 DEF RedirectsOK, Turned, Remains
<1>4. RedirectsOK(call', req')
  BY <1>3, FollowedKeepsRedirects
<1>5. ASSUME NEW c \in Call, Protected(c) PROVE call'[c].error \notin {"aborted", "interrupted"}
  <2>1. mid[c] \in CallState /\ FollowerOK(mid[c]) /\ mid[c].error \notin {"aborted", "interrupted"}
    BY <1>5 DEF Turned, Remains
  <2>2. Followed(mid)[c].error \in {mid[c].error, "redirected"}
    BY <2>1, FollowedFields
  <2> QED
    BY <2>1, <2>2
<1> QED
  BY <1>4, <1>5 DEF Conclusion, RedirectInv

(***************************************************************************)
(* The events of the page.                                                 *)
(***************************************************************************)
(* An abort that does not name its document is none of a redirected one.     *)
AbortOK(e) ==
  e.type = "abort" =>
    IF e.error = None
    THEN \A i \in Call : call[i].original = None \/ call[i].original # e.document
    ELSE e.error = e.document

(* What Hears makes of a call that is not loading.                           *)
HeardTurned(c, e, s) ==
  /\ Turned(c, s)
  /\ s.kind = "redirected" /\ Settled(s) => Settled(call[c]) \/ IsAbout(call[c], e)
  /\ call[c].kind = "goto" /\ call[c].phase = "waiting" /\ call[c].target # None
       /\ e.type = "commit" /\ e.frame = call[c].frame /\ e.document # call[c].target
     => ~Listens(s)

LEMMA NavigatedTurned ==
  ASSUME RedirectInv, NavInv, NEW c \in Call, NEW events
  PROVE  LET s == Navigated(call[c], events)
         IN  Turned(c, s) /\ ~Listens(s)
<1> DEFINE r == call[c]
           s == Navigated(r, events)
<1>1. r \in CallState
  BY DEF NavInv
<1>2. /\ s \in CallState /\ Same(r, s) /\ s.error = r.error
      /\ s.phase \in {"answering", "loading"}
  BY <1>1, NavigatedFields
<1> HIDE DEF s
<1>3. Turned(c, s)
  BY <1>2, StillTurned DEF Remains, Same, Listens
<1> QED
  BY <1>2, <1>3 DEF Listens, s

LEMMA SentTurned ==
  ASSUME RedirectInv, NavInv, NEW c \in Call, NEW e, EventOK(e),
         call[c].phase = "sent", e.type # "none", e.frame = call[c].frame
  PROVE  HeardTurned(c, e, [call[c] EXCEPT !.collected = Collect(@, e)])
<1> DEFINE r == call[c]
           s == [r EXCEPT !.collected = Collect(@, e)]
<1>1. r \in CallState /\ r.collected \in Collected
  BY DEF NavInv, CallState
<1>2. /\ Collect(r.collected, e) \in Collected
      /\ Collect(r.collected, e).commit = IF e.type = "commit" /\ r.collected.commit = None
                                          THEN e.document ELSE r.collected.commit
  BY <1>1, CollectFields
<1>3. /\ s \in CallState /\ Same(r, s) /\ s.phase = "sent" /\ s.error = r.error
      /\ s.collected = Collect(r.collected, e)
  BY <1>1, <1>2, CollectedSet
<1> HIDE DEF s
<1>4. Turned(c, s)
  BY <1>3, StillTurned DEF Remains, Same, Listens
<1>5. s.kind = "redirected" /\ Settled(s) => Settled(r) \/ IsAbout(r, e)
  BY <1>2, <1>3 DEF Same, Settled, IsAbout
<1> QED
  BY <1>4, <1>5 DEF HeardTurned, s

LEMMA GotoTurned ==
  ASSUME RedirectInv, NavInv, NEW c \in Call, NEW e, EventOK(e), AbortOK(e), NEW events,
         call[c].phase = "waiting", call[c].kind \in {"goto", "redirected"},
         e.type # "none", e.frame = call[c].frame
  PROVE  HeardTurned(c, e, HearsGoto(call[c], e, events))
<1> DEFINE r == call[c]
           s == HearsGoto(r, e, events)
<1>1. r \in CallState /\ (r.kind = "redirected" => r.target # None) /\ Listens(r)
  BY DEF NavInv, Awaited, Listens
<1>2. Remains(r, r)
  BY <1>1 DEF Remains
<1>3. LET n == Navigated(r, events) IN Turned(c, n) /\ ~Listens(n)
  BY NavigatedTurned
<1>4. Turned(c, r)
  BY <1>2, StillTurned
<1>5. ASSUME NEW d, NEW x \in Error \ {"none"}, Protected(c) => Redirection(d) # {},
             s = Aborted(r, d, x)
      PROVE  HeardTurned(c, e, s)
  <2>1. Turned(c, s) /\ s.phase \in {"failed", "following"}
    BY <1>2, <1>5, AbortedTurned
  <2> HIDE DEF s
  <2> QED
    BY <2>1 DEF HeardTurned, Settled, Listens
<1>6. CASE r.target = None
  <2>1. r.kind = "goto"
    BY <1>1, <1>6
  <2> QED
    BY <1>3, <1>4, <1>6, <2>1 DEF HearsGoto, HeardTurned, Turned, Remains
<1>7. CASE r.target # None /\ e.type = "commit" /\ e.document = r.target
  <2>1. s = Navigated(r, events) /\ IsAbout(r, e)
    BY <1>7 DEF HearsGoto, GotoCommitted, IsAbout
  <2> QED
    BY <1>3, <1>7, <2>1 DEF HeardTurned
<1>8. CASE r.target # None /\ e.type = "commit" /\ e.document # r.target
  <2>1. s = Aborted(r, r.target, "interrupted") /\ "interrupted" \in Error \ {"none"}
    BY <1>8 DEF HearsGoto, GotoCommitted, Error
  <2> QED
    BY <1>1, <1>5, <2>1, ProtectedFollows
<1>9. CASE r.target # None /\ e.type = "abort" /\ e.document = r.target
  <2>1. s = Aborted(r, e.error, "aborted") /\ "aborted" \in Error \ {"none"}
    BY <1>9 DEF HearsGoto, Error
  <2>2. ASSUME Protected(c) PROVE Redirection(e.error) # {}
    <3>1. /\ Redirection(r.target) # {}
          /\ \E i \in Call : call[i].original # None /\ call[i].original = r.target
      BY <1>1, <2>2, ProtectedFollows
    <3>2. e.error = e.document
      BY <1>9, <3>1 DEF AbortOK
    <3> QED
      BY <1>9, <3>1, <3>2
  <2> QED
    BY <1>5, <2>1, <2>2
<1>10. CASE /\ r.target # None /\ e.type # "commit"
            /\ ~(e.type = "abort" /\ e.document = r.target)
  <2>1. s = r
    BY <1>10 DEF HearsGoto
  <2> QED
    BY <1>4, <1>10, <2>1 DEF HeardTurned
<1> QED
  BY <1>6, <1>7, <1>8, <1>9, <1>10

LEMMA WaitTurned ==
  ASSUME RedirectInv, NavInv, NEW c \in Call, NEW e, EventOK(e), NEW events,
         call[c].phase = "waiting", call[c].kind \in {"reload", "history"}
  PROVE  HeardTurned(c, e, HearsWait(call[c], e, events))
<1> DEFINE r == call[c]
           s == HearsWait(r, e, events)
<1>1. r \in CallState /\ Remains(r, r) /\ ~Protected(c) /\ "aborted" \in Error \ {"none"}
  BY DEF NavInv, Remains, Protected, Error
<1>2. Turned(c, s)
  <2>1. CASE e.type = "abort" /\ r.kind = "history" /\ ~r.answered
    <3>1. s = Broken(r, e.error, "aborted")
      BY <2>1 DEF HearsWait, NavigationAborted, Broken
    <3>2. e.error \in Document \cup {None}
      BY <2>1 DEF EventOK
    <3>3. s \in CallState /\ Same(r, s) /\ s.phase = "broken"
      BY <1>1, <3>1, <3>2, BrokenSet
    <3> HIDE DEF s
    <3> QED
      BY <1>1, <3>3 DEF Turned, Remains, Same, FollowerOK, Listens
  <2>2. CASE e.type = "abort" /\ ~(r.kind = "history" /\ ~r.answered)
    <3>1. s = Aborted(r, e.error, "aborted")
      BY <2>2 DEF HearsWait, NavigationAborted
    <3> QED
      BY <1>1, <3>1, AbortedTurned
  <2>3. CASE e.type = "same" /\ r.kind = "reload"
    <3>1. s = r
      BY <2>3 DEF HearsWait
    <3> QED
      BY <1>1, <3>1, StillTurned
  <2>4. CASE e.type # "abort" /\ ~(e.type = "same" /\ r.kind = "reload")
    <3>1. s = Navigated(r, events)
      BY <2>4 DEF HearsWait
    <3> QED
      BY <3>1, NavigatedTurned
  <2> QED
    BY <2>1, <2>2, <2>3, <2>4
<1> HIDE DEF s
<1> QED
  BY <1>2 DEF HeardTurned, Turned, Remains, s

LEMMA HearsTurned ==
  ASSUME RedirectInv, NavInv, NEW c \in Call, NEW e, EventOK(e), AbortOK(e), NEW events
  PROVE  HeardTurned(c, e, Hears(Woken(call[c], e), e, events))
<1> DEFINE r == call[c]
           w == Woken(r, e)
           s == Hears(w, e, events)
<1>1. r \in CallState /\ Remains(r, r)
  BY DEF NavInv, Remains
<1>2. CASE r.phase = "loading" /\ r.until \in Added(r.frame, e)
  <2>1. w = [r EXCEPT !.phase = "answering"]
    BY <1>2 DEF Woken
  <2>2. w \in CallState /\ Same(r, w) /\ w.phase = "answering" /\ w.error = r.error
    <3>1. "answering" \in Phase
      BY DEF Phase
    <3> QED
      BY <1>1, <2>1, <3>1, PhaseSet
  <2>3. s = w
    BY <2>2 DEF Hears
  <2>4. HeardTurned(c, e, w)
    <3> HIDE DEF w
    <3>1. Turned(c, w)
      BY <2>2, StillTurned DEF Remains, Same, Listens
    <3> QED
      BY <1>2, <2>2, <3>1 DEF HeardTurned, Settled, Same
  <2> QED
    BY <2>3, <2>4
<1>3. CASE ~(r.phase = "loading" /\ r.until \in Added(r.frame, e))
  <2>1. w = r
    BY <1>3 DEF Woken
  <2>2. CASE e.type # "none" /\ e.frame = r.frame /\ r.phase = "sent"
    <3>1. s = [r EXCEPT !.collected = Collect(@, e)]
      BY <2>1, <2>2 DEF Hears
    <3> QED
      BY <2>2, <3>1, SentTurned
  <2>3. CASE e.type # "none" /\ e.frame = r.frame /\ r.phase = "waiting"
    <3>1. r.kind \in {"goto", "redirected", "reload", "history"}
      BY <1>1 DEF CallState, Kind
    <3>2. s = IF r.kind \in {"goto", "redirected"} THEN HearsGoto(r, e, events)
                                                   ELSE HearsWait(r, e, events)
      BY <2>1, <2>3, <3>1 DEF Hears
    <3> QED
      BY <2>3, <3>1, <3>2, GotoTurned, WaitTurned
  <2>4. CASE e.type = "none" \/ e.frame # r.frame \/ r.phase \notin {"sent", "waiting"}
    <3>1. s = r
      BY <2>1, <2>4 DEF Hears
    <3>2. Turned(c, r)
      BY <1>1, StillTurned
    <3> QED
      BY <2>4, <3>1, <3>2 DEF HeardTurned
  <2> QED
    BY <2>2, <2>3, <2>4
<1> QED
  BY <1>2, <1>3

LEMMA RacedTurned ==
  ASSUME NEW c \in Call, NEW e, NEW s, HeardTurned(c, e, s)
  PROVE  HeardTurned(c, e, Raced(s))
<1>1. "closed" \in Error \ {"none"} /\ Remains(call[c], s)
  BY DEF Error, HeardTurned, Turned
<1>2. Turned(c, Failed(s, "closed")) /\ Failed(s, "closed").phase = "failed"
  BY <1>1, FailedTurned
<1>3. HeardTurned(c, e, Failed(s, "closed"))
  BY <1>2 DEF HeardTurned, Settled, Listens
<1> QED
  BY <1>3 DEF Raced

(* A commit that the browser may make: the redirected request never loads.   *)
LEMMA EmitsConcludes ==
  ASSUME NavInv, RedirectInv, NEW e, EventOK(e), AbortOK(e), Emits(e), RequestsAdvance,
         e.type = "commit" => MayCommit(e.frame, e.document),
         \A r \in Request, c \in Call :
           req'[r].state # "new" /\ req'[r].doc # None /\ req'[r].doc = call[c].target
             => call[c].frame = req'[r].frame
  PROVE  Conclusion
<1> DEFINE mid == [c \in Call |-> Raced(Hears(Woken(call[c], e), e, fired'[call[c].frame]))]
<1>1. call' = Followed(mid)
  BY DEF Emits, Seen
<1>2. ASSUME NEW c \in Call PROVE HeardTurned(c, e, mid[c])
  BY HearsTurned, RacedTurned
<1> HIDE DEF mid
<1>3. ASSUME NEW i \in Call, NEW c \in Call, mid[i].kind = "redirected", Settled(mid[i]),
             mid[c].kind = "goto", mid[c].target = mid[i].original
      PROVE  ~Listens(mid[c])
  <2>1. /\ call[i].kind = "redirected" /\ call[c].kind = "goto"
        /\ call[c].target = call[i].original
    BY <1>2, <1>3 DEF HeardTurned, Turned, Remains
  <2>2. CASE Settled(call[i])
    <3>1. ~Listens(call[c])
      BY <2>1, <2>2 DEF RedirectInv, RedirectsOK, SettledOK
    <3> QED
      BY <1>2, <3>1 DEF HeardTurned, Turned
  <2>3. CASE ~Settled(call[i])
    <3>1. e.type = "commit" /\ e.frame = call[i].frame /\ e.document = call[i].target
      BY <1>2, <1>3, <2>1, <2>3 DEF HeardTurned, IsAbout
    <3>2. call[c].phase # "sent"
      BY <2>1, <3>1 DEF MayCommit
    <3>3. /\ call[i].original \in Document /\ call[i].target # call[i].original
          /\ Begun(req, call[i].original, call[i].frame)
      BY <2>1 DEF RedirectInv, RedirectsOK, RedirectionOK
    <3>4. call[c].target # None
      BY <2>1, <3>3, NoneAssumption
    <3>5. call[c].frame = call[i].frame
      BY <2>1, <3>3, <3>4 DEF RedirectInv, RedirectsOK, TargetOK, Begun
    <3> QED
      BY <1>2, <2>1, <3>1, <3>2, <3>3, <3>4, <3>5 DEF HeardTurned, Turned, Listens
  <2> QED
    BY <2>2, <2>3
<1>4. \A c \in Call : Turned(c, mid[c])
  BY <1>2 DEF HeardTurned
<1>5. \A i, c \in Call : SettledOK(mid[i], mid[c])
  BY <1>3 DEF SettledOK
<1> QED
  BY <1>1, <1>4, <1>5, TurnedConclusion

LEMMA PageStepsConclude ==
  ASSUME TypeOK, NavInv, RedirectInv, PageStep
  PROVE  Conclusion
<1> DEFINE InFrames == \A r \in Request, c \in Call :
             req'[r].state # "new" /\ req'[r].doc # None /\ req'[r].doc = call[c].target
               => call[c].frame = req'[r].frame
<1>1. ASSUME req' = req PROVE RequestsAdvance /\ InFrames
  BY <1>1 DEF RequestsAdvance, RedirectInv, RedirectsOK, TargetOK
<1>2. ASSUME NEW r \in Request, NEW p, req[r].state = "started", p # "new",
             req' = [req EXCEPT ![r].state = p]
      PROVE  RequestsAdvance /\ InFrames
  <2>1. \A q \in Request : /\ req'[q].doc = req[q].doc /\ req'[q].frame = req[q].frame
                           /\ req'[q].state # "new" <=> req[q].state # "new"
    BY <1>2 DEF TypeOK
  <2> QED
    BY <2>1 DEF RequestsAdvance, RedirectInv, RedirectsOK, TargetOK
<1>3. ASSUME Quietly, RequestsAdvance, InFrames PROVE Conclusion
  <2>1. EventOK(NoEvent) /\ AbortOK(NoEvent) /\ NoEvent.type = "none"
    BY DEF EventOK, AbortOK, NoEvent
  <2> HIDE DEF NoEvent
  <2> QED
    BY <1>3, <2>1, EmitsConcludes DEF Quietly
<1>4. ASSUME NEW f \in Frame, NEW d \in Document, CommitsNewDocument(f, d) PROVE Conclusion
  <2> DEFINE e == CommitEvent(f, d)
  <2>1. Emits(e) /\ e.type = "commit" /\ e.frame = f /\ e.document = d /\ MayCommit(f, d)
    BY <1>4 DEF CommitsNewDocument, CommitEvent, NoEvent
  <2>2. req' = req
    BY <1>4 DEF CommitsNewDocument, FrameCommittedNewDocumentNavigation
  <2> HIDE DEF e, InFrames
  <2>3. EventOK(e) /\ AbortOK(e)
    BY <2>1 DEF EventOK, AbortOK
  <2> QED
    BY <1>1, <2>1, <2>2, <2>3, EmitsConcludes DEF InFrames
<1>5. ASSUME NEW f \in Frame, CommitsSameDocument(f) PROVE Conclusion
  <2> DEFINE e == SameEvent(f)
  <2>1. Emits(e) /\ e.type = "same"
    BY <1>5 DEF CommitsSameDocument, SameEvent, NoEvent
  <2>2. req' = req
    BY <1>5 DEF CommitsSameDocument, FrameCommittedSameDocumentNavigation, vars
  <2> HIDE DEF e, InFrames
  <2>3. EventOK(e) /\ AbortOK(e)
    BY <2>1 DEF EventOK, AbortOK
  <2> QED
    BY <1>1, <2>1, <2>2, <2>3, EmitsConcludes DEF InFrames
<1>6. ASSUME NEW f, NEW d \in Document \cup {None}, NEW x \in Document \cup {None},
             Emits(AbortEvent(f, d, x)), RequestsAdvance, InFrames,
             IF x = None THEN \A i \in Call : call[i].original = None \/ call[i].original # d
                         ELSE x = d
      PROVE  Conclusion
  <2> DEFINE e == AbortEvent(f, d, x)
  <2>1. e.type = "abort" /\ e.document = d /\ e.error = x
    BY DEF AbortEvent, NoEvent
  <2> HIDE DEF e, InFrames
  <2>2. EventOK(e) /\ AbortOK(e)
    BY <1>6, <2>1 DEF EventOK, AbortOK
  <2>3. Emits(e)
    BY <1>6 DEF e
  <2> QED
    BY <1>6, <2>1, <2>2, <2>3, EmitsConcludes DEF InFrames
<1>7. ASSUME NEW f \in Frame, NEW d \in Document \cup {None}, AbortsNavigation(f, d)
      PROVE  Conclusion
  <2>1. /\ pending[f].documentId \in Document \cup {None} /\ req' = req
        /\ d # None => pending[f].documentId = d
    BY <1>7 DEF AbortsNavigation, FrameAbortedNavigation, TypeOK, DocumentInfo
  <2>2. /\ Emits(AbortEvent(f, pending[f].documentId, d))
        /\ d = None => \A i \in Call : \/ call[i].original = None
                                       \/ call[i].original # pending[f].documentId
    BY <1>7 DEF AbortsNavigation
  <2> HIDE DEF InFrames
  <2> QED
    BY <1>1, <1>6, <2>1, <2>2
<1>8. ASSUME NEW r \in Request, FailsRequest(r) PROVE Conclusion
  <2> DEFINE f == req[r].frame
  <2>1. f \in Frame /\ req[r].state = "started" /\ req' = [req EXCEPT ![r].state = "failed"]
    BY <1>8 DEF TypeOK, FailsRequest, RequestFailed
  <2>2. RequestsAdvance /\ InFrames
    <3> HIDE DEF InFrames
    <3> QED
      BY <1>2, <2>1
  <2> HIDE DEF InFrames
  <2>3. CASE pending'[f] = pending[f]
    BY <1>3, <1>8, <2>2, <2>3 DEF FailsRequest
  <2>4. CASE pending'[f] # pending[f]
    <3>1. pending[f] # None
      BY <1>8, <2>1, <2>4 DEF FailsRequest, RequestFailed, TypeOK
    <3> DEFINE d == pending[f].documentId
    <3>2. d \in Document \cup {None}
      BY <2>1, <3>1 DEF TypeOK, DocumentInfo
    <3>3. Emits(AbortEvent(f, d, d))
      BY <1>8, <2>4 DEF FailsRequest
    <3> HIDE DEF d, f
    <3>4. d = None => \A i \in Call : call[i].original = None \/ call[i].original # d
      OBVIOUS
    <3> QED
      BY <1>6, <2>2, <3>2, <3>3, <3>4
  <2> QED
    BY <2>3, <2>4
<1>9. ASSUME NEW r \in Request, FinishesRequest(r) PROVE Conclusion
  <2>1. req[r].state = "started" /\ req' = [req EXCEPT ![r].state = "finished"] /\ Quietly
    BY <1>9 DEF FinishesRequest, ReportRequestFinished
  <2> HIDE DEF InFrames
  <2> QED
    BY <1>2, <1>3, <2>1
<1>10. ASSUME NEW r \in Request, NEW f \in Frame, NEW d \in Document \cup {None},
              StartsRequest(r, f, d)
       PROVE  Conclusion
  <2>1. /\ req[r].state = "new" /\ InItsFrame(f, d) /\ Quietly
        /\ req' = [req EXCEPT ![r] = [state |-> "started", frame |-> f, doc |-> d]]
    BY <1>10 DEF StartsRequest, RequestStarted
  <2>2. RequestsAdvance
    BY <2>1 DEF RequestsAdvance, TypeOK
  <2>3. InFrames
    <3>1. \A q \in Request : IF q = r THEN req'[q].frame = f /\ req'[q].doc = d
                                      ELSE req'[q] = req[q]
      BY <2>1 DEF TypeOK
    <3>2. ASSUME NEW q \in Request, NEW c \in Call, req'[q].state # "new",
                 req'[q].doc # None, req'[q].doc = call[c].target
          PROVE  call[c].frame = req'[q].frame
      <4>1. CASE q = r
        BY <2>1, <3>1, <3>2, <4>1 DEF InItsFrame
      <4>2. CASE q # r
        <5>1. TargetOK(call[c], req)
          BY DEF RedirectInv, RedirectsOK
        <5> QED
          BY <3>1, <3>2, <4>2, <5>1 DEF TargetOK
      <4> QED
        BY <4>1, <4>2
    <3> QED
      BY <3>2
  <2> HIDE DEF InFrames
  <2> QED
    BY <1>3, <2>1, <2>2, <2>3
<1>11. ASSUME NEW r \in Request, NEW next \in Request, RedirectsRequest(r, next) PROVE Conclusion
  <2> DEFINE f == req[r].frame
             d == req[r].doc
  <2>1. /\ req[r].state = "started" /\ req[next].state = "new" /\ Quietly
        /\ req' = [req EXCEPT ![r].state = "finished",
                              ![next] = [state |-> "started", frame |-> f, doc |-> d]]
    BY <1>11 DEF RedirectsRequest, RequestRedirected
  <2>2. \A q \in Request :
          /\ q = next => req'[q].frame = f /\ req'[q].doc = d /\ req'[q].state = "started"
          /\ q # next => /\ req'[q].frame = req[q].frame /\ req'[q].doc = req[q].doc
                         /\ req'[q].state # "new" <=> req[q].state # "new"
    BY <2>1 DEF TypeOK
  <2>3. RequestsAdvance
    BY <2>1, <2>2 DEF RequestsAdvance
  <2>4. ASSUME NEW q \in Request, NEW c \in Call, req'[q].state # "new",
               req'[q].doc # None, req'[q].doc = call[c].target
        PROVE  call[c].frame = req'[q].frame
    <3>1. TargetOK(call[c], req)
      BY DEF RedirectInv, RedirectsOK
    <3>2. CASE q = next
      <4>1. req'[q].frame = f /\ req'[q].doc = d
        BY <2>2, <3>2
      <4> QED
        BY <2>1, <2>4, <3>1, <4>1 DEF TargetOK
    <3>3. CASE q # next
      <4>1. req'[q].frame = req[q].frame /\ req'[q].doc = req[q].doc /\ req[q].state # "new"
        BY <2>2, <2>4, <3>3
      <4> QED
        BY <2>4, <3>1, <4>1 DEF TargetOK
    <3> QED
      BY <3>2, <3>3
  <2>5. InFrames
    BY <2>4
  <2> HIDE DEF InFrames
  <2> QED
    BY <1>3, <2>1, <2>3, <2>5
<1>12. CASE /\ Quietly
            /\ \/ \E f \in Frame : FrameDetached(f) \/ RemoveChildFramesRecursively(f)
                                    \/ NetworkIdleTimerFired(f)
               \/ \E f \in Frame, d \in Document \cup {None} : FrameRequestedNavigation(f, d)
               \/ \E f, parent \in Frame : FrameAttached(f, parent)
               \/ \E f \in Frame, event \in RegularEvent : FrameLifecycleEvent(f, event)
               \/ PageDidCrash \/ PageDidClose
  <2>1. req' = req
    BY <1>12 DEF FrameDetached, RemoveChildFramesRecursively, NetworkIdleTimerFired,
       FrameRequestedNavigation, FrameAttached, FrameLifecycleEvent, PageDidCrash, PageDidClose
  <2> HIDE DEF InFrames
  <2> QED
    BY <1>1, <1>3, <1>12, <2>1
<1> HIDE DEF InFrames
<1> QED
  BY <1>4, <1>5, <1>7, <1>8, <1>9, <1>10, <1>11, <1>12
  DEF PageStep, RemovesFrames, RequestsNavigation, AttachesFrame, FiresLifecycle, Crashes, Closes,
      FiresTimer

(***************************************************************************)
(* The steps of the calls.                                                 *)
(***************************************************************************)
LEMMA UpdatesConclude ==
  ASSUME NavInv, RedirectInv, NEW c \in Call, NEW s, Updates(c, s), Turned(c, s),
         s.kind = "redirected" /\ Settled(s) => Settled(call[c])
  PROVE  Conclusion
<1> DEFINE mid == [call EXCEPT ![c] = s]
<1>1. call' = Followed(mid) /\ req' = req
  BY DEF Updates, vars
<1>2. \A i \in Call : mid[i] = IF i = c THEN s ELSE call[i]
  BY DEF NavInv
<1> HIDE DEF mid
<1>3. ASSUME NEW i \in Call PROVE Turned(i, mid[i])
  <2>1. CASE i # c
    <3>1. Remains(call[i], call[i])
      BY DEF NavInv, Remains
    <3> QED
      BY <1>2, <2>1, <3>1, StillTurned
  <2> QED
    BY <1>2, <2>1
<1>4. ASSUME NEW i \in Call, NEW j \in Call PROVE SettledOK(mid[i], mid[j])
  <2>1. SettledOK(call[i], call[j])
    BY DEF RedirectInv, RedirectsOK
  <2>2. mid[i].kind = "redirected" /\ Settled(mid[i]) => Settled(call[i])
    BY <1>2
  <2> QED
    BY <1>3, <2>1, <2>2 DEF SettledOK, Turned, Remains
<1>5. /\ RequestsAdvance
      /\ \A r \in Request, j \in Call :
           req'[r].state # "new" /\ req'[r].doc # None /\ req'[r].doc = call[j].target
             => call[j].frame = req'[r].frame
  BY <1>1 DEF RequestsAdvance, RedirectInv, RedirectsOK, TargetOK
<1> QED
  BY <1>1, <1>3, <1>4, <1>5, TurnedConclusion

LEMMA GotoAnsweredTurned ==
  ASSUME NavInv, RedirectInv, NEW c \in Call, call[c].phase = "sent", NEW events
  PROVE  LET s == [GotoAnswered(call[c], events) EXCEPT !.collected = NothingCollected]
         IN  Turned(c, s) /\ (s.kind = "redirected" /\ Settled(s) => Settled(call[c]))
<1> DEFINE r == call[c]
           g == GotoAnswered(r, events)
           s == [g EXCEPT !.collected = NothingCollected]
<1>1. /\ r \in CallState /\ r.target \in Document \cup {None} /\ r.collected \in Collected
      /\ (r.kind = "redirected" => r.target # None) /\ Remains(r, r) /\ Listens(r)
  BY DEF NavInv, Awaited, CallState, Remains, Listens
<1>2. ASSUME Turned(c, g), g.kind = "redirected" /\ g.phase \in {"loading", "answering", "done"}
                             => Settled(r), g.phase # "sent"
      PROVE  Turned(c, s) /\ (s.kind = "redirected" /\ Settled(s) => Settled(r))
  <2>1. NothingCollected \in Collected
    BY DEF NothingCollected, Collected
  <2> HIDE DEF g
  <2>2. s \in CallState /\ Same(g, s) /\ s.phase = g.phase /\ s.error = g.error
    BY <1>2, <2>1, CollectedSet DEF Turned, Remains
  <2> HIDE DEF s
  <2>3. Turned(c, s)
    BY <1>2, <2>2 DEF Turned, Remains, Same, FollowerOK, Listens
  <2> QED
    BY <1>2, <2>2, <2>3 DEF Settled, Same
<1>3. LET n == Navigated(r, events) IN Turned(c, n) /\ ~Listens(n)
  BY NavigatedTurned
<1>4. ASSUME g = Navigated(r, events), r.kind = "redirected" => r.collected.commit = r.target
      PROVE  Turned(c, s) /\ (s.kind = "redirected" /\ Settled(s) => Settled(r))
  <2>1. Turned(c, g) /\ ~Listens(g) /\ g.kind = r.kind
    BY <1>3, <1>4 DEF Turned, Remains
  <2>2. g.phase # "sent"
    BY <2>1 DEF Listens
  <2>3. r.kind = "redirected" => Settled(r)
    BY <1>4 DEF Settled
  <2> HIDE DEF s, g
  <2> QED
    BY <1>2, <2>1, <2>2, <2>3
<1>5. ASSUME NEW x \in Error \ {"none"}, g = Aborted(r, r.target, x)
      PROVE  Turned(c, s) /\ (s.kind = "redirected" /\ Settled(s) => Settled(r))
  <2>1. Protected(c) => Redirection(r.target) # {}
    BY <1>1, ProtectedFollows
  <2>2. Turned(c, g) /\ g.phase \in {"failed", "following"}
    BY <1>1, <1>5, <2>1, AbortedTurned
  <2> HIDE DEF s, g
  <2> QED
    BY <1>2, <2>2
<1>6. ASSUME g = [r EXCEPT !.phase = "waiting"]
      PROVE  Turned(c, s) /\ (s.kind = "redirected" /\ Settled(s) => Settled(r))
  <2>1. "waiting" \in Phase
    BY DEF Phase
  <2>2. g \in CallState /\ Same(r, g) /\ g.phase = "waiting" /\ g.error = r.error
    BY <1>1, <1>6, <2>1, PhaseSet
  <2> HIDE DEF g, s
  <2>3. Turned(c, g)
    BY <1>1, <2>2, StillTurned DEF Remains, Same
  <2> QED
    BY <1>2, <2>2, <2>3
<1> HIDE DEF s
<1>7. CASE r.target = None
  <2>0. r.target \notin r.collected.aborted /\ r.target \notin Document
    BY <1>1, <1>7, NoneAssumption DEF Collected
  <2>1. g = IF r.collected.same THEN Navigated(r, events) ELSE [r EXCEPT !.phase = "waiting"]
    BY <1>7, <2>0 DEF GotoAnswered
  <2> QED
    BY <1>1, <1>4, <1>6, <1>7, <2>1 DEF s
<1>8. CASE r.target # None /\ r.target \in r.collected.aborted
  <2>1. g = Aborted(r, r.target, "aborted") /\ "aborted" \in Error \ {"none"}
    BY <1>8 DEF GotoAnswered, Error
  <2> QED
    BY <1>5, <2>1 DEF s
<1>9. CASE r.target \in Document \ r.collected.aborted /\ r.collected.commit # None
  <2>1. g = GotoCommitted(r, r.collected.commit, events) /\ "interrupted" \in Error \ {"none"}
    BY <1>9, NoneAssumption DEF GotoAnswered, Error
  <2>2. \/ r.collected.commit = r.target /\ g = Navigated(r, events)
        \/ g = Aborted(r, r.target, "interrupted")
    BY <2>1 DEF GotoCommitted
  <2> QED
    BY <1>4, <1>5, <2>1, <2>2 DEF s
<1>10. CASE r.target \in Document \ r.collected.aborted /\ r.collected.commit = None
  <2>1. g = [r EXCEPT !.phase = "waiting"]
    BY <1>10, NoneAssumption DEF GotoAnswered
  <2> QED
    BY <1>6, <2>1 DEF s
<1> QED
  BY <1>1, <1>7, <1>8, <1>9, <1>10 DEF s

LEMMA AnswersConclude ==
  ASSUME NavInv, RedirectInv, NEW c \in Call,
         \/ NavigateFrameReturns(c) \/ NavigateFrameFails(c) \/ CommandReturns(c)
         \/ NothingToGoTo(c) \/ ResponseArrives(c) \/ TimeOut(c)
  PROVE  Conclusion
<1> DEFINE r == call[c]
<1>1. r \in CallState /\ Remains(r, r) /\ CallOK(r) /\ Awaited(r, heard[c], fired[r.frame])
  BY DEF NavInv, Remains
<1>2. ASSUME NEW s, Updates(c, s), Turned(c, s), s.kind = "redirected" /\ Settled(s) => Settled(r)
      PROVE  Conclusion
  BY <1>2, UpdatesConclude
<1>3. ASSUME NEW s, Updates(c, s), Turned(c, s), s.phase \in {"failed", "following"}
      PROVE  Conclusion
  BY <1>2, <1>3 DEF Settled
<1>4. CASE NavigateFrameReturns(c)
  <2> DEFINE s == [GotoAnswered(r, fired[r.frame]) EXCEPT !.collected = NothingCollected]
  <2>1. Updates(c, s) /\ r.phase = "sent"
    BY <1>4 DEF NavigateFrameReturns
  <2>2. Turned(c, s) /\ (s.kind = "redirected" /\ Settled(s) => Settled(r))
    BY <2>1, GotoAnsweredTurned
  <2> HIDE DEF s
  <2> QED
    BY <1>2, <2>1, <2>2
<1>5. CASE NavigateFrameFails(c)
  <2>1. "aborted" \in Error \ {"none"} /\ "refused" \in Error \ {"none"}
    BY DEF Error
  <2>2. Protected(c) => Redirection(r.target) # {}
    BY <1>5, ProtectedFollows DEF NavigateFrameFails, Listens
  <2>3. /\ Turned(c, Aborted(r, r.target, "aborted"))
        /\ Aborted(r, r.target, "aborted").phase \in {"failed", "following"}
    BY <1>1, <2>1, <2>2, AbortedTurned
  <2>4. Turned(c, Failed(r, "refused")) /\ Failed(r, "refused").phase = "failed"
    BY <1>1, <2>1, FailedTurned
  <2> QED
    BY <1>3, <1>5, <2>3, <2>4 DEF NavigateFrameFails
<1>6. CASE TimeOut(c)
  <2>1. "timeout" \in Error \ {"none"}
    BY DEF Error
  <2>2. Turned(c, Failed(r, "timeout")) /\ Failed(r, "timeout").phase = "failed"
    BY <1>1, <2>1, FailedTurned
  <2> QED
    BY <1>3, <1>6, <2>2 DEF TimeOut
<1>7. CASE ResponseArrives(c)
  <2> DEFINE p == IF r.kind \in {"reload", "history"} /\ ~r.answered THEN "ready" ELSE "done"
             s == [r EXCEPT !.phase = p]
  <2>1. p \in Phase /\ p \in {"ready", "done"} /\ Updates(c, s) /\ r.phase = "answering"
    BY <1>7 DEF ResponseArrives, Finished, Phase
  <2>2. s \in CallState /\ Same(r, s) /\ s.phase = p /\ s.error = r.error
    <3> HIDE DEF p
    <3> QED
      BY <1>1, <2>1, PhaseSet
  <2> HIDE DEF s, p
  <2>3. Turned(c, s)
    BY <2>1, <2>2, StillTurned DEF Remains, Same, Listens
  <2> QED
    BY <1>2, <2>1, <2>3 DEF Settled
<1>8. CASE CommandReturns(c)
  <2> DEFINE a == [r EXCEPT !.answered = TRUE]
             s == [a EXCEPT !.phase = "done"]
  <2>1. a \in CallState /\ Same(r, a) /\ a.phase = r.phase /\ a.error = r.error
    BY <1>1, AnsweredSet
  <2>2. r.kind \in {"reload", "history"}
    BY <1>8 DEF CommandReturns
  <2>3. ~Protected(c) /\ Remains(r, a)
    BY <2>1, <2>2 DEF Protected, Remains, Same
  <2>4. CASE r.phase = "ready"
    <3>1. Updates(c, s)
      BY <1>8, <2>4 DEF CommandReturns
    <3>2. "done" \in Phase
      BY DEF Phase
    <3> HIDE DEF a
    <3>3. s \in CallState /\ Same(a, s) /\ s.phase = "done" /\ s.error = a.error
      BY <2>1, <3>2, PhaseSet
    <3> HIDE DEF s
    <3>4. Turned(c, s)
      BY <2>1, <3>3, StillTurned DEF Remains, Same, Listens
    <3> QED
      BY <1>2, <2>1, <2>2, <3>1, <3>3, <3>4 DEF Same
  <2>5. CASE r.phase = "broken"
    <3>1. Updates(c, Aborted(a, a.document, a.error))
      BY <1>8, <2>5 DEF CommandReturns
    <3>2. a.error \in Error \ {"none"}
      BY <1>1, <2>1, <2>5 DEF Awaited, CallState, Error
    <3> HIDE DEF a
    <3>3. /\ Turned(c, Aborted(a, a.document, a.error))
          /\ Aborted(a, a.document, a.error).phase \in {"failed", "following"}
      BY <2>3, <3>2, AbortedTurned
    <3> QED
      BY <1>3, <3>1, <3>3
  <2>6. CASE r.phase \notin {"ready", "broken"}
    <3>1. Updates(c, a)
      BY <1>8, <2>6 DEF CommandReturns
    <3> HIDE DEF a
    <3>2. Turned(c, a)
      BY <2>1, <2>3, StillTurned DEF Listens
    <3> QED
      BY <1>2, <2>1, <2>2, <3>1, <3>2 DEF Same
  <2> QED
    BY <2>4, <2>5, <2>6
<1>9. CASE NothingToGoTo(c)
  <2> DEFINE a == [r EXCEPT !.phase = "done"]
             b == [a EXCEPT !.answered = TRUE]
             s == [b EXCEPT !.error = "refused"]
  <2>1. Updates(c, s) /\ r.kind = "history"
    BY <1>9 DEF NothingToGoTo
  <2>2. "done" \in Phase
    BY DEF Phase
  <2>3. a \in CallState /\ Same(r, a) /\ a.phase = "done"
    BY <1>1, <2>2, PhaseSet
  <2> HIDE DEF a
  <2>4. b \in CallState /\ Same(a, b) /\ b.phase = "done"
    BY <2>3, AnsweredSet
  <2> HIDE DEF b
  <2>5. s \in CallState /\ Same(b, s) /\ s.phase = "done" /\ s.error = "refused"
    BY <2>4 DEF CallState, Same
  <2> HIDE DEF s
  <2>6. Turned(c, s) /\ s.kind = "history"
    BY <2>1, <2>3, <2>4, <2>5 DEF Turned, Remains, Same, FollowerOK, Listens
  <2> QED
    BY <1>2, <2>1, <2>6
<1> QED
  BY <1>4, <1>5, <1>6, <1>7, <1>8, <1>9

(* A new call has a document of its own, which nobody has redirected yet.    *)
LEMMA NewCallConcludes ==
  ASSUME TypeOK, NavInv, RedirectInv, NEW c \in Call, call[c].phase = "idle", NEW s \in CallState,
         Updates(c, s), s.phase \in {"sent", "waiting"}, s.collected = NothingCollected,
         s.target # None => Fresh(s.target),
         \/ s.kind = "goto"
         \/ s.kind \in {"reload", "history"} /\ s.target = None
         \/ /\ s.kind = "redirected" /\ s.phase = "sent"
            /\ s.target \in Document /\ s.original \in Document
            /\ Begun(req, s.original, s.frame)
  PROVE  Conclusion
<1> DEFINE mid == [call EXCEPT ![c] = s]
<1>1. call' = Followed(mid) /\ req' = req
  BY DEF Updates, vars
<1>2. \A i \in Call : mid[i] = IF i = c THEN s ELSE call[i]
  BY DEF NavInv
<1> HIDE DEF mid
<1>3. s.target # None => \A r \in Request : req[r].doc # s.target
  BY DEF Fresh
<1>4. s.kind = "redirected" => s.target # None /\ ~Settled(s)
  BY NoneAssumption DEF Settled, NothingCollected
<1>5. RedirectionOK(s, req) /\ FollowerOK(s) /\ TargetOK(s, req)
  <2>1. s.kind = "redirected" => s.target # s.original
    BY <1>3, <1>4 DEF Begun
  <2>2. TargetOK(s, req)
    BY <1>3 DEF TargetOK
  <2> QED
    BY <2>1, <2>2 DEF RedirectionOK, FollowerOK
<1>6. ASSUME NEW i \in Call, NEW j \in Call PROVE SettledOK(mid[i], mid[j])
  <2>1. SettledOK(call[i], call[j]) /\ RedirectionOK(call[i], req)
    BY DEF RedirectInv, RedirectsOK
  <2>2. CASE i = c
    BY <1>2, <1>4, <2>2 DEF SettledOK
  <2>3. CASE i # c /\ j # c
    BY <1>2, <2>1, <2>3 DEF SettledOK
  <2>4. CASE i # c /\ j = c
    <3>1. ASSUME call[i].kind = "redirected", s.target = call[i].original PROVE FALSE
      BY <1>3, <2>1, <3>1, NoneAssumption DEF RedirectionOK, Begun
    <3> QED
      BY <1>2, <2>4, <3>1 DEF SettledOK
  <2> QED
    BY <2>2, <2>3, <2>4
<1>7. RedirectsOK(mid, req)
  BY <1>2, <1>5, <1>6 DEF RedirectInv, RedirectsOK
<1>8. RedirectsOK(call', req')
  BY <1>1, <1>7, FollowedKeepsRedirects
<1>9. ASSUME NEW i \in Call, Protected(i) PROVE call'[i].error \notin {"aborted", "interrupted"}
  <2>1. i # c
    BY <1>9 DEF Protected, Active
  <2>2. Remains(call[i], call[i])
    BY DEF NavInv, Remains
  <2>3. Turned(i, call[i])
    BY <2>2, StillTurned
  <2>4. mid[i] \in CallState /\ FollowerOK(mid[i]) /\ mid[i].error \notin {"aborted", "interrupted"}
    BY <1>2, <1>9, <2>1, <2>3 DEF Turned, Remains
  <2>5. Followed(mid)[i].error \in {mid[i].error, "redirected"}
    BY <2>4, FollowedFields
  <2> QED
    BY <1>1, <2>4, <2>5
<1> QED
  BY <1>8, <1>9 DEF Conclusion, RedirectInv

LEMMA StartsConclude ==
  ASSUME TypeOK, NavInv, RedirectInv, NEW c \in Call,
         \/ \E f \in Frame, until \in Until, d \in Document \cup {None} : Goto(c, f, until, d)
         \/ \E kind \in {"reload", "history"}, until \in Until : WaitForNavigation(c, kind, until)
         \/ \E r \in Request, d \in Document : RedirectNavigation(c, r, d)
  PROVE  Conclusion
<1>1. /\ NewCall \in CallState /\ NewCall.kind = "goto"
      /\ NewCall.collected = NothingCollected /\ NewCall.target = None
  BY NewCallType DEF NewCall
<1>2. {"goto", "redirected", "reload", "history"} \subseteq Kind /\ {"sent", "waiting"} \subseteq Phase
  BY DEF Kind, Phase
<1>3. ASSUME NEW f \in Frame, NEW until \in Until, NEW d \in Document \cup {None},
             Goto(c, f, until, d)
      PROVE  Conclusion
  <2> DEFINE s == [NewCall EXCEPT !.kind = "goto", !.phase = "sent", !.frame = f,
                                  !.until = until, !.target = d]
  <2>1. Updates(c, s) /\ call[c].phase = "idle" /\ (d # None => Fresh(d))
    BY <1>3 DEF Goto
  <2>2. /\ s \in CallState /\ s.kind = "goto" /\ s.phase = "sent" /\ s.target = d
        /\ s.collected = NothingCollected
    BY <1>1, <1>2, UntilAssumption DEF CallState
  <2> HIDE DEF s
  <2> QED
    BY <2>1, <2>2, NewCallConcludes
<1>4. ASSUME NEW kind \in {"reload", "history"}, NEW until \in Until,
             WaitForNavigation(c, kind, until)
      PROVE  Conclusion
  <2> DEFINE s == [NewCall EXCEPT !.kind = kind, !.phase = "waiting", !.until = until]
  <2>1. Updates(c, s) /\ call[c].phase = "idle"
    BY <1>4 DEF WaitForNavigation
  <2>2. /\ s \in CallState /\ s.kind = kind /\ s.phase = "waiting" /\ s.target = None
        /\ s.collected = NothingCollected
    BY <1>1, <1>2, UntilAssumption DEF CallState
  <2> HIDE DEF s
  <2> QED
    BY <2>1, <2>2, NewCallConcludes
<1>5. ASSUME NEW r \in Request, NEW d \in Document, RedirectNavigation(c, r, d)
      PROVE  Conclusion
  <2> DEFINE f == req[r].frame
             o == req[r].doc
             s == [NewCall EXCEPT !.kind = "redirected", !.phase = "sent", !.frame = f,
                                  !.target = d, !.original = o]
  <2>1. Updates(c, s) /\ call[c].phase = "idle" /\ Fresh(d) /\ o # None /\ req[r].state = "started"
    BY <1>5 DEF RedirectNavigation
  <2>2. f \in Frame /\ o \in Document
    BY <2>1 DEF TypeOK
  <2>3. Begun(req, o, f)
    BY <2>1 DEF Begun
  <2> HIDE DEF f, o
  <2>4. /\ s \in CallState /\ s.kind = "redirected" /\ s.phase = "sent"
        /\ s.frame = f /\ s.original = o /\ s.target = d /\ s.collected = NothingCollected
    BY <1>1, <1>2, <2>2 DEF CallState
  <2> HIDE DEF s
  <2> QED
    BY <2>1, <2>2, <2>3, <2>4, NewCallConcludes
<1> QED
  BY <1>3, <1>4, <1>5

LEMMA NextConcludes ==
  TypeOK /\ NavInv /\ RedirectInv /\ [NavNext]_allVars => Conclusion
<1> SUFFICES ASSUME TypeOK, NavInv, RedirectInv, [NavNext]_allVars PROVE Conclusion
  OBVIOUS
<1>1. CASE PageStep
  BY <1>1, PageStepsConclude
<1>2. CASE CallStep
  <2>1. PICK c \in Call :
          \/ \/ \E f \in Frame, until \in Until, d \in Document \cup {None} : Goto(c, f, until, d)
             \/ \E kind \in {"reload", "history"}, until \in Until : WaitForNavigation(c, kind, until)
             \/ \E r \in Request, d \in Document : RedirectNavigation(c, r, d)
          \/ \/ NavigateFrameReturns(c) \/ NavigateFrameFails(c) \/ CommandReturns(c)
             \/ NothingToGoTo(c) \/ ResponseArrives(c) \/ TimeOut(c)
    BY <1>2 DEF CallStep
  <2> QED
    BY <2>1, StartsConclude, AnswersConclude
<1>3. CASE UNCHANGED allVars
  <2>1. call' = call /\ req' = req
    BY <1>3 DEF allVars, vars
  <2>2. ASSUME NEW c \in Call PROVE Turned(c, call[c])
    <3>1. Remains(call[c], call[c])
      BY DEF NavInv, Remains
    <3> QED
      BY <3>1, StillTurned
  <2> QED
    BY <2>1, <2>2 DEF Conclusion, RedirectInv, Turned
<1> QED
  BY <1>1, <1>2, <1>3 DEF NavNext

(* A goto that was redirected never fails with the abort of its own document, *)
(* nor as if another navigation had interrupted it: it follows.             *)
THEOREM RedirectedFollows == NavSpec => RedirectedGotoFollows
<1>1. NavInit => RedirectInv
  BY InitRedirectInv
<1>2. TypeOK /\ NavInv /\ RedirectInv /\ [NavNext]_allVars =>
        /\ RedirectInv'
        /\ [\A c \in Call :
              /\ call[c].kind = "goto" /\ Active(call[c])
              /\ \E i \in Call : /\ call[i].original # None /\ call[i].original = call[c].target
                                /\ (Active(call[i]) \/ call[i].phase = "done")
              => call'[c].error \notin {"aborted", "interrupted"}]_allVars
  BY NextConcludes DEF Conclusion, Protected
<1> QED
  BY <1>1, <1>2, NavInvariance, PTL DEF NavSpec, RedirectedGotoFollows

=============================================================================
