---------------------------- MODULE FrameManager ----------------------------
(***************************************************************************)
(* The frame tree of one page, as the server keeps it: class FrameManager  *)
(* and the network-idle half of class Frame in                             *)
(* packages/playwright-core/src/server/frames.ts.                          *)
(*                                                                         *)
(* The browser reports frames, navigations and requests through the        *)
(* callbacks of FrameManager; each callback runs to completion, so it is   *)
(* one action here.  The only other source of steps is the 500 ms timer of *)
(* a frame, which is what announces "networkidle".                         *)
(*                                                                         *)
(* Frames are Frame objects and never their ids: an object is attached     *)
(* once and detached once.  The parent chain of a frame is kept as the set *)
(* of frames on it, so that "the subtree of f" needs no recursion.         *)
(***************************************************************************)
EXTENDS Naturals, FiniteSets

CONSTANTS
  Frame,            (* Frame objects that may ever exist in the page.        *)
  MainFrame,        (* FrameManager._mainFrame.                              *)
  Request,          (* network.Request objects.                              *)
  ExcludedRequest,  (* The favicon and EventSource requests among them.      *)
  Document,         (* Document ids (loader ids, navigation ids).            *)
  RegularEvent,     (* RegularLifecycleEvent other than "commit".            *)
  OutOfProcessFrames, (* Child frames may move between processes (Chromium). *)
  None              (* undefined                                             *)

ASSUME MainFrameAssumption == MainFrame \in Frame
ASSUME ExcludedAssumption  == ExcludedRequest \subseteq Request
ASSUME EventAssumption     == "commit" \notin RegularEvent /\ "networkidle" \notin RegularEvent
ASSUME OutOfProcessAssumption == OutOfProcessFrames \in BOOLEAN
ASSUME NoneAssumption      == None \notin Request \cup Document

VARIABLES
  page,      (* Page._lifecycle: "open", "crashed" or "closed".              *)
  scope,     (* _detachedScope: "new" before the constructor, "open", "closed" *)
  chain,     (* {f} and the ancestors of f through _parentFrame; {} detached *)
  fired,     (* Frame._firedLifecycleEvents                                  *)
  idleSelf,  (* Frame._firedNetworkIdleSelf                                  *)
  timer,     (* Frame._networkIdleTimer: "none", "armed", or "elapsed" once  *)
             (* its callback ran: the handle is not reset by the callback.   *)
  inflight,  (* Frame._inflightRequests                                      *)
  current,   (* Frame._currentDocument                                       *)
  pending,   (* Frame._pendingDocument                                       *)
  req        (* the Request objects: their state, frame() and _documentId    *)

vars == <<page, scope, chain, fired, idleSelf, timer, inflight, current, pending, req>>
treeVars == <<scope, chain>>
idleVars == <<fired, idleSelf, timer>>
docVars  == <<current, pending>>

Lifecycle    == RegularEvent \cup {"commit", "networkidle"}
DocumentInfo == [documentId : Document \cup {None}, request : Request \cup {None}]
NoRequest    == [state |-> "new", frame |-> MainFrame, doc |-> None]

Attached   == {f \in Frame : scope[f] = "open"}
Subtree(f) == {g \in Attached : f \in chain[g]}

TypeOK ==
  /\ page \in {"open", "crashed", "closed"}
  /\ scope \in [Frame -> {"new", "open", "closed"}]
  /\ chain \in [Frame -> SUBSET Frame]
  /\ fired \in [Frame -> SUBSET Lifecycle]
  /\ idleSelf \in [Frame -> BOOLEAN]
  /\ timer \in [Frame -> {"none", "armed", "elapsed"}]
  /\ inflight \in [Frame -> SUBSET Request]
  /\ current \in [Frame -> DocumentInfo]
  /\ pending \in [Frame -> DocumentInfo \cup {None}]
  /\ req \in [Request -> [state : {"new", "started", "finished", "failed"},
                          frame : Frame, doc : Document \cup {None}]]

(***************************************************************************)
(* Helpers of the handlers.                                                *)
(***************************************************************************)

(* Mutation: a frame answers for itself and not for its subtree.             *)
RecalculatedAlone(events, idle, tree, up) ==
  [f \in Frame |-> IF f \in tree /\ idle[f] THEN events[f] \cup {"networkidle"}
                                            ELSE events[f] \ {"networkidle"}]

(* _recalculateNetworkIdle on the main frame: over the whole tree, a frame  *)
(* holds "networkidle" exactly when every frame below it was idle by itself. *)
(* The frame exempt from the removal has just been cleared, so that for it   *)
(* nothing is there to remove.                                               *)
Recalculated(events, idle, tree, up) ==
  [f \in Frame |->
     IF f \notin tree THEN events[f]
     ELSE IF \A g \in tree : f \in up[g] => idle[g]
          THEN events[f] \cup {"networkidle"}
          ELSE events[f] \ {"networkidle"}]

(* _startNetworkIdleTimer: does nothing in a frame that is network idle or  *)
(* detached.                                                                *)
Started(f) == IF "networkidle" \in fired[f] \/ scope[f] = "closed" THEN "none" ELSE "armed"

(* _removeFramesRecursively on every frame of a set that is closed under    *)
(* descendants, with _onDetached of each.                                   *)
Removed(gone) ==
  /\ scope' = [f \in Frame |-> IF f \in gone THEN "closed" ELSE scope[f]]
  /\ chain' = [f \in Frame |-> IF f \in gone THEN {} ELSE chain[f]]

(* _stopNetworkIdleTimer on a set of frames.                                *)
StoppedTimer(stopped)    == [f \in Frame |-> IF f \in stopped THEN "none" ELSE timer[f]]
StoppedIdleSelf(stopped) == [f \in Frame |-> f \notin stopped /\ idleSelf[f]]

(* _inflightRequestFinished                                                  *)
InflightRequestFinished(r) ==
  LET f    == req[r].frame
      rest == inflight[f] \ {r}
  IN  /\ inflight' = [inflight EXCEPT ![f] = rest]
      /\ timer' = IF r \in inflight[f] /\ rest = {}
                  THEN [timer EXCEPT ![f] = Started(f)]
                  ELSE timer
      /\ UNCHANGED <<fired, idleSelf>>

(* _inflightRequestStarted, on the set of requests that are in flight so far *)
InflightRequestStarted(r, f, others) ==
  /\ inflight' = [inflight EXCEPT ![f] = others \cup ({r} \ ExcludedRequest)]
  /\ IF r \notin ExcludedRequest /\ others = {}
     THEN /\ timer' = StoppedTimer({f})
          /\ idleSelf' = StoppedIdleSelf({f})
     ELSE UNCHANGED <<timer, idleSelf>>
  /\ UNCHANGED fired

(* A document id belongs to one frame, whichever report mentions it first.  *)
DocumentOf(d, f) ==
  /\ \A g \in Frame \ {f} : /\ current[g].documentId # d
                            /\ pending[g] # None => pending[g].documentId # d
  /\ \A r \in Request : req[r].doc = d => req[r].frame = f

(***************************************************************************)
(* The page is created with its main frame.                                *)
(***************************************************************************)
Init ==
  /\ page = "open"
  /\ scope = [f \in Frame |-> IF f = MainFrame THEN "open" ELSE "new"]
  /\ chain = [f \in Frame |-> IF f = MainFrame THEN {f} ELSE {}]
  /\ fired = [f \in Frame |-> IF f = MainFrame THEN {"commit"} ELSE {}]
  /\ idleSelf = [f \in Frame |-> FALSE]
  /\ timer = [f \in Frame |-> IF f = MainFrame THEN "armed" ELSE "none"]
  /\ inflight = [f \in Frame |-> {}]
  /\ current = [f \in Frame |-> [documentId |-> None, request |-> None]]
  /\ pending = [f \in Frame |-> None]
  /\ req = [r \in Request |-> NoRequest]

(***************************************************************************)
(* Frames come and go.                                                     *)
(***************************************************************************)
FrameAttached(f, parent) ==
  /\ scope[f] = "new"
  /\ parent \in Attached
  /\ scope' = [scope EXCEPT ![f] = "open"]
  /\ chain' = [chain EXCEPT ![f] = chain[parent] \cup {f}]
  /\ fired' = [fired EXCEPT ![f] = {"commit"}]
  /\ timer' = [timer EXCEPT ![f] = "armed"]
  /\ UNCHANGED <<page, idleSelf, inflight, docVars, req>>

FrameDetached(f) ==
  LET gone == Subtree(f)
  IN  /\ f \in Attached \ {MainFrame}
      /\ Removed(gone)
      /\ timer' = StoppedTimer(gone)
      /\ idleSelf' = StoppedIdleSelf(gone)
      /\ fired' = Recalculated(fired, idleSelf', Attached \ gone, chain)
      /\ UNCHANGED <<page, inflight, docVars, req>>

(* A child frame that moves between processes loses its own children;       *)
(* nothing is recalculated until it commits a document in the new process.  *)
RemoveChildFramesRecursively(f) ==
  LET gone == Subtree(f) \ {f}
  IN  /\ OutOfProcessFrames
      /\ f \in Attached \ {MainFrame}
      /\ gone # {}
      /\ Removed(gone)
      /\ timer' = StoppedTimer(gone)
      /\ idleSelf' = StoppedIdleSelf(gone)
      /\ UNCHANGED <<page, fired, inflight, docVars, req>>

(***************************************************************************)
(* Requests.                                                               *)
(***************************************************************************)
SetPending(f, d, r) ==
  pending' = [pending EXCEPT ![f] = [documentId |-> d, request |-> r]]

RequestStarted(r, f, d) ==
  /\ req[r].state = "new"
  /\ f \in Attached
  /\ d # None => /\ DocumentOf(d, f)
                 /\ current[f].documentId # d
                 /\ \A q \in Request : req[q].doc # d
  /\ req' = [req EXCEPT ![r] = [state |-> "started", frame |-> f, doc |-> d]]
  /\ InflightRequestStarted(r, f, inflight[f])
  /\ IF d # None THEN SetPending(f, d, r) ELSE UNCHANGED pending
  /\ UNCHANGED <<page, treeVars, current>>

(* A redirect finishes one request and starts the next one in one handler,  *)
(* for the same document.                                                   *)
RequestRedirected(r, next) ==
  LET f == req[r].frame
      d == req[r].doc
  IN  /\ req[r].state = "started"
      /\ req[next].state = "new"
      /\ f \in Attached
      /\ r \in ExcludedRequest <=> next \in ExcludedRequest
      /\ req' = [req EXCEPT ![r].state = "finished",
                            ![next] = [state |-> "started", frame |-> f, doc |-> d]]
      /\ InflightRequestStarted(next, f, inflight[f] \ {r})
      /\ IF d # None THEN SetPending(f, d, next) ELSE UNCHANGED pending
      /\ UNCHANGED <<page, treeVars, current>>

ReportRequestFinished(r) ==
  /\ req[r].state = "started"
  /\ req' = [req EXCEPT ![r].state = "finished"]
  /\ InflightRequestFinished(r)
  /\ UNCHANGED <<page, treeVars, docVars>>

RequestFailed(r) ==
  LET f == req[r].frame
  IN  /\ req[r].state = "started"
      /\ req' = [req EXCEPT ![r].state = "failed"]
      /\ InflightRequestFinished(r)
      /\ IF f \in Attached /\ pending[f] # None /\ pending[f].request = r
         THEN pending' = [pending EXCEPT ![f] = None]
         ELSE UNCHANGED pending
      /\ UNCHANGED <<page, treeVars, current>>

(***************************************************************************)
(* Navigations.                                                            *)
(***************************************************************************)
FrameRequestedNavigation(f, d) ==
  LET known == {r \in inflight[f] : d # None /\ req[r].doc = d}
  IN  /\ f \in Attached
      /\ d # None => DocumentOf(d, f)
      /\ ~(pending[f] # None /\ pending[f].documentId = d)
      /\ \E r \in IF known = {} THEN {None} ELSE known : SetPending(f, d, r)
      /\ UNCHANGED <<page, treeVars, idleVars, inflight, current, req>>

(* Mutation: any pending document is taken for the committed one.            *)
IsAnyPendingDocument(f, d) == pending[f] # None

(* The document being committed is the pending one when the ids agree, or   *)
(* when the pending one has no id yet.                                      *)
IsPendingDocument(f, d) ==
  pending[f] # None /\ pending[f].documentId \in {None, d}

CommittedDocument(f, d) ==
  [documentId |-> d,
   request    |-> IF IsPendingDocument(f, d) THEN pending[f].request ELSE None]

(* frameCommittedNewDocumentNavigation, with _onClearLifecycle.             *)
FrameCommittedNewDocumentNavigation(f, d) ==
  LET gone == Subtree(f) \ {f}
      kept == inflight[f] \cap {CommittedDocument(f, d).request}
  IN  /\ f \in Attached
      /\ DocumentOf(d, f)
      /\ current' = [current EXCEPT ![f] = CommittedDocument(f, d)]
      /\ pending' = IF IsPendingDocument(f, d) THEN [pending EXCEPT ![f] = None] ELSE pending
      /\ inflight' = [inflight EXCEPT ![f] = kept]
      /\ Removed(gone)
      /\ timer' = [StoppedTimer(gone) EXCEPT ![f] = IF kept = {} THEN "armed" ELSE "none"]
      /\ idleSelf' = StoppedIdleSelf(gone \cup {f})
      /\ fired' = Recalculated([fired EXCEPT ![f] = {"commit"}], idleSelf', Attached \ gone, chain)
      /\ UNCHANGED <<page, req>>

FrameCommittedSameDocumentNavigation(f) ==
  /\ f \in Attached
  /\ pending[f] = [documentId |-> None, request |-> None]
  /\ pending' = [pending EXCEPT ![f] = None]
  /\ UNCHANGED <<page, treeVars, idleVars, inflight, current, req>>

FrameAbortedNavigation(f, d) ==
  /\ f \in Attached
  /\ pending[f] # None
  /\ d # None => pending[f].documentId = d
  /\ pending' = [pending EXCEPT ![f] = None]
  /\ UNCHANGED <<page, treeVars, idleVars, inflight, current, req>>

(***************************************************************************)
(* Lifecycle events, the timer, and the end of the page.                   *)
(***************************************************************************)
(* Mutations: the event, or the timer, only touches its own frame.           *)
FrameLifecycleEventAlone(f, event) ==
  /\ f \in Attached
  /\ fired' = [fired EXCEPT ![f] = @ \cup {event}]
  /\ UNCHANGED <<page, treeVars, idleSelf, timer, inflight, docVars, req>>

NetworkIdleTimerFiredAlone(f) ==
  /\ timer[f] = "armed"
  /\ timer' = [timer EXCEPT ![f] = "elapsed"]
  /\ idleSelf' = [idleSelf EXCEPT ![f] = TRUE]
  /\ UNCHANGED <<page, treeVars, fired, inflight, docVars, req>>

FrameLifecycleEvent(f, event) ==
  /\ f \in Attached
  /\ event \notin fired[f]
  /\ fired' = Recalculated([fired EXCEPT ![f] = @ \cup {event}], idleSelf, Attached, chain)
  /\ UNCHANGED <<page, treeVars, idleSelf, timer, inflight, docVars, req>>

NetworkIdleTimerFired(f) ==
  /\ timer[f] = "armed"
  /\ timer' = [timer EXCEPT ![f] = "elapsed"]
  /\ idleSelf' = [idleSelf EXCEPT ![f] = TRUE]
  /\ fired' = Recalculated(fired, idleSelf', Attached, chain)
  /\ UNCHANGED <<page, treeVars, inflight, docVars, req>>

(* Page._didClose and Page._didCrash; FrameManager.dispose runs once, on    *)
(* whichever comes first.                                                   *)
PageDidCrash ==
  /\ page = "open"
  /\ page' = "crashed"
  /\ timer' = StoppedTimer(Attached)
  /\ idleSelf' = StoppedIdleSelf(Attached)
  /\ UNCHANGED <<treeVars, fired, inflight, docVars, req>>

PageDidClose ==
  /\ page # "closed"
  /\ page' = "closed"
  /\ timer' = IF page = "open" THEN StoppedTimer(Attached) ELSE timer
  /\ idleSelf' = IF page = "open" THEN StoppedIdleSelf(Attached) ELSE idleSelf
  /\ UNCHANGED <<treeVars, fired, inflight, docVars, req>>

(* What the browser reports while its session is alive: until the page is   *)
(* closed, a crash included.                                                *)
BrowserStep ==
  \/ \E f, parent \in Frame : FrameAttached(f, parent)
  \/ \E f \in Frame : FrameDetached(f)
  \/ \E f \in Frame : RemoveChildFramesRecursively(f)
  \/ \E r \in Request, f \in Frame, d \in Document \cup {None} : RequestStarted(r, f, d)
  \/ \E r, next \in Request : RequestRedirected(r, next)
  \/ \E r \in Request : ReportRequestFinished(r)
  \/ \E r \in Request : RequestFailed(r)
  \/ \E f \in Frame, d \in Document \cup {None} : FrameRequestedNavigation(f, d)
  \/ \E f \in Frame, d \in Document : FrameCommittedNewDocumentNavigation(f, d)
  \/ \E f \in Frame : FrameCommittedSameDocumentNavigation(f)
  \/ \E f \in Frame, d \in Document \cup {None} : FrameAbortedNavigation(f, d)
  \/ \E f \in Frame, event \in RegularEvent : FrameLifecycleEvent(f, event)
  \/ PageDidCrash
  \/ PageDidClose

Next ==
  \/ page # "closed" /\ BrowserStep
  \/ \E f \in Frame : NetworkIdleTimerFired(f)

(* The timers belong to the event loop of the server and always run; the    *)
(* browser owes nothing.                                                    *)
Fairness == \A f \in Frame : WF_vars(NetworkIdleTimerFired(f))

Spec == Init /\ [][Next]_vars /\ Fairness

(***************************************************************************)
(* Properties.                                                             *)
(***************************************************************************)

(* The assert of _startNetworkIdleTimer: a frame with requests in flight    *)
(* has no timer, so that the last of them to finish always finds the handle *)
(* undefined, whatever mix of commits, redirects and late answers preceded. *)
NoTimerWhileInflight ==
  \A f \in Frame : inflight[f] # {} => timer[f] = "none"

(* A frame counts as idle by itself only while its elapsed timer is still   *)
(* the last thing that happened to it, and a detached frame never does.     *)
IdleSelfIsElapsedTimer ==
  \A f \in Frame :
    /\ idleSelf[f] <=> timer[f] = "elapsed"
    /\ timer[f] # "none" => f \in Attached

(* The idle timer of a frame, its flag and the requests in flight agree.    *)
IdleTimersAgree == NoTimerWhileInflight /\ IdleSelfIsElapsedTimer

(* No request is counted in flight twice or for ever: what is in the set    *)
(* has started in that frame, has not ended, and is not of an excluded kind. *)
InflightIsLive ==
  \A f \in Frame : \A r \in inflight[f] :
    /\ req[r].state = "started"
    /\ req[r].frame = f
    /\ r \notin ExcludedRequest

(* The request kept with a document is the one that loads that document in  *)
(* that frame: this is what goto() and waitForNavigation() answer with.     *)
DocumentRequestMatches ==
  \A f \in Frame : \A info \in {current[f], pending[f]} \ {None} :
    info.request # None =>
      /\ req[info.request].frame = f
      /\ info.documentId # None
      /\ req[info.request].doc = info.documentId

(* A failed navigation request never leaves its frame waiting for the       *)
(* document: the frame forgets the pending document in the same handler.    *)
FailedRequestIsNotPending ==
  \A f \in Attached :
    pending[f] # None /\ pending[f].request # None => req[pending[f].request].state # "failed"

(* Requests, frames and documents never get mixed up by redirects, swaps of *)
(* processes, competing navigations and late answers.                       *)
RequestsMatchDocuments ==
  InflightIsLive /\ DocumentRequestMatches /\ FailedRequestIsNotPending

(* The tree stays a tree under partial removals: an attached frame hangs    *)
(* from the main frame by attached frames, whose ancestors are its own, and *)
(* no frame is above itself.                                                *)
TreeIsConnected ==
  \A f \in Attached :
    /\ {f, MainFrame} \subseteq chain[f]
    /\ \A g \in chain[f] : /\ g \in Attached
                           /\ chain[g] \subseteq chain[f]
                           /\ f \in chain[g] => f = g

(* What is kept in more than one place agrees: the frames and their parents, *)
(* the timers and the requests in flight, the documents and their requests.  *)
StateAgrees == TreeIsConnected /\ IdleTimersAgree /\ RequestsMatchDocuments

(* A frame that is network idle covers its subtree: every frame below it is *)
(* network idle too, or was attached after the last recalculation and has   *)
(* reported nothing since.                                                  *)
NetworkIdleCoversSubtree ==
  \A f \in Attached : "networkidle" \in fired[f] =>
    \A g \in Subtree(f) : "networkidle" \in fired[g] \/ fired[g] = {"commit"}

(* "networkidle" is announced for a frame only when no frame of its subtree *)
(* has a request in flight and each of them has been quiet for a full timer. *)
NetworkIdleIsSound ==
  [][\A f \in Frame : "networkidle" \in fired'[f] \ fired[f] =>
       \A g \in Subtree(f)' : inflight'[g] = {} /\ timer'[g] = "elapsed"]_vars

(* The page settles: from some point on no new document is committed.  A    *)
(* page that commits documents for ever restarts its timers for ever.       *)
CommitsEnd ==
  <>[][\A f \in Frame, d \in Document : ~FrameCommittedNewDocumentNavigation(f, d)]_vars

(* Once every frame of a settled page has its timer running or elapsed, the *)
(* main frame becomes network idle and stays so.                            *)
ArmedFramesGetIdle ==
  CommitsEnd /\ <>[](\A f \in Attached : timer[f] # "none") =>
  <>[]("networkidle" \in fired[MainFrame])

(* "networkidle" is for "no network connections for at least 500 ms"        *)
(* (docs/src/api/params.md): a settled page that stays open and has no      *)
(* request in flight gets it.                                               *)
QuietPageGetsIdle ==
  CommitsEnd /\ <>[](page = "open" /\ \A f \in Attached : inflight[f] = {}) =>
  <>[]("networkidle" \in fired[MainFrame])
=============================================================================
