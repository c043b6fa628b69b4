-------------------------- MODULE MCFrameNavigation --------------------------
(* Small instances of FrameNavigation, of which a run takes both: "tree", a  *)
(* tree of frames and no call, and "calls", calls in a page with one frame.  *)
EXTENDS FrameNavigation

CONSTANTS LateFrame,   (* Frames that are attached after all the others.     *)
          LateRequest, (* Requests that only continue another one.           *)
          LateCall,    (* Calls that are redirected navigations.              *)
          TreeDocument (* The documents in the first instance.              *)

VARIABLES setting,
          moving   (* Frames that have moved to another process and are yet to commit *)
                   (* there.                                                  *)

LateFramesComeLast ==
  \A late \in LateFrame, f \in Frame \ LateFrame : scope[late] # "new" => scope[f] # "new"

(* Frames are interchangeable, so that one order of attachment stands for     *)
(* all.  Bounds: with a tree there is no call, the page neither crashes nor   *)
(* closes, only some documents are known, navigations are announced with      *)
(* their document, and the last frame reports no lifecycle event of its own. *)
InTree ==
  /\ page = "open"
  /\ LateFramesComeLast
  /\ \A f \in LateFrame : fired[f] \subseteq {"commit", "networkidle"}
  /\ \A r \in LateRequest : req[r].state = "new"
  /\ \A f \in Frame : current[f].documentId \in TreeDocument \cup {None}
  /\ \A f \in Frame : pending[f] # None => pending[f].documentId \in TreeDocument
  /\ \A r \in Request : req[r].doc \in TreeDocument \cup {None}

(* Bounds: with calls the requests are for documents, the idle timers do not *)
(* elapse, and a request is only redirected, by the server or by a route,    *)
(* next to a goto.                                                          *)
InPage ==
  /\ \A f \in Frame \ {MainFrame} : scope[f] = "new"
  /\ timer[MainFrame] # "elapsed"
  /\ \A r \in Request : req[r].state # "new" => req[r].doc # None
  /\ \A r \in LateRequest : req[r].state # "new" =>
        /\ \E q \in Request \ LateRequest : req[q].doc = req[r].doc
        /\ \A k \in Call : call[k].kind = "goto"
  /\ \A c \in LateCall : call[c].phase # "idle" =>
        /\ call[c].kind = "redirected"
        /\ \A k \in Call \ LateCall : call[k].kind = "goto"
  /\ \A c \in Call \ LateCall : call[c].kind # "redirected"

(* Bound: a page is watched until it crashes or its calls are over.          *)
Watched ==
  /\ page # "crashed"
  /\ (\E c \in Call : Over(call[c])) => \E c \in Call : Active(call[c])

InSetting == CASE setting = "tree"  -> InTree
               [] setting = "calls" -> InPage

(* A frame moves to another process because a document commits there.        *)
Departed == IF Attached' # Attached THEN Attached' ELSE {}
Committed(f) == \E d \in Document : FrameCommittedNewDocumentNavigation(f, d)

MCInit == NavInit /\ setting \in {"tree", "calls"} /\ moving = {}
MCNext ==
  /\ Watched
  /\ UNCHANGED setting
  /\ PageStep \/ (setting = "calls" /\ CallStep)
  /\ moving' = Attached' \cap
       ((moving \cup {f \in Departed : RemoveChildFramesRecursively(f)})
          \ {f \in moving : Committed(f)})
  /\ InSetting'
MCSpec ==
  /\ MCInit /\ [][MCNext]_<<allVars, setting, moving>> /\ Fairness
  /\ \A f \in Frame : WF_vars(f \in moving /\ Committed(f))
===============================================================================
