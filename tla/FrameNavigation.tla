--------------------------- MODULE FrameNavigation ---------------------------
(***************************************************************************)
(* The calls that wait for navigations, over the frame manager: goto,      *)
(* waitForNavigation with reload, goBack and goForward on top of it, and    *)
(* raceNavigationAction with the redirected navigations, in                *)
(* packages/playwright-core/src/server/frames.ts and page.ts.              *)
(*                                                                         *)
(* A call listens to what the frame emits: an InternalNavigation event for  *)
(* a commit or an abort, AddLifecycle for a lifecycle event.  What it does  *)
(* when a promise settles happens before the next task of the event loop,  *)
(* hence in the action that settles it.                                    *)
(***************************************************************************)
EXTENDS FrameManager

CONSTANTS
  Call,              (* The calls.                                           *)
  Until              (* What they may wait for.                              *)

ASSUME UntilAssumption == Until \subseteq Lifecycle /\ "load" \in RegularEvent

VARIABLES
  call,              (* the state of the calls, see CallState                *)
  heard              (* history: the lifecycle events of the frame since the *)
                     (* document that a call is about was committed, for     *)
                     (* goBack or goForward also without a new document;     *)
                     (* {} before                                            *)

allVars == <<vars, call, heard>>

(* A redirected goto is the gotoImpl of redirectNavigation, which has no     *)
(* timeout and is not raced with the frame and the page.                    *)
Kind == {"goto", "redirected", "reload", "history"}

(* A call is "sent" while goto waits for the answer of navigateFrame,        *)
(* "waiting" for the navigation, "loading" until the lifecycle event,        *)
(* "answering" until its request has a response, "ready" when the command    *)
(* of a reload, goBack or goForward is all that is left, "broken" when that  *)
(* is so but the navigation failed, and "following" a redirected navigation. *)
Phase == {"idle", "sent", "waiting", "loading", "answering", "ready", "broken",
          "following", "done", "failed"}

(* What goto collects before it knows its document: the first commit, the    *)
(* documents that were aborted before that, and whether a navigation within  *)
(* the document was among the events.                                       *)
Collected == [commit : Document \cup {None}, aborted : SUBSET Document, same : BOOLEAN]
NothingCollected == [commit |-> None, aborted |-> {}, same |-> FALSE]

CallState == [kind : Kind, phase : Phase, frame : Frame, until : Lifecycle,
              target : Document \cup {None},     (* the document of a goto,   *)
                                                 (* None if it is within the  *)
                                                 (* document                  *)
              collected : Collected,
              answered : BOOLEAN,                (* the command of the others *)
              document : Document \cup {None},   (* of the error, if broken   *)
              original : Document \cup {None},   (* the document that was     *)
                                                 (* redirected                *)
              error : {"none", "aborted", "interrupted", "closed", "timeout",
                       "refused", "redirected"}]

NewCall == [kind |-> "goto", phase |-> "idle", frame |-> MainFrame, until |-> "load",
            target |-> None, collected |-> NothingCollected,
            answered |-> FALSE, document |-> None, original |-> None, error |-> "none"]

Over(r) == r.phase \in {"done", "failed"}
Active(r) == r.phase # "idle" /\ ~Over(r)

NavInit == /\ Init
           /\ call = [c \in Call |-> NewCall]
           /\ heard = [c \in Call |-> {}]

(***************************************************************************)
(* The steps of one call.                                                  *)
(***************************************************************************)
(* _redirectedNavigations: an entry lives as long as its navigation.         *)
Redirection(d) == {i \in Call : /\ call[i].kind = "redirected" /\ Active(call[i])
                                /\ call[i].original = d /\ d # None}

Failed(r, error) ==
  [r EXCEPT !.phase = "failed", !.error = error, !.collected = NothingCollected]

(* Mutation: who is redirected does not wait.                               *)
AbortedAlone(r, d, error) == Failed(r, error)

(* NavigationAbortedError, with the document it is about.                    *)
Aborted(r, d, error) ==
  IF r.kind # "redirected" /\ Redirection(d) # {}
  THEN [r EXCEPT !.phase = "following", !.error = "redirected", !.collected = NothingCollected]
  ELSE Failed(r, error)

(* The end of waitForNavigation or of gotoImpl.                              *)
Finished(r) ==
  [r EXCEPT !.phase = IF r.kind \in {"reload", "history"} /\ ~r.answered THEN "ready" ELSE "done"]

(* A navigation that fails under goBack or goForward waits for the command.  *)
NavigationAborted(r, d, error) ==
  IF r.kind = "history" /\ ~r.answered
  THEN [r EXCEPT !.phase = "broken", !.document = d, !.error = error]
  ELSE Aborted(r, d, error)

(* After the navigation: the lifecycle event may have fired already.         *)
Navigated(r, events) ==
  [r EXCEPT !.phase = IF r.until \in events THEN "answering" ELSE "loading"]

(* gotoImpl knows its document and has an event about it or about another    *)
(* one that was committed.                                                  *)
GotoCommitted(r, d, events) ==
  IF d = r.target THEN Navigated(r, events) ELSE Aborted(r, r.target, "interrupted")

(***************************************************************************)
(* InternalNavigation events.  "document" is that of newDocument, "error"    *)
(* the one of the NavigationAbortedError.                                   *)
(***************************************************************************)
NoEvent == [type |-> "none", frame |-> None, document |-> None, error |-> None]
CommitEvent(f, d)   == [NoEvent EXCEPT !.type = "commit", !.frame = f, !.document = d]
SameEvent(f)        == [NoEvent EXCEPT !.type = "same", !.frame = f]
AbortEvent(f, d, e) == [NoEvent EXCEPT !.type = "abort", !.frame = f, !.document = d, !.error = e]

Collect(s, event) ==
  CASE event.type = "commit" /\ s.commit = None -> [s EXCEPT !.commit = event.document]
    [] event.type = "abort" /\ s.commit = None /\ event.document # None ->
         [s EXCEPT !.aborted = @ \cup {event.document}]
    [] event.type = "same" -> [s EXCEPT !.same = TRUE]
    [] OTHER -> s

HearsGoto(r, event, events) ==
  IF r.target = None THEN IF event.type = "same" THEN Navigated(r, events) ELSE r
  ELSE CASE event.type = "commit" -> GotoCommitted(r, event.document, events)
         [] event.type = "abort" /\ event.document = r.target ->
              Aborted(r, event.error, "aborted")
         [] OTHER -> r

(* waitForNavigation: any failed navigation rejects it; a reload waits for a *)
(* new document.                                                            *)
HearsWait(r, event, events) ==
  CASE event.type = "abort" -> NavigationAborted(r, event.error, "aborted")
    [] event.type = "same" /\ r.kind = "reload" -> r
    [] OTHER -> Navigated(r, events)

Hears(r, event, events) ==
  IF event.type = "none" \/ event.frame # r.frame THEN r
  ELSE CASE r.phase = "sent" -> [r EXCEPT !.collected = Collect(@, event)]
         [] r.phase = "waiting" /\ r.kind \in {"goto", "redirected"} -> HearsGoto(r, event, events)
         [] r.phase = "waiting" /\ r.kind \in {"reload", "history"} -> HearsWait(r, event, events)
         [] OTHER -> r

(* Mutation: the calls hear of the commit before the lifecycle is cleared.   *)
SeenEarly(f, event) == fired[f]

(* What a call that hears an event finds in _firedLifecycleEvents.           *)
Seen(f, event) == fired'[f]

(* AddLifecycle events: a commit clears the set and fires "commit" again.    *)
Added(f, event) ==
  (fired'[f] \ fired[f]) \cup (IF event.type = "commit" /\ event.frame = f THEN {"commit"} ELSE {})

Woken(r, event) ==
  IF r.phase = "loading" /\ r.until \in Added(r.frame, event)
  THEN [r EXCEPT !.phase = "answering"] ELSE r

(* The scopes of raceNavigationAction.                                       *)
Raced(r) ==
  IF Active(r) /\ r.kind # "redirected" /\ (scope'[r.frame] = "closed" \/ page' # "open")
  THEN Failed(r, "closed") ELSE r

(* The followers of a redirected navigation end with it.                     *)
Followed(calls) ==
  [c \in Call |->
     LET ends == {i \in Call : /\ calls[i].kind = "redirected" /\ Over(calls[i])
                               /\ calls[c].phase = "following"
                               /\ calls[i].original = calls[c].target}
     IN IF ends = {} THEN calls[c]
        ELSE IF \E i \in ends : calls[i].phase = "done" THEN [calls[c] EXCEPT !.phase = "done"]
        ELSE Failed(calls[c], "redirected")]

(* The commit that a call is about.                                          *)
IsAbout(r, event) ==
  /\ r.phase \in {"sent", "waiting"} /\ event.type # "none" /\ event.frame = r.frame
  /\ CASE r.kind \in {"goto", "redirected"} -> event.type = "commit" /\ event.document = r.target
       [] r.kind = "reload"                 -> event.type = "commit"
       [] r.kind = "history"                -> event.type \in {"commit", "same"}

(* A callback of the frame manager with the event that it emits.             *)
Emits(event) ==
  /\ call' = Followed([c \in Call |->
       Raced(Hears(Woken(call[c], event), event, Seen(call[c].frame, event)))])
  /\ heard' = [c \in Call |->
       IF IsAbout(call[c], event) THEN fired'[call[c].frame]
       ELSE IF heard[c] = {} THEN {}
       ELSE heard[c] \cup Added(call[c].frame, event)]

Quietly == Emits(NoEvent)

(***************************************************************************)
(* The frame manager, with a browser that gives a document to each goto and *)
(* keeps a request that is redirected from going on: such a document is     *)
(* never committed, and the goto gets its answer before the navigation that  *)
(* replaces it goes on.                                                     *)
(***************************************************************************)
InItsFrame(f, d) == \A c \in Call : d # None /\ call[c].target = d => call[c].frame = f

MayCommit(f, d) ==
  /\ InItsFrame(f, d)
  /\ \A i \in Call : call[i].kind = "redirected" =>
       /\ call[i].original # d
       /\ call[i].target = d =>
            \A c \in Call : call[c].target = call[i].original => call[c].phase # "sent"

CommitsNewDocument(f, d) ==
  MayCommit(f, d) /\ FrameCommittedNewDocumentNavigation(f, d) /\ Emits(CommitEvent(f, d))

(* Also when there is nothing pending to clear.                              *)
CommitsSameDocument(f) ==
  /\ f \in Attached
  /\ IF pending[f] = [documentId |-> None, request |-> None]
     THEN FrameCommittedSameDocumentNavigation(f) ELSE UNCHANGED vars
  /\ Emits(SameEvent(f))

(* A navigation whose request a route holds back is neither cancelled by a    *)
(* beforeunload dialog nor a download, which are reported without the        *)
(* document.                                                                *)
AbortsNavigation(f, d) ==
  /\ FrameAbortedNavigation(f, d)
  /\ d = None => \A i \in Call : call[i].original = None \/ call[i].original # pending[f].documentId
  /\ Emits(AbortEvent(f, pending[f].documentId, d))

FailsRequest(r) ==
  LET f == req[r].frame IN
  /\ RequestFailed(r)
  /\ IF pending'[f] = pending[f] THEN Quietly
     ELSE Emits(AbortEvent(f, pending[f].documentId, pending[f].documentId))

StartsRequest(r, f, d)      == InItsFrame(f, d) /\ RequestStarted(r, f, d) /\ Quietly
RequestsNavigation(f, d)    == InItsFrame(f, d) /\ FrameRequestedNavigation(f, d) /\ Quietly
AttachesFrame(f, parent)    == FrameAttached(f, parent) /\ Quietly
RemovesFrames(f)            == (FrameDetached(f) \/ RemoveChildFramesRecursively(f)) /\ Quietly
RedirectsRequest(r, next)   == RequestRedirected(r, next) /\ Quietly
FinishesRequest(r)          == ReportRequestFinished(r) /\ Quietly
FiresLifecycle(f, event)    == FrameLifecycleEvent(f, event) /\ Quietly
FiresTimer(f)               == NetworkIdleTimerFired(f) /\ Quietly
Crashes                     == PageDidCrash /\ Quietly
Closes                      == PageDidClose /\ Quietly

(***************************************************************************)
(* The steps that a call makes by itself.                                  *)
(***************************************************************************)
Updates(c, r) == /\ call' = Followed([call EXCEPT ![c] = r])
                 /\ UNCHANGED <<vars, heard>>

Fresh(d) ==
  /\ \A f \in Frame : /\ current[f].documentId # d
                      /\ pending[f] # None => pending[f].documentId # d
  /\ \A r \in Request : req[r].doc # d
  /\ \A c \in Call : call[c].target # d

(* The browser gives the document its id before anybody hears of it; none if  *)
(* the navigation is within the document.                                    *)
Goto(c, f, until, d) ==
  /\ call[c].phase = "idle" /\ f \in Attached /\ page = "open" /\ (d # None => Fresh(d))
  /\ Updates(c, [NewCall EXCEPT !.kind = "goto", !.phase = "sent", !.frame = f,
                                !.until = until, !.target = d])

(* reload, goBack and goForward are those of the main frame.                 *)
WaitForNavigation(c, kind, until) ==
  /\ call[c].phase = "idle" /\ page = "open" /\ kind \in {"reload", "history"}
  /\ Updates(c, [NewCall EXCEPT !.kind = kind, !.phase = "waiting", !.until = until])

(* The handler of the route of a navigation request redirects it.            *)
RedirectNavigation(i, r, d) ==
  LET f == req[r].frame IN
  /\ call[i].phase = "idle" /\ page = "open" /\ f \in Attached
  /\ req[r].state = "started" /\ req[r].doc # None
  /\ current[f].documentId # req[r].doc
  /\ \A k \in Call : call[k].original # req[r].doc
  /\ Fresh(d)
  /\ Updates(i, [NewCall EXCEPT !.kind = "redirected", !.phase = "sent", !.frame = f,
                                !.target = d, !.original = req[r].doc])

(* navigateFrame returns with the document, or without one.                  *)
GotoAnswered(r, events) ==
  CASE r.target = None -> IF r.collected.same THEN Navigated(r, events)
                                             ELSE [r EXCEPT !.phase = "waiting"]
    [] r.target \in r.collected.aborted -> Aborted(r, r.target, "aborted")
    [] r.target \in Document \ r.collected.aborted /\ r.collected.commit # None ->
         GotoCommitted(r, r.collected.commit, events)
    [] OTHER -> [r EXCEPT !.phase = "waiting"]

NavigateFrameReturns(c) ==
  /\ call[c].phase = "sent"
  /\ Updates(c, [GotoAnswered(call[c], fired[call[c].frame]) EXCEPT !.collected = NothingCollected])

(* The navigation failed, or the session is closed.                          *)
NavigateFrameFails(c) ==
  /\ call[c].phase = "sent"
  /\ \/ Updates(c, Aborted(call[c], call[c].target, "aborted"))
     \/ page # "open" /\ Updates(c, Failed(call[c], "refused"))

(* Mutation: nobody waits for the command.                                   *)
CommandReturnsUnnoticed(c) ==
  /\ call[c].kind \in {"reload", "history"} /\ Active(call[c]) /\ ~call[c].answered
  /\ Updates(c, [call[c] EXCEPT !.answered = TRUE])

(* The command of reload is answered; that of goBack and goForward also by   *)
(* "there is no such entry", which ends the call.                           *)
CommandReturns(c) ==
  LET r == [call[c] EXCEPT !.answered = TRUE] IN
  /\ call[c].kind \in {"reload", "history"} /\ Active(call[c]) /\ ~call[c].answered
  /\ CASE call[c].phase = "ready"  -> Updates(c, [r EXCEPT !.phase = "done"])
       [] call[c].phase = "broken" -> Updates(c, Aborted(r, r.document, r.error))
       [] OTHER                    -> Updates(c, r)

NothingToGoTo(c) ==
  /\ call[c].kind = "history" /\ Active(call[c]) /\ ~call[c].answered
  /\ call[c].phase # "following"
  /\ Updates(c, [call[c] EXCEPT !.phase = "done", !.answered = TRUE, !.error = "refused"])

(* The request of the document has its response or has failed.               *)
ResponseArrives(c) ==
  /\ call[c].phase = "answering"
  /\ Updates(c, Finished(call[c]))

(* The progress is aborted or runs out of time.                              *)
TimeOut(c) ==
  /\ Active(call[c]) /\ call[c].kind # "redirected"
  /\ Updates(c, Failed(call[c], "timeout"))

PageStep ==
  \/ page # "closed" /\
     \/ \E f \in Frame, d \in Document : CommitsNewDocument(f, d)
     \/ \E f \in Frame : CommitsSameDocument(f) \/ RemovesFrames(f)
     \/ \E f \in Frame, d \in Document \cup {None} : AbortsNavigation(f, d) \/ RequestsNavigation(f, d)
     \/ \E r \in Request, f \in Frame, d \in Document \cup {None} : StartsRequest(r, f, d)
     \/ \E r, next \in Request : RedirectsRequest(r, next)
     \/ \E r \in Request : FinishesRequest(r) \/ FailsRequest(r)
     \/ \E f, parent \in Frame : AttachesFrame(f, parent)
     \/ \E f \in Frame, event \in RegularEvent : FiresLifecycle(f, event)
     \/ Crashes \/ Closes
  \/ \E f \in Frame : FiresTimer(f)

CallStep ==
  \E c \in Call :
    \/ \E f \in Frame, until \in Until, d \in Document \cup {None} : Goto(c, f, until, d)
    \/ \E kind \in {"reload", "history"}, until \in Until : WaitForNavigation(c, kind, until)
    \/ \E r \in Request, d \in Document : RedirectNavigation(c, r, d)
    \/ NavigateFrameReturns(c) \/ NavigateFrameFails(c)
    \/ CommandReturns(c) \/ NothingToGoTo(c)
    \/ ResponseArrives(c) \/ TimeOut(c)

NavNext == PageStep \/ CallStep

NavSpec == NavInit /\ [][NavNext]_allVars /\ Fairness

(***************************************************************************)
(* Properties.                                                             *)
(***************************************************************************)
(* Types, and the state of a call fits its kind: only a goto collects events, *)
(* and only until it is answered; a call that has nothing but its command to  *)
(* wait for is over when that returns; an error ends a call or makes it       *)
(* follow.                                                                  *)
CallsOK ==
  /\ TypeOK
  /\ call \in [Call -> CallState]
  /\ heard \in [Call -> SUBSET Lifecycle]
  /\ \A c \in Call :
       LET r == call[c] IN
       /\ r.collected # NothingCollected => r.phase = "sent"
       /\ r.phase = "sent" => r.kind \in {"goto", "redirected"}
       /\ r.phase \in {"ready", "broken"} => r.kind \in {"reload", "history"} /\ ~r.answered
       /\ r.error # "none" => r.phase \in {"failed", "following", "broken", "done"}
       /\ r.kind = "redirected" <=> r.original # None

(* A call that succeeds has seen its navigation: its own document, and not    *)
(* another one, was committed while it was in progress, and the lifecycle     *)
(* event it waits for has fired since then and not only for the document      *)
(* before it (gotoImpl, waitForNavigation).                                 *)
CallsSeeTheirDocument ==
  \A c \in Call :
    /\ call[c].phase \in {"answering", "ready", "done"}
    /\ call[c].error = "none"
    /\ ~(call[c].kind = "goto" /\ call[c].target = None)
    => call[c].until \in heard[c]

(* No call sleeps through its event: one that waits for a navigation has not  *)
(* had it yet, and one that waits for a lifecycle event does not have it.     *)
NoEventIsMissed ==
  \A c \in Call :
    /\ call[c].phase = "waiting" => heard[c] = {}
    /\ call[c].phase = "loading" => call[c].until \notin fired[call[c].frame]

(* However the events of the page and the answers of the commands interleave, *)
(* a call neither misses its navigation nor mistakes another one for it.      *)
CallsMissNothing == CallsSeeTheirDocument /\ NoEventIsMissed

(* A goto whose document was redirected never fails because of that: it       *)
(* follows the redirected navigation, however the abort reaches it, as an     *)
(* event, by the commit that replaces it or as the answer of its command,     *)
(* and in time, before the entry of the redirected navigation is gone        *)
(* (raceNavigationAction, redirectNavigation).                              *)
RedirectedGotoFollows ==
  [][\A c \in Call :
       /\ call[c].kind = "goto" /\ Active(call[c])
       /\ \E i \in Call : /\ call[i].original # None /\ call[i].original = call[c].target
                         /\ (Active(call[i]) \/ call[i].phase = "done")
       => call'[c].error \notin {"aborted", "interrupted"}]_allVars
===============================================================================
