---------------------------- MODULE NetworkManager ----------------------------
(***************************************************************************)
(* How the network events of Chromium become requests and responses:       *)
(* classes CRNetworkManager, RouteImpl and ResponseExtraInfoTracker in     *)
(* packages/playwright-core/src/server/chromium/crNetworkManager.ts.       *)
(*                                                                         *)
(* Everything in these classes is kept per request id, so the module       *)
(* follows one id: a request and the requests it is redirected to, which   *)
(* share the id and are told apart here by their number in the chain, the  *)
(* hop.  Three sources of events are not ordered among each other: the     *)
(* Network events, the two extra-info events, and the Fetch events, which  *)
(* may even come over another session.  Commands travel the other way.     *)
(*                                                                         *)
(* The browser is modelled from the way this code uses it and from what    *)
(* its comments say of it.                                                 *)
(***************************************************************************)
EXTENDS Integers, Sequences

CONSTANTS
  MaxHop,            (* Bound: how often a request is redirected.           *)
  MaxSwitch,         (* Bound: how often the client changes its mind about  *)
                     (* interception and credentials.                       *)
  None               (* undefined, null                                     *)

ASSUME BoundAssumption == MaxHop \in Nat /\ MaxSwitch \in Nat
ASSUME NoneAssumption == /\ None \notin 0..MaxHop
                         /\ None \notin [hop : 0..MaxHop, again : BOOLEAN]
                         /\ None \notin [hop : 0..MaxHop, redirected : BOOLEAN]

VARIABLES
  m,          (* the manager, its requests and its tracker                   *)
  switches,   (* how often the client changed its mind                      *)
  kind,       (* what is requested, see Kind                                *)
  frame,      (* The frame of the request is attached.                      *)
  browser,    (* the browser's side of the request                          *)
  network,    (* requestWillBeSent, requestServedFromCache, responseReceived, *)
              (* loadingFinished and loadingFailed on their way              *)
  extra,      (* the extra-info events on their way                         *)
  fetch,      (* Fetch.requestPaused and Fetch.authRequired on their way    *)
  commands,   (* the commands on their way to the browser                   *)
  expecting   (* history: whether the manager took requestWillBeSent of a   *)
              (* hop for one of a request that will be paused               *)

channels == <<network, extra, fetch, commands>>
vars == <<m, switches, kind, frame, browser, channels, expecting>>

Hop == 0..MaxHop

(* "plain", a CORS "preflight", a request handled "viaWorker", that is, by a *)
(* service worker, or one that is "foreign" to the Network domain.           *)
Kind == {"plain", "preflight", "viaWorker", "foreign"}

(* An interception id: a hop is paused when it begins, and again when the   *)
(* network stack restarts it.                                               *)
Pause == [hop : Hop, again : BOOLEAN]

(***************************************************************************)
(* The state of the manager.                                               *)
(***************************************************************************)
(* InterceptableRequest with its network.Request and network.Response.  Of   *)
(* headers and payloads only the origin is kept: whether they are those of   *)
(* the hop itself or of another one.                                        *)
Request == [report : {"new", "live", "over"},
            failed : BOOLEAN,
            empty : BOOLEAN,         (* The status of the response is 204.   *)
            response : {"none", "own", "other"},
            rawRequest : {"pending", "provisional", "paused", "own", "other"},
            rawResponse : {"pending", "provisional", "own", "other"},
            interception : Pause \cup {None},
            route : {"none", "open", "continued", "fulfilled", "aborted"},
            original : Hop \cup {None}]

NoRequest == [report |-> "new", failed |-> FALSE, empty |-> FALSE,
              response |-> "none", rawRequest |-> "pending", rawResponse |-> "pending",
              interception |-> None, route |-> "none", original |-> None]

(* RequestInfo of the tracker; an extra-info event that was used is None.    *)
Entry == [sentExtra : Seq(Hop \cup {None}), receivedExtra : Seq(Hop \cup {None}),
          responses : Seq(Hop), over : BOOLEAN, cached : BOOLEAN]

(* No entry is the absence of one.                                           *)
ASSUME EntryAssumption == None \notin Entry

NewEntry == [sentExtra |-> <<>>, receivedExtra |-> <<>>, responses |-> <<>>,
             over |-> FALSE, cached |-> FALSE]

(* Network.requestWillBeSent; redirected stands for redirectHasExtraInfo.    *)
Sent == [hop : Hop, redirected : BOOLEAN]

(* "credentials" and "cancelAuth" are the answers of Fetch.continueWithAuth *)
(* with and without credentials; "default" leaves it to the browser.         *)
Command == [method : {"continue", "fulfill", "fail", "credentials", "cancelAuth", "default"},
            pause : Pause]
             \cup [method : {"enable", "disable"}, pause : {None}]

Manager == [needs : BOOLEAN,         (* Page.needsRequestInterception()      *)
            user : BOOLEAN,          (* _userRequestInterceptionEnabled      *)
            credentials : BOOLEAN,   (* _credentials                         *)
            protocol : BOOLEAN,      (* _protocolRequestInterceptionEnabled  *)
            sent : Sent \cup {None},     (* _requestIdToRequestWillBeSentEvent *)
            paused : Pause \cup {None},  (* _requestIdToRequestPausedEvent   *)
            request : Hop \cup {None},   (* _requestIdToRequest              *)
            attempted : SUBSET Pause,    (* _attemptedAuthentications        *)
            requests : [Hop -> Request],
            tracker : Entry \cup {None},
            out : Seq(Command)]      (* what the handler at work sends       *)

(***************************************************************************)
(* ResponseExtraInfoTracker                                                *)
(***************************************************************************)
EntryOf(s) == IF s.tracker = None THEN NewEntry ELSE s.tracker

SetRawRequest(s, h, value) ==
  IF s.requests[h].rawRequest = "pending"
  THEN [s EXCEPT !.requests[h].rawRequest = value] ELSE s

SetRawResponse(s, h, value) ==
  IF s.requests[h].rawResponse = "pending"
  THEN [s EXCEPT !.requests[h].rawResponse = value] ELSE s

OriginOf(h, source) == IF source = h THEN "own" ELSE "other"

(* The i-th response gets the i-th event of each kind, once.                 *)
Present(list, i) == i \in DOMAIN list /\ list[i] # None

PatchSent(s, i) ==
  IF i \in DOMAIN s.tracker.responses /\ Present(s.tracker.sentExtra, i)
  THEN LET h == s.tracker.responses[i]
       IN [SetRawRequest(s, h, OriginOf(h, s.tracker.sentExtra[i]))
             EXCEPT !.tracker.sentExtra[i] = None]
  ELSE s

PatchReceived(s, i) ==
  IF i \in DOMAIN s.tracker.responses /\ Present(s.tracker.receivedExtra, i)
  THEN LET h == s.tracker.responses[i]
       IN [SetRawResponse(s, h, OriginOf(h, s.tracker.receivedExtra[i]))
             EXCEPT !.tracker.receivedExtra[i] = None]
  ELSE s

PatchHeaders(s, i) == PatchReceived(PatchSent(s, i), i)

(* Mutation: the entry goes with the end of the load.                       *)
CheckFinishedAtOnce(s) == IF s.tracker.over THEN [s EXCEPT !.tracker = None] ELSE s

(* The entry goes once the load is over and each response has its headers.  *)
CheckFinished(s) ==
  IF /\ s.tracker.over
     /\ Len(s.tracker.responses) <= Len(s.tracker.receivedExtra)
  THEN [s EXCEPT !.tracker = None] ELSE s

RequestWillBeSentExtraInfo(s, h) ==
  LET e == [EntryOf(s) EXCEPT !.sentExtra = Append(@, h)]
  IN CheckFinished(PatchHeaders([s EXCEPT !.tracker = e], Len(e.sentExtra)))

ResponseReceivedExtraInfo(s, h) ==
  LET e == [EntryOf(s) EXCEPT !.receivedExtra = Append(@, h)]
  IN CheckFinished(PatchHeaders([s EXCEPT !.tracker = e], Len(e.receivedExtra)))

RequestServedFromCache(s) == [s EXCEPT !.tracker = [EntryOf(s) EXCEPT !.cached = TRUE]]

(* A response from the cache has an erroneous hasExtraInfo.                  *)
ProcessResponse(s, h, hasExtraInfo) ==
  IF ~hasExtraInfo \/ EntryOf(s).cached
  THEN SetRawResponse(SetRawRequest(s, h, "provisional"), h, "provisional")
  ELSE LET e == [EntryOf(s) EXCEPT !.responses = Append(@, h)]
       IN PatchHeaders([s EXCEPT !.tracker = e], Len(e.responses))

(* loadingFinished and loadingFailed of the tracker.                         *)
LoadingOver(s) ==
  IF s.tracker = None THEN s ELSE CheckFinished([s EXCEPT !.tracker.over = TRUE])

(***************************************************************************)
(* CRNetworkManager: a handler maps the manager to the manager.            *)
(***************************************************************************)
Send(s, method, pause) ==
  [s EXCEPT !.out = Append(@, [method |-> method, pause |-> pause])]

(* Mutation: the request stays listed.                                      *)
DeleteRequestKept(s, h) == [s EXCEPT !.attempted = @ \ {s.requests[h].interception}]

DeleteRequest(s, h) ==
  [s EXCEPT !.request = None, !.attempted = @ \ {s.requests[h].interception}]

(* A new Response takes the place of an earlier one.                        *)
CreateResponse(s, h, payload, hasExtraInfo, empty) ==
  ProcessResponse([s EXCEPT !.requests[h].response = OriginOf(h, payload),
                            !.requests[h].empty = empty,
                            !.requests[h].rawResponse = "pending"], h, hasExtraInfo)

ReportOver(s, h, failed) ==
  [DeleteRequest(s, h) EXCEPT !.requests[h].report = "over", !.requests[h].failed = failed]

(* Mutation: the end of a redirected request is not reported.                *)
HandleRequestRedirectSilently(s, h, event) ==
  DeleteRequest(CreateResponse(s, h, event.hop - 1, event.redirected, FALSE), h)

(* The response that redirects to the hop of "event" is that of the hop      *)
(* before it.                                                                *)
HandleRequestRedirect(s, h, event) ==
  ReportOver(CreateResponse(s, h, event.hop - 1, event.redirected, FALSE), h, FALSE)

(* Interception of the whole chain is decided at its first request.         *)
ContinuesAtOnce(s, redirectedFrom) == redirectedFrom # None \/ (~s.user /\ s.protocol)

RequestStarted(s, h, pause, redirectedFrom) ==
  LET routed == pause # None /\ ~ContinuesAtOnce(s, redirectedFrom)
      request == [NoRequest EXCEPT
                  !.report = "live",
                  !.rawRequest = IF routed THEN "paused" ELSE "pending",
                  !.interception = pause,
                  !.route = IF routed THEN "open" ELSE "none",
                  !.original = IF routed THEN h
                               ELSE IF redirectedFrom = None THEN None
                               ELSE s.requests[redirectedFrom].original]
      started == [s EXCEPT !.requests[h] = request, !.request = h]
  IN IF pause # None /\ ~routed THEN Send(started, "continue", pause) ELSE started

(* Without a frame there was no request; a preflight is answered here.       *)
OnRequest(s, event, pause) ==
  LET redirectedFrom == IF event.hop > 0 THEN s.request ELSE None
      t == IF redirectedFrom = None THEN s
           ELSE HandleRequestRedirect(s, redirectedFrom, event)
  IN IF kind = "preflight" /\ pause # None /\ s.needs THEN Send(t, "fulfill", pause)
     ELSE IF frame THEN RequestStarted(t, event.hop, pause, redirectedFrom)
     ELSE IF pause # None THEN Send(t, "continue", pause)
     ELSE t

OnRequestWillBeSent(s, event) ==
  IF ~s.protocol THEN OnRequest(s, event, None)
  ELSE IF s.paused = None THEN [s EXCEPT !.sent = event]
  ELSE [OnRequest(s, event, s.paused) EXCEPT !.paused = None]

(* A request that was continued for the user and is restarted goes on in the *)
(* same way; a redirect shares the id and must wait for its own event.       *)
AlreadyContinued(s) ==
  /\ s.request # None
  /\ s.requests[s.request].original # None
  /\ s.requests[s.requests[s.request].original].route = "continued"

(* Mutation: a redirect is taken for a restart.                             *)
OnRequestPausedHasty(s, pause) ==
  IF kind = "foreign" THEN Send(s, "continue", pause)
  ELSE IF s.sent # None THEN [OnRequest(s, s.sent, pause) EXCEPT !.sent = None]
  ELSE IF AlreadyContinued(s) THEN Send(s, "continue", pause)
  ELSE [s EXCEPT !.paused = pause]

OnRequestPaused(s, pause) ==
  IF kind = "foreign" THEN Send(s, "continue", pause)
  ELSE IF s.sent # None THEN [OnRequest(s, s.sent, pause) EXCEPT !.sent = None]
  ELSE IF AlreadyContinued(s) /\ pause.hop = 0 THEN Send(s, "continue", pause)
  ELSE [s EXCEPT !.paused = pause]

(* Mutation: attempts are not remembered.                                   *)
OnAuthRequiredAgain(s, pause) ==
  Send(s, IF s.credentials THEN "credentials" ELSE "default", pause)

OnAuthRequired(s, pause) ==
  IF pause \in s.attempted THEN Send(s, "cancelAuth", pause)
  ELSE IF s.credentials
  THEN [Send(s, "credentials", pause) EXCEPT !.attempted = @ \cup {pause}]
  ELSE Send(s, "default", pause)

(* requestWillBeSent need not wait any more for Fetch.requestPaused.         *)
StopWaiting(s) ==
  IF s.request = None /\ s.sent # None
  THEN OnRequest([s EXCEPT !.sent = None], s.sent, None) ELSE s

OnResponseReceived(s, h, hasExtraInfo, empty) ==
  LET t == IF kind = "viaWorker" THEN StopWaiting(s) ELSE s
  IN IF t.request = None THEN t ELSE CreateResponse(t, t.request, h, hasExtraInfo, empty)

OnLoadingFinished(s) ==
  LET t == LoadingOver(s)
  IN IF t.request = None THEN t ELSE ReportOver(t, t.request, FALSE)

(* Without a response there will be no extra info.  Chromium aborts the load *)
(* after a response with status 204, which counts as finished.               *)
OnLoadingFailed(s) ==
  LET t == StopWaiting(LoadingOver(s))
      h == t.request
  IN IF h = None THEN t
     ELSE IF t.requests[h].response = "none"
     THEN ReportOver(SetRawRequest(t, h, "provisional"), h, TRUE)
     ELSE ReportOver(t, h, ~t.requests[h].empty)

UpdateProtocolRequestInterception(s) ==
  LET enabled == s.user \/ s.credentials
  IN IF enabled = s.protocol THEN s
     ELSE [Send(s, IF enabled THEN "enable" ELSE "disable", None) EXCEPT !.protocol = enabled]

(***************************************************************************)
(* The browser's side.  The stage of a load is "none" before it starts;    *)
(* "begun" when requestWillBeSent of the current hop is on its way and it   *)
(* is not yet known whether it will be paused; "paused"; "sent" to the      *)
(* network; "challenged" by a server for credentials; "refused" when it     *)
(* will get none; "fulfilled" by the client; "answered"; and "over".        *)
(***************************************************************************)
Browser == [stage : {"none", "begun", "paused", "sent", "challenged", "refused",
                     "fulfilled", "answered", "over"},
            hop : Hop,
            id : Pause \cup {None},       (* the last interception id        *)
            enabled : BOOLEAN,            (* The Fetch domain is enabled.    *)
            restarted : BOOLEAN,
            empty : BOOLEAN,              (* It was answered with 204.       *)
            answered : BOOLEAN, failed : BOOLEAN, cancelled : BOOLEAN,
            pausing : [Hop -> {"undecided", "no", "yes", "cut"}]]

Event(name, hop, hasExtraInfo, empty) ==
  [event |-> name, hop |-> hop, hasExtraInfo |-> hasExtraInfo, empty |-> empty]
NetworkEvent ==
  [event : {"requestWillBeSent", "requestServedFromCache", "responseReceived",
            "loadingFinished", "loadingFailed"},
   hop : Hop, hasExtraInfo : BOOLEAN, empty : BOOLEAN]

Init ==
  /\ kind \in Kind
  /\ frame = TRUE
  /\ \E user, credentials \in BOOLEAN :
       /\ m = [needs |-> user, user |-> user, credentials |-> credentials,
               protocol |-> user \/ credentials, sent |-> None, paused |-> None,
               request |-> None, attempted |-> {}, requests |-> [h \in Hop |-> NoRequest],
               tracker |-> None, out |-> <<>>]
       /\ browser = [stage |-> "none", hop |-> 0, id |-> None,
                     enabled |-> user \/ credentials, restarted |-> FALSE,
                     empty |-> FALSE, answered |-> FALSE, failed |-> FALSE,
                     cancelled |-> FALSE, pausing |-> [h \in Hop |-> "undecided"]]
  /\ switches = 0
  /\ network = <<>> /\ extra = <<>> /\ fetch = <<>> /\ commands = <<>>
  /\ expecting = [h \in Hop |-> "unheard"]

(* A request that is foreign to the Network domain sends no Network events.  *)
Emit(events) == network' = IF kind = "foreign" THEN network ELSE network \o events

(* The extra-info events of a hop that went over the network.               *)
OverTheNetwork == browser.stage \in {"sent", "refused"} /\ kind # "viaWorker"
EmitExtra ==
  extra' = IF OverTheNetwork /\ kind # "foreign"
           THEN extra \o <<[event |-> "sent", hop |-> browser.hop],
                          [event |-> "received", hop |-> browser.hop]>>
           ELSE extra

Begin ==
  /\ browser.stage = "none"
  /\ browser' = [browser EXCEPT !.stage = "begun"]
  /\ Emit(<<Event("requestWillBeSent", 0, FALSE, FALSE)>>)
  /\ UNCHANGED <<m, switches, kind, frame, extra, fetch, commands, expecting>>

(* The request reaches the place where it may be paused.                    *)
Decide ==
  /\ browser.stage = "begun"
  /\ IF browser.enabled /\ kind # "viaWorker"
     THEN LET pause == [hop |-> browser.hop, again |-> FALSE]
          IN /\ browser' = [browser EXCEPT !.stage = "paused", !.id = pause,
                                           !.pausing[browser.hop] = "yes"]
             /\ fetch' = Append(fetch, [event |-> "paused", pause |-> pause])
     ELSE /\ browser' = [browser EXCEPT !.stage = "sent", !.pausing[browser.hop] = "no"]
          /\ UNCHANGED fetch
  /\ UNCHANGED <<m, switches, kind, frame, network, extra, commands, expecting>>

Redirect ==
  /\ browser.stage \in {"sent", "fulfilled"}
  /\ browser.hop < MaxHop
  /\ kind \in {"plain", "viaWorker"}
  /\ browser' = [browser EXCEPT !.stage = "begun", !.hop = @ + 1]
  /\ Emit(<<Event("requestWillBeSent", browser.hop + 1, OverTheNetwork, FALSE)>>)
  /\ EmitExtra
  /\ UNCHANGED <<m, switches, kind, frame, fetch, commands, expecting>>

Answer(empty) ==
  /\ browser.stage \in {"sent", "refused", "fulfilled"}
  /\ browser' = [browser EXCEPT !.stage = "answered", !.empty = empty, !.answered = TRUE]
  /\ Emit(<<Event("responseReceived", browser.hop, OverTheNetwork, empty)>>)
  /\ EmitExtra
  /\ UNCHANGED <<m, switches, kind, frame, fetch, commands, expecting>>

(* Interception turns the cache off.                                        *)
AnswerFromCache ==
  /\ browser.stage = "sent"
  /\ browser.hop = 0
  /\ browser.pausing[0] = "no"
  /\ kind = "plain"
  /\ browser' = [browser EXCEPT !.stage = "answered", !.answered = TRUE]
  /\ Emit(<<Event("requestServedFromCache", 0, FALSE, FALSE),
            Event("responseReceived", 0, TRUE, FALSE)>>)
  /\ UNCHANGED <<m, switches, kind, frame, extra, fetch, commands, expecting>>

(* Sometimes there is no responseReceived.                                  *)
Finish ==
  /\ \/ browser.stage = "answered" /\ ~browser.empty
     \/ browser.stage = "sent"
  /\ browser' = [browser EXCEPT !.stage = "over"]
  /\ Emit(<<Event("loadingFinished", browser.hop, FALSE, FALSE)>>)
  /\ UNCHANGED <<m, switches, kind, frame, extra, fetch, commands, expecting>>

FailLoad(cancelled) ==
  /\ browser' = [browser EXCEPT !.stage = "over", !.failed = TRUE, !.cancelled = cancelled]
  /\ Emit(<<Event("loadingFailed", browser.hop, FALSE, FALSE)>>)

Fail ==
  /\ browser.stage \in {"sent", "refused", "fulfilled", "answered"}
  /\ FailLoad(FALSE)
  /\ \/ UNCHANGED extra
     \/ /\ browser.stage = "sent" /\ OverTheNetwork /\ kind # "foreign"
        /\ extra' = Append(extra, [event |-> "sent", hop |-> browser.hop])
  /\ UNCHANGED <<m, switches, kind, frame, fetch, commands, expecting>>

(* The page navigates away, or stops the load.                              *)
Cancel ==
  /\ browser.stage \in {"begun", "paused", "challenged"}
  /\ FailLoad(TRUE)
  /\ UNCHANGED <<m, switches, kind, frame, extra, fetch, commands, expecting>>

Restart ==
  /\ browser.stage = "sent"
  /\ browser.hop = 0
  /\ browser.pausing[0] = "yes" /\ browser.enabled
  /\ ~browser.restarted
  /\ LET pause == [hop |-> 0, again |-> TRUE]
     IN /\ browser' = [browser EXCEPT !.stage = "paused", !.id = pause, !.restarted = TRUE]
        /\ fetch' = Append(fetch, [event |-> "paused", pause |-> pause])
  /\ UNCHANGED <<m, switches, kind, frame, network, extra, commands, expecting>>

Challenge ==
  /\ browser.stage = "sent"
  /\ browser.pausing[browser.hop] = "yes" /\ browser.enabled
  /\ browser' = [browser EXCEPT !.stage = "challenged"]
  /\ fetch' = Append(fetch, [event |-> "auth", pause |-> browser.id])
  /\ UNCHANGED <<m, switches, kind, frame, network, extra, commands, expecting>>

(* To disable the Fetch domain lets go of what it held; a command for what   *)
(* is not held any more is an error that the sender ignores.                *)
Released(command) ==
  CASE command.method = "continue" -> "sent"
    [] command.method = "fulfill" -> "fulfilled"
    [] command.method = "credentials" -> "sent"
    [] command.method \in {"cancelAuth", "default"} -> "refused"
    [] command.method = "disable" -> IF browser.stage = "challenged" THEN "refused" ELSE "sent"

Holds(command) ==
  \/ command.method \in {"continue", "fulfill", "fail"}
       /\ browser.stage = "paused" /\ browser.id = command.pause
  \/ command.method \in {"credentials", "cancelAuth", "default"}
       /\ browser.stage = "challenged" /\ browser.id = command.pause
  \/ command.method = "disable" /\ browser.stage \in {"paused", "challenged"}

(* history: a pause is cut short when the manager has not seen it.           *)
PausingAfter(command) ==
  IF /\ command.method = "disable"
     /\ browser.stage = "paused"
     /\ m.requests[browser.hop].report = "new"
  THEN [browser.pausing EXCEPT ![browser.hop] = "cut"]
  ELSE browser.pausing

ReceiveCommand ==
  /\ commands # <<>>
  /\ commands' = Tail(commands)
  /\ LET command == Head(commands)
         enabled == CASE command.method = "enable" -> TRUE
                      [] command.method = "disable" -> FALSE
                      [] OTHER -> browser.enabled
     IN IF command.method = "fail" /\ Holds(command) THEN FailLoad(FALSE)
        ELSE /\ browser' = [browser EXCEPT
                              !.enabled = enabled,
                              !.stage = IF Holds(command) THEN Released(command) ELSE @,
                              !.pausing = PausingAfter(command)]
             /\ UNCHANGED network
  /\ UNCHANGED <<m, switches, kind, frame, extra, fetch, expecting>>

(***************************************************************************)
(* The client.                                                             *)
(***************************************************************************)
Handled(s) == /\ m' = [s EXCEPT !.out = <<>>]
              /\ commands' = commands \o s.out

ChangeMind == switches < MaxSwitch /\ switches' = switches + 1

AddRequestInterceptor ==
  /\ ~m.needs
  /\ ChangeMind
  /\ Handled(UpdateProtocolRequestInterception([m EXCEPT !.needs = TRUE, !.user = TRUE]))
  /\ UNCHANGED <<kind, frame, browser, network, extra, fetch, expecting>>

(* The routes in flight hear of it before the delegate does.                *)
RemoveRequestInterceptor ==
  /\ m.needs
  /\ ChangeMind
  /\ Handled([m EXCEPT !.needs = FALSE])
  /\ UNCHANGED <<kind, frame, browser, network, extra, fetch, expecting>>

SetRequestInterception ==
  /\ m.user # m.needs
  /\ Handled(UpdateProtocolRequestInterception([m EXCEPT !.user = m.needs]))
  /\ UNCHANGED <<switches, kind, frame, browser, network, extra, fetch, expecting>>

Authenticate ==
  /\ ChangeMind
  /\ Handled(UpdateProtocolRequestInterception([m EXCEPT !.credentials = ~@]))
  /\ UNCHANGED <<kind, frame, browser, network, extra, fetch, expecting>>

(* The handler of a route, or the removal of the last one, lets it go.       *)
AnswerRoute(h, state, method) ==
  /\ m.requests[h].route = "open"
  /\ Handled(Send([m EXCEPT !.requests[h].route = state], method, m.requests[h].interception))
  /\ UNCHANGED <<switches, kind, frame, browser, network, extra, fetch, expecting>>

RouteContinue(h) == AnswerRoute(h, "continued", "continue")
RouteFulfill(h)  == AnswerRoute(h, "fulfilled", "fulfill")
RouteAbort(h)    == AnswerRoute(h, "aborted", "fail")

DetachFrame ==
  /\ frame
  /\ frame' = FALSE
  /\ UNCHANGED <<m, switches, kind, browser, channels, expecting>>

(***************************************************************************)
(* The events arrive, in order within each channel.                        *)
(***************************************************************************)
NetworkIs(name) == network # <<>> /\ Head(network).event = name

ReceiveNetwork(s) ==
  /\ network' = Tail(network)
  /\ Handled(s)
  /\ UNCHANGED <<switches, kind, frame, browser, extra, fetch>>

ReceiveRequestWillBeSent ==
  /\ NetworkIs("requestWillBeSent")
  /\ LET h == Head(network).hop
     IN /\ ReceiveNetwork(OnRequestWillBeSent(m, [hop |-> h, redirected |-> Head(network).hasExtraInfo]))
        /\ expecting' = [expecting EXCEPT ![h] = IF m.protocol THEN "yes" ELSE "no"]

ReceiveServedFromCache ==
  /\ NetworkIs("requestServedFromCache")
  /\ ReceiveNetwork(RequestServedFromCache(m))
  /\ UNCHANGED expecting

ReceiveResponse ==
  /\ NetworkIs("responseReceived")
  /\ ReceiveNetwork(OnResponseReceived(m, Head(network).hop, Head(network).hasExtraInfo,
                                       Head(network).empty))
  /\ UNCHANGED expecting

ReceiveLoadingFinished ==
  /\ NetworkIs("loadingFinished")
  /\ ReceiveNetwork(OnLoadingFinished(m))
  /\ UNCHANGED expecting

ReceiveLoadingFailed ==
  /\ NetworkIs("loadingFailed")
  /\ ReceiveNetwork(OnLoadingFailed(m))
  /\ UNCHANGED expecting

ReceiveExtra ==
  /\ extra # <<>>
  /\ extra' = Tail(extra)
  /\ Handled(IF Head(extra).event = "sent"
             THEN RequestWillBeSentExtraInfo(m, Head(extra).hop)
             ELSE ResponseReceivedExtraInfo(m, Head(extra).hop))
  /\ UNCHANGED <<switches, kind, frame, browser, network, fetch, expecting>>

ReceiveFetch ==
  /\ fetch # <<>>
  /\ fetch' = Tail(fetch)
  /\ Handled(IF Head(fetch).event = "paused"
             THEN OnRequestPaused(m, Head(fetch).pause)
             ELSE OnAuthRequired(m, Head(fetch).pause))
  /\ UNCHANGED <<switches, kind, frame, browser, network, extra, expecting>>

Receive == \/ ReceiveRequestWillBeSent \/ ReceiveServedFromCache \/ ReceiveResponse
           \/ ReceiveLoadingFinished \/ ReceiveLoadingFailed

(* What the browser does of itself once a request is on its way.            *)
Progress == \/ Redirect \/ AnswerFromCache \/ Finish \/ Fail \/ Restart \/ Challenge
            \/ \E empty \in BOOLEAN : Answer(empty)

AnswerAnyRoute == \E h \in Hop : RouteContinue(h) \/ RouteFulfill(h) \/ RouteAbort(h)

ChangeInterception == \/ AddRequestInterceptor \/ RemoveRequestInterceptor
                      \/ SetRequestInterception \/ Authenticate

Next == \/ Begin \/ Decide \/ Progress \/ Cancel \/ ReceiveCommand
        \/ ChangeInterception \/ AnswerAnyRoute \/ DetachFrame
        \/ Receive \/ ReceiveExtra \/ ReceiveFetch

Spec == Init /\ [][Next]_vars

(* As long as an event or a command is on its way, the network has a request *)
(* or a handler a route, one of them makes a step.                          *)
Fairness ==
  WF_vars(\/ ReceiveCommand \/ Receive \/ ReceiveFetch \/ ReceiveExtra
          \/ Decide \/ Progress \/ AnswerAnyRoute \/ SetRequestInterception)

FairSpec == Spec /\ Fairness

(***************************************************************************)
(* Properties.                                                             *)
(***************************************************************************)
TypeOK ==
  /\ m \in Manager /\ m.out = <<>>
  /\ m.request # None => m.requests[m.request].report = "live"
  /\ switches \in 0..MaxSwitch
  /\ kind \in Kind
  /\ frame \in BOOLEAN
  /\ browser \in Browser
  /\ network \in Seq(NetworkEvent)
  /\ extra \in Seq([event : {"sent", "received"}, hop : Hop])
  /\ fetch \in Seq([event : {"paused", "auth"}, pause : Pause])
  /\ commands \in Seq(Command)
  /\ expecting \in [Hop -> {"unheard", "yes", "no"}]

(* The manager waits for a pause that does not come, or is over before the   *)
(* manager sees it, or does not wait for one that comes: interception was    *)
(* switched while a request began.  The code has no answer to this, so the   *)
(* properties bind until it happens.  It does foresee that a service worker  *)
(* keeps the first request of a chain from being paused.                    *)
Disturbed ==
  \E h \in Hop :
    \/ expecting[h] = "yes" /\ browser.pausing[h] \in {"no", "cut"} /\ (kind = "viaWorker" => h > 0)
    \/ expecting[h] = "no" /\ browser.pausing[h] \in {"yes", "cut"}

Reports == INSTANCE RequestReports
             WITH report <- [h \in Hop |-> m.requests[h].report], disturbed <- Disturbed

(* The frame manager gets the requests of a chain one after the other, each  *)
(* started once and ended once, in whatever order the events arrive.         *)
ReportsInOrder == Reports!Spec

Quiet == browser.stage = "over" /\ network = <<>> /\ extra = <<>> /\ fetch = <<>>

(* A request handled by a service worker is reported late, with its answer.  *)
Reportable(h) ==
  \/ kind = "plain"
  \/ /\ kind = "viaWorker"
     /\ \/ expecting[h] = "no"
        \/ browser.hop = 0 /\ (browser.answered \/ browser.failed)

(* A redirected request that is cancelled while the manager may still wait   *)
(* for it to be paused: _onLoadingFailed takes the failure for that of the    *)
(* request before it, and the last one is lost, or, when the pause does       *)
(* arrive after that, reported as a request that never ends.                *)
CutShort(h) == /\ browser.cancelled
               /\ h > 0 /\ h = browser.hop
               /\ expecting[h] = "yes"

Answered(h) == h < browser.hop \/ browser.answered

(* When all events of a load have been handled, none of its requests stays   *)
(* in flight, and each has been reported with its end: none is lost between  *)
(* the two events that announce it.                                         *)
LoadsAreReported ==
  Quiet /\ ~Disturbed =>
    \A h \in 0..browser.hop :
      /\ m.requests[h].report = "live" => CutShort(h)
      /\ frame /\ Reportable(h) /\ (\A g \in {h, h + 1} : ~CutShort(g)) =>
           /\ m.requests[h].report = "over"
           /\ (m.requests[h].response # "none") = Answered(h)
           /\ m.requests[h].failed = (h = browser.hop /\ browser.failed /\ ~browser.empty)

(* A request never gets the response or the headers of another one of its    *)
(* chain, and when all events have been handled, nobody who asks for the     *)
(* headers of a request that failed or has a response waits for ever.        *)
AnswersAreOwn ==
  ~Disturbed =>
    \A h \in Hop :
      LET r == m.requests[h] IN
      /\ "other" \notin {r.response, r.rawRequest, r.rawResponse}
      /\ Quiet /\ (r.failed \/ r.response # "none") => r.rawRequest # "pending"
      /\ Quiet /\ r.response # "none" => r.rawResponse # "pending"

(* A load that begins comes to an end: no pause and no challenge for         *)
(* credentials is left unanswered, and a server that refuses the credentials *)
(* is not offered them for ever.  Excepted is a request that is restarted    *)
(* without having been continued by a route: OnRequestPaused keeps its       *)
(* second pause for a requestWillBeSent that never comes.                   *)
LoadsEnd ==
  browser.stage = "begun" ~>
    \/ browser.stage = "over" \/ Disturbed
    \/ browser.restarted /\ m.requests[0].route # "continued"
===============================================================================
