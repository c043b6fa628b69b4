-------------------------------- MODULE Routes --------------------------------
(***************************************************************************)
(* The routes of one page and of its context.  The client keeps the lists   *)
(* of handlers (client/page.ts, client/browserContext.ts, RouteHandler and  *)
(* Route of client/network.ts) and tells the server which urls they are     *)
(* for.  The dispatchers of the page and of the context install their       *)
(* interceptors, and Route of server/network.ts takes a paused request      *)
(* through the interceptors to the client, and on to the browser.           *)
(***************************************************************************)
EXTENDS Integers, Sequences

CONSTANTS Handler,     (* The handlers that are ever routed, each once.       *)
          Request,     (* The requests of the page.                           *)
          ScopeOf,     (* Whether a handler is routed in the page or context. *)
          Times,       (* The option times of a handler, which may be zero.   *)
          Matched,     (* The requests that a handler's url matches.          *)
          Predicate,   (* The handlers whose url is a function.               *)
          MaxMessages, (* Bound: calls that are on their way to the server.   *)
          None

Scope == {"page", "context"}

ASSUME HandlerAssumption == /\ ScopeOf \in [Handler -> Scope]
                            /\ Times \in [Handler -> Nat]
                            /\ Matched \in [Handler -> SUBSET Request]
                            /\ Predicate \subseteq Handler
ASSUME NoneAssumption == None \notin Handler \cup Scope
ASSUME BoundAssumption == MaxMessages \in Nat

VARIABLES
  routed,       (* The handlers that route() has been called for.             *)
  routes,       (* _routes of the page and of the context, the latest first.  *)
  handledCount, (* RouteHandler.handledCount.                                 *)
  ignored,      (* The handlers with _ignoreException.                        *)
  waits,        (* unrouteAll("wait"): what it removes and waits for.         *)
  chain,        (* _onRoute of a request, and the handler it is in.           *)
  closing,      (* The page or the context is being closed.                   *)
  gone,         (* _closedOrCrashedScope is closed: the page has closed or    *)
                (* crashed.                                                   *)
  toServer,     (* The client's calls on their way to the server.             *)
  matchers,     (* _interceptionUrlMatchers, as the handlers they come from.  *)
  interceptors, (* How often the dispatcher's interceptor is installed.       *)
  removing,     (* Calls of setNetworkInterceptionPatterns that await         *)
                (* removeRequestInterceptor.                                  *)
  enabled,      (* Whether the browser pauses requests.                       *)
  route,        (* Route and RouteDispatcher of a request.                    *)
  overlapped    (* History: scopes whose latest patterns came during a        *)
                (* removal.                                                   *)

userVars    == <<routed, ignored, waits, closing, gone>>
clientVars  == <<routes, handledCount, chain>>
serverVars  == <<matchers, interceptors, removing, enabled>>
vars == <<userVars, clientVars, toServer, serverVars, route, overlapped>>

-------------------------------------------------------------------------------
(* State.                                                                   *)
HandlersIn(list) == {list[i] : i \in DOMAIN list}
Least(S) == CHOOSE i \in S : \A j \in S : i <= j

(* A list without a handler: each is in it once.                            *)
Without(list, h) ==
  IF h \in HandlersIn(list)
  THEN LET i == CHOOSE i \in DOMAIN list : list[i] = h
       IN  SubSeq(list, 1, i - 1) \o SubSeq(list, i + 1, Len(list))
  ELSE list

Call == [op : {"patterns"}, scope : Scope, patterns : SUBSET Handler]
          \cup [op : {"continue", "settle"}, request : Request]

(* _onRoute: the handlers that are left, the one that runs, its promise of   *)
(* Route, its call on the route, its function, and Route._didThrow.         *)
Chain ==
  [at : {"new", "running", "thrown", "stalled", "over"}, scope : Scope,
   rest : Seq(Handler), handler : Handler \cup {None},
   promise : {"open", "handled", "fallen"}, call : {"none", "sent", "failed"},
   body : {"running", "returned"}, didThrow : BOOLEAN]

(* A request the browser did not pause is "free"; one whose handling failed  *)
(* is "stuck"; of the interceptors to come, their number is kept.           *)
Route ==
  [state : {"new", "free", "held", "passed", "continued", "settled", "stuck"},
   future : [Scope -> Nat], current : Scope \cup {None},
   dispatcher : Scope \cup {None}, answered : BOOLEAN,
   answer : {"none", "ok", "error"}]

TypeOK ==
  /\ routed \subseteq Handler
  /\ routes \in [Scope -> Seq(Handler)]
  /\ handledCount \in [Handler -> Nat]
  /\ ignored \subseteq Handler
  /\ waits \in [Scope -> {None} \cup
       [removed : SUBSET Handler, on : SUBSET (Handler \X Request)]]
  /\ chain \in [Request -> Chain]
  /\ closing \in BOOLEAN /\ gone \in BOOLEAN
  /\ toServer \in Seq(Call)
  /\ matchers \in [Scope -> SUBSET Handler]
  /\ interceptors \in [Scope -> Nat]
  /\ removing \in [Scope -> Nat]
  /\ enabled \in BOOLEAN
  /\ route \in [Request -> Route]
  /\ overlapped \subseteq Scope

Init ==
  /\ routed = {} /\ ignored = {} /\ closing = FALSE /\ gone = FALSE
  /\ waits = [s \in Scope |-> None]
  /\ routes = [s \in Scope |-> <<>>]
  /\ handledCount = [h \in Handler |-> 0]
  /\ chain = [r \in Request |->
       [at |-> "new", scope |-> "page", rest |-> <<>>, handler |-> None,
        promise |-> "open", call |-> "none", body |-> "running",
        didThrow |-> FALSE]]
  /\ toServer = <<>>
  /\ matchers = [s \in Scope |-> {}]
  /\ interceptors = [s \in Scope |-> 0]
  /\ removing = [s \in Scope |-> 0]
  /\ enabled = FALSE
  /\ route = [r \in Request |->
       [state |-> "new", future |-> [s \in Scope |-> 0], current |-> None,
        dispatcher |-> None, answered |-> FALSE, answer |-> "none"]]
  /\ overlapped = {}

Running(r, h) == chain[r].at = "running" /\ chain[r].handler = h

(* The call that tells the server about the list of a scope.               *)
Patterns(s, list) ==
  [op |-> "patterns", scope |-> s, patterns |-> HandlersIn(list)]

-------------------------------------------------------------------------------
(***************************************************************************)
(* The user's calls on the page and the context.  None needs to be awaited  *)
(* before the next one.                                                     *)
(***************************************************************************)
AddRoute(h) ==
  LET s == ScopeOf[h] IN
  /\ h \notin routed
  /\ Len(toServer) < MaxMessages
  /\ routed' = routed \cup {h}
  /\ routes' = [routes EXCEPT ![s] = <<h>> \o @]
  /\ toServer' = Append(toServer, Patterns(s, routes'[s]))
  /\ UNCHANGED <<ignored, waits, closing, gone, handledCount, chain, serverVars,
                 route, overlapped>>

Unroute(h) ==
  LET s == ScopeOf[h] IN
  /\ h \in HandlersIn(routes[s])
  /\ Len(toServer) < MaxMessages
  /\ routes' = [routes EXCEPT ![s] = Without(@, h)]
  /\ toServer' = Append(toServer, Patterns(s, routes'[s]))
  /\ UNCHANGED <<userVars, handledCount, chain, serverVars, route, overlapped>>

(* RouteHandler.stop("wait") of the removed handlers: their invocations, but *)
(* for those whose call on the route failed.                                 *)
WaitsFor(removed) ==
  {w \in removed \X Request : Running(w[2], w[1]) /\ ~chain[w[2]].didThrow}

UnrouteAll(s, behavior) ==
  LET removed == HandlersIn(routes[s]) IN
  /\ waits[s] = None
  /\ Len(toServer) < MaxMessages
  /\ routes' = [routes EXCEPT ![s] = <<>>]
  /\ ignored' = ignored \cup (IF behavior = "ignoreErrors" THEN removed ELSE {})
  /\ IF behavior = "wait"
     THEN /\ waits' = [waits EXCEPT ![s] =
               [removed |-> removed, on |-> WaitsFor(removed)]]
          /\ UNCHANGED toServer
     ELSE /\ toServer' = Append(toServer, Patterns(s, <<>>))
          /\ UNCHANGED waits
  /\ UNCHANGED <<routed, closing, gone, handledCount, chain, serverVars, route,
                 overlapped>>

WaitIsOver(s) ==
  /\ waits[s] # None
  /\ \A w \in waits[s].on : ~Running(w[2], w[1])
  /\ Len(toServer) < MaxMessages
  /\ waits' = [waits EXCEPT ![s] = None]
  /\ toServer' = Append(toServer, Patterns(s, routes[s]))
  /\ UNCHANGED <<routed, ignored, closing, gone, clientVars, serverVars, route,
                 overlapped>>

Close ==
  /\ ~closing
  /\ closing' = TRUE
  /\ UNCHANGED <<routed, ignored, waits, gone, clientVars, toServer, serverVars,
                 route, overlapped>>

(* The client hears that the page has closed or crashed, by a call of the    *)
(* user's or not, and after the routes and answers that were sent before.    *)
TargetGone ==
  /\ ~gone
  /\ \A r \in Request :
       /\ chain[r].at = "new" => route[r].dispatcher = None
       /\ chain[r].call = "sent" => route[r].answer = "none"
  /\ gone' = TRUE
  /\ UNCHANGED <<routed, ignored, waits, closing, clientVars, toServer,
                 serverVars, route, overlapped>>

-------------------------------------------------------------------------------
(***************************************************************************)
(* _onRoute of the client: the handlers of a list as it was when the        *)
(* request came, one after the other, those of the page before those of the *)
(* context.                                                                *)
(***************************************************************************)
(* Mutation: the list is not asked whether it still has the handler.        *)
CandidatesStale(r, s, list) == {i \in DOMAIN list : r \in Matched[list[i]]}

Candidates(r, s, list) ==
  {i \in DOMAIN list : /\ r \in Matched[list[i]]
                        /\ list[i] \in HandlersIn(routes[s])}

Stalls(list) == closing /\ list # <<>>

(* RouteHandler.handle: a handler that will expire leaves the list first.   *)
Handle(r, s, list, i) ==
  LET h == list[i] IN
  /\ handledCount' = [handledCount EXCEPT ![h] = @ + 1]
  /\ routes' = IF handledCount[h] + 1 >= Times[h]
               THEN [routes EXCEPT ![s] = Without(@, h)]
               ELSE routes
  /\ chain' = [chain EXCEPT ![r] =
       [at |-> "running", scope |-> s, rest |-> SubSeq(list, i + 1, Len(list)),
        handler |-> h, promise |-> "open", call |-> "none", body |-> "running",
        didThrow |-> @.didThrow]]

(* The loop of _onRoute from a place in the list of a scope up to the next  *)
(* handler, or to the fallback that no handler was left for.                *)
GoOn(r, scope, rest, sent) ==
  LET toContext == /\ scope = "page" /\ ~Stalls(rest)
                   /\ Candidates(r, "page", rest) = {}
      s    == IF toContext THEN "context" ELSE scope
      list == IF toContext THEN routes["context"] ELSE rest
      next == Candidates(r, s, list)
  IN  \/ /\ Stalls(list)
         /\ chain' = [chain EXCEPT ![r].at = "stalled"]
         /\ toServer' = sent
         /\ UNCHANGED <<routes, handledCount>>
      \/ /\ ~Stalls(list) /\ next # {}
         /\ Handle(r, s, list, Least(next))
         /\ toServer' = sent
      \/ /\ ~Stalls(list) /\ next = {}
         /\ chain' = [chain EXCEPT ![r].at = "over"]
         /\ toServer' = Append(sent, [op |-> "continue", request |-> r])
         /\ UNCHANGED <<routes, handledCount>>

OnRoute(r) ==
  LET s == route[r].dispatcher IN
  /\ s # None /\ chain[r].at = "new"
  /\ GoOn(r, s, routes[s], toServer)
  /\ UNCHANGED <<userVars, serverVars, route, overlapped>>

(* The handler's calls on the route: fulfill, abort and continue go to the  *)
(* server, fallback does not.  Bound: one at a time.                        *)
MayCall(r) ==
  chain[r].at = "running" /\ chain[r].promise = "open" /\ chain[r].call # "sent"

CallRoute(r, op) ==
  /\ MayCall(r)
  /\ Len(toServer) < MaxMessages
  /\ chain' = [chain EXCEPT ![r].call = "sent"]
  /\ toServer' = Append(toServer, [op |-> op, request |-> r])
  /\ UNCHANGED <<userVars, routes, handledCount, serverVars, route, overlapped>>

(* A fulfill may fail in the client: its file cannot be read.               *)
CallFails(r) ==
  /\ MayCall(r)
  /\ chain' = [chain EXCEPT ![r].call = "failed", ![r].didThrow = TRUE]
  /\ UNCHANGED <<userVars, routes, handledCount, toServer, serverVars, route,
                 overlapped>>

Fallback(r) ==
  /\ MayCall(r)
  /\ chain' = [chain EXCEPT ![r].promise = "fallen"]
  /\ UNCHANGED <<userVars, routes, handledCount, toServer, serverVars, route,
                 overlapped>>

(* _raceWithTargetClose: once the page is gone a call resolves without an    *)
(* answer, or whatever the answer would be.                                  *)
OnAnswer(r) ==
  /\ chain[r].at = "running" /\ chain[r].call = "sent"
  /\ \/ /\ route[r].answer = "ok" \/ gone
        /\ chain' = [chain EXCEPT ![r].promise = "handled", ![r].call = "none"]
     \/ /\ route[r].answer = "error" /\ ~gone
        /\ chain' = [chain EXCEPT ![r].call = "failed", ![r].didThrow = TRUE]
  /\ route' = [route EXCEPT ![r].answer = "none"]
  /\ UNCHANGED <<userVars, routes, handledCount, toServer, serverVars,
                 overlapped>>

HandlerReturns(r) ==
  /\ chain[r].at = "running" /\ chain[r].body = "running"
  /\ chain' = [chain EXCEPT ![r].body = "returned"]
  /\ UNCHANGED <<userVars, routes, handledCount, toServer, serverVars, route,
                 overlapped>>

(* The server is told when the list has become empty.                       *)
(* Mutation: it is told so after every handler.                             *)
ToldAnyway(s) == Append(toServer, Patterns(s, <<>>))

Told(s) ==
  IF routes[s] = <<>> THEN Append(toServer, Patterns(s, <<>>))
                      ELSE toServer

(* When the handler did not handle the request, the next one gets it.       *)
Handled(r, handled) ==
  LET s == chain[r].scope
  IN  IF handled
      THEN /\ chain' = [chain EXCEPT ![r].at = "over"]
           /\ toServer' = Told(s)
           /\ UNCHANGED <<routes, handledCount>>
      ELSE GoOn(r, s, chain[r].rest, Told(s))

HandlerEnds(r) ==
  /\ chain[r].at = "running" /\ chain[r].body = "returned"
  /\ chain[r].promise # "open"
  /\ Handled(r, chain[r].promise = "handled")
  /\ UNCHANGED <<userVars, serverVars, route, overlapped>>

(* Bound: a handler does not throw while a call of its is on the way.       *)
HandlerThrows(r) ==
  /\ chain[r].at = "running" /\ chain[r].body = "running"
  /\ chain[r].call # "sent"
  /\ IF chain[r].handler \in ignored
     THEN Handled(r, FALSE)
     ELSE /\ chain' = [chain EXCEPT ![r].at = "thrown"]
          /\ UNCHANGED <<routes, handledCount, toServer>>
  /\ UNCHANGED <<userVars, serverVars, route, overlapped>>

-------------------------------------------------------------------------------
(***************************************************************************)
(* The server: Route and the interceptors of the two dispatchers.           *)
(***************************************************************************)
MatchesSome(s, r) == \E h \in matchers[s] : h \in Predicate \/ r \in Matched[h]

(* Who takes a request of those that are still to come: the page's          *)
(* interceptor, or the context's unless the page's has sent the request to   *)
(* the client before.  The others pass it on at once.                        *)
Taker(r, t) ==
  IF t.future["page"] > 0 /\ MatchesSome("page", r) THEN "page"
  ELSE IF /\ t.future["context"] > 0 /\ MatchesSome("context", r)
          /\ t.dispatcher = None
       THEN "context"
       ELSE None

(* The interceptor that takes the request makes a dispatcher for it, and the *)
(* client gets the route.                                                    *)
Taken(t, s) ==
  [t EXCEPT !.current = s,
            !.future = [q \in Scope |-> CASE q = s -> @[q] - 1
                                          [] q = "page" /\ s = "context" -> 0
                                          [] OTHER -> @[q]],
            !.dispatcher = IF @ = None THEN s ELSE @]

(* Handled for good: _startHandling and _endHandling.                       *)
Ended(t, state) ==
  [t EXCEPT !.state = state, !.future = [q \in Scope |-> 0], !.current = None]

(* Mutation: a request that was only passed on never gets to the browser.   *)
ContinueHandled(r, t, state) ==
  CASE Taker(r, t) # None -> Taken(t, Taker(r, t))
    [] Taker(r, t) = None /\ t.state = "held" /\ state # "passed" ->
         Ended(t, state)
    [] OTHER -> t

(* Route.continue: to the next interceptor that takes the request, or to the *)
(* browser.                                                                  *)
Continue(r, t, state) ==
  CASE Taker(r, t) # None -> Taken(t, Taker(r, t))
    [] Taker(r, t) = None /\ t.state = "held" ->
         Ended(t, state)
    [] OTHER -> t

(* It throws when the request has been handled before, or when the page's   *)
(* interceptor is installed twice and has its dispatcher already.           *)
ContinueThrows(r, t) ==
  IF Taker(r, t) = None THEN t.state # "held" ELSE t.dispatcher # None

RequestBegins(r) ==
  /\ route[r].state = "new" /\ ~gone
  /\ route' = [route EXCEPT ![r] =
       IF enabled
       THEN Continue(r, [@ EXCEPT !.state = "held", !.future = interceptors],
                     "passed")
       ELSE [@ EXCEPT !.state = "free"]]
  /\ UNCHANGED <<userVars, clientVars, toServer, serverVars, overlapped>>

(* removeHandler of every route in flight.                                  *)
RemoveHandler(s) ==
  route' = [r \in Request |->
    LET t == [route[r] EXCEPT !.future[s] = 0]
    IN  IF t.current = s THEN Continue(r, t, "passed") ELSE t]

(* Mutation: an interceptor is removed whether it is installed or not.      *)
AlwaysInstalled(s) == TRUE

Installed(s) == interceptors[s] > 0

(* setNetworkInterceptionPatterns of the two dispatchers: without patterns   *)
(* the interceptor is removed, and the matchers when that is done.          *)
SetPatterns(s, patterns) ==
  IF patterns = {}
  THEN /\ overlapped' = overlapped \ {s}
       /\ IF matchers[s] # {} /\ Installed(s)
          THEN /\ interceptors' = [interceptors EXCEPT ![s] = @ - 1]
               /\ removing' = [removing EXCEPT ![s] = @ + 1]
               /\ RemoveHandler(s)
               /\ UNCHANGED matchers
          ELSE /\ matchers' = [matchers EXCEPT ![s] = {}]
               /\ UNCHANGED <<interceptors, removing, route>>
  ELSE /\ matchers' = [matchers EXCEPT ![s] = patterns]
       /\ interceptors' = [interceptors EXCEPT ![s] =
                             IF matchers[s] = {} THEN @ + 1 ELSE @]
       /\ overlapped' = IF removing[s] > 0 THEN overlapped \cup {s}
                                            ELSE overlapped \ {s}
       /\ UNCHANGED <<removing, route>>

(* RouteDispatcher: the first call of a route goes to Route.  A continue    *)
(* with the url of another protocol is refused before it does anything, a   *)
(* fulfill with a response that is gone after the route counts as handled.  *)
AnswerCall(r, op) ==
  LET t == [route[r] EXCEPT !.answered = TRUE]
  IN  \/ /\ route[r].answered \/ op = "continue" \/ t.state # "held"
         /\ route' = [route EXCEPT ![r] = [t EXCEPT !.answer = "error"]]
      \/ /\ ~route[r].answered /\ op = "continue"
         /\ route' = [route EXCEPT ![r] =
              [Continue(r, t, "continued") EXCEPT
                 !.answer = IF ContinueThrows(r, t) THEN "error" ELSE "ok"]]
      \/ /\ ~route[r].answered /\ op = "settle" /\ t.state = "held"
         /\ \E end \in {"settled", "stuck"} :
              route' = [route EXCEPT ![r] =
                [Ended(t, end) EXCEPT
                   !.answer = IF end = "stuck" THEN "error" ELSE "ok"]]

(* Of a page that is gone the dispatchers may refuse calls.                  *)
Receive ==
  /\ toServer # <<>>
  /\ toServer' = Tail(toServer)
  /\ LET m == Head(toServer)
     IN  \/ /\ m.op = "patterns"
            /\ SetPatterns(m.scope, m.patterns)
            /\ UNCHANGED enabled
         \/ /\ m.op # "patterns"
            /\ AnswerCall(m.request, m.op)
            /\ UNCHANGED <<serverVars, overlapped>>
         \/ /\ gone
            /\ UNCHANGED <<serverVars, route, overlapped>>
  /\ UNCHANGED <<userVars, clientVars>>

(* setNetworkInterceptionPatterns goes on after removeRequestInterceptor.   *)
RemovalEnds(s) ==
  /\ removing[s] > 0
  /\ removing' = [removing EXCEPT ![s] = @ - 1]
  /\ matchers' = [matchers EXCEPT ![s] = {}]
  /\ UNCHANGED <<userVars, clientVars, toServer, interceptors, enabled, route,
                 overlapped>>

(* The browser does what updateRequestInterception asked it last.           *)
NeedsRequestInterception == \E s \in Scope : interceptors[s] > 0

BrowserSwitched ==
  /\ enabled # NeedsRequestInterception
  /\ enabled' = NeedsRequestInterception
  /\ UNCHANGED <<userVars, clientVars, toServer, matchers, interceptors,
                 removing, route, overlapped>>

-------------------------------------------------------------------------------
UserActs ==
  \/ \E h \in Handler : AddRoute(h) \/ Unroute(h)
  \/ \E s \in Scope, behavior \in {"default", "wait", "ignoreErrors"} :
       UnrouteAll(s, behavior)
  \/ Close

HandlerActs ==
  \E r \in Request :
    \/ \E op \in {"continue", "settle"} : CallRoute(r, op)
    \/ CallFails(r)
    \/ Fallback(r)
    \/ HandlerReturns(r)
    \/ HandlerThrows(r)

ClientGoesOn ==
  \/ \E r \in Request : OnRoute(r) \/ OnAnswer(r) \/ HandlerEnds(r)
  \/ \E s \in Scope : WaitIsOver(s)

ServerGoesOn ==
  \/ Receive
  \/ BrowserSwitched
  \/ \E s \in Scope : RemovalEnds(s)

Next ==
  \/ UserActs
  \/ HandlerActs
  \/ ClientGoesOn
  \/ ServerGoesOn
  \/ TargetGone
  \/ \E r \in Request : RequestBegins(r)

Fairness ==
  /\ WF_vars(Receive)
  /\ WF_vars(BrowserSwitched)
  /\ \A s \in Scope : WF_vars(RemovalEnds(s)) /\ WF_vars(WaitIsOver(s))
  /\ \A r \in Request :
       WF_vars(OnRoute(r)) /\ WF_vars(OnAnswer(r)) /\ WF_vars(HandlerEnds(r))

Spec == Init /\ [][Next]_vars /\ Fairness
-------------------------------------------------------------------------------
(***************************************************************************)
(* Properties.                                                             *)
(***************************************************************************)

(* Calls about the patterns of a scope are on their way, or the browser has *)
(* still to do what it was asked.                                           *)
Busy(s) ==
  \/ removing[s] > 0
  \/ enabled # NeedsRequestInterception
  \/ \E i \in DOMAIN toServer :
       toServer[i].op = "patterns" /\ toServer[i].scope = s

(* Client and server agree whenever they are not busy and the page is there: *)
(* a handler that is routed is among the matchers of its dispatcher, whose   *)
(* interceptor is installed, and the browser pauses requests.               *)
Agreed(s) ==
  ~Busy(s) /\ ~gone /\ routes[s] # <<>> =>
    /\ HandlersIn(routes[s]) \subseteq matchers[s]
    /\ interceptors[s] > 0 /\ enabled

(* So it is, but for a scope whose latest patterns came during a removal:    *)
(* whatever went wrong before, the next patterns that come after one make   *)
(* the page intercept again.                                                *)
RoutedMeansIntercepted == \A s \in Scope \ overlapped : Agreed(s)

(* What a user may rely on, however requests, unroute calls, answers of the  *)
(* server and the end of the page interleave: a handler is called for no     *)
(* more requests than its times, but once if that is zero; no handler that   *)
(* unrouteAll("wait") removed is running when it returns, unless a call on   *)
(* its route failed; and as long as the page is there a handler is only told *)
(* that it handled a request that its call and nothing else took further.    *)
AtMost(h) == IF Times[h] = 0 THEN 1 ELSE Times[h]
HandlerContract ==
  [][/\ \A h \in Handler : handledCount'[h] <= AtMost(h)
     /\ \A s \in Scope : waits[s] # None /\ waits'[s] = None =>
          \A h \in waits[s].removed, r \in Request :
            Running(r, h) => chain[r].didThrow
     /\ \A r \in Request : chain'[r].promise = "handled" =>
          route'[r].state \in {"continued", "settled"} \/ gone']_vars

(* It is up to the user's code what becomes of the request.                 *)
WaitsForHandler(r) ==
  \/ chain[r].at = "thrown"
  \/ chain[r].at = "running" /\ (chain[r].body = "running" \/ MayCall(r))

(* The fallback at the end of _onRoute was refused, which nobody is told.   *)
FallbackRefused(r) == chain[r].at = "over" /\ route[r].answer = "error"

(* No paused request is forgotten between the interceptors, the messages and *)
(* the handlers: again and again it has gone on, or it waits for a handler.  *)
(* Excepted are pages that are closing, which stall their requests, or gone, *)
(* and refused fallbacks.                                                   *)
RoutesGoOn ==
  \A r \in Request :
    []<>(\/ route[r].state # "held" \/ WaitsForHandler(r) \/ FallbackRefused(r)
         \/ closing \/ gone)
===============================================================================
