------------------------ MODULE DispatcherConnection ------------------------
(***************************************************************************)
(* The channel between a client and the server: the tree of dispatchers in *)
(* packages/playwright-core/src/server/dispatchers/dispatcher.ts, its       *)
(* mirror of channel owners (client/connection.ts, client/channelOwner.ts), *)
(* and the calls in between with their progress controllers                 *)
(* (server/progress.ts).                                                    *)
(*                                                                         *)
(* Both directions are first-in first-out.  What the server does between    *)
(* two awaits, handler code included, is one action; so is the handling of  *)
(* one message.                                                             *)
(*                                                                         *)
(* An object is a guid.  Its dispatcher may be disposed and, as long as     *)
(* somebody mentions the object, created again with the same guid.          *)
(***************************************************************************)
EXTENDS Naturals, FiniteSets, Sequences, SequencesExt

CONSTANTS
  Object,         (* Guids.                                                  *)
  Root,           (* A dispatcher that outlives the others, say a context.   *)
  Scopes,         (* Where from() creates the dispatcher of an object: under *)
                  (* the first of these that has one, else under the last.   *)
  Adopted,        (* The objects that a dispatcher creates next to itself    *)
                  (* and adopts: the main frame of a page.                   *)
  Below,          (* The objects that are gone when the object is closed.    *)
  Published,      (* Objects that events of Root mention.                    *)
  Closable,       (* Objects that close by themselves: pages.                *)
  Disposable,     (* Objects with a method that disposes them: handles.      *)
  Returned,       (* What the methods of an object may return.               *)
  Bucket,         (* gcBuckets                                               *)
  BucketOf,       (* _gcBucket                                               *)
  MaxDispatchers, (* maxDispatchersForBucket                                 *)
  DisposeCount,   (* (maxDispatchers / 10) | 0                               *)
  Call,           (* Message ids.                                            *)
  MaxWire         (* Bound: no event is added to a longer queue.             *)

ASSUME RootAssumption ==
  /\ Root \in Object
  /\ \A f \in {Adopted, Below, Returned} : f \in [Object -> SUBSET Object]
  /\ Published \cup Closable \cup Disposable \subseteq Object \ {Root}
  /\ \A o \in Object : Returned[o] \cup Adopted[o] \subseteq Object \ {Root, o}
(* The kinds of objects are ordered: what is created under an object, or     *)
(* adopted by it, is below it.                                               *)
ASSUME BelowAssumption ==
  /\ \A o \in Object : o \in Below[o] /\ (Root \in Below[o] => o = Root)
  /\ \A o \in Object : \A p \in Below[o] : Below[p] \subseteq Below[o] /\ (o \in Below[p] => p = o)
  /\ \A o \in Object : Adopted[o] \subseteq Below[o]
  /\ \A o \in Object \ {Root} : \A i \in DOMAIN Scopes[o] : o \in Below[Scopes[o][i]]
(* A method returns what is created under its own dispatcher, or under Root  *)
(* if there is nothing nearer; an event of Root mentions only the latter.    *)
ASSUME ScopeAssumption ==
  /\ Scopes \in [Object \ {Root} -> Seq(Object)]
  /\ \A o \in Object \ {Root} : Scopes[o] # <<>>
  /\ \A o \in Published : Root \in ToSet(Scopes[o])
  /\ \A t \in Object : \A o \in Returned[t] : ToSet(Scopes[o]) \cap {Root, t} # {}
(* The one use of adopt() that is modelled has one part.                     *)
ASSUME AdoptAssumption == \A o \in Object : \A f, g \in Adopted[o] : f = g
ASSUME BucketAssumption ==
  /\ BucketOf \in [Object -> Bucket]
  /\ MaxDispatchers \in Nat \ {0}
  /\ DisposeCount \in 0..MaxDispatchers
  /\ MaxWire \in Nat

(* The objects that others are created under, adopted by or returned from.   *)
Scoping(o) ==
  \/ o = Root \/ Adopted[o] # {} \/ Returned[o] # {}
  \/ \E g \in Object \ {Root} : o \in ToSet(Scopes[g])
  \/ \E g \in Object : o \in Adopted[g]

(* None of them is ever collected, for there are no more of their kind than  *)
(* the collector allows (10000 pages, frames or workers).                    *)
ScopesAreKept ==
  \A o \in Object : Scoping(o) =>
    LET kind == {g \in Object : BucketOf[g] = BucketOf[o]}
    IN  IsFiniteSet(kind) /\ Cardinality(kind) <= MaxDispatchers

VARIABLES
  up,        (* the object and its ancestors through _parent, {} when the    *)
             (* object has no dispatcher                                     *)
  bucket,    (* _dispatchersByBucket, in insertion order                     *)
  gone,      (* the objects of the browser that do not exist any more        *)
  call,      (* dispatch() of each message                                   *)
  toClient,  (* messages on their way to the client                          *)
  toServer,  (* and to the server                                            *)
  mirror,    (* the channel owners: the same as "up", at the client          *)
  held,      (* objects the client has seen and that were not collected      *)
  callbacks, (* _callbacks                                                   *)
  signalled, (* calls whose AbortSignal has fired                            *)
  link       (* the connection: "open"; "closing" while the server stops the *)
             (* pending operations; "closed" when its tree is disposed       *)

tree_vars   == <<up, bucket>>
client_vars == <<mirror, held, callbacks, signalled>>
vars == <<tree_vars, gone, call, toClient, toServer, client_vars, link>>

(* A call is "before" while onBeforeCall runs, "running" in the method of    *)
(* the dispatcher, "after" while onAfterCall and slowMo run.  It is stale    *)
(* when the dispatcher it was sent to was disposed, aborted when its entry   *)
(* has an abortError.                                                        *)
Phase == {"new", "sent", "before", "running", "after", "over"}
CallState == [phase : Phase, target : Object, stale : BOOLEAN, aborted : BOOLEAN,
              result : SUBSET Object]
NewCall == [phase |-> "new", target |-> Root, stale |-> FALSE, aborted |-> FALSE, result |-> {}]

CreateMessage(p, o, refs)  == [method |-> "__create__", guid |-> p, child |-> o, refs |-> refs]
AdoptMessage(p, o)         == [method |-> "__adopt__", guid |-> p, child |-> o, refs |-> {o}]
DisposeMessage(o, reason)  == [method |-> "__dispose__", guid |-> o, reason |-> reason, refs |-> {}]
EventMessage(o, refs)      == [method |-> "event", guid |-> o, refs |-> refs]
ResponseMessage(c, refs)   == [method |-> "response", id |-> c, refs |-> refs]
CallMessage(c, o)          == [method |-> "call", id |-> c, guid |-> o]
AbortMessage(c)            == [method |-> "__abort__", id |-> c]

TypeOK ==
  /\ up \in [Object -> SUBSET Object]
  /\ bucket \in [Bucket -> Seq(Object)]
  /\ gone \subseteq Object
  /\ call \in [Call -> CallState]
  /\ mirror \in [Object -> SUBSET Object]
  /\ held \subseteq Object
  /\ callbacks \subseteq Call /\ signalled \subseteq Call
  /\ link \in {"open", "closing", "closed"}
  /\ \A o \in Object : (up[o] # {} => o \in up[o]) /\ (mirror[o] # {} => o \in mirror[o] /\ o \in held)

(***************************************************************************)
(* The tree.  A turn of the server is a chain of these steps, from the tree *)
(* and the messages so far to the next.                                     *)
(***************************************************************************)
Server == [up |-> up, bucket |-> bucket, out |-> toClient]

Under(tree, o) == {g \in DOMAIN tree : o \in tree[g]}

(* A tree without an object and what is below it; with an object in another  *)
(* place.                                                                    *)
Pruned(tree, o)   == [g \in DOMAIN tree |-> IF o \in tree[g] THEN {} ELSE tree[g]]
Grown(tree, p, o) == [tree EXCEPT ![o] = tree[p] \cup {o}]
Moved(tree, p, o) ==
  [g \in DOMAIN tree |->
     IF o \in tree[g] THEN (tree[g] \ tree[o]) \cup {o} \cup tree[p] ELSE tree[g]]

(* The numbers of a finite set in order; a list without some of its objects. *)
Ascending(S) ==
  [n \in 1..Cardinality(S) |-> CHOOSE t \in S : Cardinality({u \in S : u < t}) = n - 1]

Without(list, lost) ==
  LET places == Ascending({i \in DOMAIN list : list[i] \notin lost})
  IN  [n \in DOMAIN places |-> list[places[n]]]

(* Mutant: the entries of children in the buckets are forgotten.             *)
DisposedUnlisted(s, o, reason) ==
  [up     |-> Pruned(s.up, o),
   bucket |-> [k \in Bucket |-> Without(s.bucket[k], {o})],
   out    |-> Append(s.out, DisposeMessage(o, reason))]

(* _dispose: the dispatcher goes with its children, under one message.       *)
Disposed(s, o, reason) ==
  [up     |-> Pruned(s.up, o),
   bucket |-> [k \in Bucket |-> Without(s.bucket[k], Under(s.up, o))],
   out    |-> Append(s.out, DisposeMessage(o, reason))]

(* maybeDisposeStaleDispatchers: the oldest of a bucket go, each under a     *)
(* message of its own unless it went with one before it.                     *)
Collected(s, k) ==
  LET list  == s.bucket[k]
      lost  == {g \in Object : \E i \in 1..DisposeCount : list[i] \in s.up[g]}
      first == Ascending({i \in 1..DisposeCount : \A j \in 1..(i - 1) : list[j] \notin s.up[list[i]]})
  IN  IF Len(list) <= MaxDispatchers THEN s
      ELSE [up     |-> [g \in Object |-> IF g \in lost THEN {} ELSE s.up[g]],
            bucket |-> [b \in Bucket |-> Without(s.bucket[b], lost)],
            out    |-> s.out \o [n \in DOMAIN first |-> DisposeMessage(list[first[n]], "gc")]]

(* The constructor of a dispatcher.                                          *)
Created(s, p, o, refs) ==
  Collected([up     |-> Grown(s.up, p, o),
             bucket |-> [s.bucket EXCEPT ![BucketOf[o]] = Append(@, o)],
             out    |-> Append(s.out, CreateMessage(p, o, refs))],
            BucketOf[o])

AdoptedBy(s, p, o) ==
  IF s.up[o] \ {o} = s.up[p] THEN s
  ELSE [s EXCEPT !.up = Moved(s.up, p, o), !.out = Append(@, AdoptMessage(p, o))]

(* The parent of a new dispatcher, which nobody asks whether it is disposed. *)
ScopeFor(s, o) ==
  LET live == {i \in DOMAIN Scopes[o] : s.up[Scopes[o][i]] # {}}
  IN  Scopes[o][IF live = {} THEN Len(Scopes[o]) ELSE Min(live)]

Present(s, p, o) == IF s.up[o] # {} THEN s ELSE Created(s, p, o, {})

(* Mutant: the page before its main frame.                                   *)
FromPageFirst(s, o) ==
  IF s.up[o] # {} THEN s
  ELSE LET t == Created(s, ScopeFor(s, o), o, Adopted[o])
       IN  IF Adopted[o] = {} THEN t ELSE Present(t, o, CHOOSE f \in Adopted[o] : TRUE)

(* from(): the dispatcher that exists, or a new one; the object it is going  *)
(* to adopt gets its own first, in the same scope.                           *)
From(s, o) ==
  LET scope == ScopeFor(s, o)
      part  == CHOOSE f \in Adopted[o] : TRUE
  IN  CASE s.up[o] # {}    -> s
        [] s.up[o] = {} /\ Adopted[o] = {} -> Created(s, scope, o, {})
        [] OTHER -> AdoptedBy(Created(Present(s, scope, part), scope, o, {part}), o, part)

Emitted(s, o, refs) == [s EXCEPT !.out = Append(@, EventMessage(o, refs))]

(***************************************************************************)
(* The end of a turn: the calls learn which dispatchers are gone.           *)
(***************************************************************************)
Stale(s, calls) ==
  [c \in Call |->
     [calls[c] EXCEPT !.stale =
        \/ @
        \/ calls[c].phase \in {"before", "running"} /\ s.up[calls[c].target] = {}]]

(* What is sent when the connection is closed falls on the floor.            *)
Sent(out) == IF link = "open" THEN out ELSE <<>>

Turn(s, calls) ==
  /\ up' = s.up
  /\ bucket' = s.bucket
  /\ toClient' = Sent(s.out)
  /\ call' = Stale(s, calls)

Ended(c, result) ==
  [call EXCEPT ![c] = [@ EXCEPT !.phase = "after", !.stale = FALSE, !.result = result]]

Init ==
  /\ up = [o \in Object |-> IF o = Root THEN {o} ELSE {}]
  /\ bucket = [k \in Bucket |-> IF k = BucketOf[Root] THEN <<Root>> ELSE <<>>]
  /\ gone = {}
  /\ call = [c \in Call |-> NewCall]
  /\ toClient = <<>>
  /\ toServer = <<>>
  /\ mirror = up
  /\ held = {Root}
  /\ callbacks = {}
  /\ signalled = {}
  /\ link = "open"

(***************************************************************************)
(* The client.                                                              *)
(***************************************************************************)
(* sendMessageToServer; the client does not know yet what the server has     *)
(* disposed, and refuses only objects that were collected.                   *)
SendCall(c, o) ==
  /\ link = "open" /\ call[c].phase = "new" /\ o \in held
  /\ toServer' = Append(toServer, CallMessage(c, o))
  /\ callbacks' = callbacks \cup {c}
  /\ call' = [call EXCEPT ![c].phase = "sent", ![c].target = o]
  /\ UNCHANGED <<tree_vars, gone, toClient, mirror, held, signalled, link>>

(* The listener of the signal lives as long as the callback.                 *)
AbortCall(c) ==
  /\ c \in callbacks \ signalled
  /\ toServer' = Append(toServer, AbortMessage(c))
  /\ signalled' = signalled \cup {c}
  /\ UNCHANGED <<tree_vars, gone, call, toClient, mirror, held, callbacks, link>>

(* A message that mentions an unknown object throws and changes nothing; a   *)
(* response has removed its callback by then.                                *)
IsBound(tree, o) == tree[o] # {}
Mentions(m) == IF m.method = "response" THEN m.refs ELSE {m.guid} \cup m.refs
CanRead(tree, m) == \A o \in Mentions(m) : IsBound(tree, o)

Applied(tree, m) ==
  IF ~CanRead(tree, m) THEN tree
  ELSE CASE m.method = "__create__"  -> Grown(tree, m.guid, m.child)
         [] m.method = "__adopt__"   -> Moved(tree, m.guid, m.child)
         [] m.method = "__dispose__" -> Pruned(tree, m.guid)
         [] OTHER                    -> tree

(* Mutant: an owner that is created again is still collected.                *)
StillHeldOnce(m) ==
  IF CanRead(mirror, m) /\ m.method = "__dispose__" THEN held \ Under(mirror, m.guid) ELSE held

(* An owner that is created again is a new one; those that were collected    *)
(* refuse calls.                                                             *)
StillHeld(m) ==
  IF ~CanRead(mirror, m) THEN held
  ELSE CASE m.method = "__create__" -> held \cup {m.child}
         [] m.method = "__dispose__" /\ m.reason = "gc" -> held \ Under(mirror, m.guid)
         [] OTHER                   -> held

Receive ==
  /\ toClient # <<>>
  /\ LET m == Head(toClient)
     IN  /\ mirror' = Applied(mirror, m)
         /\ held' = StillHeld(m)
         /\ callbacks' = IF m.method = "response" THEN callbacks \ {m.id} ELSE callbacks
  /\ toClient' = Tail(toClient)
  /\ UNCHANGED <<tree_vars, gone, call, toServer, signalled, link>>

(***************************************************************************)
(* Calls at the server.                                                     *)
(***************************************************************************)
Answered(c, refs) ==
  /\ call' = [call EXCEPT ![c] = [NewCall EXCEPT !.phase = "over"]]
  /\ toClient' = Sent(Append(toClient, ResponseMessage(c, refs)))
  /\ UNCHANGED tree_vars

(* Mutant: the early return after the error is missing.                      *)
ReceiveCallTwice(m) ==
  /\ m.method = "call"
  /\ call' = [call EXCEPT ![m.id].phase = "before"]
  /\ toClient' = IF up[m.guid] = {} THEN Append(toClient, ResponseMessage(m.id, {})) ELSE toClient
  /\ UNCHANGED tree_vars

(* The beginning of dispatch().                                              *)
ReceiveCall(m) ==
  /\ m.method = "call"
  /\ IF up[m.guid] = {} THEN Answered(m.id, {})
     ELSE /\ call' = [call EXCEPT ![m.id].phase = "before"]
          /\ UNCHANGED <<tree_vars, toClient>>

(* An abort finds the entry of its call from the first turn of the call to   *)
(* its answer.  The controller that is running is aborted, the one that      *)
(* comes next inherits the error.                                            *)
ReceiveAbort(m) ==
  /\ m.method = "__abort__"
  /\ call' = [call EXCEPT ![m.id].aborted = call[m.id].phase \in {"before", "running", "after"}]
  /\ UNCHANGED <<tree_vars, toClient>>

Dispatch ==
  /\ toServer # <<>>
  /\ ReceiveCall(Head(toServer)) \/ ReceiveAbort(Head(toServer))
  /\ toServer' = Tail(toServer)
  /\ UNCHANGED <<gone, client_vars, link>>

(* Mutation: the second controller does not inherit the abort.               *)
EndBeforeForgets(c) ==
  /\ call[c].phase = "before"
  /\ call' = IF call[c].stale THEN Ended(c, {})
             ELSE [call EXCEPT ![c].phase = "running", ![c].aborted = FALSE]
  /\ UNCHANGED <<tree_vars, gone, toClient, toServer, client_vars, link>>

(* The end of onBeforeCall: the method starts, unless the dispatcher was     *)
(* disposed or the call aborted meanwhile.                                   *)
EndBefore(c) ==
  /\ call[c].phase = "before"
  /\ call' = IF call[c].stale \/ call[c].aborted THEN Ended(c, {})
             ELSE [call EXCEPT ![c].phase = "running"]
  /\ UNCHANGED <<tree_vars, gone, toClient, toServer, client_vars, link>>

(* The method returns an object of the browser that exists.  An abort or a   *)
(* collected dispatcher do not keep a method from returning.                 *)
HandlerReturns(c, o) ==
  /\ call[c].phase = "running"
  /\ call[c].target \notin gone /\ o \in Returned[call[c].target] \ gone
  /\ Turn(From(Server, o), Ended(c, {o}))
  /\ UNCHANGED <<gone, toServer, client_vars, link>>

(* It returns nothing, throws, is aborted or runs into its timeout.          *)
HandlerEnds(c) ==
  /\ call[c].phase = "running"
  /\ call' = Ended(c, {})
  /\ UNCHANGED <<tree_vars, gone, toClient, toServer, client_vars, link>>

(* The dispose method of a handle; that of a dispatcher that was disposed    *)
(* before fails an assertion, which is HandlerEnds.                          *)
HandlerDisposes(c) ==
  LET o == call[c].target
  IN  /\ call[c].phase = "running" /\ ~call[c].stale /\ o \in Disposable
      /\ Turn(Disposed(Server, o, "none"), Ended(c, {}))
      /\ gone' = gone \cup Below[o]
      /\ UNCHANGED <<toServer, client_vars, link>>

(* The end of onAfterCall and slowMo; the response was built before them.    *)
EndAfter(c) ==
  /\ call[c].phase = "after"
  /\ Answered(c, call[c].result)
  /\ UNCHANGED <<gone, toServer, client_vars, link>>

(***************************************************************************)
(* Events.                                                                  *)
(***************************************************************************)
(* An event of Root that mentions an object.                                 *)
Publish(o) ==
  /\ Len(toClient) < MaxWire /\ o \in Published \ gone /\ link # "closed"
  /\ Turn(Emitted(From(Server, o), Root, {o}), call)
  /\ UNCHANGED <<gone, toServer, client_vars, link>>

(* The object says that it is closed, and its dispatcher goes.               *)
Closed(s, o) == Disposed(Emitted(s, o, {}), o, "none")

CloseObject(o) ==
  /\ o \in Closable \ gone
  /\ Turn(IF up[o] = {} THEN Server ELSE Closed(Server, o), call)
  /\ gone' = gone \cup Below[o]
  /\ UNCHANGED <<toServer, client_vars, link>>

(* A page whose initialization ends after it was closed is reported all the  *)
(* same and then closes once more.                                           *)
ReportClosed(o) ==
  /\ Len(toClient) < MaxWire /\ o \in Published \cap Closable \cap gone /\ link # "closed"
  /\ Turn(Closed(Emitted(From(Server, o), Root, {o}), o), call)
  /\ UNCHANGED <<gone, toServer, client_vars, link>>

(***************************************************************************)
(* The end of the connection.                                               *)
(***************************************************************************)
(* stopPendingOperations: the calls to dispatchers of the tree are aborted.  *)
Stopped ==
  [c \in Call |-> [call[c] EXCEPT !.aborted =
     \/ @
     \/ call[c].phase \in {"before", "running", "after"} /\ up[call[c].target] # {}]]

(* The transport breaks.  All callbacks are rejected, what is on the wire is *)
(* lost; nobody reads the objects of the client from here on.                *)
Disconnect ==
  /\ link = "open"
  /\ link' = "closing"
  /\ call' = Stopped
  /\ callbacks' = {} /\ toServer' = <<>> /\ toClient' = <<>>
  /\ mirror' = [o \in Object |-> {}] /\ held' = {}
  /\ UNCHANGED <<tree_vars, gone, signalled>>

(* The whole tree is disposed as soon as the aborted controllers are done.   *)
DisposeRoot ==
  /\ link = "closing"
  /\ \A c \in Call : call[c].aborted => call[c].phase \notin {"before", "running"}
  /\ link' = "closed"
  /\ Turn(Disposed(Server, Root, "none"), call)
  /\ UNCHANGED <<gone, toServer, client_vars>>

Next ==
  \/ \E c \in Call, o \in Object : SendCall(c, o) \/ HandlerReturns(c, o)
  \/ \E c \in Call : \/ AbortCall(c) \/ EndBefore(c) \/ EndAfter(c)
                     \/ HandlerEnds(c) \/ HandlerDisposes(c)
  \/ Disconnect
  \/ DisposeRoot
  \/ Receive
  \/ Dispatch
  \/ \E o \in Published : Publish(o)
  \/ \E o \in Closable : CloseObject(o) \/ ReportClosed(o)

Spec == Init /\ [][Next]_vars

(* Messages are delivered, the instrumentation runs for at most 3 seconds,   *)
(* and a method that was aborted ends, for its progress races the abort.  A  *)
(* method that was not aborted may run for ever (timeout 0).                 *)
FairSpec ==
  /\ Spec
  /\ WF_vars(Receive) /\ WF_vars(Dispatch)
  /\ \A c \in Call : /\ WF_vars(EndBefore(c)) /\ WF_vars(EndAfter(c))
                     /\ WF_vars(call[c].aborted /\ HandlerEnds(c))

(***************************************************************************)
(* Properties.                                                              *)
(***************************************************************************)
(* A dispatcher is never left behind under one that was disposed, where no   *)
(* dispose of an ancestor reaches it (_disposeRecursively, adopt); nor after *)
(* the end of the connection, which waits for the methods that may create    *)
(* one (stopPendingOperations).                                              *)
NoOrphans == \A o \in Object : up[o] # {} => Root \in up[o] /\ \A p \in up[o] : up[p] # {}

(* Each bucket lists the dispatchers of its kind, once each, and no more     *)
(* than the garbage collector allows (registerDispatcher,                    *)
(* maybeDisposeStaleDispatchers).                                            *)
BucketsMatchTree ==
  \A k \in Bucket :
    /\ ToSet(bucket[k]) = {o \in Object : up[o] # {} /\ BucketOf[o] = k}
    /\ IsInjective(bucket[k])
    /\ DisposeCount > 0 => Len(bucket[k]) <= MaxDispatchers

(* The dispatchers are one tree, and the buckets list exactly that tree.     *)
TreeIsWhole == NoOrphans /\ BucketsMatchTree

(* The client that has read everything on the wire has the tree of the       *)
(* server: no create, adopt or dispose is lost, late or out of order.        *)
ReadBy(tree, wire) ==
  LET after[n \in 0..Len(wire)] == IF n = 0 THEN tree ELSE Applied(after[n - 1], wire[n])
  IN  after[Len(wire)]

ClientFollowsServer == link = "open" => ReadBy(mirror, toClient) = up

(* The client knows every object that a message of the tree or an event      *)
(* mentions, at the time it reads it (Connection.dispatch throws else).      *)
MessagesAreBound ==
  toClient # <<>> /\ Head(toClient).method # "response" => CanRead(mirror, Head(toClient))

(* The client can follow: what it reads next is about objects it knows, and  *)
(* what is on its way leads to the tree of the server.                       *)
ClientKeepsUp == ClientFollowsServer /\ MessagesAreBound

(* The same of the results of calls: the client throws "Object with guid ... *)
(* was not bound in the connection" otherwise, and the call never ends.      *)
ResponsesAreBound ==
  toClient # <<>> /\ Head(toClient).method = "response" => CanRead(mirror, Head(toClient))

(* Every response finds its callback and every callback gets one response,   *)
(* whatever is aborted, disposed or closed in between ("Cannot find command  *)
(* to respond").                                                             *)
Responses(c) == {i \in DOMAIN toClient : toClient[i].method = "response" /\ toClient[i].id = c}
OneAnswerPerCall ==
  link = "open" =>
    \A c \in Call : Cardinality(Responses(c)) = IF c \in callbacks /\ call[c].phase = "over" THEN 1 ELSE 0

(* A call is answered unless its method is still at work.                    *)
AnsweredUnlessRunning ==
  \A c \in Call : []<>(c \notin callbacks \/ (call[c].phase = "running" /\ ~call[c].aborted))

(* A call that the client aborts while it waits always comes to its end,     *)
(* wherever the abort meets it: before the call, in onBeforeCall, between    *)
(* two controllers, in the method or after it.                               *)
AbortEndsCall == \A c \in Call : c \in signalled ~> c \notin callbacks

(* No call waits for ever: only a method at work that is not aborted may      *)
(* keep its caller waiting.                                                  *)
CallsAreAnswered == AnsweredUnlessRunning /\ AbortEndsCall
=============================================================================
