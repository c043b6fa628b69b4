------------------------------- MODULE MCRoutes -------------------------------
(* Small instances of Routes, of which a run takes all: "list", two handlers *)
(* of the page and one request; "requests", one handler and two requests;    *)
(* "scopes", a handler of the page, one of the context and one request.      *)
EXTENDS Routes

CONSTANTS once,     (* A handler with times 0, which is for one request; its  *)
                    (* url is a function that does not match the first.      *)
          twice,    (* A handler of the page for two requests.                *)
          shared,   (* A handler of the context.                             *)
          first, second

VARIABLE setting

MCScopeOf == [h \in Handler |-> IF h = shared THEN "context" ELSE "page"]
MCTimes   == [h \in Handler |-> CASE h = twice -> 2 [] h = once -> 0 [] OTHER -> 1]
MCMatched == [h \in Handler |-> IF h = once THEN {second} ELSE {first, second}]

HandlersOf ==
  [list |-> {once, twice}, requests |-> {twice}, scopes |-> {twice, shared}]

(* A call on a route failed in the client, or the server refused it for      *)
(* another reason than that the request has gone on.                         *)
FailedHere(r) == chain[r].didThrow /\ ~route[r].answered
Refused(r) == route[r].answer = "error" /\ route[r].state \in {"held", "stuck"}
CallsFail == \E r \in Request : FailedHere(r) \/ Refused(r)

(* Bounds: requests come one after the other, and only "requests" has two;   *)
(* no call follows one that is the same; only "scopes" has closing, the      *)
(* other behavior of unrouteAll and such failures, one of them at a time,    *)
(* and only the others have unrouteAll("wait"); all but "requests" have      *)
(* pages that close or crash, after which no such failure comes.            *)
InSetting ==
  /\ routed \subseteq HandlersOf[setting]
  /\ \A i \in 1 .. Len(toServer) - 1 : toServer[i] # toServer[i + 1]
  /\ setting # "requests" => \E r \in Request : route[r].state = "new"
  /\ setting # "list" /\ route[second].state # "new" =>
       route[first].state # "new"
  /\ setting = "requests" => \A r \in Request : chain[r].at # "thrown"
  /\ setting # "scopes" => ~closing /\ ignored = {} /\ ~CallsFail
  /\ setting = "requests" => ~gone
  /\ CallsFail => ~closing /\ ~gone
  /\ closing \/ gone \/ (\E r \in Request : Refused(r)) => ignored = {}
  /\ \A s \in Scope :
       waits[s] # None => setting # "scopes" /\ waits[s].removed # {}

MCInit == Init /\ setting \in DOMAIN HandlersOf
MCNext == Next /\ UNCHANGED setting /\ InSetting'
MCSpec == MCInit /\ [][MCNext]_<<vars, setting>> /\ Fairness
===============================================================================
