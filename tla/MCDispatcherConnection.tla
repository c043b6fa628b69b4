----------------------- MODULE MCDispatcherConnection -----------------------
(* A context with one page, its main frame and two handles of that frame.   *)
EXTENDS DispatcherConnection

CONSTANTS context, page, frame, h1, h2

Objects == {context, page, frame, h1, h2}
Handles == {h1, h2}

PageScopes ==
  [o \in Objects \ {context} |->
     CASE o = page -> <<context>> [] o = frame -> <<page, context>> [] OTHER -> <<frame>>]

PageAdopts  == [o \in Objects |-> IF o = page THEN {frame} ELSE {}]
PageBelow   ==
  [o \in Objects |-> CASE o = context -> Objects
                       [] o = page -> Objects \ {context}
                       [] o = frame -> {frame} \cup Handles
                       [] OTHER -> {o}]
PageReturns ==
  [o \in Objects |-> CASE o = context -> {page} [] o = frame -> Handles [] OTHER -> {}]

Kinds  == {"Context", "Page", "MainFrame", "Handle"}
KindOf ==
  [o \in Objects |-> CASE o = context -> "Context" [] o = page -> "Page"
                       [] o = frame -> "MainFrame" [] OTHER -> "Handle"]

(* Only the handles are ever too many.                                       *)
ASSUME KeptAssumption == ScopesAreKept
=============================================================================
