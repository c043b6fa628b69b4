---------------------------- MODULE RequestReports ----------------------------
(***************************************************************************)
(* What the frame manager may expect of the one who reports the requests   *)
(* of one redirect chain to it (requestStarted, reportRequestFinished and  *)
(* requestFailed in packages/playwright-core/src/server/frames.ts): each   *)
(* request starts at most once, in the order of the chain and while no     *)
(* other one is in flight, and ends once.  A request that is redirected    *)
(* ends in the step in which its successor starts.                         *)
(*                                                                         *)
(* The promise holds for as long as the one who reports is not disturbed;  *)
(* after that anything may be reported.                                    *)
(***************************************************************************)
EXTENDS Naturals

CONSTANT Hop         (* The requests of the chain, numbered from 0.          *)

VARIABLES
  report,            (* What has been reported of each request.             *)
  disturbed          (* The promise no longer binds.                        *)

Report == {"new", "live", "over"}

Live == {h \in Hop : report[h] = "live"}

Init == /\ report = [h \in Hop |-> "new"]
        /\ disturbed = FALSE

(* The first request, or one whose predecessor was never reported; one that  *)
(* has already failed is reported with its end.                             *)
Start(h) == /\ Live = {}
            /\ \A g \in Hop : g >= h => report[g] = "new"
            /\ \E state \in {"live", "over"} : report' = [report EXCEPT ![h] = state]

(* The request finishes or fails.                                           *)
End(h) == /\ report[h] = "live"
          /\ report' = [report EXCEPT ![h] = "over"]

Redirect(g, h) == /\ report[g] = "live"
                  /\ g < h
                  /\ \A k \in Hop : k >= h => report[k] = "new"
                  /\ report' = [report EXCEPT ![g] = "over", ![h] = "live"]

Undisturbed == /\ \E h \in Hop : \/ Start(h)
                                 \/ End(h)
                                 \/ \E g \in Hop : Redirect(g, h)
               /\ UNCHANGED disturbed

Disturb == /\ disturbed'
           /\ report' \in [Hop -> Report]

Next == Undisturbed \/ Disturb

Spec == Init /\ [][Next]_<<report, disturbed>>
===============================================================================
