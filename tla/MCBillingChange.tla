--------------------------- MODULE MCBillingChange ---------------------------
(* Two changes of one subscription, and two requests.                      *)
EXTENDS BillingChange

CONSTANTS w1, w2, c1, c2

About(w, c) == req[w] # Idle => req[w].change = c

(* Two requests for one change, or two changes with a request for each.    *)
Focused ==
    \/ change[c2].status = "NONE"
    \/ /\ change[c1].status # "NONE" /\ About(w1, c1) /\ About(w2, c2)
       /\ change[c1].fresh /\ change[c2].fresh /\ c2 \notin refuses
       /\ change[c1].from = [plan |-> "pro", seats |-> 0]
=============================================================================
