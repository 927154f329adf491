------------------------------ MODULE Overlaps ------------------------------
(***************************************************************************)
(* Requests that read, and later write without looking again: what one     *)
(* commits puts the reads of the others out of date.                       *)
(***************************************************************************)
EXTENDS Handlers

VARIABLE unkept   \* what overlapping requests or a manual edit have put at odds

Idle == [at |-> "idle", stale |-> FALSE]

Begin(w, record) == req[w] = Idle /\ req' = [req EXCEPT ![w] = record]

(* The request commits, and the others that satisfy reading have read what *)
(* it changed.                                                             *)
CommitOver(w, reading(_)) ==
    req' = [v \in Workers |->
              IF v = w THEN Idle
              ELSE IF req[v] # Idle /\ reading(req[v]) THEN [req[v] EXCEPT !.stale = TRUE]
              ELSE req[v]]
=============================================================================
