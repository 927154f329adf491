----------------------------- MODULE Stockroom ------------------------------
(***************************************************************************)
(* The inventory parts that purchase orders, part returns, counter sales   *)
(* and repair-order part lines move.                                       *)
(***************************************************************************)
EXTENDS Handlers, Naturals

CONSTANTS Parts,          \* inventory parts
          InitialOnHand   \* quantity on hand when the history begins

ASSUME StockroomAssumption ==
    /\ None \notin Parts
    /\ InitialOnHand \in [Parts -> Nat]
=============================================================================
