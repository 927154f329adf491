-------------------------------- MODULE Shelf --------------------------------
(***************************************************************************)
(* The columns of a part that purchase orders and part returns both write, *)
(* through applyInventoryMutationWithTransaction                           *)
(* (parts/part-inventory.repository.ts): it reads the part without a lock  *)
(* and stores sums, so a movement committed in between is overwritten.     *)
(* Modules PurchaseOrder and PartReturn extend this one and share its      *)
(* workers; Procurement puts them together.                                *)
(***************************************************************************)
EXTENDS Stockroom, Integers

CONSTANT InitialOnOrder    \* quantity on order a part was created with

ASSUME ShelfAssumption == InitialOnOrder \in [Parts -> Nat]

VARIABLES
    onHand,      \* Part.qtyOnHand
    onOrder,     \* Part.qtyOnOrder
    overlapped   \* some transaction has written over reads that went stale

Shelf == <<onHand, onOrder>>

Idle == [at |-> "idle"]

Finish(w) == req' = [req EXCEPT ![w] = Idle]

ShelfInit ==
    /\ onHand = InitialOnHand
    /\ onOrder = InitialOnOrder
    /\ overlapped = FALSE
    /\ req = [w \in Workers |-> Idle]

(* The reads of the mutation.                                              *)
ReadShelf == [onHand |-> onHand, onOrder |-> onOrder]

(* Rows that a request holds locked while it is between two statements.    *)
Held == UNION {req[w].rows : w \in {v \in Workers : req[v].at \in {"counted", "claimed"}}}

RowsFree(rows) == rows \cap Held = {}

(* The writes: for the parts touched, what was read plus the deltas.       *)
MoveStock(read, touched, handDelta, orderDelta) ==
    /\ onHand' = [p \in Parts |-> IF p \in touched THEN read.onHand[p] + handDelta[p]
                                  ELSE onHand[p]]
    /\ onOrder' = [p \in Parts |-> IF p \in touched THEN read.onOrder[p] + orderDelta[p]
                                   ELSE onOrder[p]]

ShelfUnchanged(read, touched) ==
    \A p \in touched : read.onHand[p] = onHand[p] /\ read.onOrder[p] = onOrder[p]

(* Overlaps are remembered, not prevented.                                 *)
Note(fresh) == overlapped' = (overlapped \/ ~fresh)
=============================================================================
