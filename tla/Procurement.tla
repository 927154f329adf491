----------------------------- MODULE Procurement -----------------------------
(***************************************************************************)
(* Purchase orders and part returns at work on the same shelf: any of      *)
(* their requests may overlap, and both store the sums they computed from  *)
(* earlier reads of a part.                                                *)
(***************************************************************************)
EXTENDS PurchaseOrder, PartReturn

vars == <<Shelf, overlapped, req, poVars, retVars>>

TypeOK ==
    /\ onHand \in [Parts -> Int]
    /\ onOrder \in [Parts -> Int]
    /\ overlapped \in BOOLEAN
    /\ req \in [Workers -> PORequests \cup RetRequests \cup {Idle}]
    /\ POTypeOK
    /\ RetTypeOK

Init == ShelfInit /\ POInit /\ RetInit

Deliveries == [Slots -> 0..MaxQty]

PurchaseOrderStep ==
    /\ \/ \E o \in Orders, lines \in LineInputs : CreateDraft(o, lines)
       \/ \E w \in Workers :
            \/ \E o \in Orders : CheckOrder(w, o) \/ CheckCancel(w, o)
            \/ \E o \in Orders, lines \in LineInputs : CheckEdit(w, o, lines)
            \/ \E o \in Orders, qty \in Deliveries : CheckReceive(w, o, qty)
            \/ CommitEdit(w)
            \/ ReadForOrder(w) \/ CommitOrder(w)
            \/ ReadForReceive(w) \/ CountReceived(w) \/ CommitReceive(w)
            \/ ReadForCancel(w) \/ CommitCancel(w)
    /\ UNCHANGED retVars

PartReturnStep ==
    /\ \/ \E r \in Returns, type \in ReturnTypes, vendor \in BOOLEAN, p \in Parts,
             q \in 1..MaxReturned : CreateReturn(r, type, vendor, p, q)
       \/ \E w \in Workers :
            \/ \E r \in Returns :
                 \/ \E edit \in EditInputs : CheckUpdate(w, r, edit)
                 \/ \E credit \in {"PENDING", "RECEIVED"} : CheckCredit(w, r, credit)
                 \/ CheckShip(w, r) \/ CheckCloseVendor(w, r) \/ CheckClose(w, r)
                 \/ CheckArchive(w, r)
            \/ UpdateReturn(w) \/ ShipReturn(w) \/ RecordCredit(w) \/ CloseVendor(w)
            \/ ClaimClose(w) \/ CommitClose(w) \/ Archive(w)
    /\ UNCHANGED poVars

Next == PurchaseOrderStep \/ PartReturnStep

Spec == Init /\ [][Next]_vars

-----------------------------------------------------------------------------
(* What a set of orders makes of a quantity of their lines of one part.    *)
SumOver(orders, p, amount(_, _)) ==
    FoldFunction(+, 0, [o \in Orders |->
        IF o \in orders
          THEN Total([s \in Slots |-> amount(o, s)], OfPart(po[o].lines, p)) ELSE 0])

OpenOrders == {o \in Orders : po[o].status \in Open}

(* Until requests overlap, the quantity on order of a part is what open    *)
(* orders still owe of it: ordering, receiving in parts, cancelling the    *)
(* rest and returning parts to the shelf all keep the account.             *)
OnOrderIsOwed ==
    ~overlapped => \A p \in Parts :
        onOrder[p] = InitialOnOrder[p]
                     + SumOver(OpenOrders, p, LAMBDA o, s : Remaining(po[o].lines[s]))

(* Until requests overlap, the shelf holds what receipts and returns put   *)
(* there: no delivery and no return is lost or counted twice.              *)
ShelfAccountsForDeliveries ==
    ~overlapped => \A p \in Parts :
        onHand[p] = InitialOnHand[p]
                    + SumOver(Orders, p, LAMBDA o, s : receipts[o][s])
                    + FoldFunction(+, 0, [r \in Returns |->
                          IF ret[r].part = p THEN restocks[r].qty ELSE 0])

(* Until requests overlap, an order is RECEIVED exactly when every line    *)
(* has arrived, PARTIALLY_RECEIVED when something has and something has    *)
(* not, and a cancelled order was still owed something.                    *)
StatusFollowsReceipts ==
    ~overlapped => \A o \in Orders :
        LET owed == \E s \in Slots : Remaining(po[o].lines[s]) > 0
            arrived == \E s \in Slots : receipts[o][s] > 0
        IN /\ po[o].status = "RECEIVED" => ~owed
           /\ po[o].status = "PARTIALLY_RECEIVED" => owed /\ arrived
           /\ po[o].status = "ORDERED" => owed /\ ~arrived
           /\ po[o].status = "CANCELLED" => owed
           /\ po[o].status = "DRAFT" => ~arrived

(* A line never says that more arrived than was ordered, however receipts, *)
(* edits and cancellations overlap: what a receipt stores is computed from *)
(* one read of the line, and lines do not change once an order is ordered. *)
ReceivedWithinOrdered ==
    \A o \in Orders, s \in Slots : po[o].lines[s].received <= po[o].lines[s].ordered

(* A return puts its parts on the shelf at most once, and only as a return *)
(* that a claim has found pending.                                         *)
RestockedOnce ==
    \A r \in Returns : restocks[r].times <= 1 /\ (restocks[r].times = 1 => ret[r].status # "PENDING")

(* Until requests overlap, a linked part line is owed and has received     *)
(* what the purchase order lines linked to it say.                         *)
LinksFollowOrders ==
    ~overlapped => \A l \in Links :
        /\ link[l].received = FoldFunction(+, 0, [o \in Orders |->
               Total(receipts[o], OfLink(po[o].lines, l))])
        /\ link[l].ordered = FoldFunction(+, 0, [o \in Orders |->
               Total([s \in Slots |->
                        IF po[o].status \in Open \cup {"RECEIVED"} THEN po[o].lines[s].ordered
                        ELSE po[o].lines[s].received], OfLink(po[o].lines, l))])

NotOverlapped == ~overlapped
=============================================================================
