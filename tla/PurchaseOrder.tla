---------------------------- MODULE PurchaseOrder ----------------------------
(***************************************************************************)
(* Purchase orders (src/src/modules/purchase-orders): drafting, editing,   *)
(* ordering, receiving and cancelling, the quantity on order they keep on  *)
(* parts, and the repair-order part lines their lines may be linked to.    *)
(*                                                                         *)
(* Ordering and cancelling look at the order's status again inside their   *)
(* transaction, receiving does not; none locks the order before its last   *)
(* statement.  Editing compares the status in its update.  After a receipt *)
(* the service calls evaluateRepairOrderReadiness, which is an action of   *)
(* RepairOrder.  The other handlers of repair-order part lines are in      *)
(* PartStock.  Left out: prices, invoice numbers, damaged and back-ordered *)
(* quantities, which nothing reads.                                        *)
(***************************************************************************)
EXTENDS Shelf, Functions, FiniteSets

CONSTANTS Orders,      \* identities of purchase orders
          Slots,       \* positions of an order's lines
          Links,       \* repair-order part lines
          Required,    \* requiredQty of each of them
          LinkPart,    \* the inventory part of each, or None
          LineInputs,  \* the line lists a user may enter
          MaxQty       \* largest quantity ordered on a line

NoLine == [part |-> None, link |-> None, ordered |-> 0, received |-> 0]

Lines == [part : Parts \cup {None}, link : Links \cup {None},
          ordered : 0..MaxQty, received : Nat]

(* A line list has at least one line; a line orders a positive quantity.   *)
ASSUME PurchaseOrderAssumption ==
    /\ IsFiniteSet(Orders) /\ IsFiniteSet(Slots)
    /\ None \notin Links
    /\ MaxQty \in Nat
    /\ Required \in [Links -> Nat]
    /\ LinkPart \in [Links -> Parts \cup {None}]
    /\ LineInputs \subseteq [Slots -> Lines]
    /\ \A input \in LineInputs :
          /\ \A s \in Slots : input[s].received = 0
          /\ \E s \in Slots : input[s].ordered > 0

VARIABLES
    po,          \* purchase orders with their lines
    receipts,    \* quantity on the receipt history rows of each line
    link         \* quantities and status of the linked part lines

poVars == <<po, receipts, link>>

POStatuses == {"DRAFT", "SUBMITTED", "ORDERED", "PARTIALLY_RECEIVED", "RECEIVED",
               "CANCELLED", "CLOSED"}

Open == {"ORDERED", "PARTIALLY_RECEIVED"}

NoOrder == [status |-> "ABSENT", lines |-> [s \in Slots |-> NoLine]]

POs == [status : POStatuses \cup {"ABSENT"}, lines : [Slots -> Lines]]

LinkStatuses == {"TO_BE_ORDERED", "ORDERED", "PARTIALLY_RECEIVED", "RECEIVED", "BACKORDERED"}

LinkRows == [ordered : Int, received : Int, status : LinkStatuses]

Quantities == [Slots -> Int]

Shelves == [onHand : [Parts -> Int], onOrder : [Parts -> Int]]

PORequests ==
    [at : {"editing"}, order : Orders, lines : LineInputs] \cup
    [at : {"receiving"}, order : Orders, units : Quantities] \cup
    [at : {"ordering", "cancelling"}, order : Orders, seen : POs] \cup
    [at : {"read", "counted"}, kind : {"order", "receive", "cancel"}, order : Orders,
     seen : POs, units : Quantities, shelf : Shelves, links : [Links -> LinkRows],
     all : BOOLEAN, rows : SUBSET (Parts \cup Links \cup Orders \X Slots)]

POTypeOK ==
    /\ po \in [Orders -> POs]
    /\ receipts \in [Orders -> [Slots -> Nat]]
    /\ link \in [Links -> LinkRows]

POInit ==
    /\ po = [o \in Orders |-> NoOrder]
    /\ receipts = [o \in Orders |-> [s \in Slots |-> 0]]
    /\ link = [l \in Links |-> [ordered |-> 0, received |-> 0, status |-> "TO_BE_ORDERED"]]

-----------------------------------------------------------------------------
(* Lines and sums over them.                                               *)

Present(line) == line.ordered > 0

(* What the slots of a set add up to, as the loops over lines do.          *)
Total(qty, slots) ==
    FoldFunction(+, 0, [s \in Slots |-> IF s \in slots THEN qty[s] ELSE 0])

Remaining(line) == line.ordered - line.received

OfPart(lines, p) == {s \in Slots : lines[s].part = p}
OfLink(lines, l) == {s \in Slots : lines[s].link = l}

TouchedSlots(r) == {s \in Slots : r.units[s] > 0}
TouchedParts(r) == {r.seen.lines[s].part : s \in TouchedSlots(r)} \ {None}
TouchedLinks(r) == {r.seen.lines[s].link : s \in TouchedSlots(r)} \ {None}

RowsOf(r) == TouchedParts(r) \cup TouchedLinks(r) \cup {<<r.order, s>> : s \in TouchedSlots(r)}

FreshRows(r) ==
    /\ r.seen = po[r.order]
    /\ ShelfUnchanged(r.shelf, TouchedParts(r))
    /\ \A l \in TouchedLinks(r) : r.links[l] = link[l]

(* A transaction that has read its order, the parts and the linked lines.  *)
HaveRead(w, kind, seen, qty) ==
    req' = [req EXCEPT ![w] =
              [at |-> "read", kind |-> kind, order |-> req[w].order, seen |-> seen,
               units |-> qty, shelf |-> ReadShelf, links |-> link,
               all |-> FALSE, rows |-> {}]]

StockBy(r, handSign, orderSign) ==
    LET moved(p) == Total(r.units, OfPart(r.seen.lines, p))
    IN MoveStock(r.shelf, TouchedParts(r), [p \in Parts |-> handSign * moved(p)],
                                           [p \in Parts |-> orderSign * moved(p)])

LinksBy(r, after(_, _, _)) ==
    link' = [l \in Links |->
               IF l \in TouchedLinks(r)
                 THEN after(l, r.links[l], Total(r.units, OfLink(r.seen.lines, l)))
                 ELSE link[l]]

-----------------------------------------------------------------------------
(* Drafts: createPurchaseOrder and updatePurchaseOrder.                    *)

(* buildLineSnapshots: a line for a part may only be linked to a part line *)
(* for the same part or for none.                                          *)
Acceptable(lines) ==
    \A s \in Slots : lines[s].part # None /\ lines[s].link # None
                       => LinkPart[lines[s].link] \in {None, lines[s].part}

CreateDraft(o, lines) ==
    /\ po[o].status = "ABSENT"
    /\ Acceptable(lines)
    /\ po' = [po EXCEPT ![o] = [status |-> "DRAFT", lines |-> lines]]
    /\ UNCHANGED <<Shelf, overlapped, req, receipts, link>>

CheckEdit(w, o, lines) ==
    /\ req[w] = Idle
    /\ po[o].status = "DRAFT"
    /\ Acceptable(lines)
    /\ req' = [req EXCEPT ![w] = [at |-> "editing", order |-> o, lines |-> lines]]
    /\ UNCHANGED <<Shelf, overlapped, poVars>>

(* Faulty variant: the update does not compare the status.                 *)
CommitEditAlways(w) ==
    /\ req[w].at = "editing"
    /\ po' = [po EXCEPT ![req[w].order].lines = req[w].lines]
    /\ Finish(w)
    /\ UNCHANGED <<Shelf, overlapped, receipts, link>>

(* updateMany compares the status, then the lines are replaced.            *)
CommitEdit(w) ==
    /\ req[w].at = "editing"
    /\ po' = IF po[req[w].order].status = "DRAFT"
               THEN [po EXCEPT ![req[w].order].lines = req[w].lines] ELSE po
    /\ Finish(w)
    /\ UNCHANGED <<Shelf, overlapped, receipts, link>>

-----------------------------------------------------------------------------
(* Ordering: orderPurchaseOrder and orderPurchaseOrderRecord.              *)

CheckOrder(w, o) ==
    /\ req[w] = Idle
    /\ po[o].status = "DRAFT"
    /\ req' = [req EXCEPT ![w] = [at |-> "ordering", order |-> o, seen |-> po[o]]]
    /\ UNCHANGED <<Shelf, overlapped, poVars>>

ReadForOrder(w) ==
    /\ req[w].at = "ordering"
    /\ HaveRead(w, "order", req[w].seen, [s \in Slots |-> req[w].seen.lines[s].ordered])
    /\ UNCHANGED <<Shelf, overlapped, poVars>>

LinkOrdered(l, row, n) == [row EXCEPT !.ordered = @ + n, !.status = "ORDERED"]

(* The status is written without looking at it again.                      *)
CommitOrder(w) ==
    LET r == req[w]
    IN /\ r.at = "read" /\ r.kind = "order"
       /\ RowsFree(RowsOf(r))
       /\ StockBy(r, 0, 1)
       /\ LinksBy(r, LinkOrdered)
       /\ po' = [po EXCEPT ![r.order].status = "ORDERED"]
       /\ Note(FreshRows(r))
       /\ Finish(w)
       /\ UNCHANGED receipts

-----------------------------------------------------------------------------
(* Receiving: receivePurchaseOrder and receivePurchaseOrderRecord.         *)

CheckReceive(w, o, qty) ==
    /\ req[w] = Idle
    /\ po[o].status \in Open
    /\ \E s \in Slots : qty[s] > 0
    /\ \A s \in Slots : qty[s] > 0 => Present(po[o].lines[s])
    /\ req' = [req EXCEPT ![w] = [at |-> "receiving", order |-> o, units |-> qty]]
    /\ UNCHANGED <<Shelf, overlapped, poVars>>

(* Faulty variant: compared with what was ordered, not with what remains.  *)
ExceedsOrdered(o, qty) == \E s \in Slots : qty[s] > po[o].lines[s].ordered

Exceeds(o, qty) == \E s \in Slots : qty[s] > Remaining(po[o].lines[s])

(* The transaction reads the lines, not the status.                        *)
ReadForReceive(w) ==
    /\ req[w].at = "receiving"
    /\ IF Exceeds(req[w].order, req[w].units)
         THEN Finish(w)
         ELSE HaveRead(w, "receive", po[req[w].order], req[w].units)
    /\ UNCHANGED <<Shelf, overlapped, poVars>>

Received(r, s) == r.seen.lines[s].received + r.units[s]

(* With its own lines written and locked, it reads all lines of the order  *)
(* and looks whether everything has arrived.                               *)
CountReceived(w) ==
    LET r == req[w]
        now == po[r.order].lines
        arrived(s) == IF s \in TouchedSlots(r) THEN Received(r, s) ELSE now[s].received
    IN /\ r.at = "read" /\ r.kind = "receive"
       /\ RowsFree(RowsOf(r))
       /\ req' = [req EXCEPT ![w] = [r EXCEPT !.at = "counted", !.rows = RowsOf(r),
                                        !.all = \A s \in Slots : arrived(s) >= now[s].ordered]]
       /\ UNCHANGED <<Shelf, overlapped, poVars>>

(* Faulty variant: a receipt that completes the order leaves it open.      *)
ReceiptStatusPartial(all) == "PARTIALLY_RECEIVED"

ReceiptStatus(all) == IF all THEN "RECEIVED" ELSE "PARTIALLY_RECEIVED"

(* Faulty variant: what arrives is not put on the shelf.                   *)
ReceiptMovesNoStock(r) == StockBy(r, 0, -1)

ReceiptMoves(r) == StockBy(r, 1, -1)

LinkReceived(l, row, n) ==
    [row EXCEPT !.received = @ + n,
                !.status = IF row.received + n >= row.ordered THEN "RECEIVED"
                           ELSE "PARTIALLY_RECEIVED"]

CommitReceive(w) ==
    LET r == req[w]
    IN /\ r.at = "counted"
       /\ ReceiptMoves(r)
       /\ LinksBy(r, LinkReceived)
       /\ po' = [po EXCEPT
            ![r.order].status = ReceiptStatus(r.all),
            ![r.order].lines = [s \in Slots |->
                IF s \in TouchedSlots(r) THEN [@[s] EXCEPT !.received = Received(r, s)]
                                         ELSE @[s]]]
       /\ receipts' = [receipts EXCEPT ![r.order] = [s \in Slots |-> @[s] + r.units[s]]]
       /\ Note(FreshRows(r) /\ po[r.order].status \in Open)
       /\ Finish(w)

-----------------------------------------------------------------------------
(* Cancelling: cancelPurchaseOrder and cancelPurchaseOrderRecord.          *)

CheckCancel(w, o) ==
    /\ req[w] = Idle
    /\ po[o].status \in Open
    /\ req' = [req EXCEPT ![w] = [at |-> "cancelling", order |-> o, seen |-> po[o]]]
    /\ UNCHANGED <<Shelf, overlapped, poVars>>

(* Lines of which nothing remains are skipped.                             *)
Outstanding(lines) ==
    [s \in Slots |-> IF Remaining(lines[s]) > 0 THEN Remaining(lines[s]) ELSE 0]

ReadForCancel(w) ==
    /\ req[w].at = "cancelling"
    /\ HaveRead(w, "cancel", req[w].seen, Outstanding(req[w].seen.lines))
    /\ UNCHANGED <<Shelf, overlapped, poVars>>

(* Faulty variant: the linked line keeps waiting for the cancelled units.  *)
LinkCancelledKept(l, row, n) == [row EXCEPT !.status = "BACKORDERED"]

LinkCancelled(l, row, n) ==
    [row EXCEPT !.ordered = IF @ > n THEN @ - n ELSE 0,
                !.status = IF row.received >= Required[l] THEN "RECEIVED"
                           ELSE IF row.received > 0 THEN "BACKORDERED" ELSE "TO_BE_ORDERED"]

(* Only the status read first is compared.                                 *)
CommitCancel(w) ==
    LET r == req[w]
    IN /\ r.at = "read" /\ r.kind = "cancel"
       /\ RowsFree(RowsOf(r))
       /\ StockBy(r, 0, -1)
       /\ LinksBy(r, LinkCancelled)
       /\ po' = [po EXCEPT ![r.order].status = "CANCELLED"]
       /\ Note(FreshRows(r))
       /\ Finish(w)
       /\ UNCHANGED receipts

=============================================================================
