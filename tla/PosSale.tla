------------------------------- MODULE PosSale -------------------------------
(***************************************************************************)
(* Counter sales and their returns (src/src/modules/sales): the stock on   *)
(* hand they take and give back, and the quantity and money returned       *)
(* against each sale.                                                      *)
(*                                                                         *)
(* createPosSaleRecord and createSaleReturnRecord check what they read,    *)
(* then upsert the organization's SaleSequence row, whose row lock they    *)
(* keep until they commit: sale numbers are handed out one at a time, and  *)
(* so is everything after the upsert.  What was read before it may be out  *)
(* of date by then.  Stock is written by reading a part and storing the    *)
(* sum (applyInventoryMutationWithTransaction), which is not atomic.       *)
(*                                                                         *)
(* One sale line per part; money is in cents and rounded half up.  Only    *)
(* counter sales and returns touch stock here; the other writers of stock  *)
(* are in module PartStock.                                                *)
(***************************************************************************)
EXTENDS Stockroom, Integers, Functions, FiniteSets

CONSTANTS Sales,          \* identities of POS sale rows
          UnitPrice,      \* sell price of each part, in cents
          Discounts,      \* discounts a cashier may enter, in cents
          TaxRate,        \* percent
          MaxCart         \* largest quantity of a line

ASSUME PosSaleAssumption ==
    /\ IsFiniteSet(Parts)
    /\ UnitPrice \in [Parts -> Nat]
    /\ Discounts \subseteq Nat
    /\ TaxRate \in 0..100
    /\ MaxCart \in Nat
    /\ None \notin Workers \cup Sales

VARIABLES
    qtyOnHand,       \* committed Part.qtyOnHand
    sold,            \* units on committed POS sale lines, by part
    restocked,       \* units on committed returns to inventory, by part
    sale,            \* the POS sale rows
    holder,          \* who holds the SaleSequence row lock, if anyone
    overlappedSales  \* sales on which a return committed after its reads went stale

saleVars == <<qtyOnHand, sold, restocked, sale, holder, overlappedSales, req>>

PartQuantities == [Parts -> Nat]
Nothing == [p \in Parts |-> 0]

NoSale == [status |-> "ABSENT", qty |-> Nothing, returned |-> Nothing,
           subtotal |-> 0, discount |-> 0, total |-> 0, refundedTotal |-> 0,
           paidBack |-> 0]

(* paidBack is the sum of the totals of the sale's REFUND rows.            *)
SaleRows ==
    [status : {"ABSENT", "COMPLETED", "PARTIALLY_REFUNDED", "REFUNDED"},
     qty : PartQuantities, returned : PartQuantities, subtotal : Nat, discount : Nat,
     total : Int, refundedTotal : Int, paidBack : Int]

NoRequest ==
    [at |-> "idle", kind |-> "sale", sale |-> None, lines |-> Nothing,
     discount |-> 0, restock |-> FALSE, seen |-> NoSale, fresh |-> TRUE,
     amount |-> 0, left |-> {}, part |-> None, read |-> 0, onHand |-> Nothing]

SaleRequests ==
    [at : {"idle", "checked", "rechecked", "locked"}, kind : {"sale", "return"},
     sale : Sales \cup {None}, lines : PartQuantities, discount : Nat, restock : BOOLEAN,
     seen : SaleRows, fresh : BOOLEAN, amount : Int, left : SUBSET Parts,
     part : Parts \cup {None}, read : Int, onHand : [Parts -> Int]]

SaleTypeOK ==
    /\ qtyOnHand \in [Parts -> Int]
    /\ sold \in PartQuantities
    /\ restocked \in PartQuantities
    /\ sale \in [Sales -> SaleRows]
    /\ holder \in Workers \cup {None}
    /\ overlappedSales \subseteq Sales
    /\ req \in [Workers -> SaleRequests]

SaleInit ==
    /\ qtyOnHand = InitialOnHand
    /\ sold = Nothing
    /\ restocked = Nothing
    /\ sale = [s \in Sales |-> NoSale]
    /\ holder = None
    /\ overlappedSales = {}
    /\ req = [w \in Workers |-> NoRequest]

-----------------------------------------------------------------------------
(* Money.                                                                  *)

(* Round half up of a quotient of naturals.                                *)
Round(a, b) == (2 * a + b) \div (2 * b)

AtLeastZero(n) == IF n > 0 THEN n ELSE 0

Subtotal(q) == FoldFunction(+, 0, [p \in Parts |-> q[p] * UnitPrice[p]])

WithTax(taxable) == taxable + Round(taxable * TaxRate, 100)

(* Faulty variant: the share paid back whatever is left to refund.         *)
RefundTotalUncapped(row, q) ==
    LET gross == Subtotal(q)
        discount == IF row.subtotal > 0
                      THEN Round(gross * row.discount, row.subtotal) ELSE 0
    IN WithTax(AtLeastZero(gross - discount))

(* A return pays back its share of the discounted sale, never more than    *)
(* what the sale row says is left to refund.                               *)
RefundTotal(row, q) ==
    LET gross == Subtotal(q)
        discount == IF row.subtotal > 0
                      THEN Round(gross * row.discount, row.subtotal) ELSE 0
        share == WithTax(AtLeastZero(gross - discount))
        remaining == AtLeastZero(row.total - row.refundedTotal)
    IN IF share < remaining THEN share ELSE remaining

-----------------------------------------------------------------------------
(* Both requests.                                                          *)

Carts == [Parts -> 0..MaxCart] \ {Nothing}

EndRequest(w) == req' = [req EXCEPT ![w] = NoRequest]

Rows == <<qtyOnHand, sold, restocked, sale, overlappedSales>>

EnoughStock(lines) == \A p \in Parts : lines[p] <= qtyOnHand[p]

WithinRemaining(row, lines) ==
    \A p \in Parts : lines[p] <= AtLeastZero(row.qty[p] - row.returned[p])

(* The parts whose stock the transaction changes.                          *)
Touched(r) == {p \in Parts : r.lines[p] > 0 /\ (r.kind = "sale" \/ r.restock)}

(* Faulty variant: sale numbers taken without a row lock.                  *)
SequenceFreeAlways == holder \in Workers \cup {None}

SequenceFree == holder = None

(* The sequence upsert waits for the row lock.                             *)
LockSequence(w) ==
    /\ req[w].at = "rechecked"
    /\ SequenceFree
    /\ holder' = w
    /\ req' = [req EXCEPT ![w].at = "locked", ![w].left = Touched(req[w])]
    /\ UNCHANGED Rows

ReadStock(w) ==
    /\ req[w].at = "locked" /\ req[w].part = None
    /\ \E p \in req[w].left :
          req' = [req EXCEPT ![w].part = p, ![w].read = qtyOnHand[p]]
    /\ UNCHANGED <<Rows, holder>>

NewOnHand(w) ==
    req[w].read + (IF req[w].kind = "sale" THEN -1 ELSE 1) * req[w].lines[req[w].part]

(* Faulty variant: the resulting quantity not looked at.                   *)
RefusedByStockAlwaysFits(w) == w \notin Workers

(* A sale that would leave a negative quantity throws and is rolled back.  *)
RefusedByStock(w) == req[w].kind = "sale" /\ NewOnHand(w) < 0

WritePart(w) ==
    /\ req[w].at = "locked" /\ req[w].part # None
    /\ ~RefusedByStock(w)
    /\ req' = [req EXCEPT ![w].onHand[req[w].part] = NewOnHand(w),
                          ![w].left = @ \ {req[w].part}, ![w].part = None]
    /\ UNCHANGED <<Rows, holder>>

RollBack(w) ==
    /\ req[w].at = "locked" /\ req[w].part # None
    /\ RefusedByStock(w)
    /\ holder' = None
    /\ EndRequest(w)
    /\ UNCHANGED Rows

ReadyToCommit(w) == req[w].at = "locked" /\ req[w].left = {} /\ req[w].part = None

CommitStock(w) ==
    qtyOnHand' = [p \in Parts |-> IF p \in Touched(req[w]) THEN req[w].onHand[p]
                                   ELSE qtyOnHand[p]]

-----------------------------------------------------------------------------
(* Selling: createPosSale and createPosSaleRecord.                         *)

CheckSale(w) ==
    /\ req[w].at = "idle"
    /\ \E s \in Sales, lines \in Carts, d \in Discounts :
          /\ sale[s].status = "ABSENT" /\ \A v \in Workers : req[v].sale # s
          /\ EnoughStock(lines)
          /\ d <= Subtotal(lines)
          /\ WithTax(Subtotal(lines) - d) > 0     \* every payment is positive
          /\ req' = [req EXCEPT ![w] = [NoRequest EXCEPT !.at = "checked", !.sale = s,
                                           !.lines = lines, !.discount = d]]
    /\ UNCHANGED <<Rows, holder>>

RecheckSale(w) ==
    /\ req[w].at = "checked" /\ req[w].kind = "sale"
    /\ IF EnoughStock(req[w].lines)
         THEN req' = [req EXCEPT ![w].at = "rechecked"]
         ELSE EndRequest(w)
    /\ UNCHANGED <<Rows, holder>>

CommitSale(w) ==
    LET r == req[w]
        subtotal == Subtotal(r.lines)
    IN /\ ReadyToCommit(w) /\ r.kind = "sale"
       /\ sale' = [sale EXCEPT ![r.sale] =
                     [NoSale EXCEPT !.status = "COMPLETED", !.qty = r.lines,
                        !.subtotal = subtotal, !.discount = r.discount,
                        !.total = WithTax(subtotal - r.discount)]]
       /\ sold' = [p \in Parts |-> sold[p] + r.lines[p]]
       /\ CommitStock(w)
       /\ holder' = None
       /\ EndRequest(w)
       /\ UNCHANGED <<restocked, overlappedSales>>

-----------------------------------------------------------------------------
(* Returning: createSaleReturn and createSaleReturnRecord.                 *)

CheckReturn(w) ==
    /\ req[w].at = "idle"
    /\ \E s \in Sales, lines \in Carts, restock \in BOOLEAN :
          /\ sale[s].status # "ABSENT"
          /\ WithinRemaining(sale[s], lines)
          /\ RefundTotal(sale[s], lines) > 0
          /\ req' = [req EXCEPT ![w] =
                       [NoRequest EXCEPT !.at = "checked", !.kind = "return", !.sale = s,
                          !.lines = lines, !.restock = restock, !.seen = sale[s],
                          !.amount = RefundTotal(sale[s], lines)]]
    /\ UNCHANGED <<Rows, holder>>

(* The transaction reads the sale again, before the sequence row is locked;*)
(* the amount stays the one computed from the first read.                  *)
RecheckReturn(w) ==
    LET r == req[w]
    IN /\ r.at = "checked" /\ r.kind = "return"
       /\ IF WithinRemaining(sale[r.sale], r.lines)
            THEN req' = [req EXCEPT ![w].at = "rechecked", ![w].seen = sale[r.sale],
                                    ![w].fresh = (r.seen = sale[r.sale])]
            ELSE EndRequest(w)
       /\ UNCHANGED <<Rows, holder>>

StatusFor(refunded, total) ==
    IF refunded >= total THEN "REFUNDED"
    ELSE IF refunded > 0 THEN "PARTIALLY_REFUNDED" ELSE "COMPLETED"

(* returnedQty is incremented in the row; refundedTotal is the value read  *)
(* plus this refund.                                                       *)
CommitReturn(w) ==
    LET r == req[w]
        s == r.sale
        refunded == r.seen.refundedTotal + r.amount
    IN /\ ReadyToCommit(w) /\ r.kind = "return"
       /\ sale' = [sale EXCEPT
            ![s].returned = [p \in Parts |-> @[p] + r.lines[p]],
            ![s].refundedTotal = refunded,
            ![s].status = StatusFor(refunded, r.seen.total),
            ![s].paidBack = @ + r.amount]
       /\ restocked' = [p \in Parts |->
                          restocked[p] + (IF r.restock THEN r.lines[p] ELSE 0)]
       /\ CommitStock(w)
       /\ holder' = None
       /\ overlappedSales' = IF r.fresh /\ r.seen = sale[s] THEN overlappedSales
                             ELSE overlappedSales \cup {s}
       /\ EndRequest(w)
       /\ UNCHANGED sold

-----------------------------------------------------------------------------
SaleNext ==
    \E w \in Workers :
        \/ CheckSale(w) \/ RecheckSale(w) \/ CommitSale(w)
        \/ CheckReturn(w) \/ RecheckReturn(w) \/ CommitReturn(w)
        \/ LockSequence(w) \/ ReadStock(w) \/ WritePart(w) \/ RollBack(w)

SaleSpec == SaleInit /\ [][SaleNext]_saleVars

-----------------------------------------------------------------------------
(* No counter sale takes stock that is not there, whatever sales and        *)
(* returns overlap: "checkout must not rely only on an earlier read"        *)
(* (sale.repository.ts:175-178).                                            *)
NoOversell == \A p \in Parts : qtyOnHand[p] >= 0

(* No stock movement of a sale or a return is lost or applied twice: the    *)
(* read and the write of a part are separate statements, and only the       *)
(* sequence row lock keeps two of them apart.                               *)
StockConserved ==
    \A p \in Parts : qtyOnHand[p] = InitialOnHand[p] - sold[p] + restocked[p]

(* Unless returns of one sale overlapped, no more comes back than was sold, *)
(* the sale row agrees with its REFUND rows, and no more is paid back than  *)
(* was paid.                                                                *)
RefundsWithinSale ==
    \A s \in Sales \ overlappedSales :
        /\ \A p \in Parts : sale[s].returned[p] <= sale[s].qty[p]
        /\ sale[s].refundedTotal = sale[s].paidBack
        /\ sale[s].paidBack <= sale[s].total

(* "The requested return quantity exceeds the remaining returnable          *)
(* quantity." (sale.service.ts:490-492): no sale gets back more than it sold.*)
ReturnsWithinSold ==
    \A s \in Sales : \A p \in Parts : sale[s].returned[p] <= sale[s].qty[p]
=============================================================================
