------------------------------ MODULE PartStock ------------------------------
(***************************************************************************)
(* Inventory parts (src/src/modules/parts) and the part lines of repair    *)
(* orders that reserve, issue and install them                             *)
(* (src/src/modules/repair-orders/repair-order-part.*.ts).                 *)
(*                                                                         *)
(* Every handler checks quantities its service has read, outside any       *)
(* transaction.  The transaction reads the part again and stores sums      *)
(* (applyInventoryMutationWithTransaction); the quantities of a line are   *)
(* stored as sums over what the service had read.  So a request is three   *)
(* steps: the service's check, the transaction's read, and its writes,     *)
(* which are one step because they start with the row lock of the part.    *)
(*                                                                         *)
(* Counter sales write the same columns, looking at qtyOnHand alone; their *)
(* own rows and money are in module PosSale.                               *)
(*                                                                         *)
(* Abstracted: qtyOnOrder and the purchase order behind a receipt, who did *)
(* what, notes, prices, and each ledger row, kept as running sums.         *)
(***************************************************************************)
EXTENDS Stockroom, Integers, Functions, FiniteSets

CONSTANTS PartLines,     \* identities of repair order part lines
          MaxAmount,     \* bound on the quantity of one request and of a line
          MaxOnHand,     \* bound on what a part is filled up to
          MaxPulled,     \* bound on what is pulled and issued for a line
          MaxClaimed,    \* bound on what new lines say is allocated already
          NewLines,      \* part lines as a client may create them
          InitialAllocated  \* qtyAllocated the parts were created with

AllLineStatuses ==
    {"NEEDS_REVIEW", "AVAILABLE", "ALLOCATED", "TO_BE_ORDERED", "ORDERED",
     "PARTIALLY_RECEIVED", "BACKORDERED", "RECEIVED", "PULLED", "STAGED",
     "ISSUED", "INSTALLED", "WAIVED", "CANCELLED"}

ASSUME PartStockAssumption ==
    /\ IsFiniteSet(PartLines)
    /\ MaxAmount \in Nat /\ MaxOnHand \in Nat /\ MaxClaimed \in Nat
    /\ MaxPulled \in Nat
    /\ NewLines \subseteq
         [status : AllLineStatuses, part : Parts \cup {None}, required : Nat,
          allocated : Nat, received : Nat, pulled : Nat, installed : Nat]
    /\ InitialAllocated \in [Parts -> Nat]
    /\ None \notin PartLines

VARIABLES
    stock,    \* qtyOnHand and qtyAllocated of each part
    ledger,   \* sums over each part's PartInventoryTransaction rows
    line,     \* the part lines; status "ABSENT" is no row
    claimed,  \* units lines were created with as already allocated, by part
    stale     \* parts written by a request whose reads were out of date

stockVars == <<stock, ledger, line, claimed, stale, req>>

NoPartLine == [status |-> "ABSENT", part |-> None, required |-> 0, allocated |-> 0,
               received |-> 0, pulled |-> 0, installed |-> 0]

PartKinds == {"adjust", "mutate", "sale", "count"}
OrderKinds == {"allocate", "deallocate", "issue"}
LineKinds == {"pull", "install", "stage", "toBeOrdered", "delete", "cancel"}

(* A request holds the deltas of its mutation, or the counted quantity;    *)
(* the quantities and status its line will get; and whether all it has     *)
(* read is still so.                                                       *)
Resting == [at |-> "idle", kind |-> "none", part |-> None, line |-> None,
            onHand |-> 0, allocated |-> 0, read |-> [onHand |-> 0, allocated |-> 0],
            after |-> [allocated |-> 0, pulled |-> 0, installed |-> 0,
                       status |-> "ABSENT"],
            fresh |-> TRUE]

StockRows == [onHand : Int, allocated : Int]

LineRows == [status : AllLineStatuses \cup {"ABSENT"}, part : Parts \cup {None},
             required : Nat, allocated : Int, received : Nat, pulled : Int,
             installed : Int]

StockRequests ==
    [at : {"idle", "checked", "read"},
     kind : {"none"} \cup PartKinds \cup OrderKinds \cup LineKinds,
     part : Parts \cup {None}, line : PartLines \cup {None},
     onHand : Int, allocated : Int, read : StockRows,
     after : [allocated : Int, pulled : Int, installed : Int,
              status : AllLineStatuses \cup {"ABSENT"}],
     fresh : BOOLEAN]

StockTypeOK ==
    /\ stock \in [Parts -> StockRows]
    /\ ledger \in [Parts -> [onHand : Int, direct : Int, orders : Int]]
    /\ line \in [PartLines -> LineRows]
    /\ claimed \in [Parts -> Nat]
    /\ stale \subseteq Parts
    /\ req \in [Workers -> StockRequests]

(* createPart stores any quantities, more reserved than on hand included.  *)
StockInit ==
    /\ stock = [p \in Parts |-> [onHand |-> InitialOnHand[p],
                                 allocated |-> InitialAllocated[p]]]
    /\ ledger = [p \in Parts |-> [onHand |-> 0, direct |-> 0, orders |-> 0]]
    /\ line = [l \in PartLines |-> NoPartLine]
    /\ claimed = [p \in Parts |-> 0]
    /\ stale = {}
    /\ req = [w \in Workers |-> Resting]

-----------------------------------------------------------------------------
Amounts == 1..MaxAmount

Listed(l) == line[l].status # "ABSENT"

StockAndLedger == <<stock, ledger>>
Notes == <<claimed, stale>>

Begin(w, request) ==
    /\ req' = [req EXCEPT ![w] = request]
    /\ UNCHANGED <<StockAndLedger, line, Notes>>

(* The end of a request that has written the stock of part p and the       *)
(* quantities of line l: what others have read of them is out of date.     *)
Complete(w, p, l) ==
    req' = [v \in Workers |->
              IF v = w THEN Resting
              ELSE IF \/ p # None /\ req[v].part = p
                      \/ l # None /\ req[v].line = l
                THEN [req[v] EXCEPT !.fresh = FALSE]
                ELSE req[v]]

MarkStale(r) ==
    stale' = IF r.part # None /\ ~r.fresh THEN stale \cup {r.part} ELSE stale

-----------------------------------------------------------------------------
(* The inventory endpoints of a part.                                      *)

(* Faulty variant: reserved stock counted as available.                    *)
AvailableOnHand(s) == s.onHand

Available(s) == s.onHand - s.allocated

Ask(w, kind, p, onHand, allocated) ==
    /\ req[w].at = "idle"
    /\ Begin(w, [Resting EXCEPT !.at = "checked", !.kind = kind, !.part = p,
                    !.onHand = onHand, !.allocated = allocated])

AdjustInventory(w) ==
    \E p \in Parts, q \in (-MaxAmount)..MaxAmount \ {0} :
        stock[p].onHand + q >= 0 /\ Ask(w, "adjust", p, q, 0)

ReceiveInventory(w) ==
    \E p \in Parts, q \in Amounts : Ask(w, "mutate", p, q, 0)

AllocateInventory(w) ==
    \E p \in Parts, q \in Amounts :
        q <= Available(stock[p]) /\ Ask(w, "mutate", p, 0, q)

DeallocateInventory(w) ==
    \E p \in Parts, q \in Amounts :
        q <= stock[p].allocated /\ Ask(w, "mutate", p, 0, -q)

IssueInventory(w) ==
    \E p \in Parts, q \in Amounts :
        /\ q <= stock[p].allocated /\ q <= stock[p].onHand
        /\ Ask(w, "mutate", p, -q, -q)

ReturnInventory(w) ==
    \E p \in Parts, q \in Amounts : Ask(w, "mutate", p, q, 0)

DamageInventory(w) ==
    \E p \in Parts, q \in Amounts :
        q <= Available(stock[p]) /\ Ask(w, "mutate", p, -q, 0)

CycleCountInventory(w) ==
    \E p \in Parts, q \in 0..MaxOnHand :
        q >= stock[p].allocated /\ Ask(w, "count", p, q, 0)

(* A counter sale of a part, from the check its transaction repeats.  What *)
(* a refund puts back is a mutation like ReturnInventory.                  *)
SellPart(w) ==
    \E p \in Parts, q \in Amounts :
        q <= stock[p].onHand /\ Ask(w, "sale", p, -q, 0)

Selling(v) == req[v].kind = "sale" /\ req[v].at = "read"

(* findUnique of the part, the first statement of every transaction that   *)
(* moves stock; a sale has taken the lock of its organization's sequence   *)
(* row by then, and keeps it.                                              *)
ReadPart(w) ==
    /\ req[w].at = "checked" /\ req[w].part # None
    /\ req[w].kind \in PartKinds \cup OrderKinds
    /\ req[w].kind = "sale" => ~\E v \in Workers : Selling(v)
    /\ Begin(w, [req[w] EXCEPT !.at = "read", !.read = stock[req[w].part]])

(* The columns and the ledger row of applyInventoryMutationWithTransaction.*)
MutatePart(r) ==
    LET after == [onHand |-> r.read.onHand + r.onHand,
                  allocated |-> r.read.allocated + r.allocated]
    IN /\ after.onHand <= MaxOnHand
       /\ stock' = [stock EXCEPT ![r.part] = after]
       /\ ledger' = [ledger EXCEPT
            ![r.part].onHand = @ + r.onHand,
            ![r.part].direct = @ + (IF r.line = None THEN r.allocated ELSE 0),
            ![r.part].orders = @ + (IF r.line # None THEN r.allocated ELSE 0)]

(* A sale that would leave less than nothing throws.                       *)
Oversells(r) == r.kind = "sale" /\ r.read.onHand + r.onHand < 0

CommitMutation(w) ==
    LET r == req[w]
    IN /\ r.at = "read" /\ r.kind \in {"adjust", "mutate", "sale"}
       /\ ~Oversells(r)
       /\ MutatePart(r)
       /\ MarkStale(r)
       /\ Complete(w, r.part, None)
       /\ UNCHANGED <<line, claimed>>

RollBackSale(w) ==
    /\ req[w].at = "read" /\ Oversells(req[w])
    /\ Begin(w, Resting)

(* Faulty variant: the difference of a count the wrong way round.          *)
CountedDifferenceReversed(r) == r.read.onHand - r.onHand

CountedDifference(r) == r.onHand - r.read.onHand

(* A count writes qtyOnHand alone.                                         *)
CommitCount(w) ==
    LET r == req[w]
    IN /\ r.at = "read" /\ r.kind = "count"
       /\ stock' = [stock EXCEPT ![r.part].onHand = r.onHand]
       /\ ledger' = [ledger EXCEPT ![r.part].onHand = @ + CountedDifference(r)]
       /\ MarkStale(r)
       /\ Complete(w, r.part, None)
       /\ UNCHANGED <<line, claimed>>

-----------------------------------------------------------------------------
(* Part lines that move stock: what the service checks, and what it has    *)
(* decided the line will hold before the transaction starts.               *)

AskLine(w, l, request) ==
    /\ req[w].at = "idle"
    /\ Listed(l)
    /\ Begin(w, [request EXCEPT !.at = "checked", !.line = l])

AllocateLine(w) ==
    \E l \in PartLines, q \in Amounts :
        LET row == line[l]
        IN /\ q <= row.required - row.allocated
           /\ IF row.part # None THEN q <= Available(stock[row.part])
                                 ELSE q <= row.received - row.allocated
           /\ AskLine(w, l, [Resting EXCEPT !.kind = "allocate", !.part = row.part,
                               !.allocated = q,
                               !.after.allocated = row.allocated + q,
                               !.after.status = "ALLOCATED"])

ReleasedStatus(left) == IF left > 0 THEN "ALLOCATED" ELSE "AVAILABLE"

DeallocateLine(w) ==
    \E l \in PartLines, q \in Amounts :
        LET row == line[l]
        IN /\ row.part # None
           /\ q <= row.allocated
           /\ AskLine(w, l, [Resting EXCEPT !.kind = "deallocate", !.part = row.part,
                               !.allocated = -q,
                               !.after.allocated = row.allocated - q,
                               !.after.status = ReleasedStatus(row.allocated - q)])

(* Faulty variant: the part keeps the reservation of what is issued.       *)
ReservationOfIssuedKept(q) == 0 * q

ReservationOfIssued(q) == -q

IssueLine(w) ==
    \E l \in PartLines, q \in Amounts :
        LET row == line[l]
        IN /\ row.part # None
           /\ q <= row.allocated
           /\ row.pulled + q <= MaxPulled
           /\ AskLine(w, l, [Resting EXCEPT !.kind = "issue", !.part = row.part,
                               !.onHand = -q, !.allocated = ReservationOfIssued(q),
                               !.after.allocated = row.allocated - q,
                               !.after.pulled = row.pulled + q,
                               !.after.status = "ISSUED"])

(* The write of the line that follows the mutation of its part.            *)
CommitLineStock(w, kind, row) ==
    LET r == req[w]
    IN /\ r.at = "read" /\ r.kind = kind /\ Listed(r.line)
       /\ MutatePart(r)
       /\ line' = [line EXCEPT ![r.line] = row]
       /\ MarkStale(r)
       /\ Complete(w, r.part, r.line)
       /\ UNCHANGED claimed

Released(r) == [line[r.line] EXCEPT !.allocated = r.after.allocated,
                                    !.status = r.after.status]

CommitAllocate(w) ==
    req[w].line # None /\ CommitLineStock(w, "allocate", Released(req[w]))

CommitDeallocate(w) ==
    req[w].line # None /\ CommitLineStock(w, "deallocate", Released(req[w]))

CommitIssue(w) ==
    /\ req[w].line # None
    /\ CommitLineStock(w, "issue",
                       [Released(req[w]) EXCEPT !.pulled = req[w].after.pulled])

(* A special-order line holds received material that is not inventory.     *)
CommitSpecialOrder(w) ==
    LET r == req[w]
    IN /\ r.at = "checked" /\ r.kind = "allocate" /\ r.part = None
       /\ Listed(r.line)
       /\ line' = [line EXCEPT ![r.line] = Released(r)]
       /\ Complete(w, None, r.line)
       /\ UNCHANGED <<StockAndLedger, Notes>>

-----------------------------------------------------------------------------
(* Part lines: the handlers that leave stock alone.                        *)

(* approvedQty, which may stand in for the required quantity, is left out. *)
FullyHeld(row) ==
    row.required > 0 /\ row.allocated >= row.required /\ row.pulled >= row.required

NothingHeld(row) == row.allocated <= 0 /\ row.pulled <= 0 /\ row.installed <= 0

(* The quantity of a pull is kept in its onHand field until it reads again.*)
PullLine(w) ==
    \E l \in PartLines, q \in Amounts :
        /\ q <= line[l].allocated - line[l].pulled
        /\ line[l].pulled + q <= MaxPulled
        /\ AskLine(w, l, [Resting EXCEPT !.kind = "pull", !.part = line[l].part,
                            !.onHand = q])

(* pullRepairOrderPartRecord reads the line again in its transaction.      *)
ReadLine(w) ==
    LET r == req[w]
        row == line[r.line]
        pulled == row.pulled + r.onHand
    IN /\ r.at = "checked" /\ r.kind = "pull" /\ Listed(r.line)
       /\ Begin(w, [r EXCEPT !.at = "read", !.after.pulled = pulled,
                      !.after.status = IF pulled >= row.allocated THEN "PULLED"
                                       ELSE row.status])

CommitPull(w) ==
    LET r == req[w]
    IN /\ r.at = "read" /\ r.kind = "pull" /\ Listed(r.line)
       /\ line' = [line EXCEPT ![r.line].pulled = r.after.pulled,
                               ![r.line].status = r.after.status]
       /\ Complete(w, None, r.line)
       /\ UNCHANGED <<StockAndLedger, Notes>>

(* Faulty variant: installation checked against what is required.          *)
InstallableRequired(row) == row.required - row.installed

Installable(row) == row.pulled - row.installed

InstallLine(w) ==
    \E l \in PartLines, q \in Amounts :
        LET installed == line[l].installed + q
        IN /\ q <= Installable(line[l])
           /\ AskLine(w, l, [Resting EXCEPT !.kind = "install", !.part = line[l].part,
                               !.after.installed = installed,
                               !.after.status = IF installed >= line[l].required
                                                  THEN "INSTALLED" ELSE "ISSUED"])

CommitInstall(w) ==
    LET r == req[w]
    IN /\ r.at = "checked" /\ r.kind = "install" /\ Listed(r.line)
       /\ line' = [line EXCEPT ![r.line].installed = r.after.installed,
                               ![r.line].status = r.after.status]
       /\ Complete(w, None, r.line)
       /\ UNCHANGED <<StockAndLedger, Notes>>

StageLine(w) ==
    \E l \in PartLines :
        /\ line[l].status # "STAGED" /\ FullyHeld(line[l])
        /\ AskLine(w, l, [Resting EXCEPT !.kind = "stage"])

MarkToBeOrdered(w) ==
    \E l \in PartLines :
        NothingHeld(line[l]) /\ AskLine(w, l, [Resting EXCEPT !.kind = "toBeOrdered"])

Cancellable(l) == line[l].status \in {"NEEDS_REVIEW", "TO_BE_ORDERED"}

CancelLine(w) ==
    \E l \in PartLines :
        /\ Cancellable(l) /\ NothingHeld(line[l]) /\ line[l].received <= 0
        /\ AskLine(w, l, [Resting EXCEPT !.kind = "cancel"])

CommitStatus(w, kind, newStatus) ==
    LET r == req[w]
    IN /\ r.at = "checked" /\ r.kind = kind /\ Listed(r.line)
       /\ line' = [line EXCEPT ![r.line].status = newStatus]
       /\ Complete(w, None, None)
       /\ UNCHANGED <<StockAndLedger, Notes>>

CommitStage(w) == CommitStatus(w, "stage", "STAGED")
CommitToBeOrdered(w) == CommitStatus(w, "toBeOrdered", "TO_BE_ORDERED")

(* The update names the statuses it may cancel.                            *)
CommitCancelLine(w) ==
    /\ req[w].line # None
    /\ CommitStatus(w, "cancel", IF Cancellable(req[w].line) THEN "CANCELLED"
                                 ELSE line[req[w].line].status)

DeleteLine(w) ==
    \E l \in PartLines :
        NothingHeld(line[l]) /\ AskLine(w, l, [Resting EXCEPT !.kind = "delete",
                                                  !.part = line[l].part])

CommitDelete(w) ==
    LET r == req[w]
    IN /\ r.at = "checked" /\ r.kind = "delete" /\ Listed(r.line)
       /\ line' = [line EXCEPT ![r.line] = NoPartLine]
       /\ MarkStale(r)
       /\ Complete(w, None, r.line)
       /\ UNCHANGED <<StockAndLedger, claimed>>

(* The line was deleted after the service had read it: nothing is written. *)
LineGone(w) ==
    /\ req[w].line # None /\ ~Listed(req[w].line)
    /\ Begin(w, Resting)

-----------------------------------------------------------------------------
(* createRepairOrderPartLine stores whatever quantities its input has: the *)
(* schema asks of each that it is not negative, and nothing of them        *)
(* together.                                                               *)
AddLine(l) ==
    /\ ~Listed(l) /\ \A w \in Workers : req[w].line # l
    /\ \E row \in NewLines :
          /\ row.part # None => claimed[row.part] + row.allocated <= MaxClaimed
          /\ line' = [line EXCEPT ![l] = row]
          /\ claimed' = IF row.part = None THEN claimed
                        ELSE [claimed EXCEPT ![row.part] = @ + row.allocated]
    /\ UNCHANGED <<StockAndLedger, stale, req>>

(* A generic edit may change what is required, and no other quantity.      *)
PatchLine(l) ==
    /\ Listed(l)
    /\ \E required \in Amounts : line' = [line EXCEPT ![l].required = required]
    /\ UNCHANGED <<StockAndLedger, Notes, req>>

-----------------------------------------------------------------------------
PartRequest(w) ==
    \/ AdjustInventory(w) \/ ReceiveInventory(w) \/ AllocateInventory(w)
    \/ DeallocateInventory(w) \/ IssueInventory(w) \/ ReturnInventory(w)
    \/ DamageInventory(w) \/ CycleCountInventory(w) \/ SellPart(w)
    \/ ReadPart(w) \/ CommitMutation(w) \/ CommitCount(w) \/ RollBackSale(w)

LineRequest(w) ==
    \/ AllocateLine(w) \/ DeallocateLine(w) \/ IssueLine(w) \/ PullLine(w)
    \/ InstallLine(w) \/ StageLine(w) \/ MarkToBeOrdered(w) \/ CancelLine(w)
    \/ DeleteLine(w)
    \/ ReadLine(w)
    \/ CommitAllocate(w) \/ CommitDeallocate(w) \/ CommitIssue(w)
    \/ CommitSpecialOrder(w) \/ CommitPull(w) \/ CommitInstall(w) \/ CommitStage(w)
    \/ CommitToBeOrdered(w) \/ CommitCancelLine(w) \/ CommitDelete(w) \/ LineGone(w)

StockNext ==
    \/ \E w \in Workers : PartRequest(w) \/ LineRequest(w)
    \/ \E l \in PartLines : AddLine(l) \/ PatchLine(l)

StockSpec == StockInit /\ [][StockNext]_stockVars

-----------------------------------------------------------------------------
(* Unless a request wrote over a part it had not read, the inventory ledger *)
(* explains the stock from what the part was created with: counts,          *)
(* adjustments, receipts, sales, reservations and issues, from the part or  *)
(* from a repair order, leave nothing out.                                  *)
LedgerAccountsForStock ==
    \A p \in Parts \ stale :
        /\ stock[p].onHand = InitialOnHand[p] + ledger[p].onHand
        /\ stock[p].allocated = InitialAllocated[p] + ledger[p].direct + ledger[p].orders

AllocatedTo(p) ==
    FoldFunction(+, 0, [l \in PartLines |->
                          IF line[l].part = p THEN line[l].allocated ELSE 0])

(* Unless reads went stale, what a part says is reserved is what it was     *)
(* created with, what was reserved on the part, and what its repair order   *)
(* lines hold: no sequence of allocating, issuing, cancelling and deleting  *)
(* leaks a reservation.                                                     *)
ReservationsBalance ==
    \A p \in Parts \ stale :
        stock[p].allocated + claimed[p]
          = InitialAllocated[p] + ledger[p].direct + AllocatedTo(p)

(* The request of worker w is the one this step ends.                       *)
Ends(w) == req[w].at # "idle" /\ req'[w].at = "idle"

Shortage(s) == s.allocated - s.onHand

(* Reserved stock is taken, or more is reserved than there is, by nobody    *)
(* but a counter sale or an adjustment downwards, which look at qtyOnHand   *)
(* alone (sale.service.ts:87-89), and requests that had been overtaken:     *)
(* "Cannot damage or write off inventory that is allocated"                 *)
(* (part-inventory.service.ts:501-512) holds of counts, reservations and    *)
(* issues too, from the part or from a repair order.                        *)
OnlySalesAndAdjustmentsTakeReserved ==
    [][ \A p \in Parts :
          Shortage(stock'[p]) > 0 /\ Shortage(stock'[p]) > Shortage(stock[p])
            => \E w \in Workers :
                  /\ Ends(w) /\ req[w].part = p
                  /\ \/ ~req[w].fresh
                     \/ req[w].kind \in {"sale", "adjust"} /\ req[w].onHand < 0
      ]_stockVars

Overtops(l) ==
    /\ line'[l].installed > line'[l].pulled
    /\ line'[l].installed > line[l].installed \/ line'[l].pulled < line[l].pulled

(* No request leaves more of a line installed than was pulled or issued for *)
(* it, but one that had been overtaken: installing looks at pulledQty, and  *)
(* neither pulling nor issuing lowers it.  A line may have been created     *)
(* with more installed than pulled, and then nothing is installed for it.   *)
InstalledWithinPulled ==
    [][ \A l \in PartLines : Listed(l) /\ Overtops(l)
          => \E w \in Workers : Ends(w) /\ req[w].line = l /\ ~req[w].fresh
      ]_stockVars

(* "Allocation quantity exceeds the remaining required quantity."           *)
(* (repair-order-part.service.ts:145-152): a unit that is installed is no   *)
(* longer required.                                                         *)
AllocatesOnlyWhatIsRequired ==
    [][ \A l \in PartLines : Listed(l) /\ line'[l].allocated > line[l].allocated
          => line'[l].allocated + line[l].installed <= line[l].required ]_stockVars
=============================================================================
