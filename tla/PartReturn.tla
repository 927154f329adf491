----------------------------- MODULE PartReturn -----------------------------
(***************************************************************************)
(* Returns of parts to a vendor or to the shelf (src/src/modules/          *)
(* part-returns).  Crediting a return and closing one to inventory compare *)
(* the status in the update; editing, shipping, closing a vendor return    *)
(* and archiving check what the service has read and write without         *)
(* comparing.                                                              *)
(*                                                                         *)
(* Seven return types are two here: those that go back on the shelf and    *)
(* those that go to a vendor, which must name one.  Left out: the purchase *)
(* order and repair order a return may name, and the amounts of fee and    *)
(* credit.                                                                 *)
(***************************************************************************)
EXTENDS Shelf, FiniteSets

CONSTANTS Returns,       \* identities of part returns
          EditInputs,    \* the edits a user may enter
          MaxReturned    \* largest quantity of one

(* What an edit may set; Keep and 0 leave a column as it is.               *)
Keep == "keep"

Edits == [type : {"INVENTORY", "VENDOR", Keep}, vendor : {TRUE, FALSE},
          keepVendor : BOOLEAN, qty : 0..MaxReturned]

ASSUME PartReturnAssumption ==
    /\ IsFiniteSet(Returns)
    /\ MaxReturned \in Nat \ {0}
    /\ EditInputs \subseteq Edits

VARIABLES
    ret,       \* the return rows
    restocks   \* RETURN movements of each return: how often, how much

retVars == <<ret, restocks>>

ReturnTypes == {"INVENTORY", "VENDOR"}

isInventoryReturnType(type) == type = "INVENTORY"

HasVendorIfRequired(row) == isInventoryReturnType(row.type) \/ row.vendor

NoReturn == [status |-> "ABSENT", type |-> "VENDOR", vendor |-> FALSE,
             part |-> None, qty |-> 1, credit |-> "PENDING", active |-> TRUE]

ReturnRows == [status : {"ABSENT", "PENDING", "SHIPPED", "CREDITED", "CLOSED"},
               type : ReturnTypes, vendor : BOOLEAN, part : Parts \cup {None}, qty : 1..MaxReturned,
               credit : {"PENDING", "RECEIVED"}, active : BOOLEAN]

RetRequests ==
    [at : {"amending"}, ret : Returns, edit : EditInputs] \cup
    [at : {"shipping", "closingVendor", "archiving"}, ret : Returns] \cup
    [at : {"crediting"}, ret : Returns, credit : {"PENDING", "RECEIVED"}] \cup
    [at : {"closing"}, ret : Returns, qty : 1..MaxReturned] \cup
    [at : {"claimed"}, ret : Returns, qty : 1..MaxReturned,
     shelf : [onHand : [Parts -> Int], onOrder : [Parts -> Int]], rows : SUBSET Returns]

RetTypeOK ==
    /\ ret \in [Returns -> ReturnRows]
    /\ restocks \in [Returns -> [times : Nat, qty : Nat]]

RetInit ==
    /\ ret = [r \in Returns |-> NoReturn]
    /\ restocks = [r \in Returns |-> [times |-> 0, qty |-> 0]]

-----------------------------------------------------------------------------
CreateReturn(r, type, vendor, part, qty) ==
    LET row == [NoReturn EXCEPT !.status = "PENDING", !.type = type, !.vendor = vendor,
                                !.part = part, !.qty = qty]
    IN /\ ret[r].status = "ABSENT"
       /\ HasVendorIfRequired(row)
       /\ ret' = [ret EXCEPT ![r] = row]
       /\ UNCHANGED <<Shelf, overlapped, req, restocks>>

(* The service's check, on the row it has read.                            *)
Check(w, r, status, record) ==
    /\ req[w] = Idle
    /\ ret[r].status = status
    /\ req' = [req EXCEPT ![w] = record]
    /\ UNCHANGED <<Shelf, overlapped, retVars>>

(* A write that compares nothing; it waits for a locked row.  It was late  *)
(* if the row no longer has the status checked.                            *)
WriteReturn(w, at, checked, row) ==
    LET r == req[w].ret
    IN /\ req[w].at = at
       /\ RowsFree({r})
       /\ ret' = [ret EXCEPT ![r] = row]
       /\ Note(ret[r].status = checked)
       /\ Finish(w)
       /\ UNCHANGED <<Shelf, restocks>>

Edited(row, edit) ==
    [row EXCEPT !.type = IF edit.type = Keep THEN @ ELSE edit.type,
                !.vendor = IF edit.keepVendor THEN @ ELSE edit.vendor,
                !.qty = IF edit.qty = 0 THEN @ ELSE edit.qty]

CheckUpdate(w, r, edit) ==
    /\ HasVendorIfRequired(Edited(ret[r], edit))
    /\ Check(w, r, "PENDING", [at |-> "amending", ret |-> r, edit |-> edit])

UpdateReturn(w) ==
    WriteReturn(w, "amending", "PENDING", Edited(ret[req[w].ret], req[w].edit))

CheckShip(w, r) ==
    /\ ~isInventoryReturnType(ret[r].type) /\ ret[r].vendor
    /\ Check(w, r, "PENDING", [at |-> "shipping", ret |-> r])

ShipReturn(w) ==
    WriteReturn(w, "shipping", "PENDING", [ret[req[w].ret] EXCEPT !.status = "SHIPPED"])

-----------------------------------------------------------------------------
(* Crediting compares the status in its update.                            *)
CheckCredit(w, r, credit) ==
    /\ ~isInventoryReturnType(ret[r].type)
    /\ Check(w, r, "SHIPPED", [at |-> "crediting", ret |-> r, credit |-> credit])

RecordCredit(w) ==
    LET r == req[w].ret
    IN /\ req[w].at = "crediting"
       /\ RowsFree({r})
       /\ ret' = IF ret[r].status = "SHIPPED"
                   THEN [ret EXCEPT ![r].credit = req[w].credit,
                                    ![r].status = IF req[w].credit = "RECEIVED"
                                                    THEN "CREDITED" ELSE @]
                   ELSE ret
       /\ Finish(w)
       /\ UNCHANGED <<Shelf, overlapped, restocks>>

-----------------------------------------------------------------------------
(* Closing: to a vendor, or to inventory, which puts the parts back.       *)

CheckCloseVendor(w, r) ==
    /\ ~isInventoryReturnType(ret[r].type)
    /\ Check(w, r, "CREDITED", [at |-> "closingVendor", ret |-> r])

CloseVendor(w) ==
    WriteReturn(w, "closingVendor", "CREDITED", [ret[req[w].ret] EXCEPT !.status = "CLOSED"])

CheckClose(w, r) ==
    /\ isInventoryReturnType(ret[r].type)
    /\ Check(w, r, "PENDING", [at |-> "closing", ret |-> r, qty |-> ret[r].qty])

(* Faulty variant: the claim does not compare the status.                  *)
StillPendingAlways(r) == ret[r].status # "ABSENT"

StillPending(r) == ret[r].status = "PENDING"

(* The claim compares the status and locks the row; then the part is read. *)
ClaimClose(w) ==
    LET r == req[w].ret
    IN /\ req[w].at = "closing"
       /\ RowsFree({r})
       /\ IF StillPending(r)
            THEN req' = [req EXCEPT ![w] = [at |-> "claimed", ret |-> r, qty |-> req[w].qty,
                                            shelf |-> ReadShelf, rows |-> {r}]]
            ELSE Finish(w)
       /\ UNCHANGED <<Shelf, overlapped, retVars>>

CommitClose(w) ==
    LET c == req[w]
        touched == {ret[c.ret].part}
    IN /\ c.at = "claimed"
       /\ RowsFree(touched)
       /\ ret' = [ret EXCEPT ![c.ret].status = "CLOSED"]
       /\ restocks' = [restocks EXCEPT ![c.ret].times = @ + 1, ![c.ret].qty = @ + c.qty]
       /\ MoveStock(c.shelf, touched, [p \in Parts |-> c.qty], [p \in Parts |-> 0])
       /\ Note(ShelfUnchanged(c.shelf, touched) /\ ret[c.ret].qty = c.qty)
       /\ Finish(w)

-----------------------------------------------------------------------------
CheckArchive(w, r) ==
    /\ ret[r].active
    /\ Check(w, r, "CLOSED", [at |-> "archiving", ret |-> r])

Archive(w) ==
    WriteReturn(w, "archiving", "CLOSED", [ret[req[w].ret] EXCEPT !.active = FALSE])
=============================================================================
