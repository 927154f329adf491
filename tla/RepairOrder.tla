----------------------------- MODULE RepairOrder -----------------------------
(***************************************************************************)
(* The life of one repair order (src/src/modules/repair-orders): its       *)
(* status, two counts over its status history, its labor lines and the     *)
(* statuses of its part lines.                                             *)
(*                                                                         *)
(* A request is served by a worker in the steps PostgreSQL can interleave  *)
(* at READ COMMITTED: the service reads and checks, updateRepairOrderStatus*)
(* reads and checks again, and a transaction writes.  A transaction whose  *)
(* statements after its first row lock only write is one step.  A request  *)
(* whose check fails changes nothing, so only the checks that can fail     *)
(* after an earlier step of the same request are steps (they go back to    *)
(* Idle).                                                                  *)
(*                                                                         *)
(* Abstracted: money, notes, dates, people and the fields of PATCH         *)
(* /repair-orders/:id, which no guard of a status change reads; and the    *)
(* quantities behind a part line's status (module PartStock), so LineWrite *)
(* allows every status a part-line handler can leave.                      *)
(***************************************************************************)
EXTENDS Naturals

CONSTANTS Workers,          \* concurrent request handlers
          LaborLines,       \* identities of labor lines
          PartLines,        \* identities of part lines
          None,             \* no labor line
          InitialStatuses,  \* statuses the order is created with
          PartStatuses,     \* part line statuses explored, a subset of AllPartStatuses
          MaxReleases       \* bound on READY_FOR_PICKUP history rows

Statuses ==
    {"ESTIMATE", "AWAITING_CUSTOMER_APPROVAL", "APPROVED", "PARTS_REVIEW",
     "WAITING_ON_PARTS", "READY_TO_WORK", "SCHEDULED", "IN_PROGRESS", "PAUSED",
     "WAITING_ON_ADDITIONAL_APPROVAL", "WORK_COMPLETE", "QUALITY_CHECK",
     "READY_FOR_PICKUP", "CASHIERED", "COMPLETED", "PICKED_UP", "CLOSED",
     "CANCELLED"}

ReadyPartStatuses == {"PULLED", "STAGED", "ISSUED", "INSTALLED", "WAIVED"}

UnresolvedPartStatuses ==
    {"NEEDS_REVIEW", "TO_BE_ORDERED", "ORDERED", "PARTIALLY_RECEIVED", "BACKORDERED"}

AllPartStatuses ==
    ReadyPartStatuses \cup UnresolvedPartStatuses
        \cup {"AVAILABLE", "ALLOCATED", "RECEIVED", "CANCELLED"}

LaborStatuses == {"PROPOSED", "ACTIVE", "COMPLETED", "CANCELLED"}

ASSUME RepairOrderAssumption ==
    /\ InitialStatuses \subseteq Statuses
    /\ PartStatuses \subseteq AllPartStatuses
    /\ None \notin LaborLines
    /\ MaxReleases \in Nat

(* The transitions updateRepairOrderStatus allows from each status.        *)
Transitions ==
    [ESTIMATE |-> {"AWAITING_CUSTOMER_APPROVAL", "APPROVED", "CANCELLED"},
     AWAITING_CUSTOMER_APPROVAL |-> {"APPROVED", "CANCELLED"},
     APPROVED |-> {"PARTS_REVIEW", "READY_TO_WORK", "SCHEDULED", "CANCELLED"},
     PARTS_REVIEW |-> {"WAITING_ON_PARTS", "READY_TO_WORK", "CANCELLED"},
     WAITING_ON_PARTS |-> {"READY_TO_WORK", "CANCELLED"},
     READY_TO_WORK |-> {"SCHEDULED", "IN_PROGRESS", "CANCELLED"},
     SCHEDULED |-> {"READY_TO_WORK", "IN_PROGRESS", "CANCELLED"},
     IN_PROGRESS |-> {"PAUSED", "WAITING_ON_ADDITIONAL_APPROVAL",
                      "WORK_COMPLETE", "CANCELLED"},
     PAUSED |-> {"IN_PROGRESS", "WAITING_ON_ADDITIONAL_APPROVAL", "CANCELLED"},
     WAITING_ON_ADDITIONAL_APPROVAL |-> {"IN_PROGRESS", "CANCELLED"},
     WORK_COMPLETE |-> {"QUALITY_CHECK", "IN_PROGRESS"},
     QUALITY_CHECK |-> {"READY_FOR_PICKUP", "IN_PROGRESS"},
     READY_FOR_PICKUP |-> {"CASHIERED"},
     CASHIERED |-> {"COMPLETED", "PICKED_UP"},
     COMPLETED |-> {"PICKED_UP", "CLOSED"},
     PICKED_UP |-> {"CLOSED"},
     CLOSED |-> {},
     CANCELLED |-> {}]

(* What moves the handlers with a transition of their own may add: approval *)
(* hands over to parts review, additional work goes back to it, and an order*)
(* that is not locked can be reopened.                                      *)
OwnMoves ==
    {<<"AWAITING_CUSTOMER_APPROVAL", "PARTS_REVIEW">>,
     <<"WAITING_ON_ADDITIONAL_APPROVAL", "PARTS_REVIEW">>,
     <<"IN_PROGRESS", "PARTS_REVIEW">>}
        \cup {<<s, "IN_PROGRESS">> : s \in
                Statuses \ {"CASHIERED", "PICKED_UP", "CLOSED", "CANCELLED"}}

VARIABLES
    status,    \* RepairOrder.status
    releases,  \* history rows whose status is READY_FOR_PICKUP
    payments,  \* history rows written by cashierRepairOrderRecord
    labor,     \* the labor lines; "ABSENT" is no row
    parts,     \* the part lines; "ABSENT" is no row
    req        \* what each worker's request has read and where it stands

vars == <<status, releases, payments, labor, parts, req>>

Phases == {"idle", "second", "write", "cas", "readiness",
           "start", "complete", "counted", "cancel"}

Idle == [at |-> "idle", seen |-> "NONE", target |-> "NONE", line |-> None]

Requests == [at : Phases, seen : Statuses \cup {"NONE"},
             target : Statuses \cup {"NONE"}, line : LaborLines \cup {None}]

NoLabor == [status |-> "ABSENT", started |-> FALSE, completed |-> FALSE]
NoPart  == [status |-> "ABSENT", blocks |-> FALSE]

TypeOK ==
    /\ status \in Statuses
    /\ releases \in Nat
    /\ payments \in Nat
    /\ labor \in [LaborLines -> [status : LaborStatuses \cup {"ABSENT"},
                                 started : BOOLEAN, completed : BOOLEAN]]
    /\ parts \in [PartLines -> [status : AllPartStatuses \cup {"ABSENT"},
                                blocks : BOOLEAN]]
    /\ req \in [Workers -> Requests]

(* createRepairOrder accepts any status and writes the first history row.  *)
Init ==
    /\ status \in InitialStatuses
    /\ releases = IF status = "READY_FOR_PICKUP" THEN 1 ELSE 0
    /\ payments = 0
    /\ labor = [l \in LaborLines |-> NoLabor]
    /\ parts = [p \in PartLines |-> NoPart]
    /\ req = [w \in Workers |-> Idle]

-----------------------------------------------------------------------------
(* Shared steps.                                                           *)

Finish(w) == req' = [req EXCEPT ![w] = Idle]

Go(w, phase, seen, target, line) ==
    req' = [req EXCEPT ![w] = [at |-> phase, seen |-> seen, target |-> target,
                               line |-> line]]

(* One UPDATE of the order's status and the history row that goes with it. *)
SetStatus(to) ==
    /\ releases + (IF to = "READY_FOR_PICKUP" THEN 1 ELSE 0) <= MaxReleases
    /\ status' = to
    /\ releases' = releases + (IF to = "READY_FOR_PICKUP" THEN 1 ELSE 0)

SameStatus == UNCHANGED <<status, releases>>

BlockingLines == {p \in PartLines : parts[p].status # "ABSENT" /\ parts[p].blocks}

AllBlockingReady == \A p \in BlockingLines : parts[p].status \in ReadyPartStatuses

HasUnresolvedBlockingPart ==
    \E p \in BlockingLines : parts[p].status \in UnresolvedPartStatuses

(* A labor row updated by an open transaction is locked until it commits.  *)
LaborRowFree(l) == \A w \in Workers : req[w].at = "counted" => req[w].line # l

(* A handler's own check, before it calls updateRepairOrderStatus.         *)
CheckThenUpdate(w, from, to) ==
    /\ req[w].at = "idle"
    /\ status = from
    /\ Go(w, "second", from, to, None)
    /\ UNCHANGED <<status, releases, payments, labor, parts>>

(* A handler's own check, before its transaction compares the status again.*)
CheckThenCas(w, from, to) ==
    /\ req[w].at = "idle"
    /\ status = from
    /\ Go(w, "cas", from, to, None)
    /\ UNCHANGED <<status, releases, payments, labor, parts>>

-----------------------------------------------------------------------------
(* Handlers that end in updateRepairOrderStatus.                           *)

BeginQualityCheck(w) == CheckThenUpdate(w, "WORK_COMPLETE", "QUALITY_CHECK")
PassQualityCheck(w)  == CheckThenUpdate(w, "QUALITY_CHECK", "READY_FOR_PICKUP")
FailQualityCheck(w)  == CheckThenUpdate(w, "QUALITY_CHECK", "IN_PROGRESS")
Close(w)             == CheckThenUpdate(w, "PICKED_UP", "CLOSED")
RequestApproval(w)   == CheckThenUpdate(w, "ESTIMATE", "AWAITING_CUSTOMER_APPROVAL")
DeclineApproval(w)   == CheckThenUpdate(w, "AWAITING_CUSTOMER_APPROVAL", "CANCELLED")
PauseWork(w)         == CheckThenUpdate(w, "IN_PROGRESS", "PAUSED")
ResumeWork(w)        == CheckThenUpdate(w, "PAUSED", "IN_PROGRESS")

CompletePartsReview(w) ==
    /\ \A p \in BlockingLines : parts[p].status # "NEEDS_REVIEW"
    /\ CheckThenUpdate(w, "PARTS_REVIEW",
           IF AllBlockingReady THEN "READY_TO_WORK" ELSE "WAITING_ON_PARTS")

(* POST /:id/status calls updateRepairOrderStatus with any status.          *)
PostStatus(w) ==
    /\ req[w].at = "idle"
    /\ \E to \in Transitions[status] : Go(w, "write", status, to, None)
    /\ UNCHANGED <<status, releases, payments, labor, parts>>

UpdateStatusCheck(w) ==
    /\ req[w].at = "second"
    /\ IF req[w].target # status /\ req[w].target \in Transitions[status]
         THEN Go(w, "write", status, req[w].target, None)
         ELSE Finish(w)
    /\ UNCHANGED <<status, releases, payments, labor, parts>>

(* The transaction does not compare the status it writes over.             *)
UpdateStatusWrite(w) ==
    /\ req[w].at = "write"
    /\ SetStatus(req[w].target)
    /\ Finish(w)
    /\ UNCHANGED <<payments, labor, parts>>

EvaluateReadiness(w) ==
    /\ req[w].at = "readiness"
    /\ IF status = "WAITING_ON_PARTS" /\ BlockingLines # {} /\ AllBlockingReady
         THEN Go(w, "write", status, "READY_TO_WORK", None)
         ELSE Finish(w)
    /\ UNCHANGED <<status, releases, payments, labor, parts>>

-----------------------------------------------------------------------------
(* Handlers whose transaction claims the transition (updateMany with the   *)
(* expected status, and its count checked).                                *)

Approve(w)          == CheckThenCas(w, "AWAITING_CUSTOMER_APPROVAL", "PARTS_REVIEW")
Cashier(w)          == CheckThenCas(w, "READY_FOR_PICKUP", "CASHIERED")
Pickup(w)           == CheckThenCas(w, "CASHIERED", "PICKED_UP")
RequestAdditionalApproval(w) ==
    CheckThenCas(w, "IN_PROGRESS", "WAITING_ON_ADDITIONAL_APPROVAL")
DeclineAdditional(w) == CheckThenCas(w, "WAITING_ON_ADDITIONAL_APPROVAL", "IN_PROGRESS")
ScheduleOrder(w)    == CheckThenCas(w, "READY_TO_WORK", "SCHEDULED")
CancelSchedule(w)   == CheckThenCas(w, "SCHEDULED", "READY_TO_WORK")

ApproveAdditional(w) ==
    CheckThenCas(w, "WAITING_ON_ADDITIONAL_APPROVAL",
                 IF HasUnresolvedBlockingPart THEN "PARTS_REVIEW" ELSE "IN_PROGRESS")

SendToPartsReview(w) ==
    /\ HasUnresolvedBlockingPart
    /\ CheckThenCas(w, "IN_PROGRESS", "PARTS_REVIEW")

(* Faulty variant: the lock on finished orders forgotten.                  *)
ReopenUnlocked(w) ==
    /\ status \notin {"CANCELLED", "IN_PROGRESS"}
    /\ CheckThenCas(w, status, "IN_PROGRESS")

Reopen(w) ==
    /\ status \notin {"CASHIERED", "PICKED_UP", "CLOSED", "CANCELLED", "IN_PROGRESS"}
    /\ CheckThenCas(w, status, "IN_PROGRESS")

(* Faulty variant: the updateMany without the expected status.             *)
CasAppliesAlways(w) == w \in Workers

CasApplies(w) == status = req[w].seen

Claim(w, from, to) ==
    /\ req[w].at = "cas" /\ req[w].seen = from /\ req[w].target = to
    /\ CasApplies(w)
    /\ SetStatus(to)
    /\ Finish(w)
    /\ UNCHANGED <<labor, parts>>

CashierRecord(w) ==
    /\ Claim(w, "READY_FOR_PICKUP", "CASHIERED")
    /\ payments' = payments + 1

(* The history has a row for APPROVED too, which is never the status.      *)
ApproveRecord(w) ==
    Claim(w, "AWAITING_CUSTOMER_APPROVAL", "PARTS_REVIEW") /\ UNCHANGED payments

PickupRecord(w) == Claim(w, "CASHIERED", "PICKED_UP") /\ UNCHANGED payments

RequestAdditionalRecord(w) ==
    Claim(w, "IN_PROGRESS", "WAITING_ON_ADDITIONAL_APPROVAL") /\ UNCHANGED payments

ApproveAdditionalRecord(w) ==
    /\ \E to \in {"IN_PROGRESS", "PARTS_REVIEW"} :
          Claim(w, "WAITING_ON_ADDITIONAL_APPROVAL", to)
    /\ UNCHANGED payments

DeclineAdditionalRecord(w) ==
    Claim(w, "WAITING_ON_ADDITIONAL_APPROVAL", "IN_PROGRESS") /\ UNCHANGED payments

SendToPartsReviewRecord(w) ==
    Claim(w, "IN_PROGRESS", "PARTS_REVIEW") /\ UNCHANGED payments

ReopenRecord(w) ==
    Claim(w, req[w].seen, "IN_PROGRESS") /\ UNCHANGED payments

ScheduleRecord(w) == Claim(w, "READY_TO_WORK", "SCHEDULED") /\ UNCHANGED payments

CancelScheduleRecord(w) ==
    Claim(w, "SCHEDULED", "READY_TO_WORK") /\ UNCHANGED payments

CasRefused(w) ==
    /\ req[w].at = "cas"
    /\ ~CasApplies(w)
    /\ Finish(w)
    /\ UNCHANGED <<status, releases, payments, labor, parts>>

-----------------------------------------------------------------------------
(* Labor lines.                                                            *)

AddLabor(l) ==
    /\ labor[l].status = "ABSENT"
    /\ \E done \in BOOLEAN :
          labor' = [labor EXCEPT ![l] = [status |-> "PROPOSED", started |-> FALSE,
                                         completed |-> done]]
    /\ SameStatus /\ UNCHANGED <<payments, parts, req>>

PatchLabor(l) ==
    /\ labor[l].status # "ABSENT" /\ LaborRowFree(l)
    /\ \E done \in BOOLEAN : labor' = [labor EXCEPT ![l].completed = done]
    /\ SameStatus /\ UNCHANGED <<payments, parts, req>>

DeleteLabor(l) ==
    /\ labor[l].status # "ABSENT" /\ LaborRowFree(l)
    /\ labor' = [labor EXCEPT ![l] = NoLabor]
    /\ SameStatus /\ UNCHANGED <<payments, parts, req>>

LaborCheck(w, l, phase) ==
    /\ req[w].at = "idle"
    /\ labor[l].status # "ABSENT"
    /\ Go(w, phase, status, "NONE", l)
    /\ SameStatus /\ UNCHANGED <<payments, labor, parts>>

(* A row deleted since it was read makes the transaction roll back.        *)
LaborGone(w) ==
    /\ req[w].at \in {"start", "complete", "cancel"}
    /\ labor[req[w].line].status = "ABSENT"
    /\ Finish(w)
    /\ SameStatus /\ UNCHANGED <<payments, labor, parts>>

LaborPresent(w) == labor[req[w].line].status # "ABSENT" /\ LaborRowFree(req[w].line)

StartLabor(w, l) ==
    /\ ~labor[l].completed /\ ~labor[l].started
    /\ status \in {"READY_TO_WORK", "SCHEDULED", "IN_PROGRESS"}
    /\ LaborCheck(w, l, "start")

(* Faulty variant: the order's enumeration used for the line.              *)
StartLaborWriteWrongEnum(w) ==
    /\ req[w].at = "start" /\ LaborPresent(w)
    /\ labor' = [labor EXCEPT ![req[w].line].status = "IN_PROGRESS"]
    /\ Finish(w)
    /\ SameStatus /\ UNCHANGED <<payments, parts>>

(* The order is moved by the status read before the transaction.           *)
StartLaborWrite(w) ==
    /\ req[w].at = "start" /\ LaborPresent(w)
    /\ labor' = [labor EXCEPT ![req[w].line].status = "ACTIVE",
                              ![req[w].line].started = TRUE]
    /\ IF req[w].seen \in {"READY_TO_WORK", "SCHEDULED"}
         THEN SetStatus("IN_PROGRESS")
         ELSE SameStatus
    /\ Finish(w)
    /\ UNCHANGED <<payments, parts>>

CompleteLabor(w, l) ==
    /\ ~labor[l].completed
    /\ status = "IN_PROGRESS"
    /\ LaborCheck(w, l, "complete")

Incomplete == {l \in LaborLines : /\ ~labor[l].completed
                                  /\ labor[l].status \notin {"ABSENT", "CANCELLED"}}

(* The open transaction has updated its own line and counts the lines it   *)
(* sees incomplete: updates other transactions have not committed are not  *)
(* visible to it.                                                          *)
CompleteLaborCount(w) ==
    /\ req[w].at = "complete" /\ LaborPresent(w)
    /\ Go(w, "counted", req[w].seen,
          IF Incomplete \ {req[w].line} = {} THEN "WORK_COMPLETE" ELSE "NONE",
          req[w].line)
    /\ SameStatus /\ UNCHANGED <<payments, labor, parts>>

CompleteLaborCommit(w) ==
    /\ req[w].at = "counted"
    /\ labor' = [labor EXCEPT ![req[w].line] =
                    [status |-> "COMPLETED", started |-> TRUE, completed |-> TRUE]]
    /\ IF req[w].target = "WORK_COMPLETE"
         THEN /\ status' = IF status = "IN_PROGRESS" THEN "WORK_COMPLETE" ELSE status
              /\ UNCHANGED releases
         ELSE SameStatus
    /\ Finish(w)
    /\ UNCHANGED <<payments, parts>>

CancelLabor(w, l) ==
    /\ labor[l].status = "PROPOSED" /\ ~labor[l].started
    /\ LaborCheck(w, l, "cancel")

CancelLaborWrite(w) ==
    /\ req[w].at = "cancel" /\ LaborPresent(w)
    /\ LET l == req[w].line IN
         labor' = IF /\ labor[l].status = "PROPOSED"
                     /\ ~labor[l].started /\ ~labor[l].completed
                    THEN [labor EXCEPT ![l].status = "CANCELLED"]
                    ELSE labor
    /\ Finish(w)
    /\ SameStatus /\ UNCHANGED <<payments, parts>>

-----------------------------------------------------------------------------
(* Part lines.  Each of these handlers writes one row.                     *)

AddPart(p) ==
    /\ parts[p].status = "ABSENT"
    /\ \E s \in PartStatuses, b \in BOOLEAN :
          parts' = [parts EXCEPT ![p] = [status |-> s, blocks |-> b]]
    /\ SameStatus /\ UNCHANGED <<payments, labor, req>>

PatchPart(p) ==
    /\ parts[p].status # "ABSENT"
    /\ \E b \in BOOLEAN : parts' = [parts EXCEPT ![p].blocks = b]
    /\ SameStatus /\ UNCHANGED <<payments, labor, req>>

DeletePart(p) ==
    /\ parts[p].status # "ABSENT"
    /\ parts' = [parts EXCEPT ![p] = NoPart]
    /\ SameStatus /\ UNCHANGED <<payments, labor, req>>

CancelPart(p) ==
    /\ parts[p].status \in {"NEEDS_REVIEW", "TO_BE_ORDERED"}
    /\ parts' = [parts EXCEPT ![p] = [status |-> "CANCELLED", blocks |-> FALSE]]
    /\ SameStatus /\ UNCHANGED <<payments, labor, req>>

(* Allocating, deallocating, issuing, installing, marking for order, and   *)
(* ordering or cancelling a purchase order.                                *)
LineWrite(p) ==
    /\ parts[p].status # "ABSENT"
    /\ \E s \in PartStatuses \ {"NEEDS_REVIEW", "PULLED", "STAGED", "WAIVED", "CANCELLED"} :
          parts' = [parts EXCEPT ![p].status = s]
    /\ SameStatus /\ UNCHANGED <<payments, labor, req>>

(* Pulling, staging and receiving go on to evaluateRepairOrderReadiness.   *)
LineWriteThenReadiness(w, p) ==
    /\ req[w].at = "idle"
    /\ parts[p].status # "ABSENT"
    /\ \E s \in (PartStatuses \cap {"PULLED", "STAGED", "RECEIVED", "PARTIALLY_RECEIVED"})
                 \cup {parts[p].status} :
          parts' = [parts EXCEPT ![p].status = s]
    /\ Go(w, "readiness", "NONE", "NONE", None)
    /\ SameStatus /\ UNCHANGED <<payments, labor>>

-----------------------------------------------------------------------------
StatusRequest(w) ==
    \/ BeginQualityCheck(w) \/ PassQualityCheck(w) \/ FailQualityCheck(w)
    \/ Close(w) \/ RequestApproval(w) \/ DeclineApproval(w)
    \/ PauseWork(w) \/ ResumeWork(w) \/ CompletePartsReview(w) \/ PostStatus(w)
    \/ UpdateStatusCheck(w) \/ UpdateStatusWrite(w) \/ EvaluateReadiness(w)

ClaimRecord(w) ==
    \/ ApproveRecord(w) \/ PickupRecord(w) \/ RequestAdditionalRecord(w)
    \/ ApproveAdditionalRecord(w) \/ DeclineAdditionalRecord(w)
    \/ SendToPartsReviewRecord(w) \/ ReopenRecord(w) \/ ScheduleRecord(w)
    \/ CancelScheduleRecord(w)

ClaimRequest(w) ==
    \/ Approve(w) \/ Cashier(w) \/ Pickup(w)
    \/ RequestAdditionalApproval(w) \/ ApproveAdditional(w) \/ DeclineAdditional(w)
    \/ SendToPartsReview(w) \/ Reopen(w) \/ ScheduleOrder(w) \/ CancelSchedule(w)
    \/ CashierRecord(w) \/ ClaimRecord(w) \/ CasRefused(w)

LaborRequest(w) ==
    \/ \E l \in LaborLines : StartLabor(w, l) \/ CompleteLabor(w, l) \/ CancelLabor(w, l)
    \/ StartLaborWrite(w) \/ CompleteLaborCount(w) \/ CompleteLaborCommit(w)
    \/ CancelLaborWrite(w) \/ LaborGone(w)

LineRequest ==
    \/ \E l \in LaborLines : AddLabor(l) \/ PatchLabor(l) \/ DeleteLabor(l)
    \/ \E p \in PartLines : \/ AddPart(p) \/ PatchPart(p) \/ DeletePart(p)
                            \/ CancelPart(p) \/ LineWrite(p)
                            \/ \E w \in Workers : LineWriteThenReadiness(w, p)

Next ==
    \/ \E w \in Workers : StatusRequest(w) \/ ClaimRequest(w) \/ LaborRequest(w)
    \/ LineRequest

Spec == Init /\ [][Next]_vars

-----------------------------------------------------------------------------
(* A customer is cashiered at most once for each time the order was released *)
(* for pickup, whatever requests overlap: the cashier's transaction claims   *)
(* READY_FOR_PICKUP (repair-order-cashier-pickup.repository.ts).             *)
PaidPerRelease == payments <= releases

(* A request is about to write over a status it has not read.               *)
StaleWriter == \E w \in Workers : /\ req[w].at \in {"write", "start"}
                                  /\ req[w].seen # status

(* The order leaves the documented life cycle, and so a locked or final      *)
(* status, only when a transaction that does not compare the status writes   *)
(* over a change made since its service read it.                             *)
OnlyStaleWritesLeaveTheTable ==
    [][ status' # status =>
          \/ status' \in Transitions[status]
          \/ <<status, status'>> \in OwnMoves
          \/ StaleWriter ]_vars

(* "Repair order cannot transition from ... to ...": no request moves the    *)
(* order along an edge that is neither in REPAIR_ORDER_STATUS_TRANSITIONS nor*)
(* a handler's own (repair-order.service.ts:384-392).                        *)
TableIsRespected ==
    [][ status' # status => \/ status' \in Transitions[status]
                            \/ <<status, status'>> \in OwnMoves ]_vars

(* "keeps the repair order IN_PROGRESS until all labor is completed and then *)
(* moves it to WORK_COMPLETE" (tests/integration/repair-orders): the commit  *)
(* after which every labor line is COMPLETED moves an order in progress.     *)
LastLaborCompletesOrder ==
    [][ /\ status = "IN_PROGRESS"
        /\ \E l \in LaborLines : labor[l].status # "COMPLETED" /\ labor'[l].status = "COMPLETED"
        /\ \A l \in LaborLines : labor'[l].status = "COMPLETED" /\ labor'[l].completed
        => status' = "WORK_COMPLETE" ]_vars
=============================================================================
