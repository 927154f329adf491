-------------------------------- MODULE Schedule --------------------------------
(***************************************************************************)
(* The schedule of an order (src/src/modules/scheduling).  Scheduling      *)
(* claims the order by comparing its status and creates a work block;      *)
(* rescheduling cancels the block it finds and creates another, without    *)
(* comparing anything; cancelling compares the order's status and cancels  *)
(* the block it found.  Each is a transaction at READ COMMITTED, after     *)
(* checks that the service makes on reads of its own.  The checks on the   *)
(* employee and the labor line are left out.                               *)
(***************************************************************************)
EXTENDS ShopFloor, FiniteSets

VARIABLE block   \* the Schedule rows of each order, oldest first

(* ACTIVE stands for every status but CANCELLED, COMPLETED and MISSED;     *)
(* ENDED for one of these that the user gave to a new block.               *)
BlockRows == [date : Dates, status : {"ACTIVE", "CANCELLED", "ENDED"}]

ScheduleRequests ==
    [at : {"scheduling"}, order : Orders, date : Dates, ended : BOOLEAN, stale : BOOLEAN] \cup
    [at : {"rescheduling"}, order : Orders, date : Dates, stale : BOOLEAN] \cup
    [at : {"replacing"}, order : Orders, date : Dates, row : Nat, stale : BOOLEAN] \cup
    [at : {"unscheduling"}, order : Orders, stale : BOOLEAN] \cup
    [at : {"cancelling"}, order : Orders, row : Nat, stale : BOOLEAN]

ScheduleTypeOK == block \in [Orders -> Seq(BlockRows)]

ScheduleInit == block = [o \in Orders |-> <<>>]

ActiveBlocks(o) == {i \in DOMAIN block[o] : block[o][i].status = "ACTIVE"}

NewestActive(o) ==
    CHOOSE i \in ActiveBlocks(o) : \A j \in ActiveBlocks(o) : j <= i

Block(d, status) == [date |-> d, status |-> status]

-----------------------------------------------------------------------------
CheckSchedule(w, o, d, ended) ==
    /\ order[o].status = "READY_TO_WORK"
    /\ Begin(w, [at |-> "scheduling", order |-> o, date |-> d, ended |-> ended,
                 stale |-> FALSE])
    /\ UNCHANGED <<order, unkept, block>>

(* Faulty variant: the order is updated whatever it has become.            *)
SchedulableAnyway(o) == order[o].status # "ABSENT"

Schedulable(o) == order[o].status = "READY_TO_WORK"

ScheduleOrder(w) ==
    LET o == req[w].order
        d == req[w].date
    IN /\ req[w].at = "scheduling"
       /\ IF Schedulable(o)
          THEN /\ Len(block[o]) < MaxRows
               /\ order' = [order EXCEPT ![o].status = "SCHEDULED", ![o].date = d]
               /\ block' = [block EXCEPT ![o] =
                     Append(@, Block(d, IF req[w].ended THEN "ENDED" ELSE "ACTIVE"))]
          ELSE UNCHANGED <<order, block>>
       /\ Finish(w)
       /\ UNCHANGED unkept

(* Whoever has found a block of the order has then read an old one.        *)
HasFound(o, r) == r.at \in {"replacing", "cancelling"} /\ r.order = o

CheckReschedule(w, o, d) ==
    /\ order[o].status = "SCHEDULED"
    /\ Begin(w, [at |-> "rescheduling", order |-> o, date |-> d, stale |-> FALSE])
    /\ UNCHANGED <<order, unkept, block>>

FindForReschedule(w) ==
    LET o == req[w].order
    IN /\ req[w].at = "rescheduling"
       /\ IF ActiveBlocks(o) = {} THEN Finish(w)
          ELSE Goto(w, [at |-> "replacing", order |-> o, date |-> req[w].date,
                        row |-> NewestActive(o), stale |-> FALSE])
       /\ UNCHANGED <<order, unkept, block>>

Reschedule(w) ==
    LET o == req[w].order
        d == req[w].date
    IN /\ req[w].at = "replacing"
       /\ Len(block[o]) < MaxRows
       /\ block' = [block EXCEPT ![o] =
             Append([@ EXCEPT ![req[w].row].status = "CANCELLED"], Block(d, "ACTIVE"))]
       /\ order' = [order EXCEPT ![o].date = d]
       /\ CommitOver(w, LAMBDA r : HasFound(o, r))
       /\ Keep(w, "schedule")

CheckUnschedule(w, o) ==
    /\ order[o].status = "SCHEDULED"
    /\ Begin(w, [at |-> "unscheduling", order |-> o, stale |-> FALSE])
    /\ UNCHANGED <<order, unkept, block>>

FindForCancel(w) ==
    LET o == req[w].order
    IN /\ req[w].at = "unscheduling"
       /\ IF ActiveBlocks(o) = {} THEN Finish(w)
          ELSE Goto(w, [at |-> "cancelling", order |-> o, row |-> NewestActive(o),
                        stale |-> FALSE])
       /\ UNCHANGED <<order, unkept, block>>

CancelSchedule(w) ==
    LET o == req[w].order
    IN /\ req[w].at = "cancelling"
       /\ IF order[o].status = "SCHEDULED"
          THEN /\ order' = [order EXCEPT ![o].status = "READY_TO_WORK", ![o].date = None]
               /\ block' = [block EXCEPT ![o][req[w].row].status = "CANCELLED"]
               /\ CommitOver(w, LAMBDA r : HasFound(o, r))
               /\ Keep(w, "schedule")
          ELSE Finish(w) /\ UNCHANGED <<order, unkept, block>>

-----------------------------------------------------------------------------
(* The other handlers of an order move its status without looking at its   *)
(* blocks: work starts, additional work sends the order back, and a user   *)
(* may set READY_TO_WORK or SCHEDULED by hand.                             *)
MovesTo(status) ==
    CASE status = "EARLIER" -> {"READY_TO_WORK", "SCHEDULED", "LATER"}
      [] status = "READY_TO_WORK" -> {"SCHEDULED", "LATER"}
      [] status = "SCHEDULED" -> {"READY_TO_WORK", "LATER"}
      [] status = "LATER" -> {"EARLIER"}
      [] status = "ABSENT" -> {}

MoveOrder(o, to) ==
    /\ to \in MovesTo(order[o].status)
    /\ order' = [order EXCEPT ![o].status = to]
    /\ unkept' = IF \/ to = "SCHEDULED" /\ block[o] # <<>>
                    \/ to # "LATER" /\ ActiveBlocks(o) # {}
                 THEN unkept \cup {"schedule"} ELSE unkept
    /\ UNCHANGED <<req, block>>

(* PATCH stores a date of its own.                                         *)
PatchDate(o, d) ==
    /\ order[o].status # "ABSENT"
    /\ order' = [order EXCEPT ![o].date = d]
    /\ unkept' = IF block[o] # <<>> THEN unkept \cup {"schedule"} ELSE unkept
    /\ UNCHANGED <<req, block>>

ScheduleStep ==
    \/ \E w \in Workers, o \in Orders :
          \/ \E d \in Dates : \/ CheckReschedule(w, o, d)
                              \/ \E ended \in BOOLEAN : CheckSchedule(w, o, d, ended)
          \/ CheckUnschedule(w, o)
    \/ \E w \in Workers : \/ ScheduleOrder(w) \/ FindForReschedule(w) \/ Reschedule(w)
                          \/ FindForCancel(w) \/ CancelSchedule(w)
    \/ \E o \in Orders : \/ \E to \in OrderStatus : MoveOrder(o, to)
                         \/ \E d \in Dates : PatchDate(o, d)
=============================================================================
