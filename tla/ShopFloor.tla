------------------------------- MODULE ShopFloor -------------------------------
(***************************************************************************)
(* Repair orders as the shop floor sees them: what the schedule, the       *)
(* technician assignments and the appointments read and write of an order, *)
(* and the requests that are under way.  Of an order's status only its     *)
(* place relative to being scheduled matters; RepairOrder has the rest.    *)
(***************************************************************************)
EXTENDS Overlaps, Naturals, Sequences

CONSTANTS Orders,       \* identities of repair orders
          Appointments, \* identities of service appointments
          Technicians,  \* memberships that work on orders
          Dates,        \* what an order may be scheduled for
          MaxRows       \* bound: rows of one kind kept for an order

ASSUME ShopFloorAssumption ==
    /\ None \notin Appointments \cup Technicians \cup Dates \cup Orders
    /\ MaxRows \in Nat

VARIABLE order    \* repair orders

floorVars == <<order, req, unkept>>

(* EARLIER: before READY_TO_WORK; LATER: work has started, or it is over.  *)
OrderStatus == {"ABSENT", "EARLIER", "READY_TO_WORK", "SCHEDULED", "LATER"}

(* from: the appointment named in the order's first history row.           *)
OrderRows == [status : OrderStatus, date : Dates \cup {None},
              technician : Technicians \cup {None}, from : Appointments \cup {None}]

Created(status, d, t, a) == [status |-> status, date |-> d, technician |-> t, from |-> a]

FloorInit ==
    /\ order = [o \in Orders |-> Created("ABSENT", None, None, None)]
    /\ req = [w \in Workers |-> Idle]
    /\ unkept = {}

Goto(w, record) == req' = [req EXCEPT ![w] = record]
Finish(w) == Goto(w, Idle)

(* What is written over a stale read is no longer kept.                    *)
Keep(w, kind) == unkept' = IF req[w].stale THEN unkept \cup {kind} ELSE unkept

-----------------------------------------------------------------------------
(* createRepairOrder stores the status, the date and the technician it is  *)
(* given: an order may be created scheduled without a block, or with a     *)
(* technician who is not assigned to it.                                   *)
CreateOrder(o, status, d, t) ==
    /\ order[o].status = "ABSENT" /\ status # "ABSENT"
    /\ order' = [order EXCEPT ![o] = Created(status, d, t, None)]
    /\ UNCHANGED <<req, unkept>>
=============================================================================
