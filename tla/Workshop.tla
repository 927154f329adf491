-------------------------------- MODULE Workshop --------------------------------
(***************************************************************************)
(* Appointments, the schedule and the assignments at work on the same      *)
(* repair orders.                                                          *)
(***************************************************************************)
EXTENDS Appointment, Schedule, Assignments

vars == <<floorVars, appointment, block, assignVars>>

TypeOK ==
    /\ order \in [Orders -> OrderRows]
    /\ req \in [Workers -> {Idle} \cup ScheduleRequests \cup AssignmentRequests
                           \cup AppointmentRequests]
    /\ unkept \subseteq {"schedule", "technician", "bay"}
    /\ AppointmentTypeOK
    /\ ScheduleTypeOK
    /\ AssignmentsTypeOK

Init == FloorInit /\ AppointmentInit /\ ScheduleInit /\ AssignmentsInit

Next ==
    \/ /\ \E o \in Orders, status \in OrderStatus, d \in Dates \cup {None},
            t \in Technicians \cup {None} : CreateOrder(o, status, d, t)
       /\ UNCHANGED <<appointment, block, assignVars>>
    \/ AppointmentStep /\ UNCHANGED <<block, assignVars>>
    \/ ScheduleStep /\ UNCHANGED <<appointment, assignVars>>
    \/ AssignmentStep /\ UNCHANGED <<appointment, block>>

Spec == Init /\ [][Next]_vars

-----------------------------------------------------------------------------
(* An appointment becomes at most one repair order, however conversions    *)
(* and cancellations overlap: the order it is linked to is the only one    *)
(* that was created from it, and a cancelled appointment has none.         *)
ConvertedOnce ==
    \A a \in Appointments :
       /\ appointment[a].status = "CONVERTED_TO_RO" <=> appointment[a].order # None
       /\ {o \in Orders : order[o].from = a} = {appointment[a].order} \ {None}

(* Until a block is replaced or cancelled by a request that found an older *)
(* one, or an order that has blocks is moved past them or dated by hand:   *)
(* an order has at most one active block, none while it waits to be        *)
(* scheduled, and while it is scheduled the date it shows is that of its   *)
(* newest block.  An order created as scheduled, or set so by hand, has no *)
(* block and shows any date.                                               *)
ScheduleIsKept ==
    "schedule" \notin unkept => \A o \in Orders :
       LET last == Len(block[o])
       IN /\ Cardinality(ActiveBlocks(o)) <= 1
          /\ order[o].status \in {"EARLIER", "READY_TO_WORK"} => ActiveBlocks(o) = {}
          /\ order[o].status = "SCHEDULED" /\ last > 0 =>
                /\ block[o][last].status # "CANCELLED"
                /\ order[o].date = block[o][last].date

(* Until assignments overlap, or the technician of an order that has them  *)
(* is set by hand: an order has at most one active assignment, and one     *)
(* that was ever assigned shows the technician of it.  An order created    *)
(* with a technician, or given one by hand, has no assignment for it.      *)
TechnicianIsAssigned ==
    "technician" \notin unkept => \A o \in Orders :
       /\ Cardinality(ActiveAssignments(o)) <= 1
       /\ assignment[o] # <<>> =>
             {assignment[o][i].technician : i \in ActiveAssignments(o)}
               = {order[o].technician} \ {None}

(* Until requests about a bay or an order overlap, a bay holds one order   *)
(* at most, an order is in one bay at most, and a bay that holds one is    *)
(* in service.                                                             *)
BayHoldsOneOrder ==
    "bay" \notin unkept =>
       /\ \A o \in Orders : Cardinality(OccupiedBy(o)) <= 1
       /\ \A b \in Bays : /\ Cardinality(Occupants(b)) <= 1
                          /\ Occupants(b) # {} => bayStatus[b] = "ACTIVE"
=============================================================================
