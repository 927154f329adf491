------------------------------ MODULE Appointment ------------------------------
(***************************************************************************)
(* Service appointments (src/src/modules/service-appointments) and the     *)
(* repair orders they become.  Every change of status is checked by the    *)
(* service and compared again by the update that makes it.  The customer's *)
(* and vehicle's own rows, and the employees named, are left out.          *)
(***************************************************************************)
EXTENDS ShopFloor

VARIABLE appointment

(* The statuses of the enum that some code stores.                         *)
AppointmentStatus == {"ABSENT", "REQUESTED", "CONFIRMED", "CHECKED_IN",
                      "CONVERTED_TO_RO", "CANCELLED"}

(* complete: both a customer and a vehicle are named.                      *)
AppointmentRows == [status : AppointmentStatus, complete : BOOLEAN, date : Dates,
                    order : Orders \cup {None}]

AppointmentRequests ==
    [at : {"confirming", "checking in", "calling off", "converting"},
     appointment : Appointments, stale : BOOLEAN]

AppointmentTypeOK == appointment \in [Appointments -> AppointmentRows]

AppointmentInit ==
    \E d \in Dates :
       appointment = [a \in Appointments |->
          [status |-> "ABSENT", complete |-> FALSE, date |-> d, order |-> None]]

-----------------------------------------------------------------------------
CreateAppointment(a, complete, d) ==
    /\ appointment[a].status = "ABSENT"
    /\ appointment' = [appointment EXCEPT ![a] =
          [status |-> "REQUESTED", complete |-> complete, date |-> d, order |-> None]]
    /\ UNCHANGED floorVars

Confirmable(a) == appointment[a].status = "REQUESTED"
Arrivable(a) == appointment[a].status = "CONFIRMED"

(* Faulty variant: an appointment that became an order is cancelled.       *)
CancellableAnyway(a) == appointment[a].status \notin {"ABSENT", "CANCELLED"}

Cancellable(a) == appointment[a].status \notin {"ABSENT", "CANCELLED", "CONVERTED_TO_RO"}

Convertible(a) ==
    /\ appointment[a].status \in {"CONFIRMED", "CHECKED_IN"}
    /\ appointment[a].order = None /\ appointment[a].complete

Allowed(at, a) ==
    CASE at = "confirming" -> Confirmable(a)
      [] at = "checking in" -> Arrivable(a)
      [] at = "calling off" -> Cancellable(a)
      [] at = "converting" -> Convertible(a)

CheckAppointment(w, at, a) ==
    /\ Allowed(at, a)
    /\ Begin(w, [at |-> at, appointment |-> a, stale |-> FALSE])
    /\ UNCHANGED <<order, unkept, appointment>>

(* updateMany compares what the service checked.                           *)
SetStatus(w, at, status) ==
    LET a == req[w].appointment
    IN /\ req[w].at = at
       /\ appointment' = IF Allowed(at, a) THEN [appointment EXCEPT ![a].status = status]
                         ELSE appointment
       /\ Finish(w)
       /\ UNCHANGED <<order, unkept>>

ConfirmAppointment(w) == SetStatus(w, "confirming", "CONFIRMED")
CheckIn(w) == SetStatus(w, "checking in", "CHECKED_IN")
CancelAppointment(w) == SetStatus(w, "calling off", "CANCELLED")

(* The update that claims the appointment holds its row until the order is *)
(* created and linked.                                                     *)
ConvertToRepairOrder(w) ==
    LET a == req[w].appointment
    IN /\ req[w].at = "converting"
       /\ IF Convertible(a)
          THEN \E o \in Orders :
                  /\ order[o].status = "ABSENT"
                  /\ order' = [order EXCEPT ![o] =
                                Created("EARLIER", appointment[a].date, None, a)]
                  /\ appointment' = [appointment EXCEPT ![a].status = "CONVERTED_TO_RO",
                                                        ![a].order = o]
          ELSE UNCHANGED <<order, appointment>>
       /\ Finish(w)
       /\ UNCHANGED unkept

AppointmentStep ==
    \/ \E a \in Appointments, complete \in BOOLEAN, d \in Dates :
          CreateAppointment(a, complete, d)
    \/ \E w \in Workers, a \in Appointments,
          at \in {"confirming", "checking in", "calling off", "converting"} :
          CheckAppointment(w, at, a)
    \/ \E w \in Workers : ConfirmAppointment(w) \/ CheckIn(w)
                          \/ CancelAppointment(w) \/ ConvertToRepairOrder(w)
=============================================================================
