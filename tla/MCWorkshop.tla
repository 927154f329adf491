------------------------------- MODULE MCWorkshop -------------------------------
(* The workshop on a small instance.                                       *)
EXTENDS Workshop, TLC

MCSymmetry == Permutations(Workers) \cup Permutations(Orders) \cup Permutations(Bays)
              \cup Permutations(Technicians) \cup Permutations(Dates)

Scheduled == {o \in Orders : block[o] # <<>>}
Staffed == {o \in Orders : assignment[o] # <<>>}
BaysUsed == occupancy # <<>> \/ \E b \in Bays : bayStatus[b] # "ACTIVE"
Booked == \E a \in Appointments :
             appointment[a].status \notin {"ABSENT", "CONVERTED_TO_RO"}

Present == {o \in Orders : order[o].status # "ABSENT"}

Kind(at) ==
    CASE at \in {"scheduling", "rescheduling", "replacing", "unscheduling", "cancelling"} -> 1
      [] at \in {"assigning", "reassigning", "removing"} -> 2
      [] at \in {"placing", "entering", "occupying", "releasing", "restating", "setting"} -> 3
      [] OTHER -> 4

Plain(o) ==
    /\ order[o].status = "EARLIER" /\ order[o].technician = None
    /\ order[o].from = None => order[o].date = None

(* Not past the first overlap, and one of the four at a time: the blocks   *)
(* of an order, its technicians, the bays, or an appointment.  Two orders  *)
(* meet at a bay and at an appointment only, which look at nothing else of *)
(* them.                                                                   *)
Focused ==
    /\ unkept = {}
    /\ Cardinality(Scheduled) + Cardinality(Staffed)
         + (IF BaysUsed THEN 1 ELSE 0) + (IF Booked THEN 1 ELSE 0) <= 1
    /\ Scheduled \cup Staffed # {} => Cardinality(Present) = 1
    /\ BaysUsed \/ Cardinality(Present) > 1 => \A o \in Present : Plain(o)
    /\ Cardinality({Kind(req[w].at) : w \in {v \in Workers : req[v] # Idle}}) <= 1
=============================================================================
