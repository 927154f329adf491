------------------------------ MODULE Assignments ------------------------------
(***************************************************************************)
(* Who works on an order and where (src/src/modules/technician-assignments *)
(* and service-bays).  The service looks for active assignments before it  *)
(* creates one, in statements of their own; ending a technician's          *)
(* assignment does not compare its status, releasing a bay does.           *)
(***************************************************************************)
EXTENDS ShopFloor, FiniteSets

CONSTANT Bays   \* identities of service bays

VARIABLES
    assignment,  \* the TechnicianAssignment rows of each order
    bayStatus,   \* the status of each bay
    occupancy    \* the ServiceBayAssignment rows

assignVars == <<assignment, bayStatus, occupancy>>

AssignmentRows == [technician : Technicians, status : {"ACTIVE", "REASSIGNED", "REMOVED"}]
OccupancyRows == [bay : Bays, order : Orders, active : BOOLEAN]

(* MAINTENANCE stands for INACTIVE too.                                    *)
BayStatus == {"ACTIVE", "MAINTENANCE"}

AssignmentRequests ==
    [at : {"assigning"}, order : Orders, technician : Technicians, stale : BOOLEAN] \cup
    [at : {"reassigning"}, order : Orders, technician : Technicians, row : Nat,
     stale : BOOLEAN] \cup
    [at : {"removing"}, order : Orders, row : Nat, stale : BOOLEAN] \cup
    [at : {"placing", "entering", "occupying"}, order : Orders, bay : Bays,
     stale : BOOLEAN] \cup
    [at : {"releasing"}, row : Nat, stale : BOOLEAN] \cup
    [at : {"restating", "setting"}, bay : Bays, status : BayStatus, stale : BOOLEAN]

AssignmentsTypeOK ==
    /\ assignment \in [Orders -> Seq(AssignmentRows)]
    /\ bayStatus \in [Bays -> BayStatus]
    /\ occupancy \in Seq(OccupancyRows)

AssignmentsInit ==
    /\ assignment = [o \in Orders |-> <<>>]
    /\ bayStatus = [b \in Bays |-> "ACTIVE"]
    /\ occupancy = <<>>

-----------------------------------------------------------------------------
(* Technicians.                                                            *)

ActiveAssignments(o) ==
    {i \in DOMAIN assignment[o] : assignment[o][i].status = "ACTIVE"}

Exists(o) == order[o].status # "ABSENT"

Assigned(rows, t) == Append(rows, [technician |-> t, status |-> "ACTIVE"])

HasReadAssignments(o, r) ==
    r.at \in {"assigning", "reassigning", "removing"} /\ r.order = o

(* Faulty variant: an assignment that is there already not looked for.     *)
UnassignedAnyway(o) == TRUE

Unassigned(o) == ActiveAssignments(o) = {}

CheckAssign(w, o, t) ==
    /\ Exists(o) /\ Unassigned(o)
    /\ Begin(w, [at |-> "assigning", order |-> o, technician |-> t, stale |-> FALSE])
    /\ UNCHANGED <<order, unkept, assignVars>>

AssignTechnician(w) ==
    LET o == req[w].order
        t == req[w].technician
    IN /\ req[w].at = "assigning"
       /\ Len(assignment[o]) < MaxRows
       /\ assignment' = [assignment EXCEPT ![o] = Assigned(@, t)]
       /\ order' = [order EXCEPT ![o].technician = t]
       /\ CommitOver(w, LAMBDA r : HasReadAssignments(o, r))
       /\ Keep(w, "technician")
       /\ UNCHANGED <<bayStatus, occupancy>>

CheckReassign(w, o, t) ==
    \E i \in ActiveAssignments(o) :
       /\ assignment[o][i].technician # t
       /\ Begin(w, [at |-> "reassigning", order |-> o, technician |-> t, row |-> i,
                    stale |-> FALSE])
       /\ UNCHANGED <<order, unkept, assignVars>>

ReassignTechnician(w) ==
    LET o == req[w].order
        t == req[w].technician
    IN /\ req[w].at = "reassigning"
       /\ Len(assignment[o]) < MaxRows
       /\ assignment' = [assignment EXCEPT ![o] =
             Assigned([@ EXCEPT ![req[w].row].status = "REASSIGNED"], t)]
       /\ order' = [order EXCEPT ![o].technician = t]
       /\ CommitOver(w, LAMBDA r : HasReadAssignments(o, r))
       /\ Keep(w, "technician")
       /\ UNCHANGED <<bayStatus, occupancy>>

CheckRemove(w, o) ==
    \E i \in ActiveAssignments(o) :
       /\ Begin(w, [at |-> "removing", order |-> o, row |-> i, stale |-> FALSE])
       /\ UNCHANGED <<order, unkept, assignVars>>

(* Rolled back unless the order's technician is the one to be removed.     *)
RemoveTechnician(w) ==
    LET o == req[w].order
        i == req[w].row
    IN /\ req[w].at = "removing"
       /\ IF order[o].technician = assignment[o][i].technician
          THEN /\ assignment' = [assignment EXCEPT ![o][i].status = "REMOVED"]
               /\ order' = [order EXCEPT ![o].technician = None]
               /\ CommitOver(w, LAMBDA r : HasReadAssignments(o, r))
               /\ Keep(w, "technician")
          ELSE Finish(w) /\ UNCHANGED <<order, unkept, assignment>>
       /\ UNCHANGED <<bayStatus, occupancy>>

(* PATCH stores a technician without an assignment.                        *)
PatchTechnician(o, t) ==
    /\ Exists(o)
    /\ order' = [order EXCEPT ![o].technician = t]
    /\ unkept' = IF assignment[o] # <<>> THEN unkept \cup {"technician"} ELSE unkept
    /\ UNCHANGED <<req, assignVars>>

-----------------------------------------------------------------------------
(* Bays.                                                                   *)

OccupiedBy(o) == {i \in DOMAIN occupancy : occupancy[i].active /\ occupancy[i].order = o}
Occupants(b) == {i \in DOMAIN occupancy : occupancy[i].active /\ occupancy[i].bay = b}

HasReadBay(b, o, r) ==
    \/ r.at \in {"placing", "entering", "occupying"} /\ (r.bay = b \/ r.order = o)
    \/ r.at \in {"restating", "setting"} /\ r.bay = b

CheckBay(w, o, b) ==
    /\ Exists(o) /\ bayStatus[b] = "ACTIVE"
    /\ Begin(w, [at |-> "placing", order |-> o, bay |-> b, stale |-> FALSE])
    /\ UNCHANGED <<order, unkept, assignVars>>

CheckUnplaced(w) ==
    /\ req[w].at = "placing"
    /\ IF OccupiedBy(req[w].order) = {} THEN Goto(w, [req[w] EXCEPT !.at = "entering"])
       ELSE Finish(w)
    /\ UNCHANGED <<order, unkept, assignVars>>

CheckVacant(w) ==
    /\ req[w].at = "entering"
    /\ IF Occupants(req[w].bay) = {} THEN Goto(w, [req[w] EXCEPT !.at = "occupying"])
       ELSE Finish(w)
    /\ UNCHANGED <<order, unkept, assignVars>>

OccupyBay(w) ==
    LET o == req[w].order
        b == req[w].bay
    IN /\ req[w].at = "occupying"
       /\ Len(occupancy) < MaxRows
       /\ occupancy' = Append(occupancy, [bay |-> b, order |-> o, active |-> TRUE])
       /\ CommitOver(w, LAMBDA r : HasReadBay(b, o, r))
       /\ Keep(w, "bay")
       /\ UNCHANGED <<order, assignment, bayStatus>>

CheckRelease(w, o) ==
    \E i \in OccupiedBy(o) :
       /\ Begin(w, [at |-> "releasing", row |-> i, stale |-> FALSE])
       /\ UNCHANGED <<order, unkept, assignVars>>

ReleaseBay(w) ==
    LET i == req[w].row
    IN /\ req[w].at = "releasing"
       /\ IF occupancy[i].active THEN occupancy' = [occupancy EXCEPT ![i].active = FALSE]
          ELSE UNCHANGED occupancy
       /\ Finish(w)
       /\ UNCHANGED <<order, unkept, assignment, bayStatus>>

CheckBayStatus(w, b, status) ==
    /\ bayStatus[b] # status
    /\ Begin(w, [at |-> "restating", bay |-> b, status |-> status, stale |-> FALSE])
    /\ UNCHANGED <<order, unkept, assignVars>>

(* Faulty variant: a bay is taken out of service with an order in it.      *)
MaySetAnyway(b, status) == TRUE

MaySet(b, status) == status = "ACTIVE" \/ Occupants(b) = {}

CheckOccupied(w) ==
    /\ req[w].at = "restating"
    /\ IF MaySet(req[w].bay, req[w].status) THEN Goto(w, [req[w] EXCEPT !.at = "setting"])
       ELSE Finish(w)
    /\ UNCHANGED <<order, unkept, assignVars>>

SetBayStatus(w) ==
    LET b == req[w].bay
    IN /\ req[w].at = "setting"
       /\ bayStatus' = [bayStatus EXCEPT ![b] = req[w].status]
       /\ CommitOver(w, LAMBDA r : HasReadBay(b, None, r))
       /\ Keep(w, "bay")
       /\ UNCHANGED <<order, assignment, occupancy>>

AssignmentStep ==
    \/ \E w \in Workers, o \in Orders :
          \/ \E t \in Technicians : CheckAssign(w, o, t) \/ CheckReassign(w, o, t)
          \/ CheckRemove(w, o) \/ CheckRelease(w, o)
          \/ \E b \in Bays : CheckBay(w, o, b)
    \/ \E w \in Workers, b \in Bays, status \in BayStatus : CheckBayStatus(w, b, status)
    \/ \E w \in Workers :
          \/ AssignTechnician(w) \/ ReassignTechnician(w) \/ RemoveTechnician(w)
          \/ CheckUnplaced(w) \/ CheckVacant(w) \/ OccupyBay(w) \/ ReleaseBay(w)
          \/ CheckOccupied(w) \/ SetBayStatus(w)
    \/ \E o \in Orders, t \in Technicians : PatchTechnician(o, t)
=============================================================================
