----------------------------- MODULE WorkshopProofs -----------------------------
(***************************************************************************)
(* For every number of orders, appointments, technicians, bays, dates and  *)
(* requests: an appointment becomes at most one order; and as long as no   *)
(* request commits what it decided on a stale read, and no one edits by    *)
(* hand, an order keeps one active block and shows its date, keeps one     *)
(* active assignment and shows its technician, and a bay holds one order.  *)
(*                                                                         *)
(* The three claims are proved alike, each with an invariant of its own.   *)
(* What a request has read is so until a commit makes the request stale;   *)
(* every commit makes all others stale that have read what it changes; so  *)
(* a request that is not stale acts on what is so, and the step keeps the  *)
(* claim for the order (or bay) it is about and touches no other.  A step  *)
(* of another component is about other columns and other requests.  For    *)
(* appointments no staleness is needed: an appointment and its order name  *)
(* each other, as the conversion compares that the appointment has none.   *)
(*                                                                         *)
(* The time clock works the same way (ClockInv): whoever looks for an open *)
(* entry, or has read the one it will close or correct, is made stale by   *)
(* what changes it.  A correction appends rows about its own entry, one    *)
(* for a field it changes and none for a field it keeps, so the log leads  *)
(* to the new value of that field and still to those of the others.        *)
(***************************************************************************)
EXTENDS Workshop, TimeClock, SequenceTheorems, FiniteSetTheorems, WellFoundedInduction, TLAPS

RequestSet == {Idle} \cup ScheduleRequests \cup AssignmentRequests \cup AppointmentRequests

FoundAt == {"replacing", "cancelling"}
ReadAt == {"assigning", "reassigning", "removing"}
PlaceAt == {"placing", "entering", "occupying"}
SetAt == {"restating", "setting"}
AppointmentAt == {"confirming", "checking in", "calling off", "converting"}

-----------------------------------------------------------------------------
(* The fields a request has in each phase.                                  *)
LEMMA RequestFields ==
    ASSUME NEW r \in RequestSet
    PROVE  /\ r.at \in {"scheduling", "rescheduling", "unscheduling"} \cup FoundAt
                         \cup ReadAt \cup PlaceAt => r.order \in Orders
           /\ r.at \in {"scheduling", "rescheduling", "replacing"} => r.date \in Dates
           /\ r.at = "scheduling" => r.ended \in BOOLEAN
           /\ r.at \in FoundAt \cup {"reassigning", "removing", "releasing"} => r.row \in Nat
           /\ r.at \in {"assigning", "reassigning"} => r.technician \in Technicians
           /\ r.at \in PlaceAt \cup SetAt => r.bay \in Bays
           /\ r.at \in SetAt => r.status \in BayStatus
           /\ r.at \in AppointmentAt => r.appointment \in Appointments
           /\ r.stale \in BOOLEAN
           /\ r.at = "idle" => r = Idle
<1> USE DEF FoundAt, ReadAt, PlaceAt, SetAt, AppointmentAt
<1>1. CASE r = Idle
    BY <1>1 DEF Idle
<1>2. CASE r \in [at : {"scheduling"}, order : Orders, date : Dates, ended : BOOLEAN,
                  stale : BOOLEAN]
    BY <1>2 DEF Idle
<1>3. CASE r \in [at : {"rescheduling"}, order : Orders, date : Dates, stale : BOOLEAN]
    BY <1>3 DEF Idle
<1>4. CASE r \in [at : {"replacing"}, order : Orders, date : Dates, row : Nat, stale : BOOLEAN]
    BY <1>4 DEF Idle
<1>5. CASE r \in [at : {"unscheduling"}, order : Orders, stale : BOOLEAN]
    BY <1>5 DEF Idle
<1>6. CASE r \in [at : {"cancelling"}, order : Orders, row : Nat, stale : BOOLEAN]
    BY <1>6 DEF Idle
<1>7. CASE r \in [at : {"assigning"}, order : Orders, technician : Technicians, stale : BOOLEAN]
    BY <1>7 DEF Idle
<1>8. CASE r \in [at : {"reassigning"}, order : Orders, technician : Technicians, row : Nat,
                  stale : BOOLEAN]
    BY <1>8 DEF Idle
<1>9. CASE r \in [at : {"removing"}, order : Orders, row : Nat, stale : BOOLEAN]
    BY <1>9 DEF Idle
<1>10. CASE r \in [at : {"placing", "entering", "occupying"}, order : Orders, bay : Bays,
                   stale : BOOLEAN]
    BY <1>10 DEF Idle
<1>11. CASE r \in [at : {"releasing"}, row : Nat, stale : BOOLEAN]
    BY <1>11 DEF Idle
<1>12. CASE r \in [at : {"restating", "setting"}, bay : Bays, status : BayStatus,
                   stale : BOOLEAN]
    BY <1>12 DEF Idle
<1>13. CASE r \in AppointmentRequests
    BY <1>13 DEF AppointmentRequests, Idle
<1> QED
    BY <1>1, <1>2, <1>3, <1>4, <1>5, <1>6, <1>7, <1>8, <1>9, <1>10, <1>11, <1>12, <1>13
       DEF RequestSet, ScheduleRequests, AssignmentRequests

LEMMA BayRequest ==
    ASSUME NEW r \in RequestSet, r.at \in PlaceAt \cup SetAt
    PROVE  r \in AssignmentRequests
<1> USE DEF PlaceAt, SetAt
<1>1. r # Idle
    BY DEF Idle
<1>2. r \notin ScheduleRequests
    BY DEF ScheduleRequests
<1>3. r \notin AppointmentRequests
    BY DEF AppointmentRequests
<1> QED
    BY <1>1, <1>2, <1>3 DEF RequestSet

(* A request that others have overtaken keeps everything else.              *)
Staled(r) == [r EXCEPT !.stale = TRUE]

LEMMA StaledRequest ==
    ASSUME NEW r \in RequestSet, r # Idle
    PROVE  /\ Staled(r) \in RequestSet
           /\ Staled(r).stale = TRUE
           /\ Staled(r).at = r.at
           /\ r.at \in ReadAt => Staled(r).order = r.order
<1> USE DEF ReadAt, Staled
<1>2. CASE r \in ScheduleRequests
    BY <1>2 DEF ScheduleRequests, RequestSet
<1>3. CASE r \in AssignmentRequests
    BY <1>3 DEF AssignmentRequests, RequestSet
<1>4. CASE r \in AppointmentRequests
    BY <1>4 DEF AppointmentRequests, RequestSet
<1> QED
    BY <1>2, <1>3, <1>4 DEF RequestSet

LEMMA TypedRequests == TypeOK => req \in [Workers -> RequestSet]
BY DEF TypeOK, RequestSet

LEMMA IdleRequest == Idle \in RequestSet
BY DEF RequestSet

(* A request that commits, and those that it overtakes.                     *)
Overtaken(w) ==
    \A v \in Workers :
       \/ v = w /\ req'[v] = Idle
       \/ req'[v] = req[v]
       \/ req[v] # Idle /\ req'[v] = Staled(req[v])

LEMMA OvertakenTyped ==
    ASSUME req \in [Workers -> RequestSet], NEW w \in Workers, Overtaken(w),
           req' = [v \in Workers |-> req'[v]]
    PROVE  req' \in [Workers -> RequestSet]
BY IdleRequest, StaledRequest DEF Overtaken

LEMMA BlockMoves ==
    ASSUME NEW w \in Workers,
           \/ Reschedule(w)
           \/ CancelSchedule(w) /\ order[req[w].order].status = "SCHEDULED"
    PROVE  /\ req' = [v \in Workers |-> req'[v]]
           /\ Overtaken(w)
           /\ \A v \in Workers : v # w /\ HasFound(req[w].order, req[v]) /\ req[v] # Idle =>
                 req'[v] = Staled(req[v])
BY DEF Reschedule, CancelSchedule, CommitOver, Overtaken, Staled

LEMMA AssignMoves ==
    ASSUME NEW w \in Workers,
           \/ AssignTechnician(w) \/ ReassignTechnician(w)
           \/ /\ RemoveTechnician(w)
              /\ order[req[w].order].technician
                    = assignment[req[w].order][req[w].row].technician
    PROVE  /\ req' = [v \in Workers |-> req'[v]]
           /\ Overtaken(w)
           /\ \A v \in Workers :
                 v # w /\ HasReadAssignments(req[w].order, req[v]) /\ req[v] # Idle =>
                 req'[v] = Staled(req[v])
BY DEF AssignTechnician, ReassignTechnician, RemoveTechnician, CommitOver, Overtaken, Staled

LEMMA BayMoves ==
    ASSUME NEW w \in Workers, NEW o,
           \/ OccupyBay(w) /\ o = req[w].order
           \/ SetBayStatus(w) /\ o = None
    PROVE  /\ req' = [v \in Workers |-> req'[v]]
           /\ Overtaken(w)
           /\ \A v \in Workers : v # w /\ HasReadBay(req[w].bay, o, req[v]) /\ req[v] # Idle =>
                 req'[v] = Staled(req[v])
BY DEF OccupyBay, SetBayStatus, CommitOver, Overtaken, Staled

(* A row rewritten, and another appended to the result.                     *)
LEMMA Rewritten ==
    ASSUME NEW S, NEW s \in Seq(S), NEW i \in Nat, NEW e, i \in DOMAIN s => e \in S
    PROVE  /\ [s EXCEPT ![i] = e] \in Seq(S)
           /\ Len([s EXCEPT ![i] = e]) = Len(s)
           /\ DOMAIN [s EXCEPT ![i] = e] = DOMAIN s
           /\ \A j \in DOMAIN s : [s EXCEPT ![i] = e][j] = IF j = i THEN e ELSE s[j]
<1>1. DOMAIN s = 1..Len(s)
    OBVIOUS
<1>2. CASE i \in 1..Len(s)
    BY <1>1, <1>2, ExceptSeq
<1>3. CASE i \notin 1..Len(s)
    <2>1. [s EXCEPT ![i] = e] = s
        BY <1>1, <1>3
    <2> QED BY <1>1, <1>3, <2>1
<1> QED
    BY <1>2, <1>3

LEMMA Appended ==
    ASSUME NEW S, NEW s \in Seq(S), NEW x \in S
    PROVE  /\ Append(s, x) \in Seq(S)
           /\ Len(Append(s, x)) = Len(s) + 1
           /\ DOMAIN Append(s, x) = 1 .. (Len(s) + 1)
           /\ Append(s, x)[Len(s) + 1] = x
           /\ \A j \in DOMAIN s : Append(s, x)[j] = s[j]
BY AppendProperties

LEMMA Replaced ==
    ASSUME NEW S, NEW s \in Seq(S), NEW i \in Nat, NEW e, i \in DOMAIN s => e \in S,
           NEW x \in S
    PROVE  LET t == Append([s EXCEPT ![i] = e], x)
           IN /\ t \in Seq(S) /\ Len(t) = Len(s) + 1
              /\ DOMAIN t = 1 .. (Len(s) + 1)
              /\ t[Len(s) + 1] = x
              /\ \A j \in DOMAIN s : t[j] = IF j = i THEN e ELSE s[j]
<1>1. PICK u \in Seq(S) :
         /\ u = [s EXCEPT ![i] = e]
         /\ Len(u) = Len(s) /\ DOMAIN u = DOMAIN s
         /\ \A j \in DOMAIN s : u[j] = IF j = i THEN e ELSE s[j]
    BY Rewritten
<1>2. /\ Append(u, x) \in Seq(S) /\ Len(Append(u, x)) = Len(s) + 1
      /\ DOMAIN Append(u, x) = 1 .. (Len(s) + 1)
      /\ Append(u, x)[Len(s) + 1] = x
    BY <1>1, Appended
<1>3. \A j \in DOMAIN s : Append(u, x)[j] = u[j]
    BY <1>1, Appended
<1> QED
    BY <1>1, <1>2, <1>3

(* Some row of a set of rows is the newest.                                 *)
LEMMA NewestRow ==
    ASSUME NEW n \in Nat, NEW T \in SUBSET (1 .. n), T # {}
    PROVE  \E i \in T : \A j \in T : j <= i
<1> DEFINE U == {n - i : i \in T}
<1>1. U \subseteq Nat /\ U # {}
    <2>1. \A i \in T : n - i \in Nat
        OBVIOUS
    <2> QED BY <2>1
<1>2. PICK u \in U : \A v \in U : ~ (<<v, u>> \in OpToRel(<, Nat))
    BY <1>1, WFMin, NatLessThanWellFounded
<1>3. \A v \in U : ~ (v < u)
    BY <1>1, <1>2 DEF OpToRel
<1>4. PICK i \in T : u = n - i
    BY <1>2
<1>5. ASSUME NEW j \in T PROVE j <= i
    <2>1. n - j \in U
        OBVIOUS
    <2>2. ~ (n - j < n - i)
        BY <1>3, <1>4, <2>1
    <2> QED BY <2>2
<1> QED
    BY <1>5

-----------------------------------------------------------------------------
(* Types.                                                                   *)
LEMMA InitTyped == Init => TypeOK
<1> SUFFICES ASSUME Init PROVE TypeOK
    OBVIOUS
<1>1. order \in [Orders -> OrderRows]
    BY DEF Init, FloorInit, Created, OrderRows, OrderStatus
<1>2. /\ req \in [Workers -> {Idle} \cup ScheduleRequests \cup AssignmentRequests
                             \cup AppointmentRequests]
      /\ unkept \subseteq {"schedule", "technician", "bay"}
    BY DEF Init, FloorInit
<1>3. AppointmentTypeOK
    BY DEF Init, AppointmentInit, AppointmentTypeOK, AppointmentRows, AppointmentStatus
<1>4. ScheduleTypeOK /\ AssignmentsTypeOK
    BY DEF Init, ScheduleInit, AssignmentsInit, ScheduleTypeOK, AssignmentsTypeOK, BayStatus
<1> QED
    BY <1>1, <1>2, <1>3, <1>4 DEF TypeOK

(* Every step either leaves a request alone, begins or moves one, or        *)
(* commits one and overtakes others.                                        *)
LEMMA BegunTyped ==
    ASSUME TypeOK, NEW w \in Workers, NEW r \in RequestSet, Begin(w, r) \/ Goto(w, r)
    PROVE  req' \in [Workers -> RequestSet]
BY TypedRequests DEF Begin, Goto

LEMMA AppointmentTyped ==
    ASSUME TypeOK, AppointmentStep
    PROVE  /\ req' \in [Workers -> RequestSet]
           /\ order' \in [Orders -> OrderRows]
           /\ appointment' \in [Appointments -> AppointmentRows]
           /\ unkept' = unkept
<1>0. /\ req \in [Workers -> RequestSet]
      /\ order \in [Orders -> OrderRows]
      /\ appointment \in [Appointments -> AppointmentRows]
    BY TypedRequests DEF TypeOK, AppointmentTypeOK
<1>1. ASSUME NEW a \in Appointments, NEW complete \in BOOLEAN, NEW d \in Dates,
             CreateAppointment(a, complete, d)
      PROVE  /\ UNCHANGED floorVars
             /\ appointment' \in [Appointments -> AppointmentRows]
    <2>1. [status |-> "REQUESTED", complete |-> complete, date |-> d, order |-> None]
             \in AppointmentRows
        BY DEF AppointmentRows, AppointmentStatus
    <2> QED BY <1>0, <1>1, <2>1 DEF CreateAppointment
<1>2. ASSUME NEW w \in Workers, NEW a \in Appointments, NEW at \in AppointmentAt,
             CheckAppointment(w, at, a)
      PROVE  /\ req' \in [Workers -> RequestSet]
             /\ UNCHANGED <<order, unkept, appointment>>
    <2>1. [at |-> at, appointment |-> a, stale |-> FALSE] \in RequestSet
        BY DEF RequestSet, AppointmentRequests, AppointmentAt
    <2> QED BY <1>2, <2>1, BegunTyped DEF CheckAppointment
<1>3. ASSUME NEW w \in Workers, NEW at \in AppointmentAt, NEW status \in AppointmentStatus,
             SetStatus(w, at, status)
      PROVE  /\ req' \in [Workers -> RequestSet]
             /\ UNCHANGED <<order, unkept>>
             /\ appointment' \in [Appointments -> AppointmentRows]
    <2>1. req' \in [Workers -> RequestSet]
        BY <1>3, IdleRequest, BegunTyped DEF SetStatus, Finish
    <2>2. [appointment EXCEPT ![req[w].appointment].status = status]
             \in [Appointments -> AppointmentRows]
        BY <1>0 DEF AppointmentRows
    <2> QED BY <1>0, <1>3, <2>1, <2>2 DEF SetStatus
<1>4. ASSUME NEW w \in Workers, ConvertToRepairOrder(w)
      PROVE  /\ req' \in [Workers -> RequestSet]
             /\ unkept' = unkept
             /\ order' \in [Orders -> OrderRows]
             /\ appointment' \in [Appointments -> AppointmentRows]
    <2>1. req' \in [Workers -> RequestSet]
        BY <1>4, IdleRequest, BegunTyped DEF ConvertToRepairOrder, Finish
    <2>2. CASE UNCHANGED <<order, appointment>>
        BY <1>0, <1>4, <2>1, <2>2 DEF ConvertToRepairOrder
    <2>3. CASE \E o \in Orders :
                  /\ order' = [order EXCEPT ![o] = Created("EARLIER",
                                       appointment[req[w].appointment].date, None,
                                       req[w].appointment)]
                  /\ appointment' =
                       [appointment EXCEPT ![req[w].appointment].status = "CONVERTED_TO_RO",
                                           ![req[w].appointment].order = o]
        <3> DEFINE a == req[w].appointment
        <3>1. a \in Appointments
            BY <1>0, <1>4, RequestFields DEF ConvertToRepairOrder, AppointmentAt
        <3>2. appointment[a] \in AppointmentRows
            BY <1>0, <3>1
        <3>3. Created("EARLIER", appointment[a].date, None, a) \in OrderRows
            BY <3>1, <3>2 DEF Created, OrderRows, OrderStatus, AppointmentRows
        <3>4. PICK o \in Orders :
                  /\ order' = [order EXCEPT ![o] = Created("EARLIER", appointment[a].date, None, a)]
                  /\ appointment' = [appointment EXCEPT ![a].status = "CONVERTED_TO_RO",
                                                        ![a].order = o]
            BY <2>3
        <3>5. order' \in [Orders -> OrderRows]
            BY <1>0, <3>3, <3>4
        <3>6. appointment' \in [Appointments -> AppointmentRows]
            BY <1>0, <3>1, <3>2, <3>4 DEF AppointmentRows, AppointmentStatus
        <3> QED BY <1>4, <2>1, <3>5, <3>6 DEF ConvertToRepairOrder
    <2> QED BY <1>4, <2>2, <2>3 DEF ConvertToRepairOrder
<1> QED
    BY <1>0, <1>1, <1>2, <1>3, <1>4 DEF AppointmentStep, ConfirmAppointment, CheckIn,
       CancelAppointment, AppointmentAt, AppointmentStatus, floorVars

LEMMA NewestActiveRow ==
    ASSUME TypeOK, NEW o \in Orders, ActiveBlocks(o) # {}
    PROVE  NewestActive(o) \in ActiveBlocks(o) /\ NewestActive(o) \in Nat
<1>1. block[o] \in Seq(BlockRows)
    BY DEF TypeOK, ScheduleTypeOK
<1>2. ActiveBlocks(o) \in SUBSET (1 .. Len(block[o])) /\ Len(block[o]) \in Nat
    BY <1>1 DEF ActiveBlocks
<1>3. \E i \in ActiveBlocks(o) : \A j \in ActiveBlocks(o) : j <= i
    BY <1>2, NewestRow
<1> QED
    BY <1>2, <1>3 DEF NewestActive

LEMMA ScheduleTyped ==
    ASSUME TypeOK, ScheduleStep
    PROVE  /\ req' \in [Workers -> RequestSet]
           /\ order' \in [Orders -> OrderRows]
           /\ block' \in [Orders -> Seq(BlockRows)]
           /\ unkept' \in {unkept, unkept \cup {"schedule"}}
<1>0. /\ req \in [Workers -> RequestSet]
      /\ order \in [Orders -> OrderRows]
      /\ block \in [Orders -> Seq(BlockRows)]
    BY TypedRequests DEF TypeOK, ScheduleTypeOK
<1> DEFINE Typed == /\ req' \in [Workers -> RequestSet]
                    /\ order' \in [Orders -> OrderRows]
                    /\ block' \in [Orders -> Seq(BlockRows)]
                    /\ unkept' \in {unkept, unkept \cup {"schedule"}}
<1>1. ASSUME NEW w \in Workers, NEW r \in RequestSet, Begin(w, r) \/ Goto(w, r),
             UNCHANGED <<order, unkept, block>>
      PROVE  Typed
    BY <1>0, <1>1, BegunTyped
<1>2. ASSUME NEW o \in Orders, NEW s \in OrderStatus, NEW d \in Dates \cup {None}
      PROVE  /\ [order EXCEPT ![o].status = s, ![o].date = d] \in [Orders -> OrderRows]
             /\ [order EXCEPT ![o].date = d] \in [Orders -> OrderRows]
             /\ [order EXCEPT ![o].status = s] \in [Orders -> OrderRows]
    BY <1>0 DEF OrderRows
<1>3. ASSUME NEW d \in Dates, NEW s \in {"ACTIVE", "CANCELLED", "ENDED"}
      PROVE  Block(d, s) \in BlockRows
    BY DEF Block, BlockRows
<1>4. ASSUME NEW o \in Orders, NEW i \in Nat
      PROVE  /\ block[o] \in Seq(BlockRows)
             /\ i \in DOMAIN block[o] => [block[o][i] EXCEPT !.status = "CANCELLED"] \in BlockRows
    <2>1. block[o] \in Seq(BlockRows)
        BY <1>0
    <2>2. i \in DOMAIN block[o] => block[o][i] \in BlockRows
        BY <2>1
    <2> QED BY <2>1, <2>2 DEF BlockRows
<1>5. ASSUME NEW w \in Workers, NEW o \in Orders, NEW d \in Dates, NEW ended \in BOOLEAN,
             CheckSchedule(w, o, d, ended) \/ CheckReschedule(w, o, d)
      PROVE  Typed
    <2>1. /\ [at |-> "scheduling", order |-> o, date |-> d, ended |-> ended, stale |-> FALSE]
                \in RequestSet
          /\ [at |-> "rescheduling", order |-> o, date |-> d, stale |-> FALSE] \in RequestSet
        BY DEF RequestSet, ScheduleRequests
    <2> HIDE DEF Typed
    <2> QED BY <1>1, <1>5, <2>1 DEF CheckSchedule, CheckReschedule
<1>6. ASSUME NEW w \in Workers, NEW o \in Orders, CheckUnschedule(w, o)
       PROVE  Typed
    <2>1. [at |-> "unscheduling", order |-> o, stale |-> FALSE] \in RequestSet
        BY DEF RequestSet, ScheduleRequests
    <2> HIDE DEF Typed
    <2> QED BY <1>1, <1>6, <2>1 DEF CheckUnschedule
<1>7. ASSUME NEW w \in Workers, ScheduleOrder(w)
      PROVE  Typed
    <2> DEFINE o == req[w].order
               d == req[w].date
    <2>1. o \in Orders /\ d \in Dates
        BY <1>0, <1>7, RequestFields DEF ScheduleOrder
    <2>2. req' \in [Workers -> RequestSet]
        BY <1>7, IdleRequest, BegunTyped DEF ScheduleOrder, Finish
    <2>3. CASE UNCHANGED <<order, block>>
        BY <1>0, <1>7, <2>2, <2>3 DEF ScheduleOrder
    <2>4. ASSUME NEW s \in {"ENDED", "ACTIVE"},
                 order' = [order EXCEPT ![o].status = "SCHEDULED", ![o].date = d],
                 block' = [block EXCEPT ![o] = Append(@, Block(d, s))]
          PROVE  Typed
        <3>1. Append(block[o], Block(d, s)) \in Seq(BlockRows)
            BY <1>3, <1>4, <2>1, Appended
        <3>2. block' \in [Orders -> Seq(BlockRows)]
            BY <1>0, <2>4, <3>1
        <3>3. order' \in [Orders -> OrderRows]
            BY <1>2, <2>1, <2>4 DEF OrderStatus
        <3> QED BY <1>7, <2>2, <3>2, <3>3 DEF ScheduleOrder
    <2> QED BY <1>7, <2>3, <2>4 DEF ScheduleOrder
<1>8. ASSUME NEW w \in Workers, FindForReschedule(w) \/ FindForCancel(w)
      PROVE  Typed
    <2> DEFINE o == req[w].order
    <2>1. o \in Orders
        BY <1>0, <1>8, RequestFields DEF FindForReschedule, FindForCancel
    <2>2. CASE Finish(w)
        BY <1>1, <1>8, <2>2, IdleRequest DEF FindForReschedule, FindForCancel, Finish
    <2>3. CASE /\ FindForReschedule(w) /\ ActiveBlocks(o) # {}
        <3>1. req[w].date \in Dates /\ NewestActive(o) \in Nat
            BY <1>0, <2>1, <2>3, RequestFields, NewestActiveRow DEF FindForReschedule
        <3>2. [at |-> "replacing", order |-> o, date |-> req[w].date,
               row |-> NewestActive(o), stale |-> FALSE] \in RequestSet
            BY <2>1, <3>1 DEF RequestSet, ScheduleRequests
        <3> QED BY <1>1, <2>3, <3>2 DEF FindForReschedule
    <2>4. CASE /\ FindForCancel(w) /\ ActiveBlocks(o) # {}
        <3>1. NewestActive(o) \in Nat
            BY <2>1, <2>4, NewestActiveRow
        <3>2. [at |-> "cancelling", order |-> o, row |-> NewestActive(o), stale |-> FALSE]
                 \in RequestSet
            BY <2>1, <3>1 DEF RequestSet, ScheduleRequests
        <3> QED BY <1>1, <2>4, <3>2 DEF FindForCancel
    <2> HIDE DEF Typed
    <2> QED BY <1>8, <2>2, <2>3, <2>4 DEF FindForReschedule, FindForCancel
<1>9. ASSUME NEW w \in Workers, Reschedule(w)
      PROVE  Typed
    <2> DEFINE o == req[w].order
               d == req[w].date
               e == [block[o][req[w].row] EXCEPT !.status = "CANCELLED"]
    <2>1. o \in Orders /\ d \in Dates /\ req[w].row \in Nat
        BY <1>0, <1>9, RequestFields DEF Reschedule, FoundAt
    <2>2. req' \in [Workers -> RequestSet]
        BY <1>0, <1>9, BlockMoves, OvertakenTyped
    <2>3. Append([block[o] EXCEPT ![req[w].row] = e], Block(d, "ACTIVE")) \in Seq(BlockRows)
        BY <1>3, <1>4, <2>1, Replaced
    <2>4. block' \in [Orders -> Seq(BlockRows)]
        BY <1>0, <1>9, <2>1, <2>3 DEF Reschedule
    <2>5. order' \in [Orders -> OrderRows]
        BY <1>2, <1>9, <2>1 DEF Reschedule, OrderStatus
    <2> QED BY <1>9, <2>2, <2>4, <2>5 DEF Reschedule, Keep
<1>10. ASSUME NEW w \in Workers, CancelSchedule(w)
      PROVE  Typed
    <2> DEFINE o == req[w].order
               e == [block[o][req[w].row] EXCEPT !.status = "CANCELLED"]
    <2>1. o \in Orders /\ req[w].row \in Nat
        BY <1>0, <1>10, RequestFields DEF CancelSchedule, FoundAt
    <2>2. CASE Finish(w) /\ UNCHANGED <<order, unkept, block>>
        BY <1>1, <1>10, <2>2, IdleRequest DEF Finish
    <2>3. CASE order[o].status = "SCHEDULED"
        <3>1. req' \in [Workers -> RequestSet]
            BY <1>0, <1>10, <2>3, BlockMoves, OvertakenTyped
        <3>2. [block[o] EXCEPT ![req[w].row] = e] \in Seq(BlockRows)
            BY <1>4, <2>1, Rewritten
        <3>3. block' \in [Orders -> Seq(BlockRows)]
            BY <1>0, <1>10, <2>1, <2>3, <3>2 DEF CancelSchedule
        <3>4. order' \in [Orders -> OrderRows]
            <4>1. order' = [order EXCEPT ![o].status = "READY_TO_WORK", ![o].date = None]
                BY <1>10, <2>3 DEF CancelSchedule
            <4>2. "READY_TO_WORK" \in OrderStatus
                BY DEF OrderStatus
            <4> QED BY <1>2, <2>1, <4>1, <4>2
        <3> QED BY <1>10, <2>3, <3>1, <3>3, <3>4 DEF CancelSchedule, Keep
    <2> HIDE DEF Typed
    <2> QED BY <1>10, <2>2, <2>3 DEF CancelSchedule
<1>11. ASSUME NEW o \in Orders, NEW to \in OrderStatus, MoveOrder(o, to)
       PROVE  Typed
    BY <1>0, <1>2, <1>11 DEF MoveOrder
<1>12. ASSUME NEW o \in Orders, NEW d \in Dates, PatchDate(o, d)
       PROVE  Typed
    <2>1. [order EXCEPT ![o].date = d] \in [Orders -> OrderRows]
        BY <1>2 DEF OrderStatus
    <2> QED BY <1>0, <1>12, <2>1 DEF PatchDate
<1> HIDE DEF Typed
<1>13. Typed
    BY <1>5, <1>6, <1>7, <1>8, <1>9, <1>10, <1>11, <1>12 DEF ScheduleStep
<1> QED
    BY <1>13 DEF Typed

LEMMA AssignmentTyped ==
    ASSUME TypeOK, AssignmentStep
    PROVE  /\ req' \in [Workers -> RequestSet]
           /\ order' \in [Orders -> OrderRows]
           /\ unkept' \subseteq {"schedule", "technician", "bay"}
           /\ AssignmentsTypeOK'
<1>0. /\ req \in [Workers -> RequestSet]
      /\ order \in [Orders -> OrderRows]
      /\ unkept \subseteq {"schedule", "technician", "bay"}
      /\ assignment \in [Orders -> Seq(AssignmentRows)]
      /\ bayStatus \in [Bays -> BayStatus]
      /\ occupancy \in Seq(OccupancyRows)
    BY TypedRequests DEF TypeOK, AssignmentsTypeOK
<1> DEFINE Typed == /\ req' \in [Workers -> RequestSet]
                    /\ order' \in [Orders -> OrderRows]
                    /\ unkept' \subseteq {"schedule", "technician", "bay"}
                    /\ AssignmentsTypeOK'
<1>1. ASSUME NEW w \in Workers, NEW r \in RequestSet, Begin(w, r) \/ Goto(w, r),
             UNCHANGED <<order, unkept, assignVars>>
      PROVE  Typed
    <2>1. req' \in [Workers -> RequestSet]
        BY <1>1, BegunTyped
    <2> QED BY <1>0, <1>1, <2>1 DEF AssignmentsTypeOK, assignVars
<1>2. ASSUME NEW o \in Orders, NEW t \in Technicians \cup {None}
      PROVE  [order EXCEPT ![o].technician = t] \in [Orders -> OrderRows]
    BY <1>0 DEF OrderRows
<1>3. ASSUME NEW o \in Orders, NEW i \in Nat, NEW s \in {"REASSIGNED", "REMOVED"}
      PROVE  /\ assignment[o] \in Seq(AssignmentRows)
             /\ i \in DOMAIN assignment[o] =>
                   [assignment[o][i] EXCEPT !.status = s] \in AssignmentRows
    <2>1. assignment[o] \in Seq(AssignmentRows)
        BY <1>0
    <2>2. i \in DOMAIN assignment[o] => assignment[o][i] \in AssignmentRows
        BY <2>1
    <2> QED BY <2>1, <2>2 DEF AssignmentRows
<1>4. ASSUME NEW t \in Technicians
      PROVE  [technician |-> t, status |-> "ACTIVE"] \in AssignmentRows
    BY DEF AssignmentRows
<1>5. ASSUME NEW o \in Orders, NEW i \in ActiveAssignments(o)
      PROVE  i \in Nat /\ i \in DOMAIN assignment[o]
    <2>1. assignment[o] \in Seq(AssignmentRows)
        BY <1>0
    <2> QED BY <2>1 DEF ActiveAssignments
<1>6. ASSUME NEW o \in Orders, NEW i \in OccupiedBy(o)
      PROVE  i \in Nat /\ i \in DOMAIN occupancy
    BY <1>0 DEF OccupiedBy
<1>7. ASSUME NEW w \in Workers, NEW o \in Orders, NEW t \in Technicians,
             CheckAssign(w, o, t) \/ CheckReassign(w, o, t)
      PROVE  Typed
    <2>1. CASE CheckAssign(w, o, t)
        <3>1. [at |-> "assigning", order |-> o, technician |-> t, stale |-> FALSE] \in RequestSet
            BY DEF RequestSet, AssignmentRequests
        <3> QED BY <1>1, <2>1, <3>1 DEF CheckAssign
    <2>2. CASE CheckReassign(w, o, t)
        <3>1. PICK i \in ActiveAssignments(o) :
                 Begin(w, [at |-> "reassigning", order |-> o, technician |-> t, row |-> i,
                           stale |-> FALSE]) /\ UNCHANGED <<order, unkept, assignVars>>
            BY <2>2 DEF CheckReassign
        <3>2. i \in Nat
            BY <1>5
        <3>3. [at |-> "reassigning", order |-> o, technician |-> t, row |-> i,
               stale |-> FALSE] \in RequestSet
            BY <3>2 DEF RequestSet, AssignmentRequests
        <3> QED BY <1>1, <3>1, <3>3
    <2> QED BY <1>7, <2>1, <2>2
<1>8. ASSUME NEW w \in Workers, NEW o \in Orders, CheckRemove(w, o) \/ CheckRelease(w, o)
      PROVE  Typed
    <2>1. CASE CheckRemove(w, o)
        <3>1. PICK i \in ActiveAssignments(o) :
                 Begin(w, [at |-> "removing", order |-> o, row |-> i, stale |-> FALSE])
                 /\ UNCHANGED <<order, unkept, assignVars>>
            BY <2>1 DEF CheckRemove
        <3>2. i \in Nat
            BY <1>5
        <3>3. [at |-> "removing", order |-> o, row |-> i, stale |-> FALSE] \in RequestSet
            BY <3>2 DEF RequestSet, AssignmentRequests
        <3> QED BY <1>1, <3>1, <3>3
    <2>2. CASE CheckRelease(w, o)
        <3>1. PICK i \in OccupiedBy(o) :
                 Begin(w, [at |-> "releasing", row |-> i, stale |-> FALSE])
                 /\ UNCHANGED <<order, unkept, assignVars>>
            BY <2>2 DEF CheckRelease
        <3>2. i \in Nat
            BY <1>6
        <3>3. [at |-> "releasing", row |-> i, stale |-> FALSE] \in RequestSet
            BY <3>2 DEF RequestSet, AssignmentRequests
        <3> QED BY <1>1, <3>1, <3>3
    <2> QED BY <1>8, <2>1, <2>2
<1>9. ASSUME NEW w \in Workers, NEW o \in Orders, NEW b \in Bays, CheckBay(w, o, b)
      PROVE  Typed
    <2>1. [at |-> "placing", order |-> o, bay |-> b, stale |-> FALSE] \in RequestSet
        BY DEF RequestSet, AssignmentRequests
    <2> QED BY <1>1, <1>9, <2>1 DEF CheckBay
<1>10. ASSUME NEW w \in Workers, NEW b \in Bays, NEW status \in BayStatus,
              CheckBayStatus(w, b, status)
       PROVE  Typed
    <2>1. [at |-> "restating", bay |-> b, status |-> status, stale |-> FALSE] \in RequestSet
        BY DEF RequestSet, AssignmentRequests
    <2> QED BY <1>1, <1>10, <2>1 DEF CheckBayStatus
<1>11. ASSUME NEW w \in Workers, CheckUnplaced(w) \/ CheckVacant(w) \/ CheckOccupied(w)
       PROVE  Typed
    <2>0. req[w] \in AssignmentRequests
        BY <1>0, <1>11, BayRequest DEF CheckUnplaced, CheckVacant, CheckOccupied, PlaceAt, SetAt
    <2>1. /\ req[w].at = "placing" => [req[w] EXCEPT !.at = "entering"] \in RequestSet
          /\ req[w].at = "entering" => [req[w] EXCEPT !.at = "occupying"] \in RequestSet
          /\ req[w].at = "restating" => [req[w] EXCEPT !.at = "setting"] \in RequestSet
        BY <2>0 DEF RequestSet, AssignmentRequests
    <2>2. CASE CheckUnplaced(w)
        BY <1>1, <2>1, <2>2, IdleRequest DEF CheckUnplaced, Finish
    <2>3. CASE CheckVacant(w)
        BY <1>1, <2>1, <2>3, IdleRequest DEF CheckVacant, Finish
    <2>4. CASE CheckOccupied(w)
        BY <1>1, <2>1, <2>4, IdleRequest DEF CheckOccupied, Finish
    <2> QED BY <1>11, <2>2, <2>3, <2>4
<1>12. ASSUME NEW w \in Workers, AssignTechnician(w) \/ ReassignTechnician(w)
       PROVE  Typed
    <2> DEFINE o == req[w].order
               t == req[w].technician
               i == req[w].row
    <2>1. /\ o \in Orders /\ t \in Technicians
          /\ ReassignTechnician(w) => i \in Nat
        BY <1>0, <1>12, RequestFields DEF AssignTechnician, ReassignTechnician, ReadAt
    <2>2. req' \in [Workers -> RequestSet]
        BY <1>0, <1>12, AssignMoves, OvertakenTyped
    <2>3. order' = [order EXCEPT ![o].technician = t]
        BY <1>12 DEF AssignTechnician, ReassignTechnician
    <2>4. order' \in [Orders -> OrderRows]
        BY <1>2, <2>1, <2>3
    <2>5. PICK rows \in Seq(AssignmentRows) : assignment' = [assignment EXCEPT ![o] = rows]
        <3>1. CASE AssignTechnician(w)
            <4>1. Assigned(assignment[o], t) \in Seq(AssignmentRows)
                BY <1>0, <1>4, <2>1, Appended DEF Assigned
            <4> QED BY <3>1, <4>1 DEF AssignTechnician
        <3>2. CASE ReassignTechnician(w)
            <4> DEFINE e == [assignment[o][i] EXCEPT !.status = "REASSIGNED"]
                       x == [technician |-> t, status |-> "ACTIVE"]
            <4>1. /\ assignment[o] \in Seq(AssignmentRows) /\ i \in Nat
                  /\ i \in DOMAIN assignment[o] => e \in AssignmentRows
                  /\ x \in AssignmentRows
                BY <1>3, <1>4, <2>1, <3>2
            <4>2. Append([assignment[o] EXCEPT ![i] = e], x) \in Seq(AssignmentRows)
                <5> HIDE DEF e, x
                <5> QED BY <4>1, Replaced
            <4> QED BY <3>2, <4>2 DEF ReassignTechnician, Assigned
        <3> QED BY <1>12, <3>1, <3>2
    <2>6. assignment' \in [Orders -> Seq(AssignmentRows)]
        BY <1>0, <2>5
    <2> QED
        BY <1>0, <1>12, <2>2, <2>4, <2>6 DEF AssignTechnician, ReassignTechnician, Keep,
           AssignmentsTypeOK
<1>13. ASSUME NEW w \in Workers, RemoveTechnician(w)
       PROVE  Typed
    <2> DEFINE o == req[w].order
               i == req[w].row
    <2>1. o \in Orders /\ i \in Nat
        BY <1>0, <1>13, RequestFields DEF RemoveTechnician, ReadAt
    <2>2. CASE order[o].technician = assignment[o][i].technician
        <3>1. req' \in [Workers -> RequestSet]
            BY <1>0, <1>13, <2>2, AssignMoves, OvertakenTyped
        <3> DEFINE e == [assignment[o][i] EXCEPT !.status = "REMOVED"]
        <3>2. [assignment[o] EXCEPT ![i] = e] \in Seq(AssignmentRows)
            <4>1. /\ assignment[o] \in Seq(AssignmentRows) /\ i \in Nat
                  /\ i \in DOMAIN assignment[o] => e \in AssignmentRows
                BY <1>3, <2>1
            <4> HIDE DEF e
            <4> QED BY <4>1, Rewritten
        <3>3. assignment' \in [Orders -> Seq(AssignmentRows)]
            BY <1>0, <1>13, <2>1, <2>2, <3>2 DEF RemoveTechnician
        <3>4. order' \in [Orders -> OrderRows]
            BY <1>2, <1>13, <2>1, <2>2 DEF RemoveTechnician
        <3> QED
            BY <1>0, <1>13, <2>2, <3>1, <3>3, <3>4 DEF RemoveTechnician, Keep, AssignmentsTypeOK
    <2>3. CASE order[o].technician # assignment[o][i].technician
        BY <1>1, <1>13, <2>3, IdleRequest DEF RemoveTechnician, Finish, assignVars
    <2> QED BY <2>2, <2>3
<1>14. ASSUME NEW w \in Workers, OccupyBay(w)
       PROVE  Typed
    <2>1. req[w].order \in Orders /\ req[w].bay \in Bays
        BY <1>0, <1>14, RequestFields DEF OccupyBay, PlaceAt
    <2>2. req' \in [Workers -> RequestSet]
        BY <1>0, <1>14, BayMoves, OvertakenTyped
    <2>3. [bay |-> req[w].bay, order |-> req[w].order, active |-> TRUE] \in OccupancyRows
        BY <2>1 DEF OccupancyRows
    <2>4. occupancy' \in Seq(OccupancyRows)
        BY <1>0, <1>14, <2>3, Appended DEF OccupyBay
    <2> QED BY <1>0, <1>14, <2>2, <2>4 DEF OccupyBay, Keep, AssignmentsTypeOK
<1>15. ASSUME NEW w \in Workers, ReleaseBay(w)
       PROVE  Typed
    <2>1. req[w].row \in Nat
        BY <1>0, <1>15, RequestFields DEF ReleaseBay
    <2>2. req' \in [Workers -> RequestSet]
        BY <1>15, IdleRequest, BegunTyped DEF ReleaseBay, Finish
    <2>3. req[w].row \in DOMAIN occupancy =>
             [occupancy[req[w].row] EXCEPT !.active = FALSE] \in OccupancyRows
        <3>1. req[w].row \in DOMAIN occupancy => occupancy[req[w].row] \in OccupancyRows
            BY <1>0
        <3> QED BY <3>1 DEF OccupancyRows
    <2>4. [occupancy EXCEPT ![req[w].row].active = FALSE] \in Seq(OccupancyRows)
        BY <1>0, <2>1, <2>3, Rewritten
    <2>5. occupancy' \in Seq(OccupancyRows)
        BY <1>0, <1>15, <2>4 DEF ReleaseBay
    <2> QED BY <1>0, <1>15, <2>2, <2>5 DEF ReleaseBay, AssignmentsTypeOK
<1>16. ASSUME NEW w \in Workers, SetBayStatus(w)
       PROVE  Typed
    <2>1. req[w].status \in BayStatus
        BY <1>0, <1>16, RequestFields DEF SetBayStatus, SetAt
    <2>2. req' \in [Workers -> RequestSet]
        BY <1>0, <1>16, BayMoves, OvertakenTyped
    <2>3. bayStatus' \in [Bays -> BayStatus]
        BY <1>0, <1>16, <2>1 DEF SetBayStatus
    <2> QED BY <1>0, <1>16, <2>2, <2>3 DEF SetBayStatus, Keep, AssignmentsTypeOK
<1>17. ASSUME NEW o \in Orders, NEW t \in Technicians, PatchTechnician(o, t)
       PROVE  Typed
    <2>1. order' \in [Orders -> OrderRows]
        BY <1>2, <1>17 DEF PatchTechnician
    <2> QED BY <1>0, <1>17, <2>1 DEF PatchTechnician, AssignmentsTypeOK, assignVars
<1> HIDE DEF Typed
<1>18. Typed
    BY <1>7, <1>8, <1>9, <1>10, <1>11, <1>12, <1>13, <1>14, <1>15, <1>16, <1>17
       DEF AssignmentStep
<1> QED
    BY <1>18 DEF Typed

LEMMA StepTyped == TypeOK /\ [Next]_vars => TypeOK'
<1> SUFFICES ASSUME TypeOK, [Next]_vars PROVE TypeOK'
    OBVIOUS
<1> USE DEF TypeOK, AppointmentTypeOK, ScheduleTypeOK
<1>1. ASSUME NEW o \in Orders, NEW status \in OrderStatus, NEW d \in Dates \cup {None},
             NEW t \in Technicians \cup {None}, CreateOrder(o, status, d, t),
             UNCHANGED <<appointment, block, assignVars>>
      PROVE  TypeOK'
    <2>1. Created(status, d, t, None) \in OrderRows
        BY DEF Created, OrderRows, OrderStatus
    <2>2. order' \in [Orders -> OrderRows]
        BY <1>1, <2>1 DEF CreateOrder
    <2> QED BY <1>1, <2>2 DEF CreateOrder, AssignmentsTypeOK, assignVars
<1>2. CASE AppointmentStep /\ UNCHANGED <<block, assignVars>>
    BY <1>2, AppointmentTyped DEF RequestSet, AssignmentsTypeOK, assignVars
<1>3. CASE ScheduleStep /\ UNCHANGED <<appointment, assignVars>>
    BY <1>3, ScheduleTyped DEF RequestSet, AssignmentsTypeOK, assignVars
<1>4. CASE AssignmentStep /\ UNCHANGED <<appointment, block>>
    BY <1>4, AssignmentTyped DEF RequestSet
<1>5. CASE UNCHANGED vars
    BY <1>5 DEF vars, floorVars, assignVars, AssignmentsTypeOK
<1> QED
    BY <1>1, <1>2, <1>3, <1>4, <1>5 DEF Next

(* Appointments, orders, blocks, assignments and requests keep their types. *)
THEOREM WorkshopTyped == Spec => []TypeOK
BY InitTyped, StepTyped, PTL DEF Spec

-----------------------------------------------------------------------------
(* What each kind of step leaves of an order.                               *)
LEMMA Moves ==
    ASSUME NEW s \in OrderStatus, NEW to \in MovesTo(s)
    PROVE  s # "ABSENT" /\ to # "ABSENT"
BY DEF MovesTo, OrderStatus

LEMMA ScheduleKeeps ==
    ASSUME TypeOK, ScheduleStep, NEW o \in Orders
    PROVE  /\ order'[o].from = order[o].from
           /\ order'[o].technician = order[o].technician
           /\ order'[o].status = "ABSENT" <=> order[o].status = "ABSENT"
<1>0. /\ order \in [Orders -> OrderRows]
      /\ order[o] \in OrderRows
      /\ req \in [Workers -> RequestSet]
    BY TypedRequests DEF TypeOK
<1> DEFINE Stays == /\ order'[o].from = order[o].from
                    /\ order'[o].technician = order[o].technician
                    /\ order'[o].status = "ABSENT" <=> order[o].status = "ABSENT"
<1>1. ASSUME UNCHANGED order PROVE Stays
    BY <1>1
<1>2. ASSUME NEW p \in Orders, NEW s \in OrderStatus \ {"ABSENT"}, NEW d,
             order[p].status # "ABSENT",
             \/ order' = [order EXCEPT ![p].status = s, ![p].date = d]
             \/ order' = [order EXCEPT ![p].status = s]
      PROVE  Stays
    BY <1>0, <1>2 DEF OrderRows
<1>3. ASSUME NEW p \in Orders, NEW d, order' = [order EXCEPT ![p].date = d]
      PROVE  Stays
    BY <1>0, <1>3 DEF OrderRows
<1>4. ASSUME NEW w \in Workers, ScheduleOrder(w)
      PROVE  Stays
    <2>1. req[w].order \in Orders
        BY <1>0, <1>4, RequestFields DEF ScheduleOrder
    <2> HIDE DEF Stays
    <2> QED BY <1>1, <1>2, <1>4, <2>1 DEF ScheduleOrder, Schedulable, OrderStatus
<1>5. ASSUME NEW w \in Workers, Reschedule(w)
      PROVE  Stays
    <2>1. req[w].order \in Orders
        BY <1>0, <1>5, RequestFields DEF Reschedule, FoundAt
    <2> HIDE DEF Stays
    <2> QED BY <1>3, <1>5, <2>1 DEF Reschedule
<1>6. ASSUME NEW w \in Workers, CancelSchedule(w)
      PROVE  Stays
    <2>1. req[w].order \in Orders
        BY <1>0, <1>6, RequestFields DEF CancelSchedule, FoundAt
    <2> HIDE DEF Stays
    <2> QED BY <1>1, <1>2, <1>6, <2>1 DEF CancelSchedule, OrderStatus
<1>7. ASSUME NEW p \in Orders, NEW to \in OrderStatus, MoveOrder(p, to)
      PROVE  Stays
    <2>1. order[p].status \in OrderStatus
        BY <1>0 DEF OrderRows
    <2>2. order[p].status # "ABSENT" /\ to # "ABSENT"
        BY <1>7, <2>1, Moves DEF MoveOrder
    <2> HIDE DEF Stays
    <2> QED BY <1>2, <1>7, <2>2 DEF MoveOrder
<1>8. ASSUME NEW p \in Orders, NEW d \in Dates, PatchDate(p, d)
      PROVE  Stays
    BY <1>3, <1>8 DEF PatchDate
<1> HIDE DEF Stays
<1>9. Stays
    BY <1>1, <1>4, <1>5, <1>6, <1>7, <1>8 DEF ScheduleStep, CheckSchedule, CheckReschedule,
       CheckUnschedule, FindForReschedule, FindForCancel
<1> QED
    BY <1>9 DEF Stays

LEMMA AssignmentKeeps ==
    ASSUME TypeOK, AssignmentStep, NEW o \in Orders
    PROVE  /\ order'[o].from = order[o].from
           /\ order'[o].status = order[o].status
           /\ order'[o].date = order[o].date
<1>0. /\ order \in [Orders -> OrderRows]
      /\ order[o] \in OrderRows
    BY DEF TypeOK
<1> DEFINE Stays == /\ order'[o].from = order[o].from
                    /\ order'[o].status = order[o].status
                    /\ order'[o].date = order[o].date
<1>1. ASSUME UNCHANGED order PROVE Stays
    BY <1>1
<1>2. ASSUME NEW p, NEW t, order' = [order EXCEPT ![p].technician = t]
      PROVE  Stays
    BY <1>0, <1>2 DEF OrderRows
<1> HIDE DEF Stays
<1>3. \/ UNCHANGED order
      \/ \E p, t : order' = [order EXCEPT ![p].technician = t]
    BY DEF AssignmentStep, CheckAssign, CheckReassign, CheckRemove, CheckRelease, CheckBay,
       CheckBayStatus, AssignTechnician, ReassignTechnician, RemoveTechnician,
       CheckUnplaced, CheckVacant, OccupyBay, ReleaseBay, CheckOccupied, SetBayStatus,
       PatchTechnician
<1> QED
    BY <1>1, <1>2, <1>3 DEF Stays

LEMMA AppointmentCreates ==
    ASSUME TypeOK, AppointmentStep, NEW o \in Orders
    PROVE  \/ order'[o] = order[o]
           \/ /\ order[o].status = "ABSENT"
              /\ order'[o].status = "EARLIER"
              /\ order'[o].technician = None
<1>0. order \in [Orders -> OrderRows]
    BY DEF TypeOK
<1>1. CASE UNCHANGED order
    BY <1>1
<1>2. ASSUME NEW w \in Workers, ConvertToRepairOrder(w), order' # order
      PROVE  \/ order'[o] = order[o]
             \/ /\ order[o].status = "ABSENT"
                /\ order'[o].status = "EARLIER"
                /\ order'[o].technician = None
    <2>1. PICK p \in Orders :
             /\ order[p].status = "ABSENT"
             /\ order' = [order EXCEPT ![p] = Created("EARLIER",
                                       appointment[req[w].appointment].date, None,
                                       req[w].appointment)]
        BY <1>2 DEF ConvertToRepairOrder
    <2> QED BY <1>0, <2>1 DEF Created
<1>3. CASE order' # order
    <2>1. \E w \in Workers : ConvertToRepairOrder(w)
        BY <1>3 DEF AppointmentStep, CreateAppointment, CheckAppointment, ConfirmAppointment,
           CheckIn, CancelAppointment, SetStatus, floorVars
    <2> QED BY <1>2, <1>3, <2>1
<1> QED
    BY <1>1, <1>3

-----------------------------------------------------------------------------
(* An appointment and the order it became name each other, and only they do. *)
ConvertInv ==
    /\ \A a \in Appointments :
          appointment[a].status = "CONVERTED_TO_RO" <=> appointment[a].order # None
    /\ \A o \in Orders : order[o].status = "ABSENT" => order[o].from = None
    /\ \A o \in Orders, a \in Appointments :
          order[o].from = a <=> appointment[a].order = o

LEMMA InitConvertInv == Init => ConvertInv
<1> SUFFICES ASSUME Init PROVE ConvertInv
    OBVIOUS
<1>1. \A o \in Orders : order[o].from = None
    BY DEF Init, FloorInit, Created
<1>2. \A a \in Appointments : appointment[a].status = "ABSENT" /\ appointment[a].order = None
    BY DEF Init, AppointmentInit
<1> QED
    BY <1>1, <1>2, ShopFloorAssumption DEF ConvertInv

(* Confirming, checking in and calling off compare the status again.        *)
LEMMA RestatedKeeps ==
    ASSUME TypeOK, ConvertInv, NEW w \in Workers,
           ConfirmAppointment(w) \/ CheckIn(w) \/ CancelAppointment(w)
    PROVE  ConvertInv'
<1>0. /\ appointment \in [Appointments -> AppointmentRows]
      /\ req \in [Workers -> RequestSet]
    BY TypedRequests DEF TypeOK, AppointmentTypeOK
<1> DEFINE a == req[w].appointment
<1>1. a \in Appointments
    BY <1>0, RequestFields DEF ConfirmAppointment, CheckIn, CancelAppointment, SetStatus, AppointmentAt
<1>2. /\ UNCHANGED order
      /\ \/ UNCHANGED appointment
         \/ /\ appointment[a].status # "CONVERTED_TO_RO"
            /\ \E s \in {"CONFIRMED", "CHECKED_IN", "CANCELLED"} :
                  appointment' = [appointment EXCEPT ![a].status = s]
    BY DEF ConfirmAppointment, CheckIn, CancelAppointment, SetStatus, Allowed, Confirmable,
       Arrivable, Cancellable
<1>3. CASE UNCHANGED <<order, appointment>>
    BY <1>3 DEF ConvertInv
<1>4. CASE UNCHANGED order /\ appointment' # appointment
    <2>1. PICK s \in {"CONFIRMED", "CHECKED_IN", "CANCELLED"} :
             appointment' = [appointment EXCEPT ![a].status = s]
        BY <1>2, <1>4
    <2>2. appointment[a].status # "CONVERTED_TO_RO"
        BY <1>2, <1>4
    <2>3. /\ \A b \in Appointments : appointment'[b].order = appointment[b].order
          /\ \A b \in Appointments : b # a => appointment'[b] = appointment[b]
          /\ appointment'[a].status # "CONVERTED_TO_RO"
        BY <1>0, <1>1, <2>1 DEF AppointmentRows
    <2> HIDE DEF a
    <2> QED BY <1>1, <1>4, <2>2, <2>3 DEF ConvertInv
<1> QED
    BY <1>2, <1>3, <1>4

(* Converting compares that the appointment has no order, and its order is  *)
(* a new one.                                                               *)
LEMMA ConvertKeeps ==
    ASSUME TypeOK, ConvertInv, NEW w \in Workers, ConvertToRepairOrder(w)
    PROVE  ConvertInv'
<1>0. /\ appointment \in [Appointments -> AppointmentRows]
      /\ order \in [Orders -> OrderRows]
      /\ req \in [Workers -> RequestSet]
    BY TypedRequests DEF TypeOK, AppointmentTypeOK
<1> DEFINE a == req[w].appointment
<1>1. a \in Appointments
    BY <1>0, RequestFields DEF ConvertToRepairOrder, AppointmentAt
<1>2. CASE UNCHANGED <<order, appointment>>
    BY <1>2 DEF ConvertInv
<1>3. CASE Convertible(a)
    <2>1. PICK o \in Orders :
             /\ order[o].status = "ABSENT"
             /\ order' = [order EXCEPT ![o] = Created("EARLIER", appointment[a].date, None, a)]
             /\ appointment' = [appointment EXCEPT ![a].status = "CONVERTED_TO_RO",
                                                   ![a].order = o]
        BY <1>3 DEF ConvertToRepairOrder
    <2>2. appointment[a].order = None /\ o # None /\ order[o].from = None
          /\ \A b \in Appointments : b # None
        BY <1>3, <2>1, ShopFloorAssumption DEF Convertible, ConvertInv
    <2>3. /\ order'[o].from = a /\ order'[o].status = "EARLIER"
          /\ \A p \in Orders : p # o => order'[p] = order[p]
        BY <1>0, <2>1 DEF Created
    <2>4. /\ appointment'[a].status = "CONVERTED_TO_RO" /\ appointment'[a].order = o
          /\ \A b \in Appointments : b # a => appointment'[b] = appointment[b]
        BY <1>0, <1>1, <2>1 DEF AppointmentRows
    <2> HIDE DEF a
    <2>5. (\A b \in Appointments :
             appointment[b].status = "CONVERTED_TO_RO" <=> appointment[b].order # None)'
        BY <2>2, <2>4 DEF ConvertInv
    <2>6. (\A p \in Orders : order[p].status = "ABSENT" => order[p].from = None)'
        BY <2>3 DEF ConvertInv
    <2>7. (\A p \in Orders, b \in Appointments :
             order[p].from = b <=> appointment[b].order = p)'
        <3> SUFFICES ASSUME NEW p \in Orders, NEW b \in Appointments
                     PROVE  order'[p].from = b <=> appointment'[b].order = p
            OBVIOUS
        <3>1. CASE p = o /\ b = a
            BY <2>3, <2>4, <3>1
        <3>2. CASE p = o /\ b # a
            BY <2>2, <2>3, <2>4, <3>2 DEF ConvertInv
        <3>3. CASE p # o /\ b = a
            BY <2>2, <2>3, <2>4, <3>3, ShopFloorAssumption DEF ConvertInv
        <3>4. CASE p # o /\ b # a
            BY <2>3, <2>4, <3>4 DEF ConvertInv
        <3> QED BY <3>1, <3>2, <3>3, <3>4
    <2> QED BY <2>5, <2>6, <2>7 DEF ConvertInv
<1> QED
    BY <1>2, <1>3 DEF ConvertToRepairOrder

LEMMA StepConvertInv ==
    ASSUME TypeOK, ConvertInv, [Next]_vars
    PROVE  ConvertInv'
<1>0. /\ appointment \in [Appointments -> AppointmentRows]
      /\ order \in [Orders -> OrderRows]
    BY DEF TypeOK, AppointmentTypeOK
<1>1. ASSUME UNCHANGED appointment,
             \A o \in Orders : /\ order'[o].from = order[o].from
                               /\ order'[o].status = "ABSENT" => order[o].status = "ABSENT"
      PROVE  ConvertInv'
    BY <1>1 DEF ConvertInv
<1>2. ASSUME NEW o \in Orders, NEW status \in OrderStatus, NEW d \in Dates \cup {None},
             NEW t \in Technicians \cup {None}, CreateOrder(o, status, d, t),
             UNCHANGED appointment
      PROVE  ConvertInv'
    <2>1. order[o].from = None
        BY <1>2 DEF CreateOrder, ConvertInv
    <2>2. \A p \in Orders : order'[p].from = order[p].from
        BY <1>0, <1>2, <2>1 DEF CreateOrder, Created
    <2>3. \A p \in Orders : order'[p].status = "ABSENT" => order[p].status = "ABSENT"
        BY <1>0, <1>2 DEF CreateOrder, Created
    <2> QED BY <1>1, <1>2, <2>2, <2>3
<1>3. ASSUME NEW a \in Appointments, NEW complete \in BOOLEAN, NEW d \in Dates,
             CreateAppointment(a, complete, d)
      PROVE  ConvertInv'
    <2>1. appointment[a].order = None
        BY <1>3 DEF CreateAppointment, ConvertInv
    <2>2. /\ appointment'[a].status = "REQUESTED" /\ appointment'[a].order = None
          /\ \A b \in Appointments : b # a => appointment'[b] = appointment[b]
          /\ UNCHANGED order
        BY <1>0, <1>3 DEF CreateAppointment, floorVars
    <2> QED BY <2>1, <2>2, ShopFloorAssumption DEF ConvertInv
<1>4. CASE AppointmentStep
    <2>1. ASSUME NEW w \in Workers, NEW a \in Appointments, NEW at, CheckAppointment(w, at, a)
          PROVE  ConvertInv'
        BY <2>1 DEF CheckAppointment, ConvertInv
    <2> QED BY <1>3, <1>4, <2>1, RestatedKeeps, ConvertKeeps DEF AppointmentStep
<1>5. CASE ScheduleStep /\ UNCHANGED appointment
    BY <1>1, <1>5, ScheduleKeeps
<1>6. CASE AssignmentStep /\ UNCHANGED appointment
    BY <1>1, <1>6, AssignmentKeeps
<1>7. CASE UNCHANGED vars
    BY <1>7 DEF vars, floorVars, ConvertInv
<1> QED
    BY <1>2, <1>4, <1>5, <1>6, <1>7 DEF Next

(* An appointment becomes at most one repair order, whatever conversions    *)
(* and cancellations overlap (the conversion claims the appointment in its  *)
(* updateMany).                                                             *)
THEOREM AppointmentConvertedOnce == Spec => []ConvertedOnce
<1>1. TypeOK /\ ConvertInv => ConvertedOnce
    <2> SUFFICES ASSUME TypeOK, ConvertInv, NEW a \in Appointments
                 PROVE  /\ appointment[a].status = "CONVERTED_TO_RO" <=> appointment[a].order # None
                        /\ {o \in Orders : order[o].from = a} = {appointment[a].order} \ {None}
        BY DEF ConvertedOnce
    <2>1. appointment[a].order \in Orders \cup {None}
        BY DEF TypeOK, AppointmentTypeOK, AppointmentRows
    <2> QED BY <2>1, ShopFloorAssumption DEF ConvertInv
<1>2. TypeOK /\ ConvertInv /\ [Next]_vars => TypeOK' /\ ConvertInv'
    BY StepTyped, StepConvertInv
<1> QED
    BY <1>1, <1>2, InitTyped, InitConvertInv, PTL DEF Spec

-----------------------------------------------------------------------------
(* The active rows of a list that is appended to or rewritten.              *)
Actives(rows) == {i \in DOMAIN rows : rows[i].status = "ACTIVE"}

LEMMA ActivesAppended ==
    ASSUME NEW S, NEW s \in Seq(S), NEW x \in S
    PROVE  Actives(Append(s, x)) =
              IF x.status = "ACTIVE" THEN Actives(s) \cup {Len(s) + 1} ELSE Actives(s)
<1> DEFINE t == Append(s, x)
<1>1. /\ DOMAIN t = 1 .. (Len(s) + 1) /\ t[Len(s) + 1] = x
      /\ \A j \in DOMAIN s : t[j] = s[j]
    BY Appended
<1>2. DOMAIN s = 1 .. Len(s) /\ Len(s) \in Nat
    OBVIOUS
<1> HIDE DEF t
<1>3. Actives(t) = IF x.status = "ACTIVE" THEN Actives(s) \cup {Len(s) + 1} ELSE Actives(s)
    BY <1>1, <1>2 DEF Actives
<1> QED
    BY <1>3 DEF t

LEMMA ActivesRewritten ==
    ASSUME NEW S, NEW s \in Seq(S), NEW i \in Nat, NEW e, i \in DOMAIN s => e \in S,
           e.status # "ACTIVE"
    PROVE  Actives([s EXCEPT ![i] = e]) = Actives(s) \ {i}
<1> DEFINE t == [s EXCEPT ![i] = e]
<1>1. /\ DOMAIN t = DOMAIN s
      /\ \A j \in DOMAIN s : t[j] = IF j = i THEN e ELSE s[j]
    BY Rewritten
<1> HIDE DEF t
<1>2. Actives(t) = Actives(s) \ {i}
    BY <1>1 DEF Actives
<1> QED
    BY <1>2 DEF t

LEMMA ActivesReplaced ==
    ASSUME NEW S, NEW s \in Seq(S), NEW i \in Nat, NEW e, i \in DOMAIN s => e \in S,
           e.status # "ACTIVE", NEW x \in S, x.status = "ACTIVE"
    PROVE  Actives(Append([s EXCEPT ![i] = e], x)) = (Actives(s) \ {i}) \cup {Len(s) + 1}
<1> DEFINE t == Append([s EXCEPT ![i] = e], x)
<1>1. /\ DOMAIN t = 1 .. (Len(s) + 1) /\ t[Len(s) + 1] = x
      /\ \A j \in DOMAIN s : t[j] = IF j = i THEN e ELSE s[j]
    BY Replaced
<1>2. DOMAIN s = 1 .. Len(s) /\ Len(s) \in Nat
    OBVIOUS
<1> HIDE DEF t
<1>3. Actives(t) = (Actives(s) \ {i}) \cup {Len(s) + 1}
    BY <1>1, <1>2 DEF Actives
<1> QED
    BY <1>3 DEF t

-----------------------------------------------------------------------------
(* The schedule, while no stale request or manual edit has touched it.      *)
DateShown(o) ==
    LET last == Len(block[o])
    IN order[o].status = "SCHEDULED" /\ last > 0 =>
          /\ block[o][last].status # "CANCELLED"
          /\ order[o].date = block[o][last].date

OrderScheduled(o) ==
    /\ \A i, j \in ActiveBlocks(o) : i = j
    /\ order[o].status \in {"ABSENT", "EARLIER", "READY_TO_WORK"} => ActiveBlocks(o) = {}
    /\ order[o].status = "ABSENT" => block[o] = <<>>
    /\ DateShown(o)

(* The block a request has found is its order's only active one, until a    *)
(* commit makes the request stale.                                          *)
FoundIsActive(r) ==
    r.at \in FoundAt /\ ~r.stale => ActiveBlocks(r.order) = {r.row}

ScheduleInv ==
    "schedule" \notin unkept =>
       /\ \A o \in Orders : OrderScheduled(o)
       /\ \A w \in Workers : FoundIsActive(req[w])

LEMMA InitScheduleInv == Init => ScheduleInv
<1> SUFFICES ASSUME Init PROVE ScheduleInv
    OBVIOUS
<1>1. \A o \in Orders : /\ ActiveBlocks(o) = {} /\ order[o].status = "ABSENT"
                        /\ block[o] = <<>>
    BY DEF Init, FloorInit, ScheduleInit, ActiveBlocks, Created
<1>2. \A w \in Workers : req[w].at = "idle"
    BY DEF Init, FloorInit, Idle
<1> QED
    BY <1>1, <1>2 DEF ScheduleInv, OrderScheduled, DateShown, FoundIsActive, FoundAt

(* What the appointments and the assignments do is not about blocks.        *)
LEMMA ScheduleElsewhere ==
    ASSUME TypeOK, ScheduleInv, UNCHANGED block, unkept \subseteq unkept',
           \A o \in Orders :
              \/ /\ order'[o].status = order[o].status
                 /\ order'[o].date = order[o].date \/ block[o] = <<>>
              \/ order[o].status = "ABSENT" /\ order'[o].status # "ABSENT",
           \A w \in Workers : \/ req'[w] = req[w]
                              \/ req'[w].at \notin FoundAt
                              \/ req'[w].stale
    PROVE  ScheduleInv'
<1> SUFFICES ASSUME "schedule" \notin unkept'
             PROVE  /\ \A o \in Orders : OrderScheduled(o)'
                    /\ \A w \in Workers : FoundIsActive(req[w])'
    BY DEF ScheduleInv
<1>1. /\ \A o \in Orders : OrderScheduled(o)
      /\ \A w \in Workers : FoundIsActive(req[w])
    BY DEF ScheduleInv
<1>2. ASSUME NEW o \in Orders PROVE OrderScheduled(o)'
    <2>1. Len(<<>>) = 0
        OBVIOUS
    <2>2. CASE order'[o].status = order[o].status /\ order'[o].date = order[o].date
        BY <1>1, <2>2 DEF OrderScheduled, DateShown, ActiveBlocks
    <2>3. CASE order'[o].status = order[o].status /\ block[o] = <<>>
        BY <1>1, <2>1, <2>3 DEF OrderScheduled, DateShown, ActiveBlocks
    <2>4. CASE order[o].status = "ABSENT" /\ order'[o].status # "ABSENT"
        BY <1>1, <2>1, <2>4 DEF OrderScheduled, DateShown, ActiveBlocks
    <2> QED BY <2>2, <2>3, <2>4
<1>3. ASSUME NEW w \in Workers PROVE FoundIsActive(req[w])'
    BY <1>1 DEF FoundIsActive, ActiveBlocks
<1> QED
    BY <1>2, <1>3

(* A step that changes the blocks or the status of one order.               *)
LEMMA OneOrderScheduled ==
    ASSUME ScheduleInv, "schedule" \notin unkept, NEW o \in Orders,
           \A p \in Orders : p # o => order'[p] = order[p] /\ block'[p] = block[p],
           OrderScheduled(o)',
           \A v \in Workers : \/ req'[v].at \notin FoundAt
                              \/ req'[v].stale
                              \/ req'[v] = req[v] /\ req[v].order \in Orders \ {o}
    PROVE  ScheduleInv'
<1>1. /\ \A p \in Orders : OrderScheduled(p)
      /\ \A w \in Workers : FoundIsActive(req[w])
    BY DEF ScheduleInv
<1>2. ASSUME NEW p \in Orders PROVE OrderScheduled(p)'
    BY <1>1 DEF OrderScheduled, DateShown, ActiveBlocks
<1>3. ASSUME NEW w \in Workers PROVE FoundIsActive(req[w])'
    BY <1>1 DEF FoundIsActive, ActiveBlocks
<1> QED
    BY <1>2, <1>3 DEF ScheduleInv

(* The requests each component begins, moves and overtakes.                 *)
LEMMA GotoMoves ==
    ASSUME TypeOK, NEW w \in Workers, NEW r, Begin(w, r) \/ Goto(w, r), NEW v \in Workers
    PROVE  req'[v] = req[v] \/ req'[v] = r
BY DEF TypeOK, Begin, Goto

LEMMA AppointmentRequestsMove ==
    ASSUME TypeOK, AppointmentStep, NEW v \in Workers
    PROVE  req'[v] = req[v] \/ req'[v].at \in AppointmentAt \cup {"idle"}
<1>1. ASSUME NEW w \in Workers, NEW a \in Appointments,
             NEW at \in {"confirming", "checking in", "calling off", "converting"},
             CheckAppointment(w, at, a)
      PROVE  req'[v] = req[v] \/ req'[v].at \in AppointmentAt \cup {"idle"}
    <2> DEFINE r == [at |-> at, appointment |-> a, stale |-> FALSE]
    <2>1. Begin(w, r) /\ r.at \in AppointmentAt
        BY <1>1 DEF CheckAppointment, AppointmentAt
    <2> HIDE DEF r
    <2> QED BY <2>1, GotoMoves
<1>2. ASSUME NEW w \in Workers, Finish(w)
      PROVE  req'[v] = req[v] \/ req'[v].at \in AppointmentAt \cup {"idle"}
    BY <1>2, GotoMoves DEF Finish, Idle
<1> QED
    BY <1>1, <1>2 DEF AppointmentStep, CreateAppointment, ConfirmAppointment, CheckIn,
       CancelAppointment, SetStatus, ConvertToRepairOrder, floorVars

ScheduleAt == {"scheduling", "rescheduling", "unscheduling"} \cup FoundAt

LEMMA ScheduleRequestsMove ==
    ASSUME TypeOK, ScheduleStep, NEW v \in Workers
    PROVE  \/ req'[v] = req[v]
           \/ req[v] # Idle /\ req'[v] = Staled(req[v])
           \/ req'[v].at \in ScheduleAt \cup {"idle"}
<1> DEFINE Moved == \/ req'[v] = req[v]
                    \/ req[v] # Idle /\ req'[v] = Staled(req[v])
                    \/ req'[v].at \in ScheduleAt \cup {"idle"}
<1>1. ASSUME NEW w \in Workers, NEW r, r.at \in ScheduleAt \cup {"idle"},
             Begin(w, r) \/ Goto(w, r)
      PROVE  Moved
    BY <1>1, GotoMoves
<1>2. ASSUME NEW w \in Workers, Finish(w) PROVE Moved
    BY <1>1, <1>2 DEF Finish, Idle
<1>3. ASSUME NEW w \in Workers, Overtaken(w) PROVE Moved
    BY <1>3 DEF Overtaken, Idle
<1> HIDE DEF Moved
<1>4. ASSUME NEW w \in Workers, NEW o \in Orders,
             \/ \E d \in Dates : \/ CheckReschedule(w, o, d)
                                 \/ \E ended \in BOOLEAN : CheckSchedule(w, o, d, ended)
             \/ CheckUnschedule(w, o)
      PROVE  Moved
    BY <1>1, <1>4 DEF CheckReschedule, CheckSchedule, CheckUnschedule, ScheduleAt
<1>5. ASSUME NEW w \in Workers, FindForReschedule(w) \/ FindForCancel(w)
      PROVE  Moved
    BY <1>1, <1>2, <1>5 DEF FindForReschedule, FindForCancel, ScheduleAt, FoundAt
<1>6. ASSUME NEW w \in Workers, ScheduleOrder(w) \/ Reschedule(w) \/ CancelSchedule(w)
      PROVE  Moved
    BY <1>2, <1>3, <1>6, BlockMoves DEF ScheduleOrder, CancelSchedule
<1>7. ASSUME NEW o \in Orders,
             \/ \E to \in OrderStatus : MoveOrder(o, to)
             \/ \E d \in Dates : PatchDate(o, d)
      PROVE  Moved
    BY <1>7 DEF MoveOrder, PatchDate, Moved
<1>8. Moved
    BY <1>4, <1>5, <1>6, <1>7 DEF ScheduleStep
<1> QED
    BY <1>8 DEF Moved

LEMMA AssignmentRequestsMove ==
    ASSUME TypeOK, AssignmentStep, NEW v \in Workers
    PROVE  \/ req'[v] = req[v]
           \/ req[v] # Idle /\ req'[v] = Staled(req[v])
           \/ req'[v].at \in ReadAt \cup PlaceAt \cup SetAt \cup {"releasing", "idle"}
<1> DEFINE Others == ReadAt \cup PlaceAt \cup SetAt \cup {"releasing", "idle"}
           Moved == \/ req'[v] = req[v]
                    \/ req[v] # Idle /\ req'[v] = Staled(req[v])
                    \/ req'[v].at \in Others
<1>0. req \in [Workers -> RequestSet]
    BY TypedRequests
<1>1. ASSUME NEW w \in Workers, NEW r, r.at \in Others, Begin(w, r) \/ Goto(w, r)
      PROVE  Moved
    BY <1>1, GotoMoves
<1>2. ASSUME NEW w \in Workers, Finish(w) PROVE Moved
    BY <1>1, <1>2 DEF Finish, Idle
<1>3. ASSUME NEW w \in Workers, Overtaken(w) PROVE Moved
    BY <1>3 DEF Overtaken, Idle
<1> HIDE DEF Moved
<1>4. ASSUME NEW w \in Workers, NEW o \in Orders,
             \/ \E t \in Technicians : CheckAssign(w, o, t) \/ CheckReassign(w, o, t)
             \/ CheckRemove(w, o) \/ CheckRelease(w, o)
             \/ \E b \in Bays : CheckBay(w, o, b)
      PROVE  Moved
    BY <1>1, <1>4 DEF CheckAssign, CheckReassign, CheckRemove, CheckRelease, CheckBay,
       ReadAt, PlaceAt
<1>5. ASSUME NEW w \in Workers, NEW b \in Bays, NEW status \in BayStatus,
             CheckBayStatus(w, b, status)
      PROVE  Moved
    BY <1>1, <1>5 DEF CheckBayStatus, SetAt
<1>6. ASSUME NEW w \in Workers, CheckUnplaced(w) \/ CheckVacant(w) \/ CheckOccupied(w)
      PROVE  Moved
    <2>1. req[w] \in AssignmentRequests
        BY <1>0, <1>6, BayRequest DEF CheckUnplaced, CheckVacant, CheckOccupied, PlaceAt, SetAt
    <2>2. /\ [req[w] EXCEPT !.at = "entering"].at \in Others
          /\ [req[w] EXCEPT !.at = "occupying"].at \in Others
          /\ [req[w] EXCEPT !.at = "setting"].at \in Others
        BY <2>1 DEF AssignmentRequests, PlaceAt, SetAt
    <2> QED BY <1>1, <1>2, <1>6, <2>2 DEF CheckUnplaced, CheckVacant, CheckOccupied
<1>7. ASSUME NEW w \in Workers,
             \/ AssignTechnician(w) \/ ReassignTechnician(w) \/ RemoveTechnician(w)
             \/ OccupyBay(w) \/ ReleaseBay(w) \/ SetBayStatus(w)
      PROVE  Moved
    BY <1>2, <1>3, <1>7, AssignMoves, BayMoves DEF RemoveTechnician, ReleaseBay
<1>8. ASSUME NEW o \in Orders, NEW t \in Technicians, PatchTechnician(o, t)
      PROVE  Moved
    BY <1>8 DEF PatchTechnician, Moved
<1>9. Moved
    BY <1>4, <1>5, <1>6, <1>7, <1>8 DEF AssignmentStep
<1> QED
    BY <1>9 DEF Moved

(* An order is scheduled by one request at a time: the claim compares its   *)
(* status, which allows no active block.                                    *)
LEMMA ScheduleOrderKeeps ==
    ASSUME TypeOK, ScheduleInv, NEW w \in Workers, ScheduleOrder(w)
    PROVE  ScheduleInv'
<1>0. /\ order \in [Orders -> OrderRows]
      /\ req \in [Workers -> RequestSet]
      /\ block \in [Orders -> Seq(BlockRows)]
    BY TypedRequests DEF TypeOK, ScheduleTypeOK
<1>1. PICK o \in Orders, d \in Dates, s \in {"ENDED", "ACTIVE"} :
         /\ o = req[w].order /\ d = req[w].date
         /\ s = IF req[w].ended THEN "ENDED" ELSE "ACTIVE"
    BY <1>0, RequestFields DEF ScheduleOrder
<1> DEFINE x == Block(d, s)
           n == Len(block[o]) + 1
<1>2. /\ req'[w].at = "idle"
      /\ \A v \in Workers : v # w => req'[v] = req[v]
      /\ unkept' = unkept
    BY <1>0 DEF ScheduleOrder, Finish, Goto, Idle
<1>3. CASE UNCHANGED <<order, block>>
    BY <1>2, <1>3, ScheduleElsewhere DEF FoundAt
<1>4. CASE Schedulable(o) /\ "schedule" \notin unkept
    <2>1. /\ order' = [order EXCEPT ![o].status = "SCHEDULED", ![o].date = d]
          /\ block' = [block EXCEPT ![o] = Append(@, x)]
        BY <1>1, <1>4 DEF ScheduleOrder
    <2>2. ActiveBlocks(o) = {}
        BY <1>1, <1>4 DEF ScheduleInv, OrderScheduled, Schedulable
    <2>3. x \in BlockRows /\ x.status = s /\ x.date = d
        BY <1>1 DEF Block, BlockRows
    <2>4. block[o] \in Seq(BlockRows) /\ Len(block[o]) \in Nat
        BY <1>0, <1>1
    <2>5. /\ order'[o].status = "SCHEDULED" /\ order'[o].date = d
          /\ \A p \in Orders : p # o => order'[p] = order[p] /\ block'[p] = block[p]
        BY <1>0, <1>1, <2>1 DEF OrderRows
    <2>6. block'[o] = Append(block[o], x)
        BY <1>0, <1>1, <2>1
    <2> HIDE DEF x
    <2>7. Len(block'[o]) = n /\ block'[o][n] = x /\ n > 0
        BY <2>3, <2>4, <2>6, Appended
    <2>8. ActiveBlocks(o)' \subseteq {n}
        BY <2>2, <2>3, <2>4, <2>6, ActivesAppended DEF Actives, ActiveBlocks
    <2> HIDE DEF n
    <2>9. OrderScheduled(o)'
        <3>1. DateShown(o)'
            BY <1>1, <2>3, <2>5, <2>7 DEF DateShown
        <3>2. (order[o].status \notin {"ABSENT", "EARLIER", "READY_TO_WORK"})'
            BY <2>5
        <3> QED BY <2>8, <3>1, <3>2 DEF OrderScheduled
    <2>10. ASSUME NEW v \in Workers
           PROVE  \/ req'[v].at \notin FoundAt
                  \/ req'[v].stale
                  \/ req'[v] = req[v] /\ req[v].order \in Orders \ {o}
        <3>1. CASE v = w
            BY <1>2, <3>1 DEF FoundAt
        <3>2. CASE v # w /\ req[v].at \in FoundAt /\ ~req[v].stale
            <4>1. ActiveBlocks(req[v].order) # {}
                BY <1>4, <3>2 DEF ScheduleInv, FoundIsActive
            <4>2. req[v].order \in Orders
                BY <1>0, <3>2, RequestFields
            <4> QED BY <1>2, <2>2, <3>2, <4>1, <4>2
        <3> QED BY <1>2, <3>1, <3>2
    <2> QED BY <1>4, <2>5, <2>9, <2>10, OneOrderScheduled
<1>5. CASE "schedule" \in unkept
    BY <1>2, <1>5 DEF ScheduleInv
<1> QED
    BY <1>1, <1>3, <1>4, <1>5 DEF ScheduleOrder

(* The newest active block is the only one.                                 *)
LEMMA FindKeeps ==
    ASSUME TypeOK, ScheduleInv, NEW w \in Workers, FindForReschedule(w) \/ FindForCancel(w)
    PROVE  ScheduleInv'
<1>0. req \in [Workers -> RequestSet]
    BY TypedRequests
<1> DEFINE o == req[w].order
<1>1. o \in Orders
    BY <1>0, RequestFields DEF FindForReschedule, FindForCancel
<1>2. UNCHANGED <<order, unkept, block>>
    BY DEF FindForReschedule, FindForCancel
<1>3. \A v \in Workers : v # w => req'[v] = req[v]
    BY <1>0 DEF FindForReschedule, FindForCancel, Finish, Goto
<1>4. \/ req'[w].at = "idle"
      \/ /\ ActiveBlocks(o) # {}
         /\ req'[w].order = o /\ req'[w].row = NewestActive(o)
    BY <1>0 DEF FindForReschedule, FindForCancel, Finish, Goto, Idle
<1> HIDE DEF o
<1>5. ASSUME "schedule" \notin unkept PROVE FoundIsActive(req[w])'
    <2>1. \A i, j \in ActiveBlocks(o) : i = j
        BY <1>1, <1>5 DEF ScheduleInv, OrderScheduled
    <2>2. CASE ActiveBlocks(o) # {} /\ req'[w].order = o /\ req'[w].row = NewestActive(o)
        <3>1. NewestActive(o) \in ActiveBlocks(o)
            BY <1>1, <2>2, NewestActiveRow
        <3>2. ActiveBlocks(o) = {NewestActive(o)}
            BY <2>1, <3>1
        <3> QED BY <1>2, <2>2, <3>2 DEF FoundIsActive, ActiveBlocks
    <2> QED BY <1>4, <2>2 DEF FoundIsActive, FoundAt
<1>6. ASSUME "schedule" \notin unkept, NEW v \in Workers PROVE FoundIsActive(req[v])'
    <2>1. CASE v # w
        BY <1>2, <1>3, <1>6, <2>1 DEF ScheduleInv, FoundIsActive, ActiveBlocks
    <2> QED BY <1>5, <1>6, <2>1
<1>7. ASSUME "schedule" \notin unkept, NEW p \in Orders PROVE OrderScheduled(p)'
    BY <1>2, <1>7 DEF ScheduleInv, OrderScheduled, DateShown, ActiveBlocks
<1> QED
    BY <1>2, <1>6, <1>7 DEF ScheduleInv

(* A commit on the block found leaves no other request with it.             *)
LEMMA BlockCommitKeeps ==
    ASSUME TypeOK, ScheduleInv, NEW w \in Workers,
           \/ Reschedule(w)
           \/ CancelSchedule(w) /\ order[req[w].order].status = "SCHEDULED"
    PROVE  ScheduleInv'
<1>0. /\ order \in [Orders -> OrderRows]
      /\ req \in [Workers -> RequestSet]
      /\ block \in [Orders -> Seq(BlockRows)]
    BY TypedRequests DEF TypeOK, ScheduleTypeOK
<1>1. PICK o \in Orders, i \in Nat :
         o = req[w].order /\ i = req[w].row /\ req[w].at \in FoundAt
    BY <1>0, RequestFields DEF Reschedule, CancelSchedule, FoundAt
<1> DEFINE s == block[o]
           e == [s[i] EXCEPT !.status = "CANCELLED"]
           n == Len(s) + 1
<1>2. CASE req[w].stale \/ "schedule" \in unkept
    BY <1>2 DEF Reschedule, CancelSchedule, Keep, ScheduleInv
<1>3. CASE ~req[w].stale /\ "schedule" \notin unkept
    <2>1. ActiveBlocks(o) = {i} /\ OrderScheduled(o)
        BY <1>1, <1>3 DEF ScheduleInv, FoundIsActive
    <2>2. s \in Seq(BlockRows) /\ Len(s) \in Nat
        BY <1>0, <1>1
    <2>3. i \in DOMAIN s => s[i] \in BlockRows
        BY <2>2
    <2>4. (i \in DOMAIN s => e \in BlockRows) /\ i \in DOMAIN s /\ e.status = "CANCELLED"
        BY <2>1, <2>3 DEF BlockRows, ActiveBlocks
    <2>5. Actives(s) = {i}
        BY <2>1 DEF Actives, ActiveBlocks
    <2>6. OrderScheduled(o)' /\ \A p \in Orders : p # o =>
             order'[p] = order[p] /\ block'[p] = block[p]
        <3>1. CASE Reschedule(w)
            <4>1. PICK d \in Dates : d = req[w].date
                BY <1>0, <3>1, RequestFields DEF Reschedule
            <4> DEFINE x == Block(d, "ACTIVE")
            <4>2. /\ order' = [order EXCEPT ![o].date = d]
                  /\ block' = [block EXCEPT ![o] = Append([@ EXCEPT ![i].status = "CANCELLED"], x)]
                BY <1>1, <3>1, <4>1 DEF Reschedule
            <4>3. x \in BlockRows /\ x.status = "ACTIVE" /\ x.date = d
                BY DEF Block, BlockRows
            <4>4. block'[o] = Append([s EXCEPT ![i] = e], x)
                BY <1>0, <1>1, <4>2
            <4>5. /\ order'[o].status = order[o].status /\ order'[o].date = d
                  /\ \A p \in Orders : p # o => order'[p] = order[p] /\ block'[p] = block[p]
                BY <1>0, <1>1, <4>2 DEF OrderRows
            <4> HIDE DEF e, x, s
            <4>6. Len(block'[o]) = n /\ block'[o][n] = x /\ n > 0
                BY <1>1, <2>2, <2>4, <4>3, <4>4, Replaced
            <4>7. Actives(block'[o]) = {n}
                BY <1>1, <2>2, <2>4, <2>5, <4>3, <4>4, ActivesReplaced
            <4> HIDE DEF n
            <4>8. ActiveBlocks(o)' = {n}
                BY <4>7 DEF Actives, ActiveBlocks
            <4>9. DateShown(o)'
                BY <4>3, <4>5, <4>6 DEF DateShown
            <4>10. (order[o].status \notin {"ABSENT", "EARLIER", "READY_TO_WORK"})'
                BY <2>1, <4>5 DEF OrderScheduled
            <4> QED BY <4>5, <4>8, <4>9, <4>10 DEF OrderScheduled
        <3>2. CASE CancelSchedule(w) /\ order[o].status = "SCHEDULED"
            <4>1. /\ order' = [order EXCEPT ![o].status = "READY_TO_WORK", ![o].date = None]
                  /\ block' = [block EXCEPT ![o][i].status = "CANCELLED"]
                BY <1>1, <3>2 DEF CancelSchedule
            <4>2. block'[o] = [s EXCEPT ![i] = e]
                BY <1>0, <1>1, <4>1
            <4>3. /\ order'[o].status = "READY_TO_WORK"
                  /\ \A p \in Orders : p # o => order'[p] = order[p] /\ block'[p] = block[p]
                BY <1>0, <1>1, <4>1 DEF OrderRows
            <4> HIDE DEF e, s
            <4>4. Actives(block'[o]) = {}
                BY <1>1, <2>2, <2>4, <2>5, <4>2, ActivesRewritten
            <4>5. ActiveBlocks(o)' = {}
                BY <4>4 DEF Actives, ActiveBlocks
            <4> QED BY <4>3, <4>5 DEF OrderScheduled, DateShown
        <3> QED BY <1>1, <3>1, <3>2
    <2>7. ASSUME NEW v \in Workers
          PROVE  \/ req'[v].at \notin FoundAt
                 \/ req'[v].stale
                 \/ req'[v] = req[v] /\ req[v].order \in Orders \ {o}
        <3>1. /\ Overtaken(w)
              /\ v # w /\ HasFound(o, req[v]) /\ req[v] # Idle => req'[v] = Staled(req[v])
            BY <1>1, BlockMoves
        <3>2. CASE req'[v] = Idle
            BY <3>2 DEF Idle, FoundAt
        <3>3. CASE req[v] # Idle /\ req'[v] = Staled(req[v])
            BY <1>0, <3>3, StaledRequest
        <3>4. CASE req'[v] = req[v] /\ req[v].at \in FoundAt /\ v # w /\ req[v].order = o
            <4>1. req[v] # Idle
                BY <3>4 DEF Idle, FoundAt
            <4>2. HasFound(o, req[v])
                BY <3>4 DEF HasFound, FoundAt
            <4> QED BY <1>0, <3>1, <3>4, <4>1, <4>2, StaledRequest
        <3>5. CASE v = w
            <4>1. req'[w] = Idle
                BY <1>0 DEF Reschedule, CancelSchedule, CommitOver
            <4> QED BY <3>2, <3>5, <4>1
        <3>6. CASE req'[v] = req[v] /\ req[v].at \in FoundAt /\ req[v].order # o
            BY <1>0, <3>6, RequestFields
        <3> QED BY <3>1, <3>2, <3>3, <3>4, <3>5, <3>6 DEF Overtaken
    <2> QED BY <1>3, <2>6, <2>7, OneOrderScheduled
<1> QED
    BY <1>2, <1>3

(* What a user does by hand is marked.                                      *)
LEMMA MoveKeeps ==
    ASSUME TypeOK, ScheduleInv, NEW o \in Orders, NEW to \in OrderStatus, MoveOrder(o, to)
    PROVE  ScheduleInv'
<1> SUFFICES ASSUME "schedule" \notin unkept'
             PROVE  ScheduleInv'
    BY DEF ScheduleInv
<1>0. order \in [Orders -> OrderRows]
    BY DEF TypeOK
<1>1. /\ "schedule" \notin unkept
      /\ to # "ABSENT" /\ (to = "SCHEDULED" => block[o] = <<>>)
      /\ to = "LATER" \/ ActiveBlocks(o) = {}
      /\ UNCHANGED <<req, block>>
      /\ order'[o].status = to
      /\ \A p \in Orders : p # o => order'[p] = order[p]
    BY <1>0 DEF MoveOrder, MovesTo, OrderRows, OrderStatus
<1>2. /\ \A p \in Orders : OrderScheduled(p)
      /\ \A w \in Workers : FoundIsActive(req[w])
    BY <1>1 DEF ScheduleInv
<1>3. ASSUME NEW p \in Orders PROVE OrderScheduled(p)'
    <2>1. CASE p = o
        BY <1>1, <1>2, <2>1 DEF OrderScheduled, DateShown, ActiveBlocks
    <2>2. CASE p # o
        BY <1>1, <1>2, <2>2 DEF OrderScheduled, DateShown, ActiveBlocks
    <2> QED BY <2>1, <2>2
<1>4. ASSUME NEW w \in Workers PROVE FoundIsActive(req[w])'
    BY <1>1, <1>2 DEF FoundIsActive, ActiveBlocks
<1> QED
    BY <1>3, <1>4 DEF ScheduleInv

LEMMA StepScheduleInv ==
    ASSUME TypeOK, ScheduleInv, [Next]_vars
    PROVE  ScheduleInv'
<1>0. /\ order \in [Orders -> OrderRows]
      /\ req \in [Workers -> RequestSet]
    BY TypedRequests DEF TypeOK
<1>1. ASSUME NEW o \in Orders, NEW status \in OrderStatus, NEW d \in Dates \cup {None},
             NEW t \in Technicians \cup {None}, CreateOrder(o, status, d, t),
             UNCHANGED block
      PROVE  ScheduleInv'
    <2>1. \A p \in Orders :
             \/ order'[p].status = order[p].status /\ order'[p].date = order[p].date
             \/ order[p].status = "ABSENT" /\ order'[p].status # "ABSENT"
        BY <1>0, <1>1 DEF CreateOrder, Created
    <2> QED BY <1>1, <2>1, ScheduleElsewhere DEF CreateOrder
<1>2. CASE AppointmentStep /\ UNCHANGED block
    <2>1. \A o \in Orders :
             \/ order'[o].status = order[o].status /\ order'[o].date = order[o].date
             \/ order[o].status = "ABSENT" /\ order'[o].status = "EARLIER"
        BY <1>2, AppointmentCreates
    <2>2. \A v \in Workers : req'[v] = req[v] \/ req'[v].at \notin FoundAt
        BY <1>2, AppointmentRequestsMove DEF AppointmentAt, FoundAt
    <2>3. unkept' = unkept
        BY <1>2, AppointmentTyped
    <2> QED BY <1>2, <2>1, <2>2, <2>3, ScheduleElsewhere
<1>3. CASE AssignmentStep /\ UNCHANGED block
    <2>1. \A o \in Orders :
             order'[o].status = order[o].status /\ order'[o].date = order[o].date
        BY <1>3, AssignmentKeeps
    <2>2. \A v \in Workers : \/ req'[v] = req[v]
                             \/ req'[v].at \notin FoundAt
                             \/ req'[v].stale
        BY <1>0, <1>3, AssignmentRequestsMove, StaledRequest
           DEF ReadAt, PlaceAt, SetAt, FoundAt
    <2>3. unkept \subseteq unkept'
        BY <1>3 DEF AssignmentStep, CheckAssign, CheckReassign, CheckRemove, CheckRelease,
           CheckBay, CheckBayStatus, AssignTechnician, ReassignTechnician, RemoveTechnician,
           CheckUnplaced, CheckVacant, OccupyBay, ReleaseBay, CheckOccupied, SetBayStatus,
           PatchTechnician, Keep
    <2> QED BY <1>3, <2>1, <2>2, <2>3, ScheduleElsewhere
<1>4. CASE ScheduleStep
    <2>1. ASSUME NEW w \in Workers, NEW r, r.at \notin FoundAt, Begin(w, r) \/ Goto(w, r),
                 UNCHANGED <<order, unkept, block>>
          PROVE  ScheduleInv'
        BY <2>1, GotoMoves, ScheduleElsewhere
    <2>2. ASSUME NEW w \in Workers, NEW o \in Orders,
                 \/ \E d \in Dates : \/ CheckReschedule(w, o, d)
                                     \/ \E ended \in BOOLEAN : CheckSchedule(w, o, d, ended)
                 \/ CheckUnschedule(w, o)
          PROVE  ScheduleInv'
        BY <2>1, <2>2 DEF CheckReschedule, CheckSchedule, CheckUnschedule, FoundAt
    <2>3. ASSUME NEW w \in Workers, CancelSchedule(w)
          PROVE  ScheduleInv'
        <3>1. CASE Finish(w) /\ UNCHANGED <<order, unkept, block>>
            BY <2>1, <3>1 DEF Finish, Idle, FoundAt
        <3> QED BY <2>3, <3>1, BlockCommitKeeps DEF CancelSchedule
    <2>4. ASSUME NEW o \in Orders, NEW d \in Dates, PatchDate(o, d)
          PROVE  ScheduleInv'
        <3>1. CASE block[o] # <<>>
            BY <2>4, <3>1 DEF PatchDate, ScheduleInv
        <3>2. CASE block[o] = <<>>
            <4>1. \A p \in Orders : /\ order'[p].status = order[p].status
                                    /\ order'[p].date = order[p].date \/ block[p] = <<>>
                BY <1>0, <2>4, <3>2 DEF PatchDate, OrderRows
            <4> QED BY <2>4, <3>2, <4>1, ScheduleElsewhere DEF PatchDate
        <3> QED BY <3>1, <3>2
    <2> QED
        BY <1>4, <2>2, <2>3, <2>4, ScheduleOrderKeeps, FindKeeps, BlockCommitKeeps, MoveKeeps
           DEF ScheduleStep
<1>5. CASE UNCHANGED vars
    BY <1>5, ScheduleElsewhere DEF vars, floorVars
<1> QED
    BY <1>1, <1>2, <1>3, <1>4, <1>5 DEF Next

LEMMA OneAtMost ==
    ASSUME NEW S, \A i, j \in S : i = j
    PROVE  Cardinality(S) <= 1
<1>1. CASE S = {}
    BY <1>1, FS_EmptySet
<1>2. CASE S # {}
    <2>1. PICK i \in S : TRUE
        BY <1>2
    <2>2. S = {i}
        BY <2>1
    <2>3. Cardinality(S) = 1
        BY <2>2, FS_Singleton
    <2> QED BY <2>3
<1> QED
    BY <1>1, <1>2

(* Requests that found an older block and edits by hand of an order with    *)
(* blocks aside, an order has at most one active block and shows its date   *)
(* (scheduleRepairOrderRecord claims the order by its status;               *)
(* rescheduleRepairOrderRecord and cancelRepairOrderScheduleRecord cancel   *)
(* the block they found).                                                   *)
THEOREM ScheduleKept == Spec => []ScheduleIsKept
<1>1. ScheduleInv => ScheduleIsKept
    BY OneAtMost DEF ScheduleInv, OrderScheduled, DateShown, ScheduleIsKept
<1>2. TypeOK /\ ScheduleInv /\ [Next]_vars => TypeOK' /\ ScheduleInv'
    BY StepTyped, StepScheduleInv
<1> QED
    BY <1>1, <1>2, InitTyped, InitScheduleInv, PTL DEF Spec

-----------------------------------------------------------------------------
(* The technician, while assignments do not overlap and no one sets it.     *)
OrderStaffed(o) ==
    /\ \A i, j \in ActiveAssignments(o) : i = j
    /\ order[o].status = "ABSENT" => assignment[o] = <<>>
    /\ assignment[o] # <<>> =>
         IF ActiveAssignments(o) = {} THEN order[o].technician = None
         ELSE \A i \in ActiveAssignments(o) : assignment[o][i].technician = order[o].technician

(* What a request has read of the assignments is so until a commit makes    *)
(* the request stale.                                                       *)
AssignmentRead(r) ==
    ~r.stale =>
       /\ r.at = "assigning" => /\ order[r.order].status # "ABSENT"
                                /\ ActiveAssignments(r.order) = {}
       /\ r.at \in {"reassigning", "removing"} => ActiveAssignments(r.order) = {r.row}

TechnicianInv ==
    "technician" \notin unkept =>
       /\ \A o \in Orders : OrderStaffed(o)
       /\ \A w \in Workers : AssignmentRead(req[w])

LEMMA InitTechnicianInv == Init => TechnicianInv
<1> SUFFICES ASSUME Init PROVE TechnicianInv
    OBVIOUS
<1>1. \A o \in Orders : ActiveAssignments(o) = {} /\ assignment[o] = <<>>
    BY DEF Init, AssignmentsInit, ActiveAssignments
<1>2. \A w \in Workers : req[w].at = "idle"
    BY DEF Init, FloorInit, Idle
<1> QED
    BY <1>1, <1>2 DEF TechnicianInv, OrderStaffed, AssignmentRead

(* What the appointments, the schedule and the bays do is not about         *)
(* technicians.                                                             *)
LEMMA TechnicianElsewhere ==
    ASSUME TypeOK, TechnicianInv, UNCHANGED assignment, unkept \subseteq unkept',
           \A o \in Orders :
              \/ /\ order'[o].technician = order[o].technician \/ assignment[o] = <<>>
                 /\ order'[o].status = "ABSENT" <=> order[o].status = "ABSENT"
              \/ order[o].status = "ABSENT" /\ order'[o].status # "ABSENT",
           \A w \in Workers : \/ req'[w] = req[w]
                              \/ req'[w].at \notin ReadAt
                              \/ req'[w].stale
    PROVE  TechnicianInv'
<1> SUFFICES ASSUME "technician" \notin unkept'
             PROVE  /\ \A o \in Orders : OrderStaffed(o)'
                    /\ \A w \in Workers : AssignmentRead(req[w])'
    BY DEF TechnicianInv
<1>0. req \in [Workers -> RequestSet]
    BY TypedRequests
<1>1. /\ \A o \in Orders : OrderStaffed(o)
      /\ \A w \in Workers : AssignmentRead(req[w])
    BY DEF TechnicianInv
<1>2. ASSUME NEW o \in Orders PROVE OrderStaffed(o)'
    <2>1. ActiveAssignments(o)' = ActiveAssignments(o)
        BY DEF ActiveAssignments
    <2>2. CASE /\ order'[o].technician = order[o].technician \/ assignment[o] = <<>>
               /\ order'[o].status = "ABSENT" <=> order[o].status = "ABSENT"
        BY <1>1, <2>1, <2>2 DEF OrderStaffed
    <2>3. CASE order[o].status = "ABSENT" /\ order'[o].status # "ABSENT"
        BY <1>1, <2>1, <2>3 DEF OrderStaffed
    <2> QED BY <2>2, <2>3
<1>3. ASSUME NEW w \in Workers PROVE AssignmentRead(req[w])'
    <2>1. CASE req'[w] = req[w]
        <3>1. req[w].at \in ReadAt => req[w].order \in Orders
            BY <1>0, RequestFields
        <3>2. req[w].at = "assigning" /\ order[req[w].order].status # "ABSENT" =>
                 order'[req[w].order].status # "ABSENT"
            BY <3>1 DEF ReadAt
        <3> QED BY <1>1, <2>1, <3>2 DEF AssignmentRead, ActiveAssignments
    <2>2. CASE req'[w].at \notin ReadAt
        BY <2>2 DEF AssignmentRead, ReadAt
    <2>3. CASE req'[w].stale
        BY <2>3 DEF AssignmentRead
    <2> QED BY <2>1, <2>2, <2>3
<1> QED
    BY <1>2, <1>3

(* A step that changes the assignments of one order.                        *)
LEMMA OneOrderStaffed ==
    ASSUME TechnicianInv, "technician" \notin unkept, NEW o \in Orders,
           \A p \in Orders : p # o => order'[p] = order[p] /\ assignment'[p] = assignment[p],
           OrderStaffed(o)',
           \A v \in Workers : \/ req'[v].at \notin ReadAt
                              \/ req'[v].stale
                              \/ req'[v] = req[v] /\ req[v].order \in Orders \ {o}
    PROVE  TechnicianInv'
<1>1. /\ \A p \in Orders : OrderStaffed(p)
      /\ \A w \in Workers : AssignmentRead(req[w])
    BY DEF TechnicianInv
<1>2. ASSUME NEW p \in Orders PROVE OrderStaffed(p)'
    BY <1>1 DEF OrderStaffed, ActiveAssignments
<1>3. ASSUME NEW w \in Workers PROVE AssignmentRead(req[w])'
    BY <1>1 DEF AssignmentRead, ActiveAssignments, ReadAt
<1> QED
    BY <1>2, <1>3 DEF TechnicianInv

(* A request begins with what it reads.                                     *)
LEMMA AssignmentCheckKeeps ==
    ASSUME TypeOK, TechnicianInv, NEW w \in Workers, NEW o \in Orders,
           \/ \E t \in Technicians : CheckAssign(w, o, t) \/ CheckReassign(w, o, t)
           \/ CheckRemove(w, o)
    PROVE  TechnicianInv'
<1>1. UNCHANGED <<order, unkept, assignment>>
    BY DEF CheckAssign, CheckReassign, CheckRemove, assignVars
<1>2. ASSUME NEW r, Begin(w, r), "technician" \notin unkept => AssignmentRead(r)
      PROVE  TechnicianInv'
    <2>1. ASSUME "technician" \notin unkept, NEW v \in Workers
          PROVE  AssignmentRead(req[v])'
        <3>1. req'[v] = req[v] \/ req'[v] = r
            BY <1>2, GotoMoves
        <3> QED BY <1>1, <1>2, <2>1, <3>1 DEF TechnicianInv, AssignmentRead, ActiveAssignments
    <2>2. ASSUME "technician" \notin unkept, NEW p \in Orders
          PROVE  OrderStaffed(p)'
        BY <1>1, <2>2 DEF TechnicianInv, OrderStaffed, ActiveAssignments
    <2> QED BY <1>1, <2>1, <2>2 DEF TechnicianInv
<1>3. ASSUME "technician" \notin unkept, NEW i \in ActiveAssignments(o)
      PROVE  ActiveAssignments(o) = {i}
    BY <1>3 DEF TechnicianInv, OrderStaffed
<1>4. ASSUME NEW t \in Technicians, CheckAssign(w, o, t)
      PROVE  TechnicianInv'
    <2> DEFINE r == [at |-> "assigning", order |-> o, technician |-> t, stale |-> FALSE]
    <2>1. Begin(w, r) /\ AssignmentRead(r)
        BY <1>4 DEF CheckAssign, Exists, Unassigned, AssignmentRead
    <2> HIDE DEF r
    <2> QED BY <1>2, <2>1
<1>5. ASSUME NEW t \in Technicians, CheckReassign(w, o, t)
      PROVE  TechnicianInv'
    <2>1. PICK i \in ActiveAssignments(o) :
             Begin(w, [at |-> "reassigning", order |-> o, technician |-> t, row |-> i,
                       stale |-> FALSE])
        BY <1>5 DEF CheckReassign
    <2> DEFINE r == [at |-> "reassigning", order |-> o, technician |-> t, row |-> i,
                     stale |-> FALSE]
    <2>2. "technician" \notin unkept => AssignmentRead(r)
        BY <1>3 DEF AssignmentRead
    <2> HIDE DEF AssignmentRead
    <2> QED BY <1>2, <2>1, <2>2
<1>6. CASE CheckRemove(w, o)
    <2>1. PICK i \in ActiveAssignments(o) :
             Begin(w, [at |-> "removing", order |-> o, row |-> i, stale |-> FALSE])
        BY <1>6 DEF CheckRemove
    <2> DEFINE r == [at |-> "removing", order |-> o, row |-> i, stale |-> FALSE]
    <2>2. "technician" \notin unkept => AssignmentRead(r)
        BY <1>3 DEF AssignmentRead
    <2> QED BY <1>2, <2>1, <2>2
<1> QED
    BY <1>4, <1>5, <1>6

(* A commit on what was read leaves no other request that has read it.      *)
LEMMA AssignmentCommitKeeps ==
    ASSUME TypeOK, TechnicianInv, NEW w \in Workers,
           \/ AssignTechnician(w) \/ ReassignTechnician(w)
           \/ /\ RemoveTechnician(w)
              /\ order[req[w].order].technician
                    = assignment[req[w].order][req[w].row].technician
    PROVE  TechnicianInv'
<1>0. /\ order \in [Orders -> OrderRows]
      /\ req \in [Workers -> RequestSet]
      /\ assignment \in [Orders -> Seq(AssignmentRows)]
    BY TypedRequests DEF TypeOK, AssignmentsTypeOK
<1>1. PICK o \in Orders :
         o = req[w].order /\ req[w].at \in ReadAt
    BY <1>0, RequestFields DEF AssignTechnician, ReassignTechnician, RemoveTechnician, ReadAt
<1> DEFINE s == assignment[o]
           n == Len(s) + 1
<1>2. CASE req[w].stale \/ "technician" \in unkept
    BY <1>2 DEF AssignTechnician, ReassignTechnician, RemoveTechnician, Keep, TechnicianInv
<1>3. CASE ~req[w].stale /\ "technician" \notin unkept
    <2>1. OrderStaffed(o) /\ AssignmentRead(req[w])
        BY <1>3 DEF TechnicianInv
    <2>2. s \in Seq(AssignmentRows) /\ Len(s) \in Nat
        BY <1>0
    <2>3. ActiveAssignments(o) = Actives(s)
        BY DEF Actives, ActiveAssignments
    <2>4. ASSUME NEW t \in Technicians, order' = [order EXCEPT ![o].technician = t],
                 NEW rows \in Seq(AssignmentRows), assignment' = [assignment EXCEPT ![o] = rows],
                 Actives(rows) = {n}, rows[n].technician = t, order[o].status # "ABSENT"
          PROVE  OrderStaffed(o)'
        <3>1. assignment'[o] = rows
            BY <1>0, <2>4
        <3>2. order'[o].technician = t /\ order'[o].status = order[o].status
            BY <1>0, <2>4 DEF OrderRows
        <3> HIDE DEF n
        <3>3. ActiveAssignments(o)' = {n}
            BY <2>4, <3>1 DEF Actives, ActiveAssignments
        <3> QED BY <2>4, <3>1, <3>2, <3>3 DEF OrderStaffed
    <2>5. OrderStaffed(o)' /\ \A p \in Orders : p # o =>
             order'[p] = order[p] /\ assignment'[p] = assignment[p]
        <3>1. CASE AssignTechnician(w)
            <4>1. PICK t \in Technicians : t = req[w].technician
                BY <1>0, <3>1, RequestFields DEF AssignTechnician
            <4> DEFINE x == [technician |-> t, status |-> "ACTIVE"]
            <4>2. /\ order' = [order EXCEPT ![o].technician = t]
                  /\ assignment' = [assignment EXCEPT ![o] = Append(s, x)]
                BY <1>1, <3>1, <4>1 DEF AssignTechnician, Assigned
            <4>3. x \in AssignmentRows /\ x.status = "ACTIVE" /\ x.technician = t
                BY DEF AssignmentRows
            <4>4. Actives(s) = {} /\ order[o].status # "ABSENT"
                BY <1>1, <1>3, <2>1, <2>3, <3>1 DEF AssignTechnician, AssignmentRead
            <4> HIDE DEF x, s
            <4>5. Append(s, x) \in Seq(AssignmentRows) /\ Append(s, x)[n].technician = t
                BY <2>2, <4>3, Appended
            <4>6. Actives(Append(s, x)) = {n}
                BY <2>2, <4>3, <4>4, ActivesAppended
            <4> HIDE DEF n
            <4>7. OrderStaffed(o)'
                BY <2>4, <4>2, <4>4, <4>5, <4>6
            <4> QED BY <1>0, <4>2, <4>7
        <3>2. CASE ReassignTechnician(w)
            <4>1. PICK t \in Technicians, i \in Nat :
                     t = req[w].technician /\ i = req[w].row
                BY <1>0, <3>2, RequestFields DEF ReassignTechnician
            <4> DEFINE x == [technician |-> t, status |-> "ACTIVE"]
                       e == [s[i] EXCEPT !.status = "REASSIGNED"]
            <4>2. /\ order' = [order EXCEPT ![o].technician = t]
                  /\ assignment' = [assignment EXCEPT ![o] = Append([s EXCEPT ![i] = e], x)]
                BY <1>1, <3>2, <4>1 DEF ReassignTechnician, Assigned
            <4>3. x \in AssignmentRows /\ x.status = "ACTIVE" /\ x.technician = t
                BY DEF AssignmentRows
            <4>4. Actives(s) = {i}
                BY <1>1, <1>3, <2>1, <2>3, <3>2, <4>1 DEF ReassignTechnician, AssignmentRead
            <4>5. i \in DOMAIN s
                BY <4>4 DEF Actives
            <4>6. s[i] \in AssignmentRows
                BY <2>2, <4>5
            <4>7. e \in AssignmentRows /\ e.status # "ACTIVE"
                BY <4>6 DEF AssignmentRows
            <4>8. order[o].status # "ABSENT"
                BY <2>1, <4>5 DEF OrderStaffed
            <4> HIDE DEF x, e, s
            <4>9. /\ Append([s EXCEPT ![i] = e], x) \in Seq(AssignmentRows)
                  /\ Append([s EXCEPT ![i] = e], x)[n].technician = t
                BY <2>2, <4>3, <4>7, Replaced
            <4>10. Actives(Append([s EXCEPT ![i] = e], x)) = {n}
                BY <2>2, <4>3, <4>4, <4>7, ActivesReplaced
            <4> HIDE DEF n
            <4>11. OrderStaffed(o)'
                BY <2>4, <4>2, <4>8, <4>9, <4>10
            <4> QED BY <1>0, <4>2, <4>11
        <3>3. CASE /\ RemoveTechnician(w)
                   /\ order[req[w].order].technician
                         = assignment[req[w].order][req[w].row].technician
            <4>1. PICK i \in Nat : i = req[w].row
                BY <1>0, <3>3, RequestFields DEF RemoveTechnician
            <4> DEFINE e == [s[i] EXCEPT !.status = "REMOVED"]
            <4>2. /\ order' = [order EXCEPT ![o].technician = None]
                  /\ assignment' = [assignment EXCEPT ![o] = [s EXCEPT ![i] = e]]
                BY <1>0, <1>1, <3>3, <4>1 DEF RemoveTechnician
            <4>3. Actives(s) = {i}
                BY <1>1, <1>3, <2>1, <2>3, <3>3, <4>1 DEF RemoveTechnician, AssignmentRead
            <4>4. i \in DOMAIN s
                BY <4>3 DEF Actives
            <4>5. s[i] \in AssignmentRows
                BY <2>2, <4>4
            <4>6. e \in AssignmentRows /\ e.status # "ACTIVE"
                BY <4>5 DEF AssignmentRows
            <4> HIDE DEF e, s
            <4>7. Actives([s EXCEPT ![i] = e]) = {}
                BY <2>2, <4>3, <4>6, ActivesRewritten
            <4>8. /\ assignment'[o] = [s EXCEPT ![i] = e] /\ order'[o].technician = None
                  /\ order'[o].status = order[o].status
                BY <1>0, <4>2 DEF OrderRows
            <4>12. order[o].status # "ABSENT"
                BY <2>1, <4>4 DEF OrderStaffed, s
            <4>9. ActiveAssignments(o)' = {}
                BY <4>7, <4>8 DEF Actives, ActiveAssignments
            <4>10. OrderStaffed(o)'
                BY <4>8, <4>9, <4>12 DEF OrderStaffed
            <4> QED BY <1>0, <4>2, <4>10
        <3> QED BY <3>1, <3>2, <3>3
    <2>6. ASSUME NEW v \in Workers
          PROVE  \/ req'[v].at \notin ReadAt
                 \/ req'[v].stale
                 \/ req'[v] = req[v] /\ req[v].order \in Orders \ {o}
        <3>1. /\ Overtaken(w)
              /\ v # w /\ HasReadAssignments(o, req[v]) /\ req[v] # Idle =>
                    req'[v] = Staled(req[v])
            BY <1>1, AssignMoves
        <3>2. CASE req'[v] = Idle
            BY <3>2 DEF Idle, ReadAt
        <3>3. CASE req[v] # Idle /\ req'[v] = Staled(req[v])
            BY <1>0, <3>3, StaledRequest
        <3>4. CASE req'[v] = req[v] /\ req[v].at \in ReadAt /\ v # w /\ req[v].order = o
            <4>1. req[v] # Idle
                BY <3>4 DEF Idle, ReadAt
            <4>2. HasReadAssignments(o, req[v])
                BY <3>4 DEF HasReadAssignments, ReadAt
            <4> QED BY <1>0, <3>1, <3>4, <4>1, <4>2, StaledRequest
        <3>5. CASE v = w
            <4>1. req'[w] = Idle
                BY <1>0 DEF AssignTechnician, ReassignTechnician, RemoveTechnician, CommitOver
            <4> QED BY <3>2, <3>5, <4>1
        <3>6. CASE req'[v] = req[v] /\ req[v].at \in ReadAt /\ req[v].order # o
            BY <1>0, <3>6, RequestFields
        <3> QED BY <3>1, <3>2, <3>3, <3>4, <3>5, <3>6 DEF Overtaken
    <2> QED BY <1>3, <2>5, <2>6, OneOrderStaffed
<1> QED
    BY <1>2, <1>3

LEMMA StepTechnicianInv ==
    ASSUME TypeOK, TechnicianInv, [Next]_vars
    PROVE  TechnicianInv'
<1>0. /\ order \in [Orders -> OrderRows]
      /\ req \in [Workers -> RequestSet]
    BY TypedRequests DEF TypeOK
<1>1. ASSUME NEW o \in Orders, NEW status \in OrderStatus, NEW d \in Dates \cup {None},
             NEW t \in Technicians \cup {None}, CreateOrder(o, status, d, t),
             UNCHANGED assignment
      PROVE  TechnicianInv'
    <2>1. \A p \in Orders :
             \/ order'[p] = order[p]
             \/ order[p].status = "ABSENT" /\ order'[p].status # "ABSENT"
        BY <1>0, <1>1 DEF CreateOrder, Created
    <2> QED BY <1>1, <2>1, TechnicianElsewhere DEF CreateOrder
<1>2. CASE AppointmentStep /\ UNCHANGED assignment
    <2>1. \A v \in Workers : req'[v] = req[v] \/ req'[v].at \notin ReadAt
        BY <1>2, AppointmentRequestsMove DEF AppointmentAt, ReadAt
    <2>2. unkept' = unkept
        BY <1>2, AppointmentTyped
    <2>3. \A o \in Orders :
             \/ order'[o] = order[o]
             \/ /\ order[o].status = "ABSENT" /\ order'[o].status = "EARLIER"
                /\ order'[o].technician = None
        BY <1>2, AppointmentCreates
    <2> QED BY <1>2, <2>1, <2>2, <2>3, TechnicianElsewhere
<1>3. CASE ScheduleStep /\ UNCHANGED assignment
    <2>1. \A v \in Workers : \/ req'[v] = req[v]
                             \/ req'[v].at \notin ReadAt
                             \/ req'[v].stale
        BY <1>0, <1>3, ScheduleRequestsMove, StaledRequest DEF ScheduleAt, FoundAt, ReadAt
    <2>2. unkept \subseteq unkept'
        BY <1>3, ScheduleTyped
    <2>3. \A o \in Orders :
             /\ order'[o].technician = order[o].technician
             /\ order'[o].status = "ABSENT" <=> order[o].status = "ABSENT"
        BY <1>3, ScheduleKeeps
    <2> QED BY <1>3, <2>1, <2>2, <2>3, TechnicianElsewhere
<1>4. CASE AssignmentStep
    <2>1. ASSUME NEW w \in Workers, NEW r, r.at \notin ReadAt, Begin(w, r) \/ Goto(w, r),
                 UNCHANGED <<order, unkept, assignment>>
          PROVE  TechnicianInv'
        BY <2>1, GotoMoves, TechnicianElsewhere
    <2>2. ASSUME NEW w \in Workers, Finish(w), UNCHANGED <<order, unkept, assignment>>
          PROVE  TechnicianInv'
        BY <2>1, <2>2 DEF Finish, Idle, ReadAt
    <2>3. ASSUME NEW w \in Workers, NEW o \in Orders,
                 CheckRelease(w, o) \/ \E b \in Bays : CheckBay(w, o, b)
          PROVE  TechnicianInv'
        BY <2>1, <2>3 DEF CheckRelease, CheckBay, ReadAt, assignVars
    <2>4. ASSUME NEW w \in Workers, NEW b \in Bays, NEW status \in BayStatus,
                 CheckBayStatus(w, b, status)
          PROVE  TechnicianInv'
        BY <2>1, <2>4 DEF CheckBayStatus, ReadAt, assignVars
    <2>5. ASSUME NEW w \in Workers, CheckUnplaced(w) \/ CheckVacant(w) \/ CheckOccupied(w)
          PROVE  TechnicianInv'
        <3>1. req[w] \in AssignmentRequests
            BY <1>0, <2>5, BayRequest DEF CheckUnplaced, CheckVacant, CheckOccupied,
               PlaceAt, SetAt
        <3>2. /\ [req[w] EXCEPT !.at = "entering"].at \notin ReadAt
              /\ [req[w] EXCEPT !.at = "occupying"].at \notin ReadAt
              /\ [req[w] EXCEPT !.at = "setting"].at \notin ReadAt
            BY <3>1 DEF AssignmentRequests, ReadAt
        <3> QED BY <2>1, <2>2, <2>5, <3>2 DEF CheckUnplaced, CheckVacant, CheckOccupied, assignVars
    <2>6. ASSUME NEW w \in Workers, OccupyBay(w) \/ SetBayStatus(w)
          PROVE  TechnicianInv'
        <3>1. Overtaken(w)
            BY <2>6, BayMoves
        <3>2. \A v \in Workers : \/ req'[v] = req[v]
                                 \/ req'[v].at \notin ReadAt
                                 \/ req'[v].stale
            <4> SUFFICES ASSUME NEW v \in Workers
                         PROVE  req'[v] = req[v] \/ req'[v].at \notin ReadAt \/ req'[v].stale
                OBVIOUS
            <4>1. CASE req'[v] = Idle
                BY <4>1 DEF Idle, ReadAt
            <4>2. CASE req[v] # Idle /\ req'[v] = Staled(req[v])
                BY <1>0, <4>2, StaledRequest
            <4> QED BY <3>1, <4>1, <4>2 DEF Overtaken
        <3>3. UNCHANGED <<order, assignment>> /\ unkept \subseteq unkept'
            BY <2>6 DEF OccupyBay, SetBayStatus, Keep
        <3> QED BY <3>2, <3>3, TechnicianElsewhere
    <2>7. ASSUME NEW w \in Workers, ReleaseBay(w)
          PROVE  TechnicianInv'
        BY <2>2, <2>7 DEF ReleaseBay
    <2>8. ASSUME NEW w \in Workers, RemoveTechnician(w)
          PROVE  TechnicianInv'
        BY <2>2, <2>8, AssignmentCommitKeeps DEF RemoveTechnician
    <2>9. ASSUME NEW o \in Orders, NEW t \in Technicians, PatchTechnician(o, t)
          PROVE  TechnicianInv'
        <3>1. CASE assignment[o] # <<>>
            BY <2>9, <3>1 DEF PatchTechnician, TechnicianInv
        <3>2. CASE assignment[o] = <<>>
            <4>1. \A p \in Orders :
                     /\ order'[p].technician = order[p].technician \/ assignment[p] = <<>>
                     /\ order'[p].status = order[p].status
                BY <1>0, <2>9, <3>2 DEF PatchTechnician, OrderRows
            <4> QED BY <2>9, <3>2, <4>1, TechnicianElsewhere DEF PatchTechnician, assignVars
        <3> QED BY <3>1, <3>2
    <2> QED
        BY <1>4, <2>3, <2>4, <2>5, <2>6, <2>7, <2>8, <2>9, AssignmentCheckKeeps,
           AssignmentCommitKeeps DEF AssignmentStep
<1>5. CASE UNCHANGED vars
    BY <1>5 DEF vars, floorVars, assignVars, TechnicianInv, OrderStaffed, AssignmentRead,
       ActiveAssignments
<1> QED
    BY <1>1, <1>2, <1>3, <1>4, <1>5 DEF Next, assignVars

(* Overlapping assignments aside, and technicians set by hand for an order  *)
(* that has some, an order has at most one active assignment, and once it   *)
(* has been assigned its technician is the one of the assignment            *)
(* (assignTechnician, reassignTechnician and removeTechnicianAssignment act *)
(* on what they have read before their transactions).                       *)
THEOREM TechnicianAssigned == Spec => []TechnicianIsAssigned
<1>1. TypeOK /\ TechnicianInv => TechnicianIsAssigned
    <2> SUFFICES ASSUME TypeOK, TechnicianInv, "technician" \notin unkept, NEW o \in Orders
                 PROVE  /\ Cardinality(ActiveAssignments(o)) <= 1
                        /\ assignment[o] # <<>> =>
                             {assignment[o][i].technician : i \in ActiveAssignments(o)}
                               = {order[o].technician} \ {None}
        BY DEF TechnicianIsAssigned
    <2>1. OrderStaffed(o)
        BY DEF TechnicianInv
    <2>2. Cardinality(ActiveAssignments(o)) <= 1
        BY <2>1, OneAtMost DEF OrderStaffed
    <2>3. \A i \in ActiveAssignments(o) : assignment[o][i].technician # None
        <3> SUFFICES ASSUME NEW i \in ActiveAssignments(o)
                     PROVE  assignment[o][i].technician # None
            OBVIOUS
        <3>1. assignment[o] \in Seq(AssignmentRows) /\ i \in DOMAIN assignment[o]
            BY DEF TypeOK, AssignmentsTypeOK, ActiveAssignments
        <3>2. assignment[o][i] \in AssignmentRows
            BY <3>1
        <3> QED BY <3>2, ShopFloorAssumption DEF AssignmentRows
    <2> QED BY <2>1, <2>2, <2>3 DEF OrderStaffed
<1>2. TypeOK /\ TechnicianInv /\ [Next]_vars => TypeOK' /\ TechnicianInv'
    BY StepTyped, StepTechnicianInv
<1> QED
    BY <1>1, <1>2, InitTyped, InitTechnicianInv, PTL DEF Spec

-----------------------------------------------------------------------------
(* The bays, while requests about a bay or an order do not overlap.         *)
BayUsed(b) ==
    /\ \A i, j \in Occupants(b) : i = j
    /\ Occupants(b) # {} => bayStatus[b] = "ACTIVE"

(* What a request has read of its order and bay is so until a commit makes  *)
(* the request stale.                                                       *)
BayRead(r) ==
    ~r.stale =>
       /\ r.at \in PlaceAt => bayStatus[r.bay] = "ACTIVE"
       /\ r.at \in {"entering", "occupying"} => OccupiedBy(r.order) = {}
       /\ r.at = "occupying" => Occupants(r.bay) = {}
       /\ r.at = "setting" /\ r.status # "ACTIVE" => Occupants(r.bay) = {}

BayInv ==
    "bay" \notin unkept =>
       /\ \A o \in Orders : \A i, j \in OccupiedBy(o) : i = j
       /\ \A b \in Bays : BayUsed(b)
       /\ \A w \in Workers : BayRead(req[w])

LEMMA InitBayInv == Init => BayInv
<1> SUFFICES ASSUME Init PROVE BayInv
    OBVIOUS
<1>1. /\ \A o \in Orders : OccupiedBy(o) = {}
      /\ \A b \in Bays : Occupants(b) = {}
    BY DEF Init, AssignmentsInit, OccupiedBy, Occupants
<1>2. \A w \in Workers : req[w].at = "idle"
    BY DEF Init, FloorInit, Idle
<1> QED
    BY <1>1, <1>2 DEF BayInv, BayUsed, BayRead, PlaceAt

(* A bay may be left, and no request learns anything of bays.               *)
LEMMA BayElsewhere ==
    ASSUME TypeOK, BayInv, UNCHANGED bayStatus, unkept \subseteq unkept',
           \A o \in Orders : OccupiedBy(o)' \subseteq OccupiedBy(o),
           \A b \in Bays : Occupants(b)' \subseteq Occupants(b),
           \A w \in Workers : \/ req'[w] = req[w]
                              \/ req'[w].at \notin PlaceAt \cup SetAt
                              \/ req'[w].stale
    PROVE  BayInv'
<1> SUFFICES ASSUME "bay" \notin unkept'
             PROVE  /\ \A o \in Orders : (\A i, j \in OccupiedBy(o) : i = j)'
                    /\ \A b \in Bays : BayUsed(b)'
                    /\ \A w \in Workers : BayRead(req[w])'
    BY DEF BayInv
<1>0. req \in [Workers -> RequestSet]
    BY TypedRequests
<1>1. /\ \A o \in Orders : \A i, j \in OccupiedBy(o) : i = j
      /\ \A b \in Bays : BayUsed(b)
      /\ \A w \in Workers : BayRead(req[w])
    BY DEF BayInv
<1>2. ASSUME NEW o \in Orders PROVE (\A i, j \in OccupiedBy(o) : i = j)'
    BY <1>1
<1>3. ASSUME NEW b \in Bays PROVE BayUsed(b)'
    <2>1. Occupants(b)' \subseteq Occupants(b)
        OBVIOUS
    <2>2. BayUsed(b)
        BY <1>1
    <2> QED BY <2>1, <2>2 DEF BayUsed
<1>4. ASSUME NEW w \in Workers PROVE BayRead(req[w])'
    <2>1. CASE req'[w] = req[w] /\ req[w].at \in PlaceAt \cup SetAt
        <3>1. PICK r \in RequestSet : r = req[w]
            BY <1>0
        <3>2. /\ r.at \in PlaceAt \cup SetAt => r.bay \in Bays
              /\ r.at \in PlaceAt => r.order \in Orders
            BY RequestFields
        <3>3. BayRead(r)
            BY <1>1, <3>1
        <3>4. /\ r.at \in PlaceAt \cup SetAt => Occupants(r.bay)' \subseteq Occupants(r.bay)
              /\ r.at \in PlaceAt => OccupiedBy(r.order)' \subseteq OccupiedBy(r.order)
            BY <3>2
        <3>5. BayRead(r)'
            BY <3>3, <3>4 DEF BayRead, PlaceAt, SetAt
        <3> QED BY <2>1, <3>1, <3>5 DEF BayRead
    <2>2. CASE req'[w].at \notin PlaceAt \cup SetAt
        BY <2>2 DEF BayRead, PlaceAt, SetAt
    <2>3. CASE req'[w].stale
        BY <2>3 DEF BayRead
    <2> QED BY <2>1, <2>2, <2>3
<1> QED
    BY <1>2, <1>3, <1>4

(* A request that begins or goes on with what it reads.                     *)
LEMMA BayCheckKeeps ==
    ASSUME TypeOK, BayInv, NEW w \in Workers, NEW r, Begin(w, r) \/ Goto(w, r),
           "bay" \notin unkept => BayRead(r), UNCHANGED <<unkept, bayStatus, occupancy>>
    PROVE  BayInv'
<1>1. ASSUME "bay" \notin unkept, NEW v \in Workers PROVE BayRead(req[v])'
    <2>1. req'[v] = req[v] \/ req'[v] = r
        BY GotoMoves
    <2> QED BY <1>1, <2>1 DEF BayInv, BayRead, OccupiedBy, Occupants
<1>2. ASSUME "bay" \notin unkept, NEW b \in Bays PROVE BayUsed(b)'
    BY <1>2 DEF BayInv, BayUsed, Occupants
<1>3. ASSUME "bay" \notin unkept, NEW o \in Orders PROVE (\A i, j \in OccupiedBy(o) : i = j)'
    BY <1>3 DEF BayInv, OccupiedBy
<1> QED
    BY <1>1, <1>2, <1>3 DEF BayInv

(* A bay is entered: whoever has read of the bay or of the order is told.   *)
LEMMA OccupyKeeps ==
    ASSUME TypeOK, BayInv, NEW w \in Workers, OccupyBay(w)
    PROVE  BayInv'
<1>0. /\ req \in [Workers -> RequestSet]
      /\ occupancy \in Seq(OccupancyRows)
    BY TypedRequests DEF TypeOK, AssignmentsTypeOK
<1>1. PICK o \in Orders, b \in Bays : o = req[w].order /\ b = req[w].bay
    BY <1>0, RequestFields DEF OccupyBay, PlaceAt
<1>2. CASE req[w].stale \/ "bay" \in unkept
    BY <1>2 DEF OccupyBay, Keep, BayInv
<1>3. CASE ~req[w].stale /\ "bay" \notin unkept
    <2> DEFINE x == [bay |-> b, order |-> o, active |-> TRUE]
               n == Len(occupancy) + 1
    <2>1. bayStatus[b] = "ACTIVE" /\ OccupiedBy(o) = {} /\ Occupants(b) = {}
        BY <1>1, <1>3 DEF BayInv, BayRead, OccupyBay, PlaceAt
    <2>2. occupancy' = Append(occupancy, x) /\ UNCHANGED bayStatus /\ unkept' = unkept
        BY <1>1, <1>3 DEF OccupyBay, Keep
    <2>3. x \in OccupancyRows /\ x.active /\ x.bay = b /\ x.order = o
        BY DEF OccupancyRows
    <2>4. DOMAIN occupancy = 1 .. Len(occupancy) /\ Len(occupancy) \in Nat
        BY <1>0
    <2> HIDE DEF x
    <2>5. /\ DOMAIN occupancy' = (DOMAIN occupancy) \cup {n} /\ n \notin DOMAIN occupancy
          /\ occupancy'[n] = x
          /\ \A j \in DOMAIN occupancy : occupancy'[j] = occupancy[j]
        BY <1>0, <2>2, <2>3, <2>4, Appended
    <2> HIDE DEF n
    <2>6. PICK m : m = n
        OBVIOUS
    <2>7. /\ OccupiedBy(o)' = {m}
          /\ \A p \in Orders \ {o} : OccupiedBy(p)' = OccupiedBy(p)
        BY <2>1, <2>3, <2>5, <2>6 DEF OccupiedBy
    <2>8. /\ Occupants(b)' = {m}
          /\ \A c \in Bays \ {b} : Occupants(c)' = Occupants(c)
        BY <2>1, <2>3, <2>5, <2>6 DEF Occupants
    <2>9. ASSUME NEW p \in Orders PROVE (\A i, j \in OccupiedBy(p) : i = j)'
        BY <1>3, <2>7 DEF BayInv
    <2>10. ASSUME NEW c \in Bays PROVE BayUsed(c)'
        <3>1. CASE c = b
            BY <2>1, <2>2, <2>8, <3>1 DEF BayUsed
        <3>2. CASE c # b
            <4>1. Occupants(c)' = Occupants(c) /\ BayUsed(c)
                BY <1>3, <2>8, <3>2 DEF BayInv
            <4> QED BY <2>2, <4>1 DEF BayUsed
        <3> QED BY <3>1, <3>2
    <2>11. ASSUME NEW v \in Workers PROVE BayRead(req[v])'
        <3>1. PICK r \in RequestSet : r = req[v]
            BY <1>0
        <3>2. /\ Overtaken(w)
              /\ v # w /\ HasReadBay(b, o, r) /\ r # Idle => req'[v] = Staled(r)
            BY <1>1, <3>1, BayMoves
        <3>3. CASE req'[v] = Idle
            BY <3>3 DEF BayRead, Idle, PlaceAt
        <3>4. CASE r # Idle /\ req'[v] = Staled(r)
            BY <3>4, StaledRequest DEF BayRead
        <3>5. CASE v = w
            <4>1. req'[w] = Idle
                BY <1>0 DEF OccupyBay, CommitOver
            <4> QED BY <3>3, <3>5, <4>1
        <3>6. CASE v # w /\ req'[v] = r /\ ~HasReadBay(b, o, r)
            <4>1. /\ r.at \in PlaceAt \cup SetAt => r.bay \in Bays
                  /\ r.at \in PlaceAt => r.order \in Orders
                BY RequestFields
            <4>2. /\ r.at \in PlaceAt => r.order # o /\ r.bay # b
                  /\ r.at \in SetAt => r.bay # b
                BY <3>6 DEF HasReadBay, PlaceAt, SetAt
            <4>3. BayRead(r)
                BY <1>3, <3>1 DEF BayInv
            <4>4. /\ r.at \in PlaceAt \cup SetAt => Occupants(r.bay)' = Occupants(r.bay)
                  /\ r.at \in PlaceAt => OccupiedBy(r.order)' = OccupiedBy(r.order)
                BY <2>7, <2>8, <4>1, <4>2
            <4>5. BayRead(r)'
                BY <2>2, <4>3, <4>4 DEF BayRead, PlaceAt, SetAt
            <4> QED BY <3>6, <4>5 DEF BayRead
        <3>7. CASE v # w /\ req'[v] = r /\ HasReadBay(b, o, r)
            <4>1. r # Idle
                BY <3>7 DEF HasReadBay, Idle
            <4> QED BY <3>2, <3>4, <3>7, <4>1
        <3> QED BY <3>1, <3>2, <3>3, <3>4, <3>5, <3>6, <3>7 DEF Overtaken
    <2> QED BY <2>9, <2>10, <2>11 DEF BayInv
<1> QED
    BY <1>2, <1>3

(* A bay's status is set: whoever has read of the bay is told.              *)
LEMMA SetBayKeeps ==
    ASSUME TypeOK, BayInv, NEW w \in Workers, SetBayStatus(w)
    PROVE  BayInv'
<1>0. /\ req \in [Workers -> RequestSet]
      /\ bayStatus \in [Bays -> BayStatus]
    BY TypedRequests DEF TypeOK, AssignmentsTypeOK
<1>1. PICK b \in Bays : b = req[w].bay
    BY <1>0, RequestFields DEF SetBayStatus, SetAt
<1>2. CASE req[w].stale \/ "bay" \in unkept
    BY <1>2 DEF SetBayStatus, Keep, BayInv
<1>3. CASE ~req[w].stale /\ "bay" \notin unkept
    <2>1. req[w].status = "ACTIVE" \/ Occupants(b) = {}
        BY <1>1, <1>3 DEF BayInv, BayRead, SetBayStatus
    <2>2. /\ bayStatus'[b] = req[w].status
          /\ \A c \in Bays \ {b} : bayStatus'[c] = bayStatus[c]
          /\ UNCHANGED occupancy
        BY <1>0, <1>1 DEF SetBayStatus
    <2>3. /\ \A c \in Bays : Occupants(c)' = Occupants(c)
          /\ \A p \in Orders : OccupiedBy(p)' = OccupiedBy(p)
        BY <2>2 DEF Occupants, OccupiedBy
    <2>4. ASSUME NEW p \in Orders PROVE (\A i, j \in OccupiedBy(p) : i = j)'
        BY <1>3, <2>3 DEF BayInv
    <2>5. ASSUME NEW c \in Bays PROVE BayUsed(c)'
        <3>1. Occupants(c)' = Occupants(c) /\ BayUsed(c)
            BY <1>3, <2>3 DEF BayInv
        <3>2. CASE c = b
            BY <2>1, <2>2, <3>1, <3>2 DEF BayUsed
        <3>3. CASE c # b
            BY <2>2, <3>1, <3>3 DEF BayUsed
        <3> QED BY <3>2, <3>3
    <2>6. ASSUME NEW v \in Workers PROVE BayRead(req[v])'
        <3>1. PICK r \in RequestSet : r = req[v]
            BY <1>0
        <3>2. /\ Overtaken(w)
              /\ v # w /\ HasReadBay(b, None, r) /\ r # Idle => req'[v] = Staled(r)
            BY <1>1, <3>1, BayMoves
        <3>3. CASE req'[v] = Idle
            BY <3>3 DEF BayRead, Idle, PlaceAt
        <3>4. CASE r # Idle /\ req'[v] = Staled(r)
            BY <3>4, StaledRequest DEF BayRead
        <3>5. CASE v = w
            <4>1. req'[w] = Idle
                BY <1>0 DEF SetBayStatus, CommitOver
            <4> QED BY <3>3, <3>5, <4>1
        <3>6. CASE v # w /\ req'[v] = r /\ ~HasReadBay(b, None, r)
            <4>1. /\ r.at \in PlaceAt \cup SetAt => r.bay \in Bays \ {b}
                  /\ r.at \in PlaceAt => r.order \in Orders
                BY <3>6, RequestFields DEF HasReadBay, PlaceAt, SetAt
            <4>2. BayRead(r)
                BY <1>3, <3>1 DEF BayInv
            <4>3. /\ r.at \in PlaceAt \cup SetAt =>
                        /\ Occupants(r.bay)' = Occupants(r.bay)
                        /\ bayStatus'[r.bay] = bayStatus[r.bay]
                  /\ r.at \in PlaceAt => OccupiedBy(r.order)' = OccupiedBy(r.order)
                BY <2>2, <2>3, <4>1
            <4>4. BayRead(r)'
                BY <4>2, <4>3 DEF BayRead, PlaceAt, SetAt
            <4> QED BY <3>6, <4>4 DEF BayRead
        <3>7. CASE v # w /\ req'[v] = r /\ HasReadBay(b, None, r)
            <4>1. r # Idle
                BY <3>7 DEF HasReadBay, Idle
            <4> QED BY <3>2, <3>4, <3>7, <4>1
        <3> QED BY <3>1, <3>2, <3>3, <3>4, <3>5, <3>6, <3>7 DEF Overtaken
    <2>7. unkept' = unkept
        BY <1>3 DEF SetBayStatus, Keep
    <2> QED BY <2>4, <2>5, <2>6, <2>7 DEF BayInv
<1> QED
    BY <1>2, <1>3

(* A bay is left.                                                           *)
LEMMA ReleaseKeeps ==
    ASSUME TypeOK, BayInv, NEW w \in Workers, ReleaseBay(w)
    PROVE  BayInv'
<1>0. /\ req \in [Workers -> RequestSet]
      /\ occupancy \in Seq(OccupancyRows)
    BY TypedRequests DEF TypeOK, AssignmentsTypeOK
<1> DEFINE i == req[w].row
           e == [occupancy[i] EXCEPT !.active = FALSE]
<1>1. i \in Nat
    BY <1>0, RequestFields DEF ReleaseBay
<1>2. occupancy' = occupancy \/ occupancy' = [occupancy EXCEPT ![i] = e]
    BY DEF ReleaseBay
<1>3. i \in DOMAIN occupancy => e \in OccupancyRows /\ e.active = FALSE
    <2>1. i \in DOMAIN occupancy => occupancy[i] \in OccupancyRows
        BY <1>0
    <2> QED BY <2>1 DEF OccupancyRows
<1>4. /\ DOMAIN occupancy' = DOMAIN occupancy
      /\ \A j \in DOMAIN occupancy :
            occupancy'[j] = occupancy[j] \/ occupancy'[j].active = FALSE
    <2>1. CASE occupancy' = [occupancy EXCEPT ![i] = e]
        <3> HIDE DEF e, i
        <3> QED BY <1>0, <1>1, <1>3, <2>1, Rewritten
    <2> QED BY <1>2, <2>1
<1>5. /\ \A p \in Orders : OccupiedBy(p)' \subseteq OccupiedBy(p)
      /\ \A c \in Bays : Occupants(c)' \subseteq Occupants(c)
    BY <1>4 DEF OccupiedBy, Occupants
<1>6. /\ UNCHANGED <<unkept, bayStatus>>
      /\ \A v \in Workers : req'[v] = req[v] \/ req'[v].at \notin PlaceAt \cup SetAt
    BY GotoMoves DEF ReleaseBay, Finish, Idle, PlaceAt, SetAt
<1> QED
    BY <1>5, <1>6, BayElsewhere

LEMMA StepBayInv ==
    ASSUME TypeOK, BayInv, [Next]_vars
    PROVE  BayInv'
<1>0. req \in [Workers -> RequestSet]
    BY TypedRequests
<1>1. ASSUME UNCHANGED <<bayStatus, occupancy>>, unkept \subseteq unkept',
             \A w \in Workers : \/ req'[w] = req[w]
                                \/ req'[w].at \notin PlaceAt \cup SetAt
                                \/ req'[w].stale
      PROVE  BayInv'
    BY <1>1, BayElsewhere DEF OccupiedBy, Occupants
<1>2. ASSUME NEW o \in Orders, NEW status \in OrderStatus, NEW d \in Dates \cup {None},
             NEW t \in Technicians \cup {None}, CreateOrder(o, status, d, t),
             UNCHANGED assignVars
      PROVE  BayInv'
    BY <1>1, <1>2 DEF CreateOrder, assignVars
<1>3. CASE AppointmentStep /\ UNCHANGED assignVars
    <2>1. \A v \in Workers : req'[v] = req[v] \/ req'[v].at \notin PlaceAt \cup SetAt
        BY <1>3, AppointmentRequestsMove DEF AppointmentAt, PlaceAt, SetAt
    <2>2. unkept' = unkept
        BY <1>3, AppointmentTyped
    <2> QED BY <1>1, <1>3, <2>1, <2>2 DEF assignVars
<1>4. CASE ScheduleStep /\ UNCHANGED assignVars
    <2>1. \A v \in Workers : \/ req'[v] = req[v]
                             \/ req'[v].at \notin PlaceAt \cup SetAt
                             \/ req'[v].stale
        BY <1>0, <1>4, ScheduleRequestsMove, StaledRequest
           DEF ScheduleAt, FoundAt, PlaceAt, SetAt
    <2>2. unkept \subseteq unkept'
        BY <1>4, ScheduleTyped
    <2> QED BY <1>1, <1>4, <2>1, <2>2 DEF assignVars
<1>5. CASE AssignmentStep
    <2>1. ASSUME NEW w \in Workers, NEW r, r.at \notin PlaceAt \cup SetAt,
                 Begin(w, r) \/ Goto(w, r), UNCHANGED <<unkept, bayStatus, occupancy>>
          PROVE  BayInv'
        BY <1>1, <2>1, GotoMoves
    <2>2. ASSUME NEW w \in Workers, Finish(w), UNCHANGED <<unkept, bayStatus, occupancy>>
          PROVE  BayInv'
        BY <2>1, <2>2 DEF Finish, Idle, PlaceAt, SetAt
    <2>3. ASSUME NEW w \in Workers, NEW o \in Orders,
                 \/ \E t \in Technicians : CheckAssign(w, o, t) \/ CheckReassign(w, o, t)
                 \/ CheckRemove(w, o) \/ CheckRelease(w, o)
          PROVE  BayInv'
        BY <2>1, <2>3 DEF CheckAssign, CheckReassign, CheckRemove, CheckRelease, PlaceAt, SetAt,
           assignVars
    <2>4. ASSUME NEW w \in Workers, NEW o \in Orders, NEW b \in Bays, CheckBay(w, o, b)
          PROVE  BayInv'
        <3> DEFINE r == [at |-> "placing", order |-> o, bay |-> b, stale |-> FALSE]
        <3>1. Begin(w, r) /\ BayRead(r) /\ UNCHANGED <<unkept, bayStatus, occupancy>>
            BY <2>4 DEF CheckBay, BayRead, assignVars
        <3> HIDE DEF r
        <3> QED BY <3>1, BayCheckKeeps
    <2>5. ASSUME NEW w \in Workers, NEW b \in Bays, NEW status \in BayStatus,
                 CheckBayStatus(w, b, status)
          PROVE  BayInv'
        <3> DEFINE r == [at |-> "restating", bay |-> b, status |-> status, stale |-> FALSE]
        <3>1. Begin(w, r) /\ BayRead(r) /\ UNCHANGED <<unkept, bayStatus, occupancy>>
            BY <2>5 DEF CheckBayStatus, BayRead, PlaceAt, assignVars
        <3> HIDE DEF r
        <3> QED BY <3>1, BayCheckKeeps
    <2>6. ASSUME NEW w \in Workers, NEW at \in {"entering", "occupying", "setting"},
                 req[w].at \in PlaceAt \cup SetAt, Goto(w, [req[w] EXCEPT !.at = at]),
                 at = "entering" => req[w].at = "placing" /\ OccupiedBy(req[w].order) = {},
                 at = "occupying" => req[w].at = "entering" /\ Occupants(req[w].bay) = {},
                 at = "setting" => req[w].at = "restating" /\ MaySet(req[w].bay, req[w].status),
                 UNCHANGED <<unkept, bayStatus, occupancy>>
          PROVE  BayInv'
        <3> DEFINE r == [req[w] EXCEPT !.at = at]
        <3>1. req[w] \in AssignmentRequests
            BY <1>0, <2>6, BayRequest
        <3>2. /\ r.at = at /\ r.stale = req[w].stale
              /\ at # "setting" => r.bay = req[w].bay /\ r.order = req[w].order
              /\ at = "setting" => r.bay = req[w].bay /\ r.status = req[w].status
            BY <2>6, <3>1 DEF AssignmentRequests
        <3>3. "bay" \notin unkept => BayRead(req[w])
            BY DEF BayInv
        <3> HIDE DEF r
        <3>4. "bay" \notin unkept => BayRead(r)
            BY <2>6, <3>2, <3>3 DEF BayRead, PlaceAt, MaySet
        <3>5. Goto(w, r)
            BY <2>6 DEF r
        <3> QED BY <2>6, <3>4, <3>5, BayCheckKeeps
    <2>7. ASSUME NEW w \in Workers, CheckUnplaced(w) \/ CheckVacant(w) \/ CheckOccupied(w)
          PROVE  BayInv'
        BY <2>2, <2>6, <2>7 DEF CheckUnplaced, CheckVacant, CheckOccupied, PlaceAt, SetAt,
           assignVars
    <2>8. ASSUME NEW w \in Workers, AssignTechnician(w) \/ ReassignTechnician(w)
                                    \/ RemoveTechnician(w)
          PROVE  BayInv'
        <3>1. CASE Finish(w) /\ UNCHANGED <<unkept, bayStatus, occupancy>>
            BY <2>2, <3>1
        <3>2. CASE Overtaken(w) /\ UNCHANGED <<bayStatus, occupancy>> /\ unkept \subseteq unkept'
            <4>1. ASSUME NEW v \in Workers
                  PROVE  \/ req'[v] = req[v] \/ req'[v].at \notin PlaceAt \cup SetAt
                         \/ req'[v].stale
                <5>1. CASE req'[v] = Idle
                    BY <5>1 DEF Idle, PlaceAt, SetAt
                <5>2. CASE req[v] # Idle /\ req'[v] = Staled(req[v])
                    BY <1>0, <5>2, StaledRequest
                <5> QED BY <3>2, <5>1, <5>2 DEF Overtaken
            <4> QED BY <1>1, <3>2, <4>1
        <3> QED
            BY <2>8, <3>1, <3>2, AssignMoves DEF AssignTechnician, ReassignTechnician,
               RemoveTechnician, Keep
    <2>9. ASSUME NEW o \in Orders, NEW t \in Technicians, PatchTechnician(o, t)
          PROVE  BayInv'
        BY <1>1, <2>9 DEF PatchTechnician, assignVars
    <2> QED
        BY <1>5, <2>3, <2>4, <2>5, <2>7, <2>8, <2>9, OccupyKeeps, SetBayKeeps, ReleaseKeeps
           DEF AssignmentStep
<1>6. CASE UNCHANGED vars
    BY <1>1, <1>6 DEF vars, floorVars, assignVars
<1> QED
    BY <1>2, <1>3, <1>4, <1>5, <1>6 DEF Next

(* Overlapping requests about a bay or an order aside, a bay holds one      *)
(* order at most, an order is in one bay at most, and a bay that holds one  *)
(* is in service (assignRepairOrderToServiceBay looks for both in           *)
(* statements of their own, updateServiceBayStatus for an occupant).        *)
THEOREM BayHoldsOne == Spec => []BayHoldsOneOrder
<1>1. BayInv => BayHoldsOneOrder
    BY OneAtMost DEF BayInv, BayUsed, BayHoldsOneOrder
<1>2. TypeOK /\ BayInv /\ [Next]_vars => TypeOK' /\ BayInv'
    BY StepTyped, StepBayInv
<1> QED
    BY <1>1, <1>2, InitTyped, InitBayInv, PTL DEF Spec

-----------------------------------------------------------------------------
(* The time clock: what a request holds, and what it makes of an entry.     *)
ClockRequestSet == {Idle} \cup ClockRequests

LEMMA ClockFields ==
    ASSUME NEW r \in ClockRequestSet
    PROVE  /\ r.at = "clocking in" => r.employee \in Employees /\ r.time \in Times
           /\ r.at \in {"clocking out", "correcting"} =>
                 r.entry \in Entries /\ r.seen \in EntryRows
           /\ r.at = "clocking out" => r.time \in Times
           /\ r.at = "correcting" => r.input \in Inputs
           /\ r.stale \in BOOLEAN
           /\ r # Idle => r.at \in {"clocking in", "clocking out", "correcting"}
           /\ r.at = "idle" => r = Idle
<1>1. CASE r = Idle
    BY <1>1 DEF Idle
<1>2. CASE r \in [at : {"clocking in"}, employee : Employees, time : Times, stale : BOOLEAN]
    BY <1>2 DEF Idle
<1>3. CASE r \in [at : {"clocking out"}, entry : Entries, seen : EntryRows, time : Times,
                  stale : BOOLEAN]
    BY <1>3 DEF Idle
<1>4. CASE r \in [at : {"correcting"}, entry : Entries, seen : EntryRows, input : Inputs,
                  stale : BOOLEAN]
    BY <1>4 DEF Idle
<1> QED
    BY <1>1, <1>2, <1>3, <1>4 DEF ClockRequests, ClockRequestSet

LEMMA ClockIdle == Idle \in ClockRequestSet /\ Idle.at = "idle" /\ Idle.stale = FALSE
BY DEF ClockRequestSet, Idle

LEMMA ClockStaled ==
    ASSUME NEW r \in ClockRequestSet, r # Idle
    PROVE  /\ Staled(r) \in ClockRequestSet
           /\ Staled(r).at = r.at
           /\ Staled(r).stale = TRUE
           /\ r.at = "clocking in" => Staled(r).employee = r.employee
           /\ r.at \in {"clocking out", "correcting"} =>
                 Staled(r).entry = r.entry /\ Staled(r).seen = r.seen
<1> USE DEF ClockRequestSet, Staled
<1>2. CASE r \in [at : {"clocking in"}, employee : Employees, time : Times, stale : BOOLEAN]
    BY <1>2 DEF ClockRequests
<1>3. CASE r \in [at : {"clocking out"}, entry : Entries, seen : EntryRows, time : Times,
                  stale : BOOLEAN]
    BY <1>3 DEF ClockRequests
<1>4. CASE r \in [at : {"correcting"}, entry : Entries, seen : EntryRows, input : Inputs,
                  stale : BOOLEAN]
    BY <1>4 DEF ClockRequests
<1> QED
    BY <1>2, <1>3, <1>4 DEF ClockRequests

LEMMA InputFields ==
    ASSUME NEW i \in Inputs
    PROVE  /\ i.in \in Times \cup {Same}
           /\ i.out \in Times \cup {None, Same}
           /\ i.break \in Breaks \cup {Same}
BY DEF Inputs

LEMMA WorkedTyped ==
    ASSUME NEW in \in Times, NEW out \in Times, NEW break \in Breaks
    PROVE  calculateWorkedMinutes(in, out, break) \in Nat
BY TimeClockAssumption DEF calculateWorkedMinutes, Times, Breaks

LEMMA CorrectedTyped ==
    ASSUME NEW seen \in EntryRows, NEW input \in Inputs
    PROVE  /\ Corrected(seen, input) \in EntryRows
           /\ Corrected(seen, input).employee = seen.employee
           /\ Corrected(seen, input).status = "CLOCKED_IN"
                <=> Corrected(seen, input).out = None
           /\ Corrected(seen, input).status # "ABSENT"
           /\ Corrected(seen, input).in = Updated(input.in, seen.in)
           /\ Corrected(seen, input).break = Updated(input.break, seen.break)
           /\ Corrected(seen, input).worked =
                IF Corrected(seen, input).out = None THEN None
                ELSE calculateWorkedMinutes(Corrected(seen, input).in,
                                            Corrected(seen, input).out,
                                            Corrected(seen, input).break)
<1> DEFINE in == Updated(input.in, seen.in)
           out == Updated(input.out, seen.out)
           break == Updated(input.break, seen.break)
           worked == IF out = None THEN None ELSE calculateWorkedMinutes(in, out, break)
<1>1. /\ seen.in \in Times /\ seen.out \in Times \cup {None} /\ seen.break \in Breaks
      /\ seen.employee \in Employees \cup {None} /\ seen.manual \in BOOLEAN
    BY DEF EntryRows
<1>2. in \in Times /\ out \in Times \cup {None} /\ break \in Breaks
    BY <1>1, InputFields DEF Updated
<1>3. worked \in Nat \cup {None}
    BY <1>2, WorkedTyped
<1>4. Corrected(seen, input) =
        [seen EXCEPT !.in = in, !.out = out, !.break = break, !.worked = worked,
                     !.status = IF out = None THEN "CLOCKED_IN" ELSE "CLOCKED_OUT"]
    BY DEF Corrected
<1> HIDE DEF in, out, break, worked
<1>5. Corrected(seen, input) =
        [employee |-> seen.employee, in |-> in, out |-> out, break |-> break,
         worked |-> worked, status |-> IF out = None THEN "CLOCKED_IN" ELSE "CLOCKED_OUT",
         manual |-> seen.manual]
    BY <1>4 DEF EntryRows
<1>6. Corrected(seen, input) \in EntryRows
    BY <1>1, <1>2, <1>3, <1>5 DEF EntryRows
<1>7. /\ Corrected(seen, input).in = in /\ Corrected(seen, input).out = out
      /\ Corrected(seen, input).break = break /\ Corrected(seen, input).worked = worked
      /\ Corrected(seen, input).employee = seen.employee
      /\ Corrected(seen, input).status = "CLOCKED_IN" <=> out = None
      /\ Corrected(seen, input).status # "ABSENT"
    BY <1>5
<1>8. /\ in = Updated(input.in, seen.in) /\ break = Updated(input.break, seen.break)
      /\ worked = IF out = None THEN None ELSE calculateWorkedMinutes(in, out, break)
    BY DEF in, out, break, worked
<1> QED
    BY <1>6, <1>7, <1>8

-----------------------------------------------------------------------------
(* The log.  A correction adds a row for each field that it changes.        *)
ChangeRow(e, field, old, value) ==
    [entry |-> e, field |-> field, original |-> old, updated |-> value]

Unchanged(old, value) == value = Same \/ value = old

AddsOneRow(rows, e, field, old, value) ==
    IF Unchanged(old, value) THEN \A k \in DOMAIN rows : rows[k].field # field
    ELSE \E k \in DOMAIN rows :
            /\ rows[k] = ChangeRow(e, field, old, value)
            /\ \A j \in DOMAIN rows : rows[j].field = field => j = k

LEMMA CorrectionPiece ==
    ASSUME NEW e \in Entries, NEW field \in Fields, NEW old \in Nat \cup {None},
           NEW value \in Nat \cup {None, Same}
    PROVE  LET rows == CorrectionOf(e, field, old, value)
           IN /\ rows \in Seq(LogRows)
              /\ Unchanged(old, value) => Len(rows) = 0
              /\ ~Unchanged(old, value) =>
                    Len(rows) = 1 /\ rows[1] = ChangeRow(e, field, old, value)
<1>1. CASE Unchanged(old, value)
    BY <1>1 DEF Unchanged, CorrectionOf
<1>2. CASE ~Unchanged(old, value)
    <2>1. ChangeRow(e, field, old, value) \in LogRows
        BY <1>2 DEF Unchanged, ChangeRow, LogRows
    <2>2. CorrectionOf(e, field, old, value) = <<ChangeRow(e, field, old, value)>>
        BY <1>2 DEF Unchanged, CorrectionOf, ChangeRow
    <2> HIDE DEF ChangeRow
    <2> QED BY <1>2, <2>1, <2>2
<1> QED
    BY <1>1, <1>2

LEMMA Concatenated ==
    ASSUME NEW S, NEW a \in Seq(S), NEW b \in Seq(S)
    PROVE  /\ a \o b \in Seq(S) /\ Len(a \o b) = Len(a) + Len(b)
           /\ DOMAIN (a \o b) = 1 .. (Len(a) + Len(b))
           /\ \A k \in 1 .. (Len(a) + Len(b)) :
                (a \o b)[k] = IF k <= Len(a) THEN a[k] ELSE b[k - Len(a)]
BY ConcatProperties

LEMMA ThreePieces ==
    ASSUME NEW a \in 0 .. 1, NEW b \in 0 .. 1, NEW c \in 0 .. 1,
           NEW k \in Int, 1 <= k, k <= a + b + c
    PROVE  \/ k = 1 /\ a = 1
           \/ k = a + 1 /\ b = 1
           \/ k = a + b + 1 /\ c = 1
<1>1. CASE k = 1
    OBVIOUS
<1>2. CASE k = 2
    OBVIOUS
<1>3. CASE k = 3
    OBVIOUS
<1> QED
    BY <1>1, <1>2, <1>3

LEMMA CorrectionRows ==
    ASSUME NEW e \in Entries, NEW seen \in EntryRows, NEW input \in Inputs
    PROVE  LET rows == Corrections(e, seen, input)
           IN /\ rows \in Seq(LogRows)
              /\ \A k \in DOMAIN rows : rows[k].entry = e
              /\ AddsOneRow(rows, e, "clockInAt", seen.in, input.in)
              /\ AddsOneRow(rows, e, "breakMinutes", seen.break, input.break)
<1>1. /\ seen.in \in Nat \cup {None} /\ seen.out \in Nat \cup {None}
      /\ seen.break \in Nat \cup {None}
      /\ input.in \in Nat \cup {None, Same} /\ input.out \in Nat \cup {None, Same}
      /\ input.break \in Nat \cup {None, Same}
    BY TimeClockAssumption, InputFields DEF EntryRows, Times, Breaks
<1>2. PICK a \in Seq(LogRows) :
         /\ a = CorrectionOf(e, "clockInAt", seen.in, input.in)
         /\ Unchanged(seen.in, input.in) => Len(a) = 0
         /\ ~Unchanged(seen.in, input.in) =>
               Len(a) = 1 /\ a[1] = ChangeRow(e, "clockInAt", seen.in, input.in)
    <2>1. "clockInAt" \in Fields
        BY DEF Fields
    <2>2. /\ CorrectionOf(e, "clockInAt", seen.in, input.in) \in Seq(LogRows)
          /\ Unchanged(seen.in, input.in) =>
                Len(CorrectionOf(e, "clockInAt", seen.in, input.in)) = 0
          /\ ~Unchanged(seen.in, input.in) =>
                /\ Len(CorrectionOf(e, "clockInAt", seen.in, input.in)) = 1
                /\ CorrectionOf(e, "clockInAt", seen.in, input.in)[1]
                     = ChangeRow(e, "clockInAt", seen.in, input.in)
        BY <1>1, <2>1, CorrectionPiece
    <2> QED BY <2>2
<1>3. PICK b \in Seq(LogRows) :
         /\ b = CorrectionOf(e, "clockOutAt", seen.out, input.out)
         /\ Unchanged(seen.out, input.out) => Len(b) = 0
         /\ ~Unchanged(seen.out, input.out) =>
               Len(b) = 1 /\ b[1] = ChangeRow(e, "clockOutAt", seen.out, input.out)
    <2>1. "clockOutAt" \in Fields
        BY DEF Fields
    <2>2. /\ CorrectionOf(e, "clockOutAt", seen.out, input.out) \in Seq(LogRows)
          /\ Unchanged(seen.out, input.out) =>
                Len(CorrectionOf(e, "clockOutAt", seen.out, input.out)) = 0
          /\ ~Unchanged(seen.out, input.out) =>
                /\ Len(CorrectionOf(e, "clockOutAt", seen.out, input.out)) = 1
                /\ CorrectionOf(e, "clockOutAt", seen.out, input.out)[1]
                     = ChangeRow(e, "clockOutAt", seen.out, input.out)
        BY <1>1, <2>1, CorrectionPiece
    <2> QED BY <2>2
<1>4. PICK c \in Seq(LogRows) :
         /\ c = CorrectionOf(e, "breakMinutes", seen.break, input.break)
         /\ Unchanged(seen.break, input.break) => Len(c) = 0
         /\ ~Unchanged(seen.break, input.break) =>
               Len(c) = 1 /\ c[1] = ChangeRow(e, "breakMinutes", seen.break, input.break)
    <2>1. "breakMinutes" \in Fields
        BY DEF Fields
    <2>2. /\ CorrectionOf(e, "breakMinutes", seen.break, input.break) \in Seq(LogRows)
          /\ Unchanged(seen.break, input.break) =>
                Len(CorrectionOf(e, "breakMinutes", seen.break, input.break)) = 0
          /\ ~Unchanged(seen.break, input.break) =>
                /\ Len(CorrectionOf(e, "breakMinutes", seen.break, input.break)) = 1
                /\ CorrectionOf(e, "breakMinutes", seen.break, input.break)[1]
                     = ChangeRow(e, "breakMinutes", seen.break, input.break)
        BY <1>1, <2>1, CorrectionPiece
    <2> QED BY <2>2
<1>5. PICK ab \in Seq(LogRows) :
         /\ ab = a \o b /\ Len(ab) = Len(a) + Len(b)
         /\ \A k \in 1 .. (Len(a) + Len(b)) :
              ab[k] = IF k <= Len(a) THEN a[k] ELSE b[k - Len(a)]
    <2>1. /\ a \o b \in Seq(LogRows) /\ Len(a \o b) = Len(a) + Len(b)
          /\ \A k \in 1 .. (Len(a) + Len(b)) :
               (a \o b)[k] = IF k <= Len(a) THEN a[k] ELSE b[k - Len(a)]
        BY Concatenated
    <2> QED BY <2>1
<1>6. PICK rows \in Seq(LogRows) :
         /\ rows = ab \o c
         /\ DOMAIN rows = 1 .. (Len(ab) + Len(c))
         /\ \A k \in 1 .. (Len(ab) + Len(c)) :
              rows[k] = IF k <= Len(ab) THEN ab[k] ELSE c[k - Len(ab)]
    <2>1. /\ ab \o c \in Seq(LogRows)
          /\ DOMAIN (ab \o c) = 1 .. (Len(ab) + Len(c))
          /\ \A k \in 1 .. (Len(ab) + Len(c)) :
              (ab \o c)[k] = IF k <= Len(ab) THEN ab[k] ELSE c[k - Len(ab)]
        BY Concatenated
    <2> QED BY <2>1
<1>7. rows = Corrections(e, seen, input)
    BY <1>2, <1>3, <1>4, <1>5, <1>6 DEF Corrections
<1>8. PICK la \in {0, 1}, lb \in {0, 1}, lc \in {0, 1} :
         la = Len(a) /\ lb = Len(b) /\ lc = Len(c)
    <2>1. Len(a) \in {0, 1} /\ Len(b) \in {0, 1} /\ Len(c) \in {0, 1}
        BY <1>2, <1>3, <1>4 DEF Unchanged
    <2> QED BY <2>1
<1>9. /\ la = 0 => Unchanged(seen.in, input.in)
      /\ la = 1 => ~Unchanged(seen.in, input.in)
      /\ lc = 0 => Unchanged(seen.break, input.break)
      /\ lc = 1 => ~Unchanged(seen.break, input.break)
    BY <1>2, <1>3, <1>4, <1>8 DEF Unchanged
<1>10. /\ la = 1 => a[1].entry = e /\ a[1].field = "clockInAt"
                     /\ a[1] = ChangeRow(e, "clockInAt", seen.in, input.in)
       /\ lb = 1 => b[1].entry = e /\ b[1].field = "clockOutAt"
       /\ lc = 1 => c[1].entry = e /\ c[1].field = "breakMinutes"
                     /\ c[1] = ChangeRow(e, "breakMinutes", seen.break, input.break)
    BY <1>2, <1>3, <1>4, <1>8 DEF Unchanged, ChangeRow
<1>11. /\ DOMAIN rows = 1 .. (la + lb + lc)
       /\ la = 1 => rows[1] = a[1]
       /\ lb = 1 => rows[la + 1] = b[1]
       /\ lc = 1 => rows[la + lb + 1] = c[1]
    <2>1. DOMAIN rows = 1 .. (la + lb + lc)
        BY <1>5, <1>6, <1>8
    <2>2. CASE la = 0
        BY <1>5, <1>6, <1>8, <2>1, <2>2
    <2>3. CASE la = 1
        BY <1>5, <1>6, <1>8, <2>1, <2>3
    <2> QED BY <1>8, <2>2, <2>3
<1>12. \A k \in DOMAIN rows :
          /\ rows[k].entry = e
          /\ rows[k].field = "clockInAt" => k = 1 /\ la = 1
          /\ rows[k].field = "breakMinutes" => k = la + lb + 1 /\ lc = 1
    <2> TAKE k \in DOMAIN rows
    <2>1. k \in 1 .. (la + lb + lc)
        BY <1>11
    <2>2. \/ k = 1 /\ la = 1
          \/ k = la + 1 /\ lb = 1
          \/ k = la + lb + 1 /\ lc = 1
        <3>1. la \in 0 .. 1 /\ lb \in 0 .. 1 /\ lc \in 0 .. 1
            OBVIOUS
        <3>2. k \in Int /\ 1 <= k /\ k <= la + lb + lc
            BY <2>1, <3>1
        <3> QED BY <3>1, <3>2, ThreePieces
    <2> QED BY <1>10, <1>11, <2>2
<1>13. AddsOneRow(rows, e, "clockInAt", seen.in, input.in)
    <2>1. CASE la = 0
        <3>1. \A k \in DOMAIN rows : rows[k].field # "clockInAt"
            BY <1>12, <2>1
        <3> QED BY <1>9, <2>1, <3>1 DEF AddsOneRow
    <2>2. CASE la = 1
        <3>1. /\ 1 \in DOMAIN rows
              /\ rows[1] = ChangeRow(e, "clockInAt", seen.in, input.in)
            BY <1>8, <1>10, <1>11, <2>2
        <3>2. \A j \in DOMAIN rows : rows[j].field = "clockInAt" => j = 1
            BY <1>12
        <3>3. ~Unchanged(seen.in, input.in)
            BY <1>9, <2>2
        <3> QED BY <3>1, <3>2, <3>3, Zenon DEF AddsOneRow
    <2> QED BY <1>8, <2>1, <2>2
<1>14. AddsOneRow(rows, e, "breakMinutes", seen.break, input.break)
    <2>1. CASE lc = 0
        <3>1. \A k \in DOMAIN rows : rows[k].field # "breakMinutes"
            BY <1>12, <2>1
        <3> QED BY <1>9, <2>1, <3>1 DEF AddsOneRow
    <2>2. CASE lc = 1
        <3>1. /\ la + lb + 1 \in DOMAIN rows
              /\ rows[la + lb + 1]
                   = ChangeRow(e, "breakMinutes", seen.break, input.break)
            BY <1>8, <1>10, <1>11, <2>2
        <3>2. \A j \in DOMAIN rows : rows[j].field = "breakMinutes" => j = la + lb + 1
            BY <1>12
        <3>3. ~Unchanged(seen.break, input.break)
            BY <1>9, <2>2
        <3> QED BY <3>1, <3>2, <3>3, Zenon DEF AddsOneRow
    <2> QED BY <1>8, <2>1, <2>2
<1> QED
    BY <1>7, <1>12, <1>13, <1>14

-----------------------------------------------------------------------------
(* What the rows that a step adds do to what the log explains.              *)
LEMMA LogGrows ==
    ASSUME log \in Seq(LogRows), NEW rows \in Seq(LogRows), log' = log \o rows
    PROVE  /\ log' \in Seq(LogRows)
           /\ Len(log) \in Nat /\ Len(rows) \in Nat
           /\ Len(log') = Len(log) + Len(rows)
           /\ DOMAIN log = 1 .. Len(log) /\ DOMAIN rows = 1 .. Len(rows)
           /\ DOMAIN log' = 1 .. (Len(log) + Len(rows))
           /\ \A i \in 1 .. Len(log) : log'[i] = log[i]
           /\ \A i \in DOMAIN log' :
                 i > Len(log) => /\ i - Len(log) \in DOMAIN rows
                                 /\ log'[i] = rows[i - Len(log)]
           /\ \A k \in 1 .. Len(rows) : log'[Len(log) + k] = rows[k]
<1>1. /\ log \o rows \in Seq(LogRows)
      /\ Len(log \o rows) = Len(log) + Len(rows)
      /\ DOMAIN (log \o rows) = 1 .. (Len(log) + Len(rows))
      /\ \A k \in 1 .. (Len(log) + Len(rows)) :
           (log \o rows)[k] = IF k <= Len(log) THEN log[k] ELSE rows[k - Len(log)]
    BY Concatenated
<1>2. /\ log' \in Seq(LogRows)
      /\ Len(log') = Len(log) + Len(rows)
      /\ DOMAIN log' = 1 .. (Len(log) + Len(rows))
      /\ \A k \in 1 .. (Len(log) + Len(rows)) :
           log'[k] = IF k <= Len(log) THEN log[k] ELSE rows[k - Len(log)]
    BY <1>1
<1>3. /\ Len(log) \in Nat /\ Len(rows) \in Nat
      /\ DOMAIN log = 1 .. Len(log) /\ DOMAIN rows = 1 .. Len(rows)
    OBVIOUS
<1>4. \A i \in 1 .. Len(log) : log'[i] = log[i]
    BY <1>2, <1>3
<1>5. \A i \in DOMAIN log' :
         i > Len(log) => i - Len(log) \in DOMAIN rows /\ log'[i] = rows[i - Len(log)]
    BY <1>2, <1>3
<1>6. \A k \in 1 .. Len(rows) : log'[Len(log) + k] = rows[k]
    <2> TAKE k \in 1 .. Len(rows)
    <2>1. /\ Len(log) + k \in 1 .. (Len(log) + Len(rows))
          /\ ~ (Len(log) + k <= Len(log)) /\ (Len(log) + k) - Len(log) = k
        BY <1>3
    <2> QED BY <1>2, <2>1
<1> QED
    BY <1>2, <1>3, <1>4, <1>5, <1>6

(* Rows about something else explain nothing new.                           *)
LEMMA OtherRows ==
    ASSUME log \in Seq(LogRows), NEW rows \in Seq(LogRows), log' = log \o rows,
           NEW e, NEW field, NEW original, NEW value,
           Explains(e, field, original, value),
           \A k \in DOMAIN rows : ~ (rows[k].entry = e /\ rows[k].field = field)
    PROVE  Explains(e, field, original, value)'
<1>1. PICK n \in Nat, m \in Nat :
         /\ n = Len(log) /\ m = Len(log') /\ n <= m
         /\ DOMAIN log = 1 .. n /\ DOMAIN log' = 1 .. m
         /\ \A i \in 1 .. n : log'[i] = log[i]
         /\ \A i \in 1 .. m :
               i > n => \E k \in DOMAIN rows : log'[i] = rows[k]
    <2>1. /\ Len(log) \in Nat /\ Len(log') \in Nat /\ Len(log) <= Len(log')
          /\ DOMAIN log = 1 .. Len(log) /\ DOMAIN log' = 1 .. Len(log')
          /\ \A i \in 1 .. Len(log) : log'[i] = log[i]
          /\ \A i \in 1 .. Len(log') :
               i > Len(log) => \E k \in DOMAIN rows : log'[i] = rows[k]
        BY LogGrows
    <2> QED BY <2>1
<1>2. PICK about : about = RowsAbout(e, field)
    OBVIOUS
<1>3. /\ about \subseteq 1 .. n
      /\ RowsAbout(e, field)' = about
    BY <1>1, <1>2 DEF RowsAbout
<1>4. /\ \A i \in about : ValueBefore(i, about, original, log[i].original)
      /\ ValueBefore(n + 1, about, original, value)
    BY <1>1, <1>2 DEF Explains
<1>5. \A i \in about : ValueBefore(i, about, original, log[i].original)'
    <2> TAKE i \in about
    <2>1. log'[i] = log[i] /\ \A j \in about : log'[j] = log[j]
        BY <1>1, <1>3
    <2> QED BY <1>4, <2>1 DEF ValueBefore, LastBefore
<1>6. ValueBefore(m + 1, about, original, value)'
    <2>1. \A j \in about :
             log'[j] = log[j] /\ j < n + 1 /\ j < m + 1 /\ ~ (j >= n + 1)
        BY <1>1, <1>3
    <2>2. CASE (\A i \in about : i >= n + 1) /\ value = original
        <3>1. \A i \in about : FALSE
            BY <2>1, <2>2
        <3> QED BY <2>2, <3>1 DEF ValueBefore
    <2>3. CASE \E i \in about : LastBefore(n + 1, about, i) /\ value = log[i].updated
        <3>1. PICK i \in about : LastBefore(n + 1, about, i) /\ value = log[i].updated
            BY <2>3
        <3>2. LastBefore(m + 1, about, i)
            BY <2>1, <3>1 DEF LastBefore
        <3>3. value = log'[i].updated
            BY <2>1, <3>1
        <3> QED BY <3>2, <3>3 DEF ValueBefore, LastBefore
    <2> QED BY <1>4, <2>2, <2>3 DEF ValueBefore
<1> QED
    BY <1>1, <1>3, <1>5, <1>6 DEF Explains

(* One row about a field explains its new value.                            *)
LEMMA OneRow ==
    ASSUME log \in Seq(LogRows), NEW rows \in Seq(LogRows), log' = log \o rows,
           NEW e, NEW field, NEW original, NEW value,
           Explains(e, field, original, value),
           NEW k \in DOMAIN rows, rows[k].entry = e, rows[k].field = field,
           rows[k].original = value,
           \A j \in DOMAIN rows : rows[j].field = field => j = k
    PROVE  Explains(e, field, original, rows[k].updated)'
<1>1. PICK n \in Nat, m \in Nat, last \in Nat :
         /\ last \in 1 .. m
         /\ n = Len(log) /\ m = Len(log') /\ n < last
         /\ DOMAIN log = 1 .. n /\ DOMAIN log' = 1 .. m
         /\ \A i \in 1 .. n : log'[i] = log[i]
         /\ log'[last] = rows[k]
         /\ \A i \in 1 .. m : i > n /\ log'[i].field = field => i = last
    <2>1. /\ Len(log) \in Nat /\ Len(log') \in Nat
          /\ DOMAIN log = 1 .. Len(log) /\ DOMAIN log' = 1 .. Len(log')
          /\ \A i \in 1 .. Len(log) : log'[i] = log[i]
        BY LogGrows
    <2>2. /\ Len(log) + k \in 1 .. Len(log') /\ Len(log) < Len(log) + k
          /\ Len(log) + k \in Nat /\ log'[Len(log) + k] = rows[k]
        <3>1. /\ Len(log) \in Nat /\ Len(rows) \in Nat /\ k \in 1 .. Len(rows)
              /\ Len(log') = Len(log) + Len(rows)
            BY LogGrows
        <3>2. log'[Len(log) + k] = rows[k]
            BY <3>1, LogGrows
        <3> QED BY <3>1, <3>2
    <2>3. ASSUME NEW i \in 1 .. Len(log'), i > Len(log), log'[i].field = field
          PROVE  i = Len(log) + k
        <3>1. i - Len(log) \in DOMAIN rows /\ log'[i] = rows[i - Len(log)]
            BY <2>1, <2>3, LogGrows
        <3>2. i - Len(log) = k
            BY <2>3, <3>1
        <3> QED BY <2>1, <3>2
    <2> QED BY <2>1, <2>2, <2>3
<1>2. PICK about : about = RowsAbout(e, field)
    OBVIOUS
<1>3. about \subseteq 1 .. n
    BY <1>1, <1>2 DEF RowsAbout
<1>4. PICK aboutNow : aboutNow = about \cup {last}
    OBVIOUS
<1>5. RowsAbout(e, field)' = aboutNow
    BY <1>1, <1>2, <1>3, <1>4 DEF RowsAbout
<1>6. /\ \A i \in about : ValueBefore(i, about, original, log[i].original)
      /\ ValueBefore(n + 1, about, original, value)
    BY <1>1, <1>2 DEF Explains
<1>7. \A j \in about : j \in Int /\ log'[j] = log[j] /\ j < last /\ j < n + 1
    <2> TAKE j \in about
    <2>1. j \in 1 .. n
        BY <1>3
    <2> QED BY <1>1, <2>1
<1>8. ASSUME NEW i \in about
      PROVE  ValueBefore(i, aboutNow, original, log[i].original)'
    <2>1. log'[i] = log[i] /\ i < last /\ i \in Int
        BY <1>7
    <2>2. ~ (last < i) /\ last >= i
        <3>1. last \in Nat
            OBVIOUS
        <3> QED BY <2>1, <3>1
    <2>3. CASE (\A j \in about : j >= i) /\ log[i].original = original
        BY <1>4, <2>1, <2>2, <2>3 DEF ValueBefore
    <2>4. CASE \E j \in about : LastBefore(i, about, j) /\ log[i].original = log[j].updated
        <3>1. PICK j \in about :
                 LastBefore(i, about, j) /\ log[i].original = log[j].updated
            BY <2>4
        <3>2. LastBefore(i, aboutNow, j) /\ j \in aboutNow
            BY <1>4, <2>2, <3>1 DEF LastBefore
        <3>3. log[i].original = log'[j].updated
            BY <1>7, <3>1
        <3> QED BY <2>1, <3>2, <3>3 DEF ValueBefore, LastBefore
    <2>5. ValueBefore(i, about, original, log[i].original)
        BY <1>6
    <2> QED BY <2>3, <2>4, <2>5 DEF ValueBefore
<1>9. ValueBefore(last, aboutNow, original, log[last].original)'
    <2>1. log'[last].original = value
        BY <1>1
    <2>2. CASE (\A i \in about : i >= n + 1) /\ value = original
        BY <1>4, <1>7, <2>1, <2>2 DEF ValueBefore
    <2>3. CASE \E i \in about : LastBefore(n + 1, about, i) /\ value = log[i].updated
        <3>1. PICK i \in about : LastBefore(n + 1, about, i) /\ value = log[i].updated
            BY <2>3
        <3>2. LastBefore(last, aboutNow, i)
            BY <1>4, <1>7, <3>1 DEF LastBefore
        <3>3. i \in aboutNow /\ log'[last].original = log'[i].updated
            BY <1>4, <1>7, <2>1, <3>1
        <3> QED BY <3>2, <3>3 DEF ValueBefore, LastBefore
    <2> QED BY <1>6, <2>2, <2>3 DEF ValueBefore
<1>10. ValueBefore(m + 1, aboutNow, original, rows[k].updated)'
    <2>1. LastBefore(m + 1, aboutNow, last)
        BY <1>1, <1>4, <1>7 DEF LastBefore
    <2> QED BY <1>1, <1>4, <2>1 DEF ValueBefore, LastBefore
<1>11. \A i \in aboutNow : ValueBefore(i, aboutNow, original, log[i].original)'
    BY <1>4, <1>8, <1>9
<1> QED
    BY <1>1, <1>5, <1>10, <1>11 DEF Explains

LEMMA CorrectionExplains ==
    ASSUME log \in Seq(LogRows), NEW rows \in Seq(LogRows), log' = log \o rows,
           NEW e, NEW field, NEW original, NEW old, NEW value,
           Explains(e, field, original, old),
           \A k \in DOMAIN rows : rows[k].entry = e,
           AddsOneRow(rows, e, field, old, value)
    PROVE  Explains(e, field, original, Updated(value, old))'
<1>1. CASE Unchanged(old, value)
    <2>1. Updated(value, old) = old
        BY <1>1 DEF Unchanged, Updated
    <2>2. \A k \in DOMAIN rows : rows[k].field # field
        BY <1>1 DEF AddsOneRow
    <2> QED BY <2>1, <2>2, OtherRows
<1>2. CASE ~Unchanged(old, value)
    <2>1. PICK k \in DOMAIN rows :
             /\ rows[k] = ChangeRow(e, field, old, value)
             /\ \A j \in DOMAIN rows : rows[j].field = field => j = k
        BY <1>2 DEF AddsOneRow
    <2>2. /\ rows[k].entry = e /\ rows[k].field = field
          /\ rows[k].original = old /\ rows[k].updated = value
        BY <2>1 DEF ChangeRow
    <2>3. Updated(value, old) = value
        BY <1>2 DEF Unchanged, Updated
    <2>4. Explains(e, field, original, rows[k].updated)'
        BY <2>1, <2>2, OneRow
    <2> QED BY <2>2, <2>3, <2>4
<1> QED
    BY <1>1, <1>2

-----------------------------------------------------------------------------
(* What a request has read is so, until another makes it stale.             *)
ReadKept(r) ==
    /\ r.at = "clocking in" /\ r.stale = FALSE /\ r.employee \notin unkept =>
          \A e \in Entries : ~ (entry[e].status = "CLOCKED_IN"
                                /\ entry[e].employee = r.employee)
    /\ r.at \in {"clocking out", "correcting"} =>
          /\ entry[r.entry].status # "ABSENT"
          /\ r.seen.employee = entry[r.entry].employee
          /\ r.stale = FALSE => r.seen = entry[r.entry]

Explained(e) ==
    entry[e].status # "ABSENT" =>
       /\ entry[e].status = "CLOCKED_IN" <=> entry[e].out = None
       /\ entry[e].worked =
            IF entry[e].out = None THEN None
            ELSE calculateWorkedMinutes(entry[e].in, entry[e].out, entry[e].break)
       /\ Explains(e, "clockInAt", first[e].in, entry[e].in)
       /\ Explains(e, "breakMinutes", first[e].break, entry[e].break)

ClockInv ==
    /\ ClockTypeOK
    /\ \A e \in Entries : entry[e].status # "ABSENT" => entry[e].employee \in Employees
    /\ \A i \in DOMAIN log : entry[log[i].entry].status # "ABSENT"
    /\ \A w \in Workers : ReadKept(req[w])
    /\ \A e, f \in Entries :
          /\ entry[e].status = "CLOCKED_IN" /\ entry[f].status = "CLOCKED_IN"
          /\ entry[e].employee = entry[f].employee /\ entry[e].employee \notin unkept
          => e = f
    /\ \A e \in Entries \ unkept : Explained(e)

LEMMA ClockInvHolds == ClockInv => OneOpenEntry /\ EntryIsExplained
<1> SUFFICES ASSUME ClockInv PROVE OneOpenEntry /\ EntryIsExplained
    OBVIOUS
<1>1. OneOpenEntry
    BY DEF ClockInv, OneOpenEntry, OpenEntries
<1>2. EntryIsExplained
    BY DEF ClockInv, EntryIsExplained, Explained
<1> QED
    BY <1>1, <1>2

LEMMA AbsentTyped ==
    /\ Absent \in EntryRows /\ Absent.status = "ABSENT"
    /\ 0 \in Times /\ 0 \in Breaks
BY TimeClockAssumption DEF Absent, EntryRows, Times, Breaks

LEMMA ClockInitInv == ClockInit => ClockInv
<1> SUFFICES ASSUME ClockInit PROVE ClockInv
    OBVIOUS
<1>1. ClockTypeOK
    BY AbsentTyped DEF ClockInit, ClockTypeOK
<1>2. \A e \in Entries : entry[e].status = "ABSENT"
    BY AbsentTyped DEF ClockInit
<1>3. \A w \in Workers : ReadKept(req[w])
    BY ClockIdle DEF ClockInit, ReadKept
<1>4. \A i \in DOMAIN log : entry[log[i].entry].status # "ABSENT"
    BY DEF ClockInit
<1> QED
    BY <1>1, <1>2, <1>3, <1>4 DEF ClockInv, Explained

-----------------------------------------------------------------------------
(* What a commit may do to the entries without making what others have read *)
(* wrong: it makes stale whoever has read what it changes.                  *)
RequestsStay ==
    \A v \in Workers : \/ req'[v] = Idle
                       \/ req'[v] = req[v]
                       \/ req[v] # Idle /\ req'[v] = Staled(req[v])

LEMMA ReadsStayKept ==
    ASSUME ClockInv, RequestsStay, unkept \subseteq unkept',
           \A e \in Entries : entry[e].status # "ABSENT" =>
              entry'[e].status # "ABSENT" /\ entry'[e].employee = entry[e].employee,
           \A v \in Workers :
              /\ req[v].at \in {"clocking out", "correcting"}
              /\ entry'[req[v].entry] # entry[req[v].entry]
              => req'[v] = Idle \/ req'[v] = Staled(req[v]),
           \A v \in Workers : req[v].at = "clocking in" =>
              \/ req'[v] = Idle \/ req'[v] = Staled(req[v])
              \/ req[v].employee \in unkept'
              \/ \A e \in Entries :
                    entry'[e].status = "CLOCKED_IN" /\ entry'[e].employee = req[v].employee
                    => entry[e].status = "CLOCKED_IN" /\ entry[e].employee = req[v].employee
    PROVE  \A w \in Workers : req'[w] \in ClockRequestSet /\ ReadKept(req[w])'
<1>0. req \in [Workers -> ClockRequestSet]
    BY DEF ClockInv, ClockTypeOK, ClockRequestSet
<1>1. ASSUME NEW v \in Workers
      PROVE  req'[v] \in ClockRequestSet
    BY <1>0, ClockIdle, ClockStaled DEF RequestsStay
<1>2. ASSUME NEW v \in Workers
      PROVE  ReadKept(req[v])'
    <2>0. ReadKept(req[v])
        BY DEF ClockInv
    <2>1. CASE req'[v] = Idle
        BY <2>1, ClockIdle DEF ReadKept
    <2>2. CASE req'[v] = Staled(req[v]) /\ req[v] # Idle
        <3>1. PICK r \in ClockRequestSet : r = req[v]
            BY <1>0
        <3>2. PICK s \in ClockRequestSet : s = Staled(r)
            BY <2>2, <3>1, ClockStaled
        <3>3. /\ s.at = r.at /\ s.stale = TRUE
              /\ r.at \in {"clocking out", "correcting"} =>
                    s.entry = r.entry /\ s.seen = r.seen /\ r.entry \in Entries
            BY <2>2, <3>1, <3>2, ClockStaled, ClockFields
        <3>4. req'[v] = s
            BY <2>2, <3>1, <3>2
        <3>5. s.at \in {"clocking out", "correcting"} =>
                 /\ entry'[s.entry].status # "ABSENT"
                 /\ s.seen.employee = entry'[s.entry].employee
            BY <2>0, <3>1, <3>3 DEF ReadKept
        <3> QED BY <3>3, <3>4, <3>5 DEF ReadKept
    <2>3. CASE /\ req'[v] = req[v] /\ req'[v] # Idle
               /\ ~ (req'[v] = Staled(req[v]) /\ req[v] # Idle)
        <3>1. PICK r \in ClockRequestSet : r = req[v] /\ r = req'[v]
            BY <1>0, <2>3
        <3>2. r.at = "clocking in" /\ r.stale = FALSE /\ r.employee \notin unkept' =>
                 \A e \in Entries : ~ (entry'[e].status = "CLOCKED_IN"
                                       /\ entry'[e].employee = r.employee)
            BY <2>0, <2>3, <3>1 DEF ReadKept
        <3>3. r.at \in {"clocking out", "correcting"} =>
                 r.entry \in Entries /\ entry'[r.entry] = entry[r.entry]
            BY <2>3, <3>1, ClockFields
        <3>4. r.at \in {"clocking out", "correcting"} =>
                 /\ entry'[r.entry].status # "ABSENT"
                 /\ r.seen.employee = entry'[r.entry].employee
                 /\ r.stale = FALSE => r.seen = entry'[r.entry]
            BY <2>0, <3>1, <3>3 DEF ReadKept
        <3> QED BY <3>1, <3>2, <3>4 DEF ReadKept
    <2> QED BY <2>1, <2>2, <2>3 DEF RequestsStay
<1> QED
    BY <1>1, <1>2

LEMMA ClockMoves ==
    ASSUME NEW w \in Workers, ClockIn(w) \/ ClockOut(w) \/ Correct(w)
    PROVE  /\ req' = [v \in Workers |-> req'[v]]
           /\ RequestsStay
           /\ req'[w] = Idle
           /\ ClockIn(w) => \A v \in Workers :
                 v # w /\ req[v] # Idle /\ ReadsOpenEntries(req[w].employee, req[v])
                 => req'[v] = Staled(req[v])
           /\ ClockOut(w) \/ Correct(w) => \A v \in Workers :
                 v # w /\ req[v] # Idle /\ ReadsEntry(req[w].entry, req[v])
                 => req'[v] = Staled(req[v])
BY DEF ClockIn, ClockOut, Correct, CommitOver, RequestsStay, Staled

(* An entry that a step leaves alone, and a new one.                        *)
LEMMA ExplainedFrame ==
    ASSUME NEW f, UNCHANGED log, entry'[f] = entry[f], first'[f] = first[f], Explained(f)
    PROVE  Explained(f)'
BY DEF Explained, Explains, RowsAbout, ValueBefore, LastBefore

LEMMA ExplainedOther ==
    ASSUME log \in Seq(LogRows), NEW rows \in Seq(LogRows), log' = log \o rows,
           NEW f, \A k \in DOMAIN rows : rows[k].entry # f,
           entry'[f] = entry[f], first'[f] = first[f], Explained(f)
    PROVE  Explained(f)'
<1>1. PICK row, began : row = entry[f] /\ began = first[f]
    OBVIOUS
<1>2. SUFFICES ASSUME row.status # "ABSENT"
               PROVE  /\ Explains(f, "clockInAt", began.in, row.in)'
                      /\ Explains(f, "breakMinutes", began.break, row.break)'
    BY <1>1 DEF Explained
<1>3. /\ Explains(f, "clockInAt", began.in, row.in)
      /\ Explains(f, "breakMinutes", began.break, row.break)
    BY <1>1, <1>2 DEF Explained
<1> QED
    BY <1>3, OtherRows

LEMMA NothingToExplain ==
    ASSUME NEW e, NEW field, NEW original, RowsAbout(e, field)' = {}
    PROVE  Explains(e, field, original, original)'
BY DEF Explains, ValueBefore

LEMMA LoggedEntries ==
    ASSUME NEW rows \in Seq(LogRows)
    PROVE  \A i \in DOMAIN rows : rows[i].entry \in Entries
<1>1. \A i \in DOMAIN rows : rows[i] \in LogRows
    OBVIOUS
<1> QED
    BY <1>1 DEF LogRows

-----------------------------------------------------------------------------
(* The steps.                                                               *)
LEMMA ClockInKeeps ==
    ASSUME ClockInv, NEW w \in Workers, ClockIn(w)
    PROVE  ClockInv'
<1>0. /\ ClockTypeOK /\ entry \in [Entries -> EntryRows]
      /\ first \in [Entries -> [in : Times, break : Breaks]]
      /\ req \in [Workers -> ClockRequestSet] /\ log \in Seq(LogRows)
    BY DEF ClockInv, ClockTypeOK, ClockRequestSet
<1>1. PICK p \in Employees, t \in Times : p = req[w].employee /\ t = req[w].time
    BY <1>0, ClockFields DEF ClockIn
<1>2. PICK e \in Entries :
         /\ entry[e].status = "ABSENT"
         /\ entry' = [entry EXCEPT ![e] =
                        [Absent EXCEPT !.employee = p, !.in = t, !.status = "CLOCKED_IN"]]
         /\ first' = [first EXCEPT ![e] = [in |-> t, break |-> 0]]
    BY <1>1 DEF ClockIn
<1>3. PICK new :
         new = [Absent EXCEPT !.employee = p, !.in = t, !.status = "CLOCKED_IN"]
    OBVIOUS
<1>4. /\ new \in EntryRows /\ new.employee = p /\ new.status = "CLOCKED_IN"
      /\ new.in = t /\ new.out = None /\ new.break = 0 /\ new.worked = None
    BY <1>3, AbsentTyped DEF Absent, EntryRows
<1>5. /\ entry' = [entry EXCEPT ![e] = new]
      /\ entry'[e] = new /\ \A f \in Entries : f # e => entry'[f] = entry[f]
      /\ first'[e] = [in |-> t, break |-> 0]
      /\ \A f \in Entries : f # e => first'[f] = first[f]
      /\ log' = log /\ now' = now
      /\ unkept' = IF req[w].stale THEN unkept \cup {p} ELSE unkept
    BY <1>0, <1>1, <1>2, <1>3 DEF ClockIn
<1>6. req[w].stale \in BOOLEAN
    BY <1>0, ClockFields
<1>7. /\ unkept \subseteq unkept' /\ unkept' \subseteq unkept \cup {p}
      /\ p \notin unkept' => req[w].stale = FALSE /\ p \notin unkept
    BY <1>5, <1>6
<1>8. /\ \A v \in Workers : req'[v] \in ClockRequestSet /\ ReadKept(req[v])'
    <2>1. RequestsStay
        BY ClockMoves
    <2>2. \A f \in Entries : entry[f].status # "ABSENT" => entry'[f] = entry[f]
        BY <1>2, <1>5
    <2>3. ASSUME NEW v \in Workers, req[v].at \in {"clocking out", "correcting"}
          PROVE  entry'[req[v].entry] = entry[req[v].entry]
        <3>1. req[v].entry \in Entries /\ entry[req[v].entry].status # "ABSENT"
            BY <1>0, <2>3, ClockFields DEF ClockInv, ReadKept
        <3> QED BY <2>2, <3>1
    <2>4. ASSUME NEW v \in Workers, req[v].at = "clocking in"
          PROVE  \/ req'[v] = Idle \/ req'[v] = Staled(req[v])
                 \/ req[v].employee \in unkept'
                 \/ \A f \in Entries :
                       entry'[f].status = "CLOCKED_IN" /\ entry'[f].employee = req[v].employee
                       => /\ entry[f].status = "CLOCKED_IN"
                          /\ entry[f].employee = req[v].employee
        <3>1. CASE req[v].employee = p
            <4>1. req[v] # Idle
                BY <2>4, ClockIdle
            <4> QED BY <1>1, <2>4, <3>1, <4>1, ClockMoves DEF ReadsOpenEntries
        <3>2. CASE req[v].employee # p
            BY <1>4, <1>5, <3>2
        <3> QED BY <3>1, <3>2
    <2> QED BY <1>7, <2>1, <2>2, <2>3, <2>4, ReadsStayKept
<1>9. ClockTypeOK'
    <2>1. req' \in [Workers -> ClockRequestSet]
        BY <1>8, ClockMoves
    <2>2. first' \in [Entries -> [in : Times, break : Breaks]]
        BY <1>0, <1>2, AbsentTyped
    <2>3. entry' \in [Entries -> EntryRows]
        BY <1>0, <1>4, <1>5
    <2>4. unkept' \subseteq Entries \cup Employees
        BY <1>0, <1>7 DEF ClockTypeOK
    <2> QED BY <1>0, <1>5, <2>1, <2>2, <2>3, <2>4 DEF ClockTypeOK, ClockRequestSet
<1>10. \A f \in Entries : entry'[f].status # "ABSENT" => entry'[f].employee \in Employees
    BY <1>4, <1>5 DEF ClockInv
<1>11. \A i \in DOMAIN log' : entry'[log'[i].entry].status # "ABSENT"
    <2>1. \A i \in DOMAIN log : log[i].entry \in Entries
        BY <1>0, LoggedEntries
    <2> QED BY <1>4, <1>5, <2>1 DEF ClockInv
<1>12. ASSUME NEW f \in Entries, NEW g \in Entries,
              entry'[f].status = "CLOCKED_IN", entry'[g].status = "CLOCKED_IN",
              entry'[f].employee = entry'[g].employee, entry'[f].employee \notin unkept'
       PROVE  f = g
    <2>1. p \notin unkept' =>
             \A h \in Entries : ~ (entry[h].status = "CLOCKED_IN" /\ entry[h].employee = p)
        BY <1>1, <1>7 DEF ClockIn, ClockInv, ReadKept
    <2> QED BY <1>4, <1>5, <1>7, <1>12, <2>1 DEF ClockInv
<1>13. ASSUME NEW f \in Entries \ unkept' PROVE Explained(f)'
    <2>1. CASE f # e
        BY <1>5, <1>7, <2>1, ExplainedFrame DEF ClockInv
    <2>2. CASE f = e
        <3>1. \A i \in DOMAIN log' : log'[i].entry # e
            BY <1>2, <1>5 DEF ClockInv
        <3>2. RowsAbout(e, "clockInAt")' = {} /\ RowsAbout(e, "breakMinutes")' = {}
            BY <3>1 DEF RowsAbout
        <3>3. Explains(e, "clockInAt", t, t)' /\ Explains(e, "breakMinutes", 0, 0)'
            BY <3>2, NothingToExplain
        <3> QED BY <1>4, <1>5, <2>2, <3>3 DEF Explained
    <2> QED BY <2>1, <2>2
<1> QED
    BY <1>8, <1>9, <1>10, <1>11, <1>12, <1>13 DEF ClockInv

(* Clocking out and correcting: one entry is written over, its employee     *)
(* kept, and whoever else has read it is made stale.                        *)
LEMMA WrittenEntry ==
    ASSUME ClockInv, NEW w \in Workers, ClockOut(w) \/ Correct(w),
           NEW e \in Entries, e = req[w].entry,
           NEW new \in EntryRows, new.status # "ABSENT",
           new.employee = entry[e].employee,
           entry' = [entry EXCEPT ![e] = new],
           unkept \subseteq unkept',
           entry[e].status # "CLOCKED_IN" /\ new.status = "CLOCKED_IN"
             => new.employee \in unkept'
    PROVE  /\ \A v \in Workers : req'[v] \in ClockRequestSet /\ ReadKept(req[v])'
           /\ req' \in [Workers -> ClockRequestSet]
           /\ entry' \in [Entries -> EntryRows]
           /\ \A f \in Entries : entry'[f].status # "ABSENT" => entry'[f].employee \in Employees
           /\ \A f, g \in Entries :
                /\ entry'[f].status = "CLOCKED_IN" /\ entry'[g].status = "CLOCKED_IN"
                /\ entry'[f].employee = entry'[g].employee /\ entry'[f].employee \notin unkept'
                => f = g
           /\ \A f \in Entries : entry[f].status # "ABSENT" => entry'[f].status # "ABSENT"
<1>0. /\ entry \in [Entries -> EntryRows] /\ req \in [Workers -> ClockRequestSet]
      /\ req[w].at \in {"clocking out", "correcting"}
    BY DEF ClockInv, ClockTypeOK, ClockRequestSet, ClockOut, Correct
<1>1. /\ entry'[e] = new /\ \A f \in Entries : f # e => entry'[f] = entry[f]
      /\ entry[e].status # "ABSENT" /\ entry[e].employee \in Employees
    BY <1>0 DEF ClockInv, ReadKept
<1>2. RequestsStay /\ req' = [v \in Workers |-> req'[v]]
    BY ClockMoves
<1>3. ASSUME NEW v \in Workers, req[v].at \in {"clocking out", "correcting"},
             entry'[req[v].entry] # entry[req[v].entry]
      PROVE  req'[v] = Idle \/ req'[v] = Staled(req[v])
    <2>1. req[v].entry \in Entries /\ req[v] # Idle
        BY <1>0, <1>3, ClockFields, ClockIdle
    <2>2. req[v].entry = e
        BY <1>1, <1>3, <2>1
    <2> QED BY <1>3, <2>1, <2>2, ClockMoves DEF ReadsEntry
<1>4. ASSUME NEW v \in Workers
      PROVE  \/ req[v].employee \in unkept'
             \/ \A f \in Entries :
                   entry'[f].status = "CLOCKED_IN" /\ entry'[f].employee = req[v].employee
                   => /\ entry[f].status = "CLOCKED_IN"
                      /\ entry[f].employee = req[v].employee
    BY <1>1
<1>5. \A v \in Workers : req'[v] \in ClockRequestSet /\ ReadKept(req[v])'
    BY <1>1, <1>2, <1>3, <1>4, ReadsStayKept
<1>6. req' \in [Workers -> ClockRequestSet]
    BY <1>2, <1>5
<1>7. entry' \in [Entries -> EntryRows]
    BY <1>0
<1>8. \A f \in Entries : entry'[f].status # "ABSENT" => entry'[f].employee \in Employees
    BY <1>1 DEF ClockInv
<1>9. ASSUME NEW f \in Entries, NEW g \in Entries,
             entry'[f].status = "CLOCKED_IN", entry'[g].status = "CLOCKED_IN",
             entry'[f].employee = entry'[g].employee, entry'[f].employee \notin unkept'
      PROVE  f = g
    <2>1. /\ entry[f].status = "CLOCKED_IN" /\ entry[f].employee = entry'[f].employee
          /\ entry[g].status = "CLOCKED_IN" /\ entry[g].employee = entry'[g].employee
        BY <1>1, <1>9
    <2> QED BY <1>9, <2>1 DEF ClockInv
<1> QED
    BY <1>1, <1>5, <1>6, <1>7, <1>8, <1>9

LEMMA ClockOutKeeps ==
    ASSUME ClockInv, NEW w \in Workers, ClockOut(w)
    PROVE  ClockInv'
<1>0. /\ ClockTypeOK /\ entry \in [Entries -> EntryRows]
      /\ req \in [Workers -> ClockRequestSet] /\ log \in Seq(LogRows)
      /\ req[w].at = "clocking out"
    BY DEF ClockInv, ClockTypeOK, ClockRequestSet, ClockOut
<1>1. PICK e \in Entries, seen \in EntryRows, t \in Times :
         e = req[w].entry /\ seen = req[w].seen /\ t = req[w].time
    BY <1>0, ClockFields
<1>2. /\ entry[e] \in EntryRows /\ entry[e].status # "ABSENT"
      /\ req[w].stale = FALSE => seen = entry[e]
      /\ req[w].stale \in BOOLEAN
    BY <1>0, <1>1, ClockFields DEF ClockInv, ReadKept
<1>3. PICK worked \in Nat : worked = calculateWorkedMinutes(seen.in, t, seen.break)
    BY WorkedTyped DEF EntryRows
<1>4. PICK new : new = [entry[e] EXCEPT !.out = t, !.worked = worked, !.status = "CLOCKED_OUT"]
    OBVIOUS
<1>5. /\ new \in EntryRows /\ new.status = "CLOCKED_OUT" /\ new.out = t
      /\ new.worked = worked /\ new.in = entry[e].in /\ new.break = entry[e].break
      /\ new.employee = entry[e].employee
    BY <1>2, <1>4 DEF EntryRows
<1>6. /\ entry' = [entry EXCEPT ![e] = new]
      /\ log' = log /\ now' = now /\ first' = first
      /\ unkept' = IF req[w].stale THEN unkept \cup {e} ELSE unkept
    BY <1>0, <1>1, <1>3, <1>4 DEF ClockOut, Kept
<1>7. /\ unkept \subseteq unkept' /\ unkept' \subseteq unkept \cup {e}
      /\ e \notin unkept' => req[w].stale = FALSE /\ e \notin unkept
    BY <1>2, <1>6
<1>8. /\ \A v \in Workers : ReadKept(req[v])'
      /\ req' \in [Workers -> ClockRequestSet]
      /\ entry' \in [Entries -> EntryRows]
      /\ \A f \in Entries : entry'[f].status # "ABSENT" => entry'[f].employee \in Employees
      /\ \A f, g \in Entries :
           /\ entry'[f].status = "CLOCKED_IN" /\ entry'[g].status = "CLOCKED_IN"
           /\ entry'[f].employee = entry'[g].employee /\ entry'[f].employee \notin unkept'
           => f = g
      /\ \A f \in Entries : entry[f].status # "ABSENT" => entry'[f].status # "ABSENT"
    BY <1>1, <1>5, <1>6, <1>7, WrittenEntry
<1>9. ClockTypeOK'
    <2>1. unkept' \subseteq Entries \cup Employees
        BY <1>0, <1>7 DEF ClockTypeOK
    <2> QED BY <1>0, <1>6, <1>8, <2>1 DEF ClockTypeOK, ClockRequestSet
<1>10. \A i \in DOMAIN log' : entry'[log'[i].entry].status # "ABSENT"
    BY <1>0, <1>6, <1>8, LoggedEntries DEF ClockInv
<1>11. ASSUME NEW f \in Entries \ unkept' PROVE Explained(f)'
    <2>1. CASE f # e
        <3>1. entry'[f] = entry[f] /\ first'[f] = first[f] /\ Explained(f)
            BY <1>0, <1>6, <1>7, <2>1 DEF ClockInv
        <3> QED BY <1>6, <3>1, ExplainedFrame
    <2>2. CASE f = e
        <3>1. seen = entry[e] /\ Explained(e)
            BY <1>2, <1>7, <2>2 DEF ClockInv
        <3>2. entry'[e] = new /\ first'[e] = first[e]
            BY <1>0, <1>6
        <3>3. PICK in, break, b0, i0 : /\ in = entry[e].in /\ break = entry[e].break
                                      /\ i0 = first[e].in /\ b0 = first[e].break
            OBVIOUS
        <3>4. Explains(e, "clockInAt", i0, in) /\ Explains(e, "breakMinutes", b0, break)
            BY <1>2, <3>1, <3>3 DEF Explained
        <3>5. Explains(e, "clockInAt", i0, in)' /\ Explains(e, "breakMinutes", b0, break)'
            BY <1>6, <3>4 DEF Explains, RowsAbout, ValueBefore, LastBefore
        <3>6. t # None
            BY TimeClockAssumption DEF Times
        <3> QED BY <1>3, <1>5, <2>2, <3>1, <3>2, <3>3, <3>5, <3>6 DEF Explained
    <2> QED BY <2>1, <2>2
<1> QED
    BY <1>8, <1>9, <1>10, <1>11 DEF ClockInv

LEMMA CorrectKeeps ==
    ASSUME ClockInv, NEW w \in Workers, Correct(w)
    PROVE  ClockInv'
<1>0. /\ ClockTypeOK /\ entry \in [Entries -> EntryRows]
      /\ req \in [Workers -> ClockRequestSet] /\ log \in Seq(LogRows)
      /\ req[w].at = "correcting"
    BY DEF ClockInv, ClockTypeOK, ClockRequestSet, Correct
<1>1. PICK e \in Entries, seen \in EntryRows, input \in Inputs :
         e = req[w].entry /\ seen = req[w].seen /\ input = req[w].input
    BY <1>0, ClockFields
<1>2. /\ entry[e] \in EntryRows /\ entry[e].status # "ABSENT"
      /\ entry[e].employee \in Employees /\ seen.employee = entry[e].employee
      /\ req[w].stale = FALSE => seen = entry[e]
      /\ req[w].stale \in BOOLEAN
    BY <1>0, <1>1, ClockFields DEF ClockInv, ReadKept
<1>3. PICK new \in EntryRows :
         /\ new = Corrected(seen, input)
         /\ new.employee = seen.employee /\ new.status # "ABSENT"
         /\ new.status = "CLOCKED_IN" <=> new.out = None
         /\ new.in = Updated(input.in, seen.in)
         /\ new.break = Updated(input.break, seen.break)
         /\ new.worked = IF new.out = None THEN None
                         ELSE calculateWorkedMinutes(new.in, new.out, new.break)
    <2>1. Corrected(seen, input) \in EntryRows
        BY CorrectedTyped
    <2> QED BY <2>1, CorrectedTyped
<1>4. PICK rows \in Seq(LogRows) :
         /\ rows = Corrections(e, seen, input)
         /\ \A k \in DOMAIN rows : rows[k].entry = e
         /\ AddsOneRow(rows, e, "clockInAt", seen.in, input.in)
         /\ AddsOneRow(rows, e, "breakMinutes", seen.break, input.break)
    <2>1. Corrections(e, seen, input) \in Seq(LogRows)
        BY CorrectionRows
    <2> QED BY <2>1, CorrectionRows
<1>5. PICK p \in Employees : p = entry[e].employee
    BY <1>2
<1>6. /\ entry' = [entry EXCEPT ![e] = new] /\ log' = log \o rows
      /\ now' = now /\ first' = first
      /\ unkept' = (IF req[w].stale THEN unkept \cup {e} ELSE unkept)
                     \cup (IF new.status = "CLOCKED_IN" /\ entry[e].status = "CLOCKED_OUT"
                             THEN {p} ELSE {})
    BY <1>1, <1>3, <1>4, <1>5 DEF Correct, Kept
<1>7. /\ unkept \subseteq unkept' /\ unkept' \subseteq unkept \cup {e, p}
      /\ e \notin unkept' => req[w].stale = FALSE /\ e \notin unkept
      /\ new.status = "CLOCKED_IN" /\ entry[e].status # "CLOCKED_IN" => p \in unkept'
    <2>1. entry[e].status # "CLOCKED_IN" => entry[e].status = "CLOCKED_OUT"
        BY <1>2 DEF EntryRows
    <2> QED BY <1>2, <1>6, <2>1
<1>8. /\ \A v \in Workers : ReadKept(req[v])'
      /\ req' \in [Workers -> ClockRequestSet]
      /\ entry' \in [Entries -> EntryRows]
      /\ \A f \in Entries : entry'[f].status # "ABSENT" => entry'[f].employee \in Employees
      /\ \A f, g \in Entries :
           /\ entry'[f].status = "CLOCKED_IN" /\ entry'[g].status = "CLOCKED_IN"
           /\ entry'[f].employee = entry'[g].employee /\ entry'[f].employee \notin unkept'
           => f = g
      /\ \A f \in Entries : entry[f].status # "ABSENT" => entry'[f].status # "ABSENT"
    <2>1. /\ new.employee = entry[e].employee
          /\ entry[e].status # "CLOCKED_IN" /\ new.status = "CLOCKED_IN"
               => new.employee \in unkept'
        BY <1>2, <1>3, <1>5, <1>7
    <2> QED BY <1>1, <1>3, <1>6, <1>7, <2>1, WrittenEntry
<1>9. ClockTypeOK'
    <2>1. unkept' \subseteq Entries \cup Employees
        BY <1>0, <1>7 DEF ClockTypeOK
    <2>2. log' \in Seq(LogRows)
        BY <1>0, <1>6, LogGrows
    <2> QED BY <1>0, <1>6, <1>8, <2>1, <2>2 DEF ClockTypeOK, ClockRequestSet
<1>10. ASSUME NEW i \in DOMAIN log' PROVE entry'[log'[i].entry].status # "ABSENT"
    <2>1. CASE i \in DOMAIN log
        <3>1. log'[i] = log[i]
            BY <1>0, <1>6, <2>1, LogGrows
        <3> QED BY <1>0, <1>8, <2>1, <3>1, LoggedEntries DEF ClockInv
    <2>2. CASE i \notin DOMAIN log
        <3>1. log'[i].entry = e
            BY <1>0, <1>4, <1>6, <2>2, LogGrows
        <3>2. entry'[e] = new
            BY <1>0, <1>6
        <3> QED BY <1>3, <3>1, <3>2
    <2> QED BY <2>1, <2>2
<1>11. ASSUME NEW f \in Entries \ unkept' PROVE Explained(f)'
    <2>1. CASE f # e
        <3>1. entry'[f] = entry[f] /\ first'[f] = first[f] /\ Explained(f)
            BY <1>0, <1>6, <1>7, <2>1 DEF ClockInv
        <3>2. \A k \in DOMAIN rows : rows[k].entry # f
            BY <1>4, <2>1
        <3> QED BY <1>0, <1>6, <3>1, <3>2, ExplainedOther
    <2>2. CASE f = e
        <3>1. seen = entry[e] /\ Explained(e)
            BY <1>2, <1>7, <2>2 DEF ClockInv
        <3>2. entry'[e] = new /\ first'[e] = first[e]
            BY <1>0, <1>6
        <3>3. PICK b0, i0 : i0 = first[e].in /\ b0 = first[e].break
            OBVIOUS
        <3>4. /\ Explains(e, "clockInAt", i0, seen.in)
              /\ Explains(e, "breakMinutes", b0, seen.break)
            BY <1>2, <3>1, <3>3 DEF Explained
        <3>5. /\ Explains(e, "clockInAt", i0, Updated(input.in, seen.in))'
              /\ Explains(e, "breakMinutes", b0, Updated(input.break, seen.break))'
            BY <1>0, <1>4, <1>6, <3>4, CorrectionExplains
        <3>6. Explains(e, "clockInAt", i0, new.in)' /\ Explains(e, "breakMinutes", b0, new.break)'
            BY <1>3, <3>5
        <3> QED BY <1>3, <2>2, <3>2, <3>3, <3>6 DEF Explained
    <2> QED BY <2>1, <2>2
<1> QED
    BY <1>8, <1>9, <1>10, <1>11 DEF ClockInv

LEMMA CreateManualKeeps ==
    ASSUME ClockInv, NEW e \in Entries, NEW p \in Employees, NEW in \in Times,
           NEW out \in Times, NEW break \in Breaks, CreateManual(e, p, in, out, break)
    PROVE  ClockInv'
<1>0. /\ ClockTypeOK /\ entry \in [Entries -> EntryRows]
      /\ first \in [Entries -> [in : Times, break : Breaks]]
      /\ req \in [Workers -> ClockRequestSet] /\ log \in Seq(LogRows)
    BY DEF ClockInv, ClockTypeOK, ClockRequestSet
<1>1. PICK new : new = ManualEntry(p, in, out, break)
    OBVIOUS
<1>2. /\ new \in EntryRows /\ new.status = "CLOCKED_OUT" /\ new.employee = p
      /\ new.in = in /\ new.out = out /\ new.break = break
      /\ new.worked = calculateWorkedMinutes(in, out, break) /\ out # None
    <2>1. calculateWorkedMinutes(in, out, break) \in Nat /\ out # None
        BY TimeClockAssumption, WorkedTyped DEF Times
    <2> QED BY <1>1, <2>1 DEF ManualEntry, EntryRows
<1>3. PICK row \in LogRows : row = [entry |-> e, field |-> "MANUAL_ENTRY", original |-> None,
                                    updated |-> in]
    <2>1. in \in Nat
        BY TimeClockAssumption DEF Times
    <2>2. [entry |-> e, field |-> "MANUAL_ENTRY", original |-> None, updated |-> in] \in LogRows
        BY <2>1 DEF LogRows, Fields
    <2> QED BY <2>2
<1>4. /\ entry' = [entry EXCEPT ![e] = new] /\ entry[e].status = "ABSENT"
      /\ entry'[e] = new /\ \A f \in Entries : f # e => entry'[f] = entry[f]
      /\ first' = [first EXCEPT ![e] = [in |-> in, break |-> break]]
      /\ first'[e] = [in |-> in, break |-> break]
      /\ \A f \in Entries : f # e => first'[f] = first[f]
      /\ log' = Append(log, row) /\ UNCHANGED <<now, req, unkept>>
    BY <1>0, <1>1, <1>3 DEF CreateManual
<1>5. PICK rows \in Seq(LogRows) : rows = <<row>> /\ DOMAIN rows = {1} /\ rows[1] = row
    <2>1. <<row>> \in Seq(LogRows) /\ DOMAIN <<row>> = {1} /\ <<row>>[1] = row
        OBVIOUS
    <2> QED BY <2>1
<1>6. log' = log \o rows
    <2>1. Append(log, row) = log \o <<row>>
        BY <1>0, AppendIsConcat
    <2> QED BY <1>4, <1>5, <2>1
<1>7. /\ row.entry = e /\ row.field = "MANUAL_ENTRY"
      /\ \A i \in DOMAIN log : log[i].entry # e
    BY <1>3, <1>4 DEF ClockInv
<1>8. \A v \in Workers : ReadKept(req[v])'
    <2>1. ASSUME NEW v \in Workers, req[v].at \in {"clocking out", "correcting"}
          PROVE  entry'[req[v].entry] = entry[req[v].entry]
        <3>1. req[v].entry \in Entries /\ entry[req[v].entry].status # "ABSENT"
            BY <1>0, <2>1, ClockFields DEF ClockInv, ReadKept
        <3> QED BY <1>4, <3>1
    <2>2. RequestsStay /\ unkept \subseteq unkept'
        BY <1>4 DEF RequestsStay
    <2>3. \A f \in Entries : entry[f].status # "ABSENT" => entry'[f] = entry[f]
        BY <1>4
    <2>4. \A f \in Entries : entry'[f].status = "CLOCKED_IN" => entry'[f] = entry[f]
        BY <1>2, <1>4
    <2> QED BY <2>1, <2>2, <2>3, <2>4, ReadsStayKept
<1>9. ClockTypeOK'
    <2>1. first' \in [Entries -> [in : Times, break : Breaks]]
        BY <1>0, <1>4
    <2>2. entry' \in [Entries -> EntryRows] /\ log' \in Seq(LogRows)
        BY <1>0, <1>2, <1>4, Appended
    <2> QED BY <1>0, <1>4, <2>1, <2>2 DEF ClockTypeOK, ClockRequestSet
<1>10. \A f \in Entries : entry'[f].status # "ABSENT" => entry'[f].employee \in Employees
    BY <1>2, <1>4 DEF ClockInv
<1>11. ASSUME NEW i \in DOMAIN log' PROVE entry'[log'[i].entry].status # "ABSENT"
    <2>1. CASE i \in DOMAIN log
        <3>1. log'[i] = log[i]
            BY <1>0, <1>6, <2>1, LogGrows
        <3> QED BY <1>0, <1>2, <1>4, <2>1, <3>1, LoggedEntries DEF ClockInv
    <2>2. CASE i \notin DOMAIN log
        <3>1. i - Len(log) \in DOMAIN rows /\ log'[i] = rows[i - Len(log)]
            BY <1>0, <1>6, <2>2, LogGrows
        <3>2. log'[i] = row
            BY <1>5, <3>1
        <3> QED BY <1>2, <1>4, <1>7, <3>2
    <2> QED BY <2>1, <2>2
<1>12. \A f, g \in Entries :
          /\ entry'[f].status = "CLOCKED_IN" /\ entry'[g].status = "CLOCKED_IN"
          /\ entry'[f].employee = entry'[g].employee /\ entry'[f].employee \notin unkept'
          => f = g
    BY <1>2, <1>4 DEF ClockInv
<1>13. ASSUME NEW f \in Entries \ unkept' PROVE Explained(f)'
    <2>1. CASE f # e
        <3>1. entry'[f] = entry[f] /\ first'[f] = first[f] /\ Explained(f)
            BY <1>4, <2>1 DEF ClockInv
        <3>2. \A k \in DOMAIN rows : rows[k].entry # f
            BY <1>5, <1>7, <2>1
        <3> QED BY <1>0, <1>6, <3>1, <3>2, ExplainedOther
    <2>2. CASE f = e
        <3>1. \A i \in DOMAIN log' : log'[i].entry = e => log'[i].field = "MANUAL_ENTRY"
            <4> TAKE i \in DOMAIN log'
            <4>1. CASE i \in DOMAIN log
                BY <1>0, <1>6, <1>7, <4>1, LogGrows
            <4>2. CASE i \notin DOMAIN log
                <5>1. i - Len(log) \in DOMAIN rows /\ log'[i] = rows[i - Len(log)]
                    BY <1>0, <1>6, <4>2, LogGrows
                <5> QED BY <1>5, <1>7, <5>1
            <4> QED BY <4>1, <4>2
        <3>2. RowsAbout(e, "clockInAt")' = {} /\ RowsAbout(e, "breakMinutes")' = {}
            BY <3>1 DEF RowsAbout
        <3>3. Explains(e, "clockInAt", in, in)' /\ Explains(e, "breakMinutes", break, break)'
            BY <3>2, NothingToExplain
        <3> QED BY <1>2, <1>4, <2>2, <3>3 DEF Explained
    <2> QED BY <2>1, <2>2
<1> QED
    BY <1>8, <1>9, <1>10, <1>11, <1>12, <1>13 DEF ClockInv

(* A request that begins has just read what it holds.                       *)
LEMMA BeganKeeps ==
    ASSUME ClockInv, NEW w \in Workers, NEW r \in ClockRequestSet, Begin(w, r),
           UNCHANGED <<now, entry, log, first, unkept>>, ReadKept(r)
    PROVE  ClockInv'
<1>1. ClockTypeOK'
    BY DEF ClockInv, ClockTypeOK, ClockRequestSet, Begin
<1>2. ASSUME NEW v \in Workers PROVE ReadKept(req[v])'
    <2>1. req'[v] = IF v = w THEN r ELSE req[v]
        BY DEF Begin, ClockInv, ClockTypeOK
    <2>2. ReadKept(req[v])
        BY DEF ClockInv
    <2> QED BY <2>1, <2>2 DEF ReadKept
<1>3. \A e \in Entries \ unkept' : Explained(e)'
    BY ExplainedFrame DEF ClockInv
<1> QED
    BY <1>1, <1>2, <1>3 DEF ClockInv

LEMMA FoundKeeps ==
    ASSUME ClockInv, NEW w \in Workers,
           \/ \E p \in Employees : FindBeforeClockIn(w, p) \/ FindForClockOut(w, p)
           \/ \E e \in Entries, input \in Inputs : ReadForCorrection(w, e, input)
    PROVE  ClockInv'
<1>0. ClockTypeOK /\ entry \in [Entries -> EntryRows] /\ now \in Times
    BY DEF ClockInv, ClockTypeOK
<1>1. ASSUME NEW p \in Employees, FindBeforeClockIn(w, p) PROVE ClockInv'
    <2>1. PICK r : r = [at |-> "clocking in", employee |-> p, time |-> now, stale |-> FALSE]
        OBVIOUS
    <2>2. /\ r \in ClockRequestSet
          /\ r.at = "clocking in" /\ r.employee = p
        BY <1>0, <2>1 DEF ClockRequestSet, ClockRequests
    <2>3. ReadKept(r)
        BY <1>1, <2>2 DEF FindBeforeClockIn, ClockedOut, OpenEntries, ReadKept
    <2> QED BY <1>1, <2>1, <2>2, <2>3, BeganKeeps DEF FindBeforeClockIn
<1>2. ASSUME NEW p \in Employees, FindForClockOut(w, p) PROVE ClockInv'
    <2>1. PICK e \in Entries :
             /\ entry[e].status = "CLOCKED_IN"
             /\ Begin(w, [at |-> "clocking out", entry |-> e, seen |-> entry[e],
                          time |-> now, stale |-> FALSE])
             /\ UNCHANGED <<now, entry, log, first, unkept>>
        BY <1>2 DEF FindForClockOut, OpenEntries
    <2>2. PICK r : r = [at |-> "clocking out", entry |-> e, seen |-> entry[e],
                        time |-> now, stale |-> FALSE]
        OBVIOUS
    <2>3. /\ r \in ClockRequestSet
          /\ r.at = "clocking out" /\ r.entry = e /\ r.seen = entry[e]
        BY <1>0, <2>2 DEF ClockRequestSet, ClockRequests
    <2>4. ReadKept(r)
        BY <2>1, <2>3 DEF ReadKept
    <2> QED BY <2>1, <2>2, <2>3, <2>4, BeganKeeps
<1>3. ASSUME NEW e \in Entries, NEW input \in Inputs, ReadForCorrection(w, e, input)
      PROVE  ClockInv'
    <2>1. PICK r : r = [at |-> "correcting", entry |-> e, seen |-> entry[e],
                        input |-> input, stale |-> FALSE]
        OBVIOUS
    <2>2. /\ r \in ClockRequestSet
          /\ r.at = "correcting" /\ r.entry = e /\ r.seen = entry[e]
        BY <1>0, <2>1 DEF ClockRequestSet, ClockRequests
    <2>3. ReadKept(r)
        BY <1>3, <2>2 DEF ReadForCorrection, ReadKept
    <2> QED BY <1>3, <2>1, <2>2, <2>3, BeganKeeps DEF ReadForCorrection
<1> QED
    BY <1>1, <1>2, <1>3

LEMMA ClockFrame ==
    ASSUME ClockInv, now' \in Times, UNCHANGED <<entry, log, first, req, unkept>>
    PROVE  ClockInv'
<1>1. ClockTypeOK'
    BY DEF ClockInv, ClockTypeOK
<1>2. \A v \in Workers : ReadKept(req[v])'
    BY DEF ClockInv, ReadKept
<1>3. \A e \in Entries \ unkept' : Explained(e)'
    BY ExplainedFrame DEF ClockInv
<1> QED
    BY <1>1, <1>2, <1>3 DEF ClockInv

LEMMA ClockStepKeeps == ClockInv /\ [ClockNext]_clockVars => ClockInv'
<1> SUFFICES ASSUME ClockInv, [ClockNext]_clockVars PROVE ClockInv'
    OBVIOUS
<1>0. now \in Times
    BY DEF ClockInv, ClockTypeOK
<1>1. CASE UNCHANGED clockVars
    BY <1>0, <1>1, ClockFrame DEF clockVars
<1>2. CASE Tick
    <2>1. now' \in Times
        BY <1>0, <1>2, TimeClockAssumption DEF Tick, Times
    <2> QED BY <1>2, <2>1, ClockFrame DEF Tick
<1>3. CASE \E w \in Workers :
              \/ \E p \in Employees : FindBeforeClockIn(w, p) \/ FindForClockOut(w, p)
              \/ \E e \in Entries, input \in Inputs : ReadForCorrection(w, e, input)
    BY <1>3, FoundKeeps
<1>4. CASE \E w \in Workers : ClockIn(w) \/ ClockOut(w) \/ Correct(w)
    BY <1>4, ClockInKeeps, ClockOutKeeps, CorrectKeeps
<1>5. CASE \E e \in Entries, p \in Employees, in \in Times, out \in Times, break \in Breaks :
              CreateManual(e, p, in, out, break)
    BY <1>5, CreateManualKeeps
<1> QED
    BY <1>1, <1>2, <1>3, <1>4, <1>5 DEF ClockNext

LEMMA ClockInvAlways == ClockSpec => []ClockInv
BY ClockInitInv, ClockStepKeeps, PTL DEF ClockSpec

(* Until clock-ins overlap or a correction opens an entry again, an         *)
(* employee has at most one open entry (time-clock.service.ts).             *)
THEOREM OneEntryIsOpen == ClockSpec => []OneOpenEntry
BY ClockInvAlways, ClockInvHolds, PTL

(* Until requests about it overlap, an entry's minutes are those of its     *)
(* times and break, and its corrections on record, however many, lead from  *)
(* what it was created with to what it says (time-clock.repository.ts).     *)
THEOREM EntriesAreExplained == ClockSpec => []EntryIsExplained
BY ClockInvAlways, ClockInvHolds, PTL
=============================================================================
