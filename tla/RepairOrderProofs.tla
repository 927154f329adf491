-------------------------- MODULE RepairOrderProofs --------------------------
(***************************************************************************)
(* Every number of workers, labor lines and part lines: a repair order is  *)
(* cashiered at most once per release for pickup, and it leaves the table  *)
(* of transitions only when a stale request writes.                        *)
(***************************************************************************)
EXTENDS RepairOrder, TLAPS

(* What a request carries in each phase.                                   *)
RequestOK(r) ==
    /\ r.at \in {"second", "write", "cas"} => r.target \in Statuses
    /\ r.at \in {"start", "complete", "counted", "cancel"} => r.line \in LaborLines
    /\ r.at = "cas" /\ r.target = "CASHIERED" => r.seen = "READY_FOR_PICKUP"

(* An order that waits for its cashier keeps one release unspent.          *)
ReleaseUnspent ==
    payments + (IF status = "READY_FOR_PICKUP" THEN 1 ELSE 0) <= releases

IInv == /\ TypeOK
        /\ \A w \in Workers : RequestOK(req[w])
        /\ ReleaseUnspent

(* The initial state satisfies the invariant: nothing is paid and no        *)
(* request is in flight (createRepairOrderRecord).                          *)
LEMMA InitIInv == Init => IInv
<1> SUFFICES ASSUME Init PROVE IInv
    OBVIOUS
<1>1. TypeOK
    BY RepairOrderAssumption DEF Init, TypeOK, NoLabor, NoPart, Idle, Requests, Phases
<1>2. \A w \in Workers : RequestOK(req[w])
    BY DEF Init, RequestOK, Idle
<1>3. ReleaseUnspent
    BY DEF Init, ReleaseUnspent
<1> QED
    BY <1>1, <1>2, <1>3 DEF IInv

(* Moving one request to a well-formed phase keeps all requests well-formed. *)
LEMMA RequestStep ==
    ASSUME TypeOK, \A v \in Workers : RequestOK(req[v]),
           NEW w \in Workers, NEW r \in Requests, RequestOK(r),
           req' = [req EXCEPT ![w] = r]
    PROVE  /\ req' \in [Workers -> Requests]
           /\ \A v \in Workers : RequestOK(req'[v])
BY DEF TypeOK

LEMMA IdleOK == Idle \in Requests /\ RequestOK(Idle)
BY DEF Idle, Requests, Phases, RequestOK

(* A write of the status keeps a release unspent for a waiting order.       *)
LEMMA SetStatusStep ==
    ASSUME TypeOK, NEW to \in Statuses, SetStatus(to)
    PROVE  /\ status' \in Statuses
           /\ releases' \in Nat
           /\ releases' = releases + (IF status' = "READY_FOR_PICKUP" THEN 1 ELSE 0)
BY DEF TypeOK, SetStatus

(* A step that only moves a request keeps the invariant.                    *)
LEMMA OnlyRequestMoves ==
    ASSUME IInv, NEW w \in Workers, NEW r \in Requests, RequestOK(r),
           req' = [req EXCEPT ![w] = r],
           UNCHANGED <<status, releases, payments, labor, parts>>
    PROVE  IInv'
<1>1. /\ req' \in [Workers -> Requests]
      /\ \A v \in Workers : RequestOK(req'[v])
    BY RequestStep DEF IInv
<1>2. TypeOK'
    BY <1>1 DEF IInv, TypeOK
<1>3. (\A v \in Workers : RequestOK(req[v]))'
    BY <1>1 DEF RequestOK
<1>4. ReleaseUnspent'
    BY DEF IInv, ReleaseUnspent
<1> QED
    BY <1>2, <1>3, <1>4 DEF IInv

LEMMA SecondStep ==
    ASSUME IInv, NEW w \in Workers, NEW from \in Statuses, NEW to \in Statuses,
           CheckThenUpdate(w, from, to)
    PROVE  IInv'
<1> DEFINE r == [at |-> "second", seen |-> from, target |-> to, line |-> None]
<1>1. r \in Requests /\ RequestOK(r)
    BY DEF Requests, Phases, RequestOK
<1> QED
    BY <1>1, OnlyRequestMoves DEF CheckThenUpdate, Go

LEMMA CasStep ==
    ASSUME IInv, NEW w \in Workers, NEW from \in Statuses, NEW to \in Statuses,
           to = "CASHIERED" => from = "READY_FOR_PICKUP",
           CheckThenCas(w, from, to)
    PROVE  IInv'
<1> DEFINE r == [at |-> "cas", seen |-> from, target |-> to, line |-> None]
<1>1. r \in Requests /\ RequestOK(r)
    BY DEF Requests, Phases, RequestOK
<1> QED
    BY <1>1, OnlyRequestMoves DEF CheckThenCas, Go

LEMMA LaborCheckStep ==
    ASSUME IInv, NEW w \in Workers, NEW l \in LaborLines,
           NEW phase \in {"start", "complete", "cancel"}, LaborCheck(w, l, phase)
    PROVE  IInv'
<1> DEFINE r == [at |-> phase, seen |-> status, target |-> "NONE", line |-> l]
<1>1. r \in Requests /\ RequestOK(r)
    BY DEF IInv, TypeOK, Requests, Phases, RequestOK
<1> QED
    BY <1>1, OnlyRequestMoves DEF LaborCheck, Go, SameStatus

(* A step that ends a request and rewrites labor or part rows.              *)
LEMMA RowStep ==
    ASSUME IInv, SameStatus, UNCHANGED payments,
           labor' \in [LaborLines -> [status : LaborStatuses \cup {"ABSENT"},
                                      started : BOOLEAN, completed : BOOLEAN]],
           parts' \in [PartLines -> [status : AllPartStatuses \cup {"ABSENT"},
                                     blocks : BOOLEAN]],
           \/ UNCHANGED req
           \/ \E w \in Workers, r \in Requests :
                  RequestOK(r) /\ req' = [req EXCEPT ![w] = r]
    PROVE  IInv'
<1>1. /\ req' \in [Workers -> Requests]
      /\ \A v \in Workers : RequestOK(req'[v])
    BY RequestStep DEF IInv, TypeOK
<1>2. TypeOK'
    BY <1>1 DEF IInv, TypeOK, SameStatus
<1>3. (\A v \in Workers : RequestOK(req[v]))'
    BY <1>1 DEF RequestOK
<1>4. ReleaseUnspent'
    BY DEF IInv, ReleaseUnspent, SameStatus
<1> QED
    BY <1>2, <1>3, <1>4 DEF IInv

(* The handlers that end in updateRepairOrderStatus and readiness.          *)
LEMMA StatusRequestStep ==
    ASSUME IInv, NEW w \in Workers, StatusRequest(w)
    PROVE  IInv'
<1>0. TypeOK /\ RequestOK(req[w]) /\ status \in Statuses /\ req[w] \in Requests
    BY DEF IInv, TypeOK
<1>1. CASE \/ BeginQualityCheck(w) \/ PassQualityCheck(w) \/ FailQualityCheck(w)
           \/ Close(w) \/ RequestApproval(w) \/ DeclineApproval(w)
           \/ PauseWork(w) \/ ResumeWork(w) \/ CompletePartsReview(w)
    <2>1. PICK from \in Statuses, to \in Statuses : CheckThenUpdate(w, from, to)
        BY <1>1 DEF BeginQualityCheck, PassQualityCheck, FailQualityCheck, Close,
               RequestApproval, DeclineApproval, PauseWork, ResumeWork,
               CompletePartsReview, Statuses
    <2> QED BY <2>1, SecondStep
<1>2. CASE PostStatus(w)
    <2>1. PICK to \in Transitions[status] : Go(w, "write", status, to, None)
        BY <1>2 DEF PostStatus
    <2>2. to \in Statuses
        BY <1>0 DEF Transitions, Statuses
    <2> DEFINE r == [at |-> "write", seen |-> status, target |-> to, line |-> None]
    <2>3. r \in Requests /\ RequestOK(r)
        BY <1>0, <2>2 DEF Requests, Phases, RequestOK
    <2> QED BY <1>2, <2>1, <2>3, OnlyRequestMoves DEF PostStatus, Go
<1>3. CASE UpdateStatusCheck(w)
    <2> DEFINE r == [at |-> "write", seen |-> status, target |-> req[w].target,
                     line |-> None]
    <2>1. r \in Requests /\ RequestOK(r)
        BY <1>0, <1>3 DEF UpdateStatusCheck, Requests, Phases, RequestOK
    <2> QED
        BY <1>3, <2>1, IdleOK, OnlyRequestMoves DEF UpdateStatusCheck, Go, Finish
<1>4. CASE UpdateStatusWrite(w)
    <2>1. req[w].target \in Statuses
        BY <1>0, <1>4 DEF UpdateStatusWrite, RequestOK
    <2>2. /\ status' \in Statuses
          /\ releases' \in Nat
          /\ releases' = releases + (IF status' = "READY_FOR_PICKUP" THEN 1 ELSE 0)
        BY <1>0, <1>4, <2>1, SetStatusStep DEF UpdateStatusWrite
    <2>3. /\ req' \in [Workers -> Requests]
          /\ \A v \in Workers : RequestOK(req'[v])
        BY <1>4, IdleOK, RequestStep DEF UpdateStatusWrite, Finish, IInv
    <2>4. TypeOK'
        BY <1>4, <2>2, <2>3 DEF UpdateStatusWrite, IInv, TypeOK
    <2>5. (\A v \in Workers : RequestOK(req[v]))'
        BY <2>3 DEF RequestOK
    <2>6. ReleaseUnspent'
        BY <1>4, <2>2 DEF UpdateStatusWrite, IInv, TypeOK, ReleaseUnspent
    <2> QED BY <2>4, <2>5, <2>6 DEF IInv
<1>5. CASE EvaluateReadiness(w)
    <2> DEFINE r == [at |-> "write", seen |-> status, target |-> "READY_TO_WORK",
                     line |-> None]
    <2>1. r \in Requests /\ RequestOK(r)
        BY <1>0 DEF Requests, Phases, RequestOK, Statuses
    <2> QED
        BY <1>5, <2>1, IdleOK, OnlyRequestMoves DEF EvaluateReadiness, Go, Finish
<1> QED
    BY <1>1, <1>2, <1>3, <1>4, <1>5 DEF StatusRequest

(* The handlers whose transaction claims the transition.                    *)
LEMMA ClaimRequestStep ==
    ASSUME IInv, NEW w \in Workers, ClaimRequest(w)
    PROVE  IInv'
<1>0. TypeOK /\ RequestOK(req[w]) /\ status \in Statuses /\ req[w] \in Requests
    BY DEF IInv, TypeOK
<1>1. CASE \/ Approve(w) \/ Cashier(w) \/ Pickup(w)
           \/ RequestAdditionalApproval(w) \/ ApproveAdditional(w) \/ DeclineAdditional(w)
           \/ SendToPartsReview(w) \/ Reopen(w) \/ ScheduleOrder(w) \/ CancelSchedule(w)
    <2>1. PICK from \in Statuses, to \in Statuses :
             /\ CheckThenCas(w, from, to)
             /\ to = "CASHIERED" => from = "READY_FOR_PICKUP"
        BY <1>0, <1>1 DEF Approve, Cashier, Pickup, RequestAdditionalApproval,
               ApproveAdditional, DeclineAdditional, SendToPartsReview, Reopen,
               ScheduleOrder, CancelSchedule, Statuses
    <2> QED BY <2>1, CasStep
<1>2. CASE CashierRecord(w) \/ ClaimRecord(w)
    <2>1. PICK from \in Statuses \cup {"NONE"}, to \in Statuses :
             /\ Claim(w, from, to)
             /\ \/ to # "CASHIERED" /\ UNCHANGED payments
                \/ to = "CASHIERED" /\ payments' = payments + 1
        <3>1. req[w].seen \in Statuses \cup {"NONE"}
            BY <1>0 DEF Requests
        <3> QED
            BY <1>2, <3>1 DEF CashierRecord, ClaimRecord, ApproveRecord, PickupRecord,
               RequestAdditionalRecord, ApproveAdditionalRecord,
               DeclineAdditionalRecord, SendToPartsReviewRecord, ReopenRecord,
               ScheduleRecord, CancelScheduleRecord, Statuses
    <2>2. /\ status' = to /\ status' \in Statuses
          /\ releases' \in Nat
          /\ releases' = releases + (IF status' = "READY_FOR_PICKUP" THEN 1 ELSE 0)
        BY <1>0, <2>1, SetStatusStep DEF Claim, SetStatus
    <2>3. /\ req' \in [Workers -> Requests]
          /\ \A v \in Workers : RequestOK(req'[v])
        BY <2>1, IdleOK, RequestStep DEF Claim, Finish, IInv
    <2>4. payments' \in Nat
        BY <1>0, <2>1 DEF TypeOK
    <2>5. TypeOK'
        BY <2>1, <2>2, <2>3, <2>4 DEF Claim, IInv, TypeOK
    <2>6. (\A v \in Workers : RequestOK(req[v]))'
        BY <2>3 DEF RequestOK
    <2>7. to = "CASHIERED" => status = "READY_FOR_PICKUP"
        BY <1>0, <2>1 DEF Claim, CasApplies, RequestOK
    <2>8. ReleaseUnspent'
        BY <1>0, <2>1, <2>2, <2>7 DEF IInv, TypeOK, ReleaseUnspent
    <2> QED BY <2>5, <2>6, <2>8 DEF IInv
<1>3. CASE CasRefused(w)
    BY <1>3, IdleOK, OnlyRequestMoves DEF CasRefused, Finish
<1> QED
    BY <1>1, <1>2, <1>3 DEF ClaimRequest

(* Starting, completing and cancelling labor.                               *)
LEMMA LaborRequestStep ==
    ASSUME IInv, NEW w \in Workers, LaborRequest(w)
    PROVE  IInv'
<1>0. /\ TypeOK /\ RequestOK(req[w]) /\ req[w] \in Requests
      /\ status \in Statuses /\ releases \in Nat /\ payments \in Nat
      /\ parts \in [PartLines -> [status : AllPartStatuses \cup {"ABSENT"},
                                   blocks : BOOLEAN]]
    BY DEF IInv, TypeOK
<1>1. CASE \E l \in LaborLines : StartLabor(w, l) \/ CompleteLabor(w, l) \/ CancelLabor(w, l)
    BY <1>1, LaborCheckStep DEF StartLabor, CompleteLabor, CancelLabor
<1>2. CASE StartLaborWrite(w)
    <2>1. labor' \in [LaborLines -> [status : LaborStatuses \cup {"ABSENT"},
                                     started : BOOLEAN, completed : BOOLEAN]]
        BY <1>0, <1>2 DEF StartLaborWrite, TypeOK, LaborStatuses
    <2>2. CASE req[w].seen \in {"READY_TO_WORK", "SCHEDULED"}
        <3>1. /\ status' = "IN_PROGRESS" /\ status' \in Statuses
              /\ releases' = releases
            BY <1>0, <1>2, <2>2 DEF StartLaborWrite, SetStatus, Statuses
        <3>2. /\ req' \in [Workers -> Requests]
              /\ \A v \in Workers : RequestOK(req'[v])
            BY <1>2, IdleOK, RequestStep DEF StartLaborWrite, Finish, IInv
        <3>3. TypeOK'
            BY <1>0, <1>2, <2>1, <3>1, <3>2 DEF StartLaborWrite, TypeOK
        <3>4. (\A v \in Workers : RequestOK(req[v]))'
            BY <3>2 DEF RequestOK
        <3>5. ReleaseUnspent'
            BY <1>0, <1>2, <3>1 DEF StartLaborWrite, IInv, ReleaseUnspent
        <3> QED BY <3>3, <3>4, <3>5 DEF IInv
    <2>3. CASE req[w].seen \notin {"READY_TO_WORK", "SCHEDULED"}
        BY <1>0, <1>2, <2>1, <2>3, IdleOK, RowStep DEF StartLaborWrite, Finish
    <2> QED BY <2>2, <2>3
<1>3. CASE CompleteLaborCount(w)
    <2> DEFINE t == IF Incomplete \ {req[w].line} = {} THEN "WORK_COMPLETE" ELSE "NONE"
               r == [at |-> "counted", seen |-> req[w].seen, target |-> t,
                     line |-> req[w].line]
    <2>1. r \in Requests /\ RequestOK(r)
        BY <1>0, <1>3 DEF CompleteLaborCount, Requests, Phases, RequestOK, Statuses
    <2> QED
        BY <1>3, <2>1, OnlyRequestMoves DEF CompleteLaborCount, Go, SameStatus
<1>4. CASE CompleteLaborCommit(w)
    <2>1. labor' \in [LaborLines -> [status : LaborStatuses \cup {"ABSENT"},
                                     started : BOOLEAN, completed : BOOLEAN]]
        BY <1>0, <1>4 DEF CompleteLaborCommit, TypeOK, LaborStatuses
    <2>2. /\ status' \in {status, "WORK_COMPLETE"} /\ status' \in Statuses
          /\ releases' = releases
        BY <1>0, <1>4 DEF CompleteLaborCommit, SameStatus, Statuses
    <2>3. /\ req' \in [Workers -> Requests]
          /\ \A v \in Workers : RequestOK(req'[v])
        BY <1>4, IdleOK, RequestStep DEF CompleteLaborCommit, Finish, IInv
    <2>4. TypeOK'
        BY <1>0, <1>4, <2>1, <2>2, <2>3 DEF CompleteLaborCommit, TypeOK
    <2>5. (\A v \in Workers : RequestOK(req[v]))'
        BY <2>3 DEF RequestOK
    <2>6. ReleaseUnspent'
        BY <1>0, <1>4, <2>2 DEF CompleteLaborCommit, IInv, ReleaseUnspent
    <2> QED BY <2>4, <2>5, <2>6 DEF IInv
<1>5. CASE CancelLaborWrite(w)
    <2>1. labor' \in [LaborLines -> [status : LaborStatuses \cup {"ABSENT"},
                                     started : BOOLEAN, completed : BOOLEAN]]
        <3> DEFINE l == req[w].line
                   cancelled == [labor EXCEPT ![l].status = "CANCELLED"]
        <3>1. labor' \in {labor, cancelled}
            BY <1>5 DEF CancelLaborWrite
        <3>2. cancelled \in [LaborLines -> [status : LaborStatuses \cup {"ABSENT"},
                                           started : BOOLEAN, completed : BOOLEAN]]
            BY <1>0 DEF TypeOK, LaborStatuses
        <3> HIDE DEF cancelled
        <3> QED BY <1>0, <3>1, <3>2 DEF TypeOK
    <2> QED
        BY <1>0, <1>5, <2>1, IdleOK, RowStep DEF CancelLaborWrite, Finish
<1>6. CASE LaborGone(w)
    BY <1>6, IdleOK, OnlyRequestMoves DEF LaborGone, Finish, SameStatus
<1> QED
    BY <1>1, <1>2, <1>3, <1>4, <1>5, <1>6 DEF LaborRequest

(* Labor and part lines added, edited, deleted, cancelled or worked on.     *)
LEMMA LineRequestStep ==
    ASSUME IInv, LineRequest
    PROVE  IInv'
<1>0. /\ TypeOK
      /\ labor \in [LaborLines -> [status : LaborStatuses \cup {"ABSENT"},
                                    started : BOOLEAN, completed : BOOLEAN]]
      /\ parts \in [PartLines -> [status : AllPartStatuses \cup {"ABSENT"},
                                   blocks : BOOLEAN]]
    BY DEF IInv, TypeOK
<1>1. ASSUME NEW l \in LaborLines, AddLabor(l) \/ PatchLabor(l) \/ DeleteLabor(l)
      PROVE  IInv'
    <2>1. labor' \in [LaborLines -> [status : LaborStatuses \cup {"ABSENT"},
                                     started : BOOLEAN, completed : BOOLEAN]]
        <3>1. CASE AddLabor(l)
            <4>1. PICK done \in BOOLEAN :
                     labor' = [labor EXCEPT ![l] = [status |-> "PROPOSED",
                                  started |-> FALSE, completed |-> done]]
                BY <3>1 DEF AddLabor
            <4> QED BY <1>0, <4>1 DEF LaborStatuses
        <3>2. CASE PatchLabor(l)
            <4>1. PICK done \in BOOLEAN : labor' = [labor EXCEPT ![l].completed = done]
                BY <3>2 DEF PatchLabor
            <4> QED BY <1>0, <4>1
        <3>3. CASE DeleteLabor(l)
            BY <1>0, <3>3 DEF DeleteLabor, NoLabor
        <3> QED BY <1>1, <3>1, <3>2, <3>3
    <2> QED
        BY <1>0, <1>1, <2>1, RowStep DEF AddLabor, PatchLabor, DeleteLabor
<1>2. ASSUME NEW p \in PartLines,
             AddPart(p) \/ PatchPart(p) \/ DeletePart(p) \/ CancelPart(p) \/ LineWrite(p)
      PROVE  IInv'
    <2>1. parts' \in [PartLines -> [status : AllPartStatuses \cup {"ABSENT"},
                                    blocks : BOOLEAN]]
        <3>1. CASE AddPart(p)
            <4>1. PICK s \in PartStatuses, b \in BOOLEAN :
                     parts' = [parts EXCEPT ![p] = [status |-> s, blocks |-> b]]
                BY <3>1 DEF AddPart
            <4> QED BY <1>0, <4>1, RepairOrderAssumption
        <3>2. CASE PatchPart(p)
            <4>1. PICK b \in BOOLEAN : parts' = [parts EXCEPT ![p].blocks = b]
                BY <3>2 DEF PatchPart
            <4> QED BY <1>0, <4>1
        <3>3. CASE DeletePart(p)
            BY <1>0, <3>3 DEF DeletePart, NoPart
        <3>4. CASE CancelPart(p)
            BY <1>0, <3>4 DEF CancelPart, AllPartStatuses
        <3>5. CASE LineWrite(p)
            <4>1. PICK s \in PartStatuses : parts' = [parts EXCEPT ![p].status = s]
                BY <3>5 DEF LineWrite
            <4> QED BY <1>0, <4>1, RepairOrderAssumption
        <3> QED BY <1>2, <3>1, <3>2, <3>3, <3>4, <3>5
    <2> QED
        BY <1>0, <1>2, <2>1, RowStep DEF AddPart, PatchPart, DeletePart, CancelPart, LineWrite
<1>3. ASSUME NEW p \in PartLines, NEW w \in Workers, LineWriteThenReadiness(w, p)
      PROVE  IInv'
    <2> DEFINE r == [at |-> "readiness", seen |-> "NONE", target |-> "NONE", line |-> None]
    <2>1. r \in Requests /\ RequestOK(r)
        BY DEF Requests, Phases, RequestOK
    <2>2. parts' \in [PartLines -> [status : AllPartStatuses \cup {"ABSENT"},
                                    blocks : BOOLEAN]]
        <3>1. PICK s \in AllPartStatuses \cup {"ABSENT"} :
                 parts' = [parts EXCEPT ![p].status = s]
            BY <1>0, <1>3, RepairOrderAssumption DEF LineWriteThenReadiness
        <3> QED BY <1>0, <3>1
    <2> QED
        BY <1>0, <1>3, <2>1, <2>2, RowStep DEF LineWriteThenReadiness, Go
<1> QED
    BY <1>1, <1>2, <1>3 DEF LineRequest

(* The invariant is inductive.                                              *)
LEMMA StepIInv == IInv /\ [Next]_vars => IInv'
<1> SUFFICES ASSUME IInv, [Next]_vars PROVE IInv'
    OBVIOUS
<1>1. CASE UNCHANGED vars
    BY <1>1 DEF vars, IInv, TypeOK, RequestOK, ReleaseUnspent
<1>2. CASE Next
    BY <1>2, StatusRequestStep, ClaimRequestStep, LaborRequestStep, LineRequestStep DEF Next
<1> QED
    BY <1>1, <1>2

(* Types are kept by every handler, whatever requests overlap.              *)
THEOREM TypeCorrect == Spec => []TypeOK
<1>1. IInv => TypeOK
    BY DEF IInv
<1> QED
    BY <1>1, InitIInv, StepIInv, PTL DEF Spec

(* A repair order is cashiered at most once for each release for pickup     *)
(* (cashierRepairOrderRecord claims READY_FOR_PICKUP in its updateMany).    *)
THEOREM CashieredOncePerRelease == Spec => []PaidPerRelease
<1>1. IInv => PaidPerRelease
    BY DEF IInv, TypeOK, ReleaseUnspent, PaidPerRelease
<1> QED
    BY <1>1, InitIInv, StepIInv, PTL DEF Spec

-----------------------------------------------------------------------------
(* A request that is about to write carries an edge of the life cycle from  *)
(* the status it has read.                                                  *)
Edge(from, to) == to \in Transitions[from] \/ <<from, to>> \in OwnMoves

CarriesEdge(r) ==
    /\ r.at = "write" => r.seen \in Statuses /\ r.target \in Transitions[r.seen]
    /\ r.at = "start" => r.seen \in {"READY_TO_WORK", "SCHEDULED", "IN_PROGRESS"}
    /\ r.at = "cas" => r.seen \in Statuses /\ Edge(r.seen, r.target)

EdgeInv == IInv /\ \A w \in Workers : CarriesEdge(req[w])

LEMMA InitEdgeInv == Init => EdgeInv
BY InitIInv DEF Init, EdgeInv, CarriesEdge, Idle

LEMMA IdleCarries == CarriesEdge(Idle)
BY DEF Idle, CarriesEdge

(* What the handlers check before their transaction claims the transition.  *)
LEMMA ClaimedEdges ==
    ASSUME NEW w \in Workers, status \in Statuses,
           \/ Approve(w) \/ Cashier(w) \/ Pickup(w)
           \/ RequestAdditionalApproval(w) \/ ApproveAdditional(w) \/ DeclineAdditional(w)
           \/ SendToPartsReview(w) \/ Reopen(w) \/ ScheduleOrder(w) \/ CancelSchedule(w)
    PROVE  \E from \in Statuses, to \in Statuses : CheckThenCas(w, from, to) /\ Edge(from, to)
<1>1. CASE Reopen(w)
    <2>1. <<status, "IN_PROGRESS">> \in OwnMoves
        BY <1>1 DEF Reopen, OwnMoves
    <2>2. CheckThenCas(w, status, "IN_PROGRESS")
        BY <1>1 DEF Reopen
    <2> QED
        BY <2>1, <2>2 DEF Edge, Statuses
<1>2. CASE ApproveAdditional(w)
    <2>1. PICK to \in {"PARTS_REVIEW", "IN_PROGRESS"} :
             CheckThenCas(w, "WAITING_ON_ADDITIONAL_APPROVAL", to)
        BY <1>2 DEF ApproveAdditional
    <2>2. Edge("WAITING_ON_ADDITIONAL_APPROVAL", to)
        BY DEF Edge, Transitions, OwnMoves
    <2> QED
        BY <2>1, <2>2 DEF Statuses
<1>3. CASE Approve(w)
    <2>1. CheckThenCas(w, "AWAITING_CUSTOMER_APPROVAL", "PARTS_REVIEW")
        BY <1>3 DEF Approve
    <2>2. Edge("AWAITING_CUSTOMER_APPROVAL", "PARTS_REVIEW")
        BY DEF Edge, OwnMoves
    <2> QED
        BY <2>1, <2>2 DEF Statuses
<1>4. CASE SendToPartsReview(w)
    <2>1. CheckThenCas(w, "IN_PROGRESS", "PARTS_REVIEW")
        BY <1>4 DEF SendToPartsReview
    <2>2. Edge("IN_PROGRESS", "PARTS_REVIEW")
        BY DEF Edge, OwnMoves
    <2> QED
        BY <2>1, <2>2 DEF Statuses
<1>5. CASE \/ Cashier(w) \/ Pickup(w) \/ RequestAdditionalApproval(w)
           \/ DeclineAdditional(w) \/ ScheduleOrder(w) \/ CancelSchedule(w)
    BY <1>5 DEF Cashier, Pickup, RequestAdditionalApproval, DeclineAdditional,
           ScheduleOrder, CancelSchedule, Edge, Transitions, Statuses
<1> QED
    BY <1>1, <1>2, <1>3, <1>4, <1>5

(* Every request a step moves ends up idle or with an edge to write.        *)
LEMMA RequestsCarryEdges ==
    ASSUME EdgeInv, Next
    PROVE  \/ UNCHANGED req
           \/ \E w \in Workers, r \in Requests :
                 CarriesEdge(r) /\ req' = [req EXCEPT ![w] = r]
<1> DEFINE Goal == \E w \in Workers, r \in Requests :
                      CarriesEdge(r) /\ req' = [req EXCEPT ![w] = r]
<1>0. TypeOK /\ status \in Statuses
    BY DEF EdgeInv, IInv, TypeOK
<1>1. ASSUME NEW w \in Workers, Finish(w)
      PROVE  Goal
    BY <1>1, IdleOK, IdleCarries DEF Finish
<1>2. ASSUME NEW w \in Workers, NEW phase \in Phases \ {"write", "start", "cas"},
             NEW seen \in Statuses \cup {"NONE"}, NEW target \in Statuses \cup {"NONE"},
             NEW line \in LaborLines \cup {None}, Go(w, phase, seen, target, line)
      PROVE  Goal
    <2> DEFINE r == [at |-> phase, seen |-> seen, target |-> target, line |-> line]
    <2>1. r \in Requests /\ CarriesEdge(r)
        BY DEF Requests, CarriesEdge
    <2> QED BY <1>2, <2>1 DEF Go
<1>3. ASSUME NEW w \in Workers, NEW from \in Statuses, NEW to \in Transitions[from],
             Go(w, "write", from, to, None)
      PROVE  Goal
    <2> DEFINE r == [at |-> "write", seen |-> from, target |-> to, line |-> None]
    <2>1. to \in Statuses
        BY DEF Transitions, Statuses
    <2>2. r \in Requests /\ CarriesEdge(r)
        BY <2>1 DEF Requests, Phases, CarriesEdge
    <2> QED BY <1>3, <2>2 DEF Go
<1> HIDE DEF Goal
<1>4. ASSUME NEW w \in Workers, StatusRequest(w)
      PROVE  Goal
    <2>1. CASE \/ BeginQualityCheck(w) \/ PassQualityCheck(w) \/ FailQualityCheck(w)
               \/ Close(w) \/ RequestApproval(w) \/ DeclineApproval(w)
               \/ PauseWork(w) \/ ResumeWork(w) \/ CompletePartsReview(w)
        <3>1. PICK from \in Statuses, to \in Statuses : Go(w, "second", from, to, None)
            BY <2>1 DEF BeginQualityCheck, PassQualityCheck, FailQualityCheck, Close,
                   RequestApproval, DeclineApproval, PauseWork, ResumeWork,
                   CompletePartsReview, CheckThenUpdate, Statuses
        <3> QED BY <3>1, <1>2 DEF Phases
    <2>2. CASE PostStatus(w) \/ EvaluateReadiness(w)
        BY <1>0, <1>1, <1>3, <2>2 DEF PostStatus, EvaluateReadiness, Transitions
    <2>3. CASE UpdateStatusCheck(w)
        BY <1>0, <1>1, <1>3, <2>3 DEF UpdateStatusCheck
    <2>4. CASE UpdateStatusWrite(w)
        BY <1>1, <2>4 DEF UpdateStatusWrite
    <2> QED BY <1>4, <2>1, <2>2, <2>3, <2>4 DEF StatusRequest
<1>5. ASSUME NEW w \in Workers, ClaimRequest(w)
      PROVE  Goal
    <2>1. CASE \/ Approve(w) \/ Cashier(w) \/ Pickup(w)
               \/ RequestAdditionalApproval(w) \/ ApproveAdditional(w) \/ DeclineAdditional(w)
               \/ SendToPartsReview(w) \/ Reopen(w) \/ ScheduleOrder(w) \/ CancelSchedule(w)
        <3>1. PICK from \in Statuses, to \in Statuses :
                 CheckThenCas(w, from, to) /\ Edge(from, to)
            BY <1>0, <2>1, ClaimedEdges
        <3> DEFINE r == [at |-> "cas", seen |-> from, target |-> to, line |-> None]
        <3>2. r \in Requests /\ CarriesEdge(r)
            BY <3>1 DEF Requests, Phases, CarriesEdge
        <3> QED BY <3>1, <3>2 DEF CheckThenCas, Go, Goal
    <2>2. CASE CashierRecord(w) \/ ClaimRecord(w) \/ CasRefused(w)
        <3>1. Finish(w)
            BY <2>2 DEF CashierRecord, ClaimRecord, ApproveRecord, PickupRecord,
               RequestAdditionalRecord, ApproveAdditionalRecord,
               DeclineAdditionalRecord, SendToPartsReviewRecord, ReopenRecord,
               ScheduleRecord, CancelScheduleRecord, Claim, CasRefused
        <3> QED BY <3>1, <1>1
    <2> QED BY <1>5, <2>1, <2>2 DEF ClaimRequest
<1>6. ASSUME NEW w \in Workers, LaborRequest(w)
      PROVE  Goal
    <2>0. req[w] \in Requests /\ RequestOK(req[w])
        BY DEF EdgeInv, IInv, TypeOK
    <2>1. CASE \E l \in LaborLines : StartLabor(w, l)
        <3>1. PICK l \in LaborLines : StartLabor(w, l)
            BY <2>1
        <3> DEFINE r == [at |-> "start", seen |-> status, target |-> "NONE", line |-> l]
        <3>2. r \in Requests /\ CarriesEdge(r)
            BY <1>0, <3>1 DEF StartLabor, Requests, Phases, CarriesEdge
        <3> QED BY <3>1, <3>2 DEF StartLabor, LaborCheck, Go, Goal
    <2>2. CASE \E l \in LaborLines : CompleteLabor(w, l) \/ CancelLabor(w, l)
        <3>1. PICK l \in LaborLines, phase \in {"complete", "cancel"} :
                 Go(w, phase, status, "NONE", l)
            BY <2>2 DEF CompleteLabor, CancelLabor, LaborCheck
        <3> QED BY <1>0, <1>2, <3>1 DEF Phases
    <2>3. CASE CompleteLaborCount(w)
        <3>1. PICK t \in {"WORK_COMPLETE", "NONE"} :
                 Go(w, "counted", req[w].seen, t, req[w].line)
            BY <2>3 DEF CompleteLaborCount
        <3>2. req[w].line \in LaborLines /\ req[w].seen \in Statuses \cup {"NONE"}
            BY <2>0, <2>3 DEF CompleteLaborCount, RequestOK, Requests
        <3> QED BY <1>2, <3>1, <3>2 DEF Phases, Statuses
    <2>4. CASE StartLaborWrite(w) \/ CompleteLaborCommit(w) \/ CancelLaborWrite(w) \/ LaborGone(w)
        BY <1>1, <2>4 DEF StartLaborWrite, CompleteLaborCommit, CancelLaborWrite, LaborGone
    <2> QED BY <1>6, <2>1, <2>2, <2>3, <2>4 DEF LaborRequest
<1>7. CASE LineRequest
    <2>1. CASE \/ \E l \in LaborLines : AddLabor(l) \/ PatchLabor(l) \/ DeleteLabor(l)
               \/ \E p \in PartLines : \/ AddPart(p) \/ PatchPart(p) \/ DeletePart(p)
                                       \/ CancelPart(p) \/ LineWrite(p)
        BY <2>1 DEF AddLabor, PatchLabor, DeleteLabor, AddPart, PatchPart, DeletePart,
               CancelPart, LineWrite
    <2>2. CASE \E p \in PartLines, w \in Workers : LineWriteThenReadiness(w, p)
        <3>1. PICK w \in Workers : Go(w, "readiness", "NONE", "NONE", None)
            BY <2>2 DEF LineWriteThenReadiness
        <3> QED BY <1>2, <3>1 DEF Phases, Goal
    <2> QED BY <1>7, <2>1, <2>2 DEF LineRequest
<1> QED
    BY <1>4, <1>5, <1>6, <1>7 DEF Next, Goal

LEMMA StepEdgeInv == EdgeInv /\ [Next]_vars => EdgeInv'
<1> SUFFICES ASSUME EdgeInv, [Next]_vars PROVE EdgeInv'
    OBVIOUS
<1>1. IInv'
    BY StepIInv DEF EdgeInv
<1>2. (\A w \in Workers : CarriesEdge(req[w]))'
    <2>1. CASE UNCHANGED req
        BY <2>1 DEF EdgeInv, CarriesEdge
    <2>2. CASE \E w \in Workers, r \in Requests :
                 CarriesEdge(r) /\ req' = [req EXCEPT ![w] = r]
        <3>1. \A v \in Workers : CarriesEdge(req'[v])
            BY <2>2 DEF EdgeInv, IInv, TypeOK
        <3> QED BY <3>1 DEF CarriesEdge
    <2> QED BY <2>1, <2>2, RequestsCarryEdges DEF vars
<1> QED
    BY <1>1, <1>2 DEF EdgeInv

(* What each handler does to the status itself.                             *)
LEMMA StatusMoves ==
    ASSUME EdgeInv, Next, status' # status
    PROVE  \/ status' \in Transitions[status]
           \/ <<status, status'>> \in OwnMoves
           \/ StaleWriter
<1>0. TypeOK /\ status \in Statuses
    BY DEF EdgeInv, IInv, TypeOK
<1>1. ASSUME NEW w \in Workers, StatusRequest(w)
      PROVE  status' \in Transitions[status] \/ StaleWriter
    <2>1. UpdateStatusWrite(w)
        BY <1>1 DEF StatusRequest, BeginQualityCheck, PassQualityCheck,
           FailQualityCheck, Close, RequestApproval, DeclineApproval, PauseWork,
           ResumeWork, CompletePartsReview, CheckThenUpdate, PostStatus,
           UpdateStatusCheck, EvaluateReadiness
    <2>2. req[w].at = "write" /\ status' = req[w].target
        BY <2>1 DEF UpdateStatusWrite, SetStatus
    <2>3. req[w].target \in Transitions[req[w].seen]
        BY <2>2 DEF EdgeInv, CarriesEdge
    <2> QED BY <2>2, <2>3 DEF StaleWriter
<1>2. ASSUME NEW w \in Workers, ClaimRequest(w)
      PROVE  Edge(status, status')
    <2>1. CashierRecord(w) \/ ClaimRecord(w)
        BY <1>2 DEF ClaimRequest, Approve, Cashier, Pickup, RequestAdditionalApproval,
           ApproveAdditional, DeclineAdditional, SendToPartsReview, Reopen,
           ScheduleOrder, CancelSchedule, CheckThenCas, CasRefused
    <2>2. PICK from, to : Claim(w, from, to)
        BY <2>1 DEF CashierRecord, ClaimRecord, ApproveRecord, PickupRecord,
           RequestAdditionalRecord, ApproveAdditionalRecord,
           DeclineAdditionalRecord, SendToPartsReviewRecord, ReopenRecord,
           ScheduleRecord, CancelScheduleRecord
    <2>3. req[w].at = "cas" /\ status = req[w].seen /\ status' = req[w].target
        BY <2>2 DEF Claim, CasApplies, SetStatus
    <2> QED BY <2>3 DEF EdgeInv, CarriesEdge
<1>3. ASSUME NEW w \in Workers, LaborRequest(w)
      PROVE  status' \in Transitions[status] \/ StaleWriter
    <2>1. StartLaborWrite(w) \/ CompleteLaborCommit(w)
        BY <1>3 DEF LaborRequest, StartLabor, CompleteLabor, CancelLabor, LaborCheck,
           CompleteLaborCount, CancelLaborWrite, LaborGone, SameStatus
    <2>2. CASE StartLaborWrite(w)
        <3>1. /\ req[w].at = "start" /\ status' = "IN_PROGRESS"
              /\ req[w].seen \in {"READY_TO_WORK", "SCHEDULED"}
            BY <2>2 DEF StartLaborWrite, SetStatus, SameStatus
        <3> QED BY <3>1 DEF StaleWriter, Transitions
    <2>3. CASE CompleteLaborCommit(w)
        <3>1. status = "IN_PROGRESS" /\ status' = "WORK_COMPLETE"
            BY <2>3 DEF CompleteLaborCommit, SameStatus
        <3> QED BY <3>1 DEF Transitions
    <2> QED BY <2>1, <2>2, <2>3
<1>4. CASE LineRequest
    BY <1>4 DEF LineRequest, AddLabor, PatchLabor, DeleteLabor, AddPart, PatchPart,
       DeletePart, CancelPart, LineWrite, LineWriteThenReadiness, SameStatus
<1> QED
    BY <1>1, <1>2, <1>3, <1>4 DEF Next, Edge

(* The order leaves REPAIR_ORDER_STATUS_TRANSITIONS and the handlers' own   *)
(* moves only when a transaction that does not compare the status writes    *)
(* over a change made since its service read it (updateRepairOrderStatus,   *)
(* startRepairOrderLaborRecord).                                            *)
THEOREM LeavesTheTableOnlyByStaleWrite == Spec => OnlyStaleWritesLeaveTheTable
<1>1. EdgeInv /\ [Next]_vars =>
         [ status' # status =>
             \/ status' \in Transitions[status]
             \/ <<status, status'>> \in OwnMoves
             \/ StaleWriter ]_vars
    BY StatusMoves DEF vars
<1> QED
    BY <1>1, InitEdgeInv, StepEdgeInv, PTL DEF Spec, OnlyStaleWritesLeaveTheTable
=============================================================================
