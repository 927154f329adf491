--------------------------- MODULE MembershipProofs ---------------------------
(***************************************************************************)
(* Every number of requests, people and invitations: nobody holds two      *)
(* slots, no slot is taken past the limit, there is one active owner until *)
(* a request is overtaken, and what is accepted stays accepted.            *)
(*                                                                         *)
(* What a transaction has checked under the organization's lock is a       *)
(* promise that lasts until it commits: the steps that need no lock, an    *)
(* ownership transfer and the passing of time, do not break it.            *)
(***************************************************************************)
EXTENDS Membership, FiniteSetTheorems, TLAPS

LockHeld == \A w \in Workers : req[w].at = "locked" <=> holder = w

RowsOK == \A i \in Invitations :
              invitation[i].status # "ABSENT" => invitation[i].person \in People

(* What a request is about exists, and keeps existing.                     *)
RequestOK(r) ==
    r.at # "idle" =>
      /\ r.kind \in {"invite", "add"} => r.person \in People /\ r.role \in Roles
      /\ r.kind = "invite" => r.invitation \in Invitations
      /\ r.kind \in {"revoke", "refresh", "accept"} =>
           r.invitation \in Invitations /\ invitation[r.invitation].status # "ABSENT"
      /\ r.kind \in {"update", "remove", "transfer"} =>
           r.person \in People /\ Belongs(r.person)
      /\ r.kind = "transfer" => r.actor \in People

Room(person, i) == UsedBy(Assigned \ {person}, Reserved \ {i}) + 1 <= limit

(* Who a locked transaction may make a member or invite.                   *)
SubjectFree(r) ==
    /\ r.kind \in {"invite", "add"} => Available(r.person, None)
    /\ r.kind \in {"refresh", "accept"} =>
         Available(invitation[r.invitation].person, r.invitation)

(* The slot it is about to take.                                           *)
RoomLeft(r) ==
    ~r.exempt =>
      /\ r.kind \in {"invite", "add"} => Room(None, None)
      /\ r.kind \in {"refresh", "accept"} => Room(None, r.invitation)
      /\ r.kind = "update" /\ TakesSlot(r.person, r.status) => Room(r.person, None)

Promise(r) == r.at = "locked" => SubjectFree(r) /\ RoomLeft(r)

IInv == /\ TypeOK
        /\ LockHeld
        /\ RowsOK
        /\ \A w \in Workers : RequestOK(req[w])
        /\ NobodyReservedTwice
        /\ \A w \in Workers : Promise(req[w])

-----------------------------------------------------------------------------
(* The initial state: the owner, and no invitation and no request.          *)
LEMMA InitIInv == Init => IInv
<1> SUFFICES ASSUME Init PROVE IInv
    OBVIOUS
<1> USE MembershipAssumption
<1>1. TypeOK
    BY DEF Init, TypeOK, NoMember, Members, Statuses, Roles, NoInvitation,
           InvitationRows, Idle, Requests, LockingKinds
<1>2. LockHeld
    BY DEF Init, LockHeld, Idle
<1>3. RowsOK /\ Reserved = {}
    BY DEF Init, RowsOK, Reserved, Live, NoInvitation
<1>4. \A w \in Workers : RequestOK(req[w]) /\ Promise(req[w])
    BY DEF Init, RequestOK, Promise, Idle
<1>5. NobodyReservedTwice
    BY <1>3 DEF NobodyReservedTwice
<1> QED
    BY <1>1, <1>2, <1>3, <1>4, <1>5 DEF IInv

LEMMA IdleOK == Idle \in Requests /\ RequestOK(Idle) /\ Idle.at = "idle"
BY DEF Idle, Requests, LockingKinds, RequestOK

(* A request that is not in its transaction moves, and nothing else does.   *)
LEMMA RequestMoves ==
    ASSUME IInv, NEW w \in Workers, NEW r \in Requests,
           RequestOK(r), r.at # "locked", req[w].at # "locked",
           req' = [req EXCEPT ![w] = r],
           UNCHANGED <<Rows, holder, overtaken>>
    PROVE  IInv'
<1> USE MembershipAssumption DEF Rows
<1>1. req \in [Workers -> Requests] /\ req' \in [Workers -> Requests]
    BY DEF IInv, TypeOK
<1>2. TypeOK'
    BY <1>1 DEF IInv, TypeOK
<1>3. LockHeld'
    BY <1>1 DEF IInv, LockHeld
<1>4. RowsOK'
    BY DEF IInv, RowsOK
<1>5. (\A v \in Workers : RequestOK(req[v]))'
    BY <1>1 DEF IInv, RequestOK, Belongs
<1>6. NobodyReservedTwice'
    BY DEF IInv, NobodyReservedTwice, Reserved, Live, Belongs
<1>7. (\A v \in Workers : Promise(req[v]))'
    <2> SUFFICES ASSUME NEW v \in Workers, req'[v].at = "locked"
                 PROVE  SubjectFree(req[v])' /\ RoomLeft(req[v])'
        BY DEF Promise
    <2>1. req'[v] = req[v] /\ SubjectFree(req[v]) /\ RoomLeft(req[v])
        BY <1>1 DEF IInv, Promise
    <2>2. Assigned' = Assigned /\ Reserved' = Reserved
        BY DEF Assigned, Reserved, Live
    <2>3. SubjectFree(req[v])'
        BY <2>1, <2>2 DEF SubjectFree, Available, Belongs
    <2>4. RoomLeft(req[v])'
        BY <2>1, <2>2 DEF RoomLeft, Room, UsedBy, TakesSlot
    <2> QED BY <2>3, <2>4
<1> QED
    BY <1>2, <1>3, <1>4, <1>5, <1>6, <1>7 DEF IInv

(* The services' checks.                                                    *)
LEMMA CheckStep ==
    ASSUME IInv, NEW w \in Workers, NEW r, Check(w, r),
           [r EXCEPT !.at = "checked"] \in Requests,
           RequestOK([r EXCEPT !.at = "checked"])
    PROVE  IInv'
<1> DEFINE c == [r EXCEPT !.at = "checked"]
<1>1. c.at = "checked"
    BY DEF Requests
<1> QED
    BY <1>1, RequestMoves DEF Check, Begin

(* What each kind of check leaves in its request.                           *)
LEMMA Checks ==
    ASSUME IInv, NEW w \in Workers,
           \/ CheckInvite(w) \/ CheckRevoke(w) \/ CheckRefresh(w) \/ CheckAccept(w)
           \/ CheckAdd(w) \/ CheckUpdate(w) \/ CheckRemove(w) \/ CheckTransfer(w)
    PROVE  IInv'
<1> USE MembershipAssumption DEF Idle, Requests, LockingKinds, RequestOK, Roles
<1>0. TypeOK
    BY DEF IInv
<1>1. CASE CheckInvite(w)
    <2>1. PICK a, p \in People, i \in Invitations, role \in Grants \ {"OWNER"} :
             Check(w, [Idle EXCEPT !.kind = "invite", !.actor = a, !.person = p,
                                   !.invitation = i, !.role = role])
        BY <1>1 DEF CheckInvite
    <2> QED BY <2>1, CheckStep
<1>2. CASE CheckRevoke(w)
    <2>1. PICK i \in Invitations :
             /\ Live(i)
             /\ Check(w, [Idle EXCEPT !.kind = "revoke", !.invitation = i])
        BY <1>2 DEF CheckRevoke
    <2> QED BY <2>1, CheckStep DEF Live
<1>3. CASE CheckRefresh(w)
    <2>1. PICK i \in Invitations :
             /\ invitation[i].status \in {"PENDING", "REVOKED"}
             /\ Check(w, [Idle EXCEPT !.kind = "refresh", !.invitation = i])
        BY <1>3 DEF CheckRefresh
    <2> QED BY <2>1, CheckStep
<1>4. CASE CheckAccept(w)
    <2>1. PICK i \in Invitations :
             /\ Live(i)
             /\ Check(w, [Idle EXCEPT !.kind = "accept", !.invitation = i])
        BY <1>4 DEF CheckAccept
    <2> QED BY <2>1, CheckStep DEF Live
<1>5. CASE CheckAdd(w)
    <2>1. PICK p \in People, role \in Grants \ {"OWNER"} :
             Check(w, [Idle EXCEPT !.kind = "add", !.person = p, !.role = role])
        BY <1>5 DEF CheckAdd
    <2> QED BY <2>1, CheckStep
<1>6. CASE CheckUpdate(w)
    <2>1. PICK p \in People, u \in Updates :
             /\ Belongs(p)
             /\ Check(w, [Idle EXCEPT !.kind = "update", !.person = p,
                            !.role = Changed(u.role, member[p].role),
                            !.status = Changed(u.status, member[p].status),
                            !.wasOwner = member[p].role = "OWNER"])
        BY <1>6 DEF CheckUpdate, MayUpdate, MayManage
    <2>2. /\ Changed(u.role, member[p].role) \in Roles \cup {None}
          /\ Changed(u.status, member[p].status) \in Statuses \cup {None}
        BY DEF Changed
    <2> QED BY <2>1, <2>2, CheckStep
<1>7. CASE CheckRemove(w)
    <2>1. PICK p \in People :
             /\ Belongs(p)
             /\ Check(w, [Idle EXCEPT !.kind = "remove", !.person = p,
                                      !.wasOwner = member[p].role = "OWNER"])
        BY <1>7 DEF CheckRemove, MayManage
    <2> QED BY <2>1, CheckStep
<1>8. CASE CheckTransfer(w)
    <2>1. PICK a \in People, p \in People :
             /\ member[p].status = "ACTIVE"
             /\ Check(w, [Idle EXCEPT !.kind = "transfer", !.actor = a, !.person = p])
        BY <1>8 DEF CheckTransfer
    <2> QED BY <2>1, CheckStep DEF Belongs
<1> QED
    BY <1>1, <1>2, <1>3, <1>4, <1>5, <1>6, <1>7, <1>8

-----------------------------------------------------------------------------
(* The checks under the lock are the promise the transaction commits on.    *)
LEMMA LockStep ==
    ASSUME IInv, NEW w \in Workers, Lock(w)
    PROVE  IInv'
<1> USE MembershipAssumption
<1>0. /\ TypeOK /\ LockHeld /\ RequestOK(req[w]) /\ req[w] \in Requests
      /\ req[w].at = "checked" /\ req[w].kind \in LockingKinds /\ holder = None
      /\ req \in [Workers -> Requests]
    BY DEF IInv, TypeOK, Lock, LockFree
<1>1. CASE ~LockedChecks(req[w])
    <2>1. req' = [req EXCEPT ![w] = Idle] /\ UNCHANGED <<Rows, holder, overtaken>>
        BY <1>1 DEF Lock
    <2> QED BY <1>0, <2>1, IdleOK, RequestMoves
<1>2. CASE LockedChecks(req[w])
    <2> DEFINE r == [req[w] EXCEPT !.at = "locked", !.exempt = Exempted]
    <2>1. /\ req' = [req EXCEPT ![w] = r]
          /\ holder' = w
          /\ UNCHANGED <<member, invitation, limit, overtaken>>
        BY <1>0, <1>2 DEF Lock, Rows
    <2>2. Exempted \in BOOLEAN
        BY DEF Exempted
    <2>3. r \in Requests /\ r.at = "locked" /\ RequestOK(r)
        BY <1>0, <2>2 DEF Requests, RequestOK
    <2>4. TypeOK'
        BY <1>0, <2>1, <2>3 DEF TypeOK
    <2>5. LockHeld'
        BY <1>0, <2>1, <2>3 DEF LockHeld
    <2>6. RowsOK' /\ NobodyReservedTwice'
        BY <2>1 DEF IInv, RowsOK, NobodyReservedTwice, Reserved, Live, Belongs
    <2>7. (\A v \in Workers : RequestOK(req[v]))'
        BY <1>0, <2>1, <2>3 DEF IInv, RequestOK, Belongs
    <2>8. SubjectFree(r)
        <3>1. r.kind = req[w].kind /\ r.person = req[w].person
              /\ r.invitation = req[w].invitation
            BY <1>0 DEF Requests
        <3>2. r.kind \in {"invite", "add"} => Available(r.person, None)
            BY <1>2, <3>1 DEF LockedChecks, StillInvitable
        <3>3. r.kind = "refresh" => Available(invitation[r.invitation].person, r.invitation)
            BY <1>2, <3>1 DEF LockedChecks
        <3>4. ASSUME r.kind = "accept"
              PROVE  Available(invitation[r.invitation].person, r.invitation)
            <4>1. r.invitation \in Invitations
                BY <1>0, <3>1, <3>4 DEF RequestOK
            <4>2. Live(r.invitation) /\ ~Belongs(invitation[r.invitation].person)
                BY <1>2, <3>1, <3>4 DEF LockedChecks
            <4> QED
                BY <4>1, <4>2 DEF IInv, NobodyReservedTwice, Reserved, Available
        <3> QED BY <3>2, <3>3, <3>4 DEF SubjectFree
    <2>9. RoomLeft(r)
        BY <1>0, <1>2 DEF LockedChecks, RoomLeft, Room, HasRoom, Requests
    <2>10. Assigned' = Assigned /\ Reserved' = Reserved
        BY <2>1 DEF Assigned, Reserved, Live
    <2>11. (\A v \in Workers : Promise(req[v]))'
        <3> SUFFICES ASSUME NEW v \in Workers, req'[v].at = "locked"
                     PROVE  SubjectFree(req[v])' /\ RoomLeft(req[v])'
            BY DEF Promise
        <3>1. v = w
            BY <2>5, <2>1 DEF LockHeld
        <3>2. req'[v] = r
            BY <1>0, <2>1, <3>1
        <3>3. SubjectFree(req[v])'
            BY <2>1, <2>8, <2>10, <3>2 DEF SubjectFree, Available, Belongs
        <3>4. RoomLeft(req[v])'
            BY <2>1, <2>9, <2>10, <3>2 DEF RoomLeft, Room, UsedBy, TakesSlot
        <3> QED BY <3>3, <3>4
    <2> QED BY <2>4, <2>5, <2>6, <2>7, <2>11 DEF IInv
<1> QED BY <1>1, <1>2

-----------------------------------------------------------------------------
(* A commit ends the only transaction there is, and no row disappears.      *)
LEMMA CommitStep ==
    ASSUME IInv, NEW w \in Workers, NEW kind, Commit(w, kind),
           member' \in [People -> Members],
           invitation' \in [Invitations -> InvitationRows],
           overtaken' \in BOOLEAN,
           \A p \in People : Belongs(p) => Belongs(p)',
           \A i \in Invitations :
              /\ invitation[i].status # "ABSENT" => invitation'[i].status # "ABSENT"
              /\ invitation'[i].status # "ABSENT" => invitation'[i].person \in People,
           NobodyReservedTwice'
    PROVE  IInv'
<1> USE MembershipAssumption
<1>0. /\ TypeOK /\ LockHeld /\ req \in [Workers -> Requests] /\ holder = w
      /\ req' = [req EXCEPT ![w] = Idle] /\ holder' = None /\ limit' = limit
    BY DEF IInv, TypeOK, LockHeld, Commit
<1>1. TypeOK'
    BY <1>0, IdleOK DEF TypeOK
<1>2. \A v \in Workers : req'[v].at # "locked"
    BY <1>0, IdleOK DEF LockHeld
<1>3. LockHeld'
    BY <1>0, <1>2 DEF LockHeld
<1>4. RowsOK'
    BY DEF RowsOK
<1>5. (\A v \in Workers : RequestOK(req[v]))'
    <2> SUFFICES ASSUME NEW v \in Workers PROVE RequestOK(req[v])'
        OBVIOUS
    <2>1. CASE v = w
        BY <1>0, <2>1, IdleOK DEF RequestOK
    <2>2. CASE v # w
        BY <1>0, <2>2 DEF IInv, RequestOK
    <2> QED BY <2>1, <2>2
<1>6. (\A v \in Workers : Promise(req[v]))'
    BY <1>2 DEF Promise
<1> QED
    BY <1>1, <1>3, <1>4, <1>5, <1>6 DEF IInv

LEMMA Commits ==
    ASSUME IInv, NEW w \in Workers,
           \/ CommitInvite(w) \/ CommitRevoke(w) \/ CommitRefresh(w) \/ CommitAccept(w)
           \/ CommitAdd(w) \/ CommitUpdate(w) \/ CommitRemove(w)
    PROVE  IInv'
<1> USE MembershipAssumption
<1>0. /\ member \in [People -> Members] /\ invitation \in [Invitations -> InvitationRows]
      /\ overtaken \in BOOLEAN /\ req[w] \in Requests
      /\ RowsOK /\ RequestOK(req[w]) /\ NobodyReservedTwice /\ Promise(req[w])
    BY DEF IInv, TypeOK
<1> DEFINE r == req[w]
           i == r.invitation
<1>1. CASE CommitInvite(w)
    <2>1. /\ Commit(w, "invite") /\ i \in Invitations /\ r.person \in People
          /\ r.role \in Roles /\ Available(r.person, None)
          /\ invitation' = [invitation EXCEPT ![i] = [status |-> "PENDING",
                               person |-> r.person, role |-> r.role, expired |-> FALSE]]
          /\ UNCHANGED <<member, overtaken>>
        BY <1>0, <1>1 DEF CommitInvite, Commit, RequestOK, Promise, SubjectFree
    <2>2. invitation' \in [Invitations -> InvitationRows]
        BY <1>0, <2>1 DEF InvitationRows
    <2>3. NobodyReservedTwice'
        BY <1>0, <2>1 DEF NobodyReservedTwice, Reserved, Live, Available, Belongs
    <2>4. \A p \in People : Belongs(p) => Belongs(p)'
        BY <2>1 DEF Belongs
    <2>5. \A j \in Invitations :
              /\ invitation[j].status # "ABSENT" => invitation'[j].status # "ABSENT"
              /\ invitation'[j].status # "ABSENT" => invitation'[j].person \in People
        BY <1>0, <2>1 DEF RowsOK
    <2> QED BY <1>0, <2>1, <2>2, <2>3, <2>4, <2>5, CommitStep
<1>2. CASE CommitRevoke(w)
    <2>1. /\ Commit(w, "revoke") /\ i \in Invitations
          /\ invitation' = [invitation EXCEPT ![i].status = "REVOKED"]
          /\ invitation[i].status # "ABSENT"
          /\ UNCHANGED <<member, overtaken>>
        BY <1>0, <1>2 DEF CommitRevoke, Commit, RequestOK
    <2>2. invitation' \in [Invitations -> InvitationRows]
        BY <1>0, <2>1 DEF InvitationRows
    <2>3. NobodyReservedTwice'
        BY <1>0, <2>1 DEF NobodyReservedTwice, Reserved, Live, Belongs
    <2>4. \A p \in People : Belongs(p) => Belongs(p)'
        BY <2>1 DEF Belongs
    <2>5. \A j \in Invitations :
              /\ invitation[j].status # "ABSENT" => invitation'[j].status # "ABSENT"
              /\ invitation'[j].status # "ABSENT" => invitation'[j].person \in People
        BY <1>0, <2>1 DEF RowsOK, InvitationRows
    <2> QED BY <1>0, <2>1, <2>2, <2>3, <2>4, <2>5, CommitStep
<1>3. CASE CommitRefresh(w)
    <2>1. /\ Commit(w, "refresh") /\ i \in Invitations
          /\ invitation' = [invitation EXCEPT ![i].status = "PENDING", ![i].expired = FALSE]
          /\ invitation[i].status # "ABSENT" /\ Available(invitation[i].person, i)
          /\ UNCHANGED <<member, overtaken>>
        BY <1>0, <1>3 DEF CommitRefresh, Commit, RequestOK, Promise, SubjectFree
    <2>2. invitation' \in [Invitations -> InvitationRows]
        BY <1>0, <2>1 DEF InvitationRows
    <2>3. /\ \A j \in Invitations : invitation'[j].person = invitation[j].person
          /\ Reserved' = Reserved \cup {i}
        BY <1>0, <2>1 DEF InvitationRows, Reserved, Live
    <2>4. NobodyReservedTwice'
        <3> SUFFICES ASSUME NEW j \in Reserved'
                     PROVE  /\ ~Belongs(invitation[j].person)'
                            /\ \A k \in Reserved' \ {j} :
                                  invitation'[k].person # invitation'[j].person
            BY DEF NobodyReservedTwice
        <3>1. \A k \in Invitations : Belongs(invitation[k].person)' <=> Belongs(invitation[k].person)
            BY <2>1, <2>3 DEF Belongs
        <3>2. j \in Invitations /\ Reserved \subseteq Invitations
            BY <2>1, <2>3 DEF Reserved
        <3>3. CASE j = i
            BY <2>1, <2>3, <3>1, <3>2, <3>3 DEF Available
        <3>4. CASE j # i
            BY <1>0, <2>1, <2>3, <3>1, <3>2, <3>4 DEF Available, NobodyReservedTwice
        <3> QED BY <3>3, <3>4
    <2>5. \A p \in People : Belongs(p) => Belongs(p)'
        BY <2>1 DEF Belongs
    <2>6. \A j \in Invitations :
              /\ invitation[j].status # "ABSENT" => invitation'[j].status # "ABSENT"
              /\ invitation'[j].status # "ABSENT" => invitation'[j].person \in People
        BY <1>0, <2>1 DEF RowsOK, InvitationRows
    <2> QED BY <1>0, <2>1, <2>2, <2>4, <2>5, <2>6, CommitStep
<1>4. CASE CommitAccept(w)
    <2> DEFINE p == invitation[i].person
    <2>1. /\ Commit(w, "accept") /\ i \in Invitations
          /\ invitation[i].status # "ABSENT" /\ p \in People /\ Available(p, i)
          /\ invitation[i].role \in Roles
          /\ member' = [member EXCEPT ![p] = [status |-> "ACTIVE",
                                              role |-> invitation[i].role]]
          /\ invitation' = [invitation EXCEPT ![i].status = "ACCEPTED"]
          /\ UNCHANGED overtaken
        BY <1>0, <1>4 DEF CommitAccept, Commit, RequestOK, Promise, SubjectFree, RowsOK,
                          InvitationRows
    <2>2. invitation' \in [Invitations -> InvitationRows] /\ member' \in [People -> Members]
        BY <1>0, <2>1 DEF InvitationRows, Members, Statuses
    <2>3. NobodyReservedTwice'
        <3>1. /\ Reserved' \subseteq Reserved \ {i} /\ Reserved \subseteq Invitations
              /\ \A j \in Invitations : invitation'[j].person = invitation[j].person
            BY <1>0, <2>1 DEF InvitationRows, Reserved, Live
        <3>2. \A j \in Reserved' : invitation[j].person # p /\ ~Belongs(invitation[j].person)
            BY <1>0, <2>1, <3>1 DEF NobodyReservedTwice, Available
        <3>3. \A j \in Reserved' : ~Belongs(invitation[j].person)'
            BY <1>0, <2>1, <3>1, <3>2 DEF Belongs, RowsOK, Reserved, Live
        <3> QED BY <1>0, <3>1, <3>3 DEF NobodyReservedTwice
    <2>4. \A q \in People : Belongs(q) => Belongs(q)'
        BY <1>0, <2>1 DEF Belongs
    <2>5. \A j \in Invitations :
              /\ invitation[j].status # "ABSENT" => invitation'[j].status # "ABSENT"
              /\ invitation'[j].status # "ABSENT" => invitation'[j].person \in People
        BY <1>0, <2>1 DEF RowsOK, InvitationRows
    <2> QED BY <1>0, <2>1, <2>2, <2>3, <2>4, <2>5, CommitStep
<1>5. CASE CommitAdd(w)
    <2>1. /\ Commit(w, "add") /\ r.person \in People /\ r.role \in Roles
          /\ Available(r.person, None)
          /\ member' = [member EXCEPT ![r.person] = [status |-> "ACTIVE", role |-> r.role]]
          /\ UNCHANGED <<invitation, overtaken>>
        BY <1>0, <1>5 DEF CommitAdd, Commit, RequestOK, Promise, SubjectFree
    <2>2. member' \in [People -> Members]
        BY <1>0, <2>1 DEF Members, Statuses
    <2>3. NobodyReservedTwice'
        BY <1>0, <2>1 DEF NobodyReservedTwice, Reserved, Live, Belongs, Available, RowsOK
    <2>4. \A q \in People : Belongs(q) => Belongs(q)'
        BY <1>0, <2>1 DEF Belongs
    <2> QED BY <1>0, <2>1, <2>2, <2>3, <2>4, CommitStep DEF RowsOK
<1>6. CASE CommitUpdate(w) \/ CommitRemove(w)
    <2>1. /\ Commit(w, "update") \/ Commit(w, "remove")
          /\ r.person \in People /\ Belongs(r.person)
          /\ UNCHANGED invitation
        BY <1>0, <1>6 DEF CommitUpdate, CommitRemove, Commit, RequestOK
    <2>2. /\ member' \in [People -> Members]
          /\ \A q \in People : Belongs(q)' <=> Belongs(q)
        <3>1. PICK role \in Roles, status \in Statuses \cup {"ABSENT"} :
                 /\ member' = [member EXCEPT ![r.person].role = role,
                                             ![r.person].status = status]
                 /\ status # "ABSENT"
            <4>1. CASE CommitUpdate(w)
                BY <1>0, <2>1, <4>1 DEF CommitUpdate, Requests, Members, Belongs, Statuses
            <4>2. CASE CommitRemove(w)
                <5>1. member' = [member EXCEPT ![r.person].role = member[r.person].role,
                                               ![r.person].status = "REMOVED"]
                    BY <1>0, <2>1, <4>2 DEF CommitRemove, Members
                <5> QED BY <1>0, <2>1, <5>1 DEF Members, Statuses
            <4> QED BY <1>6, <4>1, <4>2
        <3>2. member' \in [People -> Members]
            BY <1>0, <3>1 DEF Members
        <3>3. \A q \in People : Belongs(q)' <=> Belongs(q)
            BY <1>0, <2>1, <3>1 DEF Belongs, Members
        <3> QED BY <3>2, <3>3
    <2>3. NobodyReservedTwice'
        BY <1>0, <2>1, <2>2 DEF NobodyReservedTwice, Reserved, Live, RowsOK
    <2>4. overtaken' \in BOOLEAN
        BY <1>0, <1>6 DEF CommitUpdate, CommitRemove
    <2> QED BY <1>0, <2>1, <2>2, <2>3, <2>4, CommitStep DEF RowsOK
<1> QED
    BY <1>1, <1>2, <1>3, <1>4, <1>5, <1>6

-----------------------------------------------------------------------------
(* A step that keeps the members' standing, the requests that matter and    *)
(* every reserved slot that was not given up keeps every promise.           *)
LEMMA PromisesKept ==
    ASSUME IInv, TypeOK', LockHeld', UNCHANGED <<limit, holder>>,
           \A p \in People : member'[p].status = member[p].status,
           Reserved' \subseteq Reserved,
           \A i \in Invitations : invitation'[i].person = invitation[i].person,
           \A i \in Invitations :
              invitation'[i].status # "ABSENT" <=> invitation[i].status # "ABSENT",
           \A w \in Workers : req'[w] = req[w] \/ req'[w] = Idle
    PROVE  IInv'
<1> USE MembershipAssumption
<1>0. TypeOK /\ RowsOK /\ NobodyReservedTwice /\ Reserved \subseteq Invitations
    BY DEF IInv, Reserved
<1>1. RowsOK'
    BY <1>0 DEF RowsOK
<1>2. \A p \in People : Belongs(p)' <=> Belongs(p)
    BY DEF Belongs
<1>3. \A i \in Reserved : invitation[i].person \in People
    BY <1>0 DEF RowsOK, Reserved, Live
<1>4. NobodyReservedTwice'
    BY <1>0, <1>2, <1>3 DEF NobodyReservedTwice
<1>5. (\A w \in Workers : RequestOK(req[w]))'
    <2> SUFFICES ASSUME NEW w \in Workers, req'[w].at # "idle"
                 PROVE  RequestOK(req[w])'
        BY DEF RequestOK
    <2>1. req'[w] = req[w] /\ RequestOK(req[w])
        BY IdleOK DEF IInv
    <2> QED BY <1>2, <2>1 DEF RequestOK
<1>6. (\A w \in Workers : Promise(req[w]))'
    <2> SUFFICES ASSUME NEW w \in Workers, req'[w].at = "locked"
                 PROVE  SubjectFree(req[w])' /\ RoomLeft(req[w])'
        BY DEF Promise
    <2> DEFINE r == req[w]
    <2>1. r' = r /\ SubjectFree(r) /\ RoomLeft(r) /\ RequestOK(r) /\ r.at = "locked"
        BY IdleOK DEF IInv, Promise
    <2>2. \A p \in People : \A i : Available(p, i) => Available(p, i)'
        BY <1>0, <1>2 DEF Available
    <2>3. r.kind \in {"refresh", "accept"} =>
             /\ r.invitation \in Invitations
             /\ invitation[r.invitation].person \in People
        BY <1>0, <2>1 DEF RequestOK, RowsOK
    <2>4. SubjectFree(r)'
        BY <2>1, <2>2, <2>3 DEF SubjectFree, RequestOK
    <2>5. \A p, i : Room(p, i) => Room(p, i)'
        <3> SUFFICES ASSUME NEW p, NEW i, Room(p, i) PROVE Room(p, i)'
            OBVIOUS
        <3>1. Assigned' = Assigned
            BY DEF Assigned
        <3>2. /\ IsFiniteSet(Assigned \ {p}) /\ IsFiniteSet(Reserved \ {i})
              /\ (Reserved' \ {i}) \subseteq (Reserved \ {i})
            BY <1>0, FS_Subset DEF Assigned
        <3>3. /\ Cardinality(Reserved' \ {i}) <= Cardinality(Reserved \ {i})
              /\ Cardinality(Reserved' \ {i}) \in Nat
              /\ Cardinality(Reserved \ {i}) \in Nat
              /\ Cardinality(Assigned \ {p}) \in Nat
            BY <3>2, FS_Subset, FS_CardinalityType
        <3>4. limit \in Nat /\ limit' = limit
            BY <1>0 DEF TypeOK
        <3> QED BY <3>1, <3>3, <3>4 DEF Room, UsedBy
    <2>6. r.kind = "update" => (TakesSlot(r.person, r.status)' <=> TakesSlot(r.person, r.status))
        BY <2>1 DEF TakesSlot, RequestOK
    <2>7. RoomLeft(r)'
        BY <2>1, <2>5, <2>6 DEF RoomLeft
    <2> QED BY <2>4, <2>7
<1> QED
    BY <1>0, <1>1, <1>4, <1>5, <1>6 DEF IInv

LEMMA TransferStep ==
    ASSUME IInv, NEW w \in Workers, CommitTransfer(w)
    PROVE  IInv'
<1> USE MembershipAssumption
<1>0. /\ TypeOK /\ LockHeld /\ RequestOK(req[w]) /\ req \in [Workers -> Requests]
      /\ member \in [People -> Members]
    BY DEF IInv, TypeOK
<1> DEFINE r == req[w]
<1>1. /\ r.at = "checked" /\ r.person \in People /\ r.actor \in People
      /\ member' = [member EXCEPT ![r.person].role = "OWNER", ![r.actor].role = "ADMIN"]
      /\ req' = [req EXCEPT ![w] = Idle]
      /\ overtaken' \in BOOLEAN
      /\ UNCHANGED <<invitation, limit, holder>>
    BY <1>0 DEF CommitTransfer, RequestOK, TypeOK
<1>2. /\ member' \in [People -> Members]
      /\ \A p \in People : member'[p].status = member[p].status
    BY <1>0, <1>1 DEF Members, Roles
<1>3. TypeOK'
    BY <1>0, <1>1, <1>2, IdleOK DEF TypeOK
<1>4. LockHeld'
    BY <1>0, <1>1, IdleOK DEF LockHeld
<1>5. Reserved' = Reserved
    BY <1>1 DEF Reserved, Live
<1>6. \A v \in Workers : req'[v] = req[v] \/ req'[v] = Idle
    BY <1>0, <1>1
<1> QED
    BY <1>1, <1>2, <1>3, <1>4, <1>5, <1>6, PromisesKept

LEMMA ExpireStep ==
    ASSUME IInv, NEW i \in Invitations, Expire(i)
    PROVE  IInv'
<1>0. TypeOK /\ LockHeld /\ invitation \in [Invitations -> InvitationRows]
    BY DEF IInv, TypeOK
<1>1. /\ invitation' = [invitation EXCEPT ![i].expired = TRUE]
      /\ UNCHANGED <<member, limit, holder, overtaken, req>>
    BY DEF Expire
<1>2. /\ invitation' \in [Invitations -> InvitationRows]
      /\ \A j \in Invitations : /\ invitation'[j].person = invitation[j].person
                                 /\ invitation'[j].status = invitation[j].status
    BY <1>0, <1>1 DEF InvitationRows
<1>3. TypeOK' /\ LockHeld'
    BY <1>0, <1>1, <1>2 DEF TypeOK, LockHeld
<1>4. Reserved' \subseteq Reserved
    <2>1. ASSUME NEW j \in Invitations, Live(j)' PROVE Live(j)
        <3>1. CASE j = i
            BY <1>0, <1>1, <2>1, <3>1 DEF InvitationRows, Live
        <3>2. CASE j # i
            BY <1>0, <1>1, <2>1, <3>2 DEF Live
        <3> QED BY <3>1, <3>2
    <2> QED BY <2>1 DEF Reserved
<1> QED
    BY <1>1, <1>2, <1>3, <1>4, PromisesKept

(* Nobody is in a transaction while the limit changes.                      *)
LEMMA LimitStep ==
    ASSUME IInv, ChangeLimit
    PROVE  IInv'
<1> USE MembershipAssumption
<1>1. /\ TypeOK' /\ LockHeld'
      /\ \A w \in Workers : req'[w].at # "locked"
    BY DEF IInv, ChangeLimit, LockFree, TypeOK, LockHeld
<1>2. RowsOK' /\ NobodyReservedTwice'
    BY DEF IInv, ChangeLimit, RowsOK, NobodyReservedTwice, Reserved, Live, Belongs
<1>3. (\A w \in Workers : RequestOK(req[w]))'
    BY DEF IInv, ChangeLimit, RequestOK, Belongs
<1>4. (\A w \in Workers : Promise(req[w]))'
    BY <1>1 DEF Promise
<1> QED
    BY <1>1, <1>2, <1>3, <1>4 DEF IInv

LEMMA StutterStep ==
    ASSUME IInv, UNCHANGED vars
    PROVE  IInv'
<1>1. UNCHANGED <<member, invitation, limit, holder, overtaken, req>>
    BY DEF vars
<1>2. TypeOK' /\ LockHeld'
    BY <1>1 DEF IInv, TypeOK, LockHeld
<1>3. Reserved' = Reserved
    BY <1>1 DEF Reserved, Live
<1> QED
    BY <1>1, <1>2, <1>3, PromisesKept

LEMMA StepIInv == IInv /\ [Next]_vars => IInv'
<1> SUFFICES ASSUME IInv, [Next]_vars PROVE IInv'
    OBVIOUS
<1>1. CASE UNCHANGED vars
    BY <1>1, StutterStep
<1>2. ASSUME NEW w \in Workers,
             \/ CheckInvite(w) \/ CheckRevoke(w) \/ CheckRefresh(w) \/ CheckAccept(w)
             \/ CheckAdd(w) \/ CheckUpdate(w) \/ CheckRemove(w) \/ CheckTransfer(w)
      PROVE  IInv'
    BY <1>2, Checks
<1>3. ASSUME NEW w \in Workers, Lock(w) PROVE IInv'
    BY <1>3, LockStep
<1>4. ASSUME NEW w \in Workers,
             \/ CommitInvite(w) \/ CommitRevoke(w) \/ CommitRefresh(w) \/ CommitAccept(w)
             \/ CommitAdd(w) \/ CommitUpdate(w) \/ CommitRemove(w)
      PROVE  IInv'
    BY <1>4, Commits
<1>5. ASSUME NEW w \in Workers, CommitTransfer(w) PROVE IInv'
    BY <1>5, TransferStep
<1>6. CASE ChangeLimit
    BY <1>6, LimitStep
<1>7. ASSUME NEW i \in Invitations, Expire(i) PROVE IInv'
    BY <1>7, ExpireStep
<1> QED
    BY <1>1, <1>2, <1>3, <1>4, <1>5, <1>6, <1>7 DEF Next

THEOREM Inductive == Spec => []IInv
BY InitIInv, StepIInv, PTL DEF Spec

(* The types, for any number of requests, people and invitations.           *)
THEOREM MembershipTyped == Spec => []TypeOK
<1>1. IInv => TypeOK
    BY DEF IInv
<1> QED
    BY <1>1, Inductive, PTL

(* However many requests race, no person is invited twice or beside his     *)
(* membership: what a transaction finds under the organization's lock about *)
(* the person it invites or admits still holds when it commits.             *)
THEOREM NobodyHoldsTwoSlots == Spec => []NobodyReservedTwice
<1>1. IInv => NobodyReservedTwice
    BY DEF IInv
<1> QED
    BY <1>1, Inductive, PTL

-----------------------------------------------------------------------------
(* Counting slots.                                                          *)
LEMMA CountOne ==
    ASSUME NEW S, NEW T, NEW x, IsFiniteSet(S), T \subseteq S \cup {x}
    PROVE  /\ Cardinality(T) \in Nat /\ Cardinality(S) \in Nat
           /\ Cardinality(T) <= Cardinality(S) + 1
<1>1. /\ IsFiniteSet(S \cup {x})
      /\ Cardinality(S \cup {x}) = Cardinality(S) \/ Cardinality(S \cup {x}) = Cardinality(S) + 1
    BY FS_AddElement
<1>2. /\ IsFiniteSet(T) /\ Cardinality(T) <= Cardinality(S \cup {x})
    BY <1>1, FS_Subset
<1> QED
    BY <1>1, <1>2, FS_CardinalityType

LEMMA CountNone ==
    ASSUME NEW S, NEW T, IsFiniteSet(S), T \subseteq S
    PROVE  /\ Cardinality(T) \in Nat /\ Cardinality(S) \in Nat
           /\ Cardinality(T) <= Cardinality(S)
BY FS_Subset, FS_CardinalityType

LEMMA SlotsFinite == IsFiniteSet(Assigned) /\ IsFiniteSet(Reserved)
BY MembershipAssumption, FS_Subset DEF Assigned, Reserved

(* One slot more than were counted when there was room.                     *)
LEMMA OneMore ==
    ASSUME NEW p, NEW i, NEW x, Room(p, i), limit \in Nat, limit' = limit,
           \/ Assigned' \subseteq (Assigned \ {p}) \cup {x} /\ Reserved' \subseteq Reserved \ {i}
           \/ Assigned' \subseteq Assigned \ {p} /\ Reserved' \subseteq (Reserved \ {i}) \cup {x}
    PROVE  Used' <= limit'
<1>1. IsFiniteSet(Assigned \ {p}) /\ IsFiniteSet(Reserved \ {i})
    BY SlotsFinite, FS_Subset
<1> DEFINE a == Cardinality(Assigned')
           b == Cardinality(Reserved')
           c == Cardinality(Assigned \ {p})
           d == Cardinality(Reserved \ {i})
<1>4. c + d + 1 <= limit
    BY DEF Room, UsedBy
<1>2. CASE Assigned' \subseteq (Assigned \ {p}) \cup {x} /\ Reserved' \subseteq Reserved \ {i}
    <2>1. a \in Nat /\ c \in Nat /\ a <= c + 1
        BY <1>1, <1>2, CountOne
    <2>2. b \in Nat /\ d \in Nat /\ b <= d
        BY <1>1, <1>2, CountNone
    <2>3. a + b <= limit
        <3> HIDE DEF a, b, c, d
        <3> QED BY <1>4, <2>1, <2>2
    <2> QED BY <2>3 DEF Used, UsedBy
<1>3. CASE Assigned' \subseteq Assigned \ {p} /\ Reserved' \subseteq (Reserved \ {i}) \cup {x}
    <2>1. a \in Nat /\ c \in Nat /\ a <= c
        BY <1>1, <1>3, CountNone
    <2>2. b \in Nat /\ d \in Nat /\ b <= d + 1
        BY <1>1, <1>3, CountOne
    <2>3. a + b <= limit
        <3> HIDE DEF a, b, c, d
        <3> QED BY <1>4, <2>1, <2>2
    <2> QED BY <2>3 DEF Used, UsedBy
<1> QED
    BY <1>2, <1>3

LEMMA NoMore ==
    ASSUME Assigned' \subseteq Assigned, Reserved' \subseteq Reserved
    PROVE  ~(Used' > Used)
<1>1. /\ Cardinality(Assigned)' \in Nat /\ Cardinality(Assigned) \in Nat
      /\ Cardinality(Assigned)' <= Cardinality(Assigned)
    BY SlotsFinite, CountNone
<1>2. /\ Cardinality(Reserved)' \in Nat /\ Cardinality(Reserved) \in Nat
      /\ Cardinality(Reserved)' <= Cardinality(Reserved)
    BY SlotsFinite, CountNone
<1> QED
    BY <1>1, <1>2 DEF Used, UsedBy

(* Members and live invitations only grow in a commit that had room.        *)
Slots == Used' > Used => \/ Used' <= limit'
                         \/ \E w \in Workers : holder = w /\ req[w].exempt

LEMMA SlotsCommits ==
    ASSUME IInv, NEW w \in Workers,
           \/ CommitInvite(w) \/ CommitRevoke(w) \/ CommitRefresh(w) \/ CommitAccept(w)
           \/ CommitAdd(w) \/ CommitUpdate(w) \/ CommitRemove(w)
    PROVE  Slots
<1> USE MembershipAssumption
<1> DEFINE r == req[w]
           i == r.invitation
<1>0. /\ member \in [People -> Members] /\ invitation \in [Invitations -> InvitationRows]
      /\ r \in Requests /\ r.at = "locked" /\ limit \in Nat /\ limit' = limit
      /\ RowsOK /\ RequestOK(r) /\ SubjectFree(r) /\ RoomLeft(r) /\ holder = w
    BY DEF IInv, TypeOK, Promise, LockHeld, Commit, CommitInvite, CommitRevoke,
           CommitRefresh, CommitAccept, CommitAdd, CommitUpdate, CommitRemove
<1>1. /\ Assigned \ {None} = Assigned /\ Reserved \ {None} = Reserved
    BY DEF Assigned, Reserved
<1>2. CASE r.exempt
    BY <1>0, <1>2 DEF Slots
<1>3. CASE ~r.exempt /\ CommitInvite(w)
    <2>1. /\ i \in Invitations /\ Room(None, None)
          /\ Assigned' \subseteq Assigned /\ Reserved' \subseteq Reserved \cup {i}
        BY <1>0, <1>3 DEF CommitInvite, Commit, RequestOK, RoomLeft, Assigned, Reserved, Live
    <2> QED BY <1>0, <1>1, <2>1, OneMore DEF Slots
<1>4. CASE CommitRevoke(w)
    <2>1. Assigned' \subseteq Assigned /\ Reserved' \subseteq Reserved
        BY <1>0, <1>4 DEF CommitRevoke, Commit, Assigned, Reserved, Live, InvitationRows
    <2> QED BY <2>1, NoMore DEF Slots
<1>5. CASE ~r.exempt /\ CommitRefresh(w)
    <2>1. /\ i \in Invitations /\ Room(None, i)
          /\ Assigned' \subseteq Assigned /\ Reserved' \subseteq (Reserved \ {i}) \cup {i}
        BY <1>0, <1>5 DEF CommitRefresh, Commit, RequestOK, RoomLeft, Assigned, Reserved, Live
    <2>2. Assigned' \subseteq Assigned \ {None}
        BY <1>1, <2>1
    <2>3. Used' <= limit'
        BY <1>0, <2>1, <2>2, OneMore
    <2> QED BY <2>3 DEF Slots
<1>6. CASE ~r.exempt /\ CommitAccept(w)
    <2>1. /\ i \in Invitations /\ Room(None, i)
          /\ Assigned' \subseteq Assigned \cup {invitation[i].person}
        BY <1>0, <1>6 DEF CommitAccept, Commit, RequestOK, RoomLeft, Assigned, RowsOK
    <2>2. Reserved' \subseteq Reserved \ {i}
        BY <1>0, <1>6 DEF CommitAccept, Commit, RequestOK, Reserved, Live, InvitationRows
    <2> QED BY <1>0, <1>1, <2>1, <2>2, OneMore DEF Slots
<1>7. CASE ~r.exempt /\ CommitAdd(w)
    <2>1. /\ Room(None, None)
          /\ Assigned' \subseteq Assigned \cup {r.person}
          /\ Reserved' \subseteq Reserved
        BY <1>0, <1>7 DEF CommitAdd, Commit, RequestOK, RoomLeft, Assigned, Reserved, Live
    <2> QED BY <1>0, <1>1, <2>1, OneMore DEF Slots
<1>8. CASE ~r.exempt /\ CommitUpdate(w)
    <2>1. /\ r.kind = "update" /\ r.person \in People /\ Belongs(r.person)
          /\ Reserved' = Reserved
        BY <1>0, <1>8 DEF CommitUpdate, Commit, RequestOK, Reserved, Live
    <2>2. /\ \A q \in People \ {r.person} : member'[q] = member[q]
          /\ member'[r.person].status =
               IF r.status = None THEN member[r.person].status ELSE r.status
        BY <1>0, <1>8, <2>1 DEF CommitUpdate, Members
    <2>3. CASE TakesSlot(r.person, r.status)
        <3>1. Room(r.person, None)
            BY <1>0, <1>8, <2>1, <2>3 DEF RoomLeft
        <3>2. Assigned' \subseteq (Assigned \ {r.person}) \cup {r.person}
            BY <2>2 DEF Assigned
        <3>3. Reserved' \subseteq Reserved \ {None}
            BY <1>1, <2>1
        <3>4. Used' <= limit'
            BY <1>0, <3>1, <3>2, <3>3, OneMore
        <3> QED BY <3>4 DEF Slots
    <2>4. CASE ~TakesSlot(r.person, r.status)
        <3>1. Assigned' \subseteq Assigned
            BY <2>2, <2>4 DEF Assigned, TakesSlot
        <3> QED BY <2>1, <3>1, NoMore DEF Slots
    <2> QED BY <2>3, <2>4
<1>9. CASE CommitRemove(w)
    <2>1. Assigned' \subseteq Assigned /\ Reserved' \subseteq Reserved
        BY <1>0, <1>9 DEF CommitRemove, Commit, RequestOK, Assigned, Reserved, Live, Members
    <2> QED BY <2>1, NoMore DEF Slots
<1> QED
    BY <1>0, <1>2, <1>3, <1>4, <1>5, <1>6, <1>7, <1>8, <1>9

LEMMA SlotsStep == IInv /\ [Next]_vars => [Slots]_vars
<1> SUFFICES ASSUME IInv, Next PROVE Slots
    BY DEF Slots
<1> USE MembershipAssumption
<1>0. /\ member \in [People -> Members] /\ invitation \in [Invitations -> InvitationRows]
      /\ \A w \in Workers : RequestOK(req[w])
    BY DEF IInv, TypeOK
<1>1. ASSUME UNCHANGED <<member, invitation>> PROVE Slots
    <2>1. Assigned' = Assigned /\ Reserved' = Reserved
        BY <1>1 DEF Assigned, Reserved, Live
    <2> QED BY <2>1, NoMore DEF Slots
<1>2. ASSUME NEW w \in Workers,
             \/ CheckInvite(w) \/ CheckRevoke(w) \/ CheckRefresh(w) \/ CheckAccept(w)
             \/ CheckAdd(w) \/ CheckUpdate(w) \/ CheckRemove(w) \/ CheckTransfer(w)
             \/ Lock(w)
      PROVE  Slots
    BY <1>1, <1>2 DEF CheckInvite, CheckRevoke, CheckRefresh, CheckAccept, CheckAdd,
                      CheckUpdate, CheckRemove, CheckTransfer, Lock, Check, Begin, Rows
<1>3. ASSUME NEW w \in Workers,
             \/ CommitInvite(w) \/ CommitRevoke(w) \/ CommitRefresh(w) \/ CommitAccept(w)
             \/ CommitAdd(w) \/ CommitUpdate(w) \/ CommitRemove(w)
      PROVE  Slots
    BY <1>3, SlotsCommits
<1>4. ASSUME NEW w \in Workers, CommitTransfer(w) PROVE Slots
    <2>1. Assigned' = Assigned /\ Reserved' = Reserved
        BY <1>0, <1>4 DEF CommitTransfer, Assigned, Reserved, Live, Members, RequestOK
    <2> QED BY <2>1, NoMore DEF Slots
<1>5. CASE ChangeLimit
    BY <1>1, <1>5 DEF ChangeLimit
<1>6. ASSUME NEW i \in Invitations, Expire(i) PROVE Slots
    <2>1. Assigned' = Assigned /\ Reserved' \subseteq Reserved
        BY <1>0, <1>6 DEF Expire, Assigned, Reserved, Live, InvitationRows
    <2> QED BY <2>1, NoMore DEF Slots
<1> QED
    BY <1>2, <1>3, <1>4, <1>5, <1>6 DEF Next

(* Whatever the limit, the number of requests and the number of people, no  *)
(* interleaving takes a slot past the limit in force, unless in a           *)
(* transaction that found the organization exempt.                          *)
THEOREM SlotsAreNeverOversold == Spec => SlotsNeverOversold
<1>1. [Slots]_vars => [Used' > Used => \/ Used' <= limit'
                                      \/ \E w \in Workers : holder = w /\ req[w].exempt]_vars
    BY DEF Slots
<1> QED
    BY <1>1, Inductive, SlotsStep, PTL DEF Spec, SlotsNeverOversold

-----------------------------------------------------------------------------
(* The owner.                                                               *)

IsOwner(p) == member[p].role = "OWNER" /\ Belongs(p)

(* What a request took from the policy's checks.                            *)
OwnerKept(r) ==
    r.at # "idle" =>
      /\ r.kind \in {"invite", "add", "update"} => r.role # "OWNER"
      /\ r.kind \in {"update", "remove"} => ~r.wasOwner
      /\ r.kind = "transfer" => r.actor # r.person /\ Belongs(r.actor)

NoOwnerInvited == \A i \in Invitations : invitation[i].role # "OWNER"

OwnerInv == /\ \A w \in Workers : OwnerKept(req[w])
            /\ NoOwnerInvited
            /\ OneActiveOwner

LEMMA InitOwner == Init => OwnerInv
<1> SUFFICES ASSUME Init PROVE OwnerInv
    OBVIOUS
<1> USE MembershipAssumption
<1>1. (\A w \in Workers : OwnerKept(req[w])) /\ NoOwnerInvited
    BY DEF Init, OwnerKept, Idle, NoOwnerInvited, NoInvitation
<1>2. Owners = {Owner} /\ member[Owner].status = "ACTIVE"
    BY DEF Init, Owners, Belongs, NoMember
<1> QED
    BY <1>1, <1>2 DEF OwnerInv, OneActiveOwner

(* A step that is not overtaken leaves the owner's row as it is, and makes  *)
(* nobody else one.                                                         *)
LEMMA OwnerStays ==
    ASSUME OneActiveOwner,
           ~overtaken' => /\ ~overtaken
                          /\ \A p \in People : IF IsOwner(p) THEN member'[p] = member[p]
                                                             ELSE ~IsOwner(p)'
    PROVE  OneActiveOwner'
<1> SUFFICES ASSUME ~overtaken'
             PROVE  \E p \in People : Owners' = {p} /\ member'[p].status = "ACTIVE"
    BY DEF OneActiveOwner
<1>1. PICK p \in People : Owners = {p} /\ member[p].status = "ACTIVE"
    BY DEF OneActiveOwner
<1>2. \A q \in People : IsOwner(q)' <=> IsOwner(q)
    BY DEF IsOwner, Belongs
<1>3. Owners' = Owners
    BY <1>2 DEF Owners, IsOwner
<1>4. IsOwner(p)
    BY <1>1 DEF Owners, IsOwner
<1> QED
    BY <1>1, <1>3, <1>4

LEMMA OwnerCheck ==
    ASSUME IInv, NEW w \in Workers, NEW r, Check(w, r),
           OwnerKept([r EXCEPT !.at = "checked"])
    PROVE  /\ OwnerKept(req[w])'
           /\ \A v \in Workers \ {w} : req'[v] = req[v]
<1>1. req \in [Workers -> Requests] /\ UNCHANGED member
    BY DEF IInv, TypeOK, Check, Begin, Rows
<1>2. req' = [req EXCEPT ![w] = [r EXCEPT !.at = "checked"]]
    BY DEF Check, Begin
<1> QED
    BY <1>1, <1>2 DEF OwnerKept, Belongs

(* A check leaves what the policy demands in the request, and no row.       *)
LEMMA OwnerChecks ==
    ASSUME IInv, OwnerInv, NEW w \in Workers,
           \/ CheckInvite(w) \/ CheckRevoke(w) \/ CheckRefresh(w) \/ CheckAccept(w)
           \/ CheckAdd(w) \/ CheckUpdate(w) \/ CheckRemove(w) \/ CheckTransfer(w)
           \/ Lock(w)
    PROVE  OwnerInv'
<1> USE MembershipAssumption
<1>0. /\ UNCHANGED <<member, invitation, overtaken>>
      /\ req \in [Workers -> Requests] /\ OwnerKept(req[w])
    BY DEF IInv, TypeOK, OwnerInv, CheckInvite, CheckRevoke, CheckRefresh, CheckAccept,
           CheckAdd, CheckUpdate, CheckRemove, CheckTransfer, Lock, Check, Begin, Rows
<1>1. NoOwnerInvited' /\ OneActiveOwner'
    BY <1>0 DEF OwnerInv, NoOwnerInvited, OneActiveOwner, Owners, Belongs
<1>2. OwnerKept(req[w])' /\ \A v \in Workers \ {w} : req'[v] = req[v]
    <2> USE DEF OwnerKept, Idle
    <2>1. CASE CheckInvite(w)
        <3>1. PICK a \in People, p \in People, i \in Invitations, role \in Grants \ {"OWNER"} :
                 Check(w, [Idle EXCEPT !.kind = "invite", !.actor = a, !.person = p,
                                       !.invitation = i, !.role = role])
            BY <2>1 DEF CheckInvite
        <3> QED BY <3>1, OwnerCheck
    <2>2. CASE CheckRevoke(w)
        BY <2>2, OwnerCheck DEF CheckRevoke
    <2>3. CASE CheckRefresh(w)
        BY <2>3, OwnerCheck DEF CheckRefresh
    <2>4. CASE CheckAccept(w)
        BY <2>4, OwnerCheck DEF CheckAccept
    <2>5. CASE CheckAdd(w)
        <3>1. PICK p \in People, role \in Grants \ {"OWNER"} :
                 Check(w, [Idle EXCEPT !.kind = "add", !.person = p, !.role = role])
            BY <2>5 DEF CheckAdd
        <3> QED BY <3>1, OwnerCheck
    <2>6. CASE CheckUpdate(w)
        <3>1. PICK p \in People, u \in Updates :
                 /\ member[p].role # "OWNER" /\ u.role # "OWNER"
                 /\ Check(w, [Idle EXCEPT !.kind = "update", !.person = p,
                                !.role = Changed(u.role, member[p].role),
                                !.status = Changed(u.status, member[p].status),
                                !.wasOwner = member[p].role = "OWNER"])
            BY <2>6 DEF CheckUpdate, MayUpdate, MayManage
        <3>2. Changed(u.role, member[p].role) # "OWNER"
            BY <3>1 DEF Changed, Roles
        <3> QED BY <3>1, <3>2, OwnerCheck
    <2>7. CASE CheckRemove(w)
        <3>1. PICK p \in People :
                 /\ member[p].role # "OWNER"
                 /\ Check(w, [Idle EXCEPT !.kind = "remove", !.person = p,
                                          !.wasOwner = member[p].role = "OWNER"])
            BY <2>7 DEF CheckRemove, MayManage
        <3> QED BY <3>1, OwnerCheck
    <2>8. CASE CheckTransfer(w)
        <3>1. PICK a \in People, p \in People :
                 /\ Belongs(a) /\ a # p
                 /\ Check(w, [Idle EXCEPT !.kind = "transfer", !.actor = a, !.person = p])
            BY <2>8 DEF CheckTransfer, MayAct, Belongs
        <3> QED BY <3>1, OwnerCheck
    <2>9. CASE Lock(w)
        <3>1. CASE LockedChecks(req[w])
            <4>1. /\ req' = [req EXCEPT ![w].at = "locked", ![w].exempt = Exempted]
                  /\ req[w].at = "checked" /\ req[w] \in Requests
                BY <1>0, <2>9, <3>1 DEF Lock
            <4>2. /\ req'[w].kind = req[w].kind /\ req'[w].role = req[w].role
                  /\ req'[w].wasOwner = req[w].wasOwner /\ req'[w].actor = req[w].actor
                  /\ req'[w].person = req[w].person
                BY <1>0, <4>1 DEF Requests
            <4> QED BY <1>0, <4>1, <4>2 DEF Belongs
        <3>2. CASE ~LockedChecks(req[w])
            BY <1>0, <2>9, <3>2 DEF Lock
        <3> QED BY <3>1, <3>2
    <2> QED BY <2>1, <2>2, <2>3, <2>4, <2>5, <2>6, <2>7, <2>8, <2>9
<1>3. \A v \in Workers : OwnerKept(req[v])'
    BY <1>0, <1>2 DEF OwnerInv, OwnerKept, Belongs
<1> QED
    BY <1>1, <1>3 DEF OwnerInv

(* A request that ends takes no promise of another's with it.               *)
LEMMA OwnerRequestEnds ==
    ASSUME IInv, OwnerInv, NEW w \in Workers, req' = [req EXCEPT ![w] = Idle],
           \A p \in People : Belongs(p) => Belongs(p)'
    PROVE  \A v \in Workers : OwnerKept(req[v])'
<1> SUFFICES ASSUME NEW v \in Workers PROVE OwnerKept(req[v])'
    OBVIOUS
<1>1. req \in [Workers -> Requests] /\ OwnerKept(req[v]) /\ RequestOK(req[v])
    BY DEF IInv, TypeOK, OwnerInv
<1>2. CASE v = w
    BY <1>1, <1>2 DEF OwnerKept, Idle
<1>3. CASE v # w
    BY <1>1, <1>3 DEF OwnerKept, RequestOK
<1> QED
    BY <1>2, <1>3

(* Whoever joins was nobody, and is made no owner.                          *)
LEMMA OwnerJoins ==
    ASSUME IInv, OwnerInv, NEW p \in People, ~Belongs(p), NEW role \in Roles \ {"OWNER"},
           member' = [member EXCEPT ![p] = [status |-> "ACTIVE", role |-> role]],
           overtaken' = overtaken
    PROVE  OneActiveOwner' /\ \A q \in People : Belongs(q) => Belongs(q)'
<1>1. member \in [People -> Members] /\ OneActiveOwner
    BY DEF IInv, TypeOK, OwnerInv
<1>2. \A q \in People : IF IsOwner(q) THEN member'[q] = member[q] ELSE ~IsOwner(q)'
    BY <1>1 DEF IsOwner, Belongs
<1>3. OneActiveOwner'
    BY <1>1, <1>2, OwnerStays
<1> QED
    BY <1>1, <1>3 DEF Belongs

LEMMA OwnerCommits ==
    ASSUME IInv, OwnerInv, NEW w \in Workers,
           \/ CommitInvite(w) \/ CommitRevoke(w) \/ CommitRefresh(w) \/ CommitAccept(w)
           \/ CommitAdd(w) \/ CommitUpdate(w) \/ CommitRemove(w)
    PROVE  OwnerInv'
<1> USE MembershipAssumption
<1> DEFINE r == req[w]
           i == r.invitation
<1>0. /\ member \in [People -> Members] /\ invitation \in [Invitations -> InvitationRows]
      /\ r \in Requests /\ r.at = "locked" /\ req' = [req EXCEPT ![w] = Idle]
      /\ RowsOK /\ RequestOK(r) /\ SubjectFree(r) /\ OwnerKept(r)
      /\ NoOwnerInvited /\ OneActiveOwner
    BY DEF IInv, TypeOK, Promise, OwnerInv, Commit, CommitInvite, CommitRevoke,
           CommitRefresh, CommitAccept, CommitAdd, CommitUpdate, CommitRemove
<1>1. CASE CommitInvite(w) \/ CommitRevoke(w) \/ CommitRefresh(w)
    <2>1. UNCHANGED <<member, overtaken>>
        BY <1>1 DEF CommitInvite, CommitRevoke, CommitRefresh
    <2>2. NoOwnerInvited'
        <3>1. CASE CommitInvite(w)
            BY <1>0, <3>1 DEF CommitInvite, Commit, OwnerKept, NoOwnerInvited, InvitationRows
        <3>2. CASE CommitRevoke(w)
            BY <1>0, <3>2 DEF CommitRevoke, NoOwnerInvited, InvitationRows
        <3>3. CASE CommitRefresh(w)
            BY <1>0, <3>3 DEF CommitRefresh, NoOwnerInvited, InvitationRows
        <3> QED BY <1>1, <3>1, <3>2, <3>3
    <2>3. OneActiveOwner' /\ \A p \in People : Belongs(p) => Belongs(p)'
        BY <1>0, <2>1 DEF OneActiveOwner, Owners, Belongs
    <2> QED BY <1>0, <2>2, <2>3, OwnerRequestEnds DEF OwnerInv
<1>2. CASE CommitAccept(w)
    <2> DEFINE p == invitation[i].person
               role == invitation[i].role
    <2>1. /\ i \in Invitations /\ p \in People /\ role \in Roles \ {"OWNER"} /\ ~Belongs(p)
          /\ member' = [member EXCEPT ![p] = [status |-> "ACTIVE", role |-> role]]
          /\ overtaken' = overtaken
        BY <1>0, <1>2 DEF CommitAccept, Commit, RequestOK, RowsOK, SubjectFree, Available,
                          NoOwnerInvited, InvitationRows
    <2>2. OneActiveOwner' /\ \A q \in People : Belongs(q) => Belongs(q)'
        <3> HIDE DEF p, role
        <3> QED BY <2>1, OwnerJoins
    <2>3. NoOwnerInvited'
        BY <1>0, <1>2 DEF CommitAccept, NoOwnerInvited, InvitationRows
    <2> QED BY <1>0, <2>2, <2>3, OwnerRequestEnds DEF OwnerInv
<1>3. CASE CommitAdd(w)
    <2>1. /\ r.person \in People /\ r.role \in Roles \ {"OWNER"} /\ ~Belongs(r.person)
          /\ member' = [member EXCEPT ![r.person] = [status |-> "ACTIVE", role |-> r.role]]
          /\ UNCHANGED <<invitation, overtaken>>
        BY <1>0, <1>3 DEF CommitAdd, Commit, RequestOK, SubjectFree, Available, OwnerKept
    <2>2. OneActiveOwner' /\ \A q \in People : Belongs(q) => Belongs(q)'
        BY <2>1, OwnerJoins
    <2>3. NoOwnerInvited'
        BY <1>0, <2>1 DEF NoOwnerInvited
    <2> QED BY <1>0, <2>2, <2>3, OwnerRequestEnds DEF OwnerInv
<1>4. CASE CommitUpdate(w) \/ CommitRemove(w)
    <2>1. /\ r.kind \in {"update", "remove"} /\ r.person \in People /\ Belongs(r.person)
          /\ ~r.wasOwner /\ UNCHANGED invitation
          /\ overtaken' = (overtaken \/ OwnershipMoved(r))
        BY <1>0, <1>4 DEF CommitUpdate, CommitRemove, Commit, RequestOK, OwnerKept
    <2>2. /\ \A q \in People \ {r.person} : member'[q] = member[q]
          /\ member'[r.person].role \in {member[r.person].role} \cup (Roles \ {"OWNER"})
          /\ member'[r.person].status # "ABSENT"
        <3>1. CASE CommitUpdate(w)
            BY <1>0, <2>1, <3>1 DEF CommitUpdate, Commit, OwnerKept, Requests, Members,
                                    Belongs, Statuses
        <3>2. CASE CommitRemove(w)
            BY <1>0, <2>1, <3>2 DEF CommitRemove, Members
        <3> QED BY <1>4, <3>1, <3>2
    <2>3. \A q \in People : Belongs(q) => Belongs(q)'
        BY <2>2 DEF Belongs
    <2>4. OneActiveOwner'
        <3>1. ASSUME ~overtaken'
              PROVE  /\ ~overtaken
                     /\ \A q \in People : IF IsOwner(q) THEN member'[q] = member[q]
                                                        ELSE ~IsOwner(q)'
            <4>1. ~overtaken /\ member[r.person].role # "OWNER"
                BY <2>1, <3>1 DEF OwnershipMoved
            <4> QED BY <2>2, <4>1 DEF IsOwner, Belongs
        <3> QED BY <1>0, <3>1, OwnerStays
    <2>5. NoOwnerInvited'
        BY <1>0, <2>1 DEF NoOwnerInvited
    <2> QED BY <1>0, <2>3, <2>4, <2>5, OwnerRequestEnds DEF OwnerInv
<1> QED
    BY <1>1, <1>2, <1>3, <1>4

(* Ownership passes from the one owner to an active member.                 *)
LEMMA OwnerTransfer ==
    ASSUME IInv, OwnerInv, NEW w \in Workers, CommitTransfer(w)
    PROVE  OwnerInv'
<1> DEFINE r == req[w]
<1>0. /\ member \in [People -> Members] /\ r.person \in People /\ r.actor \in People
      /\ Belongs(r.person) /\ Belongs(r.actor) /\ r.actor # r.person
      /\ req' = [req EXCEPT ![w] = Idle] /\ UNCHANGED invitation
      /\ member' = [member EXCEPT ![r.person].role = "OWNER", ![r.actor].role = "ADMIN"]
      /\ NoOwnerInvited /\ OneActiveOwner
    BY DEF IInv, TypeOK, RequestOK, OwnerInv, OwnerKept, CommitTransfer
<1>1. /\ \A q \in People : member'[q].status = member[q].status
      /\ \A q \in People : member'[q].role = IF q = r.person THEN "OWNER"
                                             ELSE IF q = r.actor THEN "ADMIN" ELSE member[q].role
    BY <1>0 DEF Members
<1>2. \A q \in People : Belongs(q)' <=> Belongs(q)
    BY <1>1 DEF Belongs
<1>3. OneActiveOwner'
    <2> SUFFICES ASSUME ~overtaken'
                 PROVE  Owners' = {r.person} /\ member'[r.person].status = "ACTIVE"
        BY <1>0 DEF OneActiveOwner
    <2>1. /\ ~overtaken /\ member[r.actor].role = "OWNER"
          /\ member[r.person].status = "ACTIVE"
        BY DEF CommitTransfer
    <2>2. Owners = {r.actor}
        BY <1>0, <2>1 DEF OneActiveOwner, Owners
    <2>3. \A q \in People : q \in Owners' <=> q = r.person
        BY <1>0, <1>1, <1>2, <2>2 DEF Owners
    <2> QED BY <1>0, <1>1, <2>1, <2>3 DEF Owners
<1>4. NoOwnerInvited'
    BY <1>0 DEF NoOwnerInvited
<1> QED
    BY <1>0, <1>2, <1>3, <1>4, OwnerRequestEnds DEF OwnerInv

LEMMA OwnerStep == IInv /\ OwnerInv /\ [Next]_vars => OwnerInv'
<1> SUFFICES ASSUME IInv, OwnerInv, [Next]_vars PROVE OwnerInv'
    OBVIOUS
<1>1. ASSUME UNCHANGED <<member, overtaken, req>>,
             \A i \in Invitations : invitation'[i].role = invitation[i].role
      PROVE  OwnerInv'
    BY <1>1 DEF OwnerInv, OwnerKept, Belongs, NoOwnerInvited, OneActiveOwner, Owners
<1>2. CASE UNCHANGED vars
    BY <1>1, <1>2 DEF vars
<1>3. ASSUME NEW w \in Workers,
             \/ CheckInvite(w) \/ CheckRevoke(w) \/ CheckRefresh(w) \/ CheckAccept(w)
             \/ CheckAdd(w) \/ CheckUpdate(w) \/ CheckRemove(w) \/ CheckTransfer(w)
             \/ Lock(w)
      PROVE  OwnerInv'
    BY <1>3, OwnerChecks
<1>4. ASSUME NEW w \in Workers,
             \/ CommitInvite(w) \/ CommitRevoke(w) \/ CommitRefresh(w) \/ CommitAccept(w)
             \/ CommitAdd(w) \/ CommitUpdate(w) \/ CommitRemove(w)
      PROVE  OwnerInv'
    BY <1>4, OwnerCommits
<1>5. ASSUME NEW w \in Workers, CommitTransfer(w) PROVE OwnerInv'
    BY <1>5, OwnerTransfer
<1>6. CASE ChangeLimit
    BY <1>1, <1>6 DEF ChangeLimit
<1>7. ASSUME NEW i \in Invitations, Expire(i) PROVE OwnerInv'
    <2>1. \A j \in Invitations : invitation'[j].role = invitation[j].role
        BY <1>7 DEF IInv, TypeOK, Expire, InvitationRows
    <2> QED BY <1>1, <1>7, <2>1 DEF Expire
<1> QED
    BY <1>2, <1>3, <1>4, <1>5, <1>6, <1>7 DEF Next

(* Until a request writes over what has changed since it looked, there is   *)
(* exactly one owner, an active one, through any interleaving of transfers, *)
(* edits, removals, invitations and additions.                              *)
THEOREM OwnerIsOneAndActive == Spec => []OneActiveOwner
<1>1. OwnerInv => OneActiveOwner
    BY DEF OwnerInv
<1> QED
    BY <1>1, Inductive, InitOwner, OwnerStep, PTL DEF Spec

-----------------------------------------------------------------------------
(* Accepted invitations.                                                    *)

Inviting(w) == req[w].at # "idle" /\ req[w].kind = "invite"

(* The row a request is about to write is still new, and only its own.      *)
RowIsNew(w) ==
    Inviting(w) => /\ invitation[req[w].invitation].status = "ABSENT"
                   /\ \A v \in Workers \ {w} : req[v].invitation # req[w].invitation

(* What a transaction that revokes or refreshes has seen under the lock.    *)
NotAccepted(r) ==
    r.at = "locked" /\ r.kind \in {"revoke", "refresh"} =>
       invitation[r.invitation].status # "ACCEPTED"

AcceptedBelong ==
    \A i \in Invitations :
       invitation[i].status = "ACCEPTED" => Belongs(invitation[i].person)

AcceptInv == /\ \A w \in Workers : RowIsNew(w) /\ NotAccepted(req[w])
             /\ AcceptedBelong

LEMMA InitAccept == Init => AcceptInv
BY MembershipAssumption DEF Init, AcceptInv, RowIsNew, Inviting, NotAccepted, AcceptedBelong, Idle,
                            NoInvitation

(* The rows: what is accepted stays, and its person is a member.            *)
Accepted ==
    \A i \in Invitations :
       /\ invitation[i].status = "ACCEPTED" => invitation'[i] = invitation[i]
       /\ invitation'[i].status = "ACCEPTED" => member'[invitation[i].person].status # "ABSENT"
       /\ invitation'[i].status = "ACCEPTED" => invitation'[i].person = invitation[i].person

(* A step of one request, its new row nobody else's.                        *)
LEMMA AcceptChecks ==
    ASSUME IInv, AcceptInv, NEW w \in Workers,
           \/ CheckInvite(w) \/ CheckRevoke(w) \/ CheckRefresh(w) \/ CheckAccept(w)
           \/ CheckAdd(w) \/ CheckUpdate(w) \/ CheckRemove(w) \/ CheckTransfer(w)
           \/ Lock(w)
    PROVE  AcceptInv' /\ Accepted
<1> USE MembershipAssumption
<1>0. /\ UNCHANGED <<member, invitation>>
      /\ req \in [Workers -> Requests] /\ IInv
    BY DEF IInv, TypeOK, CheckInvite, CheckRevoke, CheckRefresh, CheckAccept,
           CheckAdd, CheckUpdate, CheckRemove, CheckTransfer, Lock, Check, Begin, Rows
<1>1. AcceptedBelong' /\ Accepted
    BY <1>0 DEF AcceptInv, AcceptedBelong, Accepted, Belongs
<1>2. /\ \A v \in Workers \ {w} : req'[v] = req[v]
      /\ NotAccepted(req[w])'
      /\ Inviting(w)' =>
           \/ Inviting(w) /\ req'[w].invitation = req[w].invitation
           \/ /\ invitation[req'[w].invitation].status = "ABSENT"
              /\ \A v \in Workers : req[v].invitation # req'[w].invitation
      /\ req'[w].invitation \in Invitations => 
           \/ req'[w].invitation = req[w].invitation
           \/ invitation[req'[w].invitation].status # "ABSENT"
           \/ \A v \in Workers : req[v].invitation # req'[w].invitation
    <2> USE DEF Check, Begin, Idle, Inviting, NotAccepted
    <2>1. CASE CheckInvite(w)
        <3>1. PICK a \in People, p \in People, i \in Invitations, role \in Grants \ {"OWNER"} :
                 /\ invitation[i].status = "ABSENT"
                 /\ \A v \in Workers : req[v].invitation # i
                 /\ Check(w, [Idle EXCEPT !.kind = "invite", !.actor = a, !.person = p,
                                          !.invitation = i, !.role = role])
            BY <2>1 DEF CheckInvite
        <3> QED BY <1>0, <3>1
    <2>2. CASE CheckRevoke(w)
        BY <1>0, <2>2 DEF CheckRevoke, Live
    <2>3. CASE CheckRefresh(w)
        BY <1>0, <2>3 DEF CheckRefresh
    <2>4. CASE CheckAccept(w)
        BY <1>0, <2>4 DEF CheckAccept, Live
    <2>5. CASE CheckAdd(w)
        BY <1>0, <2>5 DEF CheckAdd
    <2>6. CASE CheckUpdate(w)
        <3>1. PICK p \in People, u \in Updates :
                 Check(w, [Idle EXCEPT !.kind = "update", !.person = p,
                             !.role = Changed(u.role, member[p].role),
                             !.status = Changed(u.status, member[p].status),
                             !.wasOwner = member[p].role = "OWNER"])
            BY <2>6 DEF CheckUpdate
        <3> QED BY <1>0, <3>1
    <2>7. CASE CheckRemove(w)
        <3>1. PICK p \in People, was \in BOOLEAN :
                 Check(w, [Idle EXCEPT !.kind = "remove", !.person = p, !.wasOwner = was])
            BY <2>7 DEF CheckRemove
        <3> QED BY <1>0, <3>1
    <2>8. CASE CheckTransfer(w)
        <3>1. PICK a \in People, p \in People :
                 Check(w, [Idle EXCEPT !.kind = "transfer", !.actor = a, !.person = p])
            BY <2>8 DEF CheckTransfer
        <3> QED BY <1>0, <3>1
    <2>9. CASE Lock(w)
        <3>1. CASE LockedChecks(req[w])
            <4>1. /\ req' = [req EXCEPT ![w].at = "locked", ![w].exempt = Exempted]
                  /\ req[w].at = "checked" /\ req[w] \in Requests
                BY <1>0, <2>9, <3>1 DEF Lock
            <4>2. /\ req'[w].kind = req[w].kind /\ req'[w].invitation = req[w].invitation
                  /\ \A v \in Workers \ {w} : req'[v] = req[v]
                BY <1>0, <4>1 DEF Requests
            <4>3. NotAccepted(req[w])'
                BY <1>0, <3>1, <4>2 DEF LockedChecks, StillRevocable, Live
            <4>4. Inviting(w) => req[w].invitation \in Invitations
                BY <1>0, <4>1 DEF IInv, RequestOK
            <4> QED BY <4>1, <4>2, <4>3, <4>4
        <3>2. CASE ~LockedChecks(req[w])
            BY <1>0, <2>9, <3>2 DEF Lock
        <3> QED BY <3>1, <3>2
    <2> QED BY <2>1, <2>2, <2>3, <2>4, <2>5, <2>6, <2>7, <2>8, <2>9
<1>3. \A v \in Workers : RowIsNew(v)' /\ NotAccepted(req[v])'
    BY <1>0, <1>2 DEF AcceptInv, RowIsNew, Inviting, NotAccepted, IInv, RequestOK
<1> QED
    BY <1>1, <1>3 DEF AcceptInv

(* A transaction that commits holds the lock: no other has seen what it     *)
(* changes, and the rows others are about to write are not the ones here.   *)
LEMMA AcceptCommit ==
    ASSUME IInv, AcceptInv, NEW w \in Workers, NEW kind, Commit(w, kind), Accepted,
           \A p \in People : Belongs(p) => Belongs(p)',
           \A i \in Invitations \ {req[w].invitation} : invitation'[i] = invitation[i]
    PROVE  AcceptInv'
<1> USE MembershipAssumption
<1>0. /\ req \in [Workers -> Requests] /\ req' = [req EXCEPT ![w] = Idle]
      /\ req[w].at = "locked" /\ req[w].kind = kind /\ LockHeld /\ holder = w /\ RequestOK(req[w])
    BY DEF IInv, TypeOK, Commit, LockHeld
<1>1. \A v \in Workers : req'[v].at # "locked"
    BY <1>0 DEF LockHeld, Idle
<1>2. ASSUME NEW v \in Workers PROVE RowIsNew(v)'
    <2>1. CASE v = w
        BY <1>0, <2>1 DEF RowIsNew, Inviting, Idle
    <2>2. CASE v # w /\ Inviting(v)
        <3>1. /\ req'[v] = req[v] /\ req[v].invitation \in Invitations
              /\ invitation[req[v].invitation].status = "ABSENT"
              /\ \A u \in Workers \ {v} : req[u].invitation # req[v].invitation
            BY <1>0, <2>2 DEF IInv, RequestOK, AcceptInv, RowIsNew, Inviting
        <3>2. \A u \in Workers \ {v} : req'[u].invitation # req[v].invitation
            BY <1>0, <3>1 DEF Idle
        <3> QED BY <2>2, <3>1, <3>2 DEF RowIsNew
    <2>3. CASE v # w /\ ~Inviting(v)
        BY <1>0, <2>3 DEF RowIsNew, Inviting
    <2> QED BY <2>1, <2>2, <2>3
<1>3. AcceptedBelong'
    BY DEF Accepted, AcceptedBelong, Belongs
<1> QED
    BY <1>1, <1>2, <1>3 DEF AcceptInv, NotAccepted

LEMMA AcceptCommits ==
    ASSUME IInv, AcceptInv, NEW w \in Workers,
           \/ CommitInvite(w) \/ CommitRevoke(w) \/ CommitRefresh(w) \/ CommitAccept(w)
           \/ CommitAdd(w) \/ CommitUpdate(w) \/ CommitRemove(w)
    PROVE  AcceptInv' /\ Accepted
<1> USE MembershipAssumption
<1> DEFINE r == req[w]
           i == r.invitation
<1>0. /\ member \in [People -> Members] /\ invitation \in [Invitations -> InvitationRows]
      /\ r \in Requests /\ r.at = "locked"
      /\ RowsOK /\ RequestOK(r) /\ RowIsNew(w) /\ NotAccepted(r) /\ AcceptedBelong
    BY DEF IInv, TypeOK, AcceptInv, Commit, CommitInvite, CommitRevoke,
           CommitRefresh, CommitAccept, CommitAdd, CommitUpdate, CommitRemove
<1>a. \A j \in Invitations : invitation[j].status = "ACCEPTED" => invitation[j].person \in People
    BY <1>0 DEF RowsOK
<1>1. CASE CommitInvite(w)
    <2>1. /\ Commit(w, "invite") /\ i \in Invitations /\ UNCHANGED member
          /\ invitation[i].status = "ABSENT"
          /\ \A j \in Invitations \ {i} : invitation'[j] = invitation[j]
          /\ invitation'[i].status = "PENDING"
        BY <1>0, <1>1 DEF CommitInvite, Commit, RequestOK, RowIsNew, Inviting
    <2>2. Accepted
        BY <1>0, <1>a, <2>1 DEF Accepted, AcceptedBelong, Belongs
    <2>3. \A p \in People : Belongs(p) => Belongs(p)'
        BY <2>1 DEF Belongs
    <2> QED BY <2>1, <2>2, <2>3, AcceptCommit
<1>2. CASE CommitRevoke(w) \/ CommitRefresh(w)
    <2>1. /\ Commit(w, "revoke") \/ Commit(w, "refresh")
          /\ i \in Invitations /\ UNCHANGED member
          /\ invitation[i].status \notin {"ABSENT", "ACCEPTED"}
        BY <1>0, <1>2 DEF CommitRevoke, CommitRefresh, Commit, RequestOK, NotAccepted
    <2>2. /\ \A j \in Invitations \ {i} : invitation'[j] = invitation[j]
          /\ invitation'[i].status # "ACCEPTED"
        BY <1>0, <1>2, <2>1 DEF CommitRevoke, CommitRefresh, InvitationRows
    <2>3. Accepted
        BY <1>0, <1>a, <2>1, <2>2 DEF Accepted, AcceptedBelong, Belongs
    <2>4. PICK kind : Commit(w, kind)
        BY <2>1
    <2>5. \A p \in People : Belongs(p) => Belongs(p)'
        BY <2>1 DEF Belongs
    <2> QED BY <2>2, <2>3, <2>4, <2>5, AcceptCommit
<1>3. CASE CommitAccept(w)
    <2>1. /\ Commit(w, "accept") /\ i \in Invitations
          /\ invitation[i].status # "ABSENT" /\ invitation[i].person \in People
          /\ invitation' = [invitation EXCEPT ![i].status = "ACCEPTED"]
          /\ \A p \in People : member'[p].status # member[p].status
                                   => member'[p].status = "ACTIVE"
          /\ member'[invitation[i].person].status = "ACTIVE"
        BY <1>0, <1>3 DEF CommitAccept, Commit, RequestOK, RowsOK
    <2>2. /\ \A j \in Invitations \ {i} : invitation'[j] = invitation[j]
          /\ invitation'[i].person = invitation[i].person
          /\ invitation[i].status = "ACCEPTED" => invitation'[i] = invitation[i]
        BY <1>0, <2>1 DEF InvitationRows
    <2>3. \A p \in People : Belongs(p) => Belongs(p)'
        BY <2>1 DEF Belongs
    <2>4. Accepted
        BY <1>0, <1>a, <2>1, <2>2, <2>3 DEF Accepted, AcceptedBelong, Belongs
    <2> QED BY <2>1, <2>2, <2>3, <2>4, AcceptCommit
<1>4. CASE CommitAdd(w) \/ CommitUpdate(w) \/ CommitRemove(w)
    <2>1. /\ Commit(w, "add") \/ Commit(w, "update") \/ Commit(w, "remove")
          /\ r.person \in People /\ UNCHANGED invitation
        BY <1>0, <1>4 DEF CommitAdd, CommitUpdate, CommitRemove, Commit, RequestOK
    <2>2. \A p \in People : Belongs(p) => Belongs(p)'
        <3>1. CASE CommitAdd(w)
            BY <1>0, <2>1, <3>1 DEF CommitAdd, Belongs
        <3>2. CASE CommitUpdate(w)
            BY <1>0, <2>1, <3>2 DEF CommitUpdate, Belongs, Members, Requests, Statuses
        <3>3. CASE CommitRemove(w)
            BY <1>0, <2>1, <3>3 DEF CommitRemove, Belongs, Members
        <3> QED BY <1>4, <3>1, <3>2, <3>3
    <2>3. Accepted
        BY <1>0, <1>a, <2>1, <2>2 DEF Accepted, AcceptedBelong, Belongs
    <2>4. PICK kind : Commit(w, kind)
        BY <2>1
    <2> QED BY <2>1, <2>2, <2>3, <2>4, AcceptCommit
<1> QED
    BY <1>1, <1>2, <1>3, <1>4

LEMMA AcceptStep == IInv /\ AcceptInv /\ [Next]_vars => AcceptInv' /\ [Accepted]_vars
<1> SUFFICES ASSUME IInv, AcceptInv, [Next]_vars PROVE AcceptInv' /\ [Accepted]_vars
    OBVIOUS
<1> USE MembershipAssumption
<1>0. /\ req \in [Workers -> Requests] /\ invitation \in [Invitations -> InvitationRows]
      /\ member \in [People -> Members] /\ AcceptedBelong
      /\ \A i \in Invitations : invitation[i].status # "ABSENT" => invitation[i].person \in People
      /\ \A w \in Workers : Inviting(w) => req[w].invitation \in Invitations
    BY DEF IInv, TypeOK, RowsOK, RequestOK, AcceptInv, Inviting
<1>1. ASSUME UNCHANGED req,
             \A p \in People : member'[p].status = member[p].status,
             \A i \in Invitations : /\ invitation'[i].status = invitation[i].status
                                    /\ invitation'[i].person = invitation[i].person
                                    /\ invitation[i].status = "ACCEPTED" =>
                                          invitation'[i] = invitation[i]
      PROVE  AcceptInv' /\ Accepted
    <2>1. \A w \in Workers : req[w].at = "locked" /\ req[w].kind \in {"revoke", "refresh"} =>
                                req[w].invitation \in Invitations
        BY DEF IInv, RequestOK
    <2>2. AcceptedBelong' /\ Accepted
        BY <1>0, <1>1 DEF AcceptedBelong, Accepted, Belongs
    <2> QED
        BY <1>0, <1>1, <2>1, <2>2 DEF AcceptInv, RowIsNew, Inviting, NotAccepted
<1>2. CASE UNCHANGED vars
    BY <1>1, <1>2 DEF vars
<1>3. ASSUME NEW w \in Workers,
             \/ CheckInvite(w) \/ CheckRevoke(w) \/ CheckRefresh(w) \/ CheckAccept(w)
             \/ CheckAdd(w) \/ CheckUpdate(w) \/ CheckRemove(w) \/ CheckTransfer(w)
             \/ Lock(w)
      PROVE  AcceptInv' /\ Accepted
    BY <1>3, AcceptChecks
<1>4. ASSUME NEW w \in Workers,
             \/ CommitInvite(w) \/ CommitRevoke(w) \/ CommitRefresh(w) \/ CommitAccept(w)
             \/ CommitAdd(w) \/ CommitUpdate(w) \/ CommitRemove(w)
      PROVE  AcceptInv' /\ Accepted
    BY <1>4, AcceptCommits
<1>5. ASSUME NEW w \in Workers, CommitTransfer(w) PROVE AcceptInv' /\ Accepted
    <2>1. /\ \A p \in People : member'[p].status = member[p].status
          /\ UNCHANGED invitation /\ req' = [req EXCEPT ![w] = Idle]
        BY <1>0, <1>5 DEF CommitTransfer, Members
    <2>2. AcceptedBelong' /\ Accepted
        BY <1>0, <2>1 DEF AcceptedBelong, Accepted, Belongs
    <2>3. \A v \in Workers : RowIsNew(v)' /\ NotAccepted(req[v])'
        BY <1>0, <2>1 DEF AcceptInv, RowIsNew, Inviting, NotAccepted, Idle
    <2> QED BY <2>2, <2>3 DEF AcceptInv
<1>6. CASE ChangeLimit
    BY <1>1, <1>6 DEF ChangeLimit
<1>7. ASSUME NEW i \in Invitations, Expire(i) PROVE AcceptInv' /\ Accepted
    <2>1. \A j \in Invitations : /\ invitation'[j].status = invitation[j].status
                                 /\ invitation'[j].person = invitation[j].person
                                 /\ invitation[j].status = "ACCEPTED" =>
                                       invitation'[j] = invitation[j]
        BY <1>0, <1>7 DEF Expire, Live, InvitationRows
    <2> QED BY <1>1, <1>7, <2>1 DEF Expire
<1> QED
    BY <1>2, <1>3, <1>4, <1>5, <1>6, <1>7 DEF Next

(* An accepted invitation stays as it is, and its person stays a member,    *)
(* whatever other requests had read of it before it was accepted.           *)
THEOREM AcceptedStaysAccepted == Spec => AcceptedForGood
<1>1. [Accepted]_vars =>
        [ \A i \in Invitations :
            /\ invitation[i].status = "ACCEPTED" => invitation'[i] = invitation[i]
            /\ invitation'[i].status = "ACCEPTED" =>
                  member'[invitation[i].person].status # "ABSENT" ]_vars
    BY DEF Accepted
<1> QED
    BY <1>1, Inductive, InitAccept, AcceptStep, PTL DEF Spec, AcceptedForGood
=============================================================================
