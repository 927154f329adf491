----------------------------- MODULE Membership -----------------------------
(***************************************************************************)
(* Who belongs to an organization (src/src/modules/memberships,            *)
(* membership-invitations, the ownership transfer of organizations) and    *)
(* how many may (billing/billing-capacity.service.ts).                     *)
(*                                                                         *)
(* A service checks what it reads and leaves the write to a repository     *)
(* transaction.  Every such transaction but one starts with                *)
(* lockOrganizationUserCapacity, SELECT ... FOR UPDATE on the              *)
(* organization, and repeats some of the checks under that lock; Lock is   *)
(* that first half and the Commit actions the second, and the checks of    *)
(* the first half are LockedChecks.  Transferring ownership neither locks  *)
(* nor repeats anything, and time passes regardless.                       *)
(*                                                                         *)
(* One organization, never archived.  Invitation tokens, the link to an    *)
(* employee and individual permissions are left out: a member of any role  *)
(* may hold the permission to manage members.  The actor's role and the    *)
(* subject are read together.                                              *)
(***************************************************************************)
EXTENDS Integers, FiniteSets

CONSTANTS Workers,        \* concurrent request handlers
          People,         \* users who may belong to the organization
          Invitations,    \* identities of invitation rows
          None,           \* nobody, nothing, and a field left alone
          Owner,          \* who created the organization
          BillingExempt,  \* platform administrators exempt from billing
          Limits,         \* user limits subscriptions grant; 0 is no subscription
          Grants,         \* roles explored for new members
          Updates         \* edits of a membership explored

Roles == {"OWNER", "ADMIN", "EMPLOYEE"}     \* EMPLOYEE: every lesser role
Statuses == {"INVITED", "ACTIVE", "SUSPENDED", "REMOVED"}

ASSUME MembershipAssumption ==
    /\ Owner \in People /\ BillingExempt \subseteq People
    /\ Limits \subseteq Nat /\ Limits # {}
    /\ Grants \subseteq Roles
    /\ Updates \subseteq [role : Roles \cup {None}, status : Statuses \cup {None}]
    /\ None \notin Workers \cup People \cup Invitations \cup Roles \cup Statuses
    /\ IsFiniteSet(People) /\ IsFiniteSet(Invitations)

VARIABLES
    member,      \* the membership row of each person
    invitation,  \* the invitation rows
    limit,       \* the user limit the synchronized billing state grants
    holder,      \* who holds the organization's row lock
    overtaken,   \* a request wrote the membership of someone whose role, or
                 \* standing as the next owner, had changed since it looked
    req          \* what each worker's request is about and where it stands

vars == <<member, invitation, limit, holder, overtaken, req>>

NoMember == [status |-> "ABSENT", role |-> "EMPLOYEE"]
Members == [status : Statuses \cup {"ABSENT"}, role : Roles]

NoInvitation == [status |-> "ABSENT", person |-> None, role |-> "EMPLOYEE",
                 expired |-> FALSE]
InvitationRows ==
    [status : {"ABSENT", "PENDING", "ACCEPTED", "REVOKED"},
     person : People \cup {None}, role : Roles, expired : BOOLEAN]

LockingKinds == {"invite", "revoke", "refresh", "accept", "add", "update", "remove"}

Idle == [at |-> "idle", kind |-> "add", actor |-> None, person |-> None,
         invitation |-> None, role |-> None, status |-> None, wasOwner |-> FALSE,
         exempt |-> FALSE]

Requests ==
    [at : {"idle", "checked", "locked"}, kind : LockingKinds \cup {"transfer"},
     actor : People \cup {None}, person : People \cup {None},
     invitation : Invitations \cup {None}, role : Roles \cup {None},
     status : Statuses \cup {None}, wasOwner : BOOLEAN, exempt : BOOLEAN]

TypeOK ==
    /\ member \in [People -> Members]
    /\ invitation \in [Invitations -> InvitationRows]
    /\ limit \in Limits
    /\ holder \in Workers \cup {None}
    /\ overtaken \in BOOLEAN
    /\ req \in [Workers -> Requests]

Init ==
    /\ member = [p \in People |->
                   IF p = Owner THEN [status |-> "ACTIVE", role |-> "OWNER"]
                                ELSE NoMember]
    /\ invitation = [i \in Invitations |-> NoInvitation]
    /\ limit \in Limits
    /\ holder = None
    /\ overtaken = FALSE
    /\ req = [w \in Workers |-> Idle]

-----------------------------------------------------------------------------
(* Capacity: assertOrganizationUserCapacity.                               *)

Belongs(p) == member[p].status # "ABSENT"

Live(i) == invitation[i].status = "PENDING" /\ ~invitation[i].expired

Assigned == {p \in People : member[p].status \in {"ACTIVE", "INVITED"}}
Reserved == {i \in Invitations : Live(i)}

UsedBy(people, invitations) == Cardinality(people) + Cardinality(invitations)
Used == UsedBy(Assigned, Reserved)

Exempted == \E p \in BillingExempt : member[p] = [status |-> "ACTIVE", role |-> "OWNER"]

(* Room for one more, the reservation it replaces not counted.             *)
HasRoom(person, i) ==
    Exempted \/ UsedBy(Assigned \ {person}, Reserved \ {i}) + 1 <= limit

-----------------------------------------------------------------------------
(* Requests.                                                               *)

Rows == <<member, invitation, limit>>

Begin(w, request) ==
    /\ req' = [req EXCEPT ![w] = request]
    /\ UNCHANGED <<Rows, holder, overtaken>>

Check(w, request) ==
    /\ req[w].at = "idle"
    /\ Begin(w, [request EXCEPT !.at = "checked"])

(* A handler runs for an active member.                                    *)
MayAct(p) == member[p].status = "ACTIVE"

(* An invited person with a membership, or another live invitation.        *)
Available(person, i) ==
    /\ ~Belongs(person)
    /\ \A j \in Reserved \ {i} : invitation[j].person # person

CheckInvite(w) ==
    \E a, p \in People, i \in Invitations, role \in Grants \ {"OWNER"} :
        /\ MayAct(a)
        /\ ~(member[a].role = "ADMIN" /\ role = "ADMIN")
        /\ Available(p, None)
        /\ invitation[i].status = "ABSENT" /\ \A v \in Workers : req[v].invitation # i
        /\ Check(w, [Idle EXCEPT !.kind = "invite", !.actor = a, !.person = p,
                                 !.invitation = i, !.role = role])

CheckRevoke(w) ==
    \E i \in Invitations :
        /\ Live(i)
        /\ Check(w, [Idle EXCEPT !.kind = "revoke", !.invitation = i])

(* A revoked or expired invitation may be refreshed.                       *)
CheckRefresh(w) ==
    \E i \in Invitations :
        /\ invitation[i].status \in {"PENDING", "REVOKED"}
        /\ Check(w, [Idle EXCEPT !.kind = "refresh", !.invitation = i])

CheckAccept(w) ==
    \E i \in Invitations :
        /\ Live(i) /\ ~Belongs(invitation[i].person)
        /\ Check(w, [Idle EXCEPT !.kind = "accept", !.invitation = i])

CheckAdd(w) ==
    \E a, p \in People, role \in Grants \ {"OWNER"} :
        /\ MayAct(a)
        /\ ~(member[a].role = "ADMIN" /\ role = "ADMIN")
        /\ ~Belongs(p)
        /\ Check(w, [Idle EXCEPT !.kind = "add", !.person = p, !.role = role])

(* Faulty variant: the owner's membership like any other.                  *)
MayManageOwner(a, p) ==
    /\ MayAct(a) /\ a # p /\ Belongs(p)
    /\ ~(member[a].role = "ADMIN" /\ member[p].role = "ADMIN")

(* The policy for edits and removals: not of an owner, of oneself, or, by  *)
(* an administrator, of another one.                                       *)
MayManage(a, p) ==
    /\ MayAct(a) /\ a # p /\ Belongs(p)
    /\ member[p].role # "OWNER"
    /\ ~(member[a].role = "ADMIN" /\ member[p].role = "ADMIN")

(* The fields an edit changes; the others are not written.                 *)
Changed(value, current) == IF value = current THEN None ELSE value

(* An edit changes something, makes nobody the owner, and an administrator *)
(* makes nobody another one.                                               *)
MayUpdate(a, p, u) ==
    /\ MayManage(a, p)
    /\ u.role # "OWNER"
    /\ ~(member[a].role = "ADMIN" /\ u.role = "ADMIN")
    /\ \/ Changed(u.role, member[p].role) # None
       \/ Changed(u.status, member[p].status) # None

CheckUpdate(w) ==
    \E a, p \in People, u \in Updates :
        /\ MayUpdate(a, p, u)
        /\ Check(w, [Idle EXCEPT !.kind = "update", !.person = p,
                                 !.role = Changed(u.role, member[p].role),
                                 !.status = Changed(u.status, member[p].status),
                                 !.wasOwner = member[p].role = "OWNER"])

CheckRemove(w) ==
    \E a, p \in People :
        /\ MayManage(a, p)
        /\ member[p].status # "REMOVED"
        /\ Check(w, [Idle EXCEPT !.kind = "remove", !.person = p,
                                 !.wasOwner = member[p].role = "OWNER"])

CheckTransfer(w) ==
    \E a, p \in People :
        /\ MayAct(a) /\ member[a].role = "OWNER" /\ a # p
        /\ member[p].status = "ACTIVE" /\ member[p].role # "OWNER"
        /\ Check(w, [Idle EXCEPT !.kind = "transfer", !.actor = a, !.person = p])

-----------------------------------------------------------------------------
(* The transactions.                                                       *)

(* Faulty variant: the target of an invitation not looked at again.        *)
StillInvitableAnyone(r) == MayAct(r.actor)

StillInvitable(r) == Available(r.person, None) /\ MayAct(r.actor)

(* Faulty variant: an invitation revoked as it was found by the service.   *)
StillRevocableAlways(i) == invitation[i].status # "ABSENT"

StillRevocable(i) == Live(i)

(* An edit takes a slot when the member becomes active or reserved.        *)
TakesSlot(p, status) ==
    \/ status = "ACTIVE" /\ member[p].status # "ACTIVE"
    \/ status = "INVITED" /\ member[p].status \notin {"INVITED", "ACTIVE"}

LockedChecks(r) ==
    LET i == r.invitation
    IN CASE r.kind = "invite" -> StillInvitable(r) /\ HasRoom(None, None)
         [] r.kind = "revoke" -> StillRevocable(i)
         [] r.kind = "refresh" -> /\ invitation[i].status # "ACCEPTED"
                                  /\ Available(invitation[i].person, i)
                                  /\ HasRoom(None, i)
         [] r.kind = "accept" -> /\ Live(i) /\ ~Belongs(invitation[i].person)
                                 /\ HasRoom(None, i)
         [] r.kind = "add" -> Available(r.person, None) /\ HasRoom(None, None)
         [] r.kind = "update" -> TakesSlot(r.person, r.status) => HasRoom(r.person, None)
         [] r.kind = "remove" -> Belongs(r.person)

(* Faulty variant: the organization's row read without FOR UPDATE.         *)
LockFreeAlways == holder \in Workers \cup {None}

LockFree == holder = None

(* A transaction that fails a check throws, and is rolled back.            *)
Lock(w) ==
    /\ req[w].at = "checked" /\ req[w].kind \in LockingKinds
    /\ LockFree
    /\ IF LockedChecks(req[w])
         THEN /\ holder' = w
              /\ req' = [req EXCEPT ![w].at = "locked", ![w].exempt = Exempted]
         ELSE /\ req' = [req EXCEPT ![w] = Idle]
              /\ UNCHANGED holder
    /\ UNCHANGED <<Rows, overtaken>>

Commit(w, kind) ==
    /\ req[w].at = "locked" /\ req[w].kind = kind
    /\ holder' = None
    /\ req' = [req EXCEPT ![w] = Idle]
    /\ UNCHANGED limit

CommitInvite(w) ==
    /\ Commit(w, "invite")
    /\ invitation' = [invitation EXCEPT ![req[w].invitation] =
                        [status |-> "PENDING", person |-> req[w].person,
                         role |-> req[w].role, expired |-> FALSE]]
    /\ UNCHANGED <<member, overtaken>>

CommitRevoke(w) ==
    /\ Commit(w, "revoke")
    /\ invitation' = [invitation EXCEPT ![req[w].invitation].status = "REVOKED"]
    /\ UNCHANGED <<member, overtaken>>

CommitRefresh(w) ==
    /\ Commit(w, "refresh")
    /\ invitation' = [invitation EXCEPT ![req[w].invitation].status = "PENDING",
                                        ![req[w].invitation].expired = FALSE]
    /\ UNCHANGED <<member, overtaken>>

CommitAccept(w) ==
    LET i == req[w].invitation
    IN /\ Commit(w, "accept")
       /\ member' = [member EXCEPT ![invitation[i].person] =
                       [status |-> "ACTIVE", role |-> invitation[i].role]]
       /\ invitation' = [invitation EXCEPT ![i].status = "ACCEPTED"]
       /\ UNCHANGED overtaken

CommitAdd(w) ==
    /\ Commit(w, "add")
    /\ member' = [member EXCEPT ![req[w].person] =
                    [status |-> "ACTIVE", role |-> req[w].role]]
    /\ UNCHANGED <<invitation, overtaken>>

OwnershipMoved(r) == r.wasOwner # (member[r.person].role = "OWNER")

CommitUpdate(w) ==
    LET r == req[w]
    IN /\ Commit(w, "update")
       /\ member' = [member EXCEPT
            ![r.person].role = IF r.role = None THEN @ ELSE r.role,
            ![r.person].status = IF r.status = None THEN @ ELSE r.status]
       /\ overtaken' = (overtaken \/ OwnershipMoved(r))
       /\ UNCHANGED invitation

CommitRemove(w) ==
    LET r == req[w]
    IN /\ Commit(w, "remove")
       /\ member' = [member EXCEPT ![r.person].status = "REMOVED"]
       /\ overtaken' = (overtaken \/ OwnershipMoved(r))
       /\ UNCHANGED invitation

(* The one transaction that takes no lock and looks at nothing again.      *)
CommitTransfer(w) ==
    LET r == req[w]
    IN /\ r.at = "checked" /\ r.kind = "transfer"
       /\ member' = [member EXCEPT ![r.person].role = "OWNER",
                                   ![r.actor].role = "ADMIN"]
       /\ overtaken' = \/ overtaken
                       \/ member[r.actor].role # "OWNER"
                       \/ member[r.person].status # "ACTIVE"
                       \/ member[r.person].role = "OWNER"
       /\ req' = [req EXCEPT ![w] = Idle]
       /\ UNCHANGED <<invitation, limit, holder>>

(* Billing changes the limit under the same lock, or by updating the       *)
(* OrganizationBilling row the lock covers too.                            *)
ChangeLimit ==
    /\ LockFree
    /\ \E n \in Limits \ {limit} : limit' = n
    /\ UNCHANGED <<member, invitation, holder, overtaken, req>>

Expire(i) ==
    /\ Live(i)
    /\ invitation' = [invitation EXCEPT ![i].expired = TRUE]
    /\ UNCHANGED <<member, limit, holder, overtaken, req>>

-----------------------------------------------------------------------------
Next ==
    \/ \E w \in Workers :
         \/ CheckInvite(w) \/ CheckRevoke(w) \/ CheckRefresh(w) \/ CheckAccept(w)
         \/ CheckAdd(w) \/ CheckUpdate(w) \/ CheckRemove(w) \/ CheckTransfer(w)
         \/ Lock(w)
         \/ CommitInvite(w) \/ CommitRevoke(w) \/ CommitRefresh(w) \/ CommitAccept(w)
         \/ CommitAdd(w) \/ CommitUpdate(w) \/ CommitRemove(w) \/ CommitTransfer(w)
    \/ ChangeLimit
    \/ \E i \in Invitations : Expire(i)

Spec == Init /\ [][Next]_vars

-----------------------------------------------------------------------------
(* However requests interleave, no slot is taken past the limit the         *)
(* subscription grants at that moment: members, reserved members and live   *)
(* invitations only grow in number within it, or in a transaction that      *)
(* found the organization exempt (billing-capacity.service.ts:384-397).     *)
SlotsNeverOversold ==
    [][ Used' > Used => \/ Used' <= limit'
                        \/ \E w \in Workers : holder = w /\ req[w].exempt ]_vars

(* A person holds at most one slot: no second live invitation, and none     *)
(* beside a membership (membership.repository.ts:308-310, "A pending        *)
(* invitation already reserves this person's slot").                        *)
NobodyReservedTwice ==
    \A i \in Reserved :
        /\ ~Belongs(invitation[i].person)
        /\ \A j \in Reserved \ {i} : invitation[j].person # invitation[i].person

(* An accepted invitation is never revoked, refreshed or accepted again,    *)
(* and it has made its person a member.                                     *)
AcceptedForGood ==
    [][ \A i \in Invitations :
          /\ invitation[i].status = "ACCEPTED" => invitation'[i] = invitation[i]
          /\ invitation'[i].status = "ACCEPTED" => member'[invitation[i].person].status # "ABSENT"
      ]_vars

Owners == {p \in People : member[p].role = "OWNER" /\ Belongs(p)}

(* Unless a request was overtaken, the organization has exactly one owner   *)
(* and that owner is active, through transfers, edits and removals.         *)
OneActiveOwner ==
    ~overtaken => \E p \in People : Owners = {p} /\ member[p].status = "ACTIVE"

(* "Owners cannot be removed." (membership.policy.ts:97).                   *)
OwnersAreNotRemoved ==
    [][ \A p \in Owners : member[p].status # "REMOVED" => member'[p].status # "REMOVED" ]_vars
=============================================================================
