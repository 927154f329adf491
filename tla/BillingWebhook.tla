---------------------------- MODULE BillingWebhook ----------------------------
(***************************************************************************)
(* How the mirror of an organization's Stripe subscription is kept         *)
(* (src/src/modules/billing: billing-webhook.*, billing-sync.service.ts).  *)
(*                                                                         *)
(* A webhook request claims its event with a lease of five minutes, reads  *)
(* lastSyncedAt, asks Stripe for the subscription, and completes the event *)
(* and the synchronization in one transaction that compares the claim and  *)
(* lastSyncedAt again.  It may fail, be slow, or die with its process at   *)
(* any point; Stripe delivers an event again until it is acknowledged, and *)
(* may deliver it twice.  A confirmed plan or capacity change synchronizes *)
(* the same way without an event.                                          *)
(*                                                                         *)
(* One organization whose customer is known and has one subscription.  A   *)
(* subscription is its version; the outcome of a pending change, applied   *)
(* in the same transaction, is left out but for that it can fail.          *)
(***************************************************************************)
EXTENDS Naturals

CONSTANTS Workers,      \* concurrent request handlers
          Events,       \* Stripe events about the subscription
          None,         \* no worker, no event
          MaxVersion,   \* bound on changes of the subscription
          MaxFaults,    \* bound on failed attempts
          MaxCrashes,   \* bound on attempts that die with their claim
          MaxDelays,    \* bound on leases that end during an attempt
          MaxConfirms   \* bound on confirmed changes

ASSUME WebhookAssumption ==
    /\ None \notin Workers \cup Events
    /\ MaxVersion \in Nat /\ MaxFaults \in Nat /\ MaxCrashes \in Nat
    /\ MaxDelays \in Nat /\ MaxConfirms \in Nat

VARIABLES
    version,  \* how often the subscription has changed at Stripe
    about,    \* the version an event was sent at; 0 is not sent
    mirror,   \* the version OrganizationBilling holds; 0 is none
    synced,   \* OrganizationBilling.lastSyncedAt, every write a new value
    event,    \* the StripeWebhookEvent rows
    req,      \* what each worker's request has claimed and read
    faults, crashes, delays, confirms   \* how much of each bound is used

bounded == <<faults, crashes, delays, confirms>>
vars == <<version, about, mirror, synced, event, req, bounded>>

NewEvent == [token |-> None, lease |-> "none", processed |-> FALSE]

Idle == [at |-> "idle", event |-> None, base |-> 0, seen |-> 0]

Requests == [at : {"idle", "begun", "based", "fetched", "failed"},
             event : Events \cup {None}, base : Nat, seen : Nat]

TypeOK ==
    /\ version \in Nat /\ about \in [Events -> Nat]
    /\ mirror \in Nat /\ synced \in Nat
    /\ event \in [Events -> [token : Workers \cup {None},
                             lease : {"none", "running", "over"}, processed : BOOLEAN]]
    /\ req \in [Workers -> Requests]
    /\ faults \in Nat /\ crashes \in Nat /\ delays \in Nat /\ confirms \in Nat

Init ==
    /\ version = 0 /\ about = [e \in Events |-> 0]
    /\ mirror = 0 /\ synced = 0
    /\ event = [e \in Events |-> NewEvent]
    /\ req = [w \in Workers |-> Idle]
    /\ faults = 0 /\ crashes = 0 /\ delays = 0 /\ confirms = 0

-----------------------------------------------------------------------------
(* Stripe and time.                                                        *)

Change ==
    /\ version < MaxVersion
    /\ version' = version + 1
    /\ UNCHANGED <<about, mirror, synced, event, req, bounded>>

Send(e) ==
    /\ about[e] = 0 /\ version > 0
    /\ about' = [about EXCEPT ![e] = version]
    /\ UNCHANGED <<version, mirror, synced, event, req, bounded>>

Alive(e) == \E w \in Workers : req[w].event = e /\ event[e].token = w

(* The lease of a claim whose request is gone ends.                        *)
LeaseEnds(e) ==
    /\ event[e].lease = "running" /\ ~Alive(e)
    /\ event' = [event EXCEPT ![e].lease = "over"]
    /\ UNCHANGED <<version, about, mirror, synced, req, bounded>>

(* A request takes longer than its lease.                                  *)
LeaseEndsEarly(e) ==
    /\ event[e].lease = "running" /\ Alive(e)
    /\ delays < MaxDelays
    /\ event' = [event EXCEPT ![e].lease = "over"]
    /\ delays' = delays + 1
    /\ UNCHANGED <<version, about, mirror, synced, req, faults, crashes, confirms>>

-----------------------------------------------------------------------------
(* An attempt.                                                             *)

Step(w, request) == req' = [req EXCEPT ![w] = request]

(* Faulty variant: the end of a lease not looked at.                       *)
ClaimableUnleased(e) == event[e].lease = "none"

Claimable(e) == event[e].lease \in {"none", "over"}

(* An event that is processed, or claimed, is left alone.                  *)
ClaimEvent(w, e) ==
    /\ req[w].at = "idle"
    /\ about[e] > 0 /\ ~event[e].processed /\ Claimable(e)
    /\ event' = [event EXCEPT ![e] = [token |-> w, lease |-> "running",
                                      processed |-> FALSE]]
    /\ Step(w, [Idle EXCEPT !.at = "begun", !.event = e])
    /\ UNCHANGED <<version, about, mirror, synced, bounded>>

BeginConfirm(w) ==
    /\ req[w].at = "idle" /\ version > 0
    /\ confirms < MaxConfirms
    /\ Step(w, [Idle EXCEPT !.at = "begun"])
    /\ confirms' = confirms + 1
    /\ UNCHANGED <<version, about, mirror, synced, event, faults, crashes, delays>>

(* The first statement of prepareBillingSynchronization.                   *)
ReadBaseline(w) ==
    /\ req[w].at = "begun"
    /\ Step(w, [req[w] EXCEPT !.at = "based", !.base = synced])
    /\ UNCHANGED <<version, about, mirror, synced, event, bounded>>

(* Its request to Stripe.                                                  *)
FetchSubscription(w) ==
    /\ req[w].at = "based"
    /\ Step(w, [req[w] EXCEPT !.at = "fetched", !.seen = version])
    /\ UNCHANGED <<version, about, mirror, synced, event, bounded>>

Fenced(w) ==
    LET row == event[req[w].event]
    IN row.token = w /\ ~row.processed /\ row.lease = "running"

(* Faulty variant: the subscription written whenever it was read.          *)
BaselineCurrentAlways(w) == req[w].base <= synced

(* applyBillingSynchronization compares lastSyncedAt.                      *)
BaselineCurrent(w) == req[w].base = synced

Synchronize(w) ==
    /\ req[w].at = "fetched"
    /\ BaselineCurrent(w)
    /\ mirror' = req[w].seen
    /\ synced' = synced + 1
    /\ Step(w, Idle)
    /\ UNCHANGED <<version, about, bounded>>

(* Faulty variant: a lease value with no meaning left in the row.          *)
ProcessedEventWrongEnum == [token |-> None, lease |-> "done", processed |-> TRUE]

ProcessedEvent == [token |-> None, lease |-> "none", processed |-> TRUE]

(* The claim's row lock is held from the comparison to the commit.         *)
CompleteEvent(w) ==
    /\ req[w].event # None
    /\ Fenced(w)
    /\ Synchronize(w)
    /\ event' = [event EXCEPT ![req[w].event] = ProcessedEvent]

CompleteConfirm(w) ==
    /\ req[w].event = None
    /\ Synchronize(w)
    /\ UNCHANGED event

(* The transaction finds the claim lost or lastSyncedAt changed.           *)
Refused(w) ==
    /\ req[w].at = "fetched"
    /\ ~BaselineCurrent(w) \/ (req[w].event # None /\ ~Fenced(w))
    /\ Step(w, [req[w] EXCEPT !.at = "failed"])
    /\ UNCHANGED <<version, about, mirror, synced, event, bounded>>

(* Stripe or the database fails, or the outcome must be retried.           *)
Fail(w) ==
    /\ req[w].at \in {"begun", "based", "fetched"}
    /\ faults < MaxFaults
    /\ Step(w, [req[w] EXCEPT !.at = "failed"])
    /\ faults' = faults + 1
    /\ UNCHANGED <<version, about, mirror, synced, event, crashes, delays, confirms>>

(* Faulty variant: the processing state reset whoever has it.              *)
ReleasableAnyones(w) == ~event[req[w].event].processed

Releasable(w) ==
    LET row == event[req[w].event] IN row.token = w /\ ~row.processed

(* The error handler releases the claim if it is still this attempt's.     *)
Release(w) ==
    /\ req[w].at = "failed"
    /\ event' = IF req[w].event # None /\ Releasable(w)
                  THEN [event EXCEPT ![req[w].event] = NewEvent] ELSE event
    /\ Step(w, Idle)
    /\ UNCHANGED <<version, about, mirror, synced, bounded>>

(* The process ends, or the release itself fails.                          *)
Crash(w) ==
    /\ req[w].at # "idle"
    /\ crashes < MaxCrashes
    /\ Step(w, Idle)
    /\ crashes' = crashes + 1
    /\ UNCHANGED <<version, about, mirror, synced, event, faults, delays, confirms>>

-----------------------------------------------------------------------------
Attempt(w) ==
    \/ ReadBaseline(w) \/ FetchSubscription(w)
    \/ CompleteEvent(w) \/ CompleteConfirm(w) \/ Refused(w) \/ Release(w)

Next ==
    \/ Change
    \/ \E e \in Events : Send(e) \/ LeaseEnds(e) \/ LeaseEndsEarly(e)
    \/ \E w \in Workers :
         \/ \E e \in Events : ClaimEvent(w, e)
         \/ BeginConfirm(w) \/ Attempt(w) \/ Fail(w) \/ Crash(w)

Spec == Init /\ [][Next]_vars

(* A request that is alive goes on; time passes; and Stripe delivers an    *)
(* event until it is acknowledged.  Nothing makes Stripe change or send.   *)
Fairness ==
    /\ \A w \in Workers : WF_vars(Attempt(w))
    /\ \A e \in Events : WF_vars(LeaseEnds(e)) /\ WF_vars(\E w \in Workers : ClaimEvent(w, e))

FairSpec == Spec /\ Fairness

-----------------------------------------------------------------------------
Processed == {e \in Events : event[e].processed}

(* Whatever attempts overlap, fail, outlive their lease or die, the mirror  *)
(* never goes back to an older subscription, and an event is completed once *)
(* and only when the mirror is at least as new as the event ("Both          *)
(* outcomes, subscription state, and the webhook completion marker commit   *)
(* together", billing-webhook.service.ts:217-218).                          *)
Mirror == INSTANCE BillingMirror WITH done <- Processed

ImplementsMirror == Mirror!Spec

(* No acknowledged event is lost: later synchronizations keep what it told. *)
AcknowledgedIsMirrored == \A e \in Processed : mirror >= about[e]

(* A claim is its attempt's until it completes, fails, dies or outlives its *)
(* lease: neither a second delivery nor the error handler of an earlier     *)
(* attempt at the event takes it away ("Fence out workers whose claim       *)
(* expired or was replaced", billing-webhook.repository.ts:147).            *)
ClaimHoldsItsLease ==
    [][\A w \in Workers : req[w].event # None /\ Fenced(w) =>
          \/ req'[w].event # None /\ Fenced(w)'
          \/ req'[w] # req[w]
          \/ event'[req[w].event].lease = "over"]_vars

(* An event sent is acknowledged, though attempts fail, crash, are slow and *)
(* collide a bounded number of times: a claim left behind by a dead process *)
(* ends with its lease (billing-webhook.service.ts:237-238).                *)
EveryEventIsAcknowledged ==
    \A e \in Events : about[e] > 0 ~> event[e].processed
=============================================================================
