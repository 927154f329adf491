---------------------------- MODULE BillingCheckout ----------------------------
(***************************************************************************)
(* Starting a subscription (src/src/modules/billing: billing-checkout and  *)
(* the part of billing-sync.service.ts that ends a checkout).  A request   *)
(* claims the organization's billing row for an operation of its own, asks *)
(* Stripe for a session under the operation's idempotency key, and stores  *)
(* the session under the claim.  Each is a statement or a call of its own: *)
(* the answer may be lost and the process may die between any two.  A later*)
(* request finds the session by its operation.  A webhook that finds the   *)
(* session complete ends the claim, together with the synchronization.     *)
(*                                                                         *)
(* One organization whose customer is known, and one plan.  A session, and *)
(* the subscription it leads to, are named by their operation.  The claims *)
(* on webhook events are left out (see BillingWebhook), and so is the      *)
(* trial.  Stripe and its customer are external.                           *)
(***************************************************************************)
EXTENDS Naturals, FiniteSets

CONSTANTS Workers,    \* concurrent checkout requests
          Operations, \* identities of checkout operations
          None        \* no operation, no session

ASSUME CheckoutAssumption == None \notin Operations

VARIABLES
    billing,      \* the OrganizationBilling row
    session,      \* the sessions at Stripe
    subscription, \* the subscriptions at Stripe
    latest,       \* the subscription that was started last
    offered,      \* sessions whose address was given to the user
    events,       \* webhook events not processed yet
    req,          \* what each request has read and where it stands
    hook          \* the webhook being processed

external == <<session, subscription, latest, offered, events>>
vars == <<billing, external, req, hook>>

Named == Operations \cup {None}

(* CANCELED stands for every status that allows a new subscription.        *)
Billings == [status : {"ACTIVE", "CANCELED"}, operation : Named, session : Named]

Events == [operation : Operations, kind : {"started", "completed", "expired", "canceled"}]

Idle == [at |-> "idle"]

Requests ==
    [at : {"idle"}] \cup
    [at : {"begun", "listed", "recovered"}, seen : Billings] \cup
    [at : {"expired"}, seen : Billings] \cup [at : {"free", "reading"}] \cup
    [at : {"creating", "created", "refused"}, operation : Operations]

Hooks ==
    [at : {"idle"}] \cup
    [at : {"reading"}, event : Events, seen : Billings] \cup
    [at : {"completing"}, event : Events, seen : Billings, selected : Named,
     status : {"ACTIVE", "CANCELED"}, completed : BOOLEAN]

TypeOK ==
    /\ billing \in Billings
    /\ session \in [Operations -> {"none", "open", "complete", "expired"}]
    /\ subscription \in [Operations -> {"none", "ACTIVE", "CANCELED"}]
    /\ latest \in Named
    /\ offered \subseteq Operations
    /\ events \subseteq Events
    /\ req \in [Workers -> Requests]
    /\ hook \in Hooks

Init ==
    /\ billing = [status |-> "CANCELED", operation |-> None, session |-> None]
    /\ session = [o \in Operations |-> "none"]
    /\ subscription = [o \in Operations |-> "none"]
    /\ latest = None /\ offered = {} /\ events = {}
    /\ req = [w \in Workers |-> Idle]
    /\ hook = Idle

Goto(w, record) == req' = [req EXCEPT ![w] = record]
Finish(w) == Goto(w, Idle)

Claimed(row) == row.operation # None
Unsaved(row) == Claimed(row) /\ row.session = None

-----------------------------------------------------------------------------
(* A request.  An operation without a session is looked for at Stripe.     *)

Begin(w) ==
    /\ req[w].at \in {"idle", "reading"}
    /\ Goto(w, [at |-> IF req[w] = Idle /\ Unsaved(billing) THEN "begun" ELSE "listed",
                seen |-> billing])
    /\ UNCHANGED <<billing, external, hook>>

(* What Stripe does not list may still be on its way.                      *)
Recover(w) ==
    /\ req[w].at = "begun"
    /\ Goto(w, IF session[req[w].seen.operation] = "none" THEN [at |-> "reading"]
               ELSE [req[w] EXCEPT !.at = "recovered"])
    /\ UNCHANGED <<billing, external, hook>>

Saved(o) == [billing EXCEPT !.session = o]

(* saveOrganizationCheckoutSession compares the claim.                     *)
Saves(o) == billing.operation = o /\ billing.session = None

SaveRecovered(w) ==
    LET o == req[w].seen.operation
    IN /\ req[w].at = "recovered"
       /\ billing' = IF Saves(o) THEN Saved(o) ELSE billing
       /\ IF Saves(o) \/ (billing.operation = o /\ billing.session = o)
          THEN Goto(w, [at |-> "reading"]) ELSE Finish(w)
       /\ UNCHANGED <<external, hook>>

Subscribed == \E o \in Operations : subscription[o] = "ACTIVE"

(* The user is sent to an open session, and an expired one is cleared.     *)
Look(w) ==
    LET seen == req[w].seen
        stored == seen.session # None
    IN /\ req[w].at = "listed"
       /\ \/ /\ ~Subscribed /\ stored /\ session[seen.session] = "open"
             /\ offered' = offered \cup {seen.session}
             /\ Finish(w)
          \/ /\ ~Subscribed /\ stored /\ session[seen.session] = "expired"
             /\ Goto(w, [req[w] EXCEPT !.at = "expired"])
             /\ UNCHANGED offered
          \/ /\ ~Subscribed /\ ~Claimed(seen)
             /\ Goto(w, [at |-> "free"])
             /\ UNCHANGED offered
          \/ /\ Subscribed \/ Unsaved(seen) \/ (stored /\ session[seen.session] = "complete")
             /\ Finish(w)
             /\ UNCHANGED offered
       /\ UNCHANGED <<billing, session, subscription, latest, events, hook>>

Cleared == [billing EXCEPT !.operation = None, !.session = None]

(* The row is read again; whoever has claimed it meanwhile goes first.     *)
ClearExpired(w) ==
    LET seen == req[w].seen
    IN /\ req[w].at = "expired"
       /\ IF billing.status = "CANCELED" /\ billing.operation = seen.operation
             /\ billing.session = seen.session
          THEN billing' = Cleared /\ Goto(w, [at |-> "free"])
          ELSE Finish(w) /\ UNCHANGED billing
       /\ UNCHANGED <<external, hook>>

(* Faulty variant: a claim taken over.                                     *)
ClaimableAnyway == billing.status = "CANCELED"

Claimable == billing.status = "CANCELED" /\ ~Claimed(billing)

Unused(o) ==
    /\ session[o] = "none" /\ billing.operation # o
    /\ \A w \in Workers : req[w].at \in {"creating", "refused"} => req[w].operation # o

Claim(w) ==
    /\ req[w].at = "free"
    /\ IF Claimable
       THEN \E o \in Operations :
               /\ Unused(o)
               /\ billing' = [billing EXCEPT !.operation = o]
               /\ Goto(w, [at |-> "creating", operation |-> o])
       ELSE Finish(w) /\ UNCHANGED billing
    /\ UNCHANGED <<external, hook>>

(* Stripe creates the session or refuses to; the answer may be lost.       *)
CreateSession(w) ==
    LET o == req[w].operation
    IN /\ req[w].at = "creating"
       /\ \/ /\ session' = [session EXCEPT ![o] = "open"]
             /\ Finish(w) \/ Goto(w, [req[w] EXCEPT !.at = "created"])
          \/ /\ Goto(w, [req[w] EXCEPT !.at = "refused"])
             /\ UNCHANGED session
       /\ UNCHANGED <<billing, subscription, latest, offered, events, hook>>

Save(w) ==
    LET o == req[w].operation
    IN /\ req[w].at = "created"
       /\ IF Saves(o) THEN billing' = Saved(o) /\ offered' = offered \cup {o}
          ELSE UNCHANGED <<billing, offered>>
       /\ Finish(w)
       /\ UNCHANGED <<session, subscription, latest, events, hook>>

ReleaseRejected(w) ==
    /\ req[w].at = "refused"
    /\ billing' = IF billing.status = "CANCELED" /\ Saves(req[w].operation)
                  THEN Cleared ELSE billing
    /\ Finish(w)
    /\ UNCHANGED <<external, hook>>

(* The process goes away, or the request to Stripe is lost.                *)
Die(w) ==
    /\ req[w] # Idle
    /\ Finish(w)
    /\ UNCHANGED <<billing, external, hook>>

-----------------------------------------------------------------------------
(* Webhooks, one after another: that is what comparing lastSyncedAt comes  *)
(* to (see BillingWebhook).                                                *)

BeginWebhook(e) ==
    /\ hook = Idle /\ e \in events
    /\ hook' = [at |-> "reading", event |-> e, seen |-> billing]
    /\ UNCHANGED <<billing, external, req>>

Selected == IF Subscribed THEN CHOOSE o \in Operations : subscription[o] = "ACTIVE"
            ELSE latest

(* An older subscription never ends a newer checkout, and a subscription   *)
(* may be there before its session is complete.                            *)
Completed(row, o) ==
    o # None /\ row.operation = o /\ session[o] = "complete"

ReadStripe ==
    /\ hook.at = "reading"
    /\ hook' = [at |-> "completing", event |-> hook.event, seen |-> hook.seen,
                selected |-> Selected,
                status |-> IF Subscribed THEN "ACTIVE" ELSE "CANCELED",
                completed |-> Completed(hook.seen, Selected)]
    /\ UNCHANGED <<billing, external, req>>

(* Faulty variant: a claim whose session is stored is not ended.           *)
EndsUnsaved == hook.completed /\ billing.operation = hook.seen.operation
               /\ billing.session = None

(* The claim is compared with what was read before Stripe was asked.       *)
Ends == hook.completed /\ billing.operation = hook.seen.operation
        /\ billing.session = hook.seen.session

(* Without a subscription there is nothing to synchronize.                 *)
Complete ==
    LET synced == [billing EXCEPT !.status = hook.status]
    IN /\ hook.at = "completing"
       /\ IF hook.selected = None THEN UNCHANGED billing
          ELSE billing' = IF Ends THEN [synced EXCEPT !.operation = None, !.session = None]
                          ELSE synced
       /\ events' = events \ {hook.event}
       /\ hook' = Idle
       /\ UNCHANGED <<session, subscription, latest, offered, req>>

WebhookFails ==
    /\ hook # Idle
    /\ hook' = Idle
    /\ UNCHANGED <<billing, external, req>>

-----------------------------------------------------------------------------
(* Stripe's customer, and time.                                            *)

Tell(o, kind) == events' = events \cup {[operation |-> o, kind |-> kind]}

(* The user completes the session: the subscription is there first.        *)
Subscribe(o) ==
    /\ o \in offered /\ session[o] = "open" /\ subscription[o] = "none"
    /\ subscription' = [subscription EXCEPT ![o] = "ACTIVE"]
    /\ latest' = o
    /\ Tell(o, "started")
    /\ UNCHANGED <<billing, session, offered, req, hook>>

CompleteSession(o) ==
    /\ session[o] = "open" /\ subscription[o] = "ACTIVE"
    /\ session' = [session EXCEPT ![o] = "complete"]
    /\ Tell(o, "completed")
    /\ UNCHANGED <<billing, subscription, latest, offered, req, hook>>

ExpireSession(o) ==
    /\ session[o] = "open" /\ subscription[o] = "none"
    /\ session' = [session EXCEPT ![o] = "expired"]
    /\ Tell(o, "expired")
    /\ UNCHANGED <<billing, subscription, latest, offered, req, hook>>

CancelSubscription(o) ==
    /\ session[o] = "complete" /\ subscription[o] = "ACTIVE"
    /\ subscription' = [subscription EXCEPT ![o] = "CANCELED"]
    /\ Tell(o, "canceled")
    /\ UNCHANGED <<billing, session, latest, offered, req, hook>>

-----------------------------------------------------------------------------
RequestStep(w) ==
    \/ Begin(w) \/ Recover(w) \/ SaveRecovered(w) \/ Look(w) \/ ClearExpired(w)
    \/ Claim(w) \/ CreateSession(w) \/ Save(w) \/ ReleaseRejected(w) \/ Die(w)

WebhookStep == (\E e \in Events : BeginWebhook(e)) \/ ReadStripe \/ Complete

Next ==
    \/ \E w \in Workers : RequestStep(w)
    \/ WebhookStep \/ WebhookFails
    \/ \E o \in Operations : \/ Subscribe(o) \/ CompleteSession(o)
                             \/ ExpireSession(o) \/ CancelSubscription(o)

Spec == Init /\ [][Next]_vars

-----------------------------------------------------------------------------
(* However requests overlap, die and recover each other's sessions, the    *)
(* organization never has two sessions or subscriptions to pay for.        *)
NoSecondSubscription ==
    Cardinality({o \in Operations : session[o] = "open" \/ subscription[o] = "ACTIVE"}) <= 1

(* When every webhook is processed, the row shows the subscription that is *)
(* running, and the claim of a completed checkout is not left behind.      *)
CheckoutIsSettled ==
    events = {} =>
       /\ billing.status = "ACTIVE" <=> Subscribed
       /\ \A o \in Operations : session[o] = "complete" => billing.operation # o
=============================================================================
