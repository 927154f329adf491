----------------------------- MODULE BillingChange -----------------------------
(***************************************************************************)
(* Changing what an organization pays for (src/src/modules/billing:        *)
(* plan changes and user-capacity changes).  A preview quotes a change of  *)
(* the plan or of the number of additional users.  Confirming it           *)
(* looks at the subscription at Stripe, claims the organization's billing  *)
(* in a transaction, submits the change under an idempotency key of its    *)
(* own, and looks again before it records what happened.  The answer may   *)
(* be lost, the process may die, the change may wait for a payment, and it *)
(* may be confirmed again meanwhile; webhooks settle what the requests     *)
(* could not, while they run.                                              *)
(*                                                                         *)
(* One organization with an active subscription whose terms only these     *)
(* changes change.  Prices, permissions, the number of memberships against *)
(* the new limit (see Membership) and the synchronization's own claims and *)
(* checkouts (see BillingWebhook, BillingCheckout) are left out.  Stripe   *)
(* is external: it keeps the answer to a key for longer than the program   *)
(* submits under it, and refuses a change, or accepts it, for good.        *)
(***************************************************************************)
EXTENDS Naturals

CONSTANTS Workers,     \* concurrent confirm requests
          Changes,     \* identities of quoted changes
          Plans,       \* the plans on sale, "pro" among them
          MaxSeats,    \* bound: additional users
          None         \* no change

ASSUME ChangeAssumption ==
    /\ None \notin Changes
    /\ "pro" \in Plans
    /\ MaxSeats \in Nat \ {0}

VARIABLES
    billing,   \* the OrganizationBilling row
    change,    \* the BillingPlanChange and BillingUserCapacityChange rows
    stripe,    \* the subscription, its pending update, its latest invoice
    invoice,   \* the invoice of each change
    key,       \* what Stripe remembers of each change's idempotency key
    refuses,   \* the changes Stripe answers with status 400
    events,    \* webhook events not processed yet
    runs,      \* how often each change took effect
    strayed,   \* changes accepted when the terms were not those quoted from
    req,       \* what each confirm request is about and where it stands
    hook       \* the webhook being processed

external == <<stripe, invoice, key, events, runs, strayed>>
vars == <<billing, change, external, refuses, req, hook>>

(* Only Pro has additional users.                                          *)
Terms == {t \in [plan : Plans, seats : 0..MaxSeats] :
             t.plan = "pro" \/ t.seats = 0}

Kinds == {"PLAN_CHANGE", "USER_CAPACITY_CHANGE"}

ChangeStatus == {"NONE", "QUOTED", "PROCESSING", "PENDING_PAYMENT", "APPLIED",
                 "REJECTED", "EXPIRED", "RECONCILIATION_REQUIRED"}

Open == {"PROCESSING", "PENDING_PAYMENT", "RECONCILIATION_REQUIRED"}

(* current: nothing synchronized since the preview; fresh: the preview has *)
(* not expired; window: within 23 hours of the first submission; invoiced: *)
(* the row names the change's invoice.                                     *)
ChangeRows == [status : ChangeStatus, kind : Kinds, from : Terms, to : Terms,
               current : BOOLEAN, fresh : BOOLEAN, window : BOOLEAN,
               invoiced : BOOLEAN]

Settled(c) == [change |-> c, keyed |-> FALSE]
Updated(c) == [change |-> c, keyed |-> TRUE]
Events == [change : Changes, keyed : BOOLEAN]

Idle == [at |-> "idle"]

ConfirmRequests ==
    [at : {"idle"}] \cup
    [at : {"looking"}, change : Changes, status : ChangeStatus, invoiced : BOOLEAN] \cup
    [at : {"claiming", "submitting", "refused", "accepted", "held", "recording",
           "preparing"}, change : Changes] \cup
    [at : {"applying"}, change : Changes, seen : Terms, base : BOOLEAN]

Outcomes == {"APPLIED", "PENDING_PAYMENT", "EXPIRED", "RECONCILIATION_REQUIRED",
             "NONE"}

HookRequests ==
    [at : {"idle"}] \cup
    [at : {"synchronizing"}, event : Events, seen : Terms, base : BOOLEAN] \cup
    [at : {"completing"}, event : Events, seen : Terms, base : BOOLEAN,
     change : Changes \cup {None}, outcome : Outcomes, invoiced : BOOLEAN]

TypeOK ==
    /\ billing \in [terms : Terms, plan : Changes \cup {None},
                    seats : Changes \cup {None}]
    /\ change \in [Changes -> ChangeRows]
    /\ stripe \in [terms : Terms, pending : Changes \cup {None},
                   invoice : Changes \cup {None}]
    /\ invoice \in [Changes -> {"none", "open", "paid", "void"}]
    /\ key \in [Changes -> {"new", "accepted", "held", "forgotten"}]
    /\ refuses \subseteq Changes
    /\ events \subseteq Events
    /\ runs \in [Changes -> Nat]
    /\ strayed \subseteq Changes
    /\ req \in [Workers -> ConfirmRequests]
    /\ hook \in HookRequests

Base(t) == [status |-> "NONE", kind |-> "PLAN_CHANGE", from |-> t, to |-> t,
            current |-> FALSE, fresh |-> TRUE, window |-> FALSE, invoiced |-> FALSE]

Init ==
    /\ \E t \in Terms :
          /\ billing = [terms |-> t, plan |-> None, seats |-> None]
          /\ change = [c \in Changes |-> Base(t)]
          /\ stripe = [terms |-> t, pending |-> None, invoice |-> None]
    /\ invoice = [c \in Changes |-> "none"]
    /\ key = [c \in Changes |-> "new"]
    /\ refuses \in SUBSET Changes
    /\ events = {} /\ strayed = {}
    /\ runs = [c \in Changes |-> 0]
    /\ req = [w \in Workers |-> Idle]
    /\ hook = Idle

-----------------------------------------------------------------------------
(* What the two kinds compare: a plan change all terms, a capacity change  *)
(* the additional users of a Pro subscription.                             *)

IsPlan(c) == change[c].kind = "PLAN_CHANGE"

Same(c, terms, wanted) ==
    IF IsPlan(c) THEN terms = wanted
    ELSE terms.plan = "pro" /\ terms.seats = wanted.seats

matchesSource(c, terms) == Same(c, terms, change[c].from)
matchesTarget(c, terms) == Same(c, terms, change[c].to)

Active(c) == IF IsPlan(c) THEN billing.plan ELSE billing.seats

(* findLockedChange.                                                       *)
ClaimHeld(c) == Active(c) = c /\ (IsPlan(c) => billing.seats = None)

ReleasedClaim(c, row) ==
    IF IsPlan(c) THEN [row EXCEPT !.plan = None] ELSE [row EXCEPT !.seats = None]

-----------------------------------------------------------------------------
(* The preview.                                                            *)

(* Faulty variant: changes of the other kind not looked at.                *)
NoActiveChangeOfKind(kind) ==
    IF kind = "PLAN_CHANGE" THEN billing.plan = None ELSE billing.seats = None

NoActiveChange(kind) == billing.plan = None /\ billing.seats = None

QuotablePlan(to) == to.plan # billing.terms.plan

QuotableSeats(to) ==
    /\ billing.terms.plan = "pro" /\ to.plan = "pro"
    /\ to.seats # billing.terms.seats

Preview(c, kind, to) ==
    /\ change[c].status = "NONE"
    /\ NoActiveChange(kind)
    /\ IF kind = "PLAN_CHANGE" THEN QuotablePlan(to) ELSE QuotableSeats(to)
    /\ stripe.terms = billing.terms /\ stripe.pending = None
    /\ change' = [change EXCEPT ![c] =
          [@ EXCEPT !.status = "QUOTED", !.kind = kind, !.from = billing.terms,
                    !.to = to, !.current = TRUE]]
    /\ UNCHANGED <<billing, external, refuses, req, hook>>

PreviewExpires(c) ==
    /\ change[c].status = "QUOTED" /\ change[c].fresh
    /\ change' = [change EXCEPT ![c].fresh = FALSE]
    /\ UNCHANGED <<billing, external, refuses, req, hook>>

-----------------------------------------------------------------------------
(* Confirming: the row is read, then the subscription.                     *)

Goto(w, record) == req' = [req EXCEPT ![w] = record]
Finish(w) == Goto(w, Idle)

Confirm(w, c) ==
    /\ req[w] = Idle
    /\ change[c].status \in {"QUOTED", "PROCESSING", "PENDING_PAYMENT"}
    /\ Goto(w, [at |-> "looking", change |-> c, status |-> change[c].status,
                invoiced |-> change[c].invoiced])
    /\ UNCHANGED <<billing, change, external, refuses, hook>>

Reached(c) == stripe.pending = None /\ matchesTarget(c, stripe.terms)

(* What an earlier submission came to is looked at before a submission.    *)
Look(w) ==
    LET c == req[w].change
        earlier == req[w].status # "QUOTED"
        ours == req[w].invoiced /\ stripe.invoice = c /\ matchesSource(c, stripe.terms)
        next == IF earlier /\ Reached(c) THEN "preparing"
                ELSE IF earlier /\ stripe.pending # None
                     THEN IF ours THEN "recording" ELSE "refusing"
                ELSE IF req[w].status # "PENDING_PAYMENT" /\ stripe.pending = None
                        /\ matchesSource(c, stripe.terms)
                     THEN "claiming" ELSE "refusing"
    IN /\ req[w].at = "looking"
       /\ IF next = "refusing" THEN Finish(w) ELSE Goto(w, [at |-> next, change |-> c])
       /\ UNCHANGED <<billing, change, external, refuses, hook>>

(* Faulty variant: a submission made again at any time.                    *)
ResubmitsAnytime(c) ==
    /\ change[c].status = "PROCESSING"
    /\ billing.plan = (IF IsPlan(c) THEN c ELSE None)
    /\ billing.seats = (IF IsPlan(c) THEN None ELSE c)

(* A submission that may have been lost is made again, for a while.        *)
Resubmits(c) ==
    /\ change[c].status = "PROCESSING"
    /\ billing.plan = (IF IsPlan(c) THEN c ELSE None)
    /\ billing.seats = (IF IsPlan(c) THEN None ELSE c)
    /\ change[c].window

Claims(c) ==
    /\ change[c].status = "QUOTED" /\ change[c].fresh
    /\ NoActiveChange(change[c].kind)
    /\ matchesSource(c, billing.terms) /\ change[c].current

Claim(w) ==
    LET c == req[w].change
    IN /\ req[w].at = "claiming"
       /\ \/ /\ Claims(c)
             /\ billing' = IF IsPlan(c) THEN [billing EXCEPT !.plan = c]
                           ELSE [billing EXCEPT !.seats = c]
             /\ change' = [change EXCEPT ![c].status = "PROCESSING", ![c].window = TRUE]
             /\ Goto(w, [at |-> "submitting", change |-> c])
          \/ /\ Resubmits(c)
             /\ Goto(w, [at |-> "submitting", change |-> c])
             /\ UNCHANGED <<billing, change>>
          \/ /\ ~Claims(c) /\ ~Resubmits(c)
             /\ Finish(w)
             /\ UNCHANGED <<billing, change>>
       /\ UNCHANGED <<external, refuses, hook>>

-----------------------------------------------------------------------------
(* Submitting.  Stripe carries a change out at once, holds it until its    *)
(* invoice is paid, or refuses it; it repeats its answer to a key it knows.*)

Applied(terms, c) == IF IsPlan(c) THEN change[c].to
                     ELSE [terms EXCEPT !.seats = change[c].to.seats]

Known(c) == key[c] \in {"accepted", "held"}

Accept(c) ==
    /\ strayed' = IF matchesSource(c, stripe.terms) THEN strayed ELSE strayed \cup {c}
    /\ events' = events \cup {Updated(c)}
    /\ \/ /\ stripe' = [stripe EXCEPT !.terms = Applied(@, c), !.invoice = c]
          /\ invoice' = [invoice EXCEPT ![c] = "paid"]
          /\ key' = [key EXCEPT ![c] = "accepted"]
          /\ runs' = [runs EXCEPT ![c] = @ + 1]
       \/ /\ stripe' = [stripe EXCEPT !.pending = c, !.invoice = c]
          /\ invoice' = [invoice EXCEPT ![c] = "open"]
          /\ key' = [key EXCEPT ![c] = "held"]
          /\ UNCHANGED runs

(* Without an answer the claim is kept as it is.                           *)
Submit(w) ==
    LET c == req[w].change
    IN /\ req[w].at = "submitting"
       /\ \/ Known(c) /\ UNCHANGED external
          \/ ~Known(c) /\ c \in refuses /\ UNCHANGED external
          \/ ~Known(c) /\ c \notin refuses /\ Accept(c)
       /\ \/ Finish(w)
          \/ Goto(w, [at |-> IF Known(c) \/ c \notin refuses THEN key'[c] ELSE "refused",
                      change |-> c])
       /\ UNCHANGED <<billing, change, refuses, hook>>

(* Recorded only while nothing further is known.                           *)
RecordRejected(w) ==
    LET c == req[w].change
    IN /\ req[w].at = "refused"
       /\ IF change[c].status = "PROCESSING" /\ ~change[c].invoiced /\ ClaimHeld(c)
          THEN /\ change' = [change EXCEPT ![c].status = "REJECTED"]
               /\ billing' = ReleasedClaim(c, billing)
          ELSE UNCHANGED <<billing, change>>
       /\ Finish(w)
       /\ UNCHANGED <<external, refuses, hook>>

(* The subscription is read again, since an answer may be an old one.      *)
Verify(w) ==
    LET c == req[w].change
        ours == req[w].at = "held" /\ stripe.pending # None /\ stripe.invoice = c
                /\ matchesSource(c, stripe.terms)
    IN /\ req[w].at \in {"accepted", "held"}
       /\ IF Reached(c) THEN Goto(w, [at |-> "preparing", change |-> c])
          ELSE IF ours THEN Goto(w, [at |-> "recording", change |-> c])
          ELSE Finish(w)
       /\ UNCHANGED <<billing, change, external, refuses, hook>>

RecordPending(w) ==
    LET c == req[w].change
    IN /\ req[w].at = "recording"
       /\ IF change[c].status \in Open /\ ClaimHeld(c)
          THEN change' = [change EXCEPT ![c].status = "PENDING_PAYMENT",
                                        ![c].invoiced = TRUE]
          ELSE UNCHANGED change
       /\ Finish(w)
       /\ UNCHANGED <<billing, external, refuses, hook>>

-----------------------------------------------------------------------------
(* Synchronizing.  What was read before another synchronization is refused.*)

Outdated(rows) == [c \in Changes |-> [rows[c] EXCEPT !.current = FALSE]]

OutdatedRequest(r) == IF r.at = "applying" THEN [r EXCEPT !.base = FALSE] ELSE r

(* prepareBillingSynchronization: taking its two reads apart would only    *)
(* add attempts that the comparison refuses.                               *)
Prepare(w) ==
    /\ req[w].at = "preparing"
    /\ Goto(w, [at |-> "applying", change |-> req[w].change,
                seen |-> stripe.terms, base |-> TRUE])
    /\ UNCHANGED <<billing, change, external, refuses, hook>>

ApplyConfirmed(w) ==
    LET c == req[w].change
    IN /\ req[w].at = "applying"
       /\ IF change[c].status \in Open /\ ClaimHeld(c)
             /\ matchesTarget(c, req[w].seen) /\ req[w].base
          THEN /\ change' = [Outdated(change) EXCEPT ![c].status = "APPLIED"]
               /\ billing' = ReleasedClaim(c, [billing EXCEPT !.terms = req[w].seen])
               /\ req' = [v \in Workers |-> IF v = w THEN Idle ELSE OutdatedRequest(req[v])]
               /\ hook' = IF hook = Idle THEN Idle ELSE [hook EXCEPT !.base = FALSE]
          ELSE Finish(w) /\ UNCHANGED <<billing, change, hook>>
       /\ UNCHANGED <<external, refuses>>

(* The process, or the connection, goes away.                              *)
Die(w) ==
    /\ req[w] # Idle
    /\ Finish(w)
    /\ UNCHANGED <<billing, change, external, refuses, hook>>

-----------------------------------------------------------------------------
(* Webhooks.                                                               *)

BeginWebhook(e) ==
    /\ hook = Idle /\ e \in events
    /\ hook' = [at |-> "synchronizing", event |-> e, seen |-> stripe.terms, base |-> TRUE]
    /\ UNCHANGED <<billing, change, external, refuses, req>>

ActiveChange == IF billing.plan # None THEN billing.plan ELSE billing.seats

(* Faulty variant: only an invoice that was recorded is known.             *)
CorrelatedRecorded(c, e) == change[c].invoiced

(* The change's invoice is recorded, or told by the event that has its key.*)
Correlated(c, e) == change[c].invoiced \/ (e = Updated(c) /\ stripe.invoice = c)

(* Faulty variant: an update that no longer waits is taken for applied.    *)
OutcomeUncompared(c, known) ==
    IF stripe.pending = None THEN "APPLIED"
    ELSE IF known THEN "PENDING_PAYMENT" ELSE "NONE"

Outcome(c, known) ==
    IF Reached(c) THEN "APPLIED"
    ELSE IF stripe.pending # None
         THEN IF ~matchesSource(c, stripe.terms)
              THEN IF IsPlan(c) THEN "RECONCILIATION_REQUIRED" ELSE "NONE"
              ELSE IF known /\ stripe.invoice = c THEN "PENDING_PAYMENT" ELSE "NONE"
    ELSE IF ~matchesSource(c, stripe.terms) THEN "RECONCILIATION_REQUIRED"
    ELSE IF known /\ invoice[c] = "void" THEN "EXPIRED"
    ELSE "NONE"

(* The active change, of either kind, and the subscription are read again; *)
(* a subscription that changed meanwhile is tried later.                   *)
Reconcile ==
    LET c == ActiveChange
        known == c # None /\ Correlated(c, hook.event)
    IN /\ hook.at = "synchronizing"
       /\ IF c = None \/ (change[c].status \in Open /\ stripe.terms = hook.seen)
          THEN hook' = [at |-> "completing", event |-> hook.event, seen |-> hook.seen,
                        base |-> hook.base, change |-> c, invoiced |-> known,
                        outcome |-> IF c = None THEN "NONE" ELSE Outcome(c, known)]
          ELSE hook' = Idle
       /\ UNCHANGED <<billing, change, external, refuses, req>>

Recorded(c) ==
    IF hook.outcome = "NONE" \/ ActiveChange # c THEN Outdated(change)
    ELSE [Outdated(change) EXCEPT ![c].status = hook.outcome,
                                  ![c].invoiced = @ \/ hook.invoiced]

(* Synchronization, outcome and event are committed together or not.       *)
Complete ==
    LET c == hook.change
        done == hook.outcome \in {"APPLIED", "EXPIRED"} /\ ActiveChange = c
        synced == [billing EXCEPT !.terms = hook.seen]
    IN /\ hook.at = "completing"
       /\ IF hook.base
          THEN /\ billing' = IF done THEN ReleasedClaim(c, synced) ELSE synced
               /\ change' = Recorded(c)
               /\ events' = events \ {hook.event}
               /\ req' = [w \in Workers |-> OutdatedRequest(req[w])]
          ELSE UNCHANGED <<billing, change, events, req>>
       /\ hook' = Idle
       /\ UNCHANGED <<stripe, invoice, key, runs, strayed, refuses>>

WebhookFails ==
    /\ hook # Idle
    /\ hook' = Idle
    /\ UNCHANGED <<billing, change, external, refuses, req>>

-----------------------------------------------------------------------------
(* Stripe and time.                                                        *)

(* The invoice of the pending update is paid.                              *)
Pay ==
    LET c == stripe.pending
    IN /\ c # None
       /\ stripe' = [stripe EXCEPT !.terms = Applied(@, c), !.pending = None]
       /\ invoice' = [invoice EXCEPT ![c] = "paid"]
       /\ runs' = [runs EXCEPT ![c] = @ + 1]
       /\ events' = events \cup {Settled(c)}
       /\ UNCHANGED <<billing, change, key, strayed, refuses, req, hook>>

(* It expires, or is cancelled.                                            *)
Void ==
    LET c == stripe.pending
    IN /\ c # None
       /\ stripe' = [stripe EXCEPT !.pending = None]
       /\ invoice' = [invoice EXCEPT ![c] = "void"]
       /\ events' = events \cup {Settled(c)}
       /\ UNCHANGED <<billing, change, key, runs, strayed, refuses, req, hook>>

(* It matters to a submission that may be made again.                      *)
WindowCloses(c) ==
    /\ change[c].status = "PROCESSING" /\ change[c].window
    /\ change' = [change EXCEPT ![c].window = FALSE]
    /\ UNCHANGED <<billing, external, refuses, req, hook>>

(* Keys outlast the window by longer than a submission takes.              *)
Forget(c) ==
    /\ Known(c) /\ change[c].status = "PROCESSING" /\ ~change[c].window
    /\ \A w \in Workers : req[w].at = "submitting" => req[w].change # c
    /\ key' = [key EXCEPT ![c] = "forgotten"]
    /\ UNCHANGED <<billing, change, stripe, invoice, events, runs, strayed,
                   refuses, req, hook>>

-----------------------------------------------------------------------------
ConfirmStep(w) ==
    \/ \E c \in Changes : Confirm(w, c)
    \/ Look(w) \/ Claim(w) \/ Submit(w) \/ RecordRejected(w) \/ Verify(w)
    \/ RecordPending(w) \/ Prepare(w) \/ ApplyConfirmed(w) \/ Die(w)

WebhookStep == (\E e \in Events : BeginWebhook(e)) \/ Reconcile \/ Complete

Next ==
    \/ \E c \in Changes :
          \/ \E kind \in Kinds, to \in Terms : Preview(c, kind, to)
          \/ PreviewExpires(c) \/ WindowCloses(c) \/ Forget(c)
    \/ \E w \in Workers : ConfirmStep(w)
    \/ WebhookStep \/ WebhookFails
    \/ Pay \/ Void

Spec == Init /\ [][Next]_vars

-----------------------------------------------------------------------------
(* The billing row names exactly the change that is under way, one of      *)
(* either kind at most: what every outcome, and reading the overview,      *)
(* relies on.                                                              *)
ClaimNamesOpenChange ==
    /\ billing.plan = None \/ billing.seats = None
    /\ \A c \in Changes : change[c].status \in Open <=> Active(c) = c
    /\ \A c \in {billing.plan, billing.seats} \ {None} : change[c].status \in Open

(* However often a change is confirmed, and whatever answers are lost, it  *)
(* takes effect at most once, and on the terms it was quoted from.         *)
ExecutedOnceAsQuoted ==
    strayed = {} /\ \A c \in Changes : runs[c] <= 1

(* The outcome that is recorded, by the request or by a webhook, is what   *)
(* happened at Stripe.                                                     *)
OutcomesAreTrue ==
    \A c \in Changes :
       /\ change[c].status = "APPLIED" => runs[c] = 1
       /\ change[c].status \in {"REJECTED", "EXPIRED"} =>
             runs[c] = 0 /\ stripe.pending # c

(* A change that Stripe accepted is settled by its webhooks, even if the   *)
(* requests that submitted it were cut short and nobody asks again: when   *)
(* it is not pending and no event is left, its outcome is recorded.        *)
AcceptedIsSettled ==
    stripe.pending = None /\ events = {} =>
       \A c \in Changes :
          invoice[c] # "none" => change[c].status \in {"APPLIED", "EXPIRED"}
=============================================================================
