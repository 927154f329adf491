-------------------------- MODULE BillingChangeProofs --------------------------
(***************************************************************************)
(* Changes of a subscription take effect once and as quoted, are recorded  *)
(* as what they were, and are settled by webhooks, for every number of     *)
(* requests, changes, plans and additional users.                          *)
(*                                                                         *)
(* The argument follows the change that holds the claim.  Only it can      *)
(* reach Stripe, so the subscription has the terms it was quoted from      *)
(* until it takes effect and the terms it asks for afterwards; and whoever *)
(* releases the claim stores the terms that the subscription then has.     *)
(***************************************************************************)
EXTENDS BillingChange, TLAPS

IsOpen(c) == change[c].status \in Open
Past(c) == change[c].status \notin {"NONE", "QUOTED"}

(* Nothing of the change that is under way has reached Stripe.             *)
NothingSubmitted == \A c \in Changes : IsOpen(c) => key[c] = "new"

(* A quoted change asks for something else than there was.                 *)
TermsDiffer ==
    \A c \in Changes : change[c].status # "NONE" =>
       IF IsPlan(c) THEN change[c].to # change[c].from
       ELSE change[c].to.plan = "pro" /\ change[c].to.seats # change[c].from.seats

(* How far each change has come at Stripe.                                 *)
StripeSound ==
    \A c \in Changes :
       /\ runs[c] = (IF invoice[c] = "paid" THEN 1 ELSE 0)
       /\ key[c] = "new" <=> invoice[c] = "none"
       /\ invoice[c] = "open" <=> stripe.pending = c
       /\ invoice[c] = "open" => IsOpen(c)
       /\ key[c] # "new" => c \notin refuses /\ Past(c)
       /\ key[c] # "new" /\ IsOpen(c) => stripe.invoice = c
       /\ key[c] = "forgotten" => ~change[c].window

(* The subscription as the change that holds the claim has left it.        *)
HolderTerms ==
    \A c \in Changes : IsOpen(c) =>
       IF runs[c] = 0 THEN matchesSource(c, stripe.terms) ELSE matchesTarget(c, stripe.terms)

OutcomesSound ==
    \A c \in Changes :
       /\ change[c].status = "APPLIED" => invoice[c] = "paid"
       /\ change[c].status = "EXPIRED" => invoice[c] = "void"
       /\ change[c].status = "REJECTED" => c \in refuses

Synchronized ==
    NothingSubmitted =>
       /\ billing.terms = stripe.terms
       /\ hook # Idle /\ hook.base => hook.seen = stripe.terms

RequestSound(r) ==
    /\ r.at = "looking" => r.status = "QUOTED" \/ Past(r.change)
    /\ r.at \in {"submitting", "refused", "accepted", "held", "recording", "preparing",
                 "applying"} => Past(r.change)
    /\ r.at = "submitting" => key[r.change] # "forgotten"
    /\ r.at = "refused" => r.change \in refuses
    /\ r.at \in {"preparing", "applying"} /\ IsOpen(r.change) => invoice[r.change] = "paid"
    /\ r.at = "applying" /\ IsOpen(r.change) => r.seen = stripe.terms

HookSound ==
    hook.at = "completing" =>
       /\ hook.change = None => hook.outcome = "NONE"
       /\ hook.change # None => Past(hook.change)
       /\ \A c \in Changes : hook.change = c /\ IsOpen(c) =>
             /\ hook.outcome = "APPLIED" => invoice[c] = "paid" /\ hook.seen = stripe.terms
             /\ hook.outcome = "EXPIRED" => invoice[c] = "void" /\ hook.seen = stripe.terms

(* Whatever events tell has happened; and what has happened to the change  *)
(* that holds the claim is told by an event, or is known.                  *)
News == events \cup (IF hook = Idle THEN {} ELSE {hook.event})

NewsSound ==
    \A e \in News :
       /\ invoice[e.change] # "none"
       /\ ~e.keyed => invoice[e.change] \in {"paid", "void"}

OpenHasNews ==
    \A c \in Changes : IsOpen(c) /\ invoice[c] # "none" =>
       /\ Updated(c) \in events \/ change[c].invoiced
       /\ invoice[c] # "open" => Updated(c) \in events \/ Settled(c) \in events

HookTellsNews ==
    hook.at = "completing" => \A c \in Changes : hook.event.change = c /\ IsOpen(c) =>
       \/ hook.change = c /\ hook.outcome \in {"APPLIED", "EXPIRED"}
       \/ /\ hook.change = c /\ hook.outcome = "PENDING_PAYMENT" /\ hook.invoiced
          /\ hook.event = Updated(c)
          /\ invoice[c] = "open" \/ Settled(c) \in events
       \/ hook.event = Settled(c) /\ Updated(c) \in events

ChangeInv ==
    /\ TypeOK
    /\ ClaimNamesOpenChange
    /\ TermsDiffer
    /\ StripeSound
    /\ HolderTerms
    /\ OutcomesSound
    /\ Synchronized
    /\ \A w \in Workers : RequestSound(req[w])
    /\ HookSound
    /\ NewsSound
    /\ OpenHasNews
    /\ HookTellsNews
    /\ strayed = {}

-----------------------------------------------------------------------------
(* The initial state.                                                      *)
LEMMA ChangeInitially == Init => ChangeInv
<1> SUFFICES ASSUME Init PROVE ChangeInv
  OBVIOUS
<1> USE ChangeAssumption DEF ChangeAssumption
<1>1. PICK t \in Terms : /\ billing = [terms |-> t, plan |-> None, seats |-> None]
                         /\ change = [c \in Changes |-> Base(t)]
                         /\ stripe = [terms |-> t, pending |-> None, invoice |-> None]
  BY DEF Init
<1>2. /\ invoice = [c \in Changes |-> "none"] /\ key = [c \in Changes |-> "new"]
      /\ refuses \in SUBSET Changes /\ events = {} /\ strayed = {}
      /\ runs = [c \in Changes |-> 0] /\ req = [w \in Workers |-> Idle] /\ hook = Idle
  BY DEF Init
<1>3. \A c \in Changes : change[c].status = "NONE" /\ change[c].kind = "PLAN_CHANGE"
  BY <1>1 DEF Base
<1>4. TypeOK
  <2>1. Base(t) \in ChangeRows
    BY DEF Base, ChangeRows, ChangeStatus, Kinds
  <2> QED
    BY <1>1, <1>2, <2>1 DEF TypeOK, ConfirmRequests, HookRequests, Idle
<1>5. ClaimNamesOpenChange /\ TermsDiffer /\ HolderTerms /\ OutcomesSound /\ OpenHasNews
  BY <1>1, <1>2, <1>3 DEF ClaimNamesOpenChange, TermsDiffer, HolderTerms, OutcomesSound, OpenHasNews,
     Open, IsOpen, Active, IsPlan
<1>6. StripeSound
  BY <1>1, <1>2, <1>3 DEF StripeSound, IsOpen, Open
<1>7. Synchronized /\ HookSound /\ NewsSound /\ HookTellsNews
      /\ \A w \in Workers : RequestSound(req[w])
  BY <1>1, <1>2 DEF Synchronized, HookSound, NewsSound, News, HookTellsNews, RequestSound, Idle
<1> QED
  BY <1>2, <1>4, <1>5, <1>6, <1>7 DEF ChangeInv

-----------------------------------------------------------------------------
(* Requests that only read or give up.                                     *)

Parts == <<billing, change, external, refuses, hook>>

LEMMA RequestMoves ==
    ASSUME ChangeInv, NEW w \in Workers, NEW r \in ConfirmRequests,
           req' = [req EXCEPT ![w] = r], RequestSound(r), UNCHANGED Parts
    PROVE  ChangeInv'
<1> USE DEF Parts, external
<1>1. req'[w] = r /\ \A v \in Workers \ {w} : req'[v] = req[v]
  BY DEF ChangeInv, TypeOK
<1>2. TypeOK'
  BY <1>1 DEF ChangeInv, TypeOK
<1>3. (\A v \in Workers : RequestSound(req[v]))'
  BY <1>1 DEF ChangeInv, RequestSound, Past, IsOpen
<1>4. (ClaimNamesOpenChange /\ TermsDiffer /\ StripeSound /\ HolderTerms /\ OutcomesSound)'
  BY DEF ChangeInv, ClaimNamesOpenChange, TermsDiffer, StripeSound, HolderTerms, OutcomesSound,
     matchesSource, matchesTarget, Same, IsPlan, Active, IsOpen, Past
<1>5. (Synchronized /\ HookSound /\ NewsSound /\ OpenHasNews /\ HookTellsNews /\ strayed = {})'
  BY DEF ChangeInv, Synchronized, NothingSubmitted, HookSound, NewsSound, News, OpenHasNews,
     HookTellsNews, IsOpen, Past
<1> QED
  BY <1>2, <1>3, <1>4, <1>5 DEF ChangeInv

LEMMA IdleIsSound == Idle \in ConfirmRequests /\ RequestSound(Idle)
BY DEF Idle, ConfirmRequests, RequestSound

LEMMA Finishes ==
    ASSUME ChangeInv, NEW w \in Workers, Finish(w), UNCHANGED Parts
    PROVE  ChangeInv'
BY IdleIsSound, RequestMoves DEF Finish, Goto

(* A request that is past its first step is about a change.                *)
LEMMA RequestChange ==
    ASSUME ChangeInv, NEW w \in Workers, req[w].at # "idle"
    PROVE  req[w].change \in Changes
BY DEF ChangeInv, TypeOK, ConfirmRequests

(* What the subscription shows of the change that holds the claim.         *)
LEMMA ReachedIsPaid ==
    ASSUME ChangeInv, NEW c \in Changes, IsOpen(c), Reached(c)
    PROVE  invoice[c] = "paid"
<1>1. CASE runs[c] = 0
  <2>1. matchesSource(c, stripe.terms) /\ matchesTarget(c, stripe.terms)
    BY <1>1 DEF ChangeInv, HolderTerms, Reached
  <2>2. change[c].status # "NONE"
    BY DEF IsOpen, Open
  <2> QED
    BY <2>1, <2>2 DEF ChangeInv, TermsDiffer, matchesSource, matchesTarget, Same
<1>2. CASE runs[c] # 0
  BY <1>2 DEF ChangeInv, StripeSound
<1> QED
  BY <1>1, <1>2

LEMMA ReadingSteps ==
    ASSUME ChangeInv, NEW w \in Workers,
           (\E c \in Changes : Confirm(w, c)) \/ Look(w) \/ Verify(w) \/ Prepare(w) \/ Die(w)
    PROVE  ChangeInv'
<1> USE DEF Parts
<1>0. /\ req \in [Workers -> ConfirmRequests] /\ stripe.terms \in Terms
      /\ change \in [Changes -> ChangeRows]
  BY DEF ChangeInv, TypeOK
<1>1. ASSUME NEW c \in Changes, Confirm(w, c) PROVE ChangeInv'
  <2> DEFINE r == [at |-> "looking", change |-> c, status |-> change[c].status,
                   invoiced |-> change[c].invoiced]
  <2>1. r \in ConfirmRequests
    BY <1>0 DEF ConfirmRequests, ChangeRows
  <2>2. RequestSound(r)
    BY <1>1 DEF RequestSound, Confirm, Past
  <2>3. req' = [req EXCEPT ![w] = r] /\ UNCHANGED Parts
    BY <1>1 DEF Confirm, Goto
  <2> HIDE DEF r
  <2> QED
    BY <2>1, <2>2, <2>3, RequestMoves
<1>2. CASE Look(w)
  <2>1. req[w].at = "looking" /\ UNCHANGED Parts /\ req[w].change \in Changes
    BY <1>2, RequestChange DEF Look
  <2>2. CASE Finish(w)
    BY <2>1, <2>2, Finishes
  <2>3. CASE ~Finish(w)
    <3>1. PICK next \in {"preparing", "recording", "claiming"} :
            /\ req' = [req EXCEPT ![w] = [at |-> next, change |-> req[w].change]]
            /\ next = "preparing" => Reached(req[w].change)
            /\ next \in {"preparing", "recording"} => req[w].status # "QUOTED"
      BY <1>2, <2>3 DEF Look, Goto
    <3> DEFINE r == [at |-> next, change |-> req[w].change]
    <3>2. r \in ConfirmRequests
      BY <2>1 DEF ConfirmRequests
    <3>3. RequestSound(req[w])
      BY DEF ChangeInv
    <3>4. RequestSound(r)
      BY <2>1, <3>1, <3>3, ReachedIsPaid DEF RequestSound
    <3> HIDE DEF r
    <3> QED
      BY <2>1, <3>1, <3>2, <3>4, RequestMoves DEF r
  <2> QED
    BY <2>2, <2>3
<1>3. CASE Verify(w)
  <2>1. req[w].at \in {"accepted", "held"} /\ UNCHANGED Parts /\ req[w].change \in Changes
    BY <1>3, RequestChange DEF Verify
  <2>2. CASE Finish(w)
    BY <2>1, <2>2, Finishes
  <2>3. CASE ~Finish(w)
    <3>1. PICK next \in {"preparing", "recording"} :
            /\ req' = [req EXCEPT ![w] = [at |-> next, change |-> req[w].change]]
            /\ next = "preparing" => Reached(req[w].change)
      BY <1>3, <2>3 DEF Verify, Goto
    <3> DEFINE r == [at |-> next, change |-> req[w].change]
    <3>2. r \in ConfirmRequests
      BY <2>1 DEF ConfirmRequests
    <3>3. RequestSound(req[w])
      BY DEF ChangeInv
    <3>4. RequestSound(r)
      BY <2>1, <3>1, <3>3, ReachedIsPaid DEF RequestSound
    <3> HIDE DEF r
    <3> QED
      BY <2>1, <3>1, <3>2, <3>4, RequestMoves DEF r
  <2> QED
    BY <2>2, <2>3
<1>4. CASE Prepare(w)
  <2> DEFINE r == [at |-> "applying", change |-> req[w].change, seen |-> stripe.terms,
                   base |-> TRUE]
  <2>1. req[w].at = "preparing" /\ UNCHANGED Parts /\ req[w].change \in Changes
        /\ req' = [req EXCEPT ![w] = r]
    BY <1>4, RequestChange DEF Prepare, Goto
  <2>2. r \in ConfirmRequests
    BY <1>0, <2>1 DEF ConfirmRequests
  <2>3. RequestSound(req[w])
    BY DEF ChangeInv
  <2>4. RequestSound(r)
    BY <2>1, <2>3 DEF RequestSound
  <2> HIDE DEF r
  <2> QED
    BY <2>1, <2>2, <2>4, RequestMoves
<1>5. CASE Die(w)
  BY <1>5, Finishes DEF Die
<1> QED
  BY <1>1, <1>2, <1>3, <1>4, <1>5

-----------------------------------------------------------------------------
(* Steps after which each change is as far as it was: those that have      *)
(* recorded, or forgotten, something about it.                             *)

LEMMA RowsMove ==
    ASSUME ChangeInv,
           change' \in [Changes -> ChangeRows],
           \A d \in Changes :
              /\ change'[d].kind = change[d].kind
              /\ change'[d].from = change[d].from
              /\ change'[d].to = change[d].to
              /\ \/ change'[d].status = change[d].status
                 \/ change'[d].status \in Open /\ change[d].status \in Open
              /\ change[d].invoiced => change'[d].invoiced
              /\ change'[d].window => change[d].window,
           UNCHANGED <<billing, external, refuses, hook>>,
           req' \in [Workers -> ConfirmRequests],
           \A w \in Workers : req'[w] \in {req[w], Idle}
    PROVE  ChangeInv'
<1> USE DEF external
<1>1. \A d \in Changes : /\ IsOpen(d)' <=> IsOpen(d)
                         /\ Past(d)' <=> Past(d)
                         /\ IsPlan(d)' <=> IsPlan(d)
                         /\ Active(d)' = Active(d)
                         /\ change'[d].status \notin Open => change'[d].status = change[d].status
  BY DEF IsOpen, Past, IsPlan, Active, Open
<1>2. (TypeOK /\ ClaimNamesOpenChange)'
  BY <1>1 DEF ChangeInv, TypeOK, ClaimNamesOpenChange, IsOpen
<1>3. (TermsDiffer /\ HolderTerms)'
  BY <1>1 DEF ChangeInv, TermsDiffer, HolderTerms, matchesSource, matchesTarget, Same, IsPlan, Open
<1>4. (StripeSound /\ OutcomesSound)'
  BY <1>1 DEF ChangeInv, StripeSound, OutcomesSound, Open
<1>5. (\A w \in Workers : RequestSound(req[w]))'
  <2> SUFFICES ASSUME NEW w \in Workers PROVE RequestSound(req[w])'
    OBVIOUS
  <2>1. CASE req'[w] = Idle
    BY <2>1 DEF RequestSound, Idle
  <2>2. CASE req'[w] = req[w]
    <3>1. RequestSound(req[w]) /\ req[w] \in ConfirmRequests
      BY DEF ChangeInv, TypeOK
    <3>2. req[w].at # "idle" => req[w].change \in Changes
      BY <3>1 DEF ConfirmRequests
    <3> QED
      BY <2>2, <3>1, <3>2, <1>1 DEF RequestSound
  <2> QED
    BY <2>1, <2>2
<1>6. (Synchronized /\ NewsSound /\ OpenHasNews /\ HookTellsNews /\ strayed = {})'
  BY <1>1 DEF ChangeInv, Synchronized, NothingSubmitted, NewsSound, News, OpenHasNews, HookTellsNews
<1>7. HookSound'
  BY <1>1 DEF ChangeInv, HookSound, TypeOK, HookRequests
<1> QED
  BY <1>2, <1>3, <1>4, <1>5, <1>6, <1>7 DEF ChangeInv

LEMMA RecordingSteps ==
    ASSUME ChangeInv,
           \/ \E c \in Changes : PreviewExpires(c) \/ WindowCloses(c)
           \/ \E w \in Workers : RecordPending(w)
    PROVE  ChangeInv'
<1>0. /\ req \in [Workers -> ConfirmRequests] /\ change \in [Changes -> ChangeRows]
      /\ \A d \in Changes : change[d] \in ChangeRows
  BY DEF ChangeInv, TypeOK
<1>1. ASSUME NEW c \in Changes, PreviewExpires(c) PROVE ChangeInv'
  <2>1. change' = [change EXCEPT ![c] = [change[c] EXCEPT !.fresh = FALSE]]
        /\ UNCHANGED <<billing, external, refuses, req, hook>>
    BY <1>1 DEF PreviewExpires
  <2>2. [change[c] EXCEPT !.fresh = FALSE] \in ChangeRows
    BY <1>0 DEF ChangeRows
  <2>3. \A d \in Changes : change'[d] = IF d = c THEN [change[c] EXCEPT !.fresh = FALSE]
                                        ELSE change[d]
    BY <2>1, <1>0
  <2> QED
    BY <1>0, <2>1, <2>2, <2>3, RowsMove DEF ChangeRows
<1>2. ASSUME NEW c \in Changes, WindowCloses(c) PROVE ChangeInv'
  <2>1. change' = [change EXCEPT ![c] = [change[c] EXCEPT !.window = FALSE]]
        /\ UNCHANGED <<billing, external, refuses, req, hook>>
    BY <1>2 DEF WindowCloses
  <2>2. [change[c] EXCEPT !.window = FALSE] \in ChangeRows
    BY <1>0 DEF ChangeRows
  <2>3. \A d \in Changes : change'[d] = IF d = c THEN [change[c] EXCEPT !.window = FALSE]
                                        ELSE change[d]
    BY <2>1, <1>0
  <2> QED
    BY <1>0, <2>1, <2>2, <2>3, RowsMove DEF ChangeRows
<1>3. ASSUME NEW w \in Workers, RecordPending(w) PROVE ChangeInv'
  <2> DEFINE c == req[w].change
             row == [change[c] EXCEPT !.status = "PENDING_PAYMENT", !.invoiced = TRUE]
  <2>1. req[w].at = "recording" /\ c \in Changes /\ UNCHANGED <<billing, external, refuses, hook>>
        /\ Finish(w)
    BY <1>3, RequestChange DEF RecordPending
  <2>2. CASE UNCHANGED change
    BY <2>1, <2>2, Finishes DEF Parts
  <2>3. CASE ~UNCHANGED change
    <3>1. change[c].status \in Open /\ change' = [change EXCEPT ![c] = row]
      BY <1>3, <2>3 DEF RecordPending
    <3>2. row \in ChangeRows /\ row.status \in Open /\ row.invoiced /\ row.window = change[c].window
          /\ row.kind = change[c].kind /\ row.from = change[c].from /\ row.to = change[c].to
      <4>1. change[c] \in ChangeRows
        BY <1>0, <2>1
      <4>2. row \in ChangeRows
        BY <4>1 DEF ChangeRows, ChangeStatus
      <4>3. row.status = "PENDING_PAYMENT" /\ row.invoiced /\ row.window = change[c].window
            /\ row.kind = change[c].kind /\ row.from = change[c].from /\ row.to = change[c].to
        BY <4>1 DEF ChangeRows
      <4> QED
        BY <4>2, <4>3 DEF Open
    <3>3. \A v \in Workers : req'[v] \in {req[v], Idle}
      BY <1>0, <2>1 DEF Finish, Goto
    <3>4. req' \in [Workers -> ConfirmRequests]
      BY <1>0, <2>1, IdleIsSound DEF Finish, Goto
    <3> HIDE DEF c, row
    <3>5. \A d \in Changes : change'[d] = IF d = c THEN row ELSE change[d]
      BY <1>0, <3>1, <2>1
    <3>6. change' \in [Changes -> ChangeRows]
      BY <1>0, <3>1, <3>2
    <3> QED
      BY <2>1, <3>1, <3>2, <3>3, <3>4, <3>5, <3>6, RowsMove
  <2> QED
    BY <2>2, <2>3
<1> QED
  BY <1>1, <1>2, <1>3


-----------------------------------------------------------------------------
(* Webhook steps that only read, or give up.                               *)

(* At most one change is under way, and the billing row names it.          *)
LEMMA OneHolder ==
    ASSUME ChangeInv, NEW c \in Changes, IsOpen(c)
    PROVE  /\ ActiveChange = c /\ ClaimHeld(c)
           /\ \A d \in Changes : IsOpen(d) => d = c
<1>1. Active(c) = c /\ c # None
  BY ChangeAssumption DEF ChangeAssumption, ChangeInv, ClaimNamesOpenChange, IsOpen
<1>2. billing.plan = None \/ billing.seats = None
  BY DEF ChangeInv, ClaimNamesOpenChange
<1>3. ActiveChange = c /\ ClaimHeld(c)
  BY <1>1, <1>2 DEF Active, ActiveChange, ClaimHeld
<1>4. ASSUME NEW d \in Changes, IsOpen(d) PROVE d = c
  <2>1. Active(d) = d /\ d # None
    BY <1>4, ChangeAssumption DEF ChangeAssumption, ChangeInv, ClaimNamesOpenChange, IsOpen
  <2> QED
    BY <2>1, <1>1, <1>2 DEF Active
<1> QED
  BY <1>3, <1>4

(* Only it can have an update that waits for its payment.                  *)
LEMMA PendingIsHolder ==
    ASSUME ChangeInv, stripe.pending # None
    PROVE  /\ stripe.pending \in Changes /\ IsOpen(stripe.pending)
           /\ invoice[stripe.pending] = "open" /\ runs[stripe.pending] = 0
           /\ key[stripe.pending] # "new"
<1>1. stripe.pending \in Changes
  BY DEF ChangeInv, TypeOK
<1> QED
  BY <1>1 DEF ChangeInv, StripeSound

HookParts == <<billing, change, external, refuses, req>>

LEMMA HookMoves ==
    ASSUME ChangeInv, UNCHANGED HookParts, hook' \in HookRequests,
           (hook # Idle /\ hook.base => hook.seen = stripe.terms)',
           HookSound', HookTellsNews',
           hook' # Idle => hook'.event \in News
    PROVE  ChangeInv'
<1> USE DEF HookParts, external
<1>1. TypeOK'
  BY DEF ChangeInv, TypeOK
<1>2. (ClaimNamesOpenChange /\ TermsDiffer /\ StripeSound /\ HolderTerms /\ OutcomesSound)'
  BY DEF ChangeInv, ClaimNamesOpenChange, TermsDiffer, StripeSound, HolderTerms, OutcomesSound,
     matchesSource, matchesTarget, Same, IsPlan, Active, IsOpen, Past
<1>3. (\A w \in Workers : RequestSound(req[w]))'
  BY DEF ChangeInv, RequestSound, Past, IsOpen
<1>4. Synchronized'
  BY DEF ChangeInv, Synchronized, NothingSubmitted, IsOpen
<1>5. NewsSound' /\ OpenHasNews'
  BY DEF ChangeInv, NewsSound, News, OpenHasNews, IsOpen
<1> QED
  BY <1>1, <1>2, <1>3, <1>4, <1>5 DEF ChangeInv

LEMMA HookEnds ==
    ASSUME ChangeInv, UNCHANGED HookParts, hook' = Idle
    PROVE  ChangeInv'
<1>1. Idle \in HookRequests /\ Idle.at = "idle"
  BY DEF Idle, HookRequests
<1>2. HookSound' /\ HookTellsNews'
  BY <1>1 DEF HookSound, HookTellsNews
<1> QED
  BY <1>1, <1>2, HookMoves


LEMMA WebhookReads ==
    ASSUME ChangeInv, (\E e \in Events : BeginWebhook(e)) \/ Reconcile \/ WebhookFails
    PROVE  ChangeInv'
<1> USE DEF HookParts
<1>0. /\ stripe.terms \in Terms /\ hook \in HookRequests
      /\ hook.at # "idle" => hook # Idle
      /\ invoice \in [Changes -> {"none", "open", "paid", "void"}]
  BY DEF ChangeInv, TypeOK, Idle
<1>1. ASSUME NEW e \in Events, BeginWebhook(e) PROVE ChangeInv'
  <2> DEFINE h == [at |-> "synchronizing", event |-> e, seen |-> stripe.terms, base |-> TRUE]
  <2>1. hook' = h /\ e \in events /\ UNCHANGED HookParts
    BY <1>1 DEF BeginWebhook
  <2>2. h \in HookRequests
    BY <1>0 DEF HookRequests
  <2>3. h.event = e /\ h.seen = stripe.terms /\ h.at = "synchronizing"
    OBVIOUS
  <2> HIDE DEF h
  <2>4. HookSound' /\ HookTellsNews'
    BY <2>1, <2>3 DEF HookSound, HookTellsNews
  <2>5. e \in News
    BY <2>1 DEF News
  <2>6. stripe' = stripe
    BY <2>1 DEF external
  <2> QED
    BY <2>1, <2>2, <2>3, <2>4, <2>5, <2>6, HookMoves
<1>2. CASE Reconcile
  <2> DEFINE c == ActiveChange
             known == c # None /\ Correlated(c, hook.event)
             outcome == IF c = None THEN "NONE" ELSE Outcome(c, known)
             h == [at |-> "completing", event |-> hook.event, seen |-> hook.seen,
                   base |-> hook.base, change |-> c, invoiced |-> known, outcome |-> outcome]
  <2>1. hook.at = "synchronizing" /\ hook # Idle /\ UNCHANGED HookParts
    BY <1>2, <1>0 DEF Reconcile
  <2>2. hook.event \in Events /\ hook.seen \in Terms /\ hook.base \in BOOLEAN
    BY <1>0, <2>1 DEF HookRequests
  <2>3. CASE hook' = Idle
    BY <2>1, <2>3, HookEnds
  <2>4. CASE hook' # Idle
    <3>1. /\ hook' = h
          /\ c # None => change[c].status \in Open /\ stripe.terms = hook.seen
      BY <1>2, <2>4 DEF Reconcile
    <3>2. c \in Changes \cup {None}
      BY DEF ActiveChange, ChangeInv, TypeOK
    <3>3. outcome \in Outcomes
      BY DEF Outcome, Outcomes
    <3>4. known \in BOOLEAN
      BY <3>2 DEF Correlated, ChangeInv, TypeOK, ChangeRows
    <3>5. h \in HookRequests
      BY <2>2, <3>2, <3>3, <3>4 DEF HookRequests
    <3>6. /\ h.change = c /\ h.event = hook.event /\ h.seen = hook.seen /\ h.base = hook.base
          /\ h.invoiced = known /\ h.outcome = outcome /\ h.at = "completing"
      OBVIOUS
    <3>7. outcome = "APPLIED" /\ c # None => invoice[c] = "paid"
      BY <3>1, <3>2, ReachedIsPaid DEF Outcome, IsOpen
    <3>8. outcome = "EXPIRED" /\ c # None => invoice[c] = "void"
      BY DEF Outcome
    <3>9. UNCHANGED <<stripe, invoice, change, events>>
      BY <2>1 DEF external
    <3>10. HookSound'
      <4>1. c = None => outcome = "NONE"
        OBVIOUS
      <4> HIDE DEF c, known, outcome, h
      <4>2. hook'.change = c /\ hook'.outcome = outcome /\ hook'.seen = hook.seen
        BY <3>1, <3>6
      <4>3. c # None => change'[c].status \notin {"NONE", "QUOTED"}
        BY <3>1, <3>9 DEF Open
      <4>4. None \notin Changes
        BY ChangeAssumption DEF ChangeAssumption
      <4> QED
        BY <4>1, <4>2, <4>3, <4>4, <3>1, <3>7, <3>8, <3>9 DEF HookSound, Past
    <3>11. ASSUME NEW d \in Changes, hook.event.change = d, IsOpen(d)
           PROVE  \/ outcome \in {"APPLIED", "EXPIRED"}
                  \/ outcome = "PENDING_PAYMENT" /\ known /\ hook.event = Updated(d)
                     /\ (invoice[d] = "open" \/ Settled(d) \in events)
                  \/ hook.event = Settled(d) /\ Updated(d) \in events
      <4>1. c = d /\ c # None
        BY <3>11, OneHolder, ChangeAssumption DEF ChangeAssumption
      <4>2. hook.event = Updated(d) \/ hook.event = Settled(d)
        BY <2>2, <3>11 DEF Events, Updated, Settled
      <4>3. invoice[d] # "none" /\ (hook.event = Settled(d) => invoice[d] \in {"paid", "void"})
        BY <2>1, <3>11 DEF ChangeInv, NewsSound, News, Settled
      <4>4. /\ stripe.invoice = d
            /\ invoice[d] = "open" <=> stripe.pending = d
            /\ runs[d] = (IF invoice[d] = "paid" THEN 1 ELSE 0)
        BY <4>3, <3>11 DEF ChangeInv, StripeSound
      <4>5. stripe.pending # None => stripe.pending = d
        BY PendingIsHolder, OneHolder, <3>11
      <4>6. IF runs[d] = 0 THEN matchesSource(d, stripe.terms) ELSE matchesTarget(d, stripe.terms)
        BY <3>11 DEF ChangeInv, HolderTerms
      <4>7. Reached(d) => invoice[d] = "paid"
        BY ReachedIsPaid, <3>11
      <4>8. outcome = Outcome(d, known) /\ known = Correlated(d, hook.event)
        <5>1. known = Correlated(c, hook.event) /\ outcome = Outcome(c, known)
          BY <4>1 DEF Correlated
        <5> QED
          BY <5>1, <4>1
      <4> HIDE DEF c, known, outcome, h
      <4>9. CASE invoice[d] = "open"
        <5>1. hook.event = Updated(d)
          BY <4>2, <4>3, <4>9
        <5>2. known
          BY <5>1, <4>4, <4>8 DEF Correlated
        <5>3. stripe.pending = d /\ d # None /\ matchesSource(d, stripe.terms) /\ ~Reached(d)
          BY <4>4, <4>6, <4>7, <4>9, ChangeAssumption DEF ChangeAssumption
        <5> QED
          BY <5>1, <5>2, <5>3, <4>4, <4>8, <4>9 DEF Outcome
      <4>10. CASE invoice[d] = "paid"
        <5>1. stripe.pending = None /\ matchesTarget(d, stripe.terms)
          BY <4>4, <4>5, <4>6, <4>10
        <5> QED
          BY <5>1, <4>8 DEF Outcome, Reached
      <4>11. CASE invoice[d] = "void"
        <5>1. stripe.pending = None /\ matchesSource(d, stripe.terms) /\ ~Reached(d)
          BY <4>4, <4>5, <4>6, <4>7, <4>11
        <5>2. known \/ (hook.event = Settled(d) /\ ~change[d].invoiced)
          BY <4>2, <4>4, <4>8 DEF Correlated
        <5>3. ~change[d].invoiced => Updated(d) \in events
          BY <3>11, <4>3 DEF ChangeInv, OpenHasNews
        <5> QED
          BY <5>1, <5>2, <5>3, <4>8, <4>11 DEF Outcome
      <4> QED
        BY <1>0, <4>3, <4>9, <4>10, <4>11
    <3>12. HookTellsNews'
      <4>1. ASSUME NEW d \in Changes, IsOpen(d) PROVE c = d
        BY <4>1, OneHolder
      <4> HIDE DEF c, known, outcome, h
      <4>2. /\ hook'.change = c /\ hook'.outcome = outcome /\ hook'.event = hook.event
            /\ hook'.invoiced = known
        BY <3>1, <3>6
      <4>3. \A d \in Changes : IsOpen(d)' <=> IsOpen(d)
        BY <3>9 DEF IsOpen
      <4> QED
        BY <4>1, <4>2, <4>3, <3>9, <3>11 DEF HookTellsNews
    <3>13. hook.base => hook.seen = stripe.terms'
      <4>1. CASE c = None
        <5>1. \A d \in Changes : ~IsOpen(d)
          BY <4>1, OneHolder, ChangeAssumption DEF ChangeAssumption
        <5> QED
          BY <5>1, <2>1, <3>9 DEF ChangeInv, Synchronized, NothingSubmitted
      <4>2. CASE c # None
        BY <4>2, <3>1, <3>9
      <4> QED
        BY <4>1, <4>2
    <3>14. hook.event \in News
      BY <2>1 DEF News
    <3> HIDE DEF c, known, outcome, h
    <3> QED
      BY <2>1, <3>1, <3>5, <3>6, <3>10, <3>12, <3>13, <3>14, HookMoves
  <2> QED
    BY <2>3, <2>4
<1>3. CASE WebhookFails
  BY <1>3, HookEnds DEF WebhookFails
<1> QED
  BY <1>1, <1>2, <1>3


-----------------------------------------------------------------------------
(* Quoting a change, and claiming the billing for it.                      *)

LEMMA QuotingStep ==
    ASSUME ChangeInv, NEW c \in Changes, NEW kind \in Kinds, NEW to \in Terms,
           Preview(c, kind, to)
    PROVE  ChangeInv'
<1> DEFINE row == [change[c] EXCEPT !.status = "QUOTED", !.kind = kind,
                                    !.from = billing.terms, !.to = to, !.current = TRUE]
<1> USE DEF external
<1>0. /\ change \in [Changes -> ChangeRows] /\ change[c] \in ChangeRows
      /\ billing.terms \in Terms /\ billing.plan = None /\ billing.seats = None
      /\ change[c].status = "NONE"
  BY DEF ChangeInv, TypeOK, Preview, NoActiveChange
<1>1. change' = [change EXCEPT ![c] = row] /\ UNCHANGED <<billing, external, refuses, req, hook>>
  BY DEF Preview
<1>2. row \in ChangeRows
  BY <1>0 DEF ChangeRows, ChangeStatus
<1>3. /\ row.status = "QUOTED" /\ row.kind = kind /\ row.from = billing.terms /\ row.to = to
      /\ row.window = change[c].window /\ row.invoiced = change[c].invoiced
  BY <1>0 DEF ChangeRows
<1> HIDE DEF row
<1>4. \A d \in Changes : change'[d] = IF d = c THEN row ELSE change[d]
  BY <1>0, <1>1
<1>5. \A d \in Changes : ~IsOpen(d)
  BY <1>0, ChangeAssumption DEF ChangeAssumption, ChangeInv, ClaimNamesOpenChange, Active, IsOpen
<1>6. \A d \in Changes : ~IsOpen(d)' /\ (Past(d)' <=> Past(d))
  BY <1>0, <1>3, <1>4, <1>5 DEF IsOpen, Past, Open
<1>7. TypeOK'
  <2>1. change' \in [Changes -> ChangeRows]
    BY <1>0, <1>1, <1>2
  <2> QED
    BY <1>1, <2>1 DEF ChangeInv, TypeOK
<1>8. ClaimNamesOpenChange'
  <2>1. \A d \in Changes : Active(d)' # d
    BY <1>0, <1>1, ChangeAssumption DEF ChangeAssumption, Active
  <2> QED
    BY <1>0, <1>1, <1>6, <2>1 DEF ClaimNamesOpenChange, IsOpen
<1>9. TermsDiffer'
  <2>1. IF kind = "PLAN_CHANGE" THEN to # billing.terms
        ELSE to.plan = "pro" /\ to.seats # billing.terms.seats
    BY <1>0 DEF Preview, QuotablePlan, QuotableSeats, Terms
  <2>2. \A d \in Changes : IsPlan(d)' <=> change'[d].kind = "PLAN_CHANGE"
    BY DEF IsPlan
  <2>3. ASSUME NEW d \in Changes, change'[d].status # "NONE"
        PROVE  IF change'[d].kind = "PLAN_CHANGE" THEN change'[d].to # change'[d].from
               ELSE change'[d].to.plan = "pro" /\ change'[d].to.seats # change'[d].from.seats
    BY <1>3, <1>4, <2>1, <2>3 DEF ChangeInv, TermsDiffer, IsPlan
  <2> QED
    BY <2>2, <2>3 DEF TermsDiffer
<1>10. StripeSound'
  BY <1>0, <1>1, <1>3, <1>4, <1>6, <1>5 DEF ChangeInv, StripeSound
<1>11. HolderTerms' /\ OpenHasNews' /\ HookTellsNews'
  BY <1>6 DEF HolderTerms, OpenHasNews, HookTellsNews
<1>12. OutcomesSound'
  BY <1>0, <1>1, <1>3, <1>4 DEF ChangeInv, OutcomesSound
<1>13. Synchronized'
  BY <1>1, <1>5 DEF ChangeInv, Synchronized, NothingSubmitted
<1>14. (\A w \in Workers : RequestSound(req[w]))'
  <2> SUFFICES ASSUME NEW w \in Workers PROVE RequestSound(req[w])'
    OBVIOUS
  <2>1. RequestSound(req[w]) /\ (req[w].at # "idle" => req[w].change \in Changes)
    BY RequestChange DEF ChangeInv
  <2> QED
    BY <2>1, <1>1, <1>6 DEF RequestSound
<1>15. HookSound'
  BY <1>1, <1>6 DEF ChangeInv, HookSound, TypeOK, HookRequests
<1>16. NewsSound' /\ (strayed = {})'
  BY <1>1 DEF ChangeInv, NewsSound, News
<1> QED
  BY <1>7, <1>8, <1>9, <1>10, <1>11, <1>12, <1>13, <1>14, <1>15, <1>16 DEF ChangeInv

LEMMA ForgettingStep ==
    ASSUME ChangeInv, NEW c \in Changes, Forget(c)
    PROVE  ChangeInv'
<1> USE DEF external
<1>1. /\ key[c] \in {"accepted", "held"} /\ ~change[c].window
      /\ \A w \in Workers : req[w].at = "submitting" => req[w].change # c
      /\ key' = [key EXCEPT ![c] = "forgotten"]
      /\ UNCHANGED <<billing, change, stripe, invoice, events, runs, strayed, refuses, req, hook>>
  BY DEF Forget, Known
<1>2. \A d \in Changes : key'[d] = IF d = c THEN "forgotten" ELSE key[d]
  BY <1>1 DEF ChangeInv, TypeOK
<1>3. TypeOK'
  BY <1>1 DEF ChangeInv, TypeOK
<1>4. (ClaimNamesOpenChange /\ TermsDiffer /\ HolderTerms /\ OutcomesSound)'
  BY <1>1 DEF ChangeInv, ClaimNamesOpenChange, TermsDiffer, HolderTerms, OutcomesSound,
     matchesSource, matchesTarget, Same, IsPlan, Active, IsOpen
<1>5. StripeSound'
  BY <1>1, <1>2 DEF ChangeInv, StripeSound, Past, IsOpen
<1>6. Synchronized'
  BY <1>1, <1>2 DEF ChangeInv, Synchronized, NothingSubmitted, IsOpen
<1>7. (\A w \in Workers : RequestSound(req[w]))'
  <2> SUFFICES ASSUME NEW w \in Workers PROVE RequestSound(req[w])'
    OBVIOUS
  <2>1. RequestSound(req[w]) /\ (req[w].at # "idle" => req[w].change \in Changes)
    BY RequestChange DEF ChangeInv
  <2> QED
    BY <2>1, <1>1, <1>2 DEF RequestSound, Past, IsOpen
<1>8. (HookSound /\ NewsSound /\ OpenHasNews /\ HookTellsNews /\ strayed = {})'
  BY <1>1 DEF ChangeInv, HookSound, NewsSound, News, OpenHasNews, HookTellsNews, IsOpen, Past
<1> QED
  BY <1>3, <1>4, <1>5, <1>6, <1>7, <1>8 DEF ChangeInv


LEMMA ClaimingStep ==
    ASSUME ChangeInv, NEW w \in Workers, Claim(w)
    PROVE  ChangeInv'
<1> DEFINE c == req[w].change
           r == [at |-> "submitting", change |-> c]
           row == [change[c] EXCEPT !.status = "PROCESSING", !.window = TRUE]
<1> USE DEF external
<1>0. /\ req[w].at = "claiming" /\ c \in Changes
      /\ UNCHANGED <<external, refuses, hook>>
      /\ change \in [Changes -> ChangeRows] /\ req \in [Workers -> ConfirmRequests]
      /\ billing \in [terms : Terms, plan : Changes \cup {None}, seats : Changes \cup {None}]
      /\ r \in ConfirmRequests
  BY RequestChange DEF Claim, ConfirmRequests, ChangeInv, TypeOK
<1>1. CASE ~Claims(c)
  <2>1. CASE Resubmits(c)
    <3>1. /\ UNCHANGED Parts
          /\ \/ Finish(w)
             \/ req' = [req EXCEPT ![w] = r]
      BY <1>1, <2>1, <1>0 DEF Claim, Parts, Goto
    <3>2. change[c].status = "PROCESSING" /\ change[c].window
      BY <2>1 DEF Resubmits
    <3>3. key[c] # "forgotten"
      BY <1>0, <3>2 DEF ChangeInv, StripeSound
    <3>4. RequestSound(r)
      BY <3>2, <3>3 DEF RequestSound, Past
    <3> HIDE DEF c, r
    <3> QED
      BY <1>0, <3>1, <3>4, Finishes, RequestMoves
  <2>2. CASE ~Resubmits(c)
    <3>1. Finish(w) /\ UNCHANGED Parts
      BY <1>1, <2>2, <1>0 DEF Claim, Parts
    <3> QED
      BY <3>1, Finishes
  <2> QED
    BY <2>1, <2>2
<1>2. CASE Claims(c) /\ Resubmits(c)
  BY <1>2 DEF Claims, Resubmits
<1>3. CASE Claims(c) /\ ~Resubmits(c)
  <2>1. /\ billing' = IF IsPlan(c) THEN [billing EXCEPT !.plan = c] ELSE [billing EXCEPT !.seats = c]
        /\ change' = [change EXCEPT ![c] = row]
        /\ req' = [req EXCEPT ![w] = r]
    BY <1>3 DEF Claim, Goto
  <2>2. /\ change[c].status = "QUOTED" /\ billing.plan = None /\ billing.seats = None
        /\ matchesSource(c, billing.terms)
    BY <1>3 DEF Claims, NoActiveChange
  <2>3. row \in ChangeRows
    <3>1. change[c] \in ChangeRows
      BY <1>0
    <3> QED
      BY <3>1 DEF ChangeRows, ChangeStatus
  <2>4. /\ row.status = "PROCESSING" /\ row.kind = change[c].kind /\ row.from = change[c].from
        /\ row.to = change[c].to /\ row.invoiced = change[c].invoiced
    BY <1>0 DEF ChangeRows
  <2>5. /\ \A d \in Changes : change'[d] = IF d = c THEN row ELSE change[d]
        /\ \A v \in Workers : req'[v] = IF v = w THEN r ELSE req[v]
    BY <1>0, <2>1
  <2>6. /\ billing'.terms = billing.terms
        /\ billing'.plan = IF IsPlan(c) THEN c ELSE None
        /\ billing'.seats = IF IsPlan(c) THEN None ELSE c
        /\ billing' \in [terms : Terms, plan : Changes \cup {None}, seats : Changes \cup {None}]
    BY <1>0, <2>1, <2>2
  <2>7. /\ r.at = "submitting" /\ r.change = c
    OBVIOUS
  <2>8. c # None
    BY <1>0, ChangeAssumption DEF ChangeAssumption
  <2> HIDE DEF c, r, row
  <2>9. \A d \in Changes : ~IsOpen(d)
    BY <2>2, ChangeAssumption DEF ChangeAssumption, ChangeInv, ClaimNamesOpenChange, Active, IsOpen
  <2>10. /\ key[c] = "new" /\ invoice[c] = "none" /\ runs[c] = 0 /\ stripe.pending # c
    BY <1>0, <2>2 DEF ChangeInv, StripeSound, Past
  <2>11. /\ \A d \in Changes : IsOpen(d)' <=> d = c
         /\ \A d \in Changes : Past(d)' <=> Past(d) \/ d = c
         /\ \A d \in Changes : IsPlan(d)' <=> IsPlan(d)
         /\ ~Past(c)
    BY <1>0, <2>2, <2>4, <2>5, <2>9 DEF IsOpen, Past, Open, IsPlan
  <2>12. TypeOK'
    <3>1. change' \in [Changes -> ChangeRows] /\ req' \in [Workers -> ConfirmRequests]
      BY <1>0, <2>1, <2>3
    <3> QED
      BY <1>0, <2>6, <3>1 DEF ChangeInv, TypeOK
  <2>13. ClaimNamesOpenChange'
    <3>1. \A d \in Changes : Active(d)' = d <=> d = c
      BY <1>0, <2>6, <2>8, <2>11, ChangeAssumption DEF ChangeAssumption, Active
    <3> QED
      BY <1>0, <2>6, <2>11, <3>1 DEF ClaimNamesOpenChange, IsOpen
  <2>14. TermsDiffer'
    BY <2>2, <2>4, <2>5, <2>11 DEF ChangeInv, TermsDiffer, IsPlan
  <2>15. StripeSound'
    BY <1>0, <2>5, <2>9, <2>10, <2>11 DEF ChangeInv, StripeSound
  <2>16. billing.terms = stripe.terms /\ (hook # Idle /\ hook.base => hook.seen = stripe.terms)
    BY <2>9 DEF ChangeInv, Synchronized, NothingSubmitted
  <2>17. HolderTerms'
    <3>1. Same(c, stripe.terms, change[c].from)
      BY <2>2, <2>16 DEF matchesSource
    <3>2. (IF change'[c].kind = "PLAN_CHANGE" THEN stripe'.terms = change'[c].from
           ELSE stripe'.terms.plan = "pro" /\ stripe'.terms.seats = change'[c].from.seats)
      BY <1>0, <3>1, <2>4, <2>5 DEF Same, IsPlan
    <3> QED
      BY <1>0, <2>10, <2>11, <3>2 DEF HolderTerms, matchesSource, Same, IsPlan
  <2>18. OutcomesSound'
    BY <1>0, <2>4, <2>5 DEF ChangeInv, OutcomesSound
  <2>19. Synchronized'
    BY <1>0, <2>6, <2>16 DEF Synchronized
  <2>20. (\A v \in Workers : RequestSound(req[v]))'
    <3> SUFFICES ASSUME NEW v \in Workers PROVE RequestSound(req[v])'
      OBVIOUS
    <3>1. CASE v = w
      BY <1>0, <3>1, <2>5, <2>7, <2>10, <2>11 DEF RequestSound
    <3>2. CASE v # w
      <4>1. RequestSound(req[v]) /\ (req[v].at # "idle" => req[v].change \in Changes)
        BY RequestChange DEF ChangeInv
      <4> QED
        BY <4>1, <3>2, <1>0, <2>5, <2>11 DEF RequestSound
    <3> QED
      BY <3>1, <3>2
  <2>21. HookSound'
    BY <1>0, <2>11 DEF ChangeInv, HookSound, TypeOK, HookRequests
  <2>22. NewsSound' /\ (strayed = {})'
    BY <1>0 DEF ChangeInv, NewsSound, News
  <2>23. OpenHasNews'
    BY <1>0, <2>10, <2>11 DEF OpenHasNews
  <2>24. HookTellsNews'
    <3>1. hook.at = "completing" => hook.event \in News
      BY DEF News, Idle
    <3> QED
      BY <1>0, <2>10, <2>11, <3>1 DEF ChangeInv, NewsSound, HookTellsNews
  <2> QED
    BY <2>12, <2>13, <2>14, <2>15, <2>17, <2>18, <2>19, <2>20, <2>21, <2>22, <2>23, <2>24
    DEF ChangeInv
<1> QED
  BY <1>1, <1>2, <1>3


-----------------------------------------------------------------------------
(* What Stripe does with the change that holds the claim.                  *)

LEMMA NewsAreEvents ==
    ASSUME ChangeInv
    PROVE  News \subseteq Events
<1>1. ASSUME NEW h \in [at : {"idle"}] PROVE h = Idle
  BY DEF Idle
<1>2. hook # Idle => hook.event \in Events
  BY <1>1 DEF ChangeInv, TypeOK, HookRequests
<1> QED
  BY <1>2 DEF ChangeInv, TypeOK, News

(* Whoever submits a change under a key that is new holds the claim.       *)
LEMMA SubmitterHolds ==
    ASSUME ChangeInv, NEW c \in Changes, Past(c), key[c] = "new", c \notin refuses
    PROVE  IsOpen(c)
<1>1. invoice[c] = "none" /\ change[c].status \in ChangeStatus
  BY DEF ChangeInv, StripeSound, TypeOK, ChangeRows
<1> QED
  BY <1>1 DEF ChangeInv, OutcomesSound, Past, IsOpen, Open, ChangeStatus

(* A change that takes effect gives the subscription its terms.            *)
LEMMA AppliedTerms ==
    ASSUME ChangeInv, NEW c \in Changes, matchesSource(c, stripe.terms)
    PROVE  Applied(stripe.terms, c) \in Terms /\ matchesTarget(c, Applied(stripe.terms, c))
<1>1. stripe.terms \in Terms /\ change[c].to \in Terms
  BY DEF ChangeInv, TypeOK, ChangeRows
<1>2. CASE IsPlan(c)
  BY <1>1, <1>2 DEF Applied, matchesTarget, Same
<1>3. CASE ~IsPlan(c)
  <2>1. Applied(stripe.terms, c) = [stripe.terms EXCEPT !.seats = change[c].to.seats]
    BY <1>3 DEF Applied
  <2>2. stripe.terms.plan = "pro"
    BY <1>3 DEF matchesSource, Same
  <2>3. /\ Applied(stripe.terms, c).plan = "pro"
        /\ Applied(stripe.terms, c).seats = change[c].to.seats
        /\ Applied(stripe.terms, c) \in Terms
    BY <1>1, <2>1, <2>2 DEF Terms
  <2> QED
    BY <2>3, <1>3 DEF matchesTarget, Same
<1> QED
  BY <1>2, <1>3

(* The change that holds the claim is accepted, paid, or given up.         *)
StripeMoves(c) ==
    /\ UNCHANGED <<billing, change, refuses, hook, strayed>>
    /\ stripe'.invoice = (IF key[c] = "new" THEN c ELSE stripe.invoice)
    /\ stripe'.pending = (IF invoice'[c] = "open" THEN c ELSE None)
    /\ stripe'.terms = (IF invoice'[c] = "paid" THEN Applied(stripe.terms, c) ELSE stripe.terms)
    /\ \A d \in Changes : /\ d # c => invoice'[d] = invoice[d] /\ key'[d] = key[d]
                                      /\ runs'[d] = runs[d]
                          /\ runs'[c] = (IF invoice'[c] = "paid" THEN 1 ELSE 0)
    /\ key'[c] \notin {"new"} /\ (key'[c] = "forgotten" => key[c] = "forgotten")
    /\ \/ invoice[c] = "none" /\ invoice'[c] \in {"open", "paid"}
          /\ events' = events \cup {Updated(c)}
       \/ invoice[c] = "open" /\ invoice'[c] \in {"paid", "void"}
          /\ events' = events \cup {Settled(c)}

LEMMA StripeStep ==
    ASSUME ChangeInv, NEW c \in Changes, IsOpen(c), c \notin refuses, StripeMoves(c), TypeOK',
           \A w \in Workers : \/ req'[w] = req[w]
                              \/ /\ req'[w].at \in {"idle", "accepted", "held"}
                                 /\ req'[w].at # "idle" => req'[w].change = c
    PROVE  ChangeInv'
<1> USE DEF StripeMoves
<1>0. /\ invoice[c] \notin {"paid", "void"} /\ runs[c] = 0 /\ c # None
      /\ invoice'[c] # "none" /\ key'[c] # "new"
      /\ \A d \in Changes : d # c => ~IsOpen(d)
      /\ \A d \in Changes : d # c => invoice[d] # "open"
      /\ matchesSource(c, stripe.terms)
  <2>1. \A d \in Changes : d # c => ~IsOpen(d)
    BY OneHolder
  <2>2. invoice[c] \notin {"paid", "void"} /\ runs[c] = 0
    BY DEF ChangeInv, StripeSound
  <2>3. \A d \in Changes : d # c => invoice[d] # "open"
    BY <2>1 DEF ChangeInv, StripeSound
  <2>4. matchesSource(c, stripe.terms)
    BY <2>2 DEF ChangeInv, HolderTerms
  <2> QED
    BY <2>1, <2>2, <2>3, <2>4, ChangeAssumption DEF ChangeAssumption
<1>1. \A d \in Changes : /\ IsOpen(d)' <=> IsOpen(d)
                         /\ Past(d)' <=> Past(d)
                         /\ IsPlan(d)' <=> IsPlan(d)
  BY DEF IsOpen, Past, IsPlan
<1>2. Past(c)
  BY DEF IsOpen, Past, Open
<1>3. (ClaimNamesOpenChange /\ TermsDiffer)'
  BY DEF ChangeInv, ClaimNamesOpenChange, TermsDiffer, Active, IsPlan
<1>4. StripeSound'
  <2>1. stripe'.invoice = c
    BY DEF ChangeInv, StripeSound
  <2> SUFFICES ASSUME NEW d \in Changes
               PROVE  /\ runs'[d] = (IF invoice'[d] = "paid" THEN 1 ELSE 0)
                      /\ key'[d] = "new" <=> invoice'[d] = "none"
                      /\ invoice'[d] = "open" <=> stripe'.pending = d
                      /\ invoice'[d] = "open" => IsOpen(d)
                      /\ key'[d] # "new" => d \notin refuses /\ Past(d)
                      /\ key'[d] # "new" /\ IsOpen(d) => stripe'.invoice = d
                      /\ key'[d] = "forgotten" => ~change[d].window
    BY <1>1 DEF StripeSound
  <2>2. CASE d = c
    BY <2>1, <2>2, <1>0, <1>2 DEF ChangeInv, StripeSound
  <2>3. CASE d # c
    BY <2>3, <1>0, ChangeAssumption DEF ChangeAssumption, ChangeInv, StripeSound
  <2> QED
    BY <2>2, <2>3
<1>5. HolderTerms'
  <2>1. invoice'[c] = "paid" => matchesTarget(c, stripe'.terms)
    BY <1>0, AppliedTerms
  <2>2. invoice'[c] # "paid" => matchesSource(c, stripe'.terms)
    BY <1>0
  <2>3. matchesTarget(c, stripe.terms)' <=> matchesTarget(c, stripe'.terms)
    BY DEF matchesTarget, Same, IsPlan
  <2>4. matchesSource(c, stripe.terms)' <=> matchesSource(c, stripe'.terms)
    BY DEF matchesSource, Same, IsPlan
  <2> QED
    BY <1>0, <1>1, <2>1, <2>2, <2>3, <2>4 DEF HolderTerms
<1>6. OutcomesSound'
  BY <1>0 DEF ChangeInv, OutcomesSound, IsOpen, Open
<1>7. Synchronized'
  BY <1>0, <1>1 DEF Synchronized, NothingSubmitted
<1>8. (\A v \in Workers : RequestSound(req[v]))'
  <2> SUFFICES ASSUME NEW v \in Workers PROVE RequestSound(req[v])'
    OBVIOUS
  <2>1. CASE req'[v] = req[v]
    <3>1. RequestSound(req[v]) /\ (req[v].at # "idle" => req[v].change \in Changes)
      BY RequestChange DEF ChangeInv
    <3>2. CASE req[v].at # "idle" /\ req[v].change = c
      BY <3>1, <3>2, <2>1, <1>0, <1>1, <1>2 DEF RequestSound, ChangeInv, StripeSound
    <3>3. CASE req[v].at # "idle" /\ req[v].change # c
      BY <3>1, <3>3, <2>1, <1>0, <1>1 DEF RequestSound
    <3>4. CASE req[v].at = "idle"
      BY <3>4, <2>1 DEF RequestSound
    <3> QED
      BY <3>2, <3>3, <3>4
  <2>2. CASE req'[v] # req[v]
    <3>1. /\ req'[v].at \in {"idle", "accepted", "held"}
          /\ req'[v].at # "idle" => req'[v].change = c
      BY <2>2
    <3> QED
      BY <3>1, <1>1, <1>2 DEF RequestSound
  <2> QED
    BY <2>1, <2>2
<1>9. HookSound'
  <2>1. \A d \in Changes : hook.at = "completing" /\ hook.change = d /\ IsOpen(d) =>
            hook.outcome \notin {"APPLIED", "EXPIRED"}
    BY <1>0 DEF ChangeInv, HookSound
  <2> QED
    BY <2>1, <1>1 DEF ChangeInv, HookSound, TypeOK, HookRequests
<1>10. NewsSound'
  <2>1. \A e \in News' : e \in News \/ (e = Updated(c) /\ invoice[c] = "none")
                         \/ (e = Settled(c) /\ invoice[c] = "open")
    BY DEF News
  <2>2. \A e \in News : e \in Events
    BY NewsAreEvents
  <2> QED
    BY <2>1, <2>2, <1>0 DEF ChangeInv, NewsSound, Updated, Settled, Events
<1>11. OpenHasNews'
  BY <1>0, <1>1 DEF ChangeInv, OpenHasNews
<1>12. HookTellsNews'
  <2>1. hook.at = "completing" => hook.event \in News
    BY DEF News, Idle
  <2>2. hook.at = "completing" /\ hook.event.change = c => invoice[c] # "none"
    BY <2>1 DEF ChangeInv, NewsSound
  <2>3. events \subseteq events'
    OBVIOUS
  <2>4. invoice[c] # "none" => Settled(c) \in events'
    BY <1>0
  <2> QED
    BY <1>0, <1>1, <2>2, <2>3, <2>4 DEF ChangeInv, HookTellsNews
<1>13. (strayed = {})'
  BY DEF ChangeInv
<1> QED
  BY <1>3, <1>4, <1>5, <1>6, <1>7, <1>8, <1>9, <1>10, <1>11, <1>12, <1>13 DEF ChangeInv


LEMMA SubmittingStep ==
    ASSUME ChangeInv, NEW w \in Workers, Submit(w)
    PROVE  ChangeInv'
<1> DEFINE c == req[w].change
<1> USE DEF external
<1>1. /\ req[w].at = "submitting" /\ c \in Changes /\ Past(c) /\ key[c] # "forgotten"
      /\ UNCHANGED <<billing, change, refuses, hook>>
      /\ key \in [Changes -> {"new", "accepted", "held", "forgotten"}]
      /\ runs \in [Changes -> Nat] /\ invoice \in [Changes -> {"none", "open", "paid", "void"}]
  <2>1. req[w].at = "submitting" /\ UNCHANGED <<billing, change, refuses, hook>>
    BY DEF Submit
  <2> QED
    BY <2>1, RequestChange DEF ChangeInv, RequestSound, TypeOK
<1>2. PICK r \in {Idle, [at |-> IF Known(c) \/ c \notin refuses THEN key'[c] ELSE "refused",
                         change |-> c]} : req' = [req EXCEPT ![w] = r]
  BY DEF Submit, Finish, Goto
<1>3. CASE UNCHANGED external
  <2>1. Known(c) \/ c \in refuses
    <3>1. CASE ~Known(c) /\ c \notin refuses
      BY <1>3, <3>1, <1>1 DEF Submit, Accept, Known
    <3> QED
      BY <3>1
  <2>2. key'[c] = key[c] /\ UNCHANGED Parts
    BY <1>1, <1>3 DEF Parts
  <2>3. r = Idle \/ (r = [at |-> r.at, change |-> c]
                     /\ (r.at \in {"accepted", "held"} \/ (r.at = "refused" /\ c \in refuses)))
    BY <1>1, <1>2, <2>1, <2>2 DEF Known
  <2>4. r \in ConfirmRequests
    BY <1>1, <2>3, IdleIsSound DEF ConfirmRequests
  <2>5. RequestSound(r)
    <3>1. CASE r = Idle
      BY <3>1, IdleIsSound
    <3>2. CASE r # Idle
      <4>1. r.change = c /\ (r.at \in {"accepted", "held"} \/ (r.at = "refused" /\ c \in refuses))
        BY <3>2, <2>3
      <4> HIDE DEF c
      <4> QED
        BY <4>1, <1>1 DEF RequestSound
    <3> QED
      BY <3>1, <3>2
  <2> QED
    BY <1>2, <2>2, <2>4, <2>5, RequestMoves
<1>4. CASE ~UNCHANGED external
  <2>1. ~Known(c) /\ c \notin refuses /\ Accept(c)
    BY <1>4 DEF Submit
  <2>2. key[c] = "new" /\ IsOpen(c)
    BY <1>1, <2>1, SubmitterHolds DEF Known
  <2>3. /\ invoice[c] = "none" /\ runs[c] = 0 /\ matchesSource(c, stripe.terms)
        /\ stripe.pending = None
    <3>1. invoice[c] = "none" /\ runs[c] = 0
      BY <1>1, <2>2 DEF ChangeInv, StripeSound
    <3> QED
      BY <1>1, <2>2, <3>1, PendingIsHolder, OneHolder DEF ChangeInv, HolderTerms
  <2>4. Applied(stripe.terms, c) \in Terms /\ stripe.terms \in Terms
    BY <1>1, <2>3, AppliedTerms DEF ChangeInv, TypeOK
  <2>5. /\ stripe \in [terms : Terms, pending : Changes \cup {None}, invoice : Changes \cup {None}]
        /\ events \subseteq Events /\ strayed \subseteq Changes /\ Updated(c) \in Events
    BY <1>1 DEF ChangeInv, TypeOK, Updated, Events
  <2> HIDE DEF c
  <2>6. strayed' = strayed /\ events' = events \cup {Updated(c)}
    BY <2>1, <2>3 DEF Accept
  <2>7. \/ /\ stripe' = [stripe EXCEPT !.terms = Applied(stripe.terms, c), !.invoice = c]
           /\ invoice' = [invoice EXCEPT ![c] = "paid"]
           /\ key' = [key EXCEPT ![c] = "accepted"]
           /\ runs' = [runs EXCEPT ![c] = runs[c] + 1]
        \/ /\ stripe' = [stripe EXCEPT !.pending = c, !.invoice = c]
           /\ invoice' = [invoice EXCEPT ![c] = "open"]
           /\ key' = [key EXCEPT ![c] = "held"]
           /\ runs' = runs
    BY <2>1 DEF Accept
  <2>8. /\ stripe' \in [terms : Terms, pending : Changes \cup {None}, invoice : Changes \cup {None}]
        /\ stripe'.invoice = c
        /\ stripe'.pending = (IF invoice'[c] = "open" THEN c ELSE None)
        /\ stripe'.terms = (IF invoice'[c] = "paid" THEN Applied(stripe.terms, c) ELSE stripe.terms)
    BY <1>1, <2>3, <2>4, <2>5, <2>7
  <2>9. /\ invoice' \in [Changes -> {"none", "open", "paid", "void"}]
        /\ key' \in [Changes -> {"new", "accepted", "held", "forgotten"}]
        /\ runs' \in [Changes -> Nat]
        /\ invoice'[c] \in {"open", "paid"} /\ key'[c] \in {"accepted", "held"}
        /\ runs'[c] = (IF invoice'[c] = "paid" THEN 1 ELSE 0)
        /\ \A d \in Changes : d # c => invoice'[d] = invoice[d] /\ key'[d] = key[d]
                                       /\ runs'[d] = runs[d]
    BY <1>1, <2>3, <2>7
  <2>10. StripeMoves(c)
    BY <1>1, <2>2, <2>3, <2>6, <2>8, <2>9 DEF StripeMoves
  <2>11. r = Idle \/ (r = [at |-> r.at, change |-> c] /\ r.at \in {"accepted", "held"})
    BY <1>2, <2>1, <2>9 DEF c
  <2>12. /\ r \in ConfirmRequests /\ r.at \in {"idle", "accepted", "held"}
         /\ r.at # "idle" => r.change = c
    BY <1>1, <2>11, IdleIsSound DEF ConfirmRequests, Idle
  <2>13. req' \in [Workers -> ConfirmRequests]
    BY <1>2, <2>12 DEF ChangeInv, TypeOK
  <2>14. TypeOK'
    BY <1>1, <2>5, <2>6, <2>8, <2>9, <2>13 DEF ChangeInv, TypeOK
  <2>15. \A v \in Workers : req'[v] = (IF v = w THEN r ELSE req[v])
    BY <1>2 DEF ChangeInv, TypeOK
  <2> QED
    BY <1>1, <2>1, <2>2, <2>10, <2>12, <2>14, <2>15, StripeStep
<1> QED
  BY <1>3, <1>4

LEMMA PaymentSteps ==
    ASSUME ChangeInv, Pay \/ Void
    PROVE  ChangeInv'
<1> USE DEF external
<1>1. PICK c \in Changes : /\ stripe.pending = c /\ c # None /\ IsOpen(c) /\ invoice[c] = "open"
                           /\ runs[c] = 0 /\ key[c] # "new"
  BY PendingIsHolder DEF Pay, Void
<1>2. UNCHANGED <<billing, change, key, strayed, refuses, req, hook>>
  BY DEF Pay, Void
<1>3. c \notin refuses /\ matchesSource(c, stripe.terms)
  BY <1>1 DEF ChangeInv, StripeSound, HolderTerms
<1>4. Applied(stripe.terms, c) \in Terms
  BY <1>3, AppliedTerms
<1>5. /\ stripe \in [terms : Terms, pending : Changes \cup {None}, invoice : Changes \cup {None}]
      /\ events \subseteq Events /\ Settled(c) \in Events
      /\ runs \in [Changes -> Nat] /\ invoice \in [Changes -> {"none", "open", "paid", "void"}]
  BY DEF ChangeInv, TypeOK, Settled, Events
<1>6. \/ /\ stripe' = [stripe EXCEPT !.terms = Applied(stripe.terms, c), !.pending = None]
         /\ invoice' = [invoice EXCEPT ![c] = "paid"]
         /\ runs' = [runs EXCEPT ![c] = runs[c] + 1]
      \/ /\ stripe' = [stripe EXCEPT !.pending = None]
         /\ invoice' = [invoice EXCEPT ![c] = "void"]
         /\ runs' = runs
  BY <1>1 DEF Pay, Void
<1>7. events' = events \cup {Settled(c)}
  BY <1>1 DEF Pay, Void
<1>8. /\ stripe' \in [terms : Terms, pending : Changes \cup {None}, invoice : Changes \cup {None}]
      /\ stripe'.invoice = stripe.invoice /\ stripe'.pending = None
      /\ stripe'.terms = (IF invoice'[c] = "paid" THEN Applied(stripe.terms, c) ELSE stripe.terms)
  BY <1>4, <1>5, <1>6
<1>9. /\ invoice' \in [Changes -> {"none", "open", "paid", "void"}] /\ runs' \in [Changes -> Nat]
      /\ invoice'[c] \in {"paid", "void"}
      /\ runs'[c] = (IF invoice'[c] = "paid" THEN 1 ELSE 0)
      /\ \A d \in Changes : d # c => invoice'[d] = invoice[d] /\ runs'[d] = runs[d]
  BY <1>1, <1>5, <1>6
<1>10. StripeMoves(c)
  BY <1>1, <1>2, <1>7, <1>8, <1>9 DEF StripeMoves
<1>11. TypeOK'
  BY <1>2, <1>5, <1>7, <1>8, <1>9 DEF ChangeInv, TypeOK
<1> QED
  BY <1>1, <1>2, <1>3, <1>10, <1>11, StripeStep


-----------------------------------------------------------------------------
(* Recording what has become of the change that holds the claim.           *)

LEMMA OutdatedIsRequest ==
    ASSUME NEW r \in ConfirmRequests
    PROVE  /\ OutdatedRequest(r) \in ConfirmRequests
           /\ OutdatedRequest(r).at = r.at
           /\ r.at # "idle" => OutdatedRequest(r).change = r.change
           /\ r.at = "looking" => OutdatedRequest(r).status = r.status
           /\ r.at = "applying" => OutdatedRequest(r).seen = r.seen
BY DEF OutdatedRequest, ConfirmRequests

(* Requests stay sound when changes only get further and the holder's      *)
(* subscription stays as it is.                                            *)
LEMMA RequestsStaySound ==
    ASSUME ChangeInv, UNCHANGED <<stripe, invoice, key, refuses>>,
           \A d \in Changes : (Past(d) => Past(d)') /\ (IsOpen(d)' => IsOpen(d)),
           \A w \in Workers : req'[w] \in {req[w], Idle, OutdatedRequest(req[w])}
    PROVE  (\A w \in Workers : RequestSound(req[w]))'
<1> SUFFICES ASSUME NEW w \in Workers PROVE RequestSound(req[w])'
  OBVIOUS
<1>1. /\ RequestSound(req[w])
      /\ req[w].at # "idle" => req[w].change \in Changes
      /\ req[w] \in ConfirmRequests
  BY RequestChange DEF ChangeInv, TypeOK
<1>2. CASE req'[w] = Idle
  BY <1>2 DEF RequestSound, Idle
<1>3. CASE req'[w] = req[w]
  BY <1>1, <1>3 DEF RequestSound
<1>4. CASE req'[w] = OutdatedRequest(req[w])
  <2> DEFINE o == OutdatedRequest(req[w])
  <2>1. /\ o.at = req[w].at
        /\ req[w].at # "idle" => o.change = req[w].change
        /\ req[w].at = "looking" => o.status = req[w].status
        /\ req[w].at = "applying" => o.seen = req[w].seen
    BY <1>1, OutdatedIsRequest
  <2>2. req'[w] = o
    BY <1>4
  <2> HIDE DEF o
  <2> QED
    BY <1>1, <2>1, <2>2 DEF RequestSound
<1> QED
  BY <1>2, <1>3, <1>4

(* The change that holds the claim is done with.                           *)
LEMMA Releases ==
    ASSUME ChangeInv, NEW c \in Changes, IsOpen(c), TypeOK',
           \A d \in Changes :
              /\ change'[d].kind = change[d].kind
              /\ change'[d].from = change[d].from
              /\ change'[d].to = change[d].to
              /\ change'[d].window = change[d].window
              /\ d # c => change'[d].status = change[d].status,
           \/ change'[c].status = "APPLIED" /\ invoice[c] = "paid"
           \/ change'[c].status = "EXPIRED" /\ invoice[c] = "void"
           \/ change'[c].status = "REJECTED" /\ c \in refuses,
           billing' = [terms |-> stripe.terms, plan |-> None, seats |-> None],
           UNCHANGED <<stripe, invoice, key, runs, strayed, refuses>>,
           events' \subseteq events,
           \/ hook' = Idle
           \/ hook' = hook /\ (hook # Idle /\ hook.base => hook.seen = stripe.terms)
           \/ hook # Idle /\ hook' = [hook EXCEPT !.base = FALSE],
           \A w \in Workers : req'[w] \in {req[w], Idle, OutdatedRequest(req[w])}
    PROVE  ChangeInv'
<1>1. \A d \in Changes : d # c => ~IsOpen(d)
  BY OneHolder
<1>2. \A d \in Changes : /\ ~IsOpen(d)'
                         /\ Past(d) => Past(d)'
                         /\ IsPlan(d)' <=> IsPlan(d)
  BY <1>1 DEF IsOpen, Open, Past, IsPlan
<1>3. c # None /\ Past(c) /\ \A d \in Changes : d # None
  BY ChangeAssumption DEF ChangeAssumption, IsOpen, Past, Open
<1>4. ClaimNamesOpenChange'
  BY <1>2, <1>3 DEF ClaimNamesOpenChange, Active, IsOpen
<1>5. TermsDiffer'
  <2>1. \A d \in Changes : change'[d].status # "NONE" => change[d].status # "NONE"
    BY <1>3 DEF Past
  <2> QED
    BY <1>2, <2>1 DEF ChangeInv, TermsDiffer, IsPlan
<1>6. StripeSound'
  <2>1. \A d \in Changes : invoice[d] # "open"
    BY <1>1 DEF ChangeInv, StripeSound, OutcomesSound
  <2> QED
    BY <1>2, <2>1 DEF ChangeInv, StripeSound
<1>7. HolderTerms' /\ OpenHasNews' /\ HookTellsNews'
  BY <1>2 DEF HolderTerms, OpenHasNews, HookTellsNews
<1>8. OutcomesSound'
  BY DEF ChangeInv, OutcomesSound
<1>9. hook' # Idle => /\ hook # Idle /\ hook'.event = hook.event
                      /\ hook'.base => hook'.seen = stripe.terms
                      /\ hook'.at = hook.at
                      /\ hook.at = "completing" => hook'.change = hook.change
                                                   /\ hook'.outcome = hook.outcome
  <2>1. ASSUME hook # Idle, hook' = [hook EXCEPT !.base = FALSE]
        PROVE  /\ hook'.event = hook.event /\ ~hook'.base /\ hook'.at = hook.at
               /\ hook.at = "completing" => hook'.change = hook.change
                                            /\ hook'.outcome = hook.outcome
    <3>1. hook \in HookRequests /\ hook.at # "idle"
      <4>1. ASSUME NEW h \in [at : {"idle"}] PROVE h = Idle
        BY DEF Idle
      <4> QED
        BY <2>1, <4>1 DEF ChangeInv, TypeOK, HookRequests
    <3> QED
      BY <2>1, <3>1 DEF HookRequests
  <2> QED
    BY <2>1
<1>10. Synchronized'
  <2>1. billing'.terms = stripe'.terms
    OBVIOUS
  <2>2. hook' # Idle /\ hook'.base => hook'.seen = stripe'.terms
    BY <1>9
  <2> QED
    BY <2>1, <2>2 DEF Synchronized
<1>11. (\A w \in Workers : RequestSound(req[w]))'
  BY <1>2, RequestsStaySound
<1>12. HookSound'
  <2>1. HookSound /\ (hook'.at = "completing" => hook' # Idle)
    BY DEF ChangeInv, Idle
  <2>2. hook'.at = "completing" => hook'.change \in Changes \cup {None}
    BY <2>1 DEF TypeOK, HookRequests
  <2>3. \A d \in Changes : change[d].status \notin {"NONE", "QUOTED"}
                           => change'[d].status \notin {"NONE", "QUOTED"}
    BY <1>2 DEF Past
  <2>4. hook'.at = "completing" =>
           /\ hook'.change = None => hook'.outcome = "NONE"
           /\ hook'.change # None => change'[hook'.change].status \notin {"NONE", "QUOTED"}
    <3> SUFFICES ASSUME hook'.at = "completing"
                 PROVE  /\ hook'.change = None => hook'.outcome = "NONE"
                        /\ hook'.change # None =>
                              change'[hook'.change].status \notin {"NONE", "QUOTED"}
      OBVIOUS
    <3>1. /\ hook.at = "completing" /\ hook'.change = hook.change
          /\ hook'.outcome = hook.outcome
      BY <1>9, <2>1
    <3>2. /\ hook.change = None => hook.outcome = "NONE"
          /\ hook.change # None => change[hook.change].status \notin {"NONE", "QUOTED"}
      BY <2>1, <3>1 DEF HookSound, Past
    <3> QED
      BY <2>2, <2>3, <3>1, <3>2
  <2> QED
    BY <1>2, <2>4 DEF HookSound, Past
<1>13. NewsSound' /\ (strayed = {})'
  BY <1>9 DEF ChangeInv, NewsSound, News
<1> QED
  BY <1>4, <1>5, <1>6, <1>7, <1>8, <1>10, <1>11, <1>12, <1>13 DEF ChangeInv


(* The row of the billing, and of the changes, when the claim is released. *)
LEMMA ReleasedRow ==
    ASSUME ChangeInv, NEW c \in Changes, IsOpen(c), NEW t \in Terms
    PROVE  ReleasedClaim(c, [billing EXCEPT !.terms = t])
               = [terms |-> t, plan |-> None, seats |-> None]
<1>1. billing \in [terms : Terms, plan : Changes \cup {None}, seats : Changes \cup {None}]
  BY DEF ChangeInv, TypeOK
<1>2. IF IsPlan(c) THEN billing.seats = None ELSE billing.plan = None
  BY ChangeAssumption DEF ChangeAssumption, ChangeInv, ClaimNamesOpenChange, IsOpen, Active
<1> QED
  BY <1>1, <1>2 DEF ReleasedClaim

LEMMA OutdatedRows ==
    ASSUME ChangeInv
    PROVE  /\ Outdated(change) \in [Changes -> ChangeRows]
           /\ \A d \in Changes :
                 /\ Outdated(change)[d].status = change[d].status
                 /\ Outdated(change)[d].kind = change[d].kind
                 /\ Outdated(change)[d].from = change[d].from
                 /\ Outdated(change)[d].to = change[d].to
                 /\ Outdated(change)[d].window = change[d].window
                 /\ Outdated(change)[d].invoiced = change[d].invoiced
<1>1. \A d \in Changes : change[d] \in ChangeRows
  BY DEF ChangeInv, TypeOK
<1> QED
  BY <1>1 DEF Outdated, ChangeRows

LEMMA RejectingStep ==
    ASSUME ChangeInv, NEW w \in Workers, RecordRejected(w)
    PROVE  ChangeInv'
<1> DEFINE c == req[w].change
           row == [change[c] EXCEPT !.status = "REJECTED"]
<1> USE DEF external
<1>1. /\ req[w].at = "refused" /\ c \in Changes /\ c \in refuses /\ Finish(w)
      /\ UNCHANGED <<external, refuses, hook>>
  <2>1. req[w].at = "refused" /\ Finish(w) /\ UNCHANGED <<external, refuses, hook>>
    BY DEF RecordRejected
  <2> QED
    BY <2>1, RequestChange DEF ChangeInv, RequestSound
<1>2. CASE UNCHANGED <<billing, change>>
  BY <1>1, <1>2, Finishes DEF Parts
<1>3. CASE ~UNCHANGED <<billing, change>>
  <2>1. /\ change[c].status = "PROCESSING" /\ IsOpen(c)
        /\ change' = [change EXCEPT ![c] = row]
        /\ billing' = ReleasedClaim(c, billing)
    BY <1>3 DEF RecordRejected, IsOpen, Open
  <2>2. change \in [Changes -> ChangeRows] /\ change[c] \in ChangeRows
    BY <1>1 DEF ChangeInv, TypeOK
  <2>3. row \in ChangeRows
    BY <2>2 DEF ChangeRows, ChangeStatus
  <2>4. /\ row.status = "REJECTED" /\ row.kind = change[c].kind /\ row.from = change[c].from
        /\ row.to = change[c].to /\ row.window = change[c].window
    BY <2>2 DEF ChangeRows
  <2> HIDE DEF c, row
  <2>5. \A d \in Changes : change'[d] = IF d = c THEN row ELSE change[d]
    BY <2>1, <2>2
  <2>6. key[c] = "new"
    BY <1>1 DEF ChangeInv, StripeSound
  <2>7. NothingSubmitted
    BY <1>1, <2>1, <2>6, OneHolder DEF NothingSubmitted
  <2>8. billing.terms = stripe.terms /\ (hook # Idle /\ hook.base => hook.seen = stripe.terms)
    BY <2>7 DEF ChangeInv, Synchronized
  <2>9. billing' = [terms |-> stripe.terms, plan |-> None, seats |-> None]
    <3>1. billing = [billing EXCEPT !.terms = stripe.terms] /\ stripe.terms \in Terms
      BY <2>8 DEF ChangeInv, TypeOK
    <3> QED
      BY <1>1, <2>1, <3>1, ReleasedRow
  <2>10. /\ req' \in [Workers -> ConfirmRequests]
         /\ \A v \in Workers : req'[v] \in {req[v], Idle}
    BY <1>1, IdleIsSound DEF Finish, Goto, ChangeInv, TypeOK
  <2>11. TypeOK'
    <3>1. change' \in [Changes -> ChangeRows]
      BY <2>1, <2>2, <2>3
    <3>2. billing' \in [terms : Terms, plan : Changes \cup {None}, seats : Changes \cup {None}]
      BY <2>9 DEF ChangeInv, TypeOK
    <3> QED
      BY <1>1, <2>10, <3>1, <3>2 DEF ChangeInv, TypeOK
  <2> QED
    BY <1>1, <2>1, <2>4, <2>5, <2>8, <2>9, <2>10, <2>11, Releases
<1> QED
  BY <1>2, <1>3

LEMMA ApplyingStep ==
    ASSUME ChangeInv, NEW w \in Workers, ApplyConfirmed(w)
    PROVE  ChangeInv'
<1> DEFINE c == req[w].change
           row == [Outdated(change)[c] EXCEPT !.status = "APPLIED"]
<1> USE DEF external
<1>1. req[w].at = "applying" /\ c \in Changes /\ UNCHANGED <<external, refuses>>
  BY RequestChange DEF ApplyConfirmed
<1>2. CASE ~(change[c].status \in Open /\ ClaimHeld(c)
             /\ matchesTarget(c, req[w].seen) /\ req[w].base)
  BY <1>1, <1>2, Finishes DEF ApplyConfirmed, Parts
<1>3. CASE change[c].status \in Open /\ ClaimHeld(c)
           /\ matchesTarget(c, req[w].seen) /\ req[w].base
  <2>1. /\ IsOpen(c)
        /\ change' = [Outdated(change) EXCEPT ![c] = row]
        /\ billing' = ReleasedClaim(c, [billing EXCEPT !.terms = req[w].seen])
        /\ req' = [v \in Workers |-> IF v = w THEN Idle ELSE OutdatedRequest(req[v])]
        /\ hook' = IF hook = Idle THEN Idle ELSE [hook EXCEPT !.base = FALSE]
    BY <1>3 DEF ApplyConfirmed, IsOpen
  <2>2. invoice[c] = "paid" /\ req[w].seen = stripe.terms /\ stripe.terms \in Terms
    BY <1>1, <2>1 DEF ChangeInv, RequestSound, TypeOK
  <2>3. Outdated(change) \in [Changes -> ChangeRows] /\ Outdated(change)[c] \in ChangeRows
    BY <1>1, OutdatedRows
  <2>4. row \in ChangeRows
    BY <2>3 DEF ChangeRows, ChangeStatus
  <2>5. /\ row.status = "APPLIED" /\ row.kind = change[c].kind /\ row.from = change[c].from
        /\ row.to = change[c].to /\ row.window = change[c].window
    BY <1>1, <2>3, OutdatedRows DEF ChangeRows
  <2> HIDE DEF c, row
  <2>6. \A d \in Changes : change'[d] = IF d = c THEN row ELSE Outdated(change)[d]
    BY <2>1, <2>3
  <2>7. billing' = [terms |-> stripe.terms, plan |-> None, seats |-> None]
    BY <1>1, <2>1, <2>2, ReleasedRow
  <2>8. \A v \in Workers : req'[v] \in {Idle, OutdatedRequest(req[v])}
    BY <2>1
  <2>9. TypeOK'
    <3>1. change' \in [Changes -> ChangeRows]
      BY <2>1, <2>3, <2>4
    <3>2. req' \in [Workers -> ConfirmRequests]
      BY <2>1, OutdatedIsRequest, IdleIsSound DEF ChangeInv, TypeOK
    <3>3. hook' \in HookRequests
      <4>1. hook \in HookRequests
        BY DEF ChangeInv, TypeOK
      <4>2. ASSUME NEW h \in [at : {"idle"}] PROVE h = Idle
        BY DEF Idle
      <4>3. hook # Idle => [hook EXCEPT !.base = FALSE] \in HookRequests
        BY <4>1, <4>2 DEF HookRequests
      <4> QED
        BY <2>1, <4>1, <4>3
    <3>4. billing' \in [terms : Terms, plan : Changes \cup {None}, seats : Changes \cup {None}]
      BY <2>2, <2>7
    <3> QED
      BY <1>1, <3>1, <3>2, <3>3, <3>4 DEF ChangeInv, TypeOK
  <2>10. \A d \in Changes :
            /\ change'[d].kind = change[d].kind
            /\ change'[d].from = change[d].from
            /\ change'[d].to = change[d].to
            /\ change'[d].window = change[d].window
            /\ d # c => change'[d].status = change[d].status
    BY <2>5, <2>6, OutdatedRows
  <2>11. change'[c].status = "APPLIED"
    BY <1>1, <2>5, <2>6
  <2> QED
    BY <1>1, <2>1, <2>2, <2>7, <2>8, <2>9, <2>10, <2>11, Releases
<1> QED
  BY <1>2, <1>3


(* The webhook has synchronized, and the change, if any, stays under way.  *)
LEMMA Synchronizes ==
    ASSUME ChangeInv, TypeOK',
           \A d \in Changes :
              /\ change'[d].kind = change[d].kind
              /\ change'[d].from = change[d].from
              /\ change'[d].to = change[d].to
              /\ change'[d].window = change[d].window
              /\ change[d].invoiced => change'[d].invoiced
              /\ \/ change'[d].status = change[d].status
                 \/ change'[d].status \in Open /\ change[d].status \in Open,
           UNCHANGED <<stripe, invoice, key, runs, strayed, refuses>>,
           billing'.plan = billing.plan, billing'.seats = billing.seats,
           NothingSubmitted => billing'.terms = stripe.terms,
           events' \subseteq events, hook' = Idle,
           OpenHasNews',
           \A w \in Workers : req'[w] = OutdatedRequest(req[w])
    PROVE  ChangeInv'
<1>1. \A d \in Changes : /\ IsOpen(d)' <=> IsOpen(d)
                         /\ Past(d)' <=> Past(d)
                         /\ IsPlan(d)' <=> IsPlan(d)
                         /\ Active(d)' = Active(d)
                         /\ change'[d].status \notin Open => change'[d].status = change[d].status
  BY DEF IsOpen, Past, IsPlan, Active, Open
<1>2. ClaimNamesOpenChange'
  BY <1>1 DEF ChangeInv, TypeOK, ClaimNamesOpenChange, IsOpen
<1>3. (TermsDiffer /\ HolderTerms)'
  BY <1>1 DEF ChangeInv, TermsDiffer, HolderTerms, matchesSource, matchesTarget, Same, IsPlan, Open
<1>4. (StripeSound /\ OutcomesSound)'
  BY <1>1 DEF ChangeInv, StripeSound, OutcomesSound, Open
<1>5. (\A w \in Workers : RequestSound(req[w]))'
  BY <1>1, RequestsStaySound
<1>6. Synchronized'
  BY <1>1 DEF Synchronized, NothingSubmitted
<1>7. HookSound' /\ HookTellsNews'
  BY DEF HookSound, HookTellsNews, Idle
<1>8. NewsSound' /\ (strayed = {})'
  BY DEF ChangeInv, NewsSound, News
<1> QED
  BY <1>2, <1>3, <1>4, <1>5, <1>6, <1>7, <1>8 DEF ChangeInv

LEMMA CompletingStep ==
    ASSUME ChangeInv, Complete
    PROVE  ChangeInv'
<1> DEFINE c == hook.change
           out == Outdated(change)
           synced == [billing EXCEPT !.terms = hook.seen]
           row == [[out[c] EXCEPT !.status = hook.outcome]
                     EXCEPT !.invoiced = out[c].invoiced \/ hook.invoiced]
<1> USE DEF external
<1>1. /\ hook.at = "completing" /\ hook # Idle /\ hook' = Idle
      /\ UNCHANGED <<stripe, invoice, key, runs, strayed, refuses>>
  BY DEF Complete, Idle
<1>2. /\ hook.seen \in Terms /\ hook.event \in Events /\ c \in Changes \cup {None}
      /\ hook.outcome \in Outcomes /\ hook.invoiced \in BOOLEAN
  BY <1>1 DEF ChangeInv, TypeOK, HookRequests
<1>3. CASE ~hook.base
  BY <1>1, <1>3, HookEnds DEF Complete, HookParts
<1>4. CASE hook.base
  <2>1. /\ billing' = IF hook.outcome \in {"APPLIED", "EXPIRED"} /\ ActiveChange = c
                      THEN ReleasedClaim(c, synced) ELSE synced
        /\ change' = Recorded(c)
        /\ events' = events \ {hook.event}
        /\ req' = [w \in Workers |-> OutdatedRequest(req[w])]
    BY <1>4 DEF Complete
  <2>2. NothingSubmitted => hook.seen = stripe.terms
    BY <1>1, <1>4 DEF ChangeInv, Synchronized
  <2>3. /\ billing \in [terms : Terms, plan : Changes \cup {None}, seats : Changes \cup {None}]
        /\ synced \in [terms : Terms, plan : Changes \cup {None}, seats : Changes \cup {None}]
        /\ synced.terms = hook.seen /\ synced.plan = billing.plan /\ synced.seats = billing.seats
    BY <1>2 DEF ChangeInv, TypeOK
  <2>4. /\ out \in [Changes -> ChangeRows]
        /\ \A d \in Changes : /\ out[d].status = change[d].status
                              /\ out[d].kind = change[d].kind
                              /\ out[d].from = change[d].from
                              /\ out[d].to = change[d].to
                              /\ out[d].window = change[d].window
                              /\ out[d].invoiced = change[d].invoiced
    BY OutdatedRows
  <2>5. /\ req' \in [Workers -> ConfirmRequests]
        /\ \A w \in Workers : req'[w] = OutdatedRequest(req[w])
    BY <2>1, OutdatedIsRequest DEF ChangeInv, TypeOK
  <2>6. /\ hook.outcome = "NONE" \/ ActiveChange # c => change' = out /\ billing' = synced
        /\ hook.outcome # "NONE" /\ ActiveChange = c => change' = [out EXCEPT ![c] = row]
    <3>1. hook.outcome # "NONE" /\ ActiveChange = c => change' = [out EXCEPT ![c] = row]
      <4>1. [out EXCEPT ![c].status = hook.outcome, ![c].invoiced = @ \/ hook.invoiced]
              = [out EXCEPT ![c] = row]
        BY <1>2, <2>4
      <4> QED
        BY <2>1, <4>1 DEF Recorded
    <3> QED
      BY <2>1, <3>1 DEF Recorded
  <2>7. Idle \in HookRequests
    BY DEF Idle, HookRequests
  <2> HIDE DEF out, synced, row
  <2>8. ASSUME change' \in [Changes -> ChangeRows],
               billing' \in [terms : Terms, plan : Changes \cup {None}, seats : Changes \cup {None}]
        PROVE  TypeOK'
    BY <1>1, <2>1, <2>5, <2>7, <2>8 DEF ChangeInv, TypeOK
  <2>9. ASSUME NEW d \in Changes, IsOpen(d), invoice[d] # "none", hook.event.change = d
        PROVE  \/ c = d /\ hook.outcome \in {"APPLIED", "EXPIRED"}
               \/ /\ c = d /\ hook.outcome = "PENDING_PAYMENT" /\ hook.invoiced
                  /\ invoice[d] = "open" \/ Settled(d) \in events'
               \/ Updated(d) \in events'
    <3>1. Updated(d) # Settled(d)
      BY DEF Updated, Settled
    <3> QED
      BY <1>1, <2>1, <2>9, <3>1 DEF ChangeInv, HookTellsNews
  <2>10. ASSUME NEW d \in Changes, hook.event.change # d
         PROVE  /\ Updated(d) \in events => Updated(d) \in events'
                /\ Settled(d) \in events => Settled(d) \in events'
    BY <2>1, <2>10 DEF Updated, Settled
  <2>11. \A d \in Changes : IsOpen(d) => ActiveChange = d
    BY OneHolder
  <2>12. CASE hook.outcome = "NONE" \/ ActiveChange # c
    <3>1. change' = out /\ billing' = synced
      BY <2>6, <2>12
    <3>2. TypeOK'
      BY <2>3, <2>4, <2>8, <3>1
    <3>3. OpenHasNews'
      <4> SUFFICES ASSUME NEW d \in Changes, IsOpen(d), invoice[d] # "none"
                   PROVE  /\ Updated(d) \in events' \/ change[d].invoiced
                          /\ invoice[d] # "open" => Updated(d) \in events' \/ Settled(d) \in events'
        BY <1>1, <2>4, <3>1 DEF OpenHasNews, IsOpen
      <4>1. CASE hook.event.change = d
        BY <2>9, <2>11, <2>12, <4>1
      <4>2. CASE hook.event.change # d
        BY <2>10, <4>2 DEF ChangeInv, OpenHasNews
      <4> QED
        BY <4>1, <4>2
    <3> QED
      BY <1>1, <2>1, <2>2, <2>3, <2>4, <2>5, <3>1, <3>2, <3>3, Synchronizes
  <2>13. CASE hook.outcome # "NONE" /\ ActiveChange = c
    <3>1. c \in Changes /\ IsOpen(c)
      <4>1. c # None
        BY <1>1, <2>13 DEF ChangeInv, HookSound
      <4> QED
        BY <1>2, <2>13, <4>1 DEF ActiveChange, ChangeInv, ClaimNamesOpenChange, IsOpen
    <3>2. change' = [out EXCEPT ![c] = row] /\ change' = [d \in Changes |-> IF d = c THEN row ELSE out[d]]
      BY <2>4, <2>6, <2>13, <3>1
    <3>3. out[c] \in ChangeRows
      BY <2>4, <3>1
    <3>4. row \in ChangeRows
      BY <1>2, <2>13, <3>3 DEF row, ChangeRows, ChangeStatus, Outcomes
    <3>5. /\ row.status = hook.outcome /\ row.kind = out[c].kind /\ row.from = out[c].from
          /\ row.to = out[c].to /\ row.window = out[c].window
          /\ row.invoiced = (out[c].invoiced \/ hook.invoiced)
      BY <3>3 DEF row, ChangeRows
    <3>6. change' \in [Changes -> ChangeRows]
      BY <2>4, <3>2, <3>4
    <3>7. \A d \in Changes :
             /\ change'[d].kind = change[d].kind
             /\ change'[d].from = change[d].from
             /\ change'[d].to = change[d].to
             /\ change'[d].window = change[d].window
             /\ change[d].invoiced => change'[d].invoiced
             /\ d # c => change'[d].status = change[d].status
      BY <2>4, <3>2, <3>5
    <3>8. change'[c].status = hook.outcome /\ (hook.invoiced => change'[c].invoiced)
      BY <3>1, <3>2, <3>5
    <3>9. CASE hook.outcome \in {"APPLIED", "EXPIRED"}
      <4>1. /\ hook.seen = stripe.terms
            /\ hook.outcome = "APPLIED" => invoice[c] = "paid"
            /\ hook.outcome = "EXPIRED" => invoice[c] = "void"
        BY <1>1, <3>1, <3>9 DEF ChangeInv, HookSound
      <4>2. billing' = [terms |-> stripe.terms, plan |-> None, seats |-> None]
        BY <1>2, <2>1, <2>13, <3>1, <3>9, <4>1, ReleasedRow DEF synced
      <4>3. TypeOK'
        <5>1. stripe.terms \in Terms
          BY DEF ChangeInv, TypeOK
        <5> QED
          BY <2>8, <3>6, <4>2, <5>1
      <4> HIDE DEF c
      <4> QED
        BY <1>1, <2>1, <2>5, <3>1, <3>7, <3>8, <3>9, <4>1, <4>2, <4>3, Releases
    <3>10. CASE hook.outcome \in {"PENDING_PAYMENT", "RECONCILIATION_REQUIRED"}
      <4>1. billing' = synced
        BY <2>1, <3>10
      <4>2. TypeOK'
        BY <2>3, <2>8, <3>6, <4>1
      <4>3. hook.outcome \in Open /\ change[c].status \in Open
        BY <3>1, <3>10 DEF Open, IsOpen
      <4>4. OpenHasNews'
        <5> SUFFICES ASSUME NEW d \in Changes, IsOpen(d)', invoice[d] # "none"
                     PROVE  /\ Updated(d) \in events' \/ change'[d].invoiced
                            /\ invoice[d] # "open" => Updated(d) \in events' \/ Settled(d) \in events'
          BY <1>1 DEF OpenHasNews
        <5>1. IsOpen(d)
          BY <3>1, <3>7 DEF IsOpen
        <5>2. d = c
          BY <2>11, <2>13, <5>1
        <5>3. CASE hook.event.change = d
          BY <2>9, <3>8, <3>10, <5>1, <5>2, <5>3
        <5>4. CASE hook.event.change # d
          BY <2>10, <3>7, <5>1, <5>4 DEF ChangeInv, OpenHasNews
        <5> QED
          BY <5>3, <5>4
      <4> HIDE DEF c
      <4>5. \A d \in Changes : \/ change'[d].status = change[d].status
                               \/ change'[d].status \in Open /\ change[d].status \in Open
        BY <3>7, <3>8, <4>3
      <4> QED
        BY <1>1, <2>1, <2>2, <2>3, <2>5, <3>7, <4>1, <4>2, <4>4, <4>5, Synchronizes
    <3> QED
      BY <1>2, <2>13, <3>9, <3>10 DEF Outcomes
  <2> QED
    BY <2>12, <2>13
<1> QED
  BY <1>3, <1>4

-----------------------------------------------------------------------------
(* The invariant, and what it says of the billing.                         *)

LEMMA ChangeInductive == ChangeInv /\ [Next]_vars => ChangeInv'
<1> SUFFICES ASSUME ChangeInv, [Next]_vars PROVE ChangeInv'
  OBVIOUS
<1>1. CASE UNCHANGED vars
  <2>1. UNCHANGED HookParts /\ hook' = hook /\ change' \in [Changes -> ChangeRows]
        /\ req' = req /\ req \in [Workers -> ConfirmRequests] /\ UNCHANGED Parts
    BY <1>1 DEF vars, external, HookParts, Parts, ChangeInv, TypeOK
  <2> QED
    BY <2>1, RowsMove DEF Parts
<1>2. ASSUME NEW c \in Changes,
             \/ \E kind \in Kinds, to \in Terms : Preview(c, kind, to)
             \/ PreviewExpires(c) \/ WindowCloses(c) \/ Forget(c)
      PROVE  ChangeInv'
  BY <1>2, QuotingStep, RecordingSteps, ForgettingStep
<1>3. ASSUME NEW w \in Workers, ConfirmStep(w) PROVE ChangeInv'
  BY <1>3, ReadingSteps, ClaimingStep, SubmittingStep, RejectingStep, RecordingSteps, ApplyingStep
  DEF ConfirmStep
<1>4. CASE WebhookStep \/ WebhookFails
  BY <1>4, WebhookReads, CompletingStep DEF WebhookStep
<1>5. CASE Pay \/ Void
  BY <1>5, PaymentSteps
<1> QED
  BY <1>1, <1>2, <1>3, <1>4, <1>5 DEF Next

LEMMA ChangeInvariant == Spec => []ChangeInv
<1>1. Init => ChangeInv
  BY ChangeInitially
<1>2. ChangeInv /\ [Next]_vars => ChangeInv'
  BY ChangeInductive
<1> QED
  BY <1>1, <1>2, PTL DEF Spec

(* Every variable keeps its type.                                          *)
THEOREM ChangeTyped == Spec => []TypeOK
<1>1. ChangeInv => TypeOK
  BY DEF ChangeInv
<1> QED
  BY <1>1, ChangeInvariant, PTL

(* The billing row names exactly the change that is under way: claims,     *)
(* outcomes and webhooks of either kind never leave two, or a stale one.   *)
THEOREM ClaimIsTheOpenChange == Spec => []ClaimNamesOpenChange
<1>1. ChangeInv => ClaimNamesOpenChange
  BY DEF ChangeInv
<1> QED
  BY <1>1, ChangeInvariant, PTL

(* Confirmed again, answered or not, and reconciled at the same time, a    *)
(* change takes effect at most once and on the terms it was quoted from.   *)
THEOREM ChangesRunOnceAsQuoted == Spec => []ExecutedOnceAsQuoted
<1>1. ChangeInv => ExecutedOnceAsQuoted
  BY DEF ChangeInv, ExecutedOnceAsQuoted, StripeSound
<1> QED
  BY <1>1, ChangeInvariant, PTL

(* An applied change took effect; a rejected or expired one did not and    *)
(* never will.                                                             *)
THEOREM RecordedOutcomesAreTrue == Spec => []OutcomesAreTrue
<1>1. ChangeInv => OutcomesAreTrue
  <2> SUFFICES ASSUME ChangeInv, NEW c \in Changes
               PROVE  /\ change[c].status = "APPLIED" => runs[c] = 1
                      /\ change[c].status \in {"REJECTED", "EXPIRED"} =>
                            runs[c] = 0 /\ stripe.pending # c
    BY DEF OutcomesAreTrue
  <2>1. change[c].status = "REJECTED" => invoice[c] = "none"
    BY DEF ChangeInv, StripeSound, OutcomesSound
  <2> QED
    BY <2>1 DEF ChangeInv, StripeSound, OutcomesSound
<1> QED
  BY <1>1, ChangeInvariant, PTL

(* When nothing waits for a payment and no event is left, the outcome of   *)
(* every change that Stripe accepted is recorded.                          *)
THEOREM AcceptedChangesAreSettled == Spec => []AcceptedIsSettled
<1>1. ChangeInv => AcceptedIsSettled
  <2> SUFFICES ASSUME ChangeInv, stripe.pending = None, events = {},
                      NEW c \in Changes, invoice[c] # "none"
               PROVE  change[c].status \in {"APPLIED", "EXPIRED"}
    BY DEF AcceptedIsSettled
  <2>1. key[c] # "new" /\ Past(c) /\ c \notin refuses
    BY DEF ChangeInv, StripeSound
  <2>2. invoice[c] # "open"
    BY ChangeAssumption DEF ChangeAssumption, ChangeInv, StripeSound
  <2>3. ~IsOpen(c)
    BY <2>2 DEF ChangeInv, OpenHasNews
  <2>4. change[c].status \in ChangeStatus /\ change[c].status # "REJECTED"
    BY <2>1 DEF ChangeInv, TypeOK, ChangeRows, OutcomesSound
  <2> QED
    BY <2>1, <2>3, <2>4 DEF IsOpen, Past, Open, ChangeStatus
<1> QED
  BY <1>1, ChangeInvariant, PTL
===============================================================================
