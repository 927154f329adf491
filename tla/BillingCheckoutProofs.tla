------------------------- MODULE BillingCheckoutProofs -------------------------
(***************************************************************************)
(* The organization never has a second session or subscription to pay for, *)
(* for every set of requests and operations.                               *)
(*                                                                         *)
(* The argument follows the claim.  What is open or paid at Stripe belongs *)
(* to the operation that holds the claim, or the claim was ended by a      *)
(* webhook, which stored ACTIVE with it; and while the row is claimed or   *)
(* ACTIVE nobody else claims it.                                           *)
(*                                                                         *)
(* When every webhook is processed, the row is right (SettleInv).  Events  *)
(* tell what has happened, and what is not yet right at the row, or still  *)
(* claimed though complete, is told by an event that is left or by the     *)
(* webhook under way, which puts it right.                                 *)
(***************************************************************************)
EXTENDS BillingCheckout, FiniteSetTheorems, TLAPS

Live(o) == session[o] = "open" \/ subscription[o] = "ACTIVE"

Creating(r) == r.at \in {"creating", "refused"}

RowNamesItsSession == billing.session # None => billing.session = billing.operation

PaidInSession ==
    \A o \in Operations : subscription[o] = "ACTIVE" => session[o] \in {"open", "complete"}

OneLive == \A o1, o2 \in Operations : Live(o1) /\ Live(o2) => o1 = o2

LiveHoldsClaim ==
    \A o \in Operations : Live(o) =>
       \/ billing.operation = o
       \/ /\ billing.operation = None /\ billing.status = "ACTIVE"
          /\ session[o] = "complete"
          /\ hook.at = "completing" => hook.status = "ACTIVE"

OneCreator == \A v, w \in Workers : Creating(req[v]) /\ Creating(req[w]) => v = w

RequestSound(r) ==
    /\ Creating(r) => session[r.operation] = "none" /\ billing.operation = r.operation
    /\ r.at = "expired" =>
          r.seen.session \in Operations /\ session[r.seen.session] = "expired"

(* What the webhook has found complete stays complete, and is not paid     *)
(* again once it is canceled.                                              *)
HookSound ==
    hook.at = "completing" /\ hook.completed =>
       /\ hook.selected \in Operations /\ hook.seen.operation = hook.selected
       /\ session[hook.selected] = "complete"
       /\ hook.status = "CANCELED" => subscription[hook.selected] # "ACTIVE"

ClaimInv ==
    /\ RowNamesItsSession
    /\ PaidInSession
    /\ OneLive
    /\ LiveHoldsClaim
    /\ OneCreator
    /\ \A w \in Workers : RequestSound(req[w])
    /\ HookSound

CheckoutInv == TypeOK /\ ClaimInv

-----------------------------------------------------------------------------
(* The initial state.                                                      *)
LEMMA CheckoutInitially == Init => CheckoutInv
<1> SUFFICES ASSUME Init PROVE CheckoutInv
  OBVIOUS
<1> USE CheckoutAssumption
<1>1. TypeOK
  BY DEF Init, TypeOK, Billings, Named, Requests, Hooks, Idle
<1>2. ClaimInv
  BY DEF Init, ClaimInv, RowNamesItsSession, PaidInSession, OneLive, LiveHoldsClaim, Live,
         OneCreator, Creating, RequestSound, HookSound, Idle
<1> QED
  BY <1>1, <1>2 DEF CheckoutInv

(* A request that neither creates a session nor saves one, and writes      *)
(* nothing.                                                                *)
LEMMA RequestReads ==
    ASSUME CheckoutInv, NEW w \in Workers, NEW r \in Requests,
           req' = [req EXCEPT ![w] = r],
           UNCHANGED <<billing, session, subscription, latest, events, hook>>,
           offered' \subseteq Operations,
           Creating(r) => Creating(req[w]), RequestSound(r)
    PROVE  CheckoutInv'
<1>1. req'[w] = r /\ \A v \in Workers \ {w} : req'[v] = req[v]
  BY DEF CheckoutInv, TypeOK
<1>2. TypeOK'
  BY <1>1 DEF CheckoutInv, TypeOK
<1>3. (RowNamesItsSession /\ PaidInSession /\ OneLive /\ LiveHoldsClaim /\ HookSound)'
  BY DEF CheckoutInv, ClaimInv, RowNamesItsSession, PaidInSession, OneLive, LiveHoldsClaim,
         Live, HookSound
<1>4. OneCreator'
  BY <1>1 DEF CheckoutInv, ClaimInv, OneCreator, Creating
<1>5. (\A v \in Workers : RequestSound(req[v]))'
  BY <1>1 DEF CheckoutInv, ClaimInv, RequestSound, Creating
<1> QED
  BY <1>2, <1>3, <1>4, <1>5 DEF CheckoutInv, ClaimInv

LEMMA IdleIsSound == Idle \in Requests /\ ~Creating(Idle) /\ RequestSound(Idle)
BY DEF Idle, Requests, Creating, RequestSound

(* A step of a request that only reads.                                    *)
LEMMA ReadingSteps ==
    ASSUME CheckoutInv, NEW w \in Workers,
           Begin(w) \/ Recover(w) \/ Look(w) \/ Die(w)
    PROVE  CheckoutInv'
<1> USE CheckoutAssumption
<1>0. req[w] \in Requests /\ billing \in Billings /\ offered \subseteq Operations
  BY DEF CheckoutInv, TypeOK
<1>1. CASE Begin(w)
  <2> DEFINE r == [at |-> IF req[w] = Idle /\ Unsaved(billing) THEN "begun" ELSE "listed",
                   seen |-> billing]
  <2>1. req' = [req EXCEPT ![w] = r] /\ r.at \in {"begun", "listed"}
    BY <1>1 DEF Begin, Goto
  <2>2. r \in [at : {"begun", "listed", "recovered"}, seen : Billings]
    BY <1>0
  <2>3. r \in Requests
    BY <2>2 DEF Requests
  <2>4. RequestSound(r) /\ ~Creating(r)
    BY <2>1 DEF RequestSound, Creating
  <2> HIDE DEF r
  <2> QED
    BY <1>0, <1>1, <2>1, <2>3, <2>4, RequestReads DEF Begin, external
<1>2. CASE Recover(w)
  <2> DEFINE r == IF session[req[w].seen.operation] = "none" THEN [at |-> "reading"]
                  ELSE [req[w] EXCEPT !.at = "recovered"]
  <2>1. req' = [req EXCEPT ![w] = r] /\ req[w].at = "begun"
    BY <1>2 DEF Recover, Goto
  <2>2. req[w] \in [at : {"begun", "listed", "recovered"}, seen : Billings]
    BY <1>0, <2>1 DEF Requests
  <2>3. r.at \in {"reading", "recovered"} /\ r \in Requests
    BY <2>2 DEF Requests
  <2>4. RequestSound(r) /\ ~Creating(r)
    BY <2>3 DEF RequestSound, Creating
  <2> HIDE DEF r
  <2> QED
    BY <1>0, <1>2, <2>1, <2>3, <2>4, RequestReads DEF Recover, external
<1>3. CASE Look(w)
  <2>1. offered' \subseteq Operations
    BY <1>0, <1>3 DEF Look, Requests, Billings, Named
  <2>2. PICK r \in Requests : /\ req' = [req EXCEPT ![w] = r]
                              /\ ~Creating(r) /\ RequestSound(r)
    <3>1. CASE req' = [req EXCEPT ![w] = Idle]
      BY <3>1, IdleIsSound
    <3>2. CASE req' = [req EXCEPT ![w] = [at |-> "free"]]
      <4>1. /\ [at |-> "free"] \in Requests
            /\ ~Creating([at |-> "free"]) /\ RequestSound([at |-> "free"])
        BY DEF Requests, Creating, RequestSound
      <4> QED
        BY <3>2, <4>1
    <3>3. CASE /\ req' = [req EXCEPT ![w] = [req[w] EXCEPT !.at = "expired"]]
               /\ req[w].at = "listed"
               /\ req[w].seen.session # None /\ session[req[w].seen.session] = "expired"
      <4> DEFINE r == [req[w] EXCEPT !.at = "expired"]
      <4>1. r \in Requests /\ r.at = "expired" /\ r.seen = req[w].seen
            /\ req[w].seen \in Billings
        BY <1>0, <3>3 DEF Requests
      <4>2. RequestSound(r) /\ ~Creating(r)
        BY <3>3, <4>1 DEF RequestSound, Creating, Billings, Named
      <4> QED
        BY <3>3, <4>1, <4>2
    <3> QED
      BY <1>3, <3>1, <3>2, <3>3 DEF Look, Goto, Finish
  <2> QED
    BY <1>3, <2>1, <2>2, RequestReads DEF Look
<1>4. CASE Die(w)
  BY <1>0, <1>4, IdleIsSound, RequestReads DEF Die, Finish, Goto, external
<1> QED
  BY <1>1, <1>2, <1>3, <1>4

(* A session is stored under the operation that made it.                   *)
LEMMA SavingSteps ==
    ASSUME CheckoutInv, NEW w \in Workers, SaveRecovered(w) \/ Save(w)
    PROVE  CheckoutInv'
<1> USE CheckoutAssumption
<1>1. PICK o \in Named, r \in Requests :
        /\ billing' \in {billing, [billing EXCEPT !.session = o]}
        /\ billing' # billing => billing.operation = o
        /\ offered' \in {offered, offered \cup {o}} /\ offered' \subseteq Operations
        /\ req' = [req EXCEPT ![w] = r] /\ r.at \in {"idle", "reading"}
  <2>1. Idle \in Requests /\ [at |-> "reading"] \in Requests
    BY DEF Idle, Requests
  <2>2. CASE SaveRecovered(w)
    <3>1. req[w].seen.operation \in Named
      BY <2>2 DEF SaveRecovered, CheckoutInv, TypeOK, Requests, Billings
    <3>2. req' = [req EXCEPT ![w] = Idle] \/ req' = [req EXCEPT ![w] = [at |-> "reading"]]
      BY <2>2 DEF SaveRecovered, Goto, Finish
    <3> QED
      BY <2>1, <2>2, <3>1, <3>2
         DEF SaveRecovered, Saves, Saved, external, CheckoutInv, TypeOK, Idle
  <2>3. CASE Save(w)
    <3>1. req[w].operation \in Operations
      BY <2>3 DEF Save, CheckoutInv, TypeOK, Requests
    <3> DEFINE o == req[w].operation
    <3>2. /\ billing' \in {billing, [billing EXCEPT !.session = o]}
          /\ billing' # billing => billing.operation = o
          /\ offered' \in {offered, offered \cup {o}}
      BY <2>3 DEF Save, Saves, Saved
    <3>3. req' = [req EXCEPT ![w] = Idle] /\ Idle.at \in {"idle", "reading"}
      BY <2>3 DEF Save, Finish, Goto, Idle
    <3>4. offered' \subseteq Operations /\ o \in Named
      BY <3>1, <3>2 DEF CheckoutInv, TypeOK, Named
    <3> HIDE DEF o
    <3> QED
      BY <2>1, <3>2, <3>3, <3>4
  <2> QED
    BY <2>2, <2>3
<1>2. UNCHANGED <<session, subscription, latest, events, hook>>
  BY DEF SaveRecovered, Save, external
<1>3. req'[w] = r /\ \A v \in Workers \ {w} : req'[v] = req[v]
  BY <1>1 DEF CheckoutInv, TypeOK
<1>4. /\ billing' \in Billings /\ billing'.operation = billing.operation
      /\ billing'.status = billing.status
      /\ billing'.session # None => billing'.session = billing'.operation
  BY <1>1 DEF CheckoutInv, ClaimInv, TypeOK, Billings, Named, RowNamesItsSession
<1>5. TypeOK'
  BY <1>1, <1>2, <1>4 DEF CheckoutInv, TypeOK
<1>6. (PaidInSession /\ OneLive /\ LiveHoldsClaim /\ HookSound)'
  BY <1>2, <1>4
     DEF CheckoutInv, ClaimInv, PaidInSession, OneLive, LiveHoldsClaim, Live, HookSound
<1>7. OneCreator' /\ (\A v \in Workers : RequestSound(req[v]))'
  BY <1>1, <1>2, <1>3, <1>4 DEF CheckoutInv, ClaimInv, OneCreator, Creating, RequestSound
<1> QED
  BY <1>4, <1>5, <1>6, <1>7 DEF CheckoutInv, ClaimInv, RowNamesItsSession

(* The claim of an expired or a rejected session is cleared: nothing is    *)
(* live then, and no other request is creating.                            *)
LEMMA Clearing ==
    ASSUME CheckoutInv, NEW w \in Workers, NEW r \in Requests,
           billing' = Cleared, req' = [req EXCEPT ![w] = r],
           r.at \in {"idle", "free"}, UNCHANGED <<external, hook>>,
           billing.operation \in Operations,
           \/ session[billing.operation] = "expired"
           \/ session[billing.operation] = "none" /\ Creating(req[w])
    PROVE  CheckoutInv'
<1> USE CheckoutAssumption
<1>1. req'[w] = r /\ \A v \in Workers \ {w} : req'[v] = req[v]
  BY DEF CheckoutInv, TypeOK
<1>2. billing' \in Billings /\ billing'.operation = None /\ billing'.session = None
  BY DEF Cleared, CheckoutInv, TypeOK, Billings, Named
<1>3. \A o \in Operations : ~Live(o)
  BY DEF CheckoutInv, ClaimInv, LiveHoldsClaim, Live, PaidInSession
<1>4. \A v \in Workers : ~Creating(req'[v])
  BY <1>1 DEF CheckoutInv, ClaimInv, RequestSound, OneCreator, Creating
<1>5. TypeOK'
  BY <1>1, <1>2 DEF CheckoutInv, TypeOK, external
<1>6. (RowNamesItsSession /\ PaidInSession /\ OneLive /\ LiveHoldsClaim /\ HookSound)'
  BY <1>2, <1>3 DEF CheckoutInv, ClaimInv, RowNamesItsSession, PaidInSession, OneLive,
                    LiveHoldsClaim, Live, HookSound, external
<1>7. OneCreator' /\ (\A v \in Workers : RequestSound(req[v]))'
  <2>1. \A v \in Workers : ~Creating(req[v])'
    BY <1>4 DEF Creating
  <2>2. session' = session /\ \A v \in Workers : RequestSound(req[v])
    BY DEF external, CheckoutInv, ClaimInv
  <2> QED
    BY <1>1, <2>1, <2>2 DEF OneCreator, RequestSound
<1> QED
  BY <1>5, <1>6, <1>7 DEF CheckoutInv, ClaimInv

LEMMA ClearingSteps ==
    ASSUME CheckoutInv, NEW w \in Workers, ClearExpired(w) \/ ReleaseRejected(w)
    PROVE  CheckoutInv'
<1> USE CheckoutAssumption
<1>0. req[w] \in Requests /\ RequestSound(req[w]) /\ billing \in Billings
      /\ offered \subseteq Operations
  BY DEF CheckoutInv, ClaimInv, TypeOK
<1>1. Idle \in Requests /\ [at |-> "free"] \in Requests /\ Idle.at = "idle"
  BY DEF Idle, Requests
<1>2. CASE ClearExpired(w)
  <2>1. CASE Finish(w) /\ UNCHANGED billing
    BY <1>0, <1>2, <2>1, IdleIsSound, RequestReads DEF ClearExpired, Finish, Goto, external
  <2>2. CASE /\ billing' = Cleared /\ Goto(w, [at |-> "free"])
             /\ billing.session = req[w].seen.session
    <3>1. billing.operation \in Operations /\ session[billing.operation] = "expired"
      BY <1>0, <1>2, <2>2
         DEF ClearExpired, RequestSound, CheckoutInv, ClaimInv, RowNamesItsSession
    <3> DEFINE r == [at |-> "free"]
    <3>2. r \in Requests /\ r.at \in {"idle", "free"} /\ req' = [req EXCEPT ![w] = r]
      BY <1>1, <2>2 DEF Goto
    <3> HIDE DEF r
    <3> QED
      BY <1>2, <2>2, <3>1, <3>2, Clearing DEF ClearExpired
  <2> QED
    BY <1>2, <2>1, <2>2 DEF ClearExpired
<1>3. CASE ReleaseRejected(w)
  <2>1. req[w].operation \in Operations /\ Creating(req[w]) /\ Finish(w)
    BY <1>0, <1>3 DEF ReleaseRejected, Requests, Creating
  <2>2. CASE UNCHANGED billing
    BY <1>0, <1>3, <2>2, IdleIsSound, RequestReads DEF ReleaseRejected, Finish, Goto, external
  <2>3. CASE billing' = Cleared /\ billing.operation = req[w].operation
    <3>1. session[billing.operation] = "none"
      BY <1>0, <2>1, <2>3 DEF RequestSound
    <3> QED
      BY <1>1, <1>3, <2>1, <2>3, <3>1, Clearing DEF ReleaseRejected, Finish, Goto
  <2> QED
    BY <1>3, <2>2, <2>3 DEF ReleaseRejected, Saves
<1> QED
  BY <1>2, <1>3

(* A claim is made only where nothing is live.                             *)
LEMMA ClaimStep ==
    ASSUME CheckoutInv, NEW w \in Workers, Claim(w)
    PROVE  CheckoutInv'
<1> USE CheckoutAssumption
<1>1. CASE Finish(w) /\ UNCHANGED billing
  BY <1>1, IdleIsSound, RequestReads DEF Claim, Finish, Goto, external, CheckoutInv, TypeOK
<1>2. ASSUME Claimable, NEW o \in Operations, Unused(o),
             billing' = [billing EXCEPT !.operation = o],
             Goto(w, [at |-> "creating", operation |-> o])
      PROVE  CheckoutInv'
  <2> DEFINE r == [at |-> "creating", operation |-> o]
  <2>1. r \in Requests
    BY DEF Requests
  <2>2. req'[w] = r /\ \A v \in Workers \ {w} : req'[v] = req[v]
    BY <1>2 DEF CheckoutInv, TypeOK, Goto
  <2>3. billing' \in Billings /\ billing'.operation = o /\ billing'.session = None
    BY <1>2 DEF CheckoutInv, ClaimInv, RowNamesItsSession, TypeOK, Billings, Named,
                Claimable, Claimed
  <2>4. \A p \in Operations : ~Live(p)
    BY <1>2 DEF CheckoutInv, ClaimInv, LiveHoldsClaim, Claimable, Claimed
  <2>5. \A v \in Workers : ~Creating(req[v])
    <3> SUFFICES ASSUME NEW v \in Workers, Creating(req[v]) PROVE FALSE
      OBVIOUS
    <3>1. req[v].operation \in Operations
      BY DEF CheckoutInv, TypeOK, Requests, Creating
    <3> QED
      BY <1>2, <3>1 DEF CheckoutInv, ClaimInv, RequestSound, Claimable, Claimed
  <2>6. TypeOK'
    BY <1>2, <2>1, <2>3 DEF Claim, Goto, CheckoutInv, TypeOK, external
  <2>7. (RowNamesItsSession /\ PaidInSession /\ OneLive /\ LiveHoldsClaim /\ HookSound)'
    BY <2>3, <2>4 DEF Claim, CheckoutInv, ClaimInv, RowNamesItsSession, PaidInSession, OneLive,
                      LiveHoldsClaim, Live, HookSound, external
  <2>8. OneCreator'
    BY <2>2, <2>5 DEF OneCreator, Creating
  <2>9. (\A v \in Workers : RequestSound(req[v]))'
    <3>1. session' = session /\ session[o] = "none" /\ \A v \in Workers : RequestSound(req[v])
      BY <1>2 DEF Claim, external, Unused, CheckoutInv, ClaimInv
    <3> QED
      BY <2>2, <2>3, <2>5, <3>1 DEF RequestSound, Creating
  <2> QED
    BY <2>6, <2>7, <2>8, <2>9 DEF CheckoutInv, ClaimInv
<1> QED
  BY <1>1, <1>2 DEF Claim

LEMMA CreateStep ==
    ASSUME CheckoutInv, NEW w \in Workers, CreateSession(w)
    PROVE  CheckoutInv'
<1> USE CheckoutAssumption
<1> DEFINE o == req[w].operation
<1>1. /\ req[w] \in [at : {"creating", "created", "refused"}, operation : Operations]
      /\ o \in Operations /\ session[o] = "none" /\ billing.operation = o
  BY DEF CreateSession, CheckoutInv, ClaimInv, TypeOK, Requests, RequestSound, Creating
<1>2. CASE req' = [req EXCEPT ![w] = [req[w] EXCEPT !.at = "refused"]] /\ UNCHANGED session
  <2> DEFINE r == [req[w] EXCEPT !.at = "refused"]
  <2>1. r \in Requests /\ Creating(req[w]) /\ RequestSound(r)
    BY <1>1 DEF CreateSession, Requests, Creating, RequestSound
  <2> HIDE DEF r
  <2> QED
    BY <1>2, <2>1, RequestReads DEF CreateSession, CheckoutInv, TypeOK, r
<1>3. ASSUME NEW r \in Requests, req' = [req EXCEPT ![w] = r],
             r.at \in {"idle", "created"}, session' = [session EXCEPT ![o] = "open"]
      PROVE  CheckoutInv'
  <2>1. req'[w] = r /\ \A v \in Workers \ {w} : req'[v] = req[v]
    BY <1>3 DEF CheckoutInv, TypeOK
  <2>2. \A v \in Workers : ~Creating(req'[v])
    BY <1>3, <2>1 DEF CreateSession, CheckoutInv, ClaimInv, OneCreator, Creating
  <2>3. /\ session' \in [Operations -> {"none", "open", "complete", "expired"}]
        /\ session'[o] = "open" /\ \A p \in Operations \ {o} : session'[p] = session[p]
    BY <1>1, <1>3 DEF CheckoutInv, TypeOK
  <2>4. \A p \in Operations : Live(p) => p = o
    BY <1>1 DEF CheckoutInv, ClaimInv, LiveHoldsClaim
  <2>5. TypeOK'
    BY <1>3, <2>3 DEF CreateSession, CheckoutInv, TypeOK
  <2>6. UNCHANGED <<billing, subscription, hook>>
    BY DEF CreateSession
  <2> HIDE DEF o
  <2>7. (RowNamesItsSession /\ PaidInSession /\ OneLive /\ LiveHoldsClaim /\ HookSound)'
    BY <1>1, <2>3, <2>4, <2>6 DEF CheckoutInv, ClaimInv, RowNamesItsSession, PaidInSession, OneLive,
                      LiveHoldsClaim, Live, HookSound
  <2>8. OneCreator'
    BY <2>2 DEF OneCreator, Creating
  <2>9. (\A v \in Workers : RequestSound(req[v]))'
    <3>1. \A v \in Workers : RequestSound(req[v]) /\ ~Creating(req[v])'
      BY <2>2 DEF CheckoutInv, ClaimInv, Creating
    <3> QED
      BY <1>1, <1>3, <2>1, <2>3, <3>1 DEF RequestSound
  <2> QED
    BY <2>5, <2>7, <2>8, <2>9 DEF CheckoutInv, ClaimInv
<1>4. Idle \in Requests /\ Idle.at = "idle"
  BY DEF Idle, Requests
<1>5. [req[w] EXCEPT !.at = "created"] \in Requests
  BY <1>1 DEF Requests
<1>6. [req[w] EXCEPT !.at = "created"].at = "created"
  BY <1>1
<1>7. \/ req' = [req EXCEPT ![w] = [req[w] EXCEPT !.at = "refused"]] /\ UNCHANGED session
      \/ /\ session' = [session EXCEPT ![o] = "open"]
         /\ \/ req' = [req EXCEPT ![w] = Idle]
            \/ req' = [req EXCEPT ![w] = [req[w] EXCEPT !.at = "created"]]
  BY DEF CreateSession, Finish, Goto
<1> QED
  BY <1>2, <1>3, <1>4, <1>5, <1>6, <1>7

-----------------------------------------------------------------------------
(* The webhook.                                                            *)
LEMMA HookOnlyStep ==
    ASSUME CheckoutInv, UNCHANGED <<billing, external, req>>, hook' \in Hooks,
           HookSound',
           hook'.at = "completing" => hook'.status = IF Subscribed THEN "ACTIVE" ELSE "CANCELED"
    PROVE  CheckoutInv'
<1>1. TypeOK'
  BY DEF CheckoutInv, TypeOK, external
<1>2. (RowNamesItsSession /\ PaidInSession /\ OneLive)'
  BY DEF CheckoutInv, ClaimInv, RowNamesItsSession, PaidInSession, OneLive, Live, external
<1>3. LiveHoldsClaim'
  <2>1. UNCHANGED <<billing, session, subscription>>
    BY DEF external
  <2> SUFFICES ASSUME NEW o \in Operations, Live(o)', billing.operation # o
               PROVE  /\ billing.operation = None /\ billing.status = "ACTIVE"
                      /\ session[o] = "complete"
                      /\ hook'.at = "completing" => hook'.status = "ACTIVE"
    BY <2>1 DEF LiveHoldsClaim
  <2>2. Live(o)
    BY <2>1 DEF Live
  <2>3. /\ billing.operation = None /\ billing.status = "ACTIVE"
        /\ session[o] = "complete"
    BY <2>2 DEF CheckoutInv, ClaimInv, LiveHoldsClaim
  <2>4. Subscribed
    BY <2>2, <2>3 DEF Live, Subscribed
  <2> QED
    BY <2>3, <2>4
<1>4. (OneCreator /\ \A w \in Workers : RequestSound(req[w]))'
  BY DEF CheckoutInv, ClaimInv, OneCreator, Creating, RequestSound, external
<1> QED
  BY <1>1, <1>2, <1>3, <1>4 DEF CheckoutInv, ClaimInv

LEMMA ReadingHooks ==
    ASSUME CheckoutInv,
           (\E e \in Events : BeginWebhook(e)) \/ ReadStripe \/ WebhookFails
    PROVE  CheckoutInv'
<1> USE CheckoutAssumption
<1>1. ASSUME NEW e \in Events, BeginWebhook(e) PROVE CheckoutInv'
  <2>1. hook' \in Hooks /\ hook'.at = "reading"
    BY <1>1 DEF BeginWebhook, Hooks, CheckoutInv, TypeOK
  <2> QED
    BY <1>1, <2>1, HookOnlyStep DEF BeginWebhook, HookSound
<1>2. CASE ReadStripe
  <2>1. /\ hook.event \in Events /\ hook.seen \in Billings /\ latest \in Named
        /\ UNCHANGED <<session, subscription>>
    BY <1>2 DEF ReadStripe, Hooks, CheckoutInv, TypeOK, external
  <2>2. Selected \in Named
    BY <2>1 DEF Selected, Subscribed, Named
  <2>3. /\ hook' \in Hooks /\ hook'.seen = hook.seen /\ hook'.selected = Selected
        /\ hook'.status = IF Subscribed THEN "ACTIVE" ELSE "CANCELED"
        /\ hook'.completed <=> Completed(hook.seen, Selected)
    <3>1. Completed(hook.seen, Selected) \in BOOLEAN
      BY DEF Completed
    <3> QED
      BY <1>2, <2>1, <2>2, <3>1 DEF ReadStripe, Hooks
  <2>4. HookSound'
    <3> SUFFICES ASSUME Completed(hook.seen, Selected)
                 PROVE  /\ Selected \in Operations /\ hook.seen.operation = Selected
                        /\ session[Selected] = "complete"
                        /\ hook'.status = "CANCELED" => subscription[Selected] # "ACTIVE"
      BY <2>1, <2>3 DEF HookSound
    <3> QED
      BY <2>2, <2>3 DEF Completed, Named, Subscribed
  <2> QED
    BY <1>2, <2>3, <2>4, HookOnlyStep DEF ReadStripe
<1>3. CASE WebhookFails
  <2>1. hook' \in Hooks /\ hook'.at = "idle"
    BY <1>3 DEF WebhookFails, Hooks, Idle
  <2> QED
    BY <1>3, <2>1, HookOnlyStep DEF WebhookFails, HookSound
<1> QED
  BY <1>1, <1>2, <1>3

(* Ending a claim stores ACTIVE, unless what it led to was canceled.       *)
LEMMA CompleteStep ==
    ASSUME CheckoutInv, Complete
    PROVE  CheckoutInv'
<1> USE CheckoutAssumption
<1>1. /\ hook.at = "completing" /\ hook.status \in {"ACTIVE", "CANCELED"}
      /\ hook' = Idle /\ Idle.at = "idle" /\ Idle \in Hooks
      /\ UNCHANGED <<session, subscription, latest, offered, req>>
      /\ events' \subseteq Events
  BY DEF Complete, CheckoutInv, TypeOK, Hooks, Idle
<1>2. CASE billing' = [[billing EXCEPT !.status = hook.status]
                        EXCEPT !.operation = None, !.session = None] /\ Ends
  <2>1. /\ billing' \in Billings /\ billing'.status = hook.status
        /\ billing'.operation = None /\ billing'.session = None
    BY <1>1, <1>2 DEF CheckoutInv, TypeOK, Billings, Named
  <2>2. /\ hook.selected \in Operations /\ billing.operation = hook.selected
        /\ session[hook.selected] = "complete"
        /\ hook.status = "CANCELED" => subscription[hook.selected] # "ACTIVE"
    BY <1>1, <1>2 DEF Ends, CheckoutInv, ClaimInv, HookSound
  <2>3. \A o \in Operations : Live(o) => o = hook.selected
    BY <2>2 DEF CheckoutInv, ClaimInv, LiveHoldsClaim
  <2>4. \A w \in Workers : ~Creating(req[w])
    BY <2>2 DEF CheckoutInv, ClaimInv, RequestSound
  <2>5. TypeOK'
    BY <1>1, <2>1 DEF CheckoutInv, TypeOK
  <2>6. (RowNamesItsSession /\ PaidInSession /\ OneLive /\ HookSound)'
    BY <1>1, <2>1 DEF CheckoutInv, ClaimInv, RowNamesItsSession, PaidInSession, OneLive, Live,
                      HookSound
  <2>7. LiveHoldsClaim'
    BY <1>1, <2>1, <2>2, <2>3 DEF LiveHoldsClaim, Live
  <2>8. (OneCreator /\ \A w \in Workers : RequestSound(req[w]))'
    BY <1>1, <2>4 DEF CheckoutInv, ClaimInv, OneCreator, Creating, RequestSound
  <2> QED
    BY <2>5, <2>6, <2>7, <2>8 DEF CheckoutInv, ClaimInv
<1>3. CASE \/ UNCHANGED billing
           \/ billing' = [billing EXCEPT !.status = hook.status]
  <2>1. /\ billing' \in Billings /\ billing'.operation = billing.operation
        /\ billing'.session = billing.session
        /\ billing'.status \in {billing.status, hook.status}
    BY <1>1, <1>3 DEF CheckoutInv, TypeOK, Billings, Named
  <2>2. TypeOK'
    BY <1>1, <2>1 DEF CheckoutInv, TypeOK
  <2>3. (RowNamesItsSession /\ PaidInSession /\ OneLive /\ LiveHoldsClaim /\ HookSound)'
    BY <1>1, <2>1 DEF CheckoutInv, ClaimInv, RowNamesItsSession, PaidInSession, OneLive, Live,
                      LiveHoldsClaim, HookSound
  <2>4. (OneCreator /\ \A w \in Workers : RequestSound(req[w]))'
    BY <1>1, <2>1 DEF CheckoutInv, ClaimInv, OneCreator, Creating, RequestSound
  <2> QED
    BY <2>2, <2>3, <2>4 DEF CheckoutInv, ClaimInv
<1> QED
  BY <1>2, <1>3 DEF Complete

-----------------------------------------------------------------------------
(* Stripe's customer and time change one session or its subscription, and  *)
(* make nothing live that was not.                                         *)
LEMMA CustomerSteps ==
    ASSUME CheckoutInv, NEW o \in Operations,
           Subscribe(o) \/ CompleteSession(o) \/ ExpireSession(o) \/ CancelSubscription(o)
    PROVE  CheckoutInv'
<1> USE CheckoutAssumption
<1>1. /\ UNCHANGED <<billing, offered, req, hook>> /\ latest' \in {latest, o}
      /\ events' \subseteq Events
  BY DEF Subscribe, CompleteSession, ExpireSession, CancelSubscription, Tell, Events,
         CheckoutInv, TypeOK
<1>2. /\ session' \in [Operations -> {"none", "open", "complete", "expired"}]
      /\ subscription' \in [Operations -> {"none", "ACTIVE", "CANCELED"}]
      /\ \A p \in Operations \ {o} : session'[p] = session[p]
                                   /\ subscription'[p] = subscription[p]
  BY DEF Subscribe, CompleteSession, ExpireSession, CancelSubscription, CheckoutInv, TypeOK
<1>3. /\ session[o] \in {"open", "complete"} /\ session'[o] # "none"
      /\ session[o] = "complete" => /\ session'[o] = "complete"
                                    /\ subscription'[o] = "ACTIVE" => subscription[o] = "ACTIVE"
      /\ subscription'[o] = "ACTIVE" => session'[o] \in {"open", "complete"}
      /\ session'[o] = "open" => session[o] = "open"
      /\ Live(o)' => Live(o)
  BY DEF Subscribe, CompleteSession, ExpireSession, CancelSubscription, CheckoutInv, TypeOK, Live
<1>4. \A p \in Operations : Live(p)' => Live(p)
  BY <1>2, <1>3 DEF Live
<1>5. TypeOK'
  BY <1>1, <1>2 DEF CheckoutInv, TypeOK, Named
<1>6. (RowNamesItsSession /\ PaidInSession /\ OneLive /\ OneCreator)'
  BY <1>1, <1>2, <1>3, <1>4 DEF CheckoutInv, ClaimInv, RowNamesItsSession, PaidInSession,
                                OneLive, OneCreator, Creating
<1>7. LiveHoldsClaim'
  BY <1>1, <1>2, <1>3, <1>4 DEF CheckoutInv, ClaimInv, LiveHoldsClaim
<1>8. (\A w \in Workers : RequestSound(req[w]))'
  <2> SUFFICES ASSUME NEW w \in Workers PROVE RequestSound(req[w])'
    OBVIOUS
  <2>1. RequestSound(req[w]) /\ (Creating(req[w]) => req[w].operation \in Operations)
    BY DEF CheckoutInv, ClaimInv, TypeOK, Requests, Creating
  <2> QED
    BY <1>1, <1>2, <1>3, <2>1 DEF RequestSound, Creating
<1>9. HookSound'
  BY <1>1, <1>2, <1>3 DEF CheckoutInv, ClaimInv, HookSound
<1> QED
  BY <1>5, <1>6, <1>7, <1>8, <1>9 DEF CheckoutInv, ClaimInv

-----------------------------------------------------------------------------
LEMMA CheckoutStep == CheckoutInv /\ [Next]_vars => CheckoutInv'
<1> SUFFICES ASSUME CheckoutInv, [Next]_vars PROVE CheckoutInv'
  OBVIOUS
<1>1. ASSUME NEW w \in Workers, RequestStep(w) PROVE CheckoutInv'
  BY <1>1, ReadingSteps, SavingSteps, ClearingSteps, ClaimStep, CreateStep DEF RequestStep
<1>2. CASE WebhookStep \/ WebhookFails
  BY <1>2, ReadingHooks, CompleteStep DEF WebhookStep
<1>3. ASSUME NEW o \in Operations,
             Subscribe(o) \/ CompleteSession(o) \/ ExpireSession(o) \/ CancelSubscription(o)
      PROVE  CheckoutInv'
  BY <1>3, CustomerSteps
<1>4. CASE UNCHANGED vars
  BY <1>4 DEF vars, external, CheckoutInv, ClaimInv, TypeOK, RowNamesItsSession, PaidInSession,
              OneLive, LiveHoldsClaim, Live, OneCreator, Creating, RequestSound, HookSound
<1> QED
  BY <1>1, <1>2, <1>3, <1>4 DEF Next

LEMMA CheckoutInvariant == Spec => []CheckoutInv
BY CheckoutInitially, CheckoutStep, PTL DEF Spec

(* The variables of a checkout keep their types.                           *)
THEOREM CheckoutTyped == Spec => []TypeOK
<1>1. CheckoutInv => TypeOK
  BY DEF CheckoutInv
<1> QED
  BY <1>1, CheckoutInvariant, PTL

(* However requests overlap, die and recover each other's sessions,        *)
(* startSubscriptionCheckout leaves the organization with one session or   *)
(* subscription to pay for at most.                                        *)
THEOREM NeverSubscribedTwice == Spec => []NoSecondSubscription
<1>1. ASSUME CheckoutInv PROVE NoSecondSubscription
  <2> DEFINE S == {o \in Operations : session[o] = "open" \/ subscription[o] = "ACTIVE"}
  <2>1. \A o1, o2 \in S : o1 = o2
    BY <1>1 DEF CheckoutInv, ClaimInv, OneLive, Live
  <2>2. CASE S = {}
    BY <2>2, FS_EmptySet DEF NoSecondSubscription
  <2>3. ASSUME NEW o \in S PROVE Cardinality(S) <= 1
    <3>1. S = {o}
      BY <2>1, <2>3
    <3> HIDE DEF S
    <3>2. Cardinality(S) = 1
      BY <3>1, FS_Singleton
    <3> QED
      BY <3>2
  <2> QED
    BY <2>2, <2>3 DEF NoSecondSubscription
<1> QED
  BY <1>1, CheckoutInvariant, PTL

-----------------------------------------------------------------------------
(* When every webhook is processed.                                        *)

(* The session of o exists, and the row that o claims stores it.           *)
Stored(o) == session[o] # "none" /\ (billing.operation = o => billing.session = o)

RequestStored(r) ==
    /\ r.at \in {"begun", "listed", "recovered", "expired"} /\ r.seen.session # None
          => Stored(r.seen.session)
    /\ r.at \in {"begun", "recovered"} => r.seen.operation # None
    /\ r.at = "recovered" => session[r.seen.operation] # "none"
    /\ r.at = "created" => session[r.operation] # "none"

StoredInv ==
    /\ \A o \in offered : Stored(o)
    /\ billing.session # None => Stored(billing.session)
    /\ \A w \in Workers : RequestStored(req[w])

(* What is paid was offered, and is what Stripe would call the latest.     *)
PaidWasOffered ==
    \A o \in Operations :
       /\ subscription[o] # "none" =>
             session[o] \in {"open", "complete"} /\ o \in offered /\ latest # None
       /\ session[o] = "complete" => subscription[o] # "none"
       /\ subscription[o] # "none" /\ billing.operation = o => latest = o

(* An event tells of what has happened to a session or a subscription.     *)
Told(e) ==
    /\ e.kind = "started" => subscription[e.operation] # "none"
    /\ e.kind = "completed" => session[e.operation] = "complete"
    /\ e.kind = "expired" => session[e.operation] = "expired"
    /\ e.kind = "canceled" => subscription[e.operation] = "CANCELED"

EventsTold == /\ \A e \in events : Told(e)
              /\ hook.at # "idle" => hook.event \in events

Completion(o) == [operation |-> o, kind |-> "completed"]

(* A completed session keeps its claim only until the webhook that says so *)
(* is processed, and that webhook ends it.                                 *)
WillEnd ==
    \A o \in Operations : session[o] = "complete" /\ billing.operation = o =>
       /\ Completion(o) \in events
       /\ hook.at # "idle" /\ hook.event = Completion(o) =>
             hook.seen.operation = o /\ hook.seen.session = o
       /\ hook.at = "completing" /\ hook.event = Completion(o) =>
             hook.completed /\ hook.selected = o

Right == billing.status = "ACTIVE" <=> Subscribed

(* The row is right, or the webhook being processed puts it right, or      *)
(* another one is to be processed.                                         *)
WillBeRight ==
    \/ \E e \in events : hook.at = "completing" => e # hook.event
    \/ hook.at # "completing" /\ Right
    \/ /\ hook.at = "completing"
       /\ hook.selected = None => Right
       /\ hook.selected # None => (hook.status = "ACTIVE" <=> Subscribed)

ActiveWasStarted ==
    /\ billing.status = "ACTIVE" => latest # None
    /\ hook.at = "completing" /\ hook.status = "ACTIVE" => latest # None

SettleInv == /\ StoredInv
             /\ PaidWasOffered
             /\ EventsTold
             /\ WillEnd
             /\ WillBeRight
             /\ ActiveWasStarted

LEMMA SettleInitially == Init => SettleInv
<1> SUFFICES ASSUME Init PROVE SettleInv
  OBVIOUS
<1>1. StoredInv
  BY DEF Init, StoredInv, RequestStored, Idle
<1>2. PaidWasOffered /\ EventsTold /\ WillEnd /\ ActiveWasStarted
  BY CheckoutAssumption DEF Init, PaidWasOffered, EventsTold, WillEnd, ActiveWasStarted, Idle
<1>3. WillBeRight
  BY DEF Init, WillBeRight, Right, Subscribed, Idle
<1> QED
  BY <1>1, <1>2, <1>3 DEF SettleInv

(* What a request does to the row and the sessions: an operation it claims *)
(* is new, a session it creates is its own, and the status is not its to   *)
(* write.                                                                  *)
LEMMA RequestEffect ==
    ASSUME CheckoutInv, SettleInv, NEW w \in Workers, RequestStep(w)
    PROVE  /\ UNCHANGED <<subscription, latest, events, hook>>
           /\ billing'.status = billing.status
           /\ offered \subseteq offered'
           /\ \A o \in Operations : \/ session'[o] = session[o]
                                    \/ session[o] = "none" /\ session'[o] = "open"
           /\ \/ billing'.operation \in {billing.operation, None}
              \/ session[billing'.operation] = "none"
<1> USE CheckoutAssumption
<1>0. billing \in Billings /\ session \in [Operations -> {"none", "open", "complete", "expired"}]
  BY DEF CheckoutInv, TypeOK
<1>1. CASE Begin(w) \/ Recover(w) \/ Look(w) \/ Die(w)
  BY <1>1 DEF Begin, Recover, Look, Die, external
<1>2. CASE SaveRecovered(w) \/ Save(w)
  BY <1>0, <1>2 DEF SaveRecovered, Save, Saved, Billings, external
<1>3. CASE ClearExpired(w) \/ ReleaseRejected(w)
  BY <1>0, <1>3 DEF ClearExpired, ReleaseRejected, Cleared, Billings, external
<1>4. CASE Claim(w)
  BY <1>0, <1>4 DEF Claim, Unused, Billings, external
<1>5. CASE CreateSession(w)
  <2>1. session[req[w].operation] = "none"
    BY <1>5 DEF CreateSession, CheckoutInv, ClaimInv, RequestSound, Creating
  <2> QED
    BY <1>0, <1>5, <2>1 DEF CreateSession
<1> QED
  BY <1>1, <1>2, <1>3, <1>4, <1>5 DEF RequestStep

(* What is stored stays stored until the claim is gone.                    *)
LEMMA StoredStays ==
    ASSUME CheckoutInv, SettleInv, NEW w \in Workers, RequestStep(w)
    PROVE  \A o \in Operations : Stored(o) => Stored(o)'
<1> USE CheckoutAssumption
<1> SUFFICES ASSUME NEW o \in Operations, Stored(o) PROVE Stored(o)'
  OBVIOUS
<1>0. billing \in Billings
  BY DEF CheckoutInv, TypeOK
<1>1. session'[o] # "none"
  BY RequestEffect DEF Stored
<1>2. billing'.operation = o => billing'.session = o
  <2>1. CASE Begin(w) \/ Recover(w) \/ Look(w) \/ Die(w) \/ CreateSession(w)
    BY <2>1 DEF Begin, Recover, Look, Die, CreateSession, external, Stored
  <2>2. CASE SaveRecovered(w) \/ Save(w)
    BY <1>0, <2>2 DEF SaveRecovered, Save, Saves, Saved, Billings, Stored
  <2>3. CASE ClearExpired(w) \/ ReleaseRejected(w)
    BY <1>0, <2>3 DEF ClearExpired, ReleaseRejected, Cleared, Billings, Stored
  <2>4. CASE Claim(w)
    BY <1>0, <2>4 DEF Claim, Unused, Billings, Stored
  <2> QED
    BY <2>1, <2>2, <2>3, <2>4 DEF RequestStep
<1> QED
  BY <1>1, <1>2 DEF Stored

LEMMA StoredStep ==
    ASSUME CheckoutInv, SettleInv, NEW w \in Workers, RequestStep(w)
    PROVE  StoredInv'
<1> USE CheckoutAssumption
<1>0. /\ billing \in Billings /\ req \in [Workers -> Requests] /\ offered \subseteq Operations
      /\ session \in [Operations -> {"none", "open", "complete", "expired"}]
      /\ RowNamesItsSession /\ RequestSound(req[w]) /\ RequestStored(req[w])
      /\ billing.session # None => Stored(billing.session)
      /\ \A o \in offered : Stored(o)
  BY DEF CheckoutInv, ClaimInv, TypeOK, SettleInv, StoredInv
<1>1. \A o \in Operations : Stored(o) => Stored(o)'
  BY StoredStays
<1>2. ASSUME NEW v \in Workers, v # w, req'[v] = req[v]
      PROVE  RequestStored(req[v])'
  <2>1. req[v] \in Requests /\ RequestStored(req[v])
    BY <1>0 DEF SettleInv, StoredInv
  <2>2. /\ req[v].at \in {"begun", "listed", "recovered", "expired"} =>
              req[v].seen.session \in Named /\ req[v].seen.operation \in Named
        /\ req[v].at = "created" => req[v].operation \in Operations
    BY <2>1 DEF Requests, Billings
  <2>3. \A o \in Operations : session[o] # "none" => session'[o] # "none"
    BY RequestEffect
  <2> QED
    BY <1>1, <1>2, <2>1, <2>2, <2>3 DEF RequestStored, Named
<1>3. \A v \in Workers : v # w => req'[v] = req[v]
  BY <1>0 DEF RequestStep, Begin, Recover, SaveRecovered, Look, ClearExpired, Claim,
              CreateSession, Save, ReleaseRejected, Die, Finish, Goto
<1>4. /\ RequestStored(req[w])'
      /\ \A o \in offered' : Stored(o)'
      /\ (billing.session # None => Stored(billing.session))'
  <2>0. billing.session \in Named /\ \A o \in offered : Stored(o)'
    BY <1>0, <1>1 DEF Billings
  <2>1. CASE Begin(w)
    <3>1. /\ req'[w].at \in {"begun", "listed"} /\ req'[w].seen = billing
          /\ req'[w].at = "begun" => Unsaved(billing)
          /\ UNCHANGED <<billing, session, offered>>
      BY <1>0, <2>1 DEF Begin, Goto, external
    <3> QED
      BY <1>0, <1>1, <2>0, <3>1 DEF RequestStored, Unsaved, Claimed, Stored
  <2>2. CASE Recover(w)
    <3>1. /\ UNCHANGED <<billing, session, offered>>
          /\ req[w] \in [at : {"begun", "listed", "recovered"}, seen : Billings]
      BY <1>0, <2>2 DEF Recover, external, Requests
    <3>2. \/ req'[w].at = "reading"
          \/ /\ req'[w].at = "recovered" /\ req'[w].seen = req[w].seen /\ req[w].at = "begun"
             /\ session[req[w].seen.operation] # "none"
      BY <1>0, <2>2, <3>1 DEF Recover, Goto
    <3> QED
      BY <1>0, <1>1, <2>0, <3>1, <3>2 DEF RequestStored, Stored
  <2>3. CASE Look(w)
    <3>1. /\ UNCHANGED <<billing, session>> /\ req[w].at = "listed"
          /\ req[w] \in [at : {"begun", "listed", "recovered"}, seen : Billings]
      BY <1>0, <2>3 DEF Look, Requests
    <3>2. \/ req'[w].at \in {"idle", "free"}
          \/ req'[w].at = "expired" /\ req'[w].seen = req[w].seen
      BY <1>0, <2>3, <3>1 DEF Look, Goto, Finish, Idle
    <3>3. \A o \in offered' : o \in offered \/ (o = req[w].seen.session /\ o # None)
      BY <2>3 DEF Look
    <3> QED
      BY <1>0, <1>1, <2>0, <3>1, <3>2, <3>3 DEF RequestStored, Stored
  <2>4. CASE Die(w)
    BY <1>0, <1>1, <2>0, <2>4 DEF Die, Finish, Goto, Idle, external, RequestStored, Stored
  <2>5. CASE SaveRecovered(w)
    <3>1. /\ req[w].at = "recovered" /\ req[w].seen.operation \in Operations
          /\ session[req[w].seen.operation] # "none" /\ UNCHANGED <<session, offered>>
      BY <1>0, <2>5 DEF SaveRecovered, Requests, Billings, Named, RequestStored, external
    <3>2. req'[w].at \in {"idle", "reading"}
      BY <1>0, <2>5 DEF SaveRecovered, Finish, Goto, Idle
    <3>3. \/ billing' = billing
          \/ billing'.session = req[w].seen.operation /\ billing'.operation = billing'.session
      BY <1>0, <2>5 DEF SaveRecovered, Saves, Saved, Billings
    <3> QED
      BY <1>0, <1>1, <2>0, <3>1, <3>2, <3>3 DEF RequestStored, Stored
  <2>6. CASE Save(w)
    <3>1. /\ req[w].at = "created" /\ req[w].operation \in Operations
          /\ session[req[w].operation] # "none" /\ UNCHANGED session
          /\ req'[w].at = "idle"
      BY <1>0, <2>6 DEF Save, Requests, RequestStored, Finish, Goto, Idle
    <3>2. \/ billing' = billing /\ offered' = offered
          \/ /\ billing'.session = req[w].operation /\ billing'.operation = req[w].operation
             /\ offered' = offered \cup {req[w].operation}
      BY <1>0, <2>6 DEF Save, Saves, Saved, Billings
    <3> QED
      BY <1>0, <1>1, <2>0, <3>1, <3>2 DEF RequestStored, Stored
  <2>7. CASE ClearExpired(w) \/ ReleaseRejected(w)
    <3>0. Cleared.session = None
      BY <1>0 DEF Cleared, Billings
    <3>1. /\ UNCHANGED <<session, offered>> /\ req'[w].at \in {"idle", "free"}
          /\ billing' = billing \/ billing'.session = None
      <4>1. CASE ClearExpired(w)
        BY <1>0, <3>0, <4>1 DEF ClearExpired, external, Finish, Goto, Idle
      <4>2. CASE ReleaseRejected(w)
        BY <1>0, <3>0, <4>2 DEF ReleaseRejected, external, Finish, Goto, Idle
      <4> QED
        BY <2>7, <4>1, <4>2
    <3> QED
      BY <1>0, <1>1, <2>0, <3>1 DEF RequestStored, Stored
  <2>8. CASE Claim(w)
    <3>1. /\ UNCHANGED <<session, offered>> /\ req'[w].at \in {"idle", "creating"}
          /\ billing' = billing \/ billing'.session = None
      BY <1>0, <2>8 DEF Claim, Claimable, Claimed, RowNamesItsSession, Billings, external,
                        Finish, Goto, Idle
    <3> QED
      BY <1>0, <1>1, <2>0, <3>1 DEF RequestStored, Stored
  <2>9. CASE CreateSession(w)
    <3>1. /\ UNCHANGED <<billing, offered>> /\ req[w].operation \in Operations
          /\ req[w] \in [at : {"creating", "created", "refused"}, operation : Operations]
      BY <1>0, <2>9 DEF CreateSession, Requests
    <3>2. \/ req'[w].at \in {"idle", "refused"}
          \/ /\ req'[w].at = "created" /\ req'[w].operation = req[w].operation
             /\ session'[req[w].operation] = "open"
      BY <1>0, <2>9, <3>1 DEF CreateSession, Finish, Goto, Idle
    <3> QED
      BY <1>0, <1>1, <2>0, <3>1, <3>2 DEF RequestStored, Named
  <2> QED
    BY <2>1, <2>2, <2>3, <2>4, <2>5, <2>6, <2>7, <2>8, <2>9 DEF RequestStep
<1> QED
  <2>1. \A v \in Workers : RequestStored(req[v])'
    BY <1>2, <1>3, <1>4
  <2> QED
    BY <1>4, <2>1 DEF StoredInv

LEMMA RequestSettles ==
    ASSUME CheckoutInv, SettleInv, NEW w \in Workers, RequestStep(w)
    PROVE  SettleInv'
<1> USE CheckoutAssumption
<1>0. /\ UNCHANGED <<subscription, latest, events, hook>>
      /\ billing'.status = billing.status
      /\ offered \subseteq offered'
      /\ \A o \in Operations : \/ session'[o] = session[o]
                               \/ session[o] = "none" /\ session'[o] = "open"
      /\ \/ billing'.operation \in {billing.operation, None}
         \/ session[billing'.operation] = "none"
  BY RequestEffect
<1>1. StoredInv'
  BY StoredStep
<1>2. PaidWasOffered'
  BY <1>0 DEF SettleInv, PaidWasOffered
<1>3. EventsTold'
  <2>1. \A e \in events : e.operation \in Operations
    BY DEF CheckoutInv, TypeOK, Events
  <2> QED
    BY <1>0, <2>1 DEF SettleInv, EventsTold, Told
<1>4. WillEnd'
  BY <1>0 DEF SettleInv, WillEnd
<1>5. WillBeRight' /\ ActiveWasStarted'
  BY <1>0 DEF SettleInv, WillBeRight, Right, Subscribed, ActiveWasStarted
<1> QED
  BY <1>1, <1>2, <1>3, <1>4, <1>5 DEF SettleInv

(* Steps of the webhook that only read.                                    *)
LEMMA HookSettles ==
    ASSUME CheckoutInv, SettleInv, UNCHANGED <<billing, external, req>>,
           EventsTold', WillEnd', WillBeRight', ActiveWasStarted'
    PROVE  SettleInv'
<1>1. StoredInv'
  BY DEF SettleInv, StoredInv, RequestStored, Stored, external
<1>2. PaidWasOffered'
  BY DEF SettleInv, PaidWasOffered, external
<1> QED
  BY <1>1, <1>2 DEF SettleInv

(* Who is paid while o holds the claim is o, and the latest too.           *)
LEMMA SelectedHoldsClaim ==
    ASSUME CheckoutInv, SettleInv, NEW o \in Operations,
           billing.operation = o, subscription[o] # "none"
    PROVE  Selected = o
<1> USE CheckoutAssumption
<1>1. CASE Subscribed
  <2>1. Selected \in Operations /\ subscription[Selected] = "ACTIVE"
    BY <1>1 DEF Subscribed, Selected
  <2> QED
    BY <2>1 DEF CheckoutInv, ClaimInv, LiveHoldsClaim, Live
<1>2. CASE ~Subscribed
  BY <1>2 DEF Selected, SettleInv, PaidWasOffered
<1> QED
  BY <1>1, <1>2

LEMMA ReadingHooksSettle ==
    ASSUME CheckoutInv, SettleInv,
           (\E e \in Events : BeginWebhook(e)) \/ ReadStripe \/ WebhookFails
    PROVE  SettleInv'
<1> USE CheckoutAssumption
<1>0. UNCHANGED <<billing, session, subscription, latest, offered, events, req>>
  BY DEF BeginWebhook, ReadStripe, WebhookFails, external
<1>1. Subscribed' <=> Subscribed
  BY <1>0 DEF Subscribed
<1>2. \A e \in events : Told(e)'
  BY <1>0 DEF SettleInv, EventsTold, Told
<1>3. ASSUME NEW e \in Events, BeginWebhook(e) PROVE SettleInv'
  <2>1. /\ e \in events /\ hook.at = "idle"
        /\ hook'.at = "reading" /\ hook'.event = e /\ hook'.seen = billing
    BY <1>3 DEF BeginWebhook, Idle
  <2>2. EventsTold'
    BY <1>0, <1>2, <2>1 DEF EventsTold
  <2>3. WillEnd'
    <3>1. ASSUME NEW o \in Operations, session[o] = "complete", billing.operation = o
          PROVE  billing.session = o
      BY <3>1 DEF SettleInv, PaidWasOffered, StoredInv, Stored
    <3> QED
      BY <1>0, <2>1, <3>1 DEF SettleInv, WillEnd
  <2>4. WillBeRight' /\ ActiveWasStarted'
    BY <1>0, <1>1, <2>1 DEF SettleInv, WillBeRight, Right, ActiveWasStarted
  <2> QED
    BY <1>0, <2>2, <2>3, <2>4, HookSettles DEF external
<1>4. CASE ReadStripe
  <2>1. /\ hook.at = "reading" /\ hook.event \in Events
        /\ hook'.at = "completing" /\ hook'.event = hook.event /\ hook'.seen = hook.seen
        /\ hook'.selected = Selected
        /\ hook'.status = IF Subscribed THEN "ACTIVE" ELSE "CANCELED"
        /\ hook'.completed = Completed(hook.seen, Selected)
    BY <1>4 DEF ReadStripe, CheckoutInv, TypeOK, Hooks
  <2>2. EventsTold'
    BY <1>0, <1>2, <2>1 DEF SettleInv, EventsTold
  <2>3. WillEnd'
    <3>1. ASSUME NEW o \in Operations, session[o] = "complete", billing.operation = o,
                 hook.event = Completion(o)
          PROVE  Completed(hook.seen, Selected) /\ Selected = o
      <4>1. Selected = o
        BY <3>1, SelectedHoldsClaim DEF SettleInv, PaidWasOffered
      <4>2. hook.seen.operation = o
        BY <2>1, <3>1 DEF SettleInv, WillEnd
      <4> QED
        BY <3>1, <4>1, <4>2 DEF Completed
    <3> QED
      BY <1>0, <2>1, <3>1 DEF SettleInv, WillEnd
  <2>4. Subscribed => Selected # None /\ latest # None
    BY DEF Subscribed, Selected, SettleInv, PaidWasOffered
  <2>5. Selected = None => latest = None
    BY <2>4 DEF Selected
  <2>6. ActiveWasStarted'
    BY <1>0, <2>1, <2>4 DEF SettleInv, ActiveWasStarted
  <2>7. WillBeRight'
    <3>1. Selected = None => Right
      BY <2>4, <2>5 DEF SettleInv, ActiveWasStarted, Right
    <3>2. Right' <=> Right
      BY <1>0, <1>1 DEF Right
    <3>3. hook'.status = "ACTIVE" <=> Subscribed
      BY <2>1
    <3> QED
      BY <1>1, <2>1, <3>1, <3>2, <3>3 DEF WillBeRight
  <2> QED
    BY <1>0, <2>2, <2>3, <2>6, <2>7, HookSettles DEF external
<1>5. CASE WebhookFails
  <2>1. hook.event \in events /\ hook'.at = "idle"
    BY <1>5 DEF WebhookFails, Idle, SettleInv, EventsTold, CheckoutInv, TypeOK, Hooks
  <2>2. EventsTold' /\ WillEnd' /\ WillBeRight' /\ ActiveWasStarted'
    BY <1>0, <1>2, <2>1 DEF SettleInv, EventsTold, WillEnd, WillBeRight, ActiveWasStarted
  <2> QED
    BY <1>0, <2>2, HookSettles DEF external
<1> QED
  BY <1>3, <1>4, <1>5

(* The webhook of a completed session ends its claim, and the last of the  *)
(* webhooks leaves the row right.                                          *)
LEMMA CompleteSettles ==
    ASSUME CheckoutInv, SettleInv, Complete
    PROVE  SettleInv'
<1> USE CheckoutAssumption
<1>0. /\ hook.at = "completing" /\ hook' = Idle /\ Idle.at = "idle"
      /\ events' = events \ {hook.event}
      /\ UNCHANGED <<session, subscription, latest, offered, req>>
      /\ billing \in Billings
  BY DEF Complete, CheckoutInv, TypeOK, Idle
<1>1. \/ /\ hook.selected = None /\ billing' = billing
      \/ /\ hook.selected # None /\ ~Ends /\ billing'.status = hook.status
         /\ billing'.operation = billing.operation /\ billing'.session = billing.session
      \/ /\ hook.selected # None /\ Ends /\ billing'.status = hook.status
         /\ billing'.operation = None /\ billing'.session = None
  BY <1>0 DEF Complete, Billings
<1>2. StoredInv'
  <2>1. \A o : Stored(o) /\ o # None => Stored(o)'
    BY <1>0, <1>1 DEF Stored
  <2>2. \A o \in offered : o # None
    BY DEF CheckoutInv, TypeOK
  <2>3. \A w \in Workers : RequestStored(req[w])'
    BY <1>0, <2>1 DEF SettleInv, StoredInv, RequestStored
  <2>4. (billing.session # None => Stored(billing.session))'
    BY <1>0, <1>1, <2>1 DEF SettleInv, StoredInv, Stored
  <2> QED
    BY <1>0, <2>1, <2>2, <2>3, <2>4 DEF SettleInv, StoredInv
<1>3. PaidWasOffered'
  BY <1>0, <1>1 DEF SettleInv, PaidWasOffered
<1>4. EventsTold'
  BY <1>0 DEF SettleInv, EventsTold, Told
<1>5. WillEnd'
  <2> SUFFICES ASSUME NEW o \in Operations, session[o] = "complete", billing'.operation = o
               PROVE  Completion(o) \in events'
    BY <1>0 DEF WillEnd
  <2>1. billing.operation = o /\ (hook.selected = None \/ ~Ends)
    BY <1>1
  <2>2. Completion(o) \in events
    BY <2>1 DEF SettleInv, WillEnd
  <2>3. ASSUME hook.event = Completion(o) PROVE FALSE
    <3>1. /\ hook.completed /\ hook.selected = o
          /\ hook.seen.operation = o /\ hook.seen.session = o
      BY <1>0, <2>1, <2>3 DEF SettleInv, WillEnd
    <3>2. billing.session = o
      BY <2>1 DEF SettleInv, PaidWasOffered, StoredInv, Stored
    <3> QED
      BY <2>1, <3>1, <3>2 DEF Ends
  <2> QED
    BY <1>0, <2>2, <2>3
<1>6. Subscribed' <=> Subscribed
  BY <1>0 DEF Subscribed
<1>7. WillBeRight'
  <2>1. CASE \E e \in events : e # hook.event
    BY <1>0, <2>1 DEF WillBeRight
  <2>2. CASE /\ hook.selected = None => Right
             /\ hook.selected # None => (hook.status = "ACTIVE" <=> Subscribed)
    <3>1. Right'
      BY <1>1, <1>6, <2>2 DEF Right
    <3> QED
      BY <1>0, <3>1 DEF WillBeRight
  <2> QED
    BY <1>0, <2>1, <2>2 DEF SettleInv, WillBeRight
<1>8. ActiveWasStarted'
  BY <1>0, <1>1 DEF SettleInv, ActiveWasStarted
<1> QED
  BY <1>2, <1>3, <1>4, <1>5, <1>7, <1>8 DEF SettleInv

(* What Stripe's customer does is told by an event that was not sent       *)
(* before, so not the one being processed.                                 *)
LEMMA CustomerSettles ==
    ASSUME CheckoutInv, SettleInv, NEW o \in Operations,
           Subscribe(o) \/ CompleteSession(o) \/ ExpireSession(o) \/ CancelSubscription(o)
    PROVE  SettleInv'
<1> USE CheckoutAssumption
<1>0. /\ UNCHANGED <<billing, offered, req, hook>>
      /\ session \in [Operations -> {"none", "open", "complete", "expired"}]
      /\ subscription \in [Operations -> {"none", "ACTIVE", "CANCELED"}]
  BY DEF Subscribe, CompleteSession, ExpireSession, CancelSubscription, CheckoutInv, TypeOK
<1>1. /\ \A p \in Operations \ {o} : session'[p] = session[p]
                                     /\ subscription'[p] = subscription[p]
      /\ session[o] \in {"open", "complete"} /\ session'[o] # "none"
      /\ session[o] = "complete" => session'[o] = "complete"
      /\ subscription[o] # "none" => subscription'[o] # "none" /\ latest' = latest
      /\ subscription[o] = "CANCELED" => subscription'[o] = "CANCELED"
      /\ latest' \in {latest, o}
  BY <1>0 DEF Subscribe, CompleteSession, ExpireSession, CancelSubscription
<1>2. PICK kind \in {"started", "completed", "expired", "canceled"} :
        /\ events' = events \cup {[operation |-> o, kind |-> kind]}
        /\ ~Told([operation |-> o, kind |-> kind])
        /\ Told([operation |-> o, kind |-> kind])'
        /\ kind \in {"completed", "expired"} => subscription' = subscription
        /\ session'[o] = "complete" /\ session[o] # "complete" => kind = "completed"
  <2>1. CASE Subscribe(o)
    <3>1. events' = events \cup {[operation |-> o, kind |-> "started"]}
      BY <2>1 DEF Subscribe, Tell
    <3>2. /\ ~Told([operation |-> o, kind |-> "started"])
          /\ Told([operation |-> o, kind |-> "started"])'
      BY <1>0, <2>1 DEF Subscribe, Told
    <3> QED
      BY <2>1, <3>1, <3>2 DEF Subscribe
  <2>2. CASE CompleteSession(o)
    <3>1. events' = events \cup {[operation |-> o, kind |-> "completed"]}
      BY <2>2 DEF CompleteSession, Tell
    <3>2. /\ ~Told([operation |-> o, kind |-> "completed"])
          /\ Told([operation |-> o, kind |-> "completed"])'
      BY <1>0, <2>2 DEF CompleteSession, Told
    <3> QED
      BY <2>2, <3>1, <3>2 DEF CompleteSession
  <2>3. CASE ExpireSession(o)
    <3>1. events' = events \cup {[operation |-> o, kind |-> "expired"]}
      BY <2>3 DEF ExpireSession, Tell
    <3>2. /\ ~Told([operation |-> o, kind |-> "expired"])
          /\ Told([operation |-> o, kind |-> "expired"])'
      BY <1>0, <2>3 DEF ExpireSession, Told
    <3>3. session'[o] = "expired" /\ subscription' = subscription
      BY <1>0, <2>3 DEF ExpireSession
    <3> QED
      BY <3>1, <3>2, <3>3
  <2>4. CASE CancelSubscription(o)
    <3>1. events' = events \cup {[operation |-> o, kind |-> "canceled"]}
      BY <2>4 DEF CancelSubscription, Tell
    <3>2. /\ ~Told([operation |-> o, kind |-> "canceled"])
          /\ Told([operation |-> o, kind |-> "canceled"])'
      BY <1>0, <2>4 DEF CancelSubscription, Told
    <3> QED
      BY <2>4, <3>1, <3>2 DEF CancelSubscription
  <2> QED
    BY <2>1, <2>2, <2>3, <2>4
<1> DEFINE e == [operation |-> o, kind |-> kind]
<1>3. e \notin events /\ (hook.at # "idle" => e # hook.event)
  BY <1>2 DEF SettleInv, EventsTold
<1>4. StoredInv'
  <2>1. \A p \in Operations : Stored(p) => Stored(p)'
    BY <1>0, <1>1 DEF Stored
  <2>2. \A p \in Named : p # None => p \in Operations
    BY DEF Named
  <2>3. offered \subseteq Operations /\ billing.session \in Named
    BY DEF CheckoutInv, TypeOK, Billings
  <2>4. ASSUME NEW w \in Workers PROVE RequestStored(req[w])'
    <3>1. req[w] \in Requests /\ RequestStored(req[w])
      BY DEF CheckoutInv, TypeOK, SettleInv, StoredInv
    <3>2. /\ req[w].at \in {"begun", "listed", "recovered", "expired"} =>
                req[w].seen.session \in Named /\ req[w].seen.operation \in Named
          /\ req[w].at = "created" => req[w].operation \in Operations
      BY <3>1 DEF Requests, Billings
    <3>3. \A p \in Operations : session[p] # "none" => session'[p] # "none"
      BY <1>1
    <3> QED
      BY <1>0, <2>1, <2>2, <3>1, <3>2, <3>3 DEF RequestStored
  <2> QED
    BY <1>0, <2>1, <2>2, <2>3, <2>4 DEF SettleInv, StoredInv
<1>5. PaidWasOffered'
  <2>1. billing.operation = o \/ session[o] = "complete"
    BY <1>1 DEF CheckoutInv, ClaimInv, LiveHoldsClaim, Live
  <2>2. CASE Subscribe(o)
    <3>1. /\ session' = session /\ session[o] = "open" /\ o \in offered /\ latest' = o
          /\ billing.operation = o /\ o # None
      BY <2>1, <2>2 DEF Subscribe
    <3> QED
      BY <1>0, <1>1, <3>1 DEF SettleInv, PaidWasOffered
  <2>3. CASE CompleteSession(o) \/ ExpireSession(o) \/ CancelSubscription(o)
    <3>1. /\ latest' = latest
          /\ subscription'[o] # "none" <=> subscription[o] # "none"
          /\ subscription[o] # "none" => session'[o] = "complete"
          /\ session'[o] = "complete" => subscription'[o] # "none"
      BY <1>0, <2>3 DEF CompleteSession, ExpireSession, CancelSubscription
    <3> QED
      BY <1>0, <1>1, <3>1 DEF SettleInv, PaidWasOffered
  <2> QED
    BY <2>2, <2>3
<1>6. EventsTold'
  <2>1. ASSUME NEW f \in events PROVE Told(f)'
    <3>1. Told(f) /\ f.operation \in Operations
      BY DEF SettleInv, EventsTold, CheckoutInv, TypeOK, Events
    <3>2. CASE f.operation # o
      BY <1>1, <3>1, <3>2 DEF Told
    <3>3. CASE f.operation = o
      BY <1>1, <3>1, <3>3 DEF Told
    <3> QED
      BY <3>2, <3>3
  <2> QED
    BY <1>0, <1>2, <2>1 DEF SettleInv, EventsTold
<1>7. WillEnd'
  <2> SUFFICES ASSUME NEW p \in Operations, session'[p] = "complete", billing.operation = p
               PROVE  /\ Completion(p) \in events'
                      /\ hook.at # "idle" /\ hook.event = Completion(p) =>
                            hook.seen.operation = p /\ hook.seen.session = p
                      /\ hook.at = "completing" /\ hook.event = Completion(p) =>
                            hook.completed /\ hook.selected = p
    BY <1>0 DEF WillEnd
  <2>1. CASE session[p] = "complete"
    BY <1>2, <2>1 DEF SettleInv, WillEnd
  <2>2. CASE session[p] # "complete"
    <3>1. e = Completion(p)
      BY <1>1, <1>2, <2>2 DEF Completion
    <3> QED
      BY <1>2, <1>3, <3>1
  <2> QED
    BY <2>1, <2>2
<1>8. WillBeRight'
  BY <1>0, <1>2, <1>3 DEF WillBeRight
<1>9. ActiveWasStarted'
  BY <1>0, <1>1 DEF SettleInv, ActiveWasStarted
<1> QED
  BY <1>4, <1>5, <1>6, <1>7, <1>8, <1>9 DEF SettleInv

LEMMA SettleStep == CheckoutInv /\ SettleInv /\ [Next]_vars => SettleInv'
<1> SUFFICES ASSUME CheckoutInv, SettleInv, [Next]_vars PROVE SettleInv'
  OBVIOUS
<1>1. ASSUME NEW w \in Workers, RequestStep(w) PROVE SettleInv'
  BY <1>1, RequestSettles
<1>2. CASE WebhookStep \/ WebhookFails
  BY <1>2, ReadingHooksSettle, CompleteSettles DEF WebhookStep
<1>3. ASSUME NEW o \in Operations,
             Subscribe(o) \/ CompleteSession(o) \/ ExpireSession(o) \/ CancelSubscription(o)
      PROVE  SettleInv'
  BY <1>3, CustomerSettles
<1>4. CASE UNCHANGED vars
  <2>1. UNCHANGED <<billing, session, subscription, latest, offered, events, req, hook>>
    BY <1>4 DEF vars, external
  <2> QED
    BY <2>1 DEF SettleInv, StoredInv, RequestStored, Stored, PaidWasOffered, EventsTold, Told,
                WillEnd, WillBeRight, Right, Subscribed, ActiveWasStarted
<1> QED
  BY <1>1, <1>2, <1>3, <1>4 DEF Next

(* Whatever overlapped, failed or was retried: once every webhook is       *)
(* processed, the row shows whether a subscription is running, and no      *)
(* completed checkout still holds the claim.                               *)
THEOREM CheckoutSettles == Spec => []CheckoutIsSettled
<1>1. SettleInv => CheckoutIsSettled
  <2> SUFFICES ASSUME SettleInv, events = {}
               PROVE  /\ billing.status = "ACTIVE" <=> Subscribed
                      /\ \A o \in Operations : session[o] = "complete" => billing.operation # o
    BY DEF CheckoutIsSettled
  <2>1. hook.at = "idle"
    BY DEF SettleInv, EventsTold
  <2> QED
    BY <2>1 DEF SettleInv, WillBeRight, Right, WillEnd
<1> QED
  BY <1>1, CheckoutInvariant, SettleInitially, SettleStep, PTL DEF Spec
=============================================================================
