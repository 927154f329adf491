------------------------- MODULE BillingWebhookProofs -------------------------
(***************************************************************************)
(* Every number of workers, events, faults, crashes and overlong attempts: *)
(* the webhook processing implements BillingMirror.                        *)
(*                                                                         *)
(* The key is lastSyncedAt: an attempt that read it before it asked Stripe *)
(* and finds it unchanged knows that its answer is at least as new as the  *)
(* mirror, and any other synchronization in between makes it differ.  At   *)
(* the end: a claim stays its attempt's while its lease runs.              *)
(***************************************************************************)
EXTENDS BillingWebhook, TLAPS

(* What an attempt has read, against what the others have written since.   *)
RequestOK(r) ==
    /\ r.event # None => about[r.event] > 0
    /\ r.at \in {"based", "fetched"} => r.base <= synced
    /\ r.at = "fetched" =>
         /\ r.seen <= version
         /\ r.event # None => about[r.event] <= r.seen
         /\ r.base = synced => mirror <= r.seen

NoneFromTheFuture == mirror <= version /\ \A e \in Events : about[e] <= version

ProcessedWasSent ==
    \A e \in Events : event[e].processed => about[e] > 0 /\ about[e] <= mirror

IInv == /\ TypeOK
        /\ NoneFromTheFuture
        /\ ProcessedWasSent
        /\ \A w \in Workers : RequestOK(req[w])

-----------------------------------------------------------------------------
(* Initially nothing is sent, mirrored or claimed.                         *)
LEMMA InitIInv == Init => IInv
<1> SUFFICES ASSUME Init PROVE IInv
    OBVIOUS
<1>1. TypeOK
    BY DEF Init, TypeOK, NewEvent, Idle, Requests
<1>2. NoneFromTheFuture /\ ProcessedWasSent
    BY DEF Init, NoneFromTheFuture, ProcessedWasSent, NewEvent
<1>3. \A w \in Workers : RequestOK(req[w])
    BY DEF Init, RequestOK, Idle
<1> QED
    BY <1>1, <1>2, <1>3 DEF IInv

(* An attempt that goes on, or ends, while nothing else changes.           *)
LEMMA RequestMoves ==
    ASSUME IInv, NEW w \in Workers, NEW r \in Requests, RequestOK(r),
           Step(w, r),
           UNCHANGED <<version, about, mirror, synced, event>>,
           faults' \in Nat, crashes' \in Nat, delays' \in Nat, confirms' \in Nat
    PROVE  IInv'
<1>1. TypeOK'
    BY DEF IInv, TypeOK, Step
<1>2. NoneFromTheFuture' /\ ProcessedWasSent'
    BY DEF IInv, NoneFromTheFuture, ProcessedWasSent
<1>3. \A v \in Workers : RequestOK(req[v])'
    BY DEF IInv, TypeOK, RequestOK, Step
<1> QED
    BY <1>1, <1>2, <1>3 DEF IInv

LEMMA IdleOK == Idle \in Requests /\ RequestOK(Idle)
BY DEF Idle, Requests, RequestOK

(* Stripe changes the subscription.                                        *)
LEMMA ChangeStep == IInv /\ Change => IInv'
<1> SUFFICES ASSUME IInv, Change PROVE IInv'
    OBVIOUS
<1>1. TypeOK'
    BY DEF IInv, TypeOK, Change, bounded
<1>2. NoneFromTheFuture' /\ ProcessedWasSent'
    BY DEF IInv, TypeOK, NoneFromTheFuture, ProcessedWasSent, Change
<1>3. \A v \in Workers : RequestOK(req[v])'
    BY DEF IInv, TypeOK, Requests, RequestOK, Change
<1> QED
    BY <1>1, <1>2, <1>3 DEF IInv

(* An event is sent: nobody has claimed it yet.                            *)
LEMMA SendStep == ASSUME NEW e \in Events PROVE IInv /\ Send(e) => IInv'
<1> SUFFICES ASSUME IInv, Send(e) PROVE IInv'
    OBVIOUS
<1>1. TypeOK'
    BY DEF IInv, TypeOK, Send, bounded
<1>2. NoneFromTheFuture' /\ ProcessedWasSent'
    BY DEF IInv, TypeOK, NoneFromTheFuture, ProcessedWasSent, Send
<1>3. ASSUME NEW v \in Workers PROVE RequestOK(req[v])'
  <2>1. req[v].event # None => req[v].event \in Events /\ req[v].event # e
    BY DEF IInv, TypeOK, Requests, RequestOK, Send
  <2> QED
    BY <2>1 DEF IInv, TypeOK, RequestOK, Send
<1> QED
    BY <1>1, <1>2, <1>3 DEF IInv

(* An attempt claims or releases the row of an event, or leaves it alone.  *)
LEMMA RowStep ==
    ASSUME IInv, NEW e \in Events,
           NEW row \in [token : Workers \cup {None},
                        lease : {"none", "running", "over"}, processed : BOOLEAN],
           row.processed => event[e].processed,
           event' = [event EXCEPT ![e] = row],
           NEW w \in Workers, NEW r \in Requests, RequestOK(r), Step(w, r),
           UNCHANGED <<version, about, mirror, synced>>,
           faults' \in Nat, crashes' \in Nat, delays' \in Nat, confirms' \in Nat
    PROVE  IInv'
<1>1. TypeOK'
    BY DEF IInv, TypeOK, Step
<1>2. NoneFromTheFuture' /\ ProcessedWasSent'
    BY DEF IInv, TypeOK, NoneFromTheFuture, ProcessedWasSent
<1>3. \A v \in Workers : RequestOK(req[v])'
    BY DEF IInv, TypeOK, RequestOK, Step
<1> QED
    BY <1>1, <1>2, <1>3 DEF IInv

(* A lease ends, early or not: nothing an attempt has read depends on it.   *)
LEMMA LeaseStep ==
    ASSUME NEW e \in Events
    PROVE  IInv /\ (LeaseEnds(e) \/ LeaseEndsEarly(e)) => IInv'
<1> SUFFICES ASSUME IInv, LeaseEnds(e) \/ LeaseEndsEarly(e) PROVE IInv'
    OBVIOUS
<1>1. /\ event' = [event EXCEPT ![e].lease = "over"]
      /\ UNCHANGED <<version, about, mirror, synced, req>>
      /\ faults' \in Nat /\ crashes' \in Nat /\ delays' \in Nat /\ confirms' \in Nat
    BY DEF LeaseEnds, LeaseEndsEarly, bounded, IInv, TypeOK
<1>2. TypeOK'
    BY <1>1 DEF IInv, TypeOK
<1>3. NoneFromTheFuture' /\ ProcessedWasSent'
    BY <1>1 DEF IInv, TypeOK, NoneFromTheFuture, ProcessedWasSent
<1>4. \A v \in Workers : RequestOK(req[v])'
    BY <1>1 DEF IInv, RequestOK
<1> QED
    BY <1>2, <1>3, <1>4 DEF IInv

(* A claim, or a release: the row stays unprocessed.                       *)
LEMMA ClaimStep ==
    ASSUME NEW w \in Workers, NEW e \in Events
    PROVE  IInv /\ ClaimEvent(w, e) => IInv'
<1> SUFFICES ASSUME IInv, ClaimEvent(w, e) PROVE IInv'
    OBVIOUS
<1> DEFINE row == [token |-> w, lease |-> "running", processed |-> FALSE]
           r == [Idle EXCEPT !.at = "begun", !.event = e]
<1>1. row \in [token : Workers \cup {None},
               lease : {"none", "running", "over"}, processed : BOOLEAN]
    OBVIOUS
<1>2. r \in Requests /\ RequestOK(r)
    BY DEF ClaimEvent, Idle, Requests, RequestOK
<1>3. faults' \in Nat /\ crashes' \in Nat /\ delays' \in Nat /\ confirms' \in Nat
    BY DEF ClaimEvent, bounded, IInv, TypeOK
<1>4. /\ event' = [event EXCEPT ![e] = row] /\ Step(w, r)
      /\ UNCHANGED <<version, about, mirror, synced>>
    BY DEF ClaimEvent
<1>5. ~row.processed
    OBVIOUS
<1> HIDE DEF row, r
<1> QED
    BY <1>1, <1>2, <1>3, <1>4, <1>5, RowStep

LEMMA ReleaseStep ==
    ASSUME NEW w \in Workers PROVE IInv /\ Release(w) => IInv'
<1> SUFFICES ASSUME IInv, Release(w) PROVE IInv'
    OBVIOUS
<1> DEFINE e == req[w].event
<1>1. faults' \in Nat /\ crashes' \in Nat /\ delays' \in Nat /\ confirms' \in Nat
    BY DEF Release, bounded, IInv, TypeOK
<1>2. CASE e # None /\ Releasable(w)
  <2>1. e \in Events
    BY <1>2 DEF IInv, TypeOK, Requests
  <2>2. event' = [event EXCEPT ![e] = NewEvent]
    BY <1>2 DEF Release
  <2>3. /\ NewEvent \in [token : Workers \cup {None},
                         lease : {"none", "running", "over"}, processed : BOOLEAN]
        /\ ~NewEvent.processed
    BY DEF NewEvent
  <2> QED
    BY <1>1, <2>1, <2>2, <2>3, IdleOK, RowStep DEF Release
<1>3. CASE ~(e # None /\ Releasable(w))
    BY <1>1, <1>3, IdleOK, RequestMoves DEF Release
<1> QED
    BY <1>2, <1>3

(* Beginning, reading, failing and dying move the attempt alone.           *)
LEMMA AttemptStep ==
    ASSUME NEW w \in Workers
    PROVE  IInv /\ (\/ BeginConfirm(w) \/ ReadBaseline(w) \/ FetchSubscription(w)
                    \/ Refused(w) \/ Fail(w) \/ Crash(w)) => IInv'
<1> SUFFICES ASSUME IInv,
                    \/ BeginConfirm(w) \/ ReadBaseline(w) \/ FetchSubscription(w)
                    \/ Refused(w) \/ Fail(w) \/ Crash(w)
             PROVE  IInv'
    OBVIOUS
<1>1. /\ UNCHANGED <<version, about, mirror, synced, event>>
      /\ faults' \in Nat /\ crashes' \in Nat /\ delays' \in Nat /\ confirms' \in Nat
    BY DEF BeginConfirm, ReadBaseline, FetchSubscription, Refused, Fail, Crash,
           bounded, IInv, TypeOK
<1>2. req[w] \in Requests /\ RequestOK(req[w])
    BY DEF IInv, TypeOK
<1>3. CASE BeginConfirm(w)
  <2>1. [Idle EXCEPT !.at = "begun"] \in Requests /\ RequestOK([Idle EXCEPT !.at = "begun"])
    BY DEF Idle, Requests, RequestOK
  <2> QED
    BY <1>1, <1>3, <2>1, RequestMoves DEF BeginConfirm
<1>4. CASE ReadBaseline(w)
  <2> DEFINE r == [req[w] EXCEPT !.at = "based", !.base = synced]
  <2>1. /\ r \in Requests /\ r.at = "based" /\ r.base = synced
        /\ r.event = req[w].event
    BY <1>2 DEF Requests, IInv, TypeOK
  <2>2. Step(w, r)
    BY <1>4 DEF ReadBaseline
  <2>3. synced \in Nat
    BY DEF IInv, TypeOK
  <2> HIDE DEF r
  <2>5. RequestOK(r)
    BY <1>2, <2>1, <2>3 DEF RequestOK
  <2> QED
    BY <1>1, <2>1, <2>2, <2>5, RequestMoves
<1>5. CASE FetchSubscription(w)
  <2> DEFINE r == [req[w] EXCEPT !.at = "fetched", !.seen = version]
  <2>1. /\ r \in Requests /\ r.at = "fetched" /\ r.seen = version
        /\ r.event = req[w].event /\ r.base = req[w].base
    BY <1>2 DEF Requests, IInv, TypeOK
  <2>2. Step(w, r)
    BY <1>5 DEF FetchSubscription
  <2>3. req[w].base <= synced
    BY <1>2, <1>5 DEF FetchSubscription, RequestOK
  <2>4. /\ version \in Nat /\ mirror <= version
        /\ req[w].event # None => about[req[w].event] <= version
    BY <1>2 DEF IInv, TypeOK, NoneFromTheFuture, Requests
  <2> HIDE DEF r
  <2>5. RequestOK(r)
    BY <1>2, <2>1, <2>3, <2>4 DEF RequestOK
  <2> QED
    BY <1>1, <2>1, <2>2, <2>5, RequestMoves
<1>6. CASE Refused(w) \/ Fail(w)
  <2> DEFINE r == [req[w] EXCEPT !.at = "failed"]
  <2>1. r \in Requests /\ RequestOK(r)
    BY <1>2 DEF Requests, RequestOK
  <2>2. Step(w, r)
    BY <1>6 DEF Refused, Fail
  <2> HIDE DEF r
  <2> QED
    BY <1>1, <2>1, <2>2, RequestMoves
<1>7. CASE Crash(w)
    BY <1>1, <1>7, IdleOK, RequestMoves DEF Crash
<1> QED
    BY <1>3, <1>4, <1>5, <1>6, <1>7

-----------------------------------------------------------------------------
(* A synchronization moves the mirror forward, and every other attempt that *)
(* has read lastSyncedAt will find it changed.                              *)
LEMMA SynchronizeForward ==
    ASSUME IInv, NEW w \in Workers, Synchronize(w)
    PROVE  /\ mirror' \in Nat /\ mirror <= mirror' /\ mirror' <= version
           /\ req[w].event # None => about[req[w].event] <= mirror'
           /\ \A v \in Workers : RequestOK(req[v])'
<1>1. req[w] \in Requests /\ RequestOK(req[w])
    BY DEF IInv, TypeOK
<1>2. /\ mirror' \in Nat /\ mirror <= mirror' /\ mirror' <= version
      /\ req[w].event # None => about[req[w].event] <= mirror'
    BY <1>1 DEF Synchronize, BaselineCurrent, RequestOK, Requests, IInv, TypeOK
<1>3. ASSUME NEW v \in Workers PROVE RequestOK(req[v])'
  <2>1. CASE v = w
    BY <2>1 DEF Synchronize, Step, Idle, RequestOK, IInv, TypeOK
  <2>2. CASE v # w
    <3>1. req'[v] = req[v] /\ req[v] \in Requests /\ RequestOK(req[v])
      BY <2>2 DEF Synchronize, Step, IInv, TypeOK
    <3>2. synced \in Nat /\ synced' = synced + 1 /\ UNCHANGED <<version, about>>
      BY DEF Synchronize, IInv, TypeOK
    <3>3. req[v].base \in Nat
      BY <3>1 DEF Requests
    <3> QED
      BY <3>1, <3>2, <3>3 DEF RequestOK
  <2> QED
    BY <2>1, <2>2
<1> QED
    BY <1>2, <1>3

LEMMA CompleteStep ==
    ASSUME NEW w \in Workers
    PROVE  IInv /\ (CompleteEvent(w) \/ CompleteConfirm(w)) => IInv'
<1> SUFFICES ASSUME IInv, CompleteEvent(w) \/ CompleteConfirm(w) PROVE IInv'
    OBVIOUS
<1>1. Synchronize(w)
    BY DEF CompleteEvent, CompleteConfirm
<1>2. /\ mirror' \in Nat /\ mirror <= mirror' /\ mirror' <= version
      /\ req[w].event # None => about[req[w].event] <= mirror'
      /\ \A v \in Workers : RequestOK(req[v])'
    BY <1>1, SynchronizeForward
<1>3. \/ event' = event
      \/ /\ req[w].event \in Events /\ req[w].event # None
         /\ about[req[w].event] > 0
         /\ event' = [event EXCEPT ![req[w].event] = ProcessedEvent]
    BY DEF CompleteEvent, CompleteConfirm, IInv, TypeOK, Requests, RequestOK
<1>4. TypeOK'
  <2>1. req' \in [Workers -> Requests]
    BY <1>1, IdleOK DEF Synchronize, Step, IInv, TypeOK
  <2>2. event' \in [Events -> [token : Workers \cup {None},
                              lease : {"none", "running", "over"}, processed : BOOLEAN]]
    <3>1. ProcessedEvent \in [token : Workers \cup {None},
                             lease : {"none", "running", "over"}, processed : BOOLEAN]
      BY DEF ProcessedEvent
    <3> QED
      BY <1>3, <3>1 DEF IInv, TypeOK
  <2>3. synced' = synced + 1 /\ UNCHANGED <<version, about, bounded>>
    BY <1>1 DEF Synchronize
  <2> QED
    BY <1>2, <2>1, <2>2, <2>3 DEF bounded, IInv, TypeOK
<1>5. NoneFromTheFuture'
    BY <1>1, <1>2 DEF Synchronize, IInv, NoneFromTheFuture
<1>6. ProcessedWasSent'
  <2>1. UNCHANGED about /\ mirror \in Nat /\ about \in [Events -> Nat]
    BY <1>1 DEF Synchronize, IInv, TypeOK
  <2> QED
    BY <1>2, <1>3, <2>1 DEF IInv, TypeOK, ProcessedWasSent
<1> QED
    BY <1>2, <1>4, <1>5, <1>6 DEF IInv

LEMMA StutterStep == IInv /\ UNCHANGED vars => IInv'
BY DEF IInv, TypeOK, NoneFromTheFuture, ProcessedWasSent, RequestOK, vars, bounded

LEMMA Invariant == Spec => []IInv
<1>1. IInv /\ [Next]_vars => IInv'
  BY ChangeStep, SendStep, LeaseStep, ClaimStep, ReleaseStep, AttemptStep, CompleteStep,
     StutterStep DEF Next, Attempt
<1> QED
  BY <1>1, InitIInv, PTL DEF Spec

(* Every variable of the webhook processing keeps its type.                *)
THEOREM WebhookTyped == Spec => []TypeOK
<1>1. IInv => TypeOK
  BY DEF IInv
<1> QED
  BY <1>1, Invariant, PTL

(* No synchronization takes back what an acknowledged event has told.      *)
THEOREM AcknowledgedStaysMirrored == Spec => []AcknowledgedIsMirrored
<1>1. IInv => AcknowledgedIsMirrored
  BY DEF IInv, TypeOK, ProcessedWasSent, AcknowledgedIsMirrored, Processed
<1> QED
  BY <1>1, Invariant, PTL

-----------------------------------------------------------------------------
(* A step that keeps the mirror and what is processed is a stutter of       *)
(* BillingMirror.                                                           *)
LEMMA ProcessedKept ==
    ASSUME NEW e \in Events, NEW row, event \in [Events -> [token : Workers \cup {None},
                             lease : {"none", "running", "over"}, processed : BOOLEAN]],
           event' = [event EXCEPT ![e] = row],
           row.processed = event[e].processed
    PROVE  Processed' = Processed
BY DEF Processed

(* Webhook processing implements the promised mirror: its steps are         *)
(* BillingMirror's or change nothing BillingMirror sees.                    *)
THEOREM WebhookImplementsMirror == Spec => ImplementsMirror
<1>1. Init => Mirror!Init
  BY DEF Init, Mirror!Init, Processed, NewEvent
<1>2. IInv /\ [Next]_vars => [Mirror!Next]_(Mirror!vars)
  <2> SUFFICES ASSUME IInv, [Next]_vars PROVE [Mirror!Next]_(Mirror!vars)
    OBVIOUS
  <2> USE DEF Mirror!vars
  <2>1. CASE Change
    BY <2>1 DEF Change, Mirror!Next, Mirror!Change, Processed
  <2>2. ASSUME NEW e \in Events, Send(e) PROVE Mirror!Next
    BY <2>2 DEF Send, Mirror!Next, Mirror!Send, Processed
  <2>3. ASSUME NEW e \in Events, LeaseEnds(e) \/ LeaseEndsEarly(e)
        PROVE  UNCHANGED Mirror!vars
    BY <2>3 DEF LeaseEnds, LeaseEndsEarly, Processed, IInv, TypeOK
  <2>4. ASSUME NEW w \in Workers, NEW e \in Events, ClaimEvent(w, e)
        PROVE  UNCHANGED Mirror!vars
    BY <2>4, ProcessedKept DEF ClaimEvent, IInv, TypeOK
  <2>5. ASSUME NEW w \in Workers, Release(w) PROVE UNCHANGED Mirror!vars
    <3>1. CASE req[w].event # None /\ Releasable(w)
      BY <2>5, <3>1, ProcessedKept
         DEF Release, Releasable, NewEvent, IInv, TypeOK, Requests
    <3>2. CASE ~(req[w].event # None /\ Releasable(w))
      BY <2>5, <3>2 DEF Release, Processed
    <3> QED
      BY <3>1, <3>2
  <2>6. ASSUME NEW w \in Workers,
               \/ BeginConfirm(w) \/ ReadBaseline(w) \/ FetchSubscription(w)
               \/ Refused(w) \/ Fail(w) \/ Crash(w)
        PROVE  UNCHANGED Mirror!vars
    BY <2>6 DEF BeginConfirm, ReadBaseline, FetchSubscription, Refused, Fail, Crash, Processed
  <2>7. ASSUME NEW w \in Workers, CompleteEvent(w) PROVE Mirror!Next
    <3> DEFINE e == req[w].event
    <3>1. Synchronize(w) /\ Fenced(w) /\ e # None /\ event' = [event EXCEPT ![e] = ProcessedEvent]
      BY <2>7 DEF CompleteEvent
    <3>2. e \in Events /\ about[e] > 0 /\ ~event[e].processed
      BY <3>1 DEF Fenced, IInv, TypeOK, Requests, RequestOK
    <3>3. mirror' \in about[e]..version /\ mirror' >= mirror
      BY <3>1, <3>2, SynchronizeForward DEF IInv, TypeOK
    <3>4. Processed' = Processed \cup {e} /\ e \notin Processed
      BY <3>1, <3>2 DEF Processed, ProcessedEvent, IInv, TypeOK
    <3>5. UNCHANGED <<version, about>>
      BY <3>1 DEF Synchronize
    <3> HIDE DEF e
    <3>6. Mirror!Acknowledge(e)
      BY <3>2, <3>3, <3>4, <3>5 DEF Mirror!Acknowledge
    <3> QED
      BY <3>2, <3>6 DEF Mirror!Next
  <2>8. ASSUME NEW w \in Workers, CompleteConfirm(w) PROVE Mirror!Next
    <3>1. Synchronize(w) /\ UNCHANGED <<event, version, about>>
      BY <2>8 DEF CompleteConfirm, Synchronize
    <3>2. mirror' \in mirror..version
      BY <3>1, SynchronizeForward DEF IInv, TypeOK
    <3> QED
      BY <3>1, <3>2 DEF Mirror!Next, Mirror!Refresh, Processed
  <2>9. CASE UNCHANGED vars
    BY <2>9 DEF vars, Processed
  <2> QED
    BY <2>1, <2>2, <2>3, <2>4, <2>5, <2>6, <2>7, <2>8, <2>9 DEF Next, Attempt
<1> QED
  BY <1>1, <1>2, Invariant, PTL DEF Spec, ImplementsMirror, Mirror!Spec

-----------------------------------------------------------------------------
(* The row of a claim that is still its attempt's is written by no one else: *)
(* a delivery claims a row whose lease is over, and completing or releasing *)
(* compares the claim token.                                                *)
LEMMA RowOfClaim ==
    ASSUME IInv, Next, NEW w \in Workers, req[w].event # None, Fenced(w)
    PROVE  \/ event'[req[w].event] = event[req[w].event]
           \/ req'[w] # req[w]
           \/ event'[req[w].event].lease = "over"
<1> DEFINE e == req[w].event
           Goal == \/ event'[e] = event[e]
                   \/ req'[w] # req[w]
                   \/ event'[e].lease = "over"
<1>0. /\ e \in Events /\ req[w] \in Requests
      /\ event[e].token = w /\ event[e].lease = "running" /\ ~event[e].processed
    BY DEF Fenced, IInv, TypeOK, Requests
<1>1. ASSUME UNCHANGED event PROVE Goal
    BY <1>1
<1>2. ASSUME NEW f \in Events, LeaseEnds(f) \/ LeaseEndsEarly(f) PROVE Goal
    BY <1>0, <1>2 DEF LeaseEnds, LeaseEndsEarly, IInv, TypeOK
<1>3. ASSUME NEW v \in Workers, NEW f \in Events, ClaimEvent(v, f) PROVE Goal
    <2>1. f # e
        BY <1>0, <1>3 DEF ClaimEvent, Claimable
    <2> QED
        BY <1>0, <1>3, <2>1 DEF ClaimEvent, IInv, TypeOK
<1>4. ASSUME NEW v \in Workers, Release(v) PROVE Goal
    <2>1. CASE v = w
        <3>1. req[w].at = "failed" /\ req'[w] = Idle
            BY <1>4, <2>1 DEF Release, Step, IInv, TypeOK
        <3> QED BY <3>1 DEF Idle
    <2>2. CASE v # w /\ req[v].event # None /\ Releasable(v)
        <3>1. req[v].event \in Events /\ req[v].event # e
            BY <1>0, <2>2 DEF Releasable, IInv, TypeOK, Requests
        <3>2. event' = [event EXCEPT ![req[v].event] = NewEvent]
            BY <1>4, <2>2 DEF Release
        <3> QED BY <1>0, <3>1, <3>2 DEF IInv, TypeOK
    <2>3. CASE ~(req[v].event # None /\ Releasable(v))
        BY <1>4, <2>3 DEF Release
    <2> QED BY <2>1, <2>2, <2>3
<1>5. ASSUME NEW v \in Workers, CompleteEvent(v) PROVE Goal
    <2>1. CASE v = w
        <3>1. req[w].at = "fetched" /\ req'[w] = Idle
            BY <1>5, <2>1 DEF CompleteEvent, Synchronize, Step, IInv, TypeOK
        <3> QED BY <3>1 DEF Idle
    <2>2. CASE v # w
        <3>1. req[v].event \in Events /\ req[v].event # e
            BY <1>0, <1>5, <2>2 DEF CompleteEvent, Fenced, IInv, TypeOK, Requests
        <3> QED BY <1>0, <1>5, <3>1 DEF CompleteEvent, IInv, TypeOK
    <2> QED BY <2>1, <2>2
<1> HIDE DEF Goal, e
<1>6. Goal
    BY <1>1, <1>2, <1>3, <1>4, <1>5 DEF Next, Attempt, Change, Send, BeginConfirm,
       ReadBaseline, FetchSubscription, CompleteConfirm, Refused, Fail, Crash
<1> QED
    BY <1>6 DEF Goal, e

(* A claim is its attempt's until it completes, fails, dies or outlives its *)
(* lease ("Fence out workers whose claim expired or was replaced",          *)
(* billing-webhook.repository.ts:147).                                      *)
THEOREM ClaimsHold == Spec => ClaimHoldsItsLease
<1> DEFINE Holds(w) == req[w].event # None /\ Fenced(w) =>
              \/ req'[w].event # None /\ Fenced(w)'
              \/ req'[w] # req[w]
              \/ event'[req[w].event].lease = "over"
<1>1. ASSUME IInv, Next, NEW w \in Workers PROVE Holds(w)
    BY <1>1, RowOfClaim DEF Fenced
<1>2. IInv /\ [Next]_vars => [\A w \in Workers : Holds(w)]_vars
    BY <1>1
<1> QED
    BY <1>2, Invariant, PTL DEF Spec, ClaimHoldsItsLease
=============================================================================
