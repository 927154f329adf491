---------------------------- MODULE BillingMirror ----------------------------
(***************************************************************************)
(* What the server promises about an organization's Stripe subscription:   *)
(* OrganizationBilling is a mirror of it that never goes back, and an      *)
(* event is acknowledged once, when the mirror shows the subscription as   *)
(* it was when the event was sent or later.                                *)
(***************************************************************************)
EXTENDS Naturals

CONSTANT Events   \* Stripe events about the subscription

VARIABLES
    version,  \* how often the subscription has changed
    about,    \* the version an event was sent at; 0 is not sent
    mirror,   \* the version OrganizationBilling shows; 0 is none
    done      \* the events acknowledged

vars == <<version, about, mirror, done>>

Init ==
    /\ version = 0
    /\ about = [e \in Events |-> 0]
    /\ mirror = 0
    /\ done = {}

(* Stripe: the subscription changes, and an event is sent about it.        *)
Change ==
    /\ version' = version + 1
    /\ UNCHANGED <<about, mirror, done>>

Send(e) ==
    /\ about[e] = 0 /\ version > 0
    /\ about' = [about EXCEPT ![e] = version]
    /\ UNCHANGED <<version, mirror, done>>

(* The server: the mirror moves forward, for an event or without one.      *)
Acknowledge(e) ==
    /\ about[e] > 0 /\ e \notin done
    /\ \E v \in about[e]..version : v >= mirror /\ mirror' = v
    /\ done' = done \cup {e}
    /\ UNCHANGED <<version, about>>

Refresh ==
    /\ \E v \in mirror..version : mirror' = v
    /\ UNCHANGED <<version, about, done>>

Next == Change \/ Refresh \/ \E e \in Events : Send(e) \/ Acknowledge(e)

Spec == Init /\ [][Next]_vars
=============================================================================
