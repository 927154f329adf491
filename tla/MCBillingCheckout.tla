-------------------------- MODULE MCBillingCheckout --------------------------
(* Two requests and two operations: a checkout that is lost or expires,    *)
(* and the one that follows it.                                            *)
EXTENDS BillingCheckout, TLC

MCSymmetry == Permutations(Workers) \cup Permutations(Operations)
=============================================================================
