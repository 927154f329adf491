--------------------------- MODULE MCBillingWebhook ---------------------------
(* BillingWebhook on a small instance.                                     *)
EXTENDS BillingWebhook
=============================================================================
