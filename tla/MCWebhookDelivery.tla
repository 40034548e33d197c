------------------------- MODULE MCWebhookDelivery -------------------------
(***************************************************************************)
(* The instance of WebhookDelivery for TLC: two servers compete for a row  *)
(* of three attempts, with a claim token for each attempt and one more for *)
(* a takeover.  Servers and tokens are not symmetric, because liveness is  *)
(* checked.                                                                *)
(***************************************************************************)
EXTENDS WebhookDelivery
=============================================================================
