------------------------- MODULE MC_WebhookDelivery -------------------------
(***************************************************************************)
(* Small instances of WebhookDelivery.                                     *)
(***************************************************************************)
EXTENDS WebhookDelivery

CONSTANTS e1, d1, d2, d3, w1, w2
=============================================================================
