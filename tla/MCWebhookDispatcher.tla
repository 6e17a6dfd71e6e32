------------------------- MODULE MCWebhookDispatcher -------------------------
(* WebhookDispatcher for TLC: its constants are model values and numbers. *)
EXTENDS WebhookDispatcher, TLC
=============================================================================
