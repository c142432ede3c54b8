--------------------------- MODULE MCWebhookSpool ---------------------------
(***************************************************************************)
(* WebhookSpool for TLC (WebhookSpool.cfg): two events of one sink, one    *)
(* retry, a spool of one file (the second event meets the cap), drains that *)
(* back off up to three passes, both settings of spool_max_age, a restart. *)
(***************************************************************************)
EXTENDS WebhookSpool
=============================================================================
