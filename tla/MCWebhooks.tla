---------------------------- MODULE MCWebhooks ----------------------------
(* Webhooks with two app servers, for TLC. *)
EXTENDS Webhooks, TLC

CONSTANTS p1, p2, h1, ev1, ev2

=============================================================================
