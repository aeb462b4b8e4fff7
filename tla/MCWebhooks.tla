----------------------------- MODULE MCWebhooks ----------------------------
(***************************************************************************)
(* Two notifications of one account.                                       *)
(***************************************************************************)
EXTENDS Webhooks

CONSTANTS a1

SameAccount == [e \in Events |-> a1]
=============================================================================
