---------------------------- MODULE MCIssuerPortal ----------------------------
(***************************************************************************)
(* IssuerPortal with a webhook, two calls and bulk requests of two items.  *)
(***************************************************************************)
EXTENDS IssuerPortal

MCCalls == {1, 2}
=============================================================================
