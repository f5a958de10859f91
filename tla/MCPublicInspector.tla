---------------------------- MODULE MCPublicInspector ----------------------------
(***************************************************************************)
(* PublicInspector, and IssuerWorkflow in it: one inspection over two      *)
(* credentials, with two requests to the portal and one command line       *)
(* process.                                                                *)
(***************************************************************************)
EXTENDS PublicInspector, TLC

CONSTANTS w1, w2, k1, k2

MCPortal == {w1, w2}
MCCredentials == {k1, k2}
Symmetry == Permutations(MCPortal) \cup Permutations(MCCredentials)
=============================================================================
