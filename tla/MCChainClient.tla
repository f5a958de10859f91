----------------------------- MODULE MCChainClient -----------------------------
(***************************************************************************)
(* ChainClient with two processes and enough out-points for a duplicate    *)
(* creation and a revocation.                                              *)
(***************************************************************************)
EXTENDS ChainClient

MCLockHashes == {Issuer}
MCOutputCells == {}
=============================================================================
