---------------------------- MODULE MCAttachmentStore ----------------------------
(***************************************************************************)
(* AttachmentStore with two requests at a time and a limit of two files.   *)
(***************************************************************************)
EXTENDS AttachmentStore, TLC

CONSTANTS h1, h2

MCHandlers == {h1, h2}
HandlerSymmetry == Permutations(MCHandlers)
=============================================================================
