---------------------------- MODULE MCInspectorGate ----------------------------
(***************************************************************************)
(* InspectorGate with one address and four routes: two that share the AI   *)
(* count, the one that keeps a document and one without a body, with room  *)
(* for two counts.                                                         *)
(***************************************************************************)
EXTENDS InspectorGate

MCServed == {r \in Routes : r.name \in {"ai-explain", "ai-agent", "inspect", "passport"}}
=============================================================================
