------------------------------ MODULE MCAgentService ------------------------------
(***************************************************************************)
(* AgentService with two jobs on two processes: one for a community        *)
(* service, whose calls may wait for approval, the other for that service  *)
(* or for the incident team of the catalog with two of its specialists.    *)
(***************************************************************************)
EXTENDS AgentService

CONSTANTS j1, j2

SmallTeam ==
  [IncidentTeam EXCEPT !.plugins = [impact |-> {"ckb_rpc", "ckb_docs"}, trust |-> {"ckb_workspace", "ckb_docs"}]]
Community == CommunityService("ckb_ai_mcp")

MCJobs == {j1, j2}
MCServices == {SmallTeam, Community}
MCWanted == [j \in MCJobs |-> IF j = j1 THEN MCServices ELSE {Community}]
=============================================================================
