-------------------------------- MODULE MCAgentRun --------------------------------
(***************************************************************************)
(* AgentRun with the documentation plugin and one MCP server, two of whose *)
(* tools end up under one name, in either order.  `pay` is blocked, or not  *)
(* known at all; it may lie beyond the list described to the provider.      *)
(***************************************************************************)
EXTENDS AgentRun

MCPlugins == <<"docs", "mcp">>
MCOffers ==
  [ docs |-> {<< [name |-> "search", risk |-> "read"] >>},
    mcp  |-> {<< [name |-> "act", risk |-> "read"], [name |-> "act", risk |-> "external"],
                 [name |-> "pay", risk |-> "blocked"] >>,
              << [name |-> "act", risk |-> "external"], [name |-> "act", risk |-> "read"] >>} ]
MCOperations ==
  {[tool |-> "search", arguments |-> "a"], [tool |-> "act", arguments |-> "a"],
   [tool |-> "act", arguments |-> "b"], [tool |-> "pay", arguments |-> "a"]}
MCNamedApprovals == {{}, {"act"}}
=============================================================================
