------------------------------ MODULE AgentCatalog ------------------------------
(***************************************************************************)
(* What the server offers its users: the plugins and the tools of the      *)
(* built-in ones (plugin-service.js), the missions                         *)
(* (application-service.js) and the services for hire                      *)
(* (agent-commerce-service.js).  Texts, schemas and links are left out:    *)
(* what counts is which plugin gives a tool, what a deployment has to      *)
(* configure for it, and what a service demands as evidence.               *)
(***************************************************************************)
EXTENDS Naturals, FiniteSets

Settings == {"CKB_RPC_URL", "FIBER_RPC_URL", "CKB_AGENT_WORKSPACE"}

-----------------------------------------------------------------------------
(* Plugins.                                                                *)

\* BUILTIN_PLUGINS: for each its transport and the setting it requires.
PluginTable ==
  [ckb_docs      |-> [transport |-> "builtin", needs |-> {}],
   ckb_community |-> [transport |-> "builtin", needs |-> {}],
   ckb_github    |-> [transport |-> "builtin", needs |-> {}],
   ckb_rpc       |-> [transport |-> "builtin", needs |-> {"CKB_RPC_URL"}],
   fiber_rpc     |-> [transport |-> "builtin", needs |-> {"FIBER_RPC_URL"}],
   ckb_workspace |-> [transport |-> "builtin", needs |-> {"CKB_AGENT_WORKSPACE"}],
   ckb_ai_mcp    |-> [transport |-> "mcp",     needs |-> {}]]

BuiltinPlugins == {p \in DOMAIN PluginTable : PluginTable[p].transport = "builtin"}
McpPlugins == DOMAIN PluginTable \ BuiltinPlugins

\* builtinTools, for the plugins that read public sources.
PublicTools ==
  [ckb_docs      |-> {"ckb_docs_search", "ckb_docs_deep_search", "ckb_dev_skills"},
   ckb_community |-> {"ckb_community_latest", "ckb_community_resources"},
   ckb_github    |-> {"ckb_project_map", "ckb_open_issues", "ckb_project_activity"}]

\* builtinTools, for the plugins that read what the deployment configures.
DeploymentTools ==
  [ckb_rpc       |-> {"ckb_rpc_tip", "ckb_rpc_blockchain_info", "ckb_rpc_transaction",
                      "ckb_rpc_live_cell", "ckb_rpc_dry_run_transaction",
                      "ckb_rpc_cells_by_script", "ckb_rpc_cells_capacity"},
   fiber_rpc     |-> {"fiber_health_snapshot", "fiber_node_info", "fiber_list_peers",
                      "fiber_list_channels", "fiber_list_payments", "fiber_payment_quote",
                      "fiber_graph_overview"},
   ckb_workspace |-> {"ckb_workspace_summary", "ckb_workspace_search", "ckb_workspace_read_file"}]

ToolsOf(p) == IF p \in DOMAIN PublicTools THEN PublicTools[p] ELSE DeploymentTools[p]

Works(p, settings) == PluginTable[p].needs \subseteq settings

-----------------------------------------------------------------------------
(* Missions: the plugins their one agent may use, what they require.       *)

Mission(name, plugins, requires) == [name |-> name, plugins |-> plugins, requires |-> requires]

DeveloperMissions ==
  {Mission("fiber-operator-diagnostics", {"fiber_rpc", "ckb_docs"}, {"FIBER_RPC_URL"}),
   Mission("transaction-forensics", {"ckb_rpc", "ckb_docs"}, {"CKB_RPC_URL"}),
   Mission("script-debug-lab", {"ckb_workspace", "ckb_docs", "ckb_rpc"}, {"CKB_AGENT_WORKSPACE"}),
   Mission("asset-provenance", {"ckb_rpc", "ckb_docs"}, {"CKB_RPC_URL"}),
   Mission("contribution-finder", {"ckb_github", "ckb_community", "ckb_docs"}, {}),
   Mission("research-brief", {"ckb_docs", "ckb_github", "ckb_community"}, {}),
   Mission("dapp-architecture", {"ckb_docs", "ckb_community"}, {}),
   Mission("testnet-launch-gate", {"ckb_docs", "ckb_rpc", "ckb_workspace"}, {"CKB_RPC_URL"})}

IntegrationMissions ==
  {Mission("ccc-wallet-integration", {"ckb_docs", "ckb_workspace"}, {}),
   Mission("xudt-token-launch", {"ckb_docs", "ckb_rpc"}, {}),
   Mission("spore-dob-launch", {"ckb_docs", "ckb_community"}, {}),
   Mission("rgbpp-integration-review", {"ckb_docs", "ckb_community"}, {}),
   Mission("credential-trust-audit", {"ckb_docs", "ckb_rpc"}, {}),
   Mission("rpc-incident-response", {"ckb_rpc", "ckb_docs"}, {"CKB_RPC_URL"}),
   Mission("fiber-liquidity-planning", {"fiber_rpc", "ckb_docs"}, {"FIBER_RPC_URL"})}

Missions == DeveloperMissions \cup IntegrationMissions

-----------------------------------------------------------------------------
(* Services: the plugins of every role, whether a reconciling role follows *)
(* them, the sources the evidence policy accepts and the successes it asks *)
(* for.                                                                    *)

Service(name, team, plugins, sources, requires) ==
  [name |-> name, team |-> team, plugins |-> plugins, sources |-> sources, minimum |-> 1,
   requires |-> requires]
Team(name, plugins, sources, requires) == Service(name, TRUE, plugins, sources, requires)
Single(name, plugins, sources, requires) ==
  Service(name, FALSE, [agent |-> plugins], sources, requires)

LaunchTeam ==
  Team("ckb-launch-readiness-team",
    [researcher |-> {"ckb_docs", "ckb_github"}, reviewer |-> {"ckb_workspace", "ckb_docs"},
     operator |-> {"ckb_rpc", "fiber_rpc", "ckb_docs"}],
    {"ckb_docs", "ckb_github", "ckb_workspace", "ckb_rpc", "fiber_rpc"}, {})

DesignServices ==
  LET reading == {"ckb_docs", "ckb_github", "ckb_community"} IN
  {Single("fiber-agent-commerce", {"fiber_rpc", "ckb_docs", "ckb_community"}, {"fiber_rpc"},
     {"FIBER_RPC_URL"}),
   Single("ckb-agent-service-designer", reading, reading, {}),
   Single("ckb-verifiable-research", reading, reading, {})}

IncidentTeam ==
  Team("ckb-production-incident-team",
    [operator |-> {"ckb_rpc", "fiber_rpc", "ckb_docs"}, impact |-> {"ckb_rpc", "ckb_docs"},
     trust |-> {"ckb_workspace", "ckb_docs"}],
    {"ckb_rpc", "fiber_rpc", "ckb_docs", "ckb_workspace"}, {"CKB_RPC_URL"})

ReviewServices ==
  LET Reviewed(name, plugins) == Single(name, plugins, plugins, {}) IN
  {Reviewed("ckb-credential-trust-auditor", {"ckb_docs", "ckb_rpc"}),
   Reviewed("ckb-wallet-flow-reviewer", {"ckb_docs", "ckb_workspace", "ckb_rpc"}),
   Reviewed("ckb-asset-launch-reviewer", {"ckb_docs", "ckb_community", "ckb_rpc"})}

WorkflowTeam ==
  Team("ckb-agent-workflow-orchestrator",
    [planner |-> {"ckb_docs", "ckb_github"}, verifier |-> {"ckb_rpc", "fiber_rpc", "ckb_docs"},
     gatekeeper |-> {"ckb_workspace", "ckb_docs"}],
    {"ckb_docs", "ckb_rpc", "fiber_rpc", "ckb_workspace", "ckb_github"}, {})

\* communityServices: one service for every MCP plugin.
CommunityService(p) == Single(p, {p, "ckb_docs"}, {p}, {})

BuiltinServices ==
  {LaunchTeam, IncidentTeam, WorkflowTeam} \cup DesignServices \cup ReviewServices
Catalog == BuiltinServices \cup {CommunityService(p) : p \in McpPlugins}

RolesOf(s) == DOMAIN s.plugins
PluginsOf(s) == UNION {s.plugins[r] : r \in RolesOf(s)}

\* configStatus.  It is shown to the user and not asked again when a job is started.
Ready(o, settings) == o.requires \subseteq settings

-----------------------------------------------------------------------------
(* Assumptions about the tables, which every run that extends them checks. *)

\* No two built-in tools share a name, so that a collision of names takes an MCP
\* server.
ASSUME ToolNamesDiffer ==
  \A p, q \in BuiltinPlugins : p # q => ToolsOf(p) \cap ToolsOf(q) = {}

\* A mission that is called ready has a plugin that works as it is configured.
ASSUME MissionsWork ==
  \A m \in Missions, settings \in SUBSET Settings :
    Ready(m, settings) => \E p \in m.plugins : Works(p, settings)

\* A service that is called ready can meet its own evidence policy.
ASSUME PoliciesCanBeMet ==
  \A s \in Catalog, settings \in SUBSET Settings :
    Ready(s, settings) => \E p \in s.sources \cap PluginsOf(s) : Works(p, settings)

=============================================================================
