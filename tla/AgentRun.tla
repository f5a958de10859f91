-------------------------------- MODULE AgentRun --------------------------------
(***************************************************************************)
(* One task given to the tool-using agent, from the form of the console    *)
(* (app.js) through runCkbAgent (ai-service.js), the tools of its plugins  *)
(* (plugin-service.js) and the calls to MCP servers (mcp-client.js).       *)
(*                                                                         *)
(* A run discovers the tools of its plugins, then alternates between the   *)
(* AI provider and the calls its answer asks for.  A tool of an MCP server *)
(* that is not marked read-only needs the user's approval; the run ends    *)
(* there, and the console starts a whole new run once the user agrees.     *)
(* Servers may perform a call and lose the answer, or perform it and       *)
(* answer with an HTTP error, after which the call is sent again over the  *)
(* older protocol.  What a provider asks for is chosen call by call: no    *)
(* part of the code looks ahead in its answer.                             *)
(***************************************************************************)
EXTENDS Integers, Sequences, FiniteSetsExt

CONSTANTS
  Plugins,        \* the plugins of the request, in order
  Builtin,        \* those that are part of the server
  Offers,         \* for every plugin, the tool lists its discovery may return
  Operations,     \* what the provider may ask for: [tool, arguments]
  NamedApprovals, \* the sets of tool names a caller may send as approved
  StepLimits,     \* maxSteps, between 1 and 6
  ToolBudget,     \* calls executed of one provider turn: 4
  ListLimit,      \* tools described to the provider: 96
  TurnLength,     \* bound: calls in one provider turn
  MaxSubmissions  \* bound: tasks submitted

ASSUME PluginsAssumption == Plugins \in Seq(Range(Plugins))
ASSUME BuiltinAssumption == Builtin \subseteq Range(Plugins)
ASSUME BudgetAssumption == ToolBudget \in Nat /\ ListLimit \in Nat /\ TurnLength \in Nat
ASSUME StepsAssumption == StepLimits \subseteq 1..6
ASSUME SubmissionsAssumption == MaxSubmissions \in Nat
ASSUME OperationsAssumption ==
  IsFiniteSet(Operations) /\ \A o \in Operations : DOMAIN o = {"tool", "arguments"}

VARIABLES
  phase,    \* of the run: "idle", "running", "answered", "waiting" or "failed"
  stage,    \* where a run that is running stands
  failure,  \* why it failed
  request,  \* its limit, provider and approvals
  registry, \* the tools of the plugins discovered so far, in order
  found,    \* plugins discovered
  step,     \* the provider turn
  turn,     \* calls of that turn, those dealt with, and replies prepared for it
  call,     \* the operation under way, or the one that waits for approval
  trace,    \* the audit: for every operation, its entries by status
  performed,   \* ghost: how often tools really performed the operation in this run
  confirmed,   \* ghost: the operations the user agreed to
  attempt,     \* runs of this submission
  submissions  \* tasks submitted

vars == <<phase, stage, failure, request, registry, found, step, turn, call, trace,
          performed, confirmed, attempt, submissions>>
runVars == <<failure, request, registry, found, step, confirmed, attempt, submissions>>

Names == {o.tool : o \in Operations}
Risks == {"read", "external", "blocked"}
ASSUME OffersAssumption ==
  Offers \in [Range(Plugins) -> SUBSET Seq([name : Names, risk : Risks])]
ASSUME ApprovalsAssumption == NamedApprovals \subseteq SUBSET Names
Tools == [name : Names, plugin : Range(Plugins), risk : Risks]
NoCall == [tool |-> "none", arguments |-> "none"]
NoTurn == [count |-> 0, done |-> 0, replies |-> 0]
NoEntries == [ok |-> 0, error |-> 0, refused |-> 0]
Requests ==
  [limit : StepLimits, gemini : BOOLEAN, tools : SUBSET Names, operations : SUBSET Operations]

TypeOK ==
  /\ phase \in {"idle", "running", "answered", "waiting", "failed"}
  /\ stage \in {"none", "discover", "provider", "calls", "current", "session", "legacy"}
  /\ failure \in {"none", "discovery", "provider", "step-limit"}
  /\ request \in Requests \cup {NoCall}
  /\ registry \in Seq(Tools)
  /\ found \in 0..Len(Plugins)
  /\ step \in Nat
  /\ turn \in [count : 0..TurnLength, done : 0..TurnLength, replies : 0..TurnLength]
  /\ call \in Operations \cup {NoCall}
  /\ trace \in [Operations -> [ok : Nat, error : Nat, refused : Nat]]
  /\ performed \in [Operations -> Nat]
  /\ confirmed \subseteq Operations
  /\ attempt \in 0..2
  /\ submissions \in 0..MaxSubmissions

Init ==
  /\ phase = "idle" /\ stage = "none" /\ failure = "none"
  /\ request = NoCall
  /\ registry = <<>> /\ found = 0
  /\ step = 0 /\ turn = NoTurn /\ call = NoCall
  /\ trace = [o \in Operations |-> NoEntries]
  /\ performed = [o \in Operations |-> 0]
  /\ confirmed = {} /\ attempt = 0 /\ submissions = 0

-----------------------------------------------------------------------------
(* The request.                                                            *)

Begin(r) ==
  /\ phase' = "running" /\ stage' = "discover" /\ failure' = "none"
  /\ request' = r
  /\ registry' = <<>> /\ found' = 0
  /\ step' = 0 /\ turn' = NoTurn /\ call' = NoCall
  /\ trace' = [o \in Operations |-> NoEntries]
  /\ performed' = [o \in Operations |-> 0]

\* A task from the form, or from another client that sends names it approves.
Submit ==
  /\ phase # "running" /\ submissions < MaxSubmissions
  /\ \E limit \in StepLimits, gemini \in BOOLEAN, tools \in NamedApprovals :
       /\ Begin([limit |-> limit, gemini |-> gemini, tools |-> tools, operations |-> {}])
       /\ confirmed' = {o \in Operations : o.tool \in tools}
  /\ attempt' = 1
  /\ submissions' = submissions + 1

\* The user agrees to the operation shown; the form asks once per task and runs
\* the whole task again.
Confirm ==
  /\ phase = "waiting" /\ attempt = 1
  /\ Begin([request EXCEPT !.tools = {call.tool}, !.operations = {call}])
  /\ confirmed' = confirmed \cup {call}
  /\ attempt' = 2
  /\ UNCHANGED submissions

End(how, why) ==
  /\ phase' = how /\ stage' = "none" /\ failure' = why

-----------------------------------------------------------------------------
(* resolveAgentTools.                                                      *)

\* The tools of the next plugin; an MCP server may fail to list them.
Discover ==
  /\ stage = "discover" /\ found < Len(Plugins)
  /\ LET plugin == Plugins[found + 1] IN
     \E offer \in Offers[plugin] :
       registry' = registry \o
         [i \in DOMAIN offer |-> [name |-> offer[i].name, plugin |-> plugin, risk |-> offer[i].risk]]
  /\ found' = found + 1
  /\ UNCHANGED <<phase, stage, failure, request, step, turn, call, trace, performed,
                 confirmed, attempt, submissions>>

\* Mutant: a server that does not answer has all plugins discovered again.
DiscoveryRestarts ==
  /\ stage = "discover" /\ found < Len(Plugins)
  /\ Plugins[found + 1] \notin Builtin
  /\ registry' = <<>> /\ found' = 0
  /\ UNCHANGED <<phase, stage, failure, request, step, turn, call, trace, performed,
                 confirmed, attempt, submissions>>

DiscoveryFails ==
  /\ stage = "discover" /\ found < Len(Plugins)
  /\ Plugins[found + 1] \notin Builtin
  /\ End("failed", "discovery")
  /\ UNCHANGED <<request, registry, found, step, turn, call, trace, performed, confirmed,
                 attempt, submissions>>

\* The first tool of the name that is described, which the audit names.
Described(name) ==
  {registry[i] : i \in {i \in 1..Len(registry) :
     /\ i <= ListLimit /\ registry[i].name = name
     /\ \A j \in 1..(i - 1) : registry[j].name # name}}

\* The last tool registered under the name, which is executed.
Registered(name) ==
  {registry[i] : i \in {i \in 1..Len(registry) :
     /\ registry[i].name = name
     /\ \A j \in (i + 1)..Len(registry) : registry[j].name # name}}

\* Mutant: the tool is approved, whatever its arguments.
PermittedByName(tool, o) ==
  \/ tool.plugin \in Builtin
  \/ tool.risk = "read"
  \/ \E p \in request.operations : p.tool = o.tool
  \/ request.operations = {} /\ o.tool \in request.tools

\* The arguments count unless the caller sent names only.
Permitted(tool, o) ==
  \/ tool.plugin \in Builtin
  \/ tool.risk = "read"
  \/ o \in request.operations
  \/ request.operations = {} /\ o.tool \in request.tools

-----------------------------------------------------------------------------
(* The loop of runCkbAgent.                                                *)

StartTurn ==
  /\ \/ stage = "discover" /\ found = Len(Plugins)
     \/ stage = "calls" /\ turn.done = turn.count /\ step < request.limit
  /\ step' = step + 1 /\ stage' = "provider"
  /\ UNCHANGED <<phase, failure, request, registry, found, turn, call, trace, performed,
                 confirmed, attempt, submissions>>

StepLimit ==
  /\ stage = "calls" /\ turn.done = turn.count /\ step = request.limit
  /\ End("failed", "step-limit")
  /\ UNCHANGED <<request, registry, found, step, turn, call, trace, performed, confirmed,
                 attempt, submissions>>

\* No tool call: the answer.  An unreachable provider loses the audit.
ProviderEnds ==
  /\ stage = "provider"
  /\ End("answered", "none") \/ End("failed", "provider")
  /\ UNCHANGED <<request, registry, found, step, turn, call, trace, performed, confirmed,
                 attempt, submissions>>

ProviderCalls ==
  /\ stage = "provider"
  /\ \E n \in 1..TurnLength : turn' = [count |-> n, done |-> 0, replies |-> 0]
  /\ stage' = "calls"
  /\ UNCHANGED <<phase, call, trace, performed, runVars>>

\* Mutant: calls beyond the budget get no reply from anyone.
RefuseSilently(o) ==
  /\ trace' = [trace EXCEPT ![o].refused = @ + 1]
  /\ turn' = [turn EXCEPT !.done = @ + 1]
  /\ UNCHANGED <<phase, stage, call, performed, runVars>>

\* Beyond the budget nothing is executed; only Gemini needs a reply per call.
Refuse(o) ==
  /\ trace' = [trace EXCEPT ![o].refused = @ + 1]
  /\ turn' = [turn EXCEPT !.done = @ + 1, !.replies = IF request.gemini THEN @ + 1 ELSE @]
  /\ UNCHANGED <<phase, stage, call, performed, runVars>>

\* An entry, and the reply for the provider.
Record(o, status) ==
  /\ trace' = [trace EXCEPT ![o][status] = @ + 1]
  /\ turn' = [turn EXCEPT !.done = @ + 1, !.replies = @ + 1]
  /\ stage' = "calls" /\ call' = NoCall
  /\ UNCHANGED <<phase, runVars>>

\* A tool that is not known, one that is blocked, or a read of the server's own.
Local(o, tools) ==
  \/ /\ tools = {} \/ \E t \in tools : t.plugin \notin Builtin /\ t.risk = "blocked"
     /\ Record(o, "error")
     /\ UNCHANGED performed
  \/ /\ \E t \in tools : t.plugin \in Builtin
     /\ \/ Record(o, "ok") /\ performed' = [performed EXCEPT ![o] = @ + 1]
        \/ Record(o, "error") /\ UNCHANGED performed

Remote(o, tools) ==
  /\ \E t \in tools : t.plugin \notin Builtin /\ t.risk # "blocked" /\ Permitted(t, o)
  /\ stage' = "current" /\ call' = o
  /\ UNCHANGED <<phase, turn, trace, performed, runVars>>

\* The run ends; what it did so far is in its trace.
AwaitApproval(o, tools) ==
  /\ \E t \in tools : t.plugin \notin Builtin /\ t.risk # "blocked" /\ ~Permitted(t, o)
  /\ End("waiting", "none")
  /\ call' = o
  /\ UNCHANGED <<request, registry, found, step, turn, trace, performed, confirmed,
                 attempt, submissions>>

\* Mutant: one call more than the budget is executed.
NextCallLate ==
  /\ stage = "calls" /\ turn.done < turn.count
  /\ \E o \in Operations :
       IF turn.done > ToolBudget THEN Refuse(o)
       ELSE LET tools == Registered(o.tool) IN
            Local(o, tools) \/ Remote(o, tools) \/ AwaitApproval(o, tools)

NextCall ==
  /\ stage = "calls" /\ turn.done < turn.count
  /\ \E o \in Operations :
       IF turn.done >= ToolBudget THEN Refuse(o)
       ELSE LET tools == Registered(o.tool) IN
            Local(o, tools) \/ Remote(o, tools) \/ AwaitApproval(o, tools)

-----------------------------------------------------------------------------
(* callMcpTool: the current protocol, then the older one.                  *)

Perform(o) == performed' = [performed EXCEPT ![o] = @ + 1]

\* A JSON-RPC error, an unreadable answer or none: whether the server performed
\* the call is not known.
CallLost(o) == Record(o, "error") /\ (Perform(o) \/ UNCHANGED performed)

\* Any JSON-RPC result is traced as a success: also one that asks for more input,
\* which callMcpTool tells apart and its caller drops, and one that says the tool
\* failed.  The server then need not have performed the call.
Answered(o) == Record(o, "ok") /\ (Perform(o) \/ UNCHANGED performed)

CurrentProtocol ==
  /\ stage = "current"
  /\ \/ Answered(call)
     \/ CallLost(call)
     \/ /\ stage' = "session"  \* an HTTP error
        /\ Perform(call) \/ UNCHANGED performed
        /\ UNCHANGED <<phase, turn, call, trace, runVars>>

\* initialize, and a notification whose failure is ignored.
OpenSession ==
  /\ stage = "session"
  /\ \/ stage' = "legacy" /\ UNCHANGED <<phase, turn, call, trace, runVars>>
     \/ Record(call, "error")
  /\ UNCHANGED performed

\* Mutant: an HTTP error of the older protocol starts another session.
LegacyRetried ==
  /\ stage = "legacy"
  /\ \/ Answered(call)
     \/ CallLost(call)
     \/ /\ stage' = "session"
        /\ performed[call] < 3 /\ Perform(call)
        /\ UNCHANGED <<phase, turn, call, trace, runVars>>

LegacyProtocol ==
  /\ stage = "legacy"
  /\ \/ Answered(call)
     \/ CallLost(call)

-----------------------------------------------------------------------------
RunStep ==
  \/ Discover \/ DiscoveryFails \/ StartTurn \/ StepLimit \/ ProviderEnds \/ ProviderCalls
  \/ NextCall \/ CurrentProtocol \/ OpenSession \/ LegacyProtocol

Next == Submit \/ Confirm \/ RunStep

\* Every call to a provider or a server is given up after its timeout.
Spec == Init /\ [][Next]_vars /\ WF_vars(RunStep)

-----------------------------------------------------------------------------
(* Properties                                                              *)

Recorded(o) == trace[o].ok + trace[o].error

\* No performance is missing from the audit of a run that returns one: every
\* operation has an entry of a call that was let through for each two times it was
\* performed, whatever was lost, answered with an HTTP error or sent again.  An
\* entry does not say that the operation was performed.  (A run that the provider
\* fails returns no audit.)
WorkRecorded ==
  phase # "running" => \A o \in Operations : performed[o] <= 2 * Recorded(o)

\* An operation a server does not call read-only is performed only when the user
\* agreed to exactly these arguments, or its caller to the tool by name, however
\* often the task is run again and the server's list changes.
NothingUnapproved ==
  \A o \in Operations :
    performed[o] > 0 =>
      \/ o \in confirmed
      \/ \E t \in Registered(o.tool) : t.plugin \in Builtin \/ t.risk = "read"

\* Gemini is sent one reply for every call of its turn, those beyond the budget
\* included.
RepliesMatchCalls ==
  stage = "provider" /\ request.gemini => turn.replies = turn.count

Sources == Range(Plugins) \cup {"unknown"}
SourceOf(o) == IF Described(o.tool) = {} THEN {"unknown"} ELSE {t.plugin : t \in Described(o.tool)}

\* What the trace shows of all operations together: successes by source, other
\* entries, and calls that were let through to a tool.
Successes ==
  [s \in Sources |-> SumFunction([o \in Operations |-> IF s \in SourceOf(o) THEN trace[o].ok ELSE 0])]
Failures == SumFunction([o \in Operations |-> trace[o].error + trace[o].refused])
Executed == SumFunction([o \in Operations |-> Recorded(o)])

Abstract == INSTANCE ToolRun WITH
  MaxCalls <- Max(StepLimits) * ToolBudget,
  ok <- Successes, failed <- Failures, executed <- Executed

\* A run is what its callers take it for, and executes no more calls than its
\* steps and the budget allow.
RunImplementsToolRun == Abstract!Spec

\* A task always comes to its end.
EveryRunEnds == phase = "running" ~> phase # "running"

=============================================================================
