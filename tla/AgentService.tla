------------------------------ MODULE AgentService ------------------------------
(***************************************************************************)
(* Jobs given to an agent service (agent-commerce-service.js), judged by   *)
(* its evidence policy and its workflow plan (agent-workflow-service.js),  *)
(* signed with the identity of the service (agent-identity.js) and kept in *)
(* the job store (agent-job-store.js) by the run route of inspector-http.js*)
(*                                                                         *)
(* A single service runs one agent, a team its specialists side by side    *)
(* and then one that reconciles their reports.  An agent run is taken as   *)
(* ToolRun describes it.  Several server processes may share the data      *)
(* directory and may stop at any time; the identity file and the store     *)
(* outlive them, and the store takes over the jobs of an older ledger.     *)
(***************************************************************************)
EXTENDS Integers, FiniteSetsExt, AgentCatalog

CONSTANTS
  Jobs,      \* job ids, each for one request to the run route
  Processes, \* server processes on one data directory
  Services,  \* services, in the form of AgentCatalog
  Wanted,    \* for every job, the services it may be for
  Legacy,    \* jobs of the ledger kept before the store, with an id and a token hash
  MaxCalls,  \* bound: recorded calls of one role
  MaxCrashes \* bound: processes that stop

ASSUME ServicesAssumption ==
  \A s \in Services :
    /\ s.team \in BOOLEAN /\ s.minimum \in Nat /\ "synthesis" \notin RolesOf(s)
    /\ s.sources # {}
    /\ PluginsOf(s) \subseteq DOMAIN PluginTable
ASSUME JobsAssumption == "none" \notin Jobs
ASSUME WantedAssumption == Wanted \in [Jobs -> SUBSET Services]
ASSUME LegacyAssumption == Legacy \cap Jobs = {}
ASSUME BoundsAssumption == MaxCalls \in Nat /\ MaxCrashes \in Nat

VARIABLES
  job,      \* what becomes of a request
  run,      \* the agent run of every role of every job
  identity, \* the identity file: the key in it
  shelf,    \* the rows of the job store
  migrated, \* its flag that the older ledger was taken over
  crashes,  \* processes stopped
  raced     \* ghost: the jobs that made a key while another process was making one

vars == <<job, run, identity, shelf, migrated, crashes, raced>>

\* The role that reconciles the reports has the documentation.
PluginsFor(s, r) == IF r = "synthesis" THEN {"ckb_docs"} ELSE s.plugins[r]
Sources == (UNION {PluginsOf(s) \cup s.sources : s \in Services}) \cup {"ckb_docs"}
Roles == (UNION {RolesOf(s) : s \in Services}) \cup {"synthesis"}
Keys == [process : Processes, job : Jobs]
NoKey == [process |-> "none", job |-> "none"]

NoRun == [phase |-> "idle", ok |-> [s \in Sources |-> 0], failed |-> 0]
NoJob == [stage |-> "none"]
\* roles -> (synthesis ->) judge -> sign (-> keygen) -> store (-> migrate) -> answered
Stages == {"roles", "judge", "sign", "keygen", "store", "migrate",
           "answered", "waiting", "error", "lost"}
Verdicts == {"none", "fulfilled", "fulfilled-with-evidence-gaps", "blocked"}
States ==
  {"none", "completed", "completed-with-evidence-gaps", "waiting-approval", "blocked"}

ServiceTypeOK ==
  /\ job \in [Jobs -> {NoJob} \cup
       [stage : Stages, service : Services, process : Processes, key : Keys \cup {NoKey},
        verdict : Verdicts, control : States]]
  /\ run \in [Jobs -> [Roles ->
       [phase : {"idle", "running", "answered", "waiting", "failed"},
        ok : [Sources -> 0..MaxCalls], failed : 0..MaxCalls]]]
  /\ identity \in Keys \cup {NoKey}
  /\ shelf \subseteq Jobs \cup Legacy /\ migrated \in BOOLEAN
  /\ crashes \in 0..MaxCrashes /\ raced \subseteq Jobs

Init ==
  /\ job = [j \in Jobs |-> NoJob]
  /\ run = [j \in Jobs |-> [r \in Roles |-> NoRun]]
  /\ identity = NoKey
  /\ shelf = {} /\ migrated = FALSE
  /\ crashes = 0 /\ raced = {}

At(j, stage) == job[j].stage = stage
\* These stretches run without an await: the process does nothing else meanwhile.
Free(j) ==
  \A k \in Jobs \ {j} :
    job[k].stage \in {"keygen", "migrate"} => job[k].process # job[j].process
Goto(j, stage) == job' = [job EXCEPT ![j].stage = stage]
durable == <<identity, shelf, migrated, crashes, raced>>

-----------------------------------------------------------------------------
(* The request and its runs.                                               *)

Agreements ==
  [service : Services, objective : {"asked", "other"}, terms : {"offered", "altered"},
   intact : BOOLEAN]

\* createAgentServiceAgreement.
AgreementFor(s) == [service |-> s, objective |-> "asked", terms |-> "offered", intact |-> TRUE]

\* verifyAgentServiceAgreement: the hashes fit, and the service, the objective, the
\* outcome and the policies are those of this request.
Agreed(a, s) == a.intact /\ a.service = s /\ a.objective = "asked" /\ a.terms = "offered"

Accepted(s, p) ==
  [stage |-> "roles", service |-> s, process |-> p, key |-> NoKey,
   verdict |-> "none", control |-> "none"]

\* runAgentService makes an agreement or checks the one it is given, and starts the
\* roles.
Request(j) ==
  /\ job[j] = NoJob
  /\ \E p \in Processes, s \in Wanted[j] : \E a \in Agreements \cup {AgreementFor(s)} :
       IF Agreed(a, s)
       THEN /\ job' = [job EXCEPT ![j] = Accepted(s, p)]
            /\ run' = [run EXCEPT ![j] =
                 [r \in Roles |-> IF r \in RolesOf(s) THEN [NoRun EXCEPT !.phase = "running"] ELSE NoRun]]
       ELSE /\ job' = [job EXCEPT ![j] = [Accepted(s, p) EXCEPT !.stage = "error"]]
            /\ UNCHANGED run
  /\ UNCHANGED durable

\* What the calls of a role may come to; a record names one of the role's plugins.
Records(s, r) ==
  {record \in [ok : [Sources -> 0..MaxCalls], failed : 0..MaxCalls] :
     /\ \A p \in Sources \ PluginsFor(s, r) : record.ok[p] = 0
     /\ MapThenSumSet(LAMBDA p : record.ok[p], Sources) + record.failed <= MaxCalls}

\* Only a tool of an MCP server may wait for an approval.
MayWait(s, r) == PluginsFor(s, r) \cap McpPlugins # {}

\* A role's run ends as a ToolRun does; its trace is read only then, and not at
\* all when it fails.
RoleEnds(j, r) ==
  /\ run[j][r].phase = "running"
  /\ \/ \E how \in {"answered"} \cup (IF MayWait(job[j].service, r) THEN {"waiting"} ELSE {}),
          record \in Records(job[j].service, r) :
          run' = [run EXCEPT ![j][r] = [phase |-> how, ok |-> record.ok, failed |-> record.failed]]
     \/ run' = [run EXCEPT ![j][r].phase = "failed"]
  /\ UNCHANGED <<job, durable>>

\* Mutant: a job fails once none of its runs succeeded.
FailsWithAll(j) ==
  /\ At(j, "roles")
  /\ \A r \in RolesOf(job[j].service) : run[j][r].phase = "failed"
  /\ Goto(j, "error")
  /\ UNCHANGED <<run, durable>>

\* Promise.all rejects with the first run that fails and leaves the others running.
JobFails(j) ==
  /\ At(j, "roles")
  /\ \E r \in Roles : run[j][r].phase = "failed"
  /\ Goto(j, "error")
  /\ UNCHANGED <<run, durable>>

Waits(j) == \E r \in Roles : run[j][r].phase = "waiting"
RolesDone(j) == \A r \in RolesOf(job[j].service) : run[j][r].phase \in {"answered", "waiting"}

\* The specialists are done and none of them waits: their reports are reconciled.
Synthesize(j) ==
  /\ At(j, "roles") /\ RolesDone(j) /\ ~Waits(j)
  /\ job[j].service.team /\ run[j]["synthesis"].phase = "idle"
  /\ run' = [run EXCEPT ![j]["synthesis"].phase = "running"]
  /\ UNCHANGED <<job, durable>>

-----------------------------------------------------------------------------
(* The judgement.                                                          *)

\* Mutant: the trace of a team is that of its last run.
LastTrace(j) ==
  IF job[j].service.team /\ ~Waits(j) THEN {"synthesis"} ELSE RolesOf(job[j].service)

\* The roles whose calls are the trace of the job.
TraceOf(j) ==
  RolesOf(job[j].service) \cup (IF job[j].service.team /\ ~Waits(j) THEN {"synthesis"} ELSE {})

Successes(j) ==
  MapThenSumSet(LAMBDA r : MapThenSumSet(LAMBDA p : run[j][r].ok[p], Sources), TraceOf(j))

Enough(j) == Successes(j) >= job[j].service.minimum
Sourced(j) ==
  \/ job[j].service.sources = {}
  \/ \E r \in TraceOf(j), p \in job[j].service.sources : run[j][r].ok[p] > 0
SomeFailed(j) == \E r \in TraceOf(j) : run[j][r].failed > 0

\* evaluateAgentServiceFulfillment.  A run that neither fails nor waits ends with a
\* text, so there is always an output.
Fulfillment(j) ==
  IF Waits(j) THEN "blocked"
  ELSE IF ~Enough(j) \/ ~Sourced(j) \/ SomeFailed(j) THEN "fulfilled-with-evidence-gaps"
  ELSE "fulfilled"

\* evaluateAgentWorkflow.
ControlState(j) ==
  IF Waits(j) THEN "waiting-approval"
  ELSE IF ~Enough(j) \/ ~Sourced(j) \/ SomeFailed(j) THEN "completed-with-evidence-gaps"
  ELSE "completed"

\* A job that waits is answered without a receipt.
Judge(j) ==
  /\ At(j, "roles") /\ RolesDone(j)
  /\ Waits(j) \/ ~job[j].service.team \/ run[j]["synthesis"].phase = "answered"
  /\ job' = [job EXCEPT ![j].verdict = Fulfillment(j), ![j].control = ControlState(j),
                        ![j].stage = IF Waits(j) THEN "waiting" ELSE "sign"]
  /\ UNCHANGED <<run, durable>>

-----------------------------------------------------------------------------
(* Identity, receipt and store.                                            *)

\* Mutant: a process makes a key of its own whether or not there is a file.
LoadNothing(j) ==
  /\ At(j, "sign")
  /\ Goto(j, "keygen")
  /\ UNCHANGED <<run, durable>>

\* loadOrCreateAgentServiceIdentity finds the file and signs, or finds none.
LoadIdentity(j) ==
  /\ At(j, "sign")
  /\ IF identity # NoKey
     THEN job' = [job EXCEPT ![j].key = identity, ![j].stage = "store"]
     ELSE Goto(j, "keygen")
  /\ UNCHANGED <<run, durable>>

\* The new key replaces whatever file there is by then, and signs.
CreateIdentity(j) ==
  /\ At(j, "keygen")
  /\ LET key == [process |-> job[j].process, job |-> j] IN
     /\ identity' = key
     /\ job' = [job EXCEPT ![j].key = key, ![j].stage = "store"]
     /\ raced' = LET makers == {k \in Jobs : At(k, "keygen")} IN
                 IF makers = {j} THEN raced ELSE raced \cup makers
  /\ UNCHANGED <<run, shelf, migrated, crashes>>

\* The file cannot be read, is not valid, or cannot be written.
SigningFails(j) ==
  /\ At(j, "sign") \/ At(j, "keygen")
  /\ Goto(j, "error")
  /\ UNCHANGED <<run, durable>>

\* recordAgentJob opens the store, which looks for the flag first.
OpenStore(j) ==
  /\ At(j, "store")
  /\ IF migrated THEN shelf' = shelf \cup {j} /\ Goto(j, "answered")
     ELSE Goto(j, "migrate") /\ UNCHANGED shelf
  /\ UNCHANGED <<run, identity, migrated, crashes, raced>>

\* Mutant: the flag is written before the rows.
FlagFirst(j) ==
  /\ At(j, "migrate")
  /\ migrated' = TRUE
  /\ \/ Goto(j, "store") /\ shelf' = shelf \cup Legacy
     \/ Goto(j, "error") /\ UNCHANGED shelf
  /\ UNCHANGED <<run, identity, crashes, raced>>

\* One transaction for the rows and the flag; another process may have done it
\* meanwhile.  When it fails the route fails, with the receipt signed.
MigrateLegacy(j) ==
  /\ At(j, "migrate")
  /\ \/ Goto(j, "store") /\ shelf' = shelf \cup Legacy /\ migrated' = TRUE
     \/ Goto(j, "error") /\ UNCHANGED <<shelf, migrated>>
  /\ UNCHANGED <<run, identity, crashes, raced>>

\* The insert fails: the caller gets an error for work that was done and signed.
StoreFails(j) ==
  /\ At(j, "store")
  /\ Goto(j, "error")
  /\ UNCHANGED <<run, durable>>

InProgress == {"roles", "sign", "keygen", "store", "migrate"}

\* A process stops: its requests get no answer and its runs end.
Crash(p) ==
  /\ crashes < MaxCrashes
  /\ LET lost == {j \in Jobs : job[j] # NoJob /\ job[j].process = p} IN
     /\ \E j \in lost : job[j].stage \in InProgress
     /\ job' = [j \in Jobs |-> IF j \in lost /\ job[j].stage \in InProgress
                               THEN [job[j] EXCEPT !.stage = "lost"] ELSE job[j]]
     /\ run' = [j \in Jobs |-> [r \in Roles |->
          IF j \in lost /\ run[j][r].phase = "running" THEN NoRun ELSE run[j][r]]]
  /\ crashes' = crashes + 1
  /\ UNCHANGED <<identity, shelf, migrated, raced>>

-----------------------------------------------------------------------------
JobStep(j) ==
  /\ job[j] # NoJob /\ Free(j)
  /\ \/ JobFails(j) \/ Synthesize(j) \/ Judge(j) \/ LoadIdentity(j) \/ CreateIdentity(j)
     \/ OpenStore(j) \/ MigrateLegacy(j) \/ SigningFails(j) \/ StoreFails(j)

Next ==
  \/ \E j \in Jobs : Request(j) \/ JobStep(j) \/ \E r \in Roles : RoleEnds(j, r)
  \/ \E p \in Processes : Crash(p)

\* A run ends because its calls time out and its steps are bounded; the rest of a
\* job does not wait for anything outside.
Spec ==
  /\ Init /\ [][Next]_vars
  /\ \A j \in Jobs : WF_vars(JobStep(j)) /\ \A r \in Roles : WF_vars(RoleEnds(j, r))

-----------------------------------------------------------------------------
(* Properties                                                              *)

Judged(j) == job[j] # NoJob /\ job[j].verdict # "none"
Everyone(j) == RolesOf(job[j].service) \cup (IF job[j].service.team THEN {"synthesis"} ELSE {})

\* A job is called fulfilled only when all its runs came to an answer without a
\* failed call and with the evidence its service demands; the judgement of the
\* fulfilment and that of the workflow agree; and no job that waits for an
\* approval gets a receipt.
VerdictsEarned ==
  \A j \in Jobs : Judged(j) =>
    /\ job[j].verdict = "fulfilled" =>
         /\ \A r \in Everyone(j) : run[j][r].phase = "answered" /\ run[j][r].failed = 0
         /\ \E r \in Everyone(j), p \in job[j].service.sources : run[j][r].ok[p] > 0
    /\ job[j].verdict = "fulfilled" <=> job[j].control = "completed"
    /\ job[j].verdict = "blocked" <=> job[j].control = "waiting-approval"
    /\ Waits(j) => job[j].key = NoKey

\* A job whose caller was given an id is in the store, under a signed receipt, and
\* once the older ledger counts as taken over all its jobs are there too, whatever
\* fails or stops on the way.
JobsKept ==
  /\ \A j \in Jobs : At(j, "answered") => j \in shelf
  /\ \A j \in shelf \cap Jobs : job[j].key # NoKey
  /\ migrated => Legacy \subseteq shelf

\* Receipts of one data directory carry the key of the identity file, unless theirs
\* was made by a process while another that had found no file either made its own.
IdentitySplitOnlyByRace ==
  \A j \in Jobs :
    job[j] # NoJob => job[j].key \in {NoKey, identity} \/ job[j].key.job \in raced

Settled(j) ==
  job[j].stage \notin InProgress /\ \A r \in Roles : run[j][r].phase # "running"

\* Every job ends, and none leaves an agent running for ever, also when one
\* specialist fails while the others are at work.
EveryJobSettles ==
  \A j \in Jobs : ~Settled(j) ~> Settled(j)

=============================================================================
