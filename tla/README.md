# A verification of the CKB credential workspace

This directory holds TLA+ models of the program in this repository, the TLC
runs that check them on small instances, and proofs checked by TLAPS. The
program issues signed credentials, records each of them on CKB as a 75-byte
cell guarded by a Type Script, keeps a ledger file and a product database
beside the chain, and answers public questions about what it issued.

Paths below are relative to the repository root (`src/` of this tree): for
instance `src/ckb/local-chain.js` is `src/src/ckb/local-chain.js` here.

## 1. Inventory

### 1.1 Components

**Credential-revocation Type Script**
(`digital-credentials-workspace/contracts/credential-revocation/src/main.rs`).
A Rust script the node runs for every group of cells with the same type args.
State: none of its own; it guards the record cells, which are the state.
Operations: registration (no input, one output), update (one input, one
output); destruction and every other count are refused. It looks at all inputs
of the transaction for the issuer's lock, at the lock and the data of the group's
cells, and compares version, status, credential hash, issuer, reason and time.
Hard: what a record can become depends on what every accepted transaction before
left of its cell, its lock and its fields. Correct when: live records are canonical; nobody
but the issuer writes; ACTIVE can become REVOKED and nothing else; no record is
destroyed, split or merged; nothing can freeze an ACTIVE record.

**Chain client** (`src/ckb/local-chain.js`, `src/ckb/record-inspection.js`).
State: none in memory between calls; it reads the node's index and sends
transactions. Operations: `createActiveRecord`, `revokeRecord`,
`inspectRecord`. Each is a chain of awaits: search, complete, send, wait. Hard:
the index lags; another process may be in the same call; `waitTransaction`
times out although the transaction may commit; the process may stop anywhere.
Correct when: a success is true and stays true; a status never regresses;
duplicates cannot arise from one process alone; every call returns.

**Submission review** (`src/lib/product-db.js`, `src/lib/issuer-http.js`,
`src/lib/inspector-http.js`). State: the `submissions` row (status, issued
credential, AI evidence) and its status events in SQLite. Operations: an
applicant creates, resubmits and cancels through the inspector process; a
reviewer checks, analyses, approves, asks for changes and rejects through the
issuer portal, which also issues the credential of an approved submission.
Hard: handlers of one process interleave at awaits; two processes interleave at
SQL statements; a review decides on a row read before its body was awaited; any
statement may throw, those of the catch block included.
Correct when: the row follows the lifecycle; one submission gives one
credential; the row, the timeline and the ledger tell the same.

**Issuing and revoking workflow** (`src/lib/issuer-http.js`,
`src/lib/credential-service.js`, `src/lib/ledger.js`, `src/cli/mint-degree.js`,
`src/cli/revoke-degree.js`). State: `ledger.json`, record and binary files, rows
of the `operations` table, and the chain. Operations: the portal changes the
chain first and then the ledger; the command line tools change the ledger only.
Hard: the ledger is loaded and saved whole by several processes; a revocation
rolls back by saving an old whole copy; the chain call can fail for a transaction
that commits later; crashes leave the steps half done. Correct when: the ledger
never claims more than the chain; operations rows claim only what happened; only
the rollback of a revocation takes anything back.

**Public inspector and credential verification** (`src/lib/public-inspector.js`,
`verifyCredentialInternal` of `src/lib/credential-service.js`,
`src/lib/proof-verifier.js`). Reads the ledger, then awaits the chain client,
then compares both. Hard: the two reads are not one. Correct when: it never
vouches for a credential the ledger or the index had revoked before it was
asked, nor reports one as revoked that is not, nor a contradiction without a cause.

**Submission attachments** (`src/lib/attachment-service.js`). Files on disk and
rows in the database, ten per submission. Hard: file, row and event are written by
three steps, each of which can throw; the status of the submission may change under
an upload; the audit reads rows and files at different times. Correct when: the
limit holds; rows have their files; the files of a submission stay while it is closed; an
audit reports what is there.

**Inspector HTTP server** (`src/lib/inspector-http.js`). About forty routes: each
counts the request with the limiter, looks at the switch of the deployment, reads a
body if it has one, and answers at once or after awaiting a provider, a node or a
chain. State: the limiter's Map of buckets (start, count), the requests under way,
the temporary copy of a document that `/api/inspect` is given. Hard: fixed windows;
the order in which buckets are dropped; routes that share a count; every way a
request can end. Correct when: any span of one window admits less than twice the
limit, to the AI routes all together; nobody is forgotten without need; the
temporary copy goes however the inspection ends.

**Issuer portal: sessions, bulk requests, announcements** (`src/lib/issuer-http.js`,
`src/lib/session-auth.js`) and **webhook delivery** (`src/lib/webhook-service.js`). State: the signed
cookie, the rows and audit events a call writes, one delivery row PENDING, DELIVERED or
FAILED per announcement. Hard: the announcement follows the work and precedes the
answer, so that its failure is answered as an error for work that was done; so are
the statements that follow the work; a crash between the row and its settlement; a
bulk request inserts its items one by one.
Correct when: what is announced was done; who is told of success has it; every
error for work that stands is one of the known cases.

**Agent runtime, plugins and MCP client** (`src/lib/ai-service.js`,
`src/lib/plugin-service.js`, `src/lib/mcp-client.js`). State of one run: the tools
found, the provider turn, the calls of it, the trace returned as audit. Operations:
discover, ask the provider, execute or refuse a call, ask for an approval, call a
server over the current protocol and again over the older one. Hard: what a
budget counts; what an approval admits when the task is run again; tools that share a
name; a server that performs a call and answers with an error, or answers and has not
performed it. Correct when: every performance is in the audit; nothing is performed that needed an approval and
had none; the provider gets its replies; every run ends.

**Agent services: workflow control, teams, identity, job store**
(`src/lib/agent-commerce-service.js`, `src/lib/agent-workflow-service.js`,
`src/lib/agent-identity.js`, `src/lib/agent-job-store.js`, the catalog of
`src/lib/application-service.js`). State: the runs of a job's roles, one identity
file, the rows of the store and its migration flag. Operations: agree, run one
agent or a team and its synthesis, judge, sign, store. Hard: specialists run
side by side and the first failure answers the caller; the identity is checked and then
created; an older ledger is taken over once; processes share the directory and crash.
Correct when: a verdict is earned by evidence; a job that was answered is stored;
receipts carry one key but for the known race; every job settles.

**Browser console** (`public/app.js`). State: the buttons disabled, what each
panel shows, the tracking fields, the selected service, the jobs remembered.
Operations: a handler per button or form. Hard: handlers overlap at awaits and read
inputs again after them. Correct when: an answer is about what was asked; an older
answer replaces a newer one only where handlers may overlap; forms come back.

**Transaction builder and preflight** (`src/lib/agent-ops-service.js`). Pure:
selects cells and computes change for one request. Hard: sums at boundaries. Not
modelled, see section 6.

**Not to be modelled**: environment parsing, directory, passport, certificates
and QR codes, document inspection, the learning centre, backups, the
administrator's page (`issuer-public/app.js`), the rendering of pages, and set-up
scripts. They are formatting, or read-only views, and keep no state of their own.

### 1.2 How they interact

* Issuer portal -> chain client -> node -> Type Script: a call chain of awaits.
* Issuer portal and command line tools -> ledger: shared file, no lock.
* Issuer portal and inspector -> database: shared SQLite file, no transaction
  around a read and the write that depends on it.
* Public inspector -> ledger, then chain client.
* Inspector routes -> agent services -> agent runs -> AI providers and MCP servers:
  awaited calls with timeouts.
* Several server processes -> identity file and job store of one data directory.
* Issuer portal -> webhook endpoint, awaited before the portal answers.
* Browser console -> inspector routes; the user's clicks overlap.

## 2. Modules

| module | models | state | actions |
| --- | --- | --- | --- |
| `RevocationScript` | the Type Script and the JavaScript reader of a record | none: operators | - |
| `CellLineage` | what the registry promises of one registration (abstract) | `lineage` | `Registered`, `Revoked` |
| `CellRegistry` | the chain as far as registry cells go | `cell`, `live` | `Commit` |
| `ChainClient` | `createActiveRecord`, `revokeRecord`, `inspectRecord`, index, pool | `indexed`, `pool`, one call per process | one per await |
| `SubmissionReview` | the submissions table under its two processes | `row`, `timeline`, `issued`, one request per handler | one per await or statement |
| `IssuerWorkflow` | the two sagas over chain, ledger, files, operations rows | `ledger`, `artifacts`, `chain`, `inflight`, `operation`, one job per worker | one per await or file operation |
| `PublicInspector` | an inspection over `IssuerWorkflow`'s ledger and chain | `indexed`, `inspection`, `report` | `Inspect`, `Report`, `UpdateIndex`, `IssuerStep` |
| `AttachmentStore` | rows and files of one submission, and their audit | `status`, `rows`, `file`, one request per handler, `audit` | one per file operation or statement |
| `AgentCatalog` | the tables of plugins, tools, missions and services | none: operators and assumptions | - |
| `ToolRun` | what an agent run promises its callers (abstract) | `phase`, `ok`, `failed`, `executed` | `Start`, `Succeed`, `FailCall`, `End` |
| `AgentRun` | `runCkbAgent`, its tools, approvals and MCP calls | `phase`, `stage`, `registry`, `turn`, `call`, `trace`, the request | one per call awaited or dealt with |
| `AgentService` | jobs of agent services on several processes | `job`, one `run` per role, `identity`, `shelf`, `migrated` | one per stretch between awaits |
| `RateLimiter` | the Map of buckets of both limiters | `now`, `buckets`, `bucket`, `requests` | `Request`, `Restart`, `Tick` |
| `InspectorGate` | the inspector's routes over the limiter | the limiter's, `open`, `documents` | `Arrive`, `BodyEnds`, `WorkEnds`, `Restart` |
| `IssuerPortal` | an administrator's calls, their sessions and announcements | `cookie`, `call`, `rows`, `audited`, `row`, `heard` | one per await or statement that counts |
| `Console` | the handlers of the browser console | `task`, `busy`, `shown`, `field`, `chosen`, `jobs` | `Click`, one per answer, the user's edits |
| `ChainClient_proofs` | proofs about `CellRegistry` and `ChainClient` | | |
| `IssuerWorkflow_proofs` | proofs about `IssuerWorkflow` and `PublicInspector` | | |
| `PublicSite_proofs` | proofs about `InspectorGate`, with its limiter, and `Console` | | |
| `SubmissionReview_proofs`, `AttachmentStore_proofs`, `IssuerPortal_proofs`, `AgentRun_proofs`, `AgentService_proofs` | proofs about the module each is named after | | |
| `MC...` | instances for TLC | | |

`ChainClient` EXTENDS `CellRegistry`, which EXTENDS `RevocationScript`;
`CellRegistry` refines `CellLineage` through `INSTANCE ... WITH`.
`IssuerWorkflow` keeps of the chain only one mark per credential, the one
`ChainClient` shows to be what a call may rely on, and of `ChainClient`'s calls
only their ends: sent, landed, returned, thrown. `PublicInspector` EXTENDS
`IssuerWorkflow` and composes its steps with those of inspections.
`AgentRun` refines `ToolRun`; `AgentService`, which EXTENDS `AgentCatalog`, takes the
runs of its roles as `ToolRun` describes them, so that the two compose.
`InspectorGate` takes the limiter with `INSTANCE RateLimiter`, a client of which is
an address with the key of a route.

### 2.1 RevocationScript and CellRegistry

`ScriptResult` is `validate_transaction`, in the order of its checks, returning
the error it exits with. `CommonResult`, `CreationResult`, `UpdateResult`,
`Authorized`, `GroupLocked`, `Decodable`, `IsEmpty`, `IsSingle` are the functions
it calls. Hashes are members of small sets; data that is not 75 bytes is the one
value `Malformed`, args that are not 32 bytes the value `ShortArgs`. A cell group
is a function from out-points, so that two equal cells count as two.

`CellRegistry` is the node: `Commit(tx)` takes any transaction over registry
cells whose inputs are live, whose payers are any wallets, and whose groups the
script accepts. Every output a candidate set names can be tried, well-formed or not. Two ghost
variables remember which registration a cell descends from (`root`) and
which wallets unlocked the inputs of the transaction that made it (`signers`).

### 2.2 ChainClient

A process is `idle`, in `search`, in `build` (between the search that let it go
on and the broadcast) or in `wait`. The node admits, commits or drops pooled
transactions and updates its index when it likes. A call ends by reporting a
status, by refusing, by failing (error, rejection or timeout, the transaction
possibly still in the pool) or by a crash. `Send` gives the output an out-point no
transaction in the pool has and nobody still waits for: an out-point names its
transaction, also one that was dropped. `raced` is a ghost: the credentials
whose existence check ran while another creation was under way or not indexed.

### 2.3 SubmissionReview

The portal and the inspector are two single-threaded processes. A handler that
is in a stage of `Awaiting` (body, evidence, chain) may be overtaken by other
handlers of its process; one in a stage of `Running` may not (`ThreadFree`), but
the other process may act, for only single SQL statements are atomic.
`updateSubmission` is three of them: the read of the row before
(`ReadBefore`), the update (`Update`) and the event (`RecordEvent`). A review
keeps the row it read before its body (`seen`) and decides by it. Credential
ids are the numbers of the requests that issue them. `disturbed` is a ghost: the
submissions on which handlers overlapped or were interrupted by a crash.

Any statement may throw (`StatementThrows`), and so may every call of
`issueSubmission`: `Issue`, `ChainReturns`, `Persist`, which may have saved the ledger
already, and `Record`, the profile and the audit. Inside its try block they lead to
the catch block, `Report`, where marking the operation may throw as well and end
the handler before ISSUE_FAILED is written. A failed event of ISSUED is also caught and
has ISSUE_FAILED written over it; a failed event of APPROVED ends the handler before
anything is issued. Two ghosts say what this leaves: `failures` counts what threw while
a submission was issued, up to two, and `unlogged` holds the submissions whose latest
change of status has no event. One failure leaves a credential reported, a second in
the catch block may not, which is what `CredentialAccountedFor` says.

### 2.4 IssuerWorkflow

A worker is a portal request or a command line process, its job at `chain`,
`sent`, `landed`, `load`, `save`, `files` or `rollback`; the last four run
without an await, so no other portal handler runs between them, while other
processes do. `copy` is the ledger a job has loaded. Every file operation can
throw; the portal then records FAILED. A revocation saves the old copy back on
any failure, and that may fail too. Ghosts: `collided` (some process loaded the ledger
while another was between its load and its last save), `offline` (credentials a
command line tool worked on) and `torn` (credentials with a failed or
interrupted job).

### 2.5 PublicInspector

`Inspect` is the synchronous part of `inspectPublicCredential`: the ledger entry
is verified, then the handler suspends for the chain. `Report` resumes it with
any of `ChainAnswers`: the status the index shows then, a conflict (a second record
made by another process, see `ChainClient`), or an error. `Verify` is what
`verifyCredentialInternal` concludes; of its many checks the model keeps what
they tell apart: no entry, a sound entry, an entry that fails a check
(`damaged`), one set back to ACTIVE beside its signed revocation (`reactivated`),
and the three outcomes of the document check. `CompareStates` and `SelectOutcome`
are the functions of these names. `INVALID_RECORD` is not among the answers, for
`LiveRecordsCanonical` rules it out for a record of the script. Ghosts: `held` and
`before` (what ledger and index really said when the inspection began), `moved`
(a job on the credential ran during the inspection).

### 2.6 AttachmentStore

A request waits for its body, then `Check` reads the submission and counts its
rows, and the handler runs to its end: `WriteFile`, `InsertRow`, `RecordAdded`, with
`Undo` as the clean-up of a failed insertion, or `DeleteRow`, `RecordRemoved`,
`Unlink`. Handlers of the inspector exclude each other (`ThreadFree`); `Decide` and `Issue`
are the portal. A review decides by the row it read before its body, and any number of
them can have read SUBMITTED, so that `Decide` has no guard on the status there is:
it may close a submission, overwrite CANCELLED or APPROVED, or open a closed one again. `Issue`
is the end of an approval, ISSUED or ISSUE_FAILED. `BeginChange` and `WriteChange` are
resubmission and cancelling, two statements of the inspector's thread. `StartAudit`, `AuditRow`, `AuditOpen`, `Walk` are the audit. Portal and audit act between any two steps. One submission is modelled: two share nothing but the audit, which treats
attachments one by one. Ghosts: `unlogged`, `interrupted` (uploads whose event failed,
requests that left something half way), `decidedOn` and `late` (the rows when
the submission was closed, and what was being worked on then), `moved`.

### 2.7 AgentCatalog, ToolRun and AgentRun

`AgentCatalog` holds the tables of the code as tables: which plugin gives which
tools and what a deployment has to configure for it, what each mission and service may use,
and what evidence a service demands. Three assumptions about them are evaluated by run
`service`: `ToolNamesDiffer` (no two built-in tools share a name), `MissionsWork` (a
mission called ready has a plugin that works) and `PoliciesCanBeMet` (a service
called ready can meet its own evidence policy), for every subset of the settings.

`AgentRun` is one task of the form: `Submit` starts `runCkbAgent`; `Discover`
adds the tools of the next plugin, in order; `StartTurn`, `ProviderCalls` and
`ProviderEnds` are a turn of the provider, whose calls are then dealt with one by one by
`NextCall`. The same name may be registered twice: `Registered` is the last, which is
executed, `Described` the first, which the audit names. A call to a server goes
through `CurrentProtocol` and, after an HTTP error, `OpenSession` and
`LegacyProtocol`; at each the server may have performed the call or not, also when it
gives a result: any JSON-RPC result is traced as ok (`Answered`), one that asks for input and
one that says the tool failed included, for `callMcpTool` computes `inputRequired` and its
caller drops it. Hence an entry of the audit is no proof of a performance; `WorkRecorded` says
the converse, that no performance is without an entry.
`AwaitApproval` ends the run, and `Confirm` is the form starting all of it
again with the operation approved. Ghosts: `performed`, how often tools really
performed an operation, and `confirmed`, what the user agreed to. The
refinement (`Abstract`) maps the trace to counts, which are sums over the operations:
`Successes` of every source, `Failures`, and `Executed`, the calls let through. Callers
(`AgentService`, the audit shown to the user) see no more.

### 2.8 AgentService

A job goes through `roles`, `sign`, `keygen`, `store`, `migrate` to `answered`, or
ends as `waiting` for an approval, in `error`, or `lost` in a crash. `Request` is
`runAgentService` up to the start of the roles, with the check of an agreement that
may have been altered. `RoleEnds` is any end `ToolRun` allows. `JobFails` leaves the
other roles running, as `Promise.all` does. `Judge` is the fulfilment and the workflow
evaluation. `LoadIdentity` and `CreateIdentity` are the check and the creation of the
key, either of which may fail (`SigningFails`), `OpenStore` and `MigrateLegacy` the flag and the transaction; the synchronous stretches
exclude other jobs of the same process (`Free`), not of others. `raced` is a ghost: the jobs
that made a key while another process made one. A receipt whose key is not the one on disk
carries the key of a job in `raced`: any number of jobs may have signed with it before it was
replaced.

### 2.9 RateLimiter and InspectorGate

A limiter call is synchronous, hence one action: `Start` a bucket or `Count` into
one. `place` is the position of a bucket in the Map, which a bucket set anew keeps;
`Kept` is the pruning: expired buckets first, then those in front. Ghosts:
`admissions` and `forgotten`. `Routes` is the table of routes: limiter key, switch, body and kind of
answer of each; a request `Arrive`s, its body ends, its work ends. `left` is a ghost: the
files a restart left behind. `RateLimiter` describes the sign-in limiter as well,
whose code is the same but for the limit (8), the window (ten minutes) and the bound on buckets (5000).

### 2.10 IssuerPortal

A call goes through `work`, `audit`, `lookup`, `post`, `settle`, `reply` to `over`, or is
`lost` in a crash; what is not announced goes from `audit` to `reply`. `Begin` looks at the
session, once. `Bulk` and `Work` make the effect (`Effect`), whose detail is that of
`SubmissionReview` and `IssuerWorkflow`: the rows of a bulk request, the status a decision
writes, the ledger. `Audit` stands for all that follows it up to the audit event: the event
of the status, the operation, the artifacts and the profile. `Lookup`, `Receive`, `Deliver` and
`Settle` are `deliverWebhook` and the endpoint, `Reply` the answer. Each of these may
throw (`Throw`): the answer is an error though the effect stands, and `Settle` leaves its row
PENDING. `threw` is a ghost, the calls this happened to; `heard` is what the endpoint received.

### 2.11 Console

A control has what it disables (`lock`), the panel it writes, what its handler does (`flow`) and
the requests it makes before it reads the tracked submission again (`acts`). `Click`
starts a handler, which runs through `act` and `agree` to `last` and is `over`
after `Show`, `ApprovalAsked` or `Fails`. `EditTracking` and `SelectService` are
what the user may change meanwhile. `Released` is where the code is subtle: a form's
handler keeps `event.submitter` in a variable, while a click's handler reads
`event.currentTarget` again after an await, when it is null, so that its button
stays disabled until the page is reloaded. The page's `PageInit`, `PageNext` and `PageSpec`
have names of their own, so that the proofs may speak of page and server in one module.

## 3. Runs

| run | bounds | shows |
| --- | --- | --- |
| `registry` | 2 wallets, 2 credentials, 4 out-points, every candidate output of `MCOutputCells` | `LiveRecordsCanonical`, `WrittenByIssuer`, `ActiveRecordsRevocable`, `OneLiveCellPerRegistration`, `RegistryImplementsLineage` |
| `chain_client` | 2 processes, 1 credential, 3 out-points, 2 attempts, reason codes 0 and 1 | `ReportsAreTrue`, `DuplicatesOnlyByRace`, `StatusNeverRegresses`, `EveryCallReturns` under fairness |
| `review` | 1 submission, 2 portal and 1 inspector request at a time, 5 requests, chain on, failures counted up to 2 | `DoubleIssueOnlyByOverlap`, `CredentialAccountedFor`, `TimelineAgrees` |
| `review_double` | 3 requests, chain on | violation of "This submission already has an issued credential." |
| `issuer` | 2 portal requests, 1 command line process, 2 credentials, 3 jobs, 1 inspection, chain on | `LedgerNeverAheadOfChain`, `ChainAndLedgerAgree`, `OperationsTellTheTruth`, `OnlyOwnRollbackLowers`, `VouchesForActiveOnly`, `ContradictionsExplained` |
| `attachments` | 2 handlers, 3 requests, a limit of 2, any number of decisions and issuances | `LimitKept`, `RowsReadable`, `OrphansExplained`, `ClosedSetKept`, `AuditTrue` |
| `attachments_editable` | 2 requests | violation of "only while the submission is `SUBMITTED` or `CHANGES_REQUESTED`" |
| `agent` | 1 built-in plugin and 1 MCP server with tools of one name, 1 or 2 steps, a budget of 1, turns of 2 calls, 1 task run up to twice | `WorkRecorded`, `NothingUnapproved`, `RepliesMatchCalls`, `RunImplementsToolRun`, `EveryRunEnds` |
| `service` | 2 jobs, 2 processes, a team of two and a community service, 1 recorded call per role, 1 crash | `VerdictsEarned`, `JobsKept`, `IdentitySplitOnlyByRace`, `EveryJobSettles`, and the assumptions of `AgentCatalog` |
| `gate` | 1 address, 4 routes, a limit of 2, 2 buckets, 3 instants, 5 requests, 2 open at once, 1 restart | `AdmissionsBounded`, `ForgottenOnlyWhenFull`, `DocumentsRemoved` |
| `portal` | 2 calls, bulk requests of 2, a session of 1 tick, 3 instants, 1 crash, a webhook, any statement may throw | `AnnouncedIsDone`, `AnswersExplained` |
| `console` | 7 controls, 2 services, 3 clicks, 1 remembered job | `AnswersFitTheirRequest`, `OlderOnlyWhereShared`, `FormsComeBack` |

Why the bounds are enough. *registry*: two wallets are one issuer and one other
party, in both roles; four out-points hold two registrations and their
revocations, or one registration and three more attempts; a transaction may
carry the groups of both issuers. *chain_client*: every race needs two
processes and one credential; three out-points allow a duplicate and one
revocation; reason code 0 is the one the script refuses; two attempts are the
least with a retry. *review*: a double issue needs two overlapping reviews; five
requests are create, ask for changes, resubmit and two more; statements throw without a
bound, and `failures` stops at two because the property asks for no more. *issuer*: two
portal requests and one foreign process give both kinds of interleaving; two
credentials show what whole-file saves do to a bystander; three jobs issue and
revoke one beside a job on the other; inspections are read-only and
do not meet. *attachments*: three uploads pass a limit of two by one; two uploads
and a removal leave rows and files of every kind for an audit; decisions and issuances are
not counted, so that a status may be overwritten any number of times. *agent*: a turn of
two calls exceeds a budget of one; two steps are a call after an answer to another;
the server offers its two tools of one name in both orders, one of them read-only, and a blocked
tool that lies beyond the list described. *service*: a split identity needs two
processes, a stray role a team of two; the crash may fall between any two steps.
*gate*: five requests are two windows' worth of one count and one more; three keys and two
buckets drop one; the routes are two of one count, one with a document and one
without a body. *portal*: a session of one tick expires between two calls; two items
fail in the middle; two calls of every kind overlap. *console*: a handler that is overtaken
needs two clicks, a job that is reopened after another three; there is one control or two of
each lock and flow.

Deadlock is checked in `chain_client` and `portal`, and not in the others, where
out-points, requests, jobs, tasks or clicks run out. Symmetry is used in `review`, `issuer` and
`attachments`, which check no liveness.

### 3.1 What the violations say

* `review_double`: the review handler reads the row, awaits the body, and tests
  the status it read. Two approvals in flight both pass; each writes APPROVED and
  then re-reads the row, so the guard against ISSUED never fires. The ledger ends
  with two credentials for one submission. `DoubleIssueOnlyByOverlap` shows that
  overlap, or an interruption, is needed.
* `attachments_editable`: the inspector checks the status and inserts the row in two
  statements, with the writing of the file between them, and the portal may
  approve the submission there. `ClosedSetKept` bounds the damage: while the submission
  is closed, only the attachment being worked on when it was closed can change the set.

## 4. Fairness

* `FairClientSpec`: weak fairness of a process inside a call. Its searches are
  bounded loops, RPC calls answer or fail, and `waitTransaction` has a timeout
  of its own: in every stage some step of the process stays enabled. Nothing is
  assumed of the node: transactions may never commit, the index may never move.
* `AgentRun`: weak fairness of a run's step. Every call to a provider or a
  server is given up after its timeout, and turns and steps are counted; the user's
  submissions and approvals are not fair.
* `AgentService`: weak fairness of each job's own step and of each role's end, which
  is `EveryRunEnds` of `AgentRun`. Crashes and requests are not fair.
* `Console`: weak fairness of each handler: the inspector answers a request or the
  connection fails. Nothing is assumed of the user, who may never accept an
  agreement: the dialog blocks the page, and declining it is a step too.

The other specifications state no fairness: their properties are safety.

## 5. Proofs

Each theorem holds for every value of the constants, under the named assumptions
of the modules, which TLC evaluates in the runs. Every proof has the same form: an
inductive invariant, a lemma that the initial states have it, one lemma per action
or kind of action that keeps it, and theorems that read the properties off it.

### 5.1 CellRegistry (in `ChainClient_proofs`)

For every set of wallets, credentials, out-points and candidate outputs (the special
values distinct from the ordinary ones, candidate outputs cells): `TypeCorrect`,
`RecordsCanonical`, `OnlyIssuersWrite`, `RegistrationsNeverLost`, `NeverFrozen` and
`Implementation` (`Spec => RegistryImplementsLineage`), which is all of run `registry`.

The inductive invariant `IInv` adds `RootInv` to the properties: `root` is a one-to-one
correspondence between registrations and live cells. The argument: `GroupAccepted`
says what an accepted group is; `OutputAccepted` and `InputContinued` lift it to a
transaction (an output has at most one predecessor and no twin, an input exactly
one successor); `CommitValues` says what the variables hold afterwards; from these
`TypeStep`, `CanonicalStep` and `RootStep` preserve the parts. `CommitInvariant` says it of any
well-formed transaction (`WellFormed`), so that it serves the clients' transactions,
too. For the refinement, `ViewFact` says that the abstract value of a registration is the
statement of its one live cell, which makes each transaction a set of registrations and
revocations of the abstract specification. `NeverFrozen` runs the script the other way:
`RevocationAccepted` shows that a canonical ACTIVE record passes every check of an update
that revokes it, so that no history of accepted transactions leads to one that cannot be revoked.

### 5.2 ChainClient (in `ChainClient_proofs`)

For any number of processes, searches and reason codes: `ClientTypeCorrect`,
`ReportsStayTrue`, `RacesExplainDuplicates`, the action property `StatusMovesForward`, and
`ClientImplementsLineage`: what the clients send is what the registry allows, hence
`CellLineage` holds under them. `ClientInv` adds to the registry's invariant

* `PoolInv`: a pooled transaction registers a credential or revokes one of its records;
* `ProcessInv`: a waiting process watches an out-point only its own transaction can create
  (`Watching`), and what a call reported is so on the chain;
* `RaceInv`: a credential that never raced passes from one process that builds to one
  transaction to one record (`Alone`);
* `IndexInv`: the index shows a status the chain has gone through, by the order `MayFollow`.

A commit is first reduced to its `Effect` on the records of one credential; `StatusStep`
then says that every effect moves statuses forward, and the index follows by transitivity.

### 5.3 IssuerWorkflow and PublicInspector (in `IssuerWorkflow_proofs`)

For every set of credentials, portal requests and command line processes (the two
kinds of process disjoint): `TypeCorrect`, `LedgerBehindChain`, `OperationsCorrect`,
`LedgerAgreesWithChain` and the action property `LoweringIsRollback`.
`LedgerNeverAheadOfChain` is not inductive: a job may save an old copy of the whole ledger, so
`CopyInv` asks the same of every copy; and a save is only safe because the chain transaction of
its credential has committed, which `ChainInv` tracks from stage to stage.
`WriteInv` holds until two processes collide: one job writes at a time, its copy
is the ledger but for its own credential, and no row reports a revocation that
may still be rolled back. `JobsInv` ties jobs to operations rows. Each part has
one lemma (`TypeStep`, `JobsStep`, `ChainStep`, `CopyStep`, `WriteStep`) with one
step per action. `AgreeInv` says of every credential without a failed, interrupted or offline
job (`Fresh`) where its ledger entry and its chain mark stand at each stage of the job on it:
they differ only from the commit to the save.

For inspections in any number: `InspectorTypeCorrect`, `VouchersEarned`,
`ContradictionsHaveCauses`. `InspectorInv` adds what an inspection knows between its two
reads (`Knows`): the index only moved forward, and if no job on the credential was seen, the
entry is still as it was read; a report that contradicts the chain then contradicts `Fresh`, unless
one of the causes is there.

### 5.4 SubmissionReview

For any submissions, handlers, crashes and failures: `TypeCorrect`, `SecondIssueExplained`,
`CredentialReported`, `TimelineTrue`. The invariant is about each submission on which no handlers
overlapped and none was interrupted (`Calm`): at most one handler is at work on it; with none
(`Settled`) the row says how the issuance ended unless two calls of it threw, and the timeline
agrees with it unless its last event was lost; with one (`Busy`) its stage says by which
statement row and timeline differ, what it read is what the row holds, and a credential exists only
when the row, or the patch about to be written, says how the issuance ended, the first
failure being counted by the time the catch block runs.

### 5.5 AttachmentStore

The type invariant and every invariant of run `attachments` for any number of handlers and
requests and any limit. The inductive invariant adds to
them that one handler runs at a time and what it knows of its attachment
(`HandlersInv`), that one about to insert has counted fewer rows than the limit
(`LimitInv`), that what runs on a closed submission ran when it was closed
(`ClosedInv`), which a decision that overwrites another leaves as it is, and what the parts of an unfinished audit say (`AuditInv`). `Frame`
carries the proofs: rows and files change only where a handler is at work.

### 5.6 InspectorGate and Console (in `PublicSite_proofs`)

For any addresses, routes served, limit, window, number of buckets and of restarts: `TypeCorrect`,
`RequestsBounded`, `FilesGo` and the action property `ForgettingHasCause`.
The bound of twice the limit speaks of every span of a window, while the code has one
bucket, so the invariant relates the two. `BucketInv`: a bucket began with an admission, and one
that is gone had expired or its loss is noted. `CountInv` bounds the admissions of every
span by the bucket that is there now (`Bound`): if it started before the span, one of its requests
lies outside, hence less than the limit; if within, the bucket before it had started before the
span, hence less than the limit and what this one counts. That a client's
loss is always noted needs that a bucket set for the first time is at the end of the Map and
stays there (`KeptFacts`), whereas one that is started again keeps its place and may go at once.

For any controls of the page in use, services, and number of clicks: `ConsoleTypeCorrect`,
`AnswersFit` and the action property `OlderAnswers`. Neither property is inductive: what a panel
shows was decided steps earlier. In `PageInv`, `Follows` says of every handler where the subject it
was started for is at each stage: in the tracking fields, or in the request that is on its way,
unless the handler's fields were written by somebody (`moved`); the handler that creates a
submission knows its own number until the first answer puts it there. `ShownInv` carries this
over to the panels once the handler is over. `LockInv` says that a handler which is not over keeps
its control disabled and that no later handler has the same control: an older answer in a panel of one such
control would be that of a handler which is not over, with a later one of the same control on show.
The steps are few kinds: a handler goes on or ends (`HandlerStep`), the fields are written
(`TrackingStep`), a handler is started (`HandlerStarts`). The types are a second invariant
(`TypesInv`), for they need that a handler with requests to make has one left, and that the
remembered jobs are clicks that took place.

### 5.7 IssuerPortal

For any number of calls, items and crashes, with a webhook or without: `TypeCorrect`,
`AnnouncementsTrue`, `AnswersTrue`. `WorkInv`, `DeliveryInv` and `AnswerInv` say what the rows, the
audit log, the delivery row and the endpoint show of a call at each of its stages, and that
a row left PENDING is one that was cut off, or whose caller was answered with an error.

### 5.8 AgentRun

For any list of plugins, whatever servers offer and providers ask for: `TypeCorrect`,
`TraceCoversWork`, `ApprovalRequired`, `RepliesComplete`. `ControlInv` ties stage, turn and
request; `PerformedInv` counts at most two performances for an entry, and allows one ahead of the
trace, for the operation that is being called over the older protocol; `ApprovalInv` says that the operations the run was given as
approved are ones the user agreed to, also when the task is run again, and that the operation under
way was permitted.

`Implementation` (`Spec => RunImplementsToolRun`): every step of a run is a step of `ToolRun` or a
stutter of it. Each new entry of the trace raises one count by one, which is a fact about sums over
finite sets and thus about a recursive function. `NatSetInduction` and `SubsetInduction` are the inductions it
takes, each for a set instead of an operator, got from the least element of the numbers outside of it;
`SumExists` and `SumAdds` say that `SumFunction` has its recursive definition, and `SumGrows` what
a sum does when one term grows. `CallsInv` bounds the calls let through by the
steps taken times the budget, which `ToolRun`'s `MaxCalls` is about.

### 5.9 AgentService

For any jobs, processes, services and older ledger: `TypeCorrect`, `VerdictsStand`,
`StoreKeepsJobs`, `IdentityShared`. `JobInv` says what the runs of a job's roles were when it was
judged and that none is left to change that; `StoreInv` that what is in the store was signed;
`IdentityInv` that a job about to write a key over another one's raced it.

### 5.10 What the proofs changed

Two attempts failed for a reason in the model. `IdentitySplitOnlyByRace` had demanded that a job
with a foreign key be in `raced` itself; with three jobs one may sign with the key of another
before it is replaced, so that the property names the job that made the key. And `ReportsAreTrue` was
not inductive while `Send` could reuse the out-point of a dropped transaction a process
still waited for, which no two transactions share. The assumptions on constants the proofs
asked for say that they are the sets their comments call them (`PluginsAssumption`,
`OffersAssumption`, `ApprovalsAssumption`, `ReasonsAssumption`) and that "none" is no job
(`JobsAssumption`); `ServicesAssumption` also says that every service names the sources of its
evidence, as those of the catalog do; `StepsAssumption` that a run has 1 to 6 steps, to which the code clamps
what it is asked for, and `OperationsAssumption` that there are finitely many operations, for the
sums. The page's `Remember` had been written with `SelectSeq`, which the provers know nothing of; it removes the earlier entry of the job, of
which there is at most one, by its place.

### 5.11 What stays with TLC

* The liveness properties (`EveryCallReturns`, `EveryRunEnds`, `EveryJobSettles`,
  `FormsComeBack`) and `ENABLED`: out of the prover's reach.
* The two violations, which are counterexamples.

Every other property of the runs, invariant or action property, is a theorem. Induction over
data was in reach where it is over a finite set of numbers (section 5.8); the library's induction
theorems, having an operator as a parameter, were not.

## 6. What is left out, and why

* The byte layout of a record and its JSON form, hashing and signing: the
  properties only tell fields and identities apart.
* Exit codes of the VM for missing cells; lock scripts, which are taken to
  unlock for their owner only; capacities and fees, whose lack is `SendFails`.
* Chain reorganisations: the code has no reaction to one.
* `.tmp` files left by a crash between write and rename; `reset-ledger.js` and
  `demo.js`, which wipe the ledger on purpose; `offckb-local.js` as a second
  writer of the chain beside the portal (`ChainClient` has such processes).
* Attachments, profiles, sessions and webhooks inside the submission routes.
* How providers are spoken to, what a model or a built-in tool says, the hashes and
  signatures of receipts, checkpoints, cookies and webhooks, reputation figures,
  quotes and payment checks: data, or single reads.
* Of the agent's job store: a deployment without one, and entries of the older ledger
  without an id or a token hash, which the migration skips; `Legacy` is what it takes.
* Of the console: some click handlers also write an error into the panel of their answers;
  an error is shown in the model beside the panel.
* Repeated use of one approval within a run: `NothingUnapproved` tells what was agreed to from what
  was not, and the code admits every call the agreement covers.
* `inspectRecord` may report a status that has changed since: `ReportsAreTrue` says that it was so.
* An older ledger file put back whole, which has no trace of what was revoked since: only the chain
  tells, once its index does.
* The transaction builder and its preflight: one computation over one request. The
  hazard it has (a repeated out-point counted twice) is arithmetic without steps.
* The administrator's page, and everything about pages but what the console's handlers
  disable, ask, read again and show.
* The learning centre, directory, certificates, documents, backups: views.

## 7. What may come next

Models: the transaction builder as a function, against its definition; the
administrator's page, in the form of `Console`.
