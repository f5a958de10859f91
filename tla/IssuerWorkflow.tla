----------------------------- MODULE IssuerWorkflow -----------------------------
(***************************************************************************)
(* How a credential gets into, and is revoked in, the two places that      *)
(* record it: the chain and the ledger file (issueSubmission and           *)
(* revokeCredentialWorkflow of issuer-http.js, persistPreparedCredential   *)
(* and persistPreparedRevocation of credential-service.js, ledger.js).     *)
(*                                                                         *)
(* The issuer portal is one single-threaded process that changes the chain *)
(* first and the ledger second.  The command line tools are processes of   *)
(* their own that change the ledger only.  The ledger is one JSON file:    *)
(* every change loads it whole and renames a whole new file over it.       *)
(* Processes crash, file operations throw, and a chain call may report     *)
(* failure for a transaction that commits later.                           *)
(***************************************************************************)
EXTENDS Naturals, FiniteSets

CONSTANTS
  Credentials,
  Portal,       \* concurrent requests to the issuer portal
  Clis,         \* command line processes
  ChainWrites,  \* CHAIN_WRITE_MODE is not "disabled"
  MaxJobs       \* bound: jobs started in a behaviour

ASSUME ChainWritesAssumption == ChainWrites \in BOOLEAN
ASSUME MaxJobsAssumption == MaxJobs \in Nat
ASSUME WorkersAssumption == Portal \cap Clis = {}

VARIABLES
  ledger,     \* ledger.json: the status of every credential
  artifacts,  \* the files written beside the ledger for a credential
  chain,      \* the status the registry holds for a credential
  inflight,   \* credentials with a broadcast transaction not committed
  job,        \* what every worker is doing
  operation,  \* the operations row of the worker's latest job
  jobs,       \* jobs started
  collided,   \* ghost: two processes changed the ledger at the same time
  offline,    \* ghost: credentials a command line tool worked on
  torn        \* ghost: credentials a job on which failed or was interrupted

vars == <<ledger, artifacts, chain, inflight, job, operation, jobs, collided, offline, torn>>

Workers == Portal \cup Clis
Kinds == {"issue", "revoke"}
Marks == {"NONE", "ACTIVE", "REVOKED"}
Files == {"record", "active", "revoked"}

Rank(mark) == CASE mark = "NONE" -> 0 [] mark = "ACTIVE" -> 1 [] mark = "REVOKED" -> 2

\* The mark a job finds when it may proceed, and the one it leaves.
Source(kind) == IF kind = "issue" THEN "NONE" ELSE "ACTIVE"
Goal(kind) == IF kind = "issue" THEN "ACTIVE" ELSE "REVOKED"

\* Stages between which other handlers of the portal may run, and the others.
Awaiting == {"chain", "sent", "landed"}
Running == {"load", "save", "files", "rollback"}

Ledgers == [Credentials -> Marks]
ActiveJobs ==
  [stage : Awaiting \cup Running, kind : Kinds, credential : Credentials, copy : Ledgers]
Idle == [stage |-> "idle"]

OperationStatuses ==
  {"NONE", "PREPARED", "CHAIN_PENDING", "CHAIN_COMMITTED", "FAILED",
   "ACTIVE", "ACTIVE_OFFCHAIN", "REVOKED", "REVOKED_OFFCHAIN"}
Operations ==
  [kind : Kinds, credential : Credentials, status : OperationStatuses, evidence : BOOLEAN]
NoOperation == [status |-> "NONE"]

TypeOK ==
  /\ ledger \in Ledgers
  /\ artifacts \in [Credentials -> SUBSET Files]
  /\ chain \in [Credentials -> Marks]
  /\ inflight \subseteq Credentials
  /\ job \in [Workers -> ActiveJobs \cup {Idle}]
  /\ operation \in [Portal -> Operations \cup {NoOperation}]
  /\ jobs \in 0..MaxJobs
  /\ collided \in BOOLEAN
  /\ offline \subseteq Credentials
  /\ torn \subseteq Credentials

Init ==
  /\ ledger = [c \in Credentials |-> "NONE"]
  /\ artifacts = [c \in Credentials |-> {}]
  /\ chain = [c \in Credentials |-> "NONE"]
  /\ inflight = {}
  /\ job = [w \in Workers |-> Idle]
  /\ operation = [w \in Portal |-> NoOperation]
  /\ jobs = 0
  /\ collided = FALSE
  /\ offline = {}
  /\ torn = {}

-----------------------------------------------------------------------------
Active(w) == job[w].stage # "idle"
WorkersOn(c) == {w \in Workers : Active(w) /\ job[w].credential = c}

SameProcess(v, w) == v = w \/ (v \in Portal /\ w \in Portal)

\* No other handler of w's process is between two awaits.
ThreadFree(w) == \A v \in Workers \ {w} : SameProcess(v, w) => job[v].stage \notin Running

At(w, stage) == job[w].stage = stage /\ (stage \in Awaiting => ThreadFree(w))

Go(w, stage) == job' = [job EXCEPT ![w].stage = stage]
Finish(w) == job' = [job EXCEPT ![w] = Idle]

SetOperation(w, status) ==
  operation' = IF w \in Portal THEN [operation EXCEPT ![w].status = status] ELSE operation

FinalStatus(w) ==
  IF operation[w].evidence THEN Goal(job[w].kind)
  ELSE IF job[w].kind = "issue" THEN "ACTIVE_OFFCHAIN" ELSE "REVOKED_OFFCHAIN"

\* The job throws: the portal records FAILED with the evidence it has.
Throw(w) ==
  /\ SetOperation(w, "FAILED")
  /\ Finish(w)
  /\ torn' = torn \cup {job[w].credential}

-----------------------------------------------------------------------------
(* Starting a job.                                                         *)

StartJob(w, c, kind, stage) ==
  /\ job[w].stage = "idle"
  /\ ThreadFree(w)
  /\ jobs < MaxJobs
  /\ jobs' = jobs + 1
  /\ job' = [job EXCEPT ![w] =
       [stage |-> stage, kind |-> kind, credential |-> c, copy |-> ledger]]
  /\ UNCHANGED <<ledger, artifacts, chain, inflight, collided, torn>>

\* The id of a new credential is random, so nothing is known of it anywhere;
\* prepareRevocation wants a credential the ledger holds as ACTIVE.
Prepared(c, kind) ==
  IF kind = "issue"
  THEN ledger[c] = "NONE" /\ chain[c] = "NONE" /\ c \notin inflight /\ WorkersOn(c) = {} /\ c \notin torn
  ELSE ledger[c] = "ACTIVE"

\* Mutant: the ledger is written before the chain.
PortalStartsOffChain(w, c, kind) ==
  /\ Prepared(c, kind)
  /\ StartJob(w, c, kind, "load")
  /\ operation' = [operation EXCEPT ![w] =
       [kind |-> kind, credential |-> c, status |-> "PREPARED", evidence |-> FALSE]]
  /\ UNCHANGED offline

PortalStarts(w, c, kind) ==
  /\ Prepared(c, kind)
  /\ StartJob(w, c, kind, IF ChainWrites THEN "chain" ELSE "load")
  /\ operation' = [operation EXCEPT ![w] =
       [kind |-> kind, credential |-> c, evidence |-> FALSE,
        status |-> IF ChainWrites THEN "CHAIN_PENDING" ELSE "PREPARED"]]
  /\ UNCHANGED offline

\* mint-degree and revoke-degree; the id of a mint is given by the user.
CliStarts(w, c, kind) ==
  /\ kind = "revoke" => ledger[c] = "ACTIVE"
  /\ StartJob(w, c, kind, "load")
  /\ offline' = offline \cup {c}
  /\ UNCHANGED operation

-----------------------------------------------------------------------------
(* The chain call: createActiveRecord or revokeRecord (ChainClient).       *)

Send(w) ==
  /\ At(w, "chain")
  /\ chain[job[w].credential] = Source(job[w].kind)
  /\ job[w].credential \notin inflight
  /\ inflight' = inflight \cup {job[w].credential}
  /\ Go(w, "sent")
  /\ UNCHANGED <<ledger, artifacts, chain, operation, jobs, collided, offline, torn>>

\* The node commits; whoever waits for the transaction will be told.
ChainCommits(c) ==
  /\ c \in inflight
  /\ chain' = [chain EXCEPT ![c] = IF @ = "NONE" THEN "ACTIVE" ELSE "REVOKED"]
  /\ inflight' = inflight \ {c}
  /\ job' = [w \in Workers |->
       IF w \in WorkersOn(c) /\ job[w].stage = "sent"
       THEN [job[w] EXCEPT !.stage = "landed"] ELSE job[w]]
  /\ UNCHANGED <<ledger, artifacts, operation, jobs, collided, offline, torn>>

\* Mutant: the transaction is taken as committed when it was only sent.
ChainReturnsUnwaited(w) ==
  /\ At(w, "sent") \/ At(w, "landed")
  /\ operation' = [operation EXCEPT ![w].status = "CHAIN_COMMITTED", ![w].evidence = TRUE]
  /\ Go(w, "load")
  /\ UNCHANGED <<ledger, artifacts, chain, inflight, jobs, collided, offline, torn>>

ChainReturns(w) ==
  /\ At(w, "landed")
  /\ operation' = [operation EXCEPT ![w].status = "CHAIN_COMMITTED", ![w].evidence = TRUE]
  /\ Go(w, "load")
  /\ UNCHANGED <<ledger, artifacts, chain, inflight, jobs, collided, offline, torn>>

\* The call throws: refused, rejected, or timed out with the transaction
\* still in flight.
ChainThrows(w) ==
  /\ At(w, "chain") \/ At(w, "sent")
  /\ Throw(w)
  /\ UNCHANGED <<ledger, artifacts, chain, inflight, jobs, collided, offline>>

ChainDrops(c) ==
  /\ c \in inflight
  /\ inflight' = inflight \ {c}
  /\ UNCHANGED <<ledger, artifacts, chain, job, operation, jobs, collided, offline, torn>>

-----------------------------------------------------------------------------
(* Persisting.                                                             *)

\* Another process is between its load and its last use of what it loaded.
Writing(v) ==
  \/ job[v].stage = "save"
  \/ job[v].stage \in {"files", "rollback"} /\ job[v].kind = "revoke"

\* loadLedger, and the check that the credential is in the expected state.
Load(w) ==
  /\ At(w, "load")
  /\ \/ /\ ledger[job[w].credential] = Source(job[w].kind)
        /\ job' = [job EXCEPT ![w].stage = "save", ![w].copy = ledger]
        /\ collided' = (collided \/ \E v \in Workers \ {w} : Writing(v))
        /\ UNCHANGED <<operation, torn>>
     \/ Throw(w) /\ UNCHANGED collided
  /\ UNCHANGED <<ledger, artifacts, chain, inflight, jobs, offline>>

\* Mutant: the copy is saved without the change.
SaveNothing(w) ==
  /\ At(w, "save")
  /\ ledger' = job[w].copy
  /\ Go(w, "files")
  /\ UNCHANGED <<artifacts, chain, inflight, operation, jobs, collided, offline, torn>>

\* saveLedger: the whole copy, changed at the credential, replaces the file.
Save(w) ==
  /\ At(w, "save")
  /\ \/ /\ ledger' = [job[w].copy EXCEPT ![job[w].credential] = Goal(job[w].kind)]
        /\ Go(w, "files")
        /\ UNCHANGED <<operation, torn>>
     \/ /\ job[w].kind = "revoke"
        /\ Go(w, "rollback")
        /\ UNCHANGED <<ledger, operation, torn>>
     \/ /\ job[w].kind = "issue"
        /\ Throw(w)
        /\ UNCHANGED ledger
  /\ UNCHANGED <<artifacts, chain, inflight, jobs, collided, offline>>

\* An issue writes the record and the ACTIVE binary and may fail at either,
\* the ledger staying as it is; a revocation renames its binary into place.
WriteFiles(w) ==
  /\ At(w, "files")
  /\ LET c == job[w].credential IN
     \/ /\ artifacts' = [artifacts EXCEPT ![c] =
             @ \cup (IF job[w].kind = "issue" THEN {"record", "active"} ELSE {"revoked"})]
        /\ IF w \in Portal THEN SetOperation(w, FinalStatus(w)) ELSE UNCHANGED operation
        /\ Finish(w)
        /\ UNCHANGED torn
     \/ /\ job[w].kind = "issue"
        /\ \E written \in {{}, {"record"}} : artifacts' = [artifacts EXCEPT ![c] = @ \cup written]
        /\ Throw(w)
     \/ /\ job[w].kind = "revoke"
        /\ Go(w, "rollback")
        /\ UNCHANGED <<artifacts, operation, torn>>
  /\ UNCHANGED <<ledger, chain, inflight, jobs, collided, offline>>

\* Mutant: a rollback restores an empty ledger.
RollbackToEmpty(w) ==
  /\ At(w, "rollback")
  /\ ledger' = [c \in Credentials |-> "NONE"]
  /\ Throw(w)
  /\ UNCHANGED <<artifacts, chain, inflight, jobs, collided, offline>>

\* The ledger loaded before the change is saved back, or that fails too.
Rollback(w) ==
  /\ At(w, "rollback")
  /\ ledger' = job[w].copy \/ UNCHANGED ledger
  /\ Throw(w)
  /\ UNCHANGED <<artifacts, chain, inflight, jobs, collided, offline>>

-----------------------------------------------------------------------------
\* A process stops between two steps: its jobs are gone, and the operations
\* rows keep the status they have.
Crash(process) ==
  /\ \E w \in process : Active(w)
  /\ job' = [w \in Workers |-> IF w \in process THEN Idle ELSE job[w]]
  /\ torn' = torn \cup {job[w].credential : w \in {v \in process : Active(v)}}
  /\ UNCHANGED <<ledger, artifacts, chain, inflight, operation, jobs, collided, offline>>

Progress(w) ==
  \/ ChainReturns(w)
  \/ ChainThrows(w)
  \/ Load(w)
  \/ Save(w)
  \/ WriteFiles(w)
  \/ Rollback(w)

Next ==
  \/ \E w \in Workers : Progress(w) \/ Send(w)
  \/ \E w \in Portal, c \in Credentials, kind \in Kinds : PortalStarts(w, c, kind)
  \/ \E w \in Clis, c \in Credentials, kind \in Kinds : CliStarts(w, c, kind)
  \/ \E c \in Credentials : ChainCommits(c) \/ ChainDrops(c)
  \/ Crash(Portal)
  \/ \E w \in Clis : Crash({w})

Spec == Init /\ [][Next]_vars

-----------------------------------------------------------------------------
(* Properties                                                              *)

\* The ledger never says more than the chain of a credential only the portal
\* worked on, whatever fails, crashes or collides: what the ledger calls
\* revoked is revoked on chain, what it lists is registered.
LedgerNeverAheadOfChain ==
  ChainWrites => \A c \in Credentials \ offline : Rank(ledger[c]) <= Rank(chain[c])

\* Unless two processes collided, an entry of the ledger is only lowered by the
\* rollback of a revocation of that very credential.
OnlyOwnRollbackLowers ==
  [][\A c \in Credentials :
       Rank(ledger'[c]) < Rank(ledger[c]) =>
         \/ collided
         \/ \E w \in Workers :
              job[w].stage = "rollback" /\ job[w].kind = "revoke" /\ job[w].credential = c]_vars

\* When no job on a credential failed or was interrupted and none is under way,
\* the ledger and the chain tell the same.
ChainAndLedgerAgree ==
  ChainWrites /\ ~collided =>
    \A c \in Credentials \ (torn \cup offline) :
      WorkersOn(c) = {} => ledger[c] = chain[c]

\* An operation row that reports success is right about ledger and chain, and
\* one that carries chain evidence is right about the chain even when FAILED.
OperationsTellTheTruth ==
  \A w \in Portal : operation[w].status # "NONE" =>
    LET op == operation[w] IN
    /\ op.evidence => Rank(chain[op.credential]) >= Rank(Goal(op.kind))
    /\ op.status \in {"ACTIVE", "REVOKED", "ACTIVE_OFFCHAIN", "REVOKED_OFFCHAIN"} /\ ~collided
       => Rank(ledger[op.credential]) >= Rank(Goal(op.kind))

=============================================================================
