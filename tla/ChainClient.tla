------------------------------ MODULE ChainClient ------------------------------
(***************************************************************************)
(* The issuer's chain client (ckb/local-chain.js): createActiveRecord,     *)
(* revokeRecord and inspectRecord, run by several processes that share one *)
(* issuer key (issuer portal, command line), over the cells of             *)
(* CellRegistry.  Every await of the code is a point where other processes *)
(* and the node may act:                                                   *)
(*   - findLiveRecords reads the node's index, which lags the chain;       *)
(*   - sendTransaction puts the transaction in the pool or fails;          *)
(*   - waitTransaction returns on commitment, on rejection or on timeout;  *)
(*   - a process may crash anywhere, its transaction staying in the pool.  *)
(***************************************************************************)
EXTENDS CellRegistry

CONSTANTS
  Clients,      \* processes that use the issuer key
  Issuer,       \* ISSUER_LOCK_HASH
  ReasonCodes,  \* reason codes passed to revokeRecord
  MaxAttempts   \* searches before a missing record is reported

ASSUME IssuerAssumption == Issuer \in LockHashes
ASSUME ReasonsAssumption == ReasonCodes \subseteq Nat
ASSUME AttemptsAssumption == MaxAttempts \in Nat \ {0}

VARIABLES
  indexed,   \* the live cells as the node's index reports them
  pool,      \* transactions broadcast and not committed
  stage,     \* where each process is in its current call
  request,   \* what each process was asked to do
  attempt,   \* the search each process is at
  target,    \* the ACTIVE record a revocation found
  sent,      \* the out-point of the output of the transaction sent
  outcome,   \* what the last call of each process returned
  raced      \* ghost: credentials whose existence check ran during a race

clientVars == <<stage, request, attempt, target, sent, outcome, raced>>
vars == <<registryVars, indexed, pool, clientVars>>

Operations == {"create", "revoke", "inspect"}
Requests == [op : Operations, credential : CredentialHashes, reasonCode : ReasonCodes]
Statuses == {"NOT_FOUND", "CONFLICT_DUPLICATE", "INVALID_RECORD", "ACTIVE", "REVOKED"}

ClientTypeOK ==
  /\ TypeOK
  /\ indexed \subseteq OutPoints
  /\ \A tx \in pool : DOMAIN tx.outputs \subseteq OutPoints
  /\ stage \in [Clients -> {"idle", "search", "build", "wait"}]
  /\ request \in [Clients -> Requests \cup {NoCell}]
  /\ attempt \in [Clients -> 0..MaxAttempts]
  /\ target \in [Clients -> OutPoints \cup {NoCell}]
  /\ sent \in [Clients -> OutPoints \cup {NoCell}]
  /\ outcome \in [Clients -> {"none", "refused", "failed", "created", "revoked"} \cup Statuses]
  /\ raced \subseteq CredentialHashes

ClientInit ==
  /\ Init
  /\ indexed = {}
  /\ pool = {}
  /\ stage = [c \in Clients |-> "idle"]
  /\ request = [c \in Clients |-> NoCell]
  /\ attempt = [c \in Clients |-> 0]
  /\ target = [c \in Clients |-> NoCell]
  /\ sent = [c \in Clients |-> NoCell]
  /\ outcome = [c \in Clients |-> "none"]
  /\ raced = {}

-----------------------------------------------------------------------------
(* Reading the registry.                                                   *)

\* findLiveRecords: the decodable cells of the issuer's type script in a view
\* of the chain whose credential hash is k.
FindLiveRecords(view, k) ==
  [p \in {q \in view : /\ cell[q].args = Issuer
                       /\ cell[q].data # Malformed
                       /\ cell[q].data.credentialId = k} |-> cell[p].data]

Status(view, k) == Summarize(FindLiveRecords(view, k), Issuer, k)

-----------------------------------------------------------------------------
(* Calls.                                                                  *)

Credential(c) == request[c].credential

Doing(c, op, at) == stage[c] = at /\ request[c].op = op

Return(c, result) ==
  /\ stage' = [stage EXCEPT ![c] = "idle"]
  /\ outcome' = [outcome EXCEPT ![c] = result]
  /\ request' = [request EXCEPT ![c] = IF result \in {"created", "revoked"} THEN @ ELSE NoCell]
  /\ attempt' = [attempt EXCEPT ![c] = 0]
  /\ target' = [target EXCEPT ![c] = NoCell]
  /\ sent' = [sent EXCEPT ![c] = NoCell]

Call(c, r) ==
  /\ stage[c] = "idle"
  /\ stage' = [stage EXCEPT ![c] = "search"]
  /\ request' = [request EXCEPT ![c] = r]
  /\ attempt' = [attempt EXCEPT ![c] = 1]
  /\ outcome' = [outcome EXCEPT ![c] = "none"]
  /\ UNCHANGED <<registryVars, indexed, pool, target, sent, raced>>

CreatesRecordOf(tx, k) ==
  tx.inputs = {} /\ \E p \in DOMAIN tx.outputs : tx.outputs[p].data.credentialId = k

\* Ghost: another creation for k is under way, or its record is not indexed yet.
CreationUnderWay(c, k) ==
  \/ \E d \in Clients \ {c} : Doing(d, "create", "build") /\ Credential(d) = k
  \/ \E tx \in pool : CreatesRecordOf(tx, k)
  \/ DOMAIN FindLiveRecords(live, k) # DOMAIN FindLiveRecords(indexed, k)

\* Mutant: the search before a creation does not stop at an existing record.
SearchUnguarded(c) ==
  /\ Doing(c, "create", "search")
  /\ stage' = [stage EXCEPT ![c] = "build"]
  /\ raced' = IF CreationUnderWay(c, Credential(c)) THEN raced \cup {Credential(c)} ELSE raced
  /\ UNCHANGED <<registryVars, indexed, pool, request, attempt, target, sent, outcome>>

\* createActiveRecord refuses when a record of the credential is indexed.
SearchForCreate(c) ==
  /\ Doing(c, "create", "search")
  /\ \/ /\ DOMAIN FindLiveRecords(indexed, Credential(c)) # {}
        /\ Return(c, "refused")
        /\ UNCHANGED raced
     \/ /\ DOMAIN FindLiveRecords(indexed, Credential(c)) = {}
        /\ stage' = [stage EXCEPT ![c] = "build"]
        /\ raced' = IF CreationUnderWay(c, Credential(c)) THEN raced \cup {Credential(c)} ELSE raced
        /\ UNCHANGED <<request, attempt, target, sent, outcome>>
  /\ UNCHANGED <<registryVars, indexed, pool>>

\* Mutant: a search that finds nothing is repeated for ever.
RetryForever(c) ==
  /\ UNCHANGED <<stage, request, attempt, target, sent, outcome>>

\* A search that found nothing is repeated while attempts are left.
Retry(c) ==
  /\ attempt[c] < MaxAttempts
  /\ attempt' = [attempt EXCEPT ![c] = @ + 1]
  /\ UNCHANGED <<stage, request, target, sent, outcome>>

\* waitForUniqueActiveRecord: only a unique ACTIVE record is taken.
SearchForRevoke(c) ==
  /\ Doing(c, "revoke", "search")
  /\ LET status == Status(indexed, Credential(c)) IN
     \/ /\ status = "ACTIVE"
        /\ stage' = [stage EXCEPT ![c] = "build"]
        /\ target' = [target EXCEPT ![c] =
             CHOOSE p \in DOMAIN FindLiveRecords(indexed, Credential(c)) : TRUE]
        /\ UNCHANGED <<request, attempt, sent, outcome>>
     \/ status = "NOT_FOUND" /\ Retry(c)
     \/ /\ \/ status \in {"CONFLICT_DUPLICATE", "INVALID_RECORD", "REVOKED"}
           \/ status = "NOT_FOUND" /\ attempt[c] = MaxAttempts
        /\ Return(c, "refused")
  /\ UNCHANGED <<registryVars, indexed, pool, raced>>

\* inspectRecord: searches until some record matches, then reports.
SearchForInspect(c) ==
  /\ Doing(c, "inspect", "search")
  /\ LET status == Status(indexed, Credential(c)) IN
     \/ status = "NOT_FOUND" /\ Retry(c)
     \/ /\ status # "NOT_FOUND" \/ attempt[c] = MaxAttempts
        /\ Return(c, status)
  /\ UNCHANGED <<registryVars, indexed, pool, raced>>

-----------------------------------------------------------------------------
(* Sending and waiting.                                                    *)

ActiveRecord(k) ==
  [version |-> VERSION, status |-> STATUS_ACTIVE, credentialId |-> k,
   issuerLockHash |-> Issuer, reasonCode |-> 0, revokedAt |-> 0]

\* The clock is after the epoch: revokedAt is some nonzero number of seconds.
RevokedRecord(k, reason) ==
  [ActiveRecord(k) EXCEPT !.status = STATUS_REVOKED, !.reasonCode = reason, !.revokedAt = 1]

BuildTx(c, o) ==
  IF request[c].op = "create"
  THEN [inputs |-> {}, payers |-> {Issuer},
        outputs |-> [p \in {o} |-> [lock |-> Issuer, args |-> Issuer,
                                    data |-> ActiveRecord(Credential(c))]]]
  ELSE [inputs |-> {target[c]}, payers |-> {Issuer},
        outputs |-> [p \in {o} |-> [lock |-> Issuer, args |-> Issuer,
                                    data |-> RevokedRecord(Credential(c), request[c].reasonCode)]]]

\* Out-points some transaction broadcast so far may still create, or some process
\* waits for: an out-point names its transaction, so no other one creates it.
Promised == (UNION {DOMAIN tx.outputs : tx \in pool}) \cup {sent[c] : c \in Clients}

\* The node admits a transaction whose inputs are live and unclaimed and whose
\* scripts accept.
Admitted(tx) ==
  /\ tx.inputs \subseteq live
  /\ \A other \in pool : other.inputs \cap tx.inputs = {}
  /\ Accepts(tx)

Send(c) ==
  /\ stage[c] = "build"
  /\ \E o \in Unused \ Promised :
       /\ Admitted(BuildTx(c, o))
       /\ pool' = pool \cup {BuildTx(c, o)}
       /\ sent' = [sent EXCEPT ![c] = o]
  /\ stage' = [stage EXCEPT ![c] = "wait"]
  /\ UNCHANGED <<registryVars, indexed, request, attempt, target, outcome, raced>>

\* Missing capacity, an RPC error or the node's rejection: the call throws.
SendFails(c) ==
  /\ stage[c] = "build"
  /\ Return(c, "failed")
  /\ UNCHANGED <<registryVars, indexed, pool, raced>>

\* Mutant: a transaction is taken as committed as soon as the node knows it.
ConfirmPooled(c) ==
  /\ stage[c] = "wait"
  /\ Return(c, IF request[c].op = "create" THEN "created" ELSE "revoked")
  /\ UNCHANGED <<registryVars, indexed, pool, raced>>

\* waitTransaction returned with status "committed".
Confirm(c) ==
  /\ stage[c] = "wait"
  /\ cell[sent[c]] # NoCell
  /\ Return(c, IF request[c].op = "create" THEN "created" ELSE "revoked")
  /\ UNCHANGED <<registryVars, indexed, pool, raced>>

\* waitTransaction timed out, or reported a status other than "committed".
GiveUp(c) ==
  /\ stage[c] = "wait"
  /\ Return(c, "failed")
  /\ UNCHANGED <<registryVars, indexed, pool, raced>>

Crash(c) ==
  /\ stage[c] # "idle"
  /\ Return(c, "none")
  /\ UNCHANGED <<registryVars, indexed, pool, raced>>

-----------------------------------------------------------------------------
(* The node.                                                               *)

CommitPooled(tx) ==
  /\ Commit(tx)
  /\ pool' = pool \ {tx}
  /\ UNCHANGED <<indexed, clientVars>>

DropPooled(tx) ==
  /\ pool' = pool \ {tx}
  /\ UNCHANGED <<registryVars, indexed, clientVars>>

UpdateIndex ==
  /\ indexed # live
  /\ indexed' = live
  /\ UNCHANGED <<registryVars, pool, clientVars>>

-----------------------------------------------------------------------------
Progress(c) ==
  \/ SearchForCreate(c)
  \/ SearchForRevoke(c)
  \/ SearchForInspect(c)
  \/ Send(c)
  \/ SendFails(c)
  \/ Confirm(c)
  \/ GiveUp(c)

ClientNext ==
  \/ \E c \in Clients : Progress(c) \/ Crash(c)
  \/ \E c \in Clients, r \in Requests : Call(c, r)
  \/ \E tx \in pool : CommitPooled(tx) \/ DropPooled(tx)
  \/ UpdateIndex

ClientSpec == ClientInit /\ [][ClientNext]_vars

\* A process that is inside a call keeps running: its searches, its RPC calls
\* and the timer of waitTransaction all come back.
FairClientSpec == ClientSpec /\ \A c \in Clients : WF_vars(Progress(c))

-----------------------------------------------------------------------------
(* Properties                                                              *)

\* What may be reported of a credential after what has been reported of it.
MayFollow(before, after) ==
  \/ after = before
  \/ before = "NOT_FOUND"
  \/ before = "ACTIVE" /\ after \in {"REVOKED", "CONFLICT_DUPLICATE"}
  \/ before = "REVOKED" /\ after = "CONFLICT_DUPLICATE"

\* The indexed status of a credential never regresses: a revoked credential is
\* never seen ACTIVE or missing again, and a conflict is never resolved in
\* favour of one record, whatever the processes do and lose.
StatusNeverRegresses ==
  [][\A k \in CredentialHashes : MayFollow(Status(indexed, k), Status(indexed, k)')]_vars

\* A call that returned success told the truth, and it stays true: a created
\* record is live, a revoked credential has a live REVOKED record.
ReportsAreTrue ==
  \A c \in Clients :
    /\ outcome[c] = "created" => Status(live, Credential(c)) # "NOT_FOUND"
    /\ outcome[c] = "revoked" => Status(live, Credential(c)) \in {"REVOKED", "CONFLICT_DUPLICATE"}

\* The existence check of createActiveRecord prevents duplicates except when it
\* ran while another creation for the credential was under way or not indexed.
DuplicatesOnlyByRace ==
  \A k \in CredentialHashes : Status(live, k) = "CONFLICT_DUPLICATE" => k \in raced

\* Every call returns, however often it searches and whatever the node does.
EveryCallReturns == \A c \in Clients : (stage[c] # "idle") ~> (stage[c] = "idle")

=============================================================================
