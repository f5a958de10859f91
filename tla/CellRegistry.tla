----------------------------- MODULE CellRegistry -----------------------------
(***************************************************************************)
(* The registry as CKB keeps it: cells guarded by the revocation Type      *)
(* Script, changed by whatever transactions wallets submit.  The node      *)
(* commits a transaction when its inputs are live, every input's lock is   *)
(* unlocked by its owner, and every script group the transaction touches   *)
(* accepts it.                                                             *)
(***************************************************************************)
EXTENDS RevocationScript

CONSTANTS
  OutPoints,   \* identities of the registry cells ever created
  OutputCells, \* the cells a transaction may try to create
  NoCell       \* an out-point not created yet

ASSUME OutputCellsAssumption == OutputCells \subseteq RegistryCell
ASSUME NoCellAssumption == NoCell \notin RegistryCell
ASSUME NoCellNotPoint == NoCell \notin OutPoints

VARIABLES
  cell,      \* what each out-point created so far holds
  live,      \* the out-points not spent yet
  root,      \* ghost: the registration each record descends from
  signers    \* ghost: the wallets whose inputs the creating transaction spent

registryVars == <<cell, live, root, signers>>

TypeOK ==
  /\ cell \in [OutPoints -> RegistryCell \cup {NoCell}]
  /\ live \in SUBSET OutPoints
  /\ \A p \in live : cell[p] # NoCell
  /\ root \in [OutPoints -> OutPoints \cup {NoCell}]
  /\ signers \in [OutPoints -> SUBSET LockHashes]

Unused == {p \in OutPoints : cell[p] = NoCell}

-----------------------------------------------------------------------------
(* A transaction [inputs, outputs, payers]: the registry cells it spends,  *)
(* the registry cells it creates (a function from new out-points), and the *)
(* wallets that add plain capacity inputs for the occupied capacity and    *)
(* the fee.                                                                *)

InputCells(tx) == [p \in tx.inputs |-> cell[p]]

InputLocks(tx) == tx.payers \cup {cell[p].lock : p \in tx.inputs}

Group(cells, args) == [p \in {q \in DOMAIN cells : cells[q].args = args} |-> cells[p]]

ScriptArgs(tx) ==
  {cell[p].args : p \in tx.inputs} \cup {tx.outputs[p].args : p \in DOMAIN tx.outputs}

Accepts(tx) ==
  \A args \in ScriptArgs(tx) :
    ScriptResult(args, Group(InputCells(tx), args), Group(tx.outputs, args),
                 InputLocks(tx)) = Ok

\* The record an output continues, when its group has an input.
Predecessors(tx, p) == {q \in tx.inputs : cell[q].args = tx.outputs[p].args}

RootOf(tx, p) ==
  IF Predecessors(tx, p) = {} THEN p ELSE root[CHOOSE q \in Predecessors(tx, p) : TRUE]

Commit(tx) ==
  /\ tx.inputs \subseteq live
  /\ DOMAIN tx.outputs \subseteq Unused
  /\ tx.inputs \cup DOMAIN tx.outputs # {}
  /\ Accepts(tx)
  /\ live' = (live \ tx.inputs) \cup DOMAIN tx.outputs
  /\ cell' = [p \in OutPoints |-> IF p \in DOMAIN tx.outputs THEN tx.outputs[p] ELSE cell[p]]
  /\ root' = [p \in OutPoints |-> IF p \in DOMAIN tx.outputs THEN RootOf(tx, p) ELSE root[p]]
  /\ signers' = [p \in OutPoints |-> IF p \in DOMAIN tx.outputs THEN InputLocks(tx) ELSE signers[p]]

Init ==
  /\ cell = [p \in OutPoints |-> NoCell]
  /\ live = {}
  /\ root = [p \in OutPoints |-> NoCell]
  /\ signers = [p \in OutPoints |-> {}]

Transactions ==
  UNION {[inputs : SUBSET live, outputs : [created -> OutputCells], payers : SUBSET LockHashes]
           : created \in SUBSET Unused}

Next == \E tx \in Transactions : Commit(tx)

Spec == Init /\ [][Next]_registryVars

-----------------------------------------------------------------------------
(* Properties                                                              *)

\* Every live registry cell is one the JavaScript reader accepts: decodable,
\* under the issuer's own lock and script args, with no error from
\* validateRevocationRecord.  The script checks every output in full, whatever its
\* input was.
LiveRecordsCanonical ==
  \A p \in live :
    /\ cell[p].args \in LockHashes
    /\ cell[p].lock = cell[p].args
    /\ cell[p].data # Malformed
    /\ RecordErrors(cell[p].data, cell[p].args, cell[p].data.credentialId) = {}

\* A record says nothing its issuer did not sign for: the issuer named in a
\* live record unlocked an input of the transaction that wrote it.
WrittenByIssuer ==
  \A p \in live : cell[p].data # Malformed => cell[p].data.issuerLockHash \in signers[p]

\* The transaction by which a wallet alone turns live record p into a REVOKED
\* record at out-point q.
RevokeTx(p, q) ==
  [inputs |-> {p}, payers |-> {},
   outputs |-> [r \in {q} |->
     [cell[p] EXCEPT !.data = [cell[p].data EXCEPT !.status = STATUS_REVOKED,
                                                   !.reasonCode = 1, !.revokedAt = 1]]]]

\* No record can be frozen: as long as an ACTIVE record is live, its issuer can
\* revoke it with a transaction that needs nobody else's signature.
ActiveRecordsRevocable ==
  \A p \in live, q \in Unused :
    cell[p].data # Malformed /\ cell[p].data.status = STATUS_ACTIVE =>
      /\ Accepts(RevokeTx(p, q))
      /\ InputLocks(RevokeTx(p, q)) = {cell[p].data.issuerLockHash}

\* A registration is carried by exactly one live cell for ever after: it is
\* never destroyed, split or merged.
OneLiveCellPerRegistration ==
  \A r \in {p \in OutPoints : root[p] = p} :
    \E p \in live : {q \in live : root[q] = r} = {p}

\* The abstract value of a lineage: what its live cell says.
CarriersOf(r) == {q \in live : root[q] = r}

StatementOf(c) ==
  [issuer |-> c.args, credential |-> c.data.credentialId,
   status |-> IF c.data.status = STATUS_ACTIVE THEN "ACTIVE" ELSE "REVOKED"]

LineageView ==
  [r \in OutPoints |->
     IF CarriersOf(r) = {} THEN NoCell ELSE StatementOf(cell[CHOOSE q \in CarriersOf(r) : TRUE])]

Abstract == INSTANCE CellLineage WITH
  Lineages <- OutPoints, Issuers <- LockHashes, Credentials <- CredentialHashes,
  Nothing <- NoCell, lineage <- LineageView

\* Whatever transactions are committed, every registration only ever goes from
\* ACTIVE to REVOKED with its issuer and credential unchanged, and never
\* disappears.
RegistryImplementsLineage == Abstract!Spec

=============================================================================
