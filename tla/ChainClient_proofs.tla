--------------------------- MODULE ChainClient_proofs ---------------------------
(***************************************************************************)
(* Proofs about CellRegistry, and about ChainClient, whose processes       *)
(* change it: for every set of wallets, credentials, out-points, candidate *)
(* outputs and reason codes, and any number of processes and of searches.  *)
(* The part on the registry uses nothing of the clients.                   *)
(***************************************************************************)
EXTENDS ChainClient, TLAPS

-----------------------------------------------------------------------------
(* What acceptance by the Type Script implies.                             *)

\* A record that passes validate_common has the known version, a known status
\* and the issuer of the script args.
LEMMA CommonAccepted ==
  ASSUME NEW r, NEW issuer, CommonResult(r, issuer) = Ok
  PROVE  /\ r.version = VERSION
         /\ r.status \in {STATUS_ACTIVE, STATUS_REVOKED}
         /\ r.issuerLockHash = issuer
  BY DEF CommonResult, Ok

\* validate_creation accepts only a clean ACTIVE record of the issuer.
LEMMA CreationAccepted ==
  ASSUME NEW r, NEW issuer, CreationResult(r, issuer) = Ok
  PROVE  /\ r.version = VERSION
         /\ r.issuerLockHash = issuer
         /\ r.status = STATUS_ACTIVE
         /\ r.reasonCode = 0
         /\ r.revokedAt = 0
  <1>1. CommonResult(r, issuer) = Ok
    BY DEF CreationResult, Ok
  <1>2. r.status = STATUS_ACTIVE /\ r.reasonCode = 0 /\ r.revokedAt = 0
    BY <1>1 DEF CreationResult, Ok
  <1>3. QED
    BY <1>1, <1>2, CommonAccepted

\* validate_update accepts only ACTIVE -> REVOKED with a reason and a time, the
\* credential and the issuer unchanged.
LEMMA UpdateAccepted ==
  ASSUME NEW r, NEW s, NEW issuer, UpdateResult(r, s, issuer) = Ok
  PROVE  /\ r.issuerLockHash = issuer
         /\ r.status = STATUS_ACTIVE
         /\ s.version = VERSION
         /\ s.issuerLockHash = issuer
         /\ s.credentialId = r.credentialId
         /\ s.status = STATUS_REVOKED
         /\ s.reasonCode # 0
         /\ s.revokedAt # 0
  <1>1. CommonResult(r, issuer) = Ok
    BY DEF UpdateResult, Ok
  <1>2. /\ r.version = s.version
        /\ r.issuerLockHash = s.issuerLockHash
    BY <1>1 DEF UpdateResult, Ok
  <1>3. CommonResult(s, issuer) = Ok
    BY <1>1, <1>2 DEF UpdateResult, Ok
  <1>4. /\ s.credentialId = r.credentialId
        /\ r.status = STATUS_ACTIVE
        /\ s.status = STATUS_REVOKED
        /\ s.reasonCode # 0
        /\ s.revokedAt # 0
    BY <1>1, <1>2, <1>3 DEF UpdateResult, Ok
  <1>5. QED
    BY <1>1, <1>3, <1>4, CommonAccepted

\* The cell load_cell_data reads at index 0 of a one-cell group is that cell.
LEMMA OnlyCell ==
  ASSUME NEW g, NEW p, DOMAIN g = {p}
  PROVE  Only(g) = g[p]
  BY DEF Only

\* A group the script accepts has one output, under the lock of the issuer of
\* its args, and at most one input; the issuer unlocked an input of the
\* transaction; the output is a clean registration or a revocation of the input.
GoodGroup(args, gin, gout, locks) ==
  /\ args \in LockHashes
  /\ args \in locks
  /\ \E p : /\ DOMAIN gout = {p}
            /\ gout[p].lock = args
            /\ gout[p].data # Malformed
            /\ \/ /\ DOMAIN gin = {}
                  /\ CreationResult(gout[p].data, args) = Ok
               \/ \E q : /\ DOMAIN gin = {q}
                         /\ gin[q].data # Malformed
                         /\ UpdateResult(gin[q].data, gout[p].data, args) = Ok

\* Every accepted script group is a good one: no other combination of counts,
\* locks and data passes validate_transaction.
LEMMA GroupAccepted ==
  ASSUME NEW args, NEW gin, NEW gout, NEW locks,
         ScriptResult(args, gin, gout, locks) = Ok
  PROVE  GoodGroup(args, gin, gout, locks)
  <1>1. args \in LockHashes
    BY DEF ScriptResult, Ok
  <1>2. CASE IsEmpty(gin) /\ IsSingle(gout)
    <2>1. /\ Authorized(args, locks)
          /\ GroupLocked(gout, args)
          /\ Decodable(gout)
          /\ CreationResult(Only(gout).data, args) = Ok
      BY <1>1, <1>2 DEF ScriptResult, Ok
    <2>2. PICK p : DOMAIN gout = {p}
      BY <1>2 DEF IsSingle
    <2>3. Only(gout) = gout[p]
      BY <2>2, OnlyCell
    <2>4. QED
      BY <1>1, <1>2, <2>1, <2>2, <2>3 DEF Authorized, GroupLocked, Decodable, IsEmpty, GoodGroup
  <1>3. CASE IsSingle(gin) /\ IsSingle(gout)
    <2>1. ~IsEmpty(gin)
      BY <1>3 DEF IsSingle, IsEmpty
    <2>2. /\ Authorized(args, locks)
          /\ GroupLocked(gout, args)
          /\ Decodable(gin)
          /\ Decodable(gout)
          /\ UpdateResult(Only(gin).data, Only(gout).data, args) = Ok
      BY <1>1, <1>3, <2>1 DEF ScriptResult, Ok
    <2>3. PICK p : DOMAIN gout = {p}
      BY <1>3 DEF IsSingle
    <2>4. PICK q : DOMAIN gin = {q}
      BY <1>3 DEF IsSingle
    <2>5. Only(gout) = gout[p] /\ Only(gin) = gin[q]
      BY <2>3, <2>4, OnlyCell
    <2>6. QED
      BY <1>1, <2>2, <2>3, <2>4, <2>5 DEF Authorized, GroupLocked, Decodable, GoodGroup
  <1>4. CASE ~(IsEmpty(gin) /\ IsSingle(gout)) /\ ~(IsSingle(gin) /\ IsSingle(gout))
    BY <1>1, <1>4 DEF ScriptResult, Ok
  <1>5. QED
    BY <1>2, <1>3, <1>4

-----------------------------------------------------------------------------
(* What a committed transaction does to the records.                       *)

\* The wallets that pay are known, and what is created are registry cells.
WellFormed(tx) ==
  /\ tx.payers \subseteq LockHashes
  /\ \A p \in DOMAIN tx.outputs : tx.outputs[p] \in RegistryCell

\* The transactions wallets submit are well formed.
LEMMA TransactionType ==
  ASSUME NEW tx \in Transactions
  PROVE  WellFormed(tx)
  <1>1. PICK created \in SUBSET Unused :
          tx \in [inputs : SUBSET live, outputs : [created -> OutputCells],
                  payers : SUBSET LockHashes]
    BY DEF Transactions
  <1>2. QED
    BY <1>1, OutputCellsAssumption DEF WellFormed

\* Every output of an accepted transaction is its issuer's, signed by its
\* issuer, alone in its group, and a registration or a revocation.
LEMMA OutputAccepted ==
  ASSUME NEW tx, Accepts(tx), NEW p \in DOMAIN tx.outputs,
         tx.inputs \subseteq OutPoints,
         \A q \in DOMAIN tx.outputs : tx.outputs[q] \in RegistryCell
  PROVE  LET c == tx.outputs[p] IN
         /\ c.args \in LockHashes
         /\ c.args \in InputLocks(tx)
         /\ c.lock = c.args
         /\ c.data # Malformed
         /\ \A q \in DOMAIN tx.outputs : tx.outputs[q].args = c.args => q = p
         /\ \/ /\ Predecessors(tx, p) = {}
               /\ CreationResult(c.data, c.args) = Ok
            \/ \E q \in tx.inputs :
                 /\ Predecessors(tx, p) = {q}
                 /\ cell[q].data # Malformed
                 /\ UpdateResult(cell[q].data, c.data, c.args) = Ok
  <1> DEFINE a == tx.outputs[p].args
             gin == Group(InputCells(tx), a)
             gout == Group(tx.outputs, a)
  <1>1. ScriptResult(a, gin, gout, InputLocks(tx)) = Ok
    BY DEF Accepts, ScriptArgs
  <1>2. DOMAIN gout = {q \in DOMAIN tx.outputs : tx.outputs[q].args = a}
    BY DEF Group
  <1>3. DOMAIN gin = Predecessors(tx, p)
    BY DEF Group, InputCells, Predecessors
  <1>4. \A q \in DOMAIN gout : gout[q] = tx.outputs[q]
    BY DEF Group
  <1>5. \A q \in DOMAIN gin : q \in tx.inputs /\ gin[q] = cell[q]
    BY DEF Group, InputCells
  <1> HIDE DEF a, gin, gout
  <1>good. GoodGroup(a, gin, gout, InputLocks(tx))
    BY <1>1, GroupAccepted
  <1>6. PICK r : /\ a \in LockHashes
                 /\ a \in InputLocks(tx)
                 /\ DOMAIN gout = {r}
                 /\ gout[r].lock = a
                 /\ gout[r].data # Malformed
                 /\ \/ /\ DOMAIN gin = {}
                       /\ CreationResult(gout[r].data, a) = Ok
                    \/ \E q : /\ DOMAIN gin = {q}
                              /\ gin[q].data # Malformed
                              /\ UpdateResult(gin[q].data, gout[r].data, a) = Ok
    BY <1>good DEF GoodGroup
  <1>7. r = p
    BY <1>2, <1>6 DEF a
  <1>8. \A q \in DOMAIN tx.outputs : tx.outputs[q].args = a => q = p
    BY <1>2, <1>6, <1>7
  <1>9. gout[p] = tx.outputs[p]
    BY <1>4, <1>6, <1>7
  <1>10. \/ /\ Predecessors(tx, p) = {}
            /\ CreationResult(tx.outputs[p].data, a) = Ok
         \/ \E q \in tx.inputs :
              /\ Predecessors(tx, p) = {q}
              /\ cell[q].data # Malformed
              /\ UpdateResult(cell[q].data, tx.outputs[p].data, a) = Ok
    <2>1. CASE DOMAIN gin = {}
      BY <2>1, <1>3, <1>6, <1>7, <1>9
    <2>2. CASE DOMAIN gin # {}
      <3>1. PICK q : /\ DOMAIN gin = {q}
                     /\ gin[q].data # Malformed
                     /\ UpdateResult(gin[q].data, gout[p].data, a) = Ok
        BY <2>2, <1>6, <1>7
      <3>2. q \in tx.inputs /\ gin[q] = cell[q]
        BY <3>1, <1>5
      <3>3. QED
        BY <3>1, <3>2, <1>3, <1>9
    <2>3. QED
      BY <2>1, <2>2
  <1>11. QED
    BY <1>6, <1>7, <1>8, <1>9, <1>10 DEF a

\* No record is destroyed or split: every input continues in exactly one
\* output, which has no other predecessor.
LEMMA InputContinued ==
  ASSUME NEW tx, Accepts(tx), NEW q \in tx.inputs,
         tx.inputs \subseteq OutPoints,
         \A p \in DOMAIN tx.outputs : tx.outputs[p] \in RegistryCell
  PROVE  \E p \in DOMAIN tx.outputs :
           /\ tx.outputs[p].args = cell[q].args
           /\ Predecessors(tx, p) = {q}
  <1> DEFINE a == cell[q].args
             gin == Group(InputCells(tx), a)
             gout == Group(tx.outputs, a)
  <1>1. ScriptResult(a, gin, gout, InputLocks(tx)) = Ok
    BY DEF Accepts, ScriptArgs
  <1>2. DOMAIN gout = {p \in DOMAIN tx.outputs : tx.outputs[p].args = a}
    BY DEF Group
  <1> HIDE DEF a, gin, gout
  <1>3. GoodGroup(a, gin, gout, InputLocks(tx))
    BY <1>1, GroupAccepted
  <1>4. PICK p : DOMAIN gout = {p}
    BY <1>3 DEF GoodGroup
  <1>5. p \in DOMAIN tx.outputs /\ tx.outputs[p].args = a
    BY <1>2, <1>4
  <1>6. q \in Predecessors(tx, p)
    BY <1>5 DEF Predecessors, a
  <1>7. Predecessors(tx, p) = {q}
    BY <1>5, <1>6, OutputAccepted
  <1>8. QED
    BY <1>5, <1>7 DEF a

-----------------------------------------------------------------------------
(* The inductive invariant of the registry.                                *)

\* The registrations and the live cells are in one-to-one correspondence, and
\* an out-point not created yet belongs to no registration.
RootInv ==
  /\ \A p \in OutPoints : cell[p] = NoCell => root[p] = NoCell
  /\ \A p \in OutPoints : root[p] # NoCell => cell[root[p]] # NoCell
  /\ \A p \in live : root[p] # NoCell /\ root[root[p]] = root[p]
  /\ \A p, q \in live : root[p] = root[q] => p = q
  /\ \A r \in OutPoints : root[r] = r => \E p \in live : root[p] = r

IInv ==
  /\ TypeOK
  /\ LiveRecordsCanonical
  /\ WrittenByIssuer
  /\ RootInv

\* What the variables hold after a transaction, output by output.
LEMMA CommitValues ==
  ASSUME TypeOK, NEW tx, WellFormed(tx), Commit(tx)
  PROVE  /\ tx.inputs \subseteq OutPoints
         /\ DOMAIN tx.outputs \subseteq OutPoints
         /\ \A p \in DOMAIN tx.outputs : tx.outputs[p] \in RegistryCell /\ cell[p] = NoCell
         /\ DOMAIN tx.outputs \cap live = {}
         /\ InputLocks(tx) \subseteq LockHashes
         /\ live' = (live \ tx.inputs) \cup DOMAIN tx.outputs
         /\ \A p \in OutPoints : p \notin DOMAIN tx.outputs =>
              cell'[p] = cell[p] /\ root'[p] = root[p] /\ signers'[p] = signers[p]
         /\ \A p \in DOMAIN tx.outputs :
              /\ cell'[p] = tx.outputs[p]
              /\ signers'[p] = InputLocks(tx)
              /\ Predecessors(tx, p) = {} => root'[p] = p
              /\ \A q \in OutPoints : Predecessors(tx, p) = {q} => root'[p] = root[q]
  <1>1. /\ tx.inputs \subseteq live
        /\ tx.payers \subseteq LockHashes
        /\ DOMAIN tx.outputs \subseteq Unused
        /\ \A p \in DOMAIN tx.outputs : tx.outputs[p] \in RegistryCell
    BY DEF WellFormed, Commit
  <1>2. /\ tx.inputs \subseteq OutPoints
        /\ DOMAIN tx.outputs \subseteq OutPoints
        /\ \A p \in DOMAIN tx.outputs : cell[p] = NoCell
        /\ DOMAIN tx.outputs \cap live = {}
    BY <1>1 DEF TypeOK, Unused
  <1>3. InputLocks(tx) \subseteq LockHashes
    <2>1. \A q \in tx.inputs : cell[q] \in RegistryCell
      BY <1>1, <1>2 DEF TypeOK
    <2>2. QED
      BY <1>1, <2>1 DEF InputLocks, RegistryCell
  <1>4. /\ live' = (live \ tx.inputs) \cup DOMAIN tx.outputs
        /\ \A p \in OutPoints : p \notin DOMAIN tx.outputs =>
             cell'[p] = cell[p] /\ root'[p] = root[p] /\ signers'[p] = signers[p]
        /\ \A p \in DOMAIN tx.outputs :
             cell'[p] = tx.outputs[p] /\ signers'[p] = InputLocks(tx) /\ root'[p] = RootOf(tx, p)
    BY <1>2 DEF Commit
  <1>5. ASSUME NEW p \in DOMAIN tx.outputs, Predecessors(tx, p) = {}
        PROVE  root'[p] = p
    BY <1>4, <1>5 DEF RootOf
  <1>6. ASSUME NEW p \in DOMAIN tx.outputs, NEW q \in OutPoints, Predecessors(tx, p) = {q}
        PROVE  root'[p] = root[q]
    <2>1. (CHOOSE r \in {q} : TRUE) = q
      OBVIOUS
    <2>2. QED
      BY <1>4, <1>6, <2>1 DEF RootOf
  <1>7. QED
    BY <1>1, <1>2, <1>3, <1>4, <1>5, <1>6

\* The empty registry satisfies the inductive invariant.
LEMMA InitInvariant == Init => IInv
  BY NoCellNotPoint
  DEF Init, IInv, TypeOK, LiveRecordsCanonical, WrittenByIssuer, RootInv

\* A committed transaction leaves the variables well-typed.
LEMMA TypeStep ==
  ASSUME IInv, NEW tx, WellFormed(tx), Commit(tx)
  PROVE  TypeOK'
  <1>1. TypeOK
    BY DEF IInv
  <1> USE CommitValues
  <1>2. cell' \in [OutPoints -> RegistryCell \cup {NoCell}]
    <2>1. \A p \in OutPoints : cell'[p] \in RegistryCell \cup {NoCell}
      BY <1>1 DEF TypeOK
    <2>2. QED
      BY <2>1 DEF Commit
  <1>3. live' \in SUBSET OutPoints
    BY <1>1 DEF TypeOK
  <1>4. \A p \in live' : cell'[p] # NoCell
    BY <1>1, NoCellAssumption DEF TypeOK
  <1>5. root' \in [OutPoints -> OutPoints \cup {NoCell}]
    <2>1. ASSUME NEW p \in DOMAIN tx.outputs
          PROVE  root'[p] \in OutPoints \cup {NoCell}
      <3>1. CASE Predecessors(tx, p) = {}
        BY <1>1, <3>1
      <3>2. CASE \E q \in tx.inputs : Predecessors(tx, p) = {q}
        BY <1>1, <3>2 DEF TypeOK
      <3>3. QED
        BY <1>1, <3>1, <3>2, OutputAccepted DEF Commit
    <2>2. \A p \in OutPoints : root'[p] \in OutPoints \cup {NoCell}
      BY <1>1, <2>1 DEF TypeOK
    <2>3. QED
      BY <2>2 DEF Commit
  <1>6. signers' \in [OutPoints -> SUBSET LockHashes]
    <2>1. \A p \in OutPoints : signers'[p] \in SUBSET LockHashes
      BY <1>1 DEF TypeOK
    <2>2. QED
      BY <2>1 DEF Commit
  <1>7. QED
    BY <1>2, <1>3, <1>4, <1>5, <1>6 DEF TypeOK

\* A record that is clean ACTIVE, or REVOKED with a reason and a time, passes
\* validateRevocationRecord.
LEMMA RecordErrorsNone ==
  ASSUME NEW r \in Record, NEW issuer,
         r.version = VERSION, r.issuerLockHash = issuer,
         \/ r.status = STATUS_ACTIVE /\ r.reasonCode = 0 /\ r.revokedAt = 0
         \/ r.status = STATUS_REVOKED /\ r.reasonCode # 0 /\ r.revokedAt # 0
  PROVE  RecordErrors(r, issuer, r.credentialId) = {}
  BY DEF RecordErrors, STATUS_ACTIVE, STATUS_REVOKED

\* A committed transaction leaves every live record canonical and signed for:
\* its outputs by the script's checks, the other cells because nothing touches them.
LEMMA CanonicalStep ==
  ASSUME IInv, NEW tx, WellFormed(tx), Commit(tx)
  PROVE  LiveRecordsCanonical' /\ WrittenByIssuer'
  <1>1. TypeOK
    BY DEF IInv
  <1> DEFINE Fine(p) ==
        /\ cell'[p].args \in LockHashes
        /\ cell'[p].lock = cell'[p].args
        /\ cell'[p].data # Malformed
        /\ RecordErrors(cell'[p].data, cell'[p].args, cell'[p].data.credentialId) = {}
        /\ cell'[p].data.issuerLockHash \in signers'[p]
  <1>2. ASSUME NEW p \in DOMAIN tx.outputs
        PROVE  Fine(p)
    <2> DEFINE c == tx.outputs[p]
    <2>1. c = cell'[p] /\ c \in RegistryCell /\ signers'[p] = InputLocks(tx)
      BY <1>1, CommitValues
    <2>2. /\ c.args \in LockHashes
          /\ c.args \in InputLocks(tx)
          /\ c.lock = c.args
          /\ c.data # Malformed
          /\ \/ CreationResult(c.data, c.args) = Ok
             \/ \E q \in tx.inputs : UpdateResult(cell[q].data, c.data, c.args) = Ok
      BY <1>1, CommitValues, OutputAccepted DEF Commit
    <2>3. c.data \in Record
      BY <2>1, <2>2 DEF RegistryCell
    <2> HIDE DEF c
    <2>4. CASE CreationResult(c.data, c.args) = Ok
      <3>1. RecordErrors(c.data, c.args, c.data.credentialId) = {}
        BY <2>3, <2>4, CreationAccepted, RecordErrorsNone
      <3>2. c.data.issuerLockHash = c.args
        BY <2>4, CreationAccepted
      <3>3. QED
        BY <2>1, <2>2, <3>1, <3>2
    <2>5. CASE \E q \in tx.inputs : UpdateResult(cell[q].data, c.data, c.args) = Ok
      <3>1. RecordErrors(c.data, c.args, c.data.credentialId) = {}
        BY <2>3, <2>5, UpdateAccepted, RecordErrorsNone
      <3>2. c.data.issuerLockHash = c.args
        BY <2>5, UpdateAccepted
      <3>3. QED
        BY <2>1, <2>2, <3>1, <3>2
    <2>6. QED
      BY <2>2, <2>4, <2>5
  <1>3. ASSUME NEW p \in live, p \notin DOMAIN tx.outputs
        PROVE  Fine(p)
    <2>1. p \in OutPoints
      BY <1>1 DEF TypeOK
    <2>2. cell'[p] = cell[p] /\ signers'[p] = signers[p]
      BY <1>1, <1>3, <2>1, CommitValues
    <2>3. QED
      BY <2>2 DEF IInv, LiveRecordsCanonical, WrittenByIssuer
  <1>4. \A p \in live' : Fine(p)
    BY <1>1, <1>2, <1>3, CommitValues
  <1>5. QED
    BY <1>4 DEF LiveRecordsCanonical, WrittenByIssuer

\* An output of a committed transaction is the first cell of a new registration,
\* or takes over the registration of the one input it spends.
LEMMA OutputRoot ==
  ASSUME IInv, NEW tx, WellFormed(tx), Commit(tx), NEW p \in DOMAIN tx.outputs
  PROVE  \/ /\ Predecessors(tx, p) = {}
            /\ root'[p] = p
            /\ CreationResult(tx.outputs[p].data, tx.outputs[p].args) = Ok
         \/ \E q \in tx.inputs :
              /\ Predecessors(tx, p) = {q}
              /\ root'[p] = root[q]
              /\ UpdateResult(cell[q].data, tx.outputs[p].data, tx.outputs[p].args) = Ok
  <1>1. TypeOK /\ Accepts(tx)
    BY DEF IInv, Commit
  <1>2. QED
    BY <1>1, CommitValues, OutputAccepted

\* A committed transaction keeps registrations and live cells in one-to-one
\* correspondence.
LEMMA RootStep ==
  ASSUME IInv, NEW tx, WellFormed(tx), Commit(tx)
  PROVE  RootInv'
  <1> DEFINE new == DOMAIN tx.outputs
  <1>1. /\ TypeOK
        /\ RootInv
        /\ Accepts(tx)
        /\ tx.inputs \subseteq live
    BY DEF IInv, Commit
  <1>2. /\ \A p \in new : p \in OutPoints /\ cell[p] = NoCell /\ cell'[p] # NoCell
        /\ \A p \in OutPoints : p \notin new => cell'[p] = cell[p] /\ root'[p] = root[p]
        /\ live' = (live \ tx.inputs) \cup new
        /\ new \cap live = {}
    BY <1>1, CommitValues, NoCellAssumption
  <1>3. \A p \in new :
          \/ Predecessors(tx, p) = {} /\ root'[p] = p
          \/ \E q \in tx.inputs : Predecessors(tx, p) = {q} /\ root'[p] = root[q]
    BY OutputRoot
  \* the registrations that existed before are not out-points created now
  <1>4. \A p \in OutPoints : root[p] # NoCell => root[p] \in OutPoints /\ root[p] \notin new
    BY <1>1, <1>2 DEF TypeOK, RootInv
  <1>5. \A p \in live : p \in OutPoints /\ p \notin new /\ root[p] # NoCell
    BY <1>1, <1>2 DEF TypeOK, RootInv
  <1> HIDE DEF new
  <1>6. \A p \in OutPoints : cell'[p] = NoCell => root'[p] = NoCell
    BY <1>1, <1>2 DEF RootInv
  <1>7. ASSUME NEW p \in OutPoints, root'[p] # NoCell
        PROVE  cell'[root'[p]] # NoCell
    <2>1. CASE p \notin new
      BY <1>1, <1>2, <1>4, <1>7, <2>1 DEF RootInv
    <2>2. CASE p \in new /\ root'[p] = p
      BY <1>2, <2>2
    <2>3. CASE \E q \in tx.inputs : root'[p] = root[q]
      BY <1>1, <1>2, <1>4, <1>5, <2>3 DEF RootInv
    <2>4. QED
      BY <1>3, <2>1, <2>2, <2>3
  <1>8. ASSUME NEW p \in live'
        PROVE  root'[p] # NoCell /\ root'[root'[p]] = root'[p]
    <2>1. CASE p \notin new
      BY <1>1, <1>2, <1>4, <1>5, <2>1 DEF RootInv
    <2>2. CASE p \in new /\ root'[p] = p
      BY <1>2, <2>2, NoCellNotPoint
    <2>3. CASE \E q \in tx.inputs : root'[p] = root[q]
      BY <1>1, <1>2, <1>4, <1>5, <2>3 DEF RootInv
    <2>4. QED
      BY <1>3, <2>1, <2>2, <2>3
  <1>9. ASSUME NEW p \in live', NEW q \in live', root'[p] = root'[q]
        PROVE  p = q
    <2>1. ASSUME NEW a \in live', NEW b \in live', a \notin new, root'[a] = root'[b]
          PROVE  a = b
      <3>1. a \in live /\ a \notin tx.inputs /\ root'[a] = root[a] /\ root[a] \notin new
        BY <1>2, <1>4, <1>5, <2>1
      <3>2. CASE b \notin new
        <4>1. b \in live /\ root'[b] = root[b]
          BY <1>2, <1>5, <2>1, <3>2
        <4>2. root[a] = root[b]
          BY <2>1, <3>1, <4>1
        <4>3. QED
          BY <1>1, <3>1, <4>1, <4>2 DEF RootInv
      <3>3. CASE b \in new /\ root'[b] = b
        BY <2>1, <3>1, <3>3
      <3>4. CASE \E r \in tx.inputs : root'[b] = root[r]
        BY <1>1, <2>1, <3>1, <3>4 DEF RootInv
      <3>5. QED
        BY <1>3, <3>2, <3>3, <3>4
    <2>2. CASE p \in new /\ q \in new
      <3>1. CASE root'[p] = p \/ root'[q] = q
        BY <1>1, <1>2, <1>3, <1>4, <1>5, <1>9, <2>2, <3>1
      <3>2. CASE root'[p] # p /\ root'[q] # q
        <4>1. PICK a \in tx.inputs : Predecessors(tx, p) = {a} /\ root'[p] = root[a]
          BY <1>3, <2>2, <3>2
        <4>2. PICK b \in tx.inputs : Predecessors(tx, q) = {b} /\ root'[q] = root[b]
          BY <1>3, <2>2, <3>2
        <4>3. a = b
          BY <1>1, <1>9, <4>1, <4>2 DEF RootInv
        <4>4. tx.outputs[p].args = tx.outputs[q].args
          BY <4>1, <4>2, <4>3 DEF Predecessors
        <4>5. QED
          BY <1>1, <2>2, <4>4, CommitValues, OutputAccepted DEF new
      <3>3. QED
        BY <3>1, <3>2
    <2>3. QED
      BY <1>9, <2>1, <2>2
  <1>10. ASSUME NEW r \in OutPoints, root'[r] = r
         PROVE  \E p \in live' : root'[p] = r
    <2>1. CASE r \in new
      BY <1>2, <1>10, <2>1
    <2>2. CASE r \notin new
      <3>1. PICK p \in live : root[p] = r
        BY <1>1, <1>2, <1>10, <2>2 DEF RootInv
      <3>2. CASE p \notin tx.inputs
        BY <1>2, <1>5, <3>1, <3>2
      <3>3. CASE p \in tx.inputs
        <4>1. PICK s \in new : Predecessors(tx, s) = {p}
          BY <1>1, <3>3, CommitValues, InputContinued DEF new
        <4>2. QED
          BY <1>2, <1>3, <3>1, <4>1
      <3>4. QED
        BY <3>2, <3>3
    <2>3. QED
      BY <2>1, <2>2
  <1>11. QED
    BY <1>6, <1>7, <1>8, <1>9, <1>10 DEF RootInv

\* A committed transaction preserves the inductive invariant, whoever made it.
LEMMA CommitInvariant ==
  ASSUME IInv, NEW tx, WellFormed(tx), Commit(tx)
  PROVE  IInv'
  BY TypeStep, CanonicalStep, RootStep DEF IInv

\* The inductive invariant is preserved by every transaction.
LEMMA InvariantStep == IInv /\ [Next]_registryVars => IInv'
  <1> SUFFICES ASSUME IInv, [Next]_registryVars
               PROVE  IInv'
    OBVIOUS
  <1>1. CASE Next
    <2>1. PICK tx \in Transactions : Commit(tx)
      BY <1>1 DEF Next
    <2>2. QED
      BY <2>1, CommitInvariant, TransactionType
  <1>2. CASE UNCHANGED registryVars
    BY <1>2 DEF registryVars, IInv, TypeOK, LiveRecordsCanonical, WrittenByIssuer, RootInv
  <1>3. QED
    BY <1>1, <1>2

\* The inductive invariant holds of every reachable registry, whatever
\* transactions wallets submit to the Type Script.
THEOREM Invariance == Spec => []IInv
  <1>1. QED
    BY InitInvariant, InvariantStep, PTL DEF Spec

\* The registry variables keep their types, whatever cells wallets try to
\* create and spend.
THEOREM TypeCorrect == Spec => []TypeOK
  <1>1. IInv => TypeOK
    BY DEF IInv
  <1>2. QED
    BY <1>1, Invariance, PTL

\* Every live registry cell passes validateRevocationRecord and is under its
\* issuer's own lock and script args.
THEOREM RecordsCanonical == Spec => []LiveRecordsCanonical
  <1>1. IInv => LiveRecordsCanonical
    BY DEF IInv
  <1>2. QED
    BY <1>1, Invariance, PTL

\* The issuer a live record names unlocked an input of the transaction that
\* wrote it.
THEOREM OnlyIssuersWrite == Spec => []WrittenByIssuer
  <1>1. IInv => WrittenByIssuer
    BY DEF IInv
  <1>2. QED
    BY <1>1, Invariance, PTL

\* A registration is carried by exactly one live cell for ever.
THEOREM RegistrationsNeverLost == Spec => []OneLiveCellPerRegistration
  <1>1. IInv => OneLiveCellPerRegistration
    BY DEF IInv, RootInv, OneLiveCellPerRegistration
  <1>2. QED
    BY <1>1, Invariance, PTL

\* What RecordErrors leaves of a canonical record: its version, its issuer and
\* the revocation fields its status asks for.
LEMMA NoRecordErrors ==
  ASSUME NEW r, NEW issuer, NEW k, RecordErrors(r, issuer, k) = {}
  PROVE  /\ r.version = VERSION
         /\ r.status \in {STATUS_ACTIVE, STATUS_REVOKED}
         /\ r.credentialId = k
         /\ r.issuerLockHash = issuer
  BY DEF RecordErrors

\* The script accepts the revocation of a canonical ACTIVE record by a
\* transaction that spends nothing but that record.
LEMMA RevocationAccepted ==
  ASSUME IInv, NEW p \in live, NEW q,
         cell[p].data # Malformed, cell[p].data.status = STATUS_ACTIVE
  PROVE  /\ Accepts(RevokeTx(p, q))
         /\ InputLocks(RevokeTx(p, q)) = {cell[p].data.issuerLockHash}
  <1> DEFINE a == cell[p].args
             old == cell[p].data
             new == [old EXCEPT !.status = STATUS_REVOKED, !.reasonCode = 1, !.revokedAt = 1]
             tx == RevokeTx(p, q)
             gin == Group(InputCells(tx), a)
             gout == Group(tx.outputs, a)
  <1>1. /\ cell[p] \in RegistryCell
        /\ a \in LockHashes
        /\ cell[p].lock = a
        /\ RecordErrors(old, a, old.credentialId) = {}
    BY DEF IInv, TypeOK, LiveRecordsCanonical
  <1>2. old \in Record
    BY <1>1 DEF RegistryCell
  <1>3. /\ old.version = VERSION
        /\ old.status = STATUS_ACTIVE
        /\ old.issuerLockHash = a
    BY <1>1, NoRecordErrors
  <1>4. UpdateResult(old, new, a) = Ok /\ new \in Record
    <2> HIDE DEF old, a
    <2>1. new \in Record
      BY <1>2 DEF Record, STATUS_REVOKED
    <2>2. /\ new.version = old.version
          /\ new.credentialId = old.credentialId
          /\ new.issuerLockHash = old.issuerLockHash
          /\ new.status = STATUS_REVOKED
          /\ new.reasonCode = 1
          /\ new.revokedAt = 1
      BY <1>2 DEF Record
    <2> HIDE DEF new
    <2>3. CommonResult(old, a) = Ok /\ CommonResult(new, a) = Ok
      BY <1>3, <2>2 DEF CommonResult
    <2>4. UpdateResult(old, new, a) = Ok
      BY <1>3, <2>2, <2>3 DEF UpdateResult
    <2>5. QED
      BY <2>1, <2>4
  <1>5. /\ tx.inputs = {p}
        /\ tx.payers = {}
        /\ DOMAIN tx.outputs = {q}
        /\ tx.outputs[q].args = a
        /\ tx.outputs[q].lock = a
        /\ tx.outputs[q].data = new
    BY <1>1 DEF RevokeTx, RegistryCell
  <1> HIDE DEF tx, new
  <1>6. InputLocks(tx) = {a}
    BY <1>1, <1>5 DEF InputLocks
  <1>7. ScriptArgs(tx) = {a}
    BY <1>5 DEF ScriptArgs
  <1>8. DOMAIN gin = {p} /\ gin[p] = cell[p]
    BY <1>5 DEF Group, InputCells
  <1>9. DOMAIN gout = {q} /\ gout[q] = tx.outputs[q]
    BY <1>5 DEF Group
  <1> HIDE DEF gin, gout
  <1>10. Only(gin) = cell[p] /\ Only(gout) = tx.outputs[q]
    BY <1>8, <1>9, OnlyCell
  <1>11. /\ IsSingle(gin) /\ IsSingle(gout) /\ ~IsEmpty(gin)
         /\ GroupLocked(gin, a) /\ GroupLocked(gout, a)
         /\ Decodable(gin) /\ Decodable(gout)
         /\ Authorized(a, {a})
    BY <1>1, <1>4, <1>5, <1>8, <1>9, MalformedAssumption
    DEF IsSingle, IsEmpty, GroupLocked, Decodable, Authorized
  <1>12. ScriptResult(a, gin, gout, {a}) = Ok
    BY <1>1, <1>4, <1>5, <1>10, <1>11 DEF ScriptResult
  <1>13. Accepts(tx)
    BY <1>6, <1>7, <1>12 DEF Accepts, gin, gout
  <1>14. QED
    BY <1>3, <1>6, <1>13 DEF tx

\* No record can be frozen: its issuer alone can revoke an ACTIVE record.
THEOREM NeverFrozen == Spec => []ActiveRecordsRevocable
  <1>1. IInv => ActiveRecordsRevocable
    BY RevocationAccepted DEF ActiveRecordsRevocable
  <1>2. QED
    BY <1>1, Invariance, PTL

-----------------------------------------------------------------------------
(* The registry implements the lineage it promises.                        *)

\* What the abstract value of a registration is, in terms of its live cell.
ViewFact ==
  IInv =>
    /\ \A p \in live : LineageView[root[p]] = StatementOf(cell[p]) /\ root[p] \in OutPoints
    /\ \A r \in OutPoints : (\A p \in live : root[p] # r) => LineageView[r] = NoCell

\* The one-to-one correspondence makes the abstract value of a registration
\* well defined.
LEMMA ViewFactHolds == ViewFact
  <1> SUFFICES ASSUME IInv
               PROVE  /\ \A p \in live : /\ LineageView[root[p]] = StatementOf(cell[p])
                                         /\ root[p] \in OutPoints
                      /\ \A r \in OutPoints :
                           (\A p \in live : root[p] # r) => LineageView[r] = NoCell
    BY DEF ViewFact
  <1>1. ASSUME NEW p \in live
        PROVE  LineageView[root[p]] = StatementOf(cell[p]) /\ root[p] \in OutPoints
    <2>1. root[p] \in OutPoints
      BY DEF IInv, TypeOK, RootInv
    <2>2. CarriersOf(root[p]) = {p}
      BY DEF IInv, RootInv, CarriersOf
    <2>3. (CHOOSE q \in {p} : TRUE) = p
      OBVIOUS
    <2>4. QED
      BY <2>1, <2>2, <2>3 DEF LineageView
  <1>2. ASSUME NEW r \in OutPoints, \A p \in live : root[p] # r
        PROVE  LineageView[r] = NoCell
    <2>1. CarriersOf(r) = {}
      BY <1>2 DEF CarriersOf
    <2>2. QED
      BY <2>1 DEF LineageView
  <1>3. QED
    BY <1>1, <1>2

\* A live record says a well-formed statement of its issuer.
StatementFact == IInv => \A p \in live : StatementOf(cell[p]) \in Abstract!Statement

\* Canonical records are statements of the abstract specification.
LEMMA StatementFactHolds == StatementFact
  <1> SUFFICES ASSUME IInv, NEW p \in live
               PROVE  StatementOf(cell[p]) \in Abstract!Statement
    BY DEF StatementFact
  <1>1. cell[p] \in RegistryCell /\ cell[p].args \in LockHashes /\ cell[p].data # Malformed
    BY DEF IInv, TypeOK, LiveRecordsCanonical
  <1>2. cell[p].data.credentialId \in CredentialHashes
    BY <1>1 DEF RegistryCell, Record
  <1>3. QED
    BY <1>1, <1>2 DEF StatementOf, Abstract!Statement

\* The empty registry has no lineage.
LEMMA LineageInit == Init => Abstract!Init
  BY DEF Init, Abstract!Init, LineageView, CarriersOf

\* Each transaction registers new lineages, revokes ACTIVE ones, and leaves the
\* others as they are.
LEMMA LineageStep ==
  ASSUME IInv, IInv', NEW tx, WellFormed(tx), Commit(tx)
  PROVE  Abstract!Next
  <1> DEFINE new == DOMAIN tx.outputs
  <1>1. /\ TypeOK
        /\ RootInv
        /\ Accepts(tx)
        /\ tx.inputs \subseteq live
    BY DEF IInv, Commit
  <1>2. /\ \A p \in new : p \in OutPoints /\ cell'[p] = tx.outputs[p]
        /\ \A p \in live : p \in OutPoints /\ p \notin new /\ cell'[p] = cell[p] /\ root'[p] = root[p]
        /\ live' = (live \ tx.inputs) \cup new
    BY <1>1, CommitValues DEF TypeOK
  <1>3. /\ \A p \in live : LineageView[root[p]] = StatementOf(cell[p]) /\ root[p] \in OutPoints
        /\ \A r \in OutPoints : (\A p \in live : root[p] # r) => LineageView[r] = NoCell
    BY ViewFactHolds DEF ViewFact
  <1>4. /\ \A p \in live' : LineageView'[root'[p]] = StatementOf(cell'[p])
        /\ \A r \in OutPoints : (\A p \in live' : root'[p] # r) => LineageView'[r] = NoCell
    <2>1. ViewFact'
      BY ViewFactHolds, PTL
    <2>2. QED
      BY <2>1 DEF ViewFact, StatementOf
  <1>5. \A p \in live : StatementOf(cell[p]) \in Abstract!Statement
    BY StatementFactHolds DEF StatementFact
  <1>6. \A p \in live' : StatementOf(cell'[p]) \in Abstract!Statement
    <2>1. StatementFact'
      BY StatementFactHolds, PTL
    <2>2. QED
      BY <2>1 DEF StatementFact, StatementOf
  <1>7. ASSUME NEW r \in OutPoints
        PROVE  LineageView'[r] = LineageView[r] \/ Abstract!Registered(r) \/ Abstract!Revoked(r)
    <2>1. CASE \E p \in live : root[p] = r
      <3>1. PICK p \in live : root[p] = r
        BY <2>1
      <3>2. LineageView[r] = StatementOf(cell[p])
        BY <1>3, <3>1
      <3>3. CASE p \notin tx.inputs
        <4>1. p \in live' /\ root'[p] = r /\ cell'[p] = cell[p]
          BY <1>2, <3>1, <3>3
        <4>2. QED
          BY <1>4, <3>2, <4>1 DEF StatementOf
      <3>4. CASE p \in tx.inputs
        <4>1. PICK s \in new : Predecessors(tx, s) = {p} /\ tx.outputs[s].args = cell[p].args
          BY <1>1, <3>4, CommitValues, InputContinued
        <4>2. /\ root'[s] = r
              /\ UpdateResult(cell[p].data, tx.outputs[s].data, tx.outputs[s].args) = Ok
          BY <3>1, <4>1, OutputRoot
        <4>3. s \in live' /\ cell'[s] = tx.outputs[s]
          BY <1>2, <4>1
        <4>4. LineageView'[r] = StatementOf(tx.outputs[s])
          BY <1>4, <4>2, <4>3
        <4>5. StatementOf(tx.outputs[s]) = [StatementOf(cell[p]) EXCEPT !.status = "REVOKED"]
          BY <4>1, <4>2, UpdateAccepted DEF StatementOf, STATUS_ACTIVE, STATUS_REVOKED
        <4>6. StatementOf(cell[p]).status = "ACTIVE"
          BY <4>2, UpdateAccepted DEF StatementOf
        <4>7. QED
          BY <1>5, <3>1, <3>2, <4>4, <4>5, <4>6 DEF Abstract!Revoked
      <3>5. QED
        BY <3>3, <3>4
    <2>2. CASE ~ \E p \in live : root[p] = r
      <3>1. LineageView[r] = NoCell
        BY <1>3, <2>2
      <3>2. CASE \E s \in live' : root'[s] = r
        <4>1. PICK s \in live' : root'[s] = r
          BY <3>2
        <4>2. s \in new
          BY <1>2, <2>2, <4>1
        <4>3. CreationResult(tx.outputs[s].data, tx.outputs[s].args) = Ok
          BY <1>1, <2>2, <4>1, <4>2, OutputRoot
        <4>4. LineageView'[r] = StatementOf(cell'[s]) /\ cell'[s] = tx.outputs[s]
          BY <1>2, <1>4, <4>1, <4>2
        <4>5. StatementOf(cell'[s]).status = "ACTIVE"
          BY <4>3, <4>4, CreationAccepted DEF StatementOf
        <4>6. QED
          BY <1>6, <3>1, <4>1, <4>4, <4>5 DEF Abstract!Registered
      <3>3. CASE ~ \E s \in live' : root'[s] = r
        BY <1>4, <3>1, <3>3
      <3>4. QED
        BY <3>2, <3>3
    <2>3. QED
      BY <2>1, <2>2
  <1>8. DOMAIN LineageView' = OutPoints
    BY DEF LineageView
  <1>9. QED
    BY <1>7, <1>8 DEF Abstract!Next

\* Whatever transactions wallets submit, every registration behaves as
\* CellLineage says: ACTIVE, then at most once REVOKED, its issuer and
\* credential fixed, never gone.
THEOREM Implementation == Spec => RegistryImplementsLineage
  <1>1. Init => Abstract!Init
    BY LineageInit
  <1>2. IInv /\ IInv' /\ [Next]_registryVars => [Abstract!Next]_LineageView
    <2> SUFFICES ASSUME IInv, IInv', [Next]_registryVars
                 PROVE  [Abstract!Next]_LineageView
      OBVIOUS
    <2>1. CASE Next
      BY <2>1, LineageStep, TransactionType DEF Next
    <2>2. CASE UNCHANGED registryVars
      BY <2>2 DEF registryVars, LineageView, CarriersOf, StatementOf
    <2>3. QED
      BY <2>1, <2>2
  <1>3. QED
    BY <1>1, <1>2, Invariance, PTL DEF Spec, RegistryImplementsLineage, Abstract!Spec

-----------------------------------------------------------------------------
(* The clients: what they read off the chain.                              *)

\* The out-points of the records of k in a view of the chain.
RecordsOf(view, k) == DOMAIN FindLiveRecords(view, k)

\* What findLiveRecords returns.
LEMMA Found ==
  ASSUME NEW view, NEW k
  PROVE  /\ RecordsOf(view, k) = {q \in view : /\ cell[q].args = Issuer
                                               /\ cell[q].data # Malformed
                                               /\ cell[q].data.credentialId = k}
         /\ \A p \in RecordsOf(view, k) : FindLiveRecords(view, k)[p] = cell[p].data
  BY DEF RecordsOf, FindLiveRecords

\* summarizeLiveRecords returns one of its statuses, NOT_FOUND for no record and
\* only for none, CONFLICT_DUPLICATE for several and only for several.
LEMMA StatusCases ==
  ASSUME NEW view, NEW k
  PROVE  /\ Status(view, k) \in Statuses
         /\ Status(view, k) = "NOT_FOUND" <=> RecordsOf(view, k) = {}
         /\ Status(view, k) = "CONFLICT_DUPLICATE" <=> \E p, q \in RecordsOf(view, k) : p # q
  BY DEF Status, Summarize, Statuses, RecordsOf

\* The records of k in a view are canonical.
Clean(view, k) == \A p \in RecordsOf(view, k) : RecordErrors(cell[p].data, Issuer, k) = {}

\* A single canonical record gives its own status.
LEMMA StatusOfOne ==
  ASSUME NEW view, NEW k, Clean(view, k), NEW p, RecordsOf(view, k) = {p}
  PROVE  Status(view, k) = IF cell[p].data.status = STATUS_ACTIVE THEN "ACTIVE" ELSE "REVOKED"
  <1> DEFINE matches == FindLiveRecords(view, k)
             valid == {q \in DOMAIN matches : RecordErrors(matches[q], Issuer, k) = {}}
             active == {q \in valid : matches[q].status = STATUS_ACTIVE}
  <1>1. DOMAIN matches = {p} /\ matches[p] = cell[p].data
    <2>1. p \in RecordsOf(view, k)
      OBVIOUS
    <2>2. FindLiveRecords(view, k)[p] = cell[p].data
      BY <2>1, Found
    <2>3. QED
      BY <2>2 DEF RecordsOf
  <1>2. valid = {p}
    BY <1>1 DEF Clean
  <1>3. active = {q \in {p} : cell[p].data.status = STATUS_ACTIVE}
    BY <1>1, <1>2
  <1>4. Status(view, k) =
          IF \E r, q \in DOMAIN matches : r # q THEN "CONFLICT_DUPLICATE"
          ELSE IF DOMAIN matches = {} THEN "NOT_FOUND"
          ELSE IF valid = {} THEN "INVALID_RECORD"
          ELSE IF active # {} THEN "ACTIVE"
          ELSE "REVOKED"
    BY DEF Status, Summarize
  <1> HIDE DEF matches, valid, active
  <1>5. QED
    BY <1>1, <1>2, <1>3, <1>4

\* A REVOKED record among canonical records makes the status REVOKED or a conflict.
LEMMA StatusOfRevoked ==
  ASSUME NEW view, NEW k, Clean(view, k),
         NEW p \in RecordsOf(view, k), cell[p].data.status = STATUS_REVOKED
  PROVE  Status(view, k) \in {"REVOKED", "CONFLICT_DUPLICATE"}
  <1>1. CASE RecordsOf(view, k) = {p}
    <2>1. cell[p].data.status # STATUS_ACTIVE
      BY DEF STATUS_ACTIVE, STATUS_REVOKED
    <2>2. QED
      BY <1>1, <2>1, StatusOfOne
  <1>2. CASE RecordsOf(view, k) # {p}
    <2>1. \E q \in RecordsOf(view, k) : q # p
      BY <1>2
    <2>2. QED
      BY <2>1, StatusCases
  <1>3. QED
    BY <1>1, <1>2

\* The reports of a credential are ordered.
LEMMA MayFollowTransitive ==
  ASSUME NEW a, NEW b, NEW c, MayFollow(a, b), MayFollow(b, c)
  PROVE  MayFollow(a, c)
  BY DEF MayFollow

\* The live records of every credential are canonical.
LEMMA LiveClean ==
  ASSUME IInv, NEW k
  PROVE  Clean(live, k)
  <1> SUFFICES ASSUME NEW p \in RecordsOf(live, k)
               PROVE  RecordErrors(cell[p].data, Issuer, k) = {}
    BY DEF Clean
  <1>1. p \in live /\ cell[p].args = Issuer /\ cell[p].data.credentialId = k
    BY Found
  <1>2. QED
    BY <1>1 DEF IInv, LiveRecordsCanonical

\* What the status of k on the chain says, in terms of its live records.
StatusMeaning(k) ==
  /\ Status(live, k) = "NOT_FOUND" <=> RecordsOf(live, k) = {}
  /\ Status(live, k) = "CONFLICT_DUPLICATE" <=> \E p, q \in RecordsOf(live, k) : p # q
  /\ \A p : RecordsOf(live, k) = {p} =>
       Status(live, k) = IF cell[p].data.status = STATUS_ACTIVE THEN "ACTIVE" ELSE "REVOKED"
  /\ \A p \in RecordsOf(live, k) :
       cell[p].data.status = STATUS_REVOKED => Status(live, k) \in {"REVOKED", "CONFLICT_DUPLICATE"}

StatusFact == IInv => \A k : StatusMeaning(k)

\* The statuses mean this in every registry the script allows.
LEMMA StatusFactHolds == StatusFact
  <1> SUFFICES ASSUME IInv, NEW k
               PROVE  StatusMeaning(k)
    BY DEF StatusFact
  <1>1. Clean(live, k)
    BY LiveClean
  <1>2. QED
    BY <1>1, StatusCases, StatusOfOne, StatusOfRevoked DEF StatusMeaning

-----------------------------------------------------------------------------
(* The transactions of the client.                                         *)

\* A transaction in the pool either registers k at o or revokes one cell of k
\* into o.
PoolTx(tx, o, k) ==
  /\ o \in OutPoints
  /\ k \in CredentialHashes
  /\ DOMAIN tx.outputs = {o}
  /\ tx.payers = {Issuer}
  /\ tx.outputs[o] \in RegistryCell
  /\ tx.outputs[o].args = Issuer
  /\ tx.outputs[o].data \in Record
  /\ tx.outputs[o].data.credentialId = k
  /\ \/ tx.inputs = {} /\ tx.outputs[o].data.status = STATUS_ACTIVE
     \/ \E t : tx.inputs = {t} /\ tx.outputs[o].data.status = STATUS_REVOKED

\* The records the client writes.
LEMMA RecordValues ==
  ASSUME NEW k \in CredentialHashes, NEW reason \in ReasonCodes
  PROVE  /\ ActiveRecord(k) \in Record
         /\ ActiveRecord(k).credentialId = k
         /\ ActiveRecord(k).status = STATUS_ACTIVE
         /\ RevokedRecord(k, reason) \in Record
         /\ RevokedRecord(k, reason).credentialId = k
         /\ RevokedRecord(k, reason).status = STATUS_REVOKED
  <1>1. reason \in Nat
    BY ReasonsAssumption
  <1>2. ActiveRecord(k) \in Record
    BY IssuerAssumption DEF ActiveRecord, Record, VERSION, STATUS_ACTIVE
  <1>3. QED
    BY <1>1, <1>2 DEF ActiveRecord, RevokedRecord, Record, STATUS_REVOKED

\* What is broadcast is a registration for "create" and a revocation otherwise.
LEMMA BuiltTx ==
  ASSUME NEW c, request[c] \in Requests, NEW o \in OutPoints, NEW tx, tx = BuildTx(c, o)
  PROVE  /\ PoolTx(tx, o, Credential(c))
         /\ request[c].op = "create" => tx.inputs = {}
         /\ request[c].op # "create" => tx.inputs # {} /\ tx.outputs[o].data.status = STATUS_REVOKED
  <1> DEFINE k == Credential(c)
             r == request[c].reasonCode
             old == ActiveRecord(k)
             new == RevokedRecord(k, r)
  <1>1. k \in CredentialHashes /\ r \in ReasonCodes
    BY DEF Credential, Requests
  <1>2. /\ old \in Record
        /\ old.credentialId = k
        /\ old.status = STATUS_ACTIVE
        /\ new \in Record
        /\ new.credentialId = k
        /\ new.status = STATUS_REVOKED
    BY <1>1, RecordValues
  <1>3. tx = IF request[c].op = "create"
             THEN [inputs |-> {}, payers |-> {Issuer},
                   outputs |-> [p \in {o} |-> [lock |-> Issuer, args |-> Issuer, data |-> old]]]
             ELSE [inputs |-> {target[c]}, payers |-> {Issuer},
                   outputs |-> [p \in {o} |-> [lock |-> Issuer, args |-> Issuer, data |-> new]]]
    BY DEF BuildTx
  <1> HIDE DEF old, new, k, r
  <1>4. CASE request[c].op = "create"
    <2>1. /\ tx.inputs = {}
          /\ tx.payers = {Issuer}
          /\ DOMAIN tx.outputs = {o}
          /\ tx.outputs[o] = [lock |-> Issuer, args |-> Issuer, data |-> old]
      BY <1>3, <1>4
    <2>2. tx.outputs[o] \in RegistryCell
      BY <1>2, <2>1, IssuerAssumption DEF RegistryCell
    <2>3. QED
      BY <1>1, <1>2, <1>4, <2>1, <2>2 DEF PoolTx, k
  <1>5. CASE request[c].op # "create"
    <2>1. /\ tx.inputs = {target[c]}
          /\ tx.payers = {Issuer}
          /\ DOMAIN tx.outputs = {o}
          /\ tx.outputs[o] = [lock |-> Issuer, args |-> Issuer, data |-> new]
      BY <1>3, <1>5
    <2>2. tx.outputs[o] \in RegistryCell
      BY <1>2, <2>1, IssuerAssumption DEF RegistryCell
    <2>3. QED
      BY <1>1, <1>2, <1>5, <2>1, <2>2 DEF PoolTx, k
  <1>6. QED
    BY <1>4, <1>5

\* What committing a pool transaction does to the records of every credential: a
\* registration adds an ACTIVE record, a revocation replaces an ACTIVE record of
\* the credential by a REVOKED one, and other credentials are not touched.
Effect(tx, o, k) ==
  /\ cell[o] = NoCell
  /\ o \notin live
  /\ cell' = [p \in OutPoints |-> IF p = o THEN tx.outputs[o] ELSE cell[p]]
  /\ \A j : j # k => RecordsOf(live, j)' = RecordsOf(live, j)
  /\ \/ /\ tx.inputs = {}
        /\ RecordsOf(live, k)' = RecordsOf(live, k) \cup {o}
     \/ /\ tx.outputs[o].data.status = STATUS_REVOKED
        /\ tx.inputs # {}
        /\ \E t \in RecordsOf(live, k) :
             /\ cell[t].data.status = STATUS_ACTIVE
             /\ RecordsOf(live, k)' = (RecordsOf(live, k) \ {t}) \cup {o}

\* What the script accepts of the pool has one of these effects.
LEMMA CommitEffect ==
  ASSUME IInv, NEW tx, NEW o, NEW k, PoolTx(tx, o, k), Commit(tx)
  PROVE  IInv' /\ Effect(tx, o, k)
  <1> DEFINE c == tx.outputs[o]
  <1>1. WellFormed(tx)
    BY IssuerAssumption DEF PoolTx, WellFormed
  <1>2. IInv'
    BY <1>1, CommitInvariant
  <1>3. TypeOK /\ Accepts(tx)
    BY DEF IInv, Commit
  <1>4. /\ tx.inputs \subseteq OutPoints
        /\ tx.inputs \subseteq live
        /\ o \in OutPoints
        /\ DOMAIN tx.outputs = {o}
        /\ cell[o] = NoCell
        /\ o \notin live
        /\ live' = (live \ tx.inputs) \cup {o}
    BY <1>1, <1>3, CommitValues DEF PoolTx, Commit
  <1>5. cell' = [p \in OutPoints |-> IF p = o THEN c ELSE cell[p]]
    BY <1>4 DEF Commit
  <1>6. /\ c.args = Issuer
        /\ c.data # Malformed
        /\ c.data.credentialId = k
    BY MalformedAssumption DEF PoolTx
  <1>7. \/ /\ Predecessors(tx, o) = {}
           /\ CreationResult(c.data, c.args) = Ok
        \/ \E q \in tx.inputs :
             /\ Predecessors(tx, o) = {q}
             /\ cell[q].data # Malformed
             /\ UpdateResult(cell[q].data, c.data, c.args) = Ok
    BY <1>1, <1>3, <1>4, OutputAccepted DEF WellFormed
  <1> HIDE DEF c
  <1>8. /\ cell'[o] = c
        /\ \A p \in live : p \in OutPoints /\ p # o /\ cell'[p] = cell[p]
    BY <1>3, <1>4, <1>5 DEF TypeOK
  \* the records of a credential are those that were not spent, and perhaps o
  <1>9. ASSUME NEW j
        PROVE  RecordsOf(live, j)' = (RecordsOf(live, j) \ tx.inputs) \cup {p \in {o} : j = k}
    <2>1. RecordsOf(live, j) = {q \in live : /\ cell[q].args = Issuer
                                             /\ cell[q].data # Malformed
                                             /\ cell[q].data.credentialId = j}
      BY Found
    <2>2. RecordsOf(live, j)' = {q \in live' : /\ cell'[q].args = Issuer
                                               /\ cell'[q].data # Malformed
                                               /\ cell'[q].data.credentialId = j}
      BY DEF RecordsOf, FindLiveRecords
    <2>3. QED
      BY <1>4, <1>6, <1>8, <2>1, <2>2
  <1>10. CASE tx.inputs = {}
    BY <1>2, <1>4, <1>5, <1>9, <1>10 DEF Effect, c
  <1>11. CASE tx.inputs # {}
    <2>1. PICK t : tx.inputs = {t} /\ c.data.status = STATUS_REVOKED
      BY <1>11 DEF PoolTx, c
    <2>2. ~(CreationResult(c.data, c.args) = Ok)
      BY <2>1, CreationAccepted DEF STATUS_ACTIVE, STATUS_REVOKED
    <2>3. /\ Predecessors(tx, o) = {t}
          /\ cell[t].data # Malformed
          /\ UpdateResult(cell[t].data, c.data, c.args) = Ok
      BY <1>7, <2>1, <2>2
    <2>4. cell[t].args = Issuer
      BY <1>6, <2>3 DEF Predecessors, c
    <2>5. cell[t].data.status = STATUS_ACTIVE /\ cell[t].data.credentialId = k
      BY <1>6, <2>3, UpdateAccepted
    <2>6. t \in live
      BY <1>4, <2>1
    <2>7. t \in RecordsOf(live, k)
      BY <2>3, <2>4, <2>5, <2>6, Found
    <2>8. \A j : j # k => t \notin RecordsOf(live, j)
      <3>1. ASSUME NEW j, t \in RecordsOf(live, j) PROVE j = k
        BY <2>5, <3>1, Found
      <3>2. QED
        BY <3>1
    <2>9. \A j : j # k => RecordsOf(live, j)' = RecordsOf(live, j)
      BY <1>9, <2>1, <2>8
    <2>10. RecordsOf(live, k)' = (RecordsOf(live, k) \ {t}) \cup {o}
      BY <1>9, <2>1
    <2>11. QED
      BY <1>2, <1>4, <1>5, <2>1, <2>5, <2>7, <2>9, <2>10 DEF Effect, c
  <1>12. QED
    BY <1>10, <1>11

\* The status of a credential on the chain never regresses.
LEMMA StatusStep ==
  ASSUME IInv, NEW tx, NEW o, NEW k, PoolTx(tx, o, k), Commit(tx), NEW j
  PROVE  MayFollow(Status(live, j), Status(live, j)')
  <1> DEFINE R == RecordsOf(live, j)
  <1>1. IInv' /\ Effect(tx, o, k)
    BY CommitEffect
  <1>2. StatusMeaning(j) /\ StatusMeaning(j)'
    <2>1. StatusFact /\ StatusFact'
      BY StatusFactHolds, PTL
    <2>2. QED
      BY <1>1, <2>1 DEF StatusFact
  <1> DEFINE S == Status(live, j)
             T == Status(live, j)'
             Q == RecordsOf(live, j)'
  <1>3. /\ S = "NOT_FOUND" <=> R = {}
        /\ S = "CONFLICT_DUPLICATE" <=> \E p, q \in R : p # q
        /\ \A p : R = {p} => S = IF cell[p].data.status = STATUS_ACTIVE THEN "ACTIVE" ELSE "REVOKED"
    BY <1>2 DEF StatusMeaning
  <1>4. /\ T = "CONFLICT_DUPLICATE" <=> \E p, q \in Q : p # q
        /\ \A p : Q = {p} => T = IF cell'[p].data.status = STATUS_ACTIVE THEN "ACTIVE" ELSE "REVOKED"
    BY <1>2 DEF StatusMeaning
  <1>5. R \subseteq live /\ live \subseteq OutPoints
    BY Found DEF IInv, TypeOK
  <1>6. /\ o \notin R
        /\ cell'[o] = tx.outputs[o]
        /\ \A p \in R : cell'[p] = cell[p]
    BY <1>1, <1>5 DEF Effect, PoolTx
  <1>7. CASE j # k
    <2>1. Q = R
      BY <1>1, <1>7 DEF Effect
    <2> HIDE DEF Q, R, S, T
    <2>2. CASE \E p \in R : R = {p}
      BY <1>3, <1>4, <1>6, <2>1, <2>2 DEF MayFollow, S, T
    <2>3. CASE ~ \E p \in R : R = {p}
      BY <1>3, <1>4, <2>1, <2>3 DEF MayFollow, S, T
    <2>4. QED
      BY <2>2, <2>3 DEF S, T
  <1>8. CASE j = k
    <2>1. \/ Q = R \cup {o}
          \/ /\ tx.outputs[o].data.status = STATUS_REVOKED
             /\ \E t \in R : cell[t].data.status = STATUS_ACTIVE /\ Q = (R \ {t}) \cup {o}
      BY <1>1, <1>8 DEF Effect
    <2> HIDE DEF Q, R, S, T
    <2>2. CASE Q = R \cup {o}
      <3>1. CASE R = {}
        BY <1>3, <3>1 DEF MayFollow, S, T
      <3>2. CASE \E p \in R : TRUE
        <4>1. PICK p \in R : TRUE
          BY <3>2
        <4>2. p \in Q /\ o \in Q /\ p # o
          BY <1>6, <2>2, <4>1
        <4>3. T = "CONFLICT_DUPLICATE"
          BY <1>4, <4>2
        <4>4. CASE R = {p}
          <5>1. S \in {"ACTIVE", "REVOKED"}
            BY <1>3, <4>4
          <5>2. QED
            BY <4>3, <5>1 DEF MayFollow, S, T
        <4>5. CASE R # {p}
          <5>1. S = "CONFLICT_DUPLICATE"
            BY <1>3, <4>1, <4>5
          <5>2. QED
            BY <4>3, <5>1 DEF MayFollow, S, T
        <4>6. QED
          BY <4>4, <4>5
      <3>3. QED
        BY <3>1, <3>2
    <2>3. CASE /\ tx.outputs[o].data.status = STATUS_REVOKED
               /\ \E t \in R : cell[t].data.status = STATUS_ACTIVE /\ Q = (R \ {t}) \cup {o}
      <3>1. PICK t \in R : cell[t].data.status = STATUS_ACTIVE /\ Q = (R \ {t}) \cup {o}
        BY <2>3
      <3>2. CASE R = {t}
        <4>1. Q = {o}
          BY <3>1, <3>2
        <4>2. T = "REVOKED"
          BY <1>4, <1>6, <2>3, <4>1 DEF STATUS_ACTIVE, STATUS_REVOKED
        <4>3. S = "ACTIVE"
          BY <1>3, <3>1, <3>2
        <4>4. QED
          BY <4>2, <4>3 DEF MayFollow, S, T
      <3>3. CASE R # {t}
        <4>1. PICK u \in R : u # t
          BY <3>1, <3>3
        <4>2. u \in Q /\ o \in Q /\ u # o
          BY <1>6, <3>1, <4>1
        <4>3. S = "CONFLICT_DUPLICATE" /\ T = "CONFLICT_DUPLICATE"
          BY <1>3, <1>4, <3>1, <4>1, <4>2
        <4>4. QED
          BY <4>3 DEF MayFollow, S, T
      <3>4. QED
        BY <3>2, <3>3
    <2>4. QED
      BY <2>1, <2>2, <2>3
  <1>9. QED
    BY <1>7, <1>8

-----------------------------------------------------------------------------
(* The inductive invariant of the clients.                                 *)

Lives(k) == RecordsOf(live, k) # {}
RevokedLives(k) == \E p \in RecordsOf(live, k) : cell[p].data.status = STATUS_REVOKED

\* The pool holds what some process built.
PoolInv == \A tx \in pool : \E o, k : PoolTx(tx, o, k)

\* A waiting process watches an out-point that only its own transaction creates;
\* once the cell exists, the record it asked for is on the chain.
Watching(c) ==
  /\ sent[c] \in OutPoints
  /\ \A tx \in pool : sent[c] \in DOMAIN tx.outputs =>
       /\ tx.outputs[sent[c]].data.credentialId = Credential(c)
       /\ request[c].op = "revoke" => tx.outputs[sent[c]].data.status = STATUS_REVOKED
  /\ cell[sent[c]] # NoCell => Lives(Credential(c))
  /\ cell[sent[c]] # NoCell /\ request[c].op = "revoke" => RevokedLives(Credential(c))

\* What a process may rely on at each stage of a call, and what the answer of its
\* last call says of the chain.
ProcessInv(c) ==
  /\ stage[c] # "idle" => request[c] \in Requests
  /\ stage[c] \in {"build", "wait"} => request[c].op \in {"create", "revoke"}
  /\ stage[c] = "wait" => Watching(c)
  /\ outcome[c] = "created" => Lives(Credential(c))
  /\ outcome[c] = "revoked" => RevokedLives(Credential(c))

Builders(k) == {c \in Clients : Doing(c, "create", "build") /\ Credential(c) = k}
Creations(k) == {tx \in pool : CreatesRecordOf(tx, k)}

\* A credential whose existence checks never raced passes from one builder to one
\* transaction to one record.
Alone(k) ==
  /\ \A p, q \in RecordsOf(live, k) : p = q
  /\ \A c, d \in Builders(k) : c = d
  /\ \A x, y \in Creations(k) : x = y
  /\ Builders(k) # {} => Creations(k) = {} /\ RecordsOf(live, k) = {}
  /\ Creations(k) # {} => RecordsOf(live, k) = {}

RaceInv == \A k \in CredentialHashes \ raced : Alone(k)

\* The index shows created cells, and a status the chain has gone through.
IndexInv ==
  /\ \A p \in indexed : cell[p] # NoCell
  /\ \A k : MayFollow(Status(indexed, k), Status(live, k))

ClientInv ==
  /\ IInv
  /\ ClientTypeOK
  /\ PoolInv
  /\ \A c \in Clients : ProcessInv(c)
  /\ RaceInv
  /\ IndexInv

-----------------------------------------------------------------------------
(* Steps that leave the chain alone.                                       *)

\* Records and statuses are read off the chain and the index.
LEMMA SameChain ==
  ASSUME UNCHANGED registryVars
  PROVE  /\ \A k : RecordsOf(live, k)' = RecordsOf(live, k)
         /\ \A k : Status(live, k)' = Status(live, k)
         /\ \A k : Lives(k)' = Lives(k)
         /\ \A k : RevokedLives(k)' = RevokedLives(k)
         /\ IInv => IInv'
  <1>1. \A k : RecordsOf(live, k)' = RecordsOf(live, k)
    BY DEF registryVars, RecordsOf, FindLiveRecords
  <1>2. \A k : Status(live, k)' = Status(live, k)
    BY DEF registryVars, Status, FindLiveRecords
  <1>3. \A k : Lives(k)' = Lives(k)
    BY <1>1 DEF Lives
  <1>4. \A k : RevokedLives(k)' = RevokedLives(k)
    BY <1>1 DEF registryVars, RevokedLives
  <1>5. IInv => IInv'
    BY DEF registryVars, IInv, TypeOK, LiveRecordsCanonical, WrittenByIssuer, RootInv
  <1>6. QED
    BY <1>1, <1>2, <1>3, <1>4, <1>5

\* The index changes its statuses only when it is refreshed or the chain moves.
LEMMA SameIndex ==
  ASSUME IndexInv, UNCHANGED registryVars, UNCHANGED indexed
  PROVE  IndexInv'
  <1>1. \A k : Status(indexed, k)' = Status(indexed, k)
    BY DEF registryVars, Status, FindLiveRecords
  <1>2. \A k : MayFollow(Status(indexed, k), Status(live, k))'
    BY <1>1, SameChain DEF IndexInv, MayFollow
  <1>3. QED
    BY <1>2 DEF IndexInv, registryVars

\* The states of the other processes.
OthersStay(c) ==
  \A d \in Clients : d # c =>
    /\ stage'[d] = stage[d]
    /\ request'[d] = request[d]
    /\ sent'[d] = sent[d]
    /\ outcome'[d] = outcome[d]

\* A process whose own variables, the pool and the chain are the same keeps what
\* it relied on.
LEMMA ProcessStays ==
  ASSUME NEW d, ProcessInv(d), UNCHANGED registryVars, UNCHANGED pool,
         stage'[d] = stage[d], request'[d] = request[d], sent'[d] = sent[d],
         outcome'[d] = outcome[d]
  PROVE  ProcessInv(d)'
  <1>1. /\ \A k : Lives(k)' = Lives(k)
        /\ \A k : RevokedLives(k)' = RevokedLives(k)
    BY SameChain
  <1>2. Credential(d)' = Credential(d)
    BY DEF Credential
  <1>3. cell' = cell
    BY DEF registryVars
  <1>4. stage[d] = "wait" => Watching(d)'
    BY <1>1, <1>2, <1>3 DEF ProcessInv, Watching
  <1>5. QED
    BY <1>1, <1>2, <1>4 DEF ProcessInv

\* A credential stays alone when no builder and no transaction comes.
LEMMA AloneStays ==
  ASSUME NEW k, Alone(k), RecordsOf(live, k)' = RecordsOf(live, k),
         Builders(k)' \subseteq Builders(k), Creations(k)' \subseteq Creations(k)
  PROVE  Alone(k)'
  BY DEF Alone

\* The invariant after a step of one process that sends nothing.
LEMMA LocalStep ==
  ASSUME ClientInv, NEW c \in Clients, UNCHANGED <<registryVars, indexed, pool>>,
         OthersStay(c), raced \subseteq raced', ClientTypeOK', ProcessInv(c)',
         \A k \in CredentialHashes \ raced' : Builders(k)' \subseteq Builders(k) \/ Alone(k)'
  PROVE  ClientInv'
  <1>1. UNCHANGED registryVars /\ UNCHANGED indexed /\ UNCHANGED pool
    OBVIOUS
  <1>2. IInv'
    BY <1>1, SameChain DEF ClientInv
  <1>3. IndexInv'
    BY <1>1, SameIndex DEF ClientInv
  <1>4. PoolInv'
    BY <1>1 DEF ClientInv, PoolInv, PoolTx
  <1>5. ASSUME NEW d \in Clients
        PROVE  ProcessInv(d)'
    <2>1. CASE d = c
      BY <2>1
    <2>2. CASE d # c
      BY <1>1, <2>2, ProcessStays DEF OthersStay, ClientInv
    <2>3. QED
      BY <2>1, <2>2
  <1>6. RaceInv'
    <2>1. ASSUME NEW k \in CredentialHashes, k \notin raced'
          PROVE  Alone(k)'
      <3>1. Alone(k)
        BY <2>1 DEF ClientInv, RaceInv
      <3>2. Creations(k)' = Creations(k)
        BY <1>1 DEF Creations, CreatesRecordOf
      <3>3. RecordsOf(live, k)' = RecordsOf(live, k)
        BY <1>1, SameChain
      <3>4. QED
        BY <2>1, <3>1, <3>2, <3>3, AloneStays
    <2>2. QED
      BY <2>1 DEF RaceInv
  <1>7. QED
    BY <1>2, <1>3, <1>4, <1>5, <1>6 DEF ClientInv

\* Only a process that enters "build" can become a builder.
LEMMA NoNewBuilder ==
  ASSUME NEW c \in Clients, OthersStay(c), stage'[c] # "build", NEW k
  PROVE  Builders(k)' \subseteq Builders(k)
  BY DEF OthersStay, Builders, Doing, Credential

\* The variables of one process change for that process alone.
LEMMA ReturnValues ==
  ASSUME ClientTypeOK, NEW c \in Clients, NEW result, Return(c, result)
  PROVE  /\ OthersStay(c)
         /\ stage'[c] = "idle"
         /\ outcome'[c] = result
         /\ result \in {"created", "revoked"} => request'[c] = request[c]
  BY DEF ClientTypeOK, Return, OthersStay

Outcomes == {"none", "refused", "failed", "created", "revoked"} \cup Statuses

\* A call that returns leaves the invariant true when its answer is.
LEMMA ReturnStep ==
  ASSUME ClientInv, NEW c \in Clients, NEW result \in Outcomes, Return(c, result),
         UNCHANGED <<registryVars, indexed, pool, raced>>,
         result = "created" => Lives(Credential(c)),
         result = "revoked" => RevokedLives(Credential(c))
  PROVE  ClientInv'
  <1>1. /\ OthersStay(c)
        /\ stage'[c] = "idle"
        /\ outcome'[c] = result
        /\ result \in {"created", "revoked"} => request'[c] = request[c]
    BY ReturnValues DEF ClientInv
  <1>2. UNCHANGED registryVars /\ UNCHANGED indexed /\ UNCHANGED pool /\ UNCHANGED raced
    OBVIOUS
  <1>3. ClientTypeOK'
    <2>1. TypeOK'
      BY <1>2, SameChain DEF ClientInv, IInv
    <2>2. ClientTypeOK
      BY DEF ClientInv
    <2>3. /\ stage' \in [Clients -> {"idle", "search", "build", "wait"}]
          /\ outcome' \in [Clients -> Outcomes]
      BY <2>2 DEF ClientTypeOK, Return, Outcomes
    <2>4. request' \in [Clients -> Requests \cup {NoCell}]
      BY <2>2 DEF ClientTypeOK, Return
    <2>5. /\ attempt' \in [Clients -> 0..MaxAttempts]
          /\ target' \in [Clients -> OutPoints \cup {NoCell}]
          /\ sent' \in [Clients -> OutPoints \cup {NoCell}]
      BY <2>2, AttemptsAssumption DEF ClientTypeOK, Return
    <2>6. QED
      BY <1>2, <2>1, <2>2, <2>3, <2>4, <2>5 DEF ClientTypeOK, Outcomes
  <1>4. ProcessInv(c)'
    <2>1. /\ result = "created" => Lives(Credential(c))'
          /\ result = "revoked" => RevokedLives(Credential(c))'
      BY <1>1, <1>2, SameChain DEF Credential
    <2>2. QED
      BY <1>1, <2>1 DEF ProcessInv
  <1>5. \A k \in CredentialHashes \ raced' : Builders(k)' \subseteq Builders(k) \/ Alone(k)'
    BY <1>1, NoNewBuilder
  <1>6. QED
    BY <1>1, <1>2, <1>3, <1>4, <1>5, LocalStep

\* A search that goes on leaves the invariant true.
LEMMA RetryStep ==
  ASSUME ClientInv, NEW c \in Clients, Retry(c),
         UNCHANGED <<registryVars, indexed, pool, raced>>
  PROVE  ClientInv'
  <1>1. UNCHANGED registryVars /\ UNCHANGED indexed /\ UNCHANGED pool /\ UNCHANGED raced
    OBVIOUS
  <1>2. ClientTypeOK'
    <2>1. TypeOK'
      BY <1>1, SameChain DEF ClientInv, IInv
    <2>2. ClientTypeOK
      BY DEF ClientInv
    <2>3. attempt' \in [Clients -> 0..MaxAttempts]
      <3>1. attempt[c] + 1 \in 0..MaxAttempts
        BY <2>2, AttemptsAssumption DEF ClientTypeOK, Retry
      <3>2. QED
        BY <2>2, <3>1 DEF ClientTypeOK, Retry
    <2>4. QED
      BY <1>1, <2>1, <2>2, <2>3 DEF ClientTypeOK, Retry
  <1>3. OthersStay(c) /\ ProcessInv(c)'
    BY <1>1, ProcessStays DEF ClientInv, Retry, OthersStay
  <1>4. \A k : Builders(k)' = Builders(k)
    BY DEF Retry, Builders, Doing, Credential
  <1>5. QED
    BY <1>1, <1>2, <1>3, <1>4, LocalStep

\* A call begins.
LEMMA CallStep ==
  ASSUME ClientInv, NEW c \in Clients, NEW r \in Requests, Call(c, r)
  PROVE  ClientInv'
  <1>1. /\ UNCHANGED registryVars /\ UNCHANGED indexed /\ UNCHANGED pool /\ UNCHANGED raced
        /\ OthersStay(c)
        /\ stage'[c] = "search"
        /\ request'[c] = r
        /\ outcome'[c] = "none"
    BY DEF Call, ClientInv, ClientTypeOK, OthersStay
  <1>2. ClientTypeOK'
    <2>1. TypeOK'
      BY <1>1, SameChain DEF ClientInv, IInv
    <2>2. ClientTypeOK
      BY DEF ClientInv
    <2>3. attempt' \in [Clients -> 0..MaxAttempts]
      BY <2>2, AttemptsAssumption DEF ClientTypeOK, Call
    <2>4. QED
      BY <1>1, <2>1, <2>2, <2>3 DEF ClientTypeOK, Call
  <1>3. ProcessInv(c)'
    BY <1>1 DEF ProcessInv
  <1>4. \A k : Builders(k)' \subseteq Builders(k)
    BY <1>1, NoNewBuilder
  <1>5. QED
    BY <1>1, <1>2, <1>3, <1>4, LocalStep

\* The existence check of a creation: a credential it leaves alone has no other
\* builder, no creation in the pool and no record.
LEMMA SearchForCreateStep ==
  ASSUME ClientInv, NEW c \in Clients, SearchForCreate(c)
  PROVE  ClientInv'
  <1>1. CASE Return(c, "refused") /\ UNCHANGED raced
    BY <1>1, ReturnStep DEF SearchForCreate, Outcomes
  <1>2. CASE /\ DOMAIN FindLiveRecords(indexed, Credential(c)) = {}
             /\ stage' = [stage EXCEPT ![c] = "build"]
             /\ raced' = IF CreationUnderWay(c, Credential(c))
                         THEN raced \cup {Credential(c)} ELSE raced
             /\ UNCHANGED <<request, attempt, target, sent, outcome>>
    <2>0. PICK k : k = Credential(c)
      OBVIOUS
    <2>1. /\ UNCHANGED registryVars /\ UNCHANGED indexed /\ UNCHANGED pool
          /\ Doing(c, "create", "search")
          /\ OthersStay(c)
          /\ stage'[c] = "build"
          /\ request'[c] = request[c]
          /\ outcome'[c] = outcome[c]
      BY <1>2 DEF SearchForCreate, ClientInv, ClientTypeOK, OthersStay
    <2>2. request[c] \in Requests /\ request[c].op = "create" /\ stage[c] = "search"
      BY <2>1 DEF Doing, ClientInv, ProcessInv
    <2>3. k \in CredentialHashes
      BY <2>0, <2>2 DEF Requests, Credential
    <2>4. ClientTypeOK'
      <3>1. TypeOK'
        BY <2>1, SameChain DEF ClientInv, IInv
      <3>2. QED
        BY <1>2, <2>0, <2>1, <2>3, <3>1 DEF ClientInv, ClientTypeOK
    <2>5. ProcessInv(c)'
      <3>1. /\ outcome[c] = "created" => Lives(Credential(c))'
            /\ outcome[c] = "revoked" => RevokedLives(Credential(c))'
        BY <2>1, SameChain DEF ClientInv, ProcessInv, Credential
      <3>2. QED
        BY <2>1, <2>2, <3>1 DEF ProcessInv
    <2>6. ASSUME NEW j \in CredentialHashes, j \notin raced'
          PROVE  Builders(j)' \subseteq Builders(j) \/ Alone(j)'
      <3>1. CASE j # k
        BY <2>0, <2>1, <3>1 DEF Builders, Doing, Credential, OthersStay
      <3>2. CASE j = k
        <4>1. ~CreationUnderWay(c, k)
          BY <1>2, <2>0, <2>6, <3>2
        <4>2. /\ \A d \in Clients : d # c => ~(Doing(d, "create", "build") /\ Credential(d) = k)
              /\ Creations(k) = {}
              /\ RecordsOf(live, k) = {}
          BY <1>2, <2>0, <4>1 DEF CreationUnderWay, Creations, RecordsOf
        <4>3. Builders(k)' \subseteq {c}
          BY <2>1, <4>2 DEF Builders, Doing, Credential, OthersStay
        <4>4. Creations(k)' = {} /\ RecordsOf(live, k)' = {}
          BY <2>1, <4>2, SameChain DEF Creations, CreatesRecordOf
        <4>5. Alone(k)'
          <5>1. \A x, y \in Builders(k)' : x = y
            BY <4>3
          <5>2. QED
            BY <4>4, <5>1 DEF Alone
        <4>6. QED
          BY <3>2, <4>5
      <3>3. QED
        BY <3>1, <3>2
    <2>7. raced \subseteq raced'
      BY <1>2
    <2>8. QED
      BY <2>1, <2>4, <2>5, <2>6, <2>7, LocalStep
  <1>3. QED
    BY <1>1, <1>2 DEF SearchForCreate

\* The search before a revocation.
LEMMA SearchForRevokeStep ==
  ASSUME ClientInv, NEW c \in Clients, SearchForRevoke(c)
  PROVE  ClientInv'
  <1>1. Doing(c, "revoke", "search") /\ UNCHANGED <<registryVars, indexed, pool, raced>>
    BY DEF SearchForRevoke
  <1>2. CASE Retry(c)
    BY <1>1, <1>2, RetryStep
  <1>3. CASE Return(c, "refused")
    BY <1>1, <1>3, ReturnStep DEF Outcomes
  <1>4. CASE /\ Status(indexed, Credential(c)) = "ACTIVE"
             /\ stage' = [stage EXCEPT ![c] = "build"]
             /\ target' = [target EXCEPT ![c] =
                  CHOOSE p \in DOMAIN FindLiveRecords(indexed, Credential(c)) : TRUE]
             /\ UNCHANGED <<request, attempt, sent, outcome>>
    <2>1. PICK t : t = CHOOSE p \in DOMAIN FindLiveRecords(indexed, Credential(c)) : TRUE
      OBVIOUS
    <2>2. t \in OutPoints
      <3>1. RecordsOf(indexed, Credential(c)) # {}
        BY <1>4, StatusCases
      <3>2. t \in RecordsOf(indexed, Credential(c))
        BY <2>1, <3>1 DEF RecordsOf
      <3>3. t \in indexed
        BY <3>2, Found
      <3>4. QED
        BY <3>3 DEF ClientInv, ClientTypeOK
    <2>3. /\ UNCHANGED registryVars /\ UNCHANGED indexed /\ UNCHANGED pool /\ UNCHANGED raced
          /\ OthersStay(c)
          /\ stage'[c] = "build"
          /\ request'[c] = request[c]
          /\ outcome'[c] = outcome[c]
      BY <1>1, <1>4 DEF ClientInv, ClientTypeOK, OthersStay
    <2>4. request[c] \in Requests /\ request[c].op = "revoke" /\ stage[c] = "search"
      BY <1>1 DEF Doing, ClientInv, ProcessInv
    <2>5. ClientTypeOK'
      <3>1. TypeOK'
        BY <2>3, SameChain DEF ClientInv, IInv
      <3>2. target' \in [Clients -> OutPoints \cup {NoCell}]
        BY <1>4, <2>1, <2>2 DEF ClientInv, ClientTypeOK
      <3>3. QED
        BY <1>4, <2>3, <3>1, <3>2 DEF ClientInv, ClientTypeOK
    <2>6. ProcessInv(c)'
      <3>1. /\ outcome[c] = "created" => Lives(Credential(c))'
            /\ outcome[c] = "revoked" => RevokedLives(Credential(c))'
        BY <2>3, SameChain DEF ClientInv, ProcessInv, Credential
      <3>2. QED
        BY <2>3, <2>4, <3>1 DEF ProcessInv
    <2>7. \A k : Builders(k)' \subseteq Builders(k)
      BY <2>3, <2>4 DEF Builders, Doing, Credential, OthersStay
    <2>8. QED
      BY <2>3, <2>5, <2>6, <2>7, LocalStep
  <1>5. QED
    BY <1>2, <1>3, <1>4 DEF SearchForRevoke

\* The search of inspectRecord reports the status it read.
LEMMA SearchForInspectStep ==
  ASSUME ClientInv, NEW c \in Clients, SearchForInspect(c)
  PROVE  ClientInv'
  <1>1. UNCHANGED <<registryVars, indexed, pool, raced>>
    BY DEF SearchForInspect
  <1>2. CASE Retry(c)
    BY <1>1, <1>2, RetryStep
  <1>3. CASE Return(c, Status(indexed, Credential(c)))
    <2>1. PICK s : s = Status(indexed, Credential(c))
      OBVIOUS
    <2>2. s \in Outcomes /\ s # "created" /\ s # "revoked"
      BY <2>1, StatusCases DEF Outcomes, Statuses
    <2>3. QED
      BY <1>1, <1>3, <2>1, <2>2, ReturnStep
  <1>4. QED
    BY <1>2, <1>3 DEF SearchForInspect

\* A call that fails, gives up or dies claims nothing.
LEMMA FailureStep ==
  ASSUME ClientInv, NEW c \in Clients, SendFails(c) \/ GiveUp(c) \/ Crash(c)
  PROVE  ClientInv'
  <1>1. CASE SendFails(c) \/ GiveUp(c)
    BY <1>1, ReturnStep DEF SendFails, GiveUp, Outcomes
  <1>2. CASE Crash(c)
    BY <1>2, ReturnStep DEF Crash, Outcomes
  <1>3. QED
    BY <1>1, <1>2

\* A committed transaction is reported: what it was sent for is on the chain.
LEMMA ConfirmStep ==
  ASSUME ClientInv, NEW c \in Clients, Confirm(c)
  PROVE  ClientInv'
  <1>1. /\ stage[c] = "wait"
        /\ cell[sent[c]] # NoCell
        /\ UNCHANGED <<registryVars, indexed, pool, raced>>
        /\ Return(c, IF request[c].op = "create" THEN "created" ELSE "revoked")
    BY DEF Confirm
  <1>2. Watching(c) /\ request[c].op \in {"create", "revoke"}
    BY <1>1 DEF ClientInv, ProcessInv
  <1>3. CASE request[c].op = "create"
    BY <1>1, <1>2, <1>3, ReturnStep DEF Watching, Outcomes
  <1>4. CASE request[c].op = "revoke"
    BY <1>1, <1>2, <1>4, ReturnStep DEF Watching, Outcomes
  <1>5. QED
    BY <1>2, <1>3, <1>4

-----------------------------------------------------------------------------
(* Steps of the pool and of the chain.                                     *)

\* What a transaction of the pool creates says which credential it registers.
LEMMA CreatesItsCredential ==
  ASSUME NEW tx, NEW o, NEW k, PoolTx(tx, o, k), NEW j
  PROVE  CreatesRecordOf(tx, j) <=> tx.inputs = {} /\ j = k
  BY DEF PoolTx, CreatesRecordOf

\* Broadcasting a transaction: a new out-point, so nobody else waits for it; a
\* registration leaves its builder for the pool.
LEMMA SendStep ==
  ASSUME ClientInv, NEW c \in Clients, Send(c)
  PROVE  ClientInv'
  <1>1. PICK o \in Unused \ Promised :
          /\ Admitted(BuildTx(c, o))
          /\ pool' = pool \cup {BuildTx(c, o)}
          /\ sent' = [sent EXCEPT ![c] = o]
    BY DEF Send
  <1>2. PICK tx : tx = BuildTx(c, o)
    OBVIOUS
  <1>3. PICK k : k = Credential(c)
    OBVIOUS
  <1>4. /\ UNCHANGED registryVars /\ UNCHANGED indexed /\ UNCHANGED raced
        /\ UNCHANGED <<request, attempt, target, outcome>>
        /\ stage[c] = "build"
        /\ stage' = [stage EXCEPT ![c] = "wait"]
        /\ pool' = pool \cup {tx}
    BY <1>1, <1>2 DEF Send
  <1>5. /\ OthersStay(c)
        /\ stage'[c] = "wait"
        /\ sent'[c] = o
        /\ request'[c] = request[c]
        /\ outcome'[c] = outcome[c]
    BY <1>1, <1>4 DEF ClientInv, ClientTypeOK, OthersStay
  <1>6. request[c] \in Requests /\ request[c].op \in {"create", "revoke"}
    BY <1>4 DEF ClientInv, ProcessInv
  <1>7. o \in OutPoints /\ cell[o] = NoCell
    BY <1>1 DEF Unused
  <1>8. /\ \A x \in pool : o \notin DOMAIN x.outputs
        /\ \A d \in Clients : sent[d] # o
    BY <1>1 DEF Promised
  <1>9. /\ PoolTx(tx, o, k)
        /\ request[c].op = "create" => tx.inputs = {}
        /\ request[c].op # "create" => tx.inputs # {} /\ tx.outputs[o].data.status = STATUS_REVOKED
    BY <1>2, <1>3, <1>6, <1>7, BuiltTx
  <1>10. IInv'
    BY <1>4, SameChain DEF ClientInv
  <1>11. IndexInv'
    BY <1>4, SameIndex DEF ClientInv
  <1>12. ClientTypeOK'
    <2>1. TypeOK'
      BY <1>10 DEF IInv
    <2>2. ClientTypeOK
      BY DEF ClientInv
    <2>3. \A x \in pool' : DOMAIN x.outputs \subseteq OutPoints
      BY <1>4, <1>7, <1>9, <2>2 DEF ClientTypeOK, PoolTx
    <2>4. sent' \in [Clients -> OutPoints \cup {NoCell}]
      BY <1>1, <1>7, <2>2 DEF ClientTypeOK
    <2>5. QED
      BY <1>4, <2>1, <2>2, <2>3, <2>4 DEF ClientTypeOK
  <1>13. PoolInv'
    BY <1>4, <1>9 DEF ClientInv, PoolInv, PoolTx
  <1>14. ASSUME NEW d \in Clients
         PROVE  ProcessInv(d)'
    <2>1. /\ \A j : Lives(j)' = Lives(j)
          /\ \A j : RevokedLives(j)' = RevokedLives(j)
          /\ cell' = cell
      BY <1>4, SameChain DEF registryVars
    <2>2. ProcessInv(d)
      BY DEF ClientInv
    <2>3. CASE d = c
      <3>1. Credential(c)' = k
        BY <1>3, <1>5 DEF Credential
      <3>2. Watching(c)'
        <4>1. ASSUME NEW x \in pool', o \in DOMAIN x.outputs
              PROVE  /\ x.outputs[o].data.credentialId = k
                     /\ request[c].op = "revoke" => x.outputs[o].data.status = STATUS_REVOKED
          <5>1. x = tx
            BY <1>4, <1>8, <4>1
          <5>2. QED
            BY <1>9, <5>1 DEF PoolTx
        <4>2. QED
          BY <1>5, <1>7, <2>1, <3>1, <4>1 DEF Watching
      <3>3. /\ outcome[c] = "created" => Lives(Credential(c))'
            /\ outcome[c] = "revoked" => RevokedLives(Credential(c))'
        BY <1>5, <2>1, <2>2, <2>3 DEF ProcessInv, Credential
      <3>4. QED
        BY <1>5, <1>6, <2>3, <3>2, <3>3 DEF ProcessInv
    <2>4. CASE d # c
      <3>1. /\ stage'[d] = stage[d]
            /\ request'[d] = request[d]
            /\ sent'[d] = sent[d]
            /\ outcome'[d] = outcome[d]
            /\ Credential(d)' = Credential(d)
        BY <1>5, <2>4 DEF OthersStay, Credential
      <3>2. stage[d] = "wait" => Watching(d)'
        <4>1. sent[d] \notin DOMAIN tx.outputs
          BY <1>8, <1>9 DEF PoolTx
        <4>2. QED
          BY <1>4, <2>1, <2>2, <3>1, <4>1 DEF ProcessInv, Watching
      <3>3. QED
        BY <2>1, <2>2, <3>1, <3>2 DEF ProcessInv
    <2>5. QED
      BY <2>3, <2>4
  <1>15. RaceInv'
    <2>1. ASSUME NEW j \in CredentialHashes, j \notin raced'
          PROVE  Alone(j)'
      <3>1. Alone(j)
        BY <1>4, <2>1 DEF ClientInv, RaceInv
      <3>2. RecordsOf(live, j)' = RecordsOf(live, j)
        BY <1>4, SameChain
      <3>3. Builders(j)' \subseteq Builders(j) /\ c \notin Builders(j)'
        BY <1>5 DEF Builders, Doing, Credential, OthersStay
      <3>4. Creations(j)' = Creations(j) \cup {x \in {tx} : CreatesRecordOf(x, j)}
        BY <1>4 DEF Creations, CreatesRecordOf
      <3>5. CASE request[c].op = "create" /\ j = k
        <4>1. c \in Builders(j)
          BY <1>3, <1>4, <3>5 DEF Builders, Doing
        <4>2. /\ Builders(j)' = {}
              /\ Creations(j)' \subseteq {tx}
              /\ RecordsOf(live, j)' = {}
          BY <3>1, <3>2, <3>3, <3>4, <4>1 DEF Alone
        <4>3. QED
          BY <4>2 DEF Alone
      <3>6. CASE ~(request[c].op = "create" /\ j = k)
        <4>1. ~CreatesRecordOf(tx, j)
          BY <1>9, <3>6, CreatesItsCredential
        <4>2. Creations(j)' = Creations(j)
          BY <3>4, <4>1
        <4>3. QED
          BY <3>1, <3>2, <3>3, <4>2, AloneStays
      <3>7. QED
        BY <3>5, <3>6
    <2>2. QED
      BY <2>1 DEF RaceInv
  <1>16. QED
    BY <1>10, <1>11, <1>12, <1>13, <1>14, <1>15 DEF ClientInv

\* A transaction the node drops only shrinks the pool.
LEMMA DropStep ==
  ASSUME ClientInv, NEW tx \in pool, DropPooled(tx)
  PROVE  ClientInv'
  <1>1. /\ UNCHANGED registryVars /\ UNCHANGED indexed /\ UNCHANGED clientVars
        /\ pool' \subseteq pool
    BY DEF DropPooled
  <1>2. UNCHANGED stage /\ UNCHANGED request /\ UNCHANGED sent /\ UNCHANGED outcome /\ UNCHANGED raced
    BY <1>1 DEF clientVars
  <1>3. IInv' /\ IndexInv'
    BY <1>1, SameChain, SameIndex DEF ClientInv
  <1>4. ClientTypeOK'
    <2>1. TypeOK'
      BY <1>3 DEF IInv
    <2>2. QED
      BY <1>1, <2>1 DEF ClientInv, ClientTypeOK, clientVars
  <1>5. PoolInv'
    BY <1>1 DEF ClientInv, PoolInv, PoolTx
  <1>6. ASSUME NEW d \in Clients
        PROVE  ProcessInv(d)'
    <2>1. /\ \A j : Lives(j)' = Lives(j)
          /\ \A j : RevokedLives(j)' = RevokedLives(j)
          /\ cell' = cell
          /\ Credential(d)' = Credential(d)
      BY <1>1, <1>2, SameChain DEF registryVars, Credential
    <2>2. ProcessInv(d)
      BY DEF ClientInv
    <2>3. stage[d] = "wait" => Watching(d)'
      BY <1>1, <1>2, <2>1, <2>2 DEF ProcessInv, Watching
    <2>4. QED
      BY <1>2, <2>1, <2>2, <2>3 DEF ProcessInv
  <1>7. RaceInv'
    <2>1. ASSUME NEW j \in CredentialHashes, j \notin raced'
          PROVE  Alone(j)'
      <3>1. Alone(j)
        BY <1>2, <2>1 DEF ClientInv, RaceInv
      <3>2. RecordsOf(live, j)' = RecordsOf(live, j)
        BY <1>1, SameChain
      <3>3. Builders(j)' = Builders(j)
        BY <1>2 DEF Builders, Doing, Credential
      <3>4. Creations(j)' \subseteq Creations(j)
        BY <1>1 DEF Creations, CreatesRecordOf
      <3>5. QED
        BY <3>1, <3>2, <3>3, <3>4, AloneStays
    <2>2. QED
      BY <2>1 DEF RaceInv
  <1>8. QED
    BY <1>3, <1>4, <1>5, <1>6, <1>7 DEF ClientInv

\* Refreshing the index brings it to the chain.
LEMMA IndexStep ==
  ASSUME ClientInv, UpdateIndex
  PROVE  ClientInv'
  <1>1. /\ UNCHANGED registryVars /\ UNCHANGED pool /\ UNCHANGED clientVars
        /\ indexed' = live
    BY DEF UpdateIndex
  <1>2. UNCHANGED stage /\ UNCHANGED request /\ UNCHANGED sent /\ UNCHANGED outcome /\ UNCHANGED raced
    BY <1>1 DEF clientVars
  <1>3. IInv'
    BY <1>1, SameChain DEF ClientInv
  <1>4. IndexInv'
    <2>1. live' = live /\ cell' = cell
      BY <1>1 DEF registryVars
    <2>2. \A k : Status(indexed, k)' = Status(live, k)'
      BY <1>1, <2>1 DEF Status, FindLiveRecords
    <2>3. \A k : MayFollow(Status(indexed, k), Status(live, k))'
      BY <2>2 DEF MayFollow
    <2>4. \A p \in indexed' : cell'[p] # NoCell
      BY <1>1, <2>1 DEF ClientInv, IInv, TypeOK
    <2>5. QED
      BY <2>3, <2>4 DEF IndexInv
  <1>5. ClientTypeOK'
    <2>1. TypeOK' /\ live \subseteq OutPoints
      BY <1>3 DEF IInv, TypeOK, ClientInv
    <2>2. QED
      BY <1>1, <2>1 DEF ClientInv, ClientTypeOK, clientVars
  <1>6. PoolInv'
    BY <1>1 DEF ClientInv, PoolInv, PoolTx
  <1>7. ASSUME NEW d \in Clients
        PROVE  ProcessInv(d)'
    BY <1>1, <1>2, ProcessStays DEF ClientInv
  <1>8. RaceInv'
    <2>1. ASSUME NEW j \in CredentialHashes, j \notin raced'
          PROVE  Alone(j)'
      <3>1. Alone(j)
        BY <1>2, <2>1 DEF ClientInv, RaceInv
      <3>2. RecordsOf(live, j)' = RecordsOf(live, j)
        BY <1>1, SameChain
      <3>3. Builders(j)' = Builders(j)
        BY <1>2 DEF Builders, Doing, Credential
      <3>4. Creations(j)' = Creations(j)
        BY <1>1 DEF Creations, CreatesRecordOf
      <3>5. QED
        BY <3>1, <3>2, <3>3, <3>4, AloneStays
    <2>2. QED
      BY <2>1 DEF RaceInv
  <1>9. QED
    BY <1>3, <1>4, <1>5, <1>6, <1>7, <1>8 DEF ClientInv

\* The chain keeps a record of every credential it has one of, and a REVOKED
\* record for ever; what is committed is there.
LEMMA RecordsKept ==
  ASSUME IInv, NEW tx, NEW o, NEW k, PoolTx(tx, o, k), Commit(tx)
  PROVE  /\ \A j : Lives(j) => Lives(j)'
         /\ \A j : RevokedLives(j) => RevokedLives(j)'
         /\ Lives(k)'
         /\ tx.outputs[o].data.status = STATUS_REVOKED => RevokedLives(k)'
  <1>1. Effect(tx, o, k)
    BY CommitEffect
  <1>2. o \in RecordsOf(live, k)' /\ cell'[o] = tx.outputs[o]
    BY <1>1 DEF Effect, PoolTx
  <1>3. ASSUME NEW j, NEW p \in RecordsOf(live, j)
        PROVE  cell'[p] = cell[p]
    <2>1. p \in live
      BY <1>3, Found
    <2>2. p \in OutPoints /\ p # o
      BY <1>1, <2>1 DEF IInv, TypeOK, Effect
    <2>3. QED
      BY <1>1, <2>2 DEF Effect
  <1>4. ASSUME NEW j, NEW p \in RecordsOf(live, j), cell[p].data.status = STATUS_REVOKED
        PROVE  p \in RecordsOf(live, j)'
    <2>1. cell[p].data.status # STATUS_ACTIVE
      BY <1>4 DEF STATUS_ACTIVE, STATUS_REVOKED
    <2>2. QED
      BY <1>1, <1>4, <2>1 DEF Effect
  <1>5. ASSUME NEW j, Lives(j)
        PROVE  Lives(j)'
    BY <1>1, <1>2, <1>5 DEF Effect, Lives
  <1>6. ASSUME NEW j, RevokedLives(j)
        PROVE  RevokedLives(j)'
    <2>1. PICK p \in RecordsOf(live, j) : cell[p].data.status = STATUS_REVOKED
      BY <1>6 DEF RevokedLives
    <2>2. p \in RecordsOf(live, j)' /\ cell'[p].data.status = STATUS_REVOKED
      BY <1>3, <1>4, <2>1
    <2>3. QED
      BY <2>2 DEF RevokedLives
  <1>7. QED
    BY <1>2, <1>5, <1>6 DEF Lives, RevokedLives

\* The index does not see a commitment.
LEMMA CommitIndex ==
  ASSUME IInv, IndexInv, indexed \subseteq OutPoints, UNCHANGED indexed,
         NEW tx, NEW o, NEW k, PoolTx(tx, o, k), Commit(tx)
  PROVE  /\ IndexInv'
         /\ \A j : Status(indexed, j)' = Status(indexed, j)
  <1>1. Effect(tx, o, k)
    BY CommitEffect
  <1>2. \A p \in indexed : p \in OutPoints /\ p # o /\ cell'[p] = cell[p]
    BY <1>1 DEF IndexInv, Effect
  <1>3. ASSUME NEW j
        PROVE  Status(indexed, j)' = Status(indexed, j)
    <2>1. FindLiveRecords(indexed, j)' = FindLiveRecords(indexed, j)
      BY <1>2 DEF FindLiveRecords
    <2>2. QED
      BY <2>1 DEF Status
  <1>4. ASSUME NEW j
        PROVE  MayFollow(Status(indexed, j), Status(live, j))'
    <2>1. MayFollow(Status(live, j), Status(live, j)')
      BY StatusStep
    <2>2. MayFollow(Status(indexed, j), Status(live, j)')
      BY <2>1, MayFollowTransitive DEF IndexInv
    <2>3. QED
      BY <1>3, <2>2 DEF MayFollow
  <1>5. \A p \in indexed' : cell'[p] # NoCell
    BY <1>2 DEF IndexInv
  <1>6. QED
    BY <1>3, <1>4, <1>5 DEF IndexInv

\* Committing a transaction of the pool keeps the records that were promised and
\* reported, and a credential left alone alone.
LEMMA CommitStep ==
  ASSUME ClientInv, NEW tx \in pool, CommitPooled(tx)
  PROVE  ClientInv'
  <1>1. /\ Commit(tx)
        /\ UNCHANGED indexed /\ UNCHANGED clientVars
        /\ pool' = pool \ {tx}
    BY DEF CommitPooled
  <1>2. UNCHANGED stage /\ UNCHANGED request /\ UNCHANGED sent /\ UNCHANGED outcome /\ UNCHANGED raced
    BY <1>1 DEF clientVars
  <1>3. IInv /\ IndexInv /\ ClientTypeOK /\ PoolInv
    BY DEF ClientInv
  <1>4. PICK o, k : PoolTx(tx, o, k)
    BY <1>3 DEF PoolInv
  <1>5. IInv' /\ Effect(tx, o, k)
    BY <1>1, <1>3, <1>4, CommitEffect
  <1>6. IndexInv'
    BY <1>1, <1>3, <1>4, CommitIndex DEF ClientTypeOK
  <1>7. ClientTypeOK'
    <2>1. TypeOK'
      BY <1>5 DEF IInv
    <2>2. QED
      BY <1>1, <1>3, <2>1 DEF ClientTypeOK, clientVars
  <1>8. PoolInv'
    BY <1>1, <1>3 DEF PoolInv, PoolTx
  <1>9. /\ \A j : Lives(j) => Lives(j)'
        /\ \A j : RevokedLives(j) => RevokedLives(j)'
        /\ Lives(k)'
        /\ tx.outputs[o].data.status = STATUS_REVOKED => RevokedLives(k)'
    BY <1>1, <1>3, <1>4, RecordsKept
  <1>10. ASSUME NEW d \in Clients
         PROVE  ProcessInv(d)'
    <2>1. ProcessInv(d)
      BY DEF ClientInv
    <2>2. PICK j : j = Credential(d)
      OBVIOUS
    <2>3. Credential(d)' = j
      BY <1>2, <2>2 DEF Credential
    <2>4. CASE stage[d] = "wait"
      <3>1. Watching(d)
        BY <2>1, <2>4 DEF ProcessInv
      <3>2. sent'[d] = sent[d] /\ request'[d] = request[d]
        BY <1>2
      <3>3. /\ cell'[sent[d]] # NoCell => Lives(j)'
            /\ cell'[sent[d]] # NoCell /\ request[d].op = "revoke" => RevokedLives(j)'
        <4>1. CASE sent[d] = o
          <5>1. /\ j = k
                /\ request[d].op = "revoke" => tx.outputs[o].data.status = STATUS_REVOKED
            BY <1>4, <2>2, <3>1, <4>1 DEF Watching, PoolTx
          <5>2. QED
            BY <1>9, <5>1
        <4>2. CASE sent[d] # o
          <5>1. cell'[sent[d]] = cell[sent[d]]
            BY <1>5, <3>1, <4>2 DEF Effect, Watching
          <5>2. /\ cell[sent[d]] # NoCell => Lives(j)
                /\ cell[sent[d]] # NoCell /\ request[d].op = "revoke" => RevokedLives(j)
            BY <2>2, <3>1 DEF Watching
          <5>3. QED
            BY <1>9, <5>1, <5>2
        <4>3. QED
          BY <4>1, <4>2
      <3>4. Watching(d)'
        <4>1. /\ cell'[sent'[d]] # NoCell => Lives(Credential(d))'
              /\ cell'[sent'[d]] # NoCell /\ request'[d].op = "revoke" => RevokedLives(Credential(d))'
          BY <2>3, <3>2, <3>3
        <4>2. \A x \in pool' : sent'[d] \in DOMAIN x.outputs =>
                /\ x.outputs[sent'[d]].data.credentialId = Credential(d)'
                /\ request'[d].op = "revoke" => x.outputs[sent'[d]].data.status = STATUS_REVOKED
          BY <1>1, <2>2, <2>3, <3>1, <3>2 DEF Watching
        <4>3. QED
          BY <3>1, <3>2, <4>1, <4>2 DEF Watching
      <3>5. QED
        BY <1>2, <1>9, <2>1, <2>2, <2>3, <3>4 DEF ProcessInv
    <2>5. CASE stage[d] # "wait"
      BY <1>2, <1>9, <2>1, <2>2, <2>3, <2>5 DEF ProcessInv
    <2>6. QED
      BY <2>4, <2>5
  <1>11. RaceInv'
    <2>1. ASSUME NEW j \in CredentialHashes, j \notin raced'
          PROVE  Alone(j)'
      <3>1. Alone(j)
        BY <1>2, <2>1 DEF ClientInv, RaceInv
      <3>2. Builders(j)' = Builders(j)
        BY <1>2 DEF Builders, Doing, Credential
      <3>3. Creations(j)' = Creations(j) \ {tx}
        BY <1>1 DEF Creations, CreatesRecordOf
      <3>4. CASE j # k
        <4>1. RecordsOf(live, j)' = RecordsOf(live, j)
          BY <1>5, <3>4 DEF Effect
        <4>2. QED
          BY <3>1, <3>2, <3>3, <4>1, AloneStays
      <3>5. CASE j = k /\ tx.inputs = {}
        <4>1. tx \in Creations(j)
          BY <1>4, <3>5, CreatesItsCredential DEF Creations
        <4>2. /\ RecordsOf(live, j) = {}
              /\ Builders(j) = {}
              /\ Creations(j)' = {}
          BY <3>1, <3>3, <4>1 DEF Alone
        <4>3. RecordsOf(live, j)' = {o}
          BY <1>5, <3>5, <4>2 DEF Effect
        <4>4. QED
          BY <3>2, <4>2, <4>3 DEF Alone
      <3>6. CASE j = k /\ tx.inputs # {}
        <4>1. PICK t \in RecordsOf(live, j) :
                RecordsOf(live, j)' = (RecordsOf(live, j) \ {t}) \cup {o}
          BY <1>5, <3>6 DEF Effect
        <4>2. RecordsOf(live, j)' = {o}
          BY <3>1, <4>1 DEF Alone
        <4>3. Builders(j)' = {} /\ Creations(j)' = {}
          BY <3>1, <3>2, <3>3, <4>1 DEF Alone
        <4>4. QED
          BY <4>2, <4>3 DEF Alone
      <3>7. QED
        BY <3>4, <3>5, <3>6
    <2>2. QED
      BY <2>1 DEF RaceInv
  <1>12. QED
    BY <1>5, <1>6, <1>7, <1>8, <1>10, <1>11 DEF ClientInv

-----------------------------------------------------------------------------
(* The theorems about the clients.                                         *)

\* Nothing is under way at the start.
LEMMA ClientInitInvariant == ClientInit => ClientInv
  <1> SUFFICES ASSUME ClientInit
               PROVE  ClientInv
    OBVIOUS
  <1>1. IInv
    BY InitInvariant DEF ClientInit
  <1>2. ClientTypeOK
    <2>1. TypeOK
      BY <1>1 DEF IInv
    <2>2. QED
      BY <2>1, AttemptsAssumption DEF ClientInit, ClientTypeOK
  <1>3. \A c \in Clients : ProcessInv(c)
    BY DEF ClientInit, ProcessInv
  <1>4. PoolInv /\ RaceInv
    <2>1. ASSUME NEW k
          PROVE  Alone(k)
      <3>1. RecordsOf(live, k) = {} /\ Creations(k) = {} /\ Builders(k) = {}
        BY Found DEF ClientInit, Init, Creations, Builders, Doing
      <3>2. QED
        BY <3>1 DEF Alone
    <2>2. QED
      BY <2>1 DEF ClientInit, PoolInv, RaceInv
  <1>5. IndexInv
    <2>1. \A k : Status(indexed, k) = "NOT_FOUND"
      <3>1. \A k : RecordsOf(indexed, k) = {}
        BY Found DEF ClientInit
      <3>2. QED
        BY <3>1, StatusCases
    <2>2. QED
      BY <2>1 DEF ClientInit, IndexInv, MayFollow
  <1>6. QED
    BY <1>1, <1>2, <1>3, <1>4, <1>5 DEF ClientInv

\* Every action preserves the invariant.
LEMMA ClientStep == ClientInv /\ [ClientNext]_vars => ClientInv'
  <1> SUFFICES ASSUME ClientInv, [ClientNext]_vars
               PROVE  ClientInv'
    OBVIOUS
  <1>1. CASE \E c \in Clients : Progress(c) \/ Crash(c)
    <2>1. PICK c \in Clients : Progress(c) \/ Crash(c)
      BY <1>1
    <2>2. QED
      BY <2>1, SearchForCreateStep, SearchForRevokeStep, SearchForInspectStep, SendStep,
         FailureStep, ConfirmStep DEF Progress
  <1>2. CASE \E c \in Clients, r \in Requests : Call(c, r)
    BY <1>2, CallStep
  <1>3. CASE \E tx \in pool : CommitPooled(tx) \/ DropPooled(tx)
    BY <1>3, CommitStep, DropStep
  <1>4. CASE UpdateIndex
    BY <1>4, IndexStep
  <1>5. CASE UNCHANGED vars
    <2>1. /\ UNCHANGED registryVars /\ UNCHANGED indexed /\ UNCHANGED pool /\ UNCHANGED clientVars
      BY <1>5 DEF vars
    <2>2. UNCHANGED stage /\ UNCHANGED request /\ UNCHANGED sent /\ UNCHANGED outcome /\ UNCHANGED raced
      BY <2>1 DEF clientVars
    <2>3. IInv' /\ IndexInv' /\ PoolInv'
      BY <2>1, SameChain, SameIndex DEF ClientInv, PoolInv, PoolTx
    <2>4. ClientTypeOK'
      BY <2>1, <2>3 DEF ClientInv, ClientTypeOK, IInv, clientVars
    <2>5. \A c \in Clients : ProcessInv(c)'
      BY <2>1, <2>2, ProcessStays DEF ClientInv
    <2>6. RaceInv'
      <3>1. \A k : Alone(k)' = Alone(k)
        BY <2>1, <2>2, SameChain
        DEF Alone, Builders, Creations, CreatesRecordOf, Doing, Credential
      <3>2. QED
        BY <2>2, <3>1 DEF ClientInv, RaceInv
    <2>7. QED
      BY <2>3, <2>4, <2>5, <2>6 DEF ClientInv
  <1>6. QED
    BY <1>1, <1>2, <1>3, <1>4, <1>5 DEF ClientNext

\* The invariant holds of every reachable state, whatever processes crash,
\* transactions are dropped and the index lags.
THEOREM ClientInvariance == ClientSpec => []ClientInv
  <1>1. QED
    BY ClientInitInvariant, ClientStep, PTL DEF ClientSpec

\* The variables keep their types.
THEOREM ClientTypeCorrect == ClientSpec => []ClientTypeOK
  <1>1. ClientInv => ClientTypeOK
    BY DEF ClientInv
  <1>2. QED
    BY <1>1, ClientInvariance, PTL

\* What createActiveRecord and revokeRecord returned is and stays true.
THEOREM ReportsStayTrue == ClientSpec => []ReportsAreTrue
  <1>1. ClientInv => ReportsAreTrue
    <2> SUFFICES ASSUME ClientInv, NEW c \in Clients
                 PROVE  /\ outcome[c] = "created" => Status(live, Credential(c)) # "NOT_FOUND"
                        /\ outcome[c] = "revoked" =>
                             Status(live, Credential(c)) \in {"REVOKED", "CONFLICT_DUPLICATE"}
      BY DEF ReportsAreTrue
    <2>1. ProcessInv(c) /\ Clean(live, Credential(c))
      BY LiveClean DEF ClientInv
    <2>2. QED
      BY <2>1, StatusCases, StatusOfRevoked DEF ProcessInv, Lives, RevokedLives
  <1>2. QED
    BY <1>1, ClientInvariance, PTL

\* Two live records of a credential come only from existence checks that raced.
THEOREM RacesExplainDuplicates == ClientSpec => []DuplicatesOnlyByRace
  <1>1. ClientInv => DuplicatesOnlyByRace
    BY StatusCases DEF ClientInv, RaceInv, Alone, DuplicatesOnlyByRace
  <1>2. QED
    BY <1>1, ClientInvariance, PTL

\* What the index says of a credential never goes back.
THEOREM StatusMovesForward == ClientSpec => StatusNeverRegresses
  <1>1. ClientInv /\ [ClientNext]_vars =>
          [\A k \in CredentialHashes : MayFollow(Status(indexed, k), Status(indexed, k)')]_vars
    <2> SUFFICES ASSUME ClientInv, ClientNext, NEW k \in CredentialHashes
                 PROVE  MayFollow(Status(indexed, k), Status(indexed, k)')
      OBVIOUS
    <2>1. CASE UpdateIndex
      <3>1. live' = live /\ cell' = cell /\ indexed' = live
        BY <2>1 DEF UpdateIndex, registryVars
      <3>2. Status(indexed, k)' = Status(live, k)
        BY <3>1 DEF Status, FindLiveRecords
      <3>3. QED
        BY <3>2 DEF ClientInv, IndexInv
    <2>2. CASE \E tx \in pool : CommitPooled(tx)
      <3>1. PICK tx \in pool : CommitPooled(tx)
        BY <2>2
      <3>2. PICK o, j : PoolTx(tx, o, j)
        BY DEF ClientInv, PoolInv
      <3>3. Status(indexed, k)' = Status(indexed, k)
        BY <3>1, <3>2, CommitIndex DEF ClientInv, ClientTypeOK, CommitPooled
      <3>4. QED
        BY <3>3 DEF MayFollow
    <2>3. CASE UNCHANGED registryVars /\ UNCHANGED indexed
      <3>1. Status(indexed, k)' = Status(indexed, k)
        BY <2>3 DEF registryVars, Status, FindLiveRecords
      <3>2. QED
        BY <3>1 DEF MayFollow
    <2>4. UpdateIndex \/ (\E tx \in pool : CommitPooled(tx)) \/ (UNCHANGED registryVars /\ UNCHANGED indexed)
      BY DEF ClientNext, Progress, SearchForCreate, SearchForRevoke, SearchForInspect, Send,
             SendFails, Confirm, GiveUp, Crash, Call, DropPooled
    <2>5. QED
      BY <2>1, <2>2, <2>3, <2>4
  <1>2. QED
    BY <1>1, ClientInvariance, PTL DEF ClientSpec, StatusNeverRegresses

\* The chain as the client's processes use it, pool, crashes and lagging index
\* included, still behaves as CellLineage says: every registration goes from
\* ACTIVE to REVOKED at most once and never disappears.
THEOREM ClientImplementsLineage == ClientSpec => RegistryImplementsLineage
  <1>1. ClientInit => Abstract!Init
    BY LineageInit DEF ClientInit
  <1>2. ClientInv /\ ClientInv' /\ [ClientNext]_vars => [Abstract!Next]_LineageView
    <2> SUFFICES ASSUME ClientInv, ClientInv', [ClientNext]_vars
                 PROVE  [Abstract!Next]_LineageView
      OBVIOUS
    <2>1. CASE \E tx \in pool : CommitPooled(tx)
      <3>1. PICK tx \in pool : CommitPooled(tx)
        BY <2>1
      <3>2. PICK o, k : PoolTx(tx, o, k)
        BY DEF ClientInv, PoolInv
      <3>3. WellFormed(tx) /\ Commit(tx) /\ IInv /\ IInv'
        BY <3>1, <3>2, IssuerAssumption DEF PoolTx, WellFormed, CommitPooled, ClientInv
      <3>4. QED
        BY <3>3, LineageStep
    <2>2. CASE UNCHANGED registryVars
      BY <2>2 DEF registryVars, LineageView, CarriersOf, StatementOf
    <2>3. (\E tx \in pool : CommitPooled(tx)) \/ UNCHANGED registryVars
      BY DEF ClientNext, Progress, SearchForCreate, SearchForRevoke, SearchForInspect, Send,
             SendFails, Confirm, GiveUp, Crash, Call, DropPooled, UpdateIndex, vars
    <2>4. QED
      BY <2>1, <2>2, <2>3
  <1>3. QED
    BY <1>1, <1>2, ClientInvariance, PTL DEF ClientSpec, RegistryImplementsLineage, Abstract!Spec
=============================================================================
