--------------------------- MODULE RevocationScript ---------------------------
(***************************************************************************)
(* The credential-revocation Type Script (contracts/credential-revocation, *)
(* main.rs) and the JavaScript reader of the same 75-byte record           *)
(* (revocation-binary.js, record-inspection.js), as pure operators.        *)
(*                                                                         *)
(* Hashes are members of small sets.  Cell data is either a record, whose  *)
(* fields keep the values the script compares, or `Malformed`: data whose  *)
(* length is not 75.  Script args are a lock hash when they are 32 bytes   *)
(* long and `ShortArgs` otherwise.  A group of cells is a function from    *)
(* out-points to cells, so two equal cells stay two cells.                 *)
(***************************************************************************)
EXTENDS Naturals

CONSTANTS
  LockHashes,        \* 32-byte lock script hashes: every wallet, issuers included
  CredentialHashes,  \* SHA-256 of credential identifiers
  Malformed,         \* cell data that is not RECORD_LENGTH bytes long
  ShortArgs          \* type script args that are not 32 bytes long

VERSION == 1
STATUS_ACTIVE == 0
STATUS_REVOKED == 1

Record ==
  [version : Nat, status : Nat, credentialId : CredentialHashes,
   issuerLockHash : LockHashes, reasonCode : Nat, revokedAt : Nat]

ASSUME MalformedAssumption == Malformed \notin Record
ASSUME ShortArgsAssumption == ShortArgs \notin LockHashes

\* A registry cell: its lock, the args of its credential-revocation type
\* script, and its data.
RegistryCell ==
  [lock : LockHashes, args : LockHashes \cup {ShortArgs},
   data : Record \cup {Malformed}]

-----------------------------------------------------------------------------
(* The Type Script.  Each check returns the error the script exits with.   *)

Ok == "Ok"

CommonResult(record, issuer) ==
  IF record.version # VERSION THEN "InvalidVersion"
  ELSE IF record.status \notin {STATUS_ACTIVE, STATUS_REVOKED} THEN "InvalidStatus"
  ELSE IF record.issuerLockHash # issuer THEN "IssuerMismatch"
  ELSE Ok

\* Mutant: the two revocation fields are not checked at registration.
CreationResultStatusOnly(record, issuer) ==
  IF CommonResult(record, issuer) # Ok THEN CommonResult(record, issuer)
  ELSE IF record.status # STATUS_ACTIVE THEN "InvalidInitialState"
  ELSE Ok

CreationResult(record, issuer) ==
  IF CommonResult(record, issuer) # Ok THEN CommonResult(record, issuer)
  ELSE IF \/ record.status # STATUS_ACTIVE
          \/ record.reasonCode # 0
          \/ record.revokedAt # 0
       THEN "InvalidInitialState"
  ELSE Ok

\* Mutant: the direction of the status change is not checked.
UpdateResultAnyDirection(input, output, issuer) ==
  IF CommonResult(input, issuer) # Ok THEN CommonResult(input, issuer)
  ELSE IF CommonResult(output, issuer) # Ok THEN CommonResult(output, issuer)
  ELSE IF input.credentialId # output.credentialId THEN "CredentialIdChanged"
  ELSE IF input.status = output.status THEN "InvalidStateTransition"
  ELSE Ok

UpdateResult(input, output, issuer) ==
  IF CommonResult(input, issuer) # Ok THEN CommonResult(input, issuer)
  ELSE IF \/ input.version # output.version
          \/ input.issuerLockHash # output.issuerLockHash
       THEN "ImmutableFieldChanged"
  ELSE IF CommonResult(output, issuer) # Ok THEN CommonResult(output, issuer)
  ELSE IF input.credentialId # output.credentialId THEN "CredentialIdChanged"
  ELSE IF input.status # STATUS_ACTIVE \/ output.status # STATUS_REVOKED
       THEN "InvalidStateTransition"
  ELSE IF output.reasonCode = 0 THEN "RevocationReasonMissing"
  ELSE IF output.revokedAt = 0 THEN "RevocationTimestampMissing"
  ELSE Ok

\* Mutant: any transaction may write, whoever signed its inputs.
AnyoneAuthorized(issuer, inputLocks) == TRUE

\* Some input of the transaction is held under the issuer's lock.
Authorized(issuer, inputLocks) == issuer \in inputLocks

\* Mutant: the lock of a record cell is not checked.
AnyGroupLock(group, issuer) == TRUE

\* Every cell of a one-cell group is held under the issuer's lock.
GroupLocked(group, issuer) == \A p \in DOMAIN group : group[p].lock = issuer

Decodable(group) == \A p \in DOMAIN group : group[p].data # Malformed

\* Mutant: a second cell in the group is not noticed.
IsInhabited(group) == DOMAIN group # {}

\* count_group_cells: no cell, one cell, or too many.
IsEmpty(group) == DOMAIN group = {}
IsSingle(group) == \E p \in DOMAIN group : DOMAIN group = {p}
Only(group) == group[CHOOSE p \in DOMAIN group : TRUE]

\* validate_transaction for the script group with these args: groupIn and
\* groupOut are the input and output cells of the group, inputLocks the lock
\* hashes of all inputs of the transaction.
ScriptResult(args, groupIn, groupOut, inputLocks) ==
  IF args \notin LockHashes THEN "InvalidArgsLength"
  ELSE IF IsEmpty(groupIn) /\ IsSingle(groupOut) THEN
       IF ~Authorized(args, inputLocks) THEN "Unauthorized"
       ELSE IF ~GroupLocked(groupOut, args) THEN "OutputLockMismatch"
       ELSE IF ~Decodable(groupOut) THEN "InvalidDataLength"
       ELSE CreationResult(Only(groupOut).data, args)
  ELSE IF IsSingle(groupIn) /\ IsSingle(groupOut) THEN
       IF ~Authorized(args, inputLocks) THEN "Unauthorized"
       ELSE IF ~GroupLocked(groupIn, args) \/ ~GroupLocked(groupOut, args)
            THEN "OutputLockMismatch"
       ELSE IF ~Decodable(groupIn) \/ ~Decodable(groupOut) THEN "InvalidDataLength"
       ELSE UpdateResult(Only(groupIn).data, Only(groupOut).data, args)
  ELSE IF IsSingle(groupIn) /\ IsEmpty(groupOut) THEN "RecordDestructionForbidden"
  ELSE "InvalidGroupCellCount"

-----------------------------------------------------------------------------
(* The JavaScript reader of a decoded record.                              *)

\* validateRevocationRecord: the set of errors it reports.  Fields read from
\* 75 bytes are always well-formed hashes, bytes and u64 values, so the
\* format errors of the source cannot occur here.
RecordErrors(record, issuer, credential) ==
  {e \in {"UNSUPPORTED_VERSION"} : record.version # VERSION}
  \cup {e \in {"INVALID_STATUS"} : record.status \notin {STATUS_ACTIVE, STATUS_REVOKED}}
  \cup {e \in {"CREDENTIAL_HASH_MISMATCH"} : record.credentialId # credential}
  \cup {e \in {"ISSUER_LOCK_HASH_MISMATCH"} : record.issuerLockHash # issuer}
  \cup {e \in {"ACTIVE_FIELDS_INVALID"} :
          /\ record.status = STATUS_ACTIVE
          /\ record.reasonCode # 0 \/ record.revokedAt # 0}
  \cup {e \in {"REVOKED_FIELDS_INVALID"} :
          /\ record.status = STATUS_REVOKED
          /\ record.reasonCode = 0 \/ record.revokedAt = 0}


\* Mutant: only several ACTIVE records are reported as a conflict.
SummarizeActiveOnly(matches, issuer, credential) ==
  LET valid == {p \in DOMAIN matches : RecordErrors(matches[p], issuer, credential) = {}}
      active == {p \in valid : matches[p].status = STATUS_ACTIVE}
  IN IF \E p, q \in active : p # q THEN "CONFLICT_DUPLICATE"
     ELSE IF DOMAIN matches = {} THEN "NOT_FOUND"
     ELSE IF valid = {} THEN "INVALID_RECORD"
     ELSE IF active # {} THEN "ACTIVE"
     ELSE "REVOKED"

\* summarizeLiveRecords: what is said of the live records that match one
\* credential hash, given as a function from out-points to decoded records.
Summarize(matches, issuer, credential) ==
  LET valid == {p \in DOMAIN matches : RecordErrors(matches[p], issuer, credential) = {}}
      active == {p \in valid : matches[p].status = STATUS_ACTIVE}
  IN IF \E p, q \in DOMAIN matches : p # q THEN "CONFLICT_DUPLICATE"
     ELSE IF DOMAIN matches = {} THEN "NOT_FOUND"
     ELSE IF valid = {} THEN "INVALID_RECORD"
     ELSE IF active # {} THEN "ACTIVE"
     ELSE "REVOKED"

=============================================================================
