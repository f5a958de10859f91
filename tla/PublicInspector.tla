----------------------------- MODULE PublicInspector -----------------------------
(***************************************************************************)
(* What the public is told of a credential (public-inspector.js,           *)
(* verifyCredentialInternal of credential-service.js) while IssuerWorkflow *)
(* changes the ledger and the chain.                                       *)
(*                                                                         *)
(* An inspection verifies the ledger entry first and then awaits the       *)
(* chain, so the two answers it compares are of two moments.  It reads the *)
(* chain through an index that lags, and the ledger file may have been     *)
(* edited by hand: damaged, or set back from REVOKED to ACTIVE.            *)
(***************************************************************************)
EXTENDS IssuerWorkflow

CONSTANTS
  Inspectors,    \* concurrent inspections
  Documents,     \* what is supplied with a request
  MaxInspections \* bound: inspections in a behaviour

ASSUME DocumentsAssumption == Documents \subseteq {"none", "matches", "differs"}
ASSUME MaxInspectionsAssumption == MaxInspections \in Nat

VARIABLES
  indexed,      \* the status the node's index reports for a credential
  inspection,   \* what every inspection is doing
  report,       \* the latest proof of every inspector
  inspections   \* inspections started

inspectorVars == <<indexed, inspection, report, inspections>>
allVars == <<vars, inspectorVars>>

Edits == {"none", "damaged", "reactivated"}
ChainStatuses ==
  {"NOT_FOUND", "ACTIVE", "REVOKED", "CONFLICT_DUPLICATE", "INVALID_RECORD",
   "RPC_UNAVAILABLE", "NOT_CHECKED"}

Verifications ==
  [status : Marks, missing : BOOLEAN, integrityValid : BOOLEAN,
   documentVerified : BOOLEAN, valid : BOOLEAN]

Outcomes ==
  {"NOT_FOUND", "OFFCHAIN_RECORD_NOT_FOUND", "CONFLICT_DUPLICATE", "INVALID_CHAIN_RECORD",
   "INVALID_EVIDENCE", "CHAIN_NOT_CHECKED", "RPC_UNAVAILABLE", "CHAIN_CONFLICT",
   "CHAIN_RECORD_INVALID", "ONCHAIN_RECORD_NOT_FOUND", "STATE_MISMATCH", "REVOKED",
   "ACTIVE_VALID", "ACTIVE_DOCUMENT_NOT_CHECKED", "INDETERMINATE"}

NoInspection == [stage |-> "idle"]
\* `held` and `before` are ghosts: what the ledger really held when it was read,
\* and what the index said then.  `moved`: a job on the credential ran meanwhile.
ActiveInspections ==
  [stage : {"chain"}, credential : Credentials, verification : Verifications,
   skipChain : BOOLEAN, held : Marks, before : Marks, moved : BOOLEAN]
NoReport == [outcome |-> "NONE"]
Reports ==
  [outcome : Outcomes, usable : BOOLEAN, credential : Credentials, held : Marks,
   before : Marks, explained : BOOLEAN]

InspectorTypeOK ==
  /\ indexed \in [Credentials -> Marks]
  /\ inspection \in [Inspectors -> ActiveInspections \cup {NoInspection}]
  /\ report \in [Inspectors -> Reports \cup {NoReport}]
  /\ inspections \in 0..MaxInspections

-----------------------------------------------------------------------------
(* verifyCredentialInternal.                                               *)

\* Mutant: the signed revocation beside an entry is not looked for.
VerifyStatusOnly(mark, edit, document) ==
  LET status == IF edit = "reactivated" THEN "ACTIVE" ELSE mark
      missing == mark = "NONE"
      integrityValid == ~missing /\ edit # "damaged" /\ document # "differs"
      documentVerified == ~missing /\ document = "matches"
  IN [status |-> status, missing |-> missing, integrityValid |-> integrityValid,
      documentVerified |-> documentVerified,
      valid |-> integrityValid /\ documentVerified /\ status = "ACTIVE"]

\* The entry of a ledger that holds `mark` for the credential, read through an
\* edit of the file.  A signed revocation stays beside a reactivated entry, and
\* the check that finds it fails; being revoked is no failure of integrity.
Verify(mark, edit, document) ==
  LET status == IF edit = "reactivated" THEN "ACTIVE" ELSE mark
      missing == mark = "NONE"
      integrityValid == ~missing /\ edit = "none" /\ document # "differs"
      documentVerified == ~missing /\ document = "matches"
  IN [status |-> status, missing |-> missing, integrityValid |-> integrityValid,
      documentVerified |-> documentVerified,
      valid |-> integrityValid /\ documentVerified /\ status = "ACTIVE"]

-----------------------------------------------------------------------------
(* Comparing the two sides.                                                *)

Codes ==
  [ RPC_UNAVAILABLE    |-> "RPC_UNAVAILABLE",
    NOT_CHECKED        |-> "NOT_CHECKED",
    CONFLICT_DUPLICATE |-> "CHAIN_CONFLICT",
    INVALID_RECORD     |-> "CHAIN_RECORD_INVALID",
    NOT_FOUND          |-> "ONCHAIN_RECORD_NOT_FOUND" ]

CompareStates(offChain, onChain) ==
  IF onChain \in DOMAIN Codes THEN Codes[onChain]
  ELSE IF offChain = "NONE" THEN "OFFCHAIN_RECORD_NOT_FOUND"
  ELSE IF offChain # onChain THEN "STATE_MISMATCH"
  ELSE "STATE_CONSISTENT"

\* `consistent` is null for a chain that did not answer.
Inconsistent(code) ==
  code \notin {"STATE_CONSISTENT", "RPC_UNAVAILABLE", "NOT_CHECKED"}

\* Missing records first, then unusable chain records, then the integrity of
\* the entry, then the comparison, and the status last.
SelectOutcome(v, chainStatus, code) ==
  CASE v.missing /\ chainStatus = "NOT_FOUND" -> "NOT_FOUND"
    [] v.missing /\ chainStatus \in {"ACTIVE", "REVOKED"} -> "OFFCHAIN_RECORD_NOT_FOUND"
    [] chainStatus = "CONFLICT_DUPLICATE" -> "CONFLICT_DUPLICATE"
    [] chainStatus = "INVALID_RECORD" -> "INVALID_CHAIN_RECORD"
    [] OTHER ->
         IF ~v.integrityValid THEN "INVALID_EVIDENCE"
         ELSE IF chainStatus = "NOT_CHECKED" THEN "CHAIN_NOT_CHECKED"
         ELSE IF Inconsistent(code) THEN code
         ELSE IF chainStatus = "RPC_UNAVAILABLE" THEN "RPC_UNAVAILABLE"
         ELSE IF v.status = "REVOKED" THEN "REVOKED"
         ELSE IF v.status = "ACTIVE" /\ v.documentVerified THEN "ACTIVE_VALID"
         ELSE IF v.status = "ACTIVE" THEN "ACTIVE_DOCUMENT_NOT_CHECKED"
         ELSE "INDETERMINATE"

Usable(v, chainStatus, code) ==
  /\ SelectOutcome(v, chainStatus, code) = "ACTIVE_VALID"
  /\ v.valid
  /\ chainStatus = "ACTIVE"
  /\ code = "STATE_CONSISTENT"

-----------------------------------------------------------------------------
(* Steps.                                                                  *)

InspectorInit ==
  /\ Init
  /\ indexed = [c \in Credentials |-> "NONE"]
  /\ inspection = [i \in Inspectors |-> NoInspection]
  /\ report = [i \in Inspectors |-> NoReport]
  /\ inspections = 0

\* The ledger side, up to the await of the chain.
Inspect(i, c, document, skipChain) ==
  /\ inspection[i] = NoInspection
  /\ inspections < MaxInspections
  /\ inspections' = inspections + 1
  /\ \E edit \in IF ledger[c] = "REVOKED" THEN Edits ELSE Edits \ {"reactivated"} :
       inspection' = [inspection EXCEPT ![i] =
         [stage |-> "chain", credential |-> c, verification |-> Verify(ledger[c], edit, document),
          skipChain |-> skipChain, held |-> ledger[c], before |-> indexed[c],
          moved |-> WorkersOn(c) # {}]]
  /\ UNCHANGED <<vars, indexed, report>>

\* What inspectRecord can answer: the index's status, a conflict when another
\* process has created a second record, or an error.
ChainAnswers(i) ==
  IF inspection[i].skipChain THEN {"NOT_CHECKED"}
  ELSE LET mark == indexed[inspection[i].credential] IN
       {IF mark = "NONE" THEN "NOT_FOUND" ELSE mark, "RPC_UNAVAILABLE"}
       \cup {s \in {"CONFLICT_DUPLICATE"} : mark # "NONE"}

\* Ghost: something was changing between the two reads, or the ledger and the
\* chain of this credential were left apart before, or the index lags.
MayDiffer(i) ==
  LET c == inspection[i].credential IN
  \/ inspection[i].moved
  \/ indexed[c] # chain[c]
  \/ inspection[i].before # chain[c]
  \/ c \in torn \cup offline
  \/ collided
  \/ ~ChainWrites

Report(i) ==
  /\ inspection[i] # NoInspection
  /\ \E answer \in ChainAnswers(i) :
       LET v == inspection[i].verification
           code == CompareStates(v.status, answer)
       IN report' = [report EXCEPT ![i] =
            [outcome |-> SelectOutcome(v, answer, code), usable |-> Usable(v, answer, code),
             credential |-> inspection[i].credential, held |-> inspection[i].held,
             before |-> inspection[i].before, explained |-> MayDiffer(i)]]
  /\ inspection' = [inspection EXCEPT ![i] = NoInspection]
  /\ UNCHANGED <<vars, indexed, inspections>>

UpdateIndex(c) ==
  /\ indexed[c] # chain[c]
  /\ indexed' = [indexed EXCEPT ![c] = chain[c]]
  /\ UNCHANGED <<vars, inspection, report, inspections>>

\* The issuer goes on working; inspections notice which credentials moved.
IssuerStep ==
  /\ Next
  /\ inspection' = [i \in Inspectors |->
       IF inspection[i] = NoInspection THEN NoInspection
       ELSE [inspection[i] EXCEPT !.moved =
               @ \/ \E w \in Workers : Active(w)' /\ job'[w].credential = inspection[i].credential]]
  /\ UNCHANGED <<indexed, report, inspections>>

InspectorNext ==
  \/ IssuerStep
  \/ \E i \in Inspectors, c \in Credentials, document \in Documents, skipChain \in BOOLEAN :
       Inspect(i, c, document, skipChain)
  \/ \E i \in Inspectors : Report(i)
  \/ \E c \in Credentials : UpdateIndex(c)

InspectorSpec == InspectorInit /\ [][InspectorNext]_allVars

-----------------------------------------------------------------------------
(* Properties                                                              *)

\* A credential is vouched for only if the ledger really held it as ACTIVE when
\* it was read, edits notwithstanding, and no revocation of it was indexed when
\* the inspection began.
VouchesForActiveOnly ==
  \A i \in Inspectors : report[i].outcome # "NONE" /\ report[i].usable =>
    report[i].held = "ACTIVE" /\ report[i].before # "REVOKED"

\* The two sides are reported to contradict each other only when a job ran
\* between the two reads, the index lagged, or a failure, a collision or a
\* command line tool had left them apart.
ContradictionsExplained ==
  \A i \in Inspectors :
    report[i].outcome \in {"STATE_MISMATCH", "ONCHAIN_RECORD_NOT_FOUND",
                           "OFFCHAIN_RECORD_NOT_FOUND"} => report[i].explained

=============================================================================
