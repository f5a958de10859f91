---------------------------- MODULE MCCellRegistry ----------------------------
(***************************************************************************)
(* CellRegistry with two wallets that both issue, two credentials and a    *)
(* few out-points.  The outputs tried are the canonical cells and the      *)
(* cells that differ from a canonical one in a single respect.             *)
(***************************************************************************)
EXTENDS CellRegistry

CONSTANTS i1, i2, c1, c2

MCLockHashes == {i1, i2}
MCCredentialHashes == {c1, c2}

Active(c, i) ==
  [version |-> VERSION, status |-> STATUS_ACTIVE, credentialId |-> c,
   issuerLockHash |-> i, reasonCode |-> 0, revokedAt |-> 0]
Revoked(c, i) == [Active(c, i) EXCEPT !.status = STATUS_REVOKED, !.reasonCode = 1, !.revokedAt = 1]
Held(i, data) == [lock |-> i, args |-> i, data |-> data]

Canonical ==
  {Held(i1, d) : d \in {Active(c1, i1), Active(c2, i1), Revoked(c1, i1)}}
  \cup {Held(i2, d) : d \in {Active(c1, i2), Revoked(c1, i2)}}

Deviant ==
  {[Held(i1, d) EXCEPT !.lock = i2] : d \in {Active(c1, i1), Revoked(c1, i1)}}
  \cup {[Held(i1, Active(c1, i1)) EXCEPT !.args = ShortArgs]}
  \cup {Held(i1, d) : d \in {
          Malformed, Active(c1, i2), Revoked(c2, i1),
          [Active(c1, i1) EXCEPT !.version = 2], [Active(c1, i1) EXCEPT !.status = 2],
          [Active(c1, i1) EXCEPT !.reasonCode = 1], [Active(c1, i1) EXCEPT !.revokedAt = 1],
          [Revoked(c1, i1) EXCEPT !.version = 2], [Revoked(c1, i1) EXCEPT !.reasonCode = 0],
          [Revoked(c1, i1) EXCEPT !.revokedAt = 0]}}

MCOutputCells == Canonical \cup Deviant
=============================================================================
