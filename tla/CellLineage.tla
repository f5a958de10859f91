------------------------------ MODULE CellLineage ------------------------------
(***************************************************************************)
(* What the registry promises of a registration, whatever transactions are *)
(* submitted (docs/CREDENTIAL_CELL_DATA_FORMAT.md): a lineage starts       *)
(* ACTIVE, keeps its issuer and its credential, may become REVOKED once,   *)
(* and stays for ever after that.                                          *)
(***************************************************************************)
CONSTANTS Lineages, Issuers, Credentials, Nothing

VARIABLE lineage   \* for every lineage: Nothing, or what it says now

Statement == [issuer : Issuers, credential : Credentials, status : {"ACTIVE", "REVOKED"}]

Init == lineage = [l \in Lineages |-> Nothing]

Registered(l) ==
  /\ lineage[l] = Nothing
  /\ lineage'[l] \in Statement
  /\ lineage'[l].status = "ACTIVE"

Revoked(l) ==
  /\ lineage[l] \in Statement
  /\ lineage[l].status = "ACTIVE"
  /\ lineage'[l] = [lineage[l] EXCEPT !.status = "REVOKED"]

\* One transaction may carry the script groups of several issuers.
Next ==
  /\ DOMAIN lineage' = Lineages
  /\ \A l \in Lineages :
       lineage'[l] = lineage[l] \/ Registered(l) \/ Revoked(l)

Spec == Init /\ [][Next]_lineage
=============================================================================
