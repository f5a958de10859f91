----------------------------- MODULE AttachmentStore -----------------------------
(***************************************************************************)
(* The evidence files of one submission: rows of submission_attachments    *)
(* and files under product-attachments (attachment-service.js), added and  *)
(* removed by applicants through the inspector process (inspector-http.js) *)
(* and audited by a command line process or the portal.                    *)
(*                                                                         *)
(* A handler awaits its body and then runs to its end without an await, so *)
(* handlers of the inspector do not interleave.  The portal, which decides *)
(* on the submission, and the audit are processes of their own: they act   *)
(* between any two file operations or SQL statements of a handler.  Each   *)
(* of these can throw, and the inspector can crash after any of them.      *)
(***************************************************************************)
EXTENDS Naturals, FiniteSets

CONSTANTS
  Handlers,    \* concurrent requests to the inspector
  Limit,       \* files a submission can have: 10 in the code
  MaxRequests  \* bound: requests in a behaviour

ASSUME LimitAssumption == Limit \in Nat
ASSUME MaxRequestsAssumption == MaxRequests \in Nat

VARIABLES
  status,      \* the status of the submission
  issuing,     \* whether an approval went on to issue a credential
  change,      \* the status a request of the applicant is about to write
  rows,        \* the attachments with a row
  file,        \* the file of every attachment
  handler,     \* what every handler is doing
  requests,    \* requests served; numbers the uploads
  audit,       \* the audit under way, or the result of the latest
  unlogged,    \* ghost: uploads whose event could not be inserted
  interrupted, \* ghost: attachments a request left half way
  decidedOn,   \* ghost: the rows when the submission was closed
  late         \* ghost: attachments a handler was working on at that time

vars ==
  <<status, issuing, change, rows, file, handler, requests, audit, unlogged, interrupted,
    decidedOn, late>>
statusVars == <<status, issuing, change, decidedOn, late>>

Editable == {"SUBMITTED", "CHANGES_REQUESTED"}
Closed == {"APPROVED", "REJECTED", "CANCELLED", "ISSUED", "ISSUE_FAILED"}
Attachments == 1..MaxRequests
Contents == {"none", "partial", "whole"}

\* Stages after the body, which run without an await.
Running == {"write", "insert", "added", "undo", "delete", "removed", "unlink"}
ActiveHandlers == [stage : {"body"} \cup Running, kind : {"upload", "remove"}, id : Attachments]
Idle == [stage |-> "idle"]

NoAudit == [stage |-> "none"]
\* `moved` is a ghost: attachments a handler was working on since the audit began.
Audits ==
  [stage : {"rows", "open", "done"}, listed : SUBSET Attachments, pending : SUBSET Attachments,
   current : SUBSET Attachments, missing : SUBSET Attachments, orphaned : SUBSET Attachments,
   moved : SUBSET Attachments]

TypeOK ==
  /\ status \in Editable \cup Closed
  /\ issuing \in BOOLEAN
  /\ change \in {"none", "SUBMITTED", "CANCELLED"}
  /\ rows \subseteq Attachments
  /\ file \in [Attachments -> Contents]
  /\ handler \in [Handlers -> ActiveHandlers \cup {Idle}]
  /\ requests \in 0..MaxRequests
  /\ audit \in Audits \cup {NoAudit}
  /\ unlogged \subseteq Attachments
  /\ interrupted \subseteq Attachments
  /\ decidedOn \subseteq Attachments
  /\ late \subseteq Attachments

Init ==
  /\ status = "SUBMITTED"
  /\ issuing = FALSE
  /\ change = "none"
  /\ rows = {}
  /\ file = [a \in Attachments |-> "none"]
  /\ handler = [h \in Handlers |-> Idle]
  /\ requests = 0
  /\ audit = NoAudit
  /\ unlogged = {}
  /\ interrupted = {}
  /\ decidedOn = {}
  /\ late = {}

-----------------------------------------------------------------------------
At(h, stage) == handler[h].stage = stage
ThreadFree == change = "none" /\ \A h \in Handlers : handler[h].stage \notin Running
WorkedOn == {handler[h].id : h \in {g \in Handlers : handler[g].stage \in Running}}

Go(h, stage) == handler' = [handler EXCEPT ![h].stage = stage]
Finish(h) == handler' = [handler EXCEPT ![h] = Idle]

\* The handler throws and leaves its attachment as it is.
Abandon(h) ==
  /\ Finish(h)
  /\ interrupted' = interrupted \cup {handler[h].id}

\* The id of an upload is chosen when its file is written; here it is numbered
\* when the request arrives.
Begin(h, kind) ==
  /\ handler[h] = Idle
  /\ ThreadFree
  /\ requests < MaxRequests
  /\ requests' = requests + 1
  /\ \E a \in IF kind = "upload" THEN {requests + 1} ELSE 1..requests :
       handler' = [handler EXCEPT ![h] = [stage |-> "body", kind |-> kind, id |-> a]]
  /\ UNCHANGED <<statusVars, rows, file, unlogged, interrupted>>

\* Mutant: a submission is only looked at for its files.
CheckLimitOnly(h) ==
  /\ At(h, "body")
  /\ ThreadFree
  /\ \/ /\ handler[h].kind = "upload" /\ Cardinality(rows) < Limit
        /\ Go(h, "write")
     \/ /\ handler[h].kind = "remove" /\ handler[h].id \in rows
        /\ Go(h, "delete")
     \/ Finish(h)
  /\ UNCHANGED <<statusVars, rows, file, requests, unlogged, interrupted>>

\* Mutant: one file too many is let in.
CheckOffByOne(h) ==
  /\ At(h, "body")
  /\ ThreadFree
  /\ \/ /\ handler[h].kind = "upload" /\ status \in Editable /\ Cardinality(rows) <= Limit
        /\ Go(h, "write")
     \/ /\ handler[h].kind = "remove" /\ status \in Editable /\ handler[h].id \in rows
        /\ Go(h, "delete")
     \/ Finish(h)
  /\ UNCHANGED <<statusVars, rows, file, requests, unlogged, interrupted>>

\* The body has come: the submission is read, and its rows are counted or the
\* row to be removed is read.
Check(h) ==
  /\ At(h, "body")
  /\ ThreadFree
  /\ \/ /\ handler[h].kind = "upload" /\ status \in Editable /\ Cardinality(rows) < Limit
        /\ Go(h, "write")
     \/ /\ handler[h].kind = "remove" /\ status \in Editable /\ handler[h].id \in rows
        /\ Go(h, "delete")
     \/ Finish(h)
  /\ UNCHANGED <<statusVars, rows, file, requests, unlogged, interrupted>>

-----------------------------------------------------------------------------
(* Adding a file.                                                          *)

WriteFile(h) ==
  /\ At(h, "write")
  /\ \/ /\ file' = [file EXCEPT ![handler[h].id] = "whole"]
        /\ Go(h, "insert")
        /\ UNCHANGED interrupted
     \/ /\ \E part \in {"none", "partial"} : file' = [file EXCEPT ![handler[h].id] = part]
        /\ Abandon(h)
  /\ UNCHANGED <<statusVars, rows, requests, unlogged>>

InsertRow(h) ==
  /\ At(h, "insert")
  /\ \/ rows' = rows \cup {handler[h].id} /\ Go(h, "added")
     \/ UNCHANGED rows /\ Go(h, "undo")
  /\ UNCHANGED <<statusVars, file, requests, unlogged, interrupted>>

\* The ATTACHMENT_ADDED event; if it fails the row stays.
RecordAdded(h) ==
  /\ At(h, "added")
  /\ \/ Finish(h) /\ UNCHANGED unlogged
     \/ Go(h, "undo") /\ unlogged' = unlogged \cup {handler[h].id}
  /\ UNCHANGED <<statusVars, rows, file, requests, interrupted>>

\* Mutant: a failed insertion leaves the file where it is.
UndoNothing(h) ==
  /\ At(h, "undo")
  /\ Finish(h)
  /\ UNCHANGED <<statusVars, rows, file, requests, unlogged, interrupted>>

\* The file of a row that was not, or not entirely, recorded is removed.
Undo(h) ==
  /\ At(h, "undo")
  /\ \/ file' = [file EXCEPT ![handler[h].id] = "none"] /\ Finish(h) /\ UNCHANGED interrupted
     \/ UNCHANGED file /\ Abandon(h)
  /\ UNCHANGED <<statusVars, rows, requests, unlogged>>

-----------------------------------------------------------------------------
(* Removing a file.                                                        *)

\* Mutant: the file is removed and its row is kept.
DeleteFileOnly(h) ==
  /\ At(h, "delete")
  /\ file' = [file EXCEPT ![handler[h].id] = "none"]
  /\ Go(h, "removed")
  /\ UNCHANGED <<statusVars, rows, requests, unlogged, interrupted>>

DeleteRow(h) ==
  /\ At(h, "delete")
  /\ \/ rows' = rows \ {handler[h].id} /\ Go(h, "removed")
     \/ UNCHANGED rows /\ Finish(h)
  /\ UNCHANGED <<statusVars, file, requests, unlogged, interrupted>>

\* The ATTACHMENT_REMOVED event; if it fails the file stays.
RecordRemoved(h) ==
  /\ At(h, "removed")
  /\ \/ Go(h, "unlink") /\ UNCHANGED interrupted
     \/ Abandon(h)
  /\ UNCHANGED <<statusVars, rows, file, requests, unlogged>>

Unlink(h) ==
  /\ At(h, "unlink")
  /\ \/ file' = [file EXCEPT ![handler[h].id] = "none"] /\ Finish(h) /\ UNCHANGED interrupted
     \/ UNCHANGED file /\ Abandon(h)
  /\ UNCHANGED <<statusVars, rows, requests, unlogged>>

-----------------------------------------------------------------------------
\* The inspector stops: its handlers are gone, a file may be half written.
Crash ==
  /\ change # "none" \/ \E h \in Handlers : handler[h] # Idle
  /\ handler' = [h \in Handlers |-> Idle]
  /\ change' = "none"
  /\ interrupted' = interrupted \cup WorkedOn
  /\ file' \in {file} \cup
       {[file EXCEPT ![handler[h].id] = "partial"] : h \in {g \in Handlers : At(g, "write")}}
  /\ UNCHANGED <<status, issuing, decidedOn, late, rows, requests, unlogged>>

\* A closed submission keeps what it was closed on; one that was open is closed
\* on the rows it has then.
SetStatus(new) ==
  /\ status' = new
  /\ IF new \in Closed /\ status \in Closed
     THEN UNCHANGED <<decidedOn, late>>
     ELSE /\ decidedOn' = IF new \in Closed THEN rows ELSE {}
          /\ late' = IF new \in Closed THEN WorkedOn ELSE {}

\* A review decides by the row it read before it awaited its body, and any number
\* of reviews can have read the submission while it was SUBMITTED, as it is at
\* first: the current status is no guard, so that a decision may close, reopen or
\* overwrite whatever it finds.
Decide ==
  /\ \E new \in {"CHANGES_REQUESTED", "APPROVED", "REJECTED"} :
       SetStatus(new) /\ issuing' = (issuing \/ new = "APPROVED")
  /\ UNCHANGED <<change, rows, file, handler, requests, unlogged, interrupted>>

\* An approval awaits the chain, then writes its outcome, which may be a failure
\* after the success; any number of approvals can be under way as well.
Issue ==
  /\ issuing
  /\ \E new \in {"ISSUED", "ISSUE_FAILED"} : SetStatus(new)
  /\ UNCHANGED <<issuing, change, rows, file, handler, requests, unlogged, interrupted>>

\* Resubmission and cancelling run in the inspector's own thread, which reads the
\* status and writes the new one in two statements; the second may throw.
BeginChange ==
  /\ ThreadFree
  /\ \/ status = "CHANGES_REQUESTED" /\ change' = "SUBMITTED"
     \/ status \in Editable /\ change' = "CANCELLED"
  /\ UNCHANGED
       <<status, issuing, rows, file, handler, requests, unlogged, interrupted, decidedOn, late>>

WriteChange ==
  /\ change # "none" /\ change' = "none"
  /\ SetStatus(change) \/ UNCHANGED <<status, decidedOn, late>>
  /\ UNCHANGED <<issuing, rows, file, handler, requests, unlogged, interrupted>>

StatusStep == Decide \/ Issue \/ BeginChange \/ WriteChange

-----------------------------------------------------------------------------
(* auditAttachmentStorage: list the rows, check each, walk the directory.  *)

StartAudit ==
  /\ audit.stage \in {"none", "done"}
  /\ audit' = [stage |-> "rows", listed |-> rows, pending |-> rows, current |-> {},
               missing |-> {}, orphaned |-> {}, moved |-> WorkedOn]

AuditRow ==
  /\ audit.stage = "rows"
  /\ \E a \in audit.pending :
       audit' = IF a \in rows
         THEN [audit EXCEPT !.stage = "open", !.pending = @ \ {a}, !.current = {a}]
         ELSE [audit EXCEPT !.pending = @ \ {a}, !.missing = @ \cup {a}]

\* A file that is not the one recorded is listed as tampered; here with the missing.
AuditOpen ==
  /\ audit.stage = "open"
  /\ audit' = [audit EXCEPT !.stage = "rows", !.current = {},
       !.missing = @ \cup {a \in audit.current : file[a] # "whole"}]

\* Mutant: files are taken for orphans by their contents.
WalkForDamage ==
  /\ audit.stage = "rows" /\ audit.pending = {}
  /\ audit' = [audit EXCEPT !.stage = "done", !.orphaned = {a \in Attachments : file[a] = "partial"}]

Walk ==
  /\ audit.stage = "rows" /\ audit.pending = {}
  /\ audit' = [audit EXCEPT !.stage = "done",
       !.orphaned = {a \in Attachments : file[a] # "none"} \ audit.listed]

Audit ==
  /\ StartAudit \/ AuditRow \/ AuditOpen \/ Walk
  /\ UNCHANGED <<statusVars, rows, file, handler, requests, unlogged, interrupted>>

-----------------------------------------------------------------------------
HandlerStep(h) ==
  \/ \E kind \in {"upload", "remove"} : Begin(h, kind)
  \/ Check(h)
  \/ WriteFile(h)
  \/ InsertRow(h)
  \/ RecordAdded(h)
  \/ Undo(h)
  \/ DeleteRow(h)
  \/ RecordRemoved(h)
  \/ Unlink(h)

\* Whatever else happens, the audit's ghost notes what handlers work on.
Next ==
  \/ /\ (\E h \in Handlers : HandlerStep(h)) \/ Crash \/ StatusStep
     /\ audit' = IF audit = NoAudit THEN audit ELSE [audit EXCEPT !.moved = @ \cup WorkedOn']
  \/ Audit

Spec == Init /\ [][Next]_vars

-----------------------------------------------------------------------------
(* Properties                                                              *)

\* A submission never has more files than the limit, though uploads of one
\* submission wait for their bodies together.
LimitKept == Cardinality(rows) <= Limit

\* A row whose file is gone comes of an upload whose event could not be
\* inserted: a crash, a failed removal or a failed write never makes one.
RowsReadable == \A a \in rows : file[a] = "whole" \/ a \in unlogged

\* A file without a row belongs to a request that is running, or that threw or
\* was cut off after it had written or unregistered the file.
OrphansExplained ==
  \A a \in Attachments \ rows : file[a] # "none" => a \in WorkedOn \cup interrupted

\* The files of a closed submission are those it was closed on, also when a stale
\* decision or an issuance overwrites the status that closed it, but for the one
\* a request was already working on in the other process.
ClosedSetKept ==
  status \in Closed => (rows \ decidedOn) \cup (decidedOn \ rows) \subseteq late

\* Of attachments no request touched meanwhile an audit reports exactly the
\* rows without their file as missing and the files without a row as orphaned.
AuditTrue ==
  audit.stage = "done" =>
    \A a \in Attachments \ audit.moved :
      /\ a \in audit.missing <=> a \in rows /\ file[a] # "whole"
      /\ a \in audit.orphaned <=> a \notin rows /\ file[a] # "none"

\* "Files can be changed only while the submission is SUBMITTED or
\* CHANGES_REQUESTED" (V5.0_IMPLEMENTATION.md:19).
ChangedOnlyWhileEditable == [][rows' # rows => status \in Editable]_vars

=============================================================================
