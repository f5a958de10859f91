---------------------------- MODULE SubmissionReview ----------------------------
(***************************************************************************)
(* The life of a submission row in the product database (product-db.js):   *)
(* applicants reach it through the inspector process (inspector-http.js),  *)
(* reviewers through the issuer portal (issuer-http.js), which also issues *)
(* the credential of an approved submission.                               *)
(*                                                                         *)
(* Both programs are single threaded: a handler runs alone in its process  *)
(* from one await to the next.  They share the SQLite file, where one      *)
(* statement is atomic and two statements of a handler are not, so the     *)
(* other process can act between any two of them.  Any statement and any   *)
(* write of a file may throw, which ends the handler or enters the catch   *)
(* block of issueSubmission, whose own statements may throw as well.       *)
(* Either process may crash, which abandons the handlers it was running.   *)
(***************************************************************************)
EXTENDS Naturals, FiniteSets

CONSTANTS
  Submissions,  \* identities of submission rows
  Reviewers,    \* concurrent requests to the issuer portal
  Applicants,   \* concurrent requests to the inspector
  ChainWrites,  \* CHAIN_WRITE_MODE is not "disabled"
  MaxRequests   \* bound: requests served in a behaviour

ASSUME ChainWritesAssumption == ChainWrites \in BOOLEAN
ASSUME MaxRequestsAssumption == MaxRequests \in Nat
ASSUME HandlersAssumption == Reviewers \cap Applicants = {}

VARIABLES
  row,        \* the submissions table: status, issued_credential_id, ai_json
  timeline,   \* the status named by the latest status event of a submission
  issued,     \* the credentials the ledger holds for a submission
  request,    \* what every handler is doing
  requests,   \* how many requests were served; numbers the credentials
  disturbed,  \* ghost: submissions with overlapping or interrupted handlers
  unlogged,   \* ghost: submissions whose latest change of status has no event
  failures    \* ghost: what threw while a submission was issued, up to two

vars == <<row, timeline, issued, request, requests, disturbed, unlogged, failures>>
lapses == <<unlogged, failures>>

Handlers == Reviewers \cup Applicants

ReviewActions == {"approve", "request_changes", "reject"}
EvidenceActions == {"check", "analyse"}
ApplicantActions == {"resubmit", "cancel"}

Statuses ==
  {"NONE", "SUBMITTED", "CHANGES_REQUESTED", "APPROVED", "REJECTED",
   "CANCELLED", "ISSUED", "ISSUE_FAILED"}

\* The status an action writes.
Target(action) ==
  CASE action = "approve" -> "APPROVED"
    [] action = "request_changes" -> "CHANGES_REQUESTED"
    [] action = "reject" -> "REJECTED"
    [] action = "resubmit" -> "SUBMITTED"
    [] action = "cancel" -> "CANCELLED"

Numbers == 1..MaxRequests
Rows == [status : Statuses, credential : {0} \cup Numbers, ai : SUBSET {"evidence", "analysis"}]
NewRow == [status |-> "NONE", credential |-> 0, ai |-> {}]

\* A handler: where it is, its action and submission, the row it read first,
\* the status it read last, the status it is about to write, its number.
Awaiting == {"body", "evidence", "chain"}
Running == {"before", "update", "event", "issue", "persist", "record", "report"}
IdleRequests == [stage : {"idle"}]
ActiveRequests ==
  [stage : Awaiting \cup Running, submission : Submissions,
   action : ReviewActions \cup EvidenceActions \cup ApplicantActions \cup {"create"},
   seen : Rows, prior : Statuses, patch : Statuses, number : Numbers]

TypeOK ==
  /\ row \in [Submissions -> Rows]
  /\ timeline \in [Submissions -> Statuses]
  /\ issued \in [Submissions -> SUBSET Numbers]
  /\ request \in [Handlers -> IdleRequests \cup ActiveRequests]
  /\ requests \in 0..MaxRequests
  /\ disturbed \subseteq Submissions
  /\ unlogged \subseteq Submissions
  /\ failures \in [Submissions -> 0..2]

Idle == [stage |-> "idle"]

Init ==
  /\ row = [s \in Submissions |-> NewRow]
  /\ timeline = [s \in Submissions |-> "NONE"]
  /\ issued = [s \in Submissions |-> {}]
  /\ request = [h \in Handlers |-> Idle]
  /\ requests = 0
  /\ disturbed = {}
  /\ unlogged = {}
  /\ failures = [s \in Submissions |-> 0]

-----------------------------------------------------------------------------
Active(h) == request[h].stage # "idle"
HandlersOf(s) == {h \in Handlers : Active(h) /\ request[h].submission = s}

ProcessOf(h) == IF h \in Reviewers THEN Reviewers ELSE Applicants

\* No other handler of h's process is between two awaits.
ThreadFree(h) == \A g \in ProcessOf(h) \ {h} : request[g].stage \notin Running

At(h, stage) == request[h].stage = stage /\ (stage \in Awaiting => ThreadFree(h))

Go(h, stage) == request' = [request EXCEPT ![h].stage = stage]
Finish(h) == request' = [request EXCEPT ![h] = Idle]

\* One more call of the issuance of s threw.
Fail(s) == failures' = [failures EXCEPT ![s] = IF @ < 2 THEN @ + 1 ELSE 2]

\* updateSubmission with a new status: the patch is written statement by
\* statement by ReadBefore, Update and RecordEvent, or StatementThrows.
StartUpdate(h, status) ==
  request' = [request EXCEPT ![h].stage = "before", ![h].patch = status]

\* A request arrives and its handler reads, or inserts, the row.
Begin(h, s, action, stage) ==
  /\ request[h].stage = "idle"
  /\ ThreadFree(h)
  /\ requests < MaxRequests
  /\ requests' = requests + 1
  /\ request' = [request EXCEPT ![h] =
       [stage |-> stage, submission |-> s, action |-> action, seen |-> row[s],
        prior |-> row[s].status,
        patch |-> IF action = "create" THEN "SUBMITTED"
                  ELSE IF action \in ApplicantActions THEN Target(action) ELSE "NONE",
        number |-> requests + 1]]
  /\ disturbed' = IF HandlersOf(s) = {} THEN disturbed ELSE disturbed \cup {s}

-----------------------------------------------------------------------------
(* Applicants.                                                             *)

CreateSubmission(h, s) ==
  /\ row[s].status = "NONE"
  /\ Begin(h, s, "create", "event")
  /\ row' = [row EXCEPT ![s].status = "SUBMITTED"]
  /\ UNCHANGED <<timeline, issued, lapses>>

Resubmit(h, s) ==
  /\ row[s].status = "CHANGES_REQUESTED"
  /\ Begin(h, s, "resubmit", "update")
  /\ UNCHANGED <<row, timeline, issued, lapses>>

Cancel(h, s) ==
  /\ row[s].status \in {"SUBMITTED", "CHANGES_REQUESTED"}
  /\ Begin(h, s, "cancel", "update")
  /\ UNCHANGED <<row, timeline, issued, lapses>>

-----------------------------------------------------------------------------
(* Reviewers.                                                              *)

\* The handler reads the row, then awaits the body that names the action.
Review(h, s, action) ==
  /\ row[s].status # "NONE"
  /\ Begin(h, s, action, "body")
  /\ UNCHANGED <<row, timeline, issued, lapses>>

\* Mutant: a submission is reviewed whatever its status.
DecideUnguarded(h) ==
  /\ At(h, "body")
  /\ StartUpdate(h, Target(request[h].action))
  /\ UNCHANGED <<row, timeline, issued, requests, disturbed, lapses>>

\* The body arrived; the row it read before decides.
Decide(h) ==
  /\ At(h, "body")
  /\ \/ /\ request[h].seen.status # "SUBMITTED"
        /\ Finish(h)
     \/ /\ request[h].seen.status = "SUBMITTED"
        /\ StartUpdate(h, Target(request[h].action))
  /\ UNCHANGED <<row, timeline, issued, requests, disturbed, lapses>>

\* The /check and /ai handlers read the row, then await evidence checks and,
\* for /ai, the model.
Examine(h, s, action) ==
  /\ row[s].status # "NONE"
  /\ Begin(h, s, action, "evidence")
  /\ UNCHANGED <<row, timeline, issued, lapses>>

\* /check adds its result to the prior one it read, /ai replaces both.
SaveEvidence(h) ==
  /\ At(h, "evidence")
  /\ row' = [row EXCEPT ![request[h].submission].ai =
       IF request[h].action = "check" THEN request[h].seen.ai \cup {"evidence"}
       ELSE {"evidence", "analysis"}]
  /\ Finish(h)
  /\ UNCHANGED <<timeline, issued, requests, disturbed, lapses>>

EvidenceFails(h) ==
  /\ At(h, "evidence")
  /\ Finish(h)
  /\ UNCHANGED <<row, timeline, issued, requests, disturbed, lapses>>

-----------------------------------------------------------------------------
(* The statements of updateSubmission.                                     *)

ReadBefore(h) ==
  /\ At(h, "before")
  /\ request' = [request EXCEPT ![h].stage = "update",
                                ![h].prior = row[request[h].submission].status]
  /\ UNCHANGED <<row, timeline, issued, requests, disturbed, lapses>>

Update(h) ==
  /\ At(h, "update")
  /\ LET patch == request[h].patch
         s == request[h].submission IN
     row' = [row EXCEPT ![s].status = patch,
                        ![s].credential = IF patch = "ISSUED" THEN request[h].number ELSE @]
  /\ Go(h, "event")
  /\ UNCHANGED <<timeline, issued, requests, disturbed, lapses>>

\* Mutant: events are written for reviewers' decisions only.
RecordDecision(h) ==
  /\ At(h, "event")
  /\ LET patch == request[h].patch
         s == request[h].submission IN
     /\ IF patch # request[h].prior /\ patch \notin {"ISSUED", "ISSUE_FAILED"}
        THEN /\ timeline' = [timeline EXCEPT ![s] = patch]
             /\ unlogged' = unlogged \ {s}
        ELSE UNCHANGED <<timeline, unlogged>>
     /\ CASE patch = "APPROVED" -> Go(h, "issue")
          [] patch = "ISSUED" -> Go(h, "record")
          [] OTHER -> Finish(h)
  /\ UNCHANGED <<row, issued, requests, disturbed, failures>>

\* An event is recorded when the status changed; an approval goes on to issue,
\* an issuance to the profile and the audit.
RecordEvent(h) ==
  /\ At(h, "event")
  /\ LET patch == request[h].patch
         s == request[h].submission IN
     /\ IF patch # request[h].prior
        THEN /\ timeline' = [timeline EXCEPT ![s] = patch]
             /\ unlogged' = unlogged \ {s}
        ELSE UNCHANGED <<timeline, unlogged>>
     /\ CASE patch = "APPROVED" -> Go(h, "issue")
          [] patch = "ISSUED" -> Go(h, "record")
          [] OTHER -> Finish(h)
  /\ UNCHANGED <<row, issued, requests, disturbed, failures>>

\* A statement throws: the status ISSUED is written inside the try block of
\* issueSubmission, every other status ends the handler.
StatementThrows(h) ==
  /\ request[h].stage \in {"before", "update", "event"}
  /\ LET patch == request[h].patch
         s == request[h].submission IN
     /\ unlogged' = IF request[h].stage = "event" /\ patch # request[h].prior
                    THEN unlogged \cup {s} ELSE unlogged
     /\ IF patch \in {"ISSUED", "ISSUE_FAILED"} THEN Fail(s) ELSE UNCHANGED failures
     /\ IF patch = "ISSUED" THEN Go(h, "report") ELSE Finish(h)
  /\ UNCHANGED <<row, timeline, issued, requests, disturbed>>

-----------------------------------------------------------------------------
(* issueSubmission.                                                        *)

\* The call throws inside the try block of issueSubmission.
Throw(h) == Go(h, "report") /\ Fail(request[h].submission)

\* The row is read again; writing the certificate, preparing the credential or
\* creating the operation may throw before the try block, marking it
\* CHAIN_PENDING inside it.
Issue(h) ==
  /\ At(h, "issue")
  /\ \/ Finish(h) /\ UNCHANGED failures
     \/ /\ row[request[h].submission].status # "ISSUED"
        /\ \/ Go(h, IF ChainWrites THEN "chain" ELSE "persist") /\ UNCHANGED failures
           \/ ChainWrites /\ Throw(h)
  /\ UNCHANGED <<row, timeline, issued, requests, disturbed, unlogged>>

\* The chain call, or marking the operation CHAIN_COMMITTED, may throw.
ChainReturns(h) ==
  /\ At(h, "chain")
  /\ \/ Go(h, "persist") /\ UNCHANGED failures
     \/ Throw(h)
  /\ UNCHANGED <<row, timeline, issued, requests, disturbed, unlogged>>

\* Mutant: the submission is not updated when persisting throws.
PersistUncaught(h) ==
  /\ At(h, "persist")
  /\ \E saved \in BOOLEAN :
       /\ issued' = [issued EXCEPT ![request[h].submission] =
            IF saved THEN @ \cup {request[h].number} ELSE @]
       /\ \/ saved /\ StartUpdate(h, "ISSUED") /\ UNCHANGED failures
          \/ Finish(h) /\ Fail(request[h].submission)
  /\ UNCHANGED <<row, timeline, requests, disturbed, unlogged>>

\* persistPreparedCredential saves the ledger, then writes two artifacts; it
\* may throw before or after the ledger is saved, and so may the update of the
\* operation that follows it.
Persist(h) ==
  /\ At(h, "persist")
  /\ \E saved \in BOOLEAN :
       /\ issued' = [issued EXCEPT ![request[h].submission] =
            IF saved THEN @ \cup {request[h].number} ELSE @]
       /\ \/ saved /\ StartUpdate(h, "ISSUED") /\ UNCHANGED failures
          \/ Throw(h)
  /\ UNCHANGED <<row, timeline, requests, disturbed, unlogged>>

\* The profile and the audit of an issued credential.
Record(h) ==
  /\ At(h, "record")
  /\ \/ Finish(h) /\ UNCHANGED failures
     \/ Throw(h)
  /\ UNCHANGED <<row, timeline, issued, requests, disturbed, unlogged>>

\* The catch block marks the operation FAILED, then the submission ISSUE_FAILED.
Report(h) ==
  /\ At(h, "report")
  /\ \/ StartUpdate(h, "ISSUE_FAILED") /\ UNCHANGED failures
     \/ Finish(h) /\ Fail(request[h].submission)
  /\ UNCHANGED <<row, timeline, issued, requests, disturbed, unlogged>>

-----------------------------------------------------------------------------
\* A process stops: its handlers are gone, what they wrote stays.
Crash(process) ==
  /\ \E h \in process : Active(h)
  /\ request' = [h \in Handlers |-> IF h \in process THEN Idle ELSE request[h]]
  /\ disturbed' = disturbed \cup {request[h].submission : h \in {g \in process : Active(g)}}
  /\ UNCHANGED <<row, timeline, issued, requests, lapses>>

Step(h) ==
  \/ Decide(h)
  \/ SaveEvidence(h)
  \/ EvidenceFails(h)
  \/ ReadBefore(h)
  \/ Update(h)
  \/ RecordEvent(h)
  \/ StatementThrows(h)
  \/ Issue(h)
  \/ ChainReturns(h)
  \/ Persist(h)
  \/ Record(h)
  \/ Report(h)

Next ==
  \/ \E h \in Handlers : Step(h)
  \/ \E h \in Applicants, s \in Submissions :
       CreateSubmission(h, s) \/ Resubmit(h, s) \/ Cancel(h, s)
  \/ \E h \in Reviewers, s \in Submissions :
       \/ \E action \in ReviewActions : Review(h, s, action)
       \/ \E action \in EvidenceActions : Examine(h, s, action)
  \/ Crash(Reviewers)
  \/ Crash(Applicants)

Spec == Init /\ [][Next]_vars

-----------------------------------------------------------------------------
(* Properties                                                              *)

\* Two credentials come out of one submission only if its handlers overlapped.
DoubleIssueOnlyByOverlap ==
  \A s \in Submissions : Cardinality(issued[s]) > 1 => s \in disturbed

\* A credential in the ledger is reported on its submission as issued, or as
\* a failed issuance somebody has to look at, once the handler is done: no
\* single call that throws leaves it unreported, it takes a second one in the
\* catch block.
CredentialAccountedFor ==
  \A s \in Submissions \ disturbed :
    HandlersOf(s) = {} /\ issued[s] # {} /\ failures[s] < 2 =>
      row[s].status \in {"ISSUED", "ISSUE_FAILED"}

\* The timeline shown to the applicant ends with the status of the row, unless
\* the event of the latest change of status could not be written: an event lost
\* earlier is made up for by the next one.
TimelineAgrees ==
  \A s \in Submissions \ (disturbed \cup unlogged) :
    HandlersOf(s) = {} => timeline[s] = row[s].status

\* "This submission already has an issued credential."
\* (lib/issuer-http.js:62).
OneCredentialPerSubmission == \A s \in Submissions : Cardinality(issued[s]) <= 1

=============================================================================
