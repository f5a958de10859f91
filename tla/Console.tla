-------------------------------- MODULE Console --------------------------------
(***************************************************************************)
(* The browser console (public/app.js): what a handler does between a      *)
(* click and the answer it shows, with several handlers under way at once. *)
(*                                                                         *)
(* A handler disables its button, asks the server once or several times    *)
(* and writes a panel.  Other handlers run and the user edits while it     *)
(* awaits an answer, so what it reads after an await may have changed.  A  *)
(* form's handler keeps the button it disabled and enables it at the end;  *)
(* a click's handler reads event.currentTarget again, which is null once   *)
(* the dispatch is over, so that its button comes back only when the       *)
(* handler ends before it has awaited anything.                            *)
(***************************************************************************)
EXTENDS Naturals, FiniteSets, Sequences, SequencesExt

CONSTANTS
  Controls,     \* the controls of the page in use
  Services,     \* agent services of the catalog
  None,         \* no subject
  RememberedJobs, \* jobs kept in the tab: 10
  MaxClicks     \* bound: clicks

Locks == {"form", "click", "none"}
Flows == {"ask", "track", "job", "reopen"}

\* A control: what it disables, the panel its answer goes to, what its handler does,
\* and the requests it makes before it reads the tracked submission again.
Control(name, lock, panel, flow, acts) ==
  [name |-> name, lock |-> lock, panel |-> panel, flow |-> flow, acts |-> acts]
Asks(name, lock, panel) == Control(name, lock, panel, "ask", 0)

\* Evidence: the handlers that inspect a credential, a Cell, a proof and a document.
InspectControl == Asks("inspect", "form", "result")
DecodeControl == Asks("decode", "form", "decode-result")
ProofControl == Asks("verify-proof", "form", "proof-checks")
DocumentControls == {Asks("inspect-document", "click", "document-info"),
                     Asks("ai-read-document", "click", "ai-document-output")}
ExplainControl == Asks("ai-explain", "click", "ai-explanation")

\* Builders: passport, directory and tutor; nothing is disabled by the first two.
PassportControl == Asks("passport", "none", "passport-result")
DirectoryControl == Asks("directory", "none", "directory-results")
TutorControl == Asks("tutor", "form", "tutor-output")

\* Submissions: a new one is created and its files uploaded, a corrected one has its
\* files uploaded and is resubmitted; each then reads the tracked submission.
SubmitControl == Control("submission", "form", "tracking", "track", 2)
TrackControl == Control("tracking", "none", "tracking", "track", 0)
ResubmitControl == Control("tracking-resubmit", "click", "tracking", "track", 2)
CancelControl == Control("tracking-cancel", "click", "tracking", "track", 1)
RemoveControl == Control("attachment-remove", "none", "tracking", "track", 1)
PrecheckControls == {Asks("ai-triage-submission", "click", "submission-ai-output"),
                     Asks("check-submission", "click", "submission-ai-output")}

\* Agents: missions, paid services and their jobs, and what is checked about them.
ApplicationControl == Asks("ckb-application", "form", "ckb-application-output")
ServiceControl == Control("agent-service", "form", "agent-service-output", "job", 0)
ReopenControl == Control("reopen", "none", "agent-service-output", "reopen", 0)
QuoteControl == Asks("fiber-quote", "form", "fiber-quote-output")
DoctorControls == {Asks("agent-runtime-doctor", "click", "agent-runtime-doctor-output"),
                   Asks("verify-latest-agent-receipt", "click", "agent-runtime-doctor-output"),
                   Asks("verify-latest-agent-checkpoint", "click", "agent-runtime-doctor-output")}
PaymentControl == Asks("fiber-payment-status", "form", "fiber-payment-status-output")
TransactionControls == {Asks("ckb-tx-builder", "form", "ckb-tx-builder-output"),
                        Asks("ckb-tx-preflight", "form", "ckb-tx-preflight-output")}

AllControls ==
  {InspectControl, DecodeControl, ProofControl, ExplainControl, PassportControl,
   DirectoryControl, TutorControl, SubmitControl, TrackControl, ResubmitControl,
   CancelControl, RemoveControl, ApplicationControl, ServiceControl, ReopenControl,
   QuoteControl, PaymentControl}
    \cup DocumentControls \cup PrecheckControls \cup DoctorControls \cup TransactionControls

ASSUME ConsoleAssumption ==
  /\ Controls \subseteq AllControls
  /\ RememberedJobs \in Nat \ {0} /\ MaxClicks \in Nat

VARIABLES
  clicks,  \* clicks so far
  task,    \* the handler each click started
  busy,    \* the controls that are disabled
  shown,   \* for each panel, the click whose answer it shows and what that is about
  field,   \* the submission the tracking fields name
  chosen,  \* the selected service
  jobs     \* the jobs the tab remembers, newest first

pageVars == <<clicks, task, busy, shown, field, chosen, jobs>>

Numbers == 1..MaxClicks
Panels == {c.panel : c \in Controls}
Submissions == 0..MaxClicks           \* 0 is one made before; a click makes its own
Subjects == Services \cup Submissions \cup {None}
Stages == {"act", "agree", "last", "over"}

ConsoleTypeOK ==
  /\ clicks \in 0..MaxClicks
  /\ \A n \in 1..clicks :
       task[n] \in [control : Controls, stage : Stages, left : 0..2, about : Subjects,
                    asked : Subjects, moved : BOOLEAN]
  /\ busy \subseteq Controls
  /\ \A p \in Panels : shown[p] \in [by : 0..MaxClicks, about : Subjects]
  /\ field \in Submissions /\ chosen \in Services
  /\ jobs \in Seq(Numbers) /\ Len(jobs) <= RememberedJobs

PageInit ==
  /\ clicks = 0 /\ task = <<>> /\ busy = {}
  /\ shown = [p \in Panels |-> [by |-> 0, about |-> None]]
  /\ field = 0 /\ chosen \in Services /\ jobs = <<>>

At(n, stage) == task[n].stage = stage
Doing(n, flow) == task[n].control.flow = flow
Creates(n) == task[n].control = SubmitControl

\* Mutant: no button is enabled again.
ReleasedNever(c) == busy

\* The finally of a handler that has awaited something: event.submitter was kept in a
\* variable, event.currentTarget is null by now.
Released(c) == IF c.lock = "form" THEN busy \ {c} ELSE busy
Ends(n) == /\ task' = [task EXCEPT ![n].stage = "over"]
           /\ busy' = Released(task[n].control)

\* The submissions whose id the user can enter: one made before and those made here.
Known == {0} \cup {n \in 1..clicks : Creates(n) /\ (task[n].left < 2)}

\* What the user or another handler writes in the tracking fields is what the handlers
\* under way will read.
Retracked(id) == [n \in 1..clicks |-> [task[n] EXCEPT !.moved = @ \/ (task[n].stage # "over" /\ id # field)]]

-----------------------------------------------------------------------------
(* The user.                                                               *)

EditTracking(id) ==
  /\ id # field /\ field' = id /\ task' = Retracked(id)
  /\ UNCHANGED <<clicks, busy, shown, chosen, jobs>>

SelectService(s) ==
  /\ s # chosen /\ chosen' = s
  /\ UNCHANGED <<clicks, task, busy, shown, field, jobs>>

\* Mutant: the button stays enabled while its handler runs.
StartUnchecked(c, stage, about, asked) ==
  /\ busy' = IF c.lock = "none" THEN busy ELSE busy \cup {c}
  /\ task' = Append(task, [control |-> c, stage |-> stage, left |-> c.acts, about |-> about,
                           asked |-> asked, moved |-> FALSE])

\* The handler reads its inputs.  A disabled button sends no click.  Inspecting and
\* decoding hide the panel they are about to fill.
Start(c, stage, about, asked) ==
  /\ c \notin busy
  /\ busy' = IF c.lock = "none" THEN busy ELSE busy \cup {c}
  /\ task' = Append(task, [control |-> c, stage |-> stage, left |-> c.acts, about |-> about,
                           asked |-> asked, moved |-> FALSE])
Click(c) ==
  /\ clicks < MaxClicks /\ clicks' = clicks + 1
  /\ \/ c.flow = "ask" /\ Start(c, "last", None, None)
     \/ c.flow = "job" /\ Start(c, "agree", chosen, None)
     \/ c.flow = "reopen" /\ \E j \in Range(jobs) :
                               Start(c, "last", task[j].about, task[j].about)
     \/ /\ c.flow = "track"
        /\ \/ c = SubmitControl /\ Start(c, "act", clicks + 1, None)
           \/ c \notin {SubmitControl, TrackControl} /\ Start(c, "act", field, None)
           \/ c = TrackControl /\ Start(c, "last", field, field)
  /\ shown' = IF c \in {InspectControl, DecodeControl, ProofControl}
              THEN [shown EXCEPT ![c.panel] = [by |-> clicks + 1, about |-> None]] ELSE shown
  /\ UNCHANGED <<field, chosen, jobs>>

-----------------------------------------------------------------------------
(* Answers.                                                                *)

\* The handler reads the tracking fields again and asks for that submission.
Refresh(n) == task' = [task EXCEPT ![n].stage = "last", ![n].left = 0, ![n].asked = field]

\* Mutant: the id of a new submission is not put in the tracking fields.
ActedUntracked(n) ==
  /\ At(n, "act")
  /\ IF task[n].left = 1 THEN Refresh(n) ELSE task' = [task EXCEPT ![n].left = @ - 1]
  /\ UNCHANGED <<clicks, busy, shown, field, chosen, jobs>>

\* A request of a submission handler is answered.  The first answer of a new submission
\* puts its id in the tracking fields.
Acted(n) ==
  /\ At(n, "act")
  /\ IF Creates(n) /\ task[n].left = 2
     THEN /\ field' = n
          /\ task' = [Retracked(n) EXCEPT ![n].left = 1, ![n].moved = FALSE]
     ELSE /\ IF task[n].left = 1 THEN Refresh(n) ELSE task' = [task EXCEPT ![n].left = @ - 1]
          /\ UNCHANGED field
  /\ UNCHANGED <<clicks, busy, shown, chosen, jobs>>

\* A request fails.  A submission whose files were refused exists and is still shown.
ActFails(n) ==
  /\ At(n, "act")
  /\ IF Creates(n) /\ task[n].left = 1 THEN Refresh(n) /\ UNCHANGED busy ELSE Ends(n)
  /\ UNCHANGED <<clicks, shown, field, chosen, jobs>>

\* The agreement arrives and the user, asked by a dialog that blocks the page, accepts
\* it.  The job is then asked for the service selected by now.
Agreed(n) ==
  /\ At(n, "agree")
  /\ task' = [task EXCEPT ![n].stage = "last", ![n].asked = chosen]
  /\ UNCHANGED <<clicks, busy, shown, field, chosen, jobs>>

\* The server runs a job only for the service its agreement names.
Accepted(n) == Doing(n, "job") => task[n].asked = task[n].about

\* A finished job is put in front of the remembered ones, an earlier entry of it removed.
Remember(n) ==
  LET others == IF n \in Range(jobs)
                THEN RemoveAt(jobs, CHOOSE i \in DOMAIN jobs : jobs[i] = n) ELSE jobs
  IN  SubSeq(<<n>> \o others, 1,
             IF Len(others) < RememberedJobs THEN Len(others) + 1 ELSE RememberedJobs)

\* The last answer is shown.
Show(n) ==
  /\ At(n, "last") /\ Accepted(n) /\ Ends(n)
  /\ shown' = [shown EXCEPT ![task[n].control.panel] = [by |-> n, about |-> task[n].asked]]
  /\ jobs' = IF Doing(n, "job") THEN Remember(n) ELSE jobs
  /\ UNCHANGED <<clicks, field, chosen>>

\* A service asks for an approval: the user refuses, and the unfinished answer is shown
\* and no job remembered, or accepts, and the same payload is sent again.
ApprovalAsked(n) ==
  /\ At(n, "last") /\ Doing(n, "job") /\ Accepted(n) /\ Ends(n)
  /\ shown' = [shown EXCEPT ![task[n].control.panel] = [by |-> n, about |-> task[n].asked]]
  /\ UNCHANGED <<clicks, field, chosen, jobs>>

\* An answer that is an error, or an agreement the user declines: the status line says so.
Fails(n) ==
  /\ At(n, "last") \/ At(n, "agree")
  /\ Ends(n)
  /\ UNCHANGED <<clicks, shown, field, chosen, jobs>>

PageNext ==
  \/ \E id \in Known : EditTracking(id)
  \/ \E s \in Services : SelectService(s)
  \/ \E c \in Controls : Click(c)
  \/ \E n \in 1..clicks :
       Acted(n) \/ ActFails(n) \/ Agreed(n) \/ Show(n) \/ ApprovalAsked(n) \/ Fails(n)

\* The server answers every request, or the connection fails.
Continues(n) ==
  n <= clicks /\ (Acted(n) \/ ActFails(n) \/ Agreed(n) \/ Show(n) \/ Fails(n))
PageSpec == PageInit /\ [][PageNext]_pageVars /\ \A n \in Numbers : WF_pageVars(Continues(n))
-----------------------------------------------------------------------------
(* Properties.                                                             *)

\* A control whose handlers never overlap, because its button is disabled meanwhile.
Locked(c) == c.lock # "none"
Alone(p) == \A c, d \in Controls : c.panel = p /\ d.panel = p => c = d /\ Locked(c)

\* A panel goes back to the answer of an older click only if several controls write it
\* or its control is not disabled while it runs (the passport and the directory): the
\* answers of two overlapping searches may arrive in either order.
OlderOnlyWhereShared ==
  [][\A p \in Panels : shown'[p].by < shown[p].by => ~Alone(p)]_pageVars

\* What a panel shows is about what its handler was started for: a job ran for the
\* service whose agreement the user accepted, although the selection is read again after
\* the agreement arrives, and the tracked submission is the one created or acted on,
\* unless somebody wrote the tracking fields while the handler awaited an answer.
AnswersFitTheirRequest ==
  \A p \in Panels :
    LET n == shown[p].by IN
    n > 0 /\ shown[p].about # None =>
      shown[p].about = task[n].about \/ (Doing(n, "track") /\ task[n].moved)

\* A form that was submitted can be submitted again, whatever the server answers.
FormsComeBack ==
  \A c \in Controls : c.lock = "form" => (c \in busy ~> c \notin busy)
=============================================================================
