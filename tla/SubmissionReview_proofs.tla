------------------------- MODULE SubmissionReview_proofs -------------------------
(***************************************************************************)
(* Proofs about SubmissionReview for any submissions, any number of        *)
(* concurrent requests to either process and any number of crashes.        *)
(***************************************************************************)
EXTENDS SubmissionReview, FiniteSetTheorems, TLAPS

\* The statuses that report the issuance, and the statements that write a status.
Final == {"ISSUED", "ISSUE_FAILED"}
Writing == {"before", "update", "event"}
Stages == Awaiting \cup Running

-----------------------------------------------------------------------------
(* The inductive invariant.                                                *)

\* The latest event names a status, unless the latest one could not be written.
LastEvent(s, status) == timeline[s] = status \/ s \in unlogged

\* An approved submission whose issuance threw, and threw again when reported.
Unreported(s) == row[s].status = "APPROVED" /\ failures[s] = 2

\* Nobody works on the submission: its timeline and its credential agree with it.
Settled(s) ==
  /\ LastEvent(s, row[s].status)
  /\ issued[s] # {} => row[s].status \in Final \/ Unreported(s)

\* A handler that is about to report an issuance, or its failure.
Reporting(h) ==
  \/ request[h].stage = "report"
  \/ request[h].stage \in Writing /\ request[h].patch \in Final

\* A handler in the catch block of issueSubmission.
Caught(h) ==
  \/ request[h].stage = "report"
  \/ request[h].stage \in Writing /\ request[h].patch = "ISSUE_FAILED"

\* Somebody does, alone: what the row says depends on the statement to come.
Busy(h) ==
  LET s == request[h].submission IN
  /\ IF request[h].stage = "event"
     THEN row[s].status = request[h].patch /\ LastEvent(s, request[h].prior)
     ELSE LastEvent(s, row[s].status)
  /\ request[h].stage = "body" => request[h].seen.status = row[s].status
  /\ request[h].stage = "update" => request[h].prior = row[s].status
  /\ request[h].stage \in {"before", "update"} /\ request[h].patch \notin Final =>
       row[s].status \in {"NONE", "SUBMITTED", "CHANGES_REQUESTED"}
  /\ Reporting(h) => row[s].status \in Final \cup {"APPROVED"}
  /\ Caught(h) => failures[s] # 0
  /\ request[h].stage \in {"issue", "chain", "persist"} => row[s].status = "APPROVED"
  /\ request[h].stage = "record" => row[s].status \in Final
  /\ issued[s] # {} =>
       \/ row[s].status \in Final
       \/ Reporting(h)
       \/ request[h].stage \in {"body", "evidence"} /\ Unreported(s)

\* A submission whose handlers neither overlapped nor were interrupted.
Calm(s) ==
  /\ \E n \in Nat : issued[s] \subseteq {n}
  /\ \A g, h \in HandlersOf(s) : g = h
  /\ HandlersOf(s) = {} => Settled(s)
  /\ \A h \in HandlersOf(s) : Busy(h)

ActionInv == \A h \in Handlers : request[h].stage = "body" => request[h].action \in ReviewActions

IInv ==
  /\ TypeOK /\ ActionInv
  /\ \A s \in Submissions \ disturbed : Calm(s)

-----------------------------------------------------------------------------
(* Handlers.                                                               *)

\* The fields of the record of an active handler.
LEMMA RequestFacts ==
  ASSUME TypeOK, NEW h \in Handlers, Active(h)
  PROVE  /\ request[h] \in ActiveRequests
         /\ request[h].submission \in Submissions /\ request[h].stage \in Awaiting \cup Running
         /\ request[h].patch \in Statuses /\ request[h].prior \in Statuses /\ request[h].number \in Numbers
         /\ request[h].seen \in Rows
  BY DEF TypeOK, Active, ActiveRequests, IdleRequests

\* An idle handler is not an active one.
LEMMA IdleFacts ==
  /\ Idle \in IdleRequests /\ Idle.stage = "idle"
  /\ \A e \in ActiveRequests : e.stage # "idle" /\ e.submission \in Submissions
  BY DEF Idle, IdleRequests, ActiveRequests, Awaiting, Running

\* No action of a reviewer or an applicant writes the outcome of an issuance.
LEMMA TargetFacts ==
  \A action \in ReviewActions \cup ApplicantActions : Target(action) \in Statuses \ Final
  BY DEF Target, ReviewActions, ApplicantActions, Statuses, Final

\* What a step leaves alone of a submission.
Untouched(s) ==
  /\ row'[s] = row[s] /\ timeline'[s] = timeline[s] /\ issued'[s] = issued[s]
  /\ failures'[s] = failures[s] /\ (s \in unlogged' <=> s \in unlogged)

\* A call that throws is counted once more.
LEMMA FailFacts ==
  ASSUME TypeOK, NEW s \in Submissions, Fail(s)
  PROVE  /\ failures' \in [Submissions -> 0..2]
         /\ failures'[s] # 0 /\ (failures[s] # 0 => failures'[s] = 2)
         /\ \A t \in Submissions \ {s} : failures'[t] = failures[t]
  <1>1. failures \in [Submissions -> 0..2] /\ failures[s] \in 0..2
    BY DEF TypeOK
  <1>p. DEFINE n == IF failures[s] < 2 THEN failures[s] + 1 ELSE 2
  <1>2. failures' = [failures EXCEPT ![s] = n]
    BY <1>1 DEF Fail
  <1>3. n \in 0..2 /\ n # 0 /\ (failures[s] # 0 => n = 2)
    BY <1>1
  <1> HIDE DEF n
  <1>4. QED
    BY <1>1, <1>2, <1>3

\* What nobody touched stays calm.
LEMMA CalmKept ==
  ASSUME TypeOK, NEW s \in Submissions, Calm(s),
         Untouched(s), HandlersOf(s)' = HandlersOf(s),
         \A h \in HandlersOf(s) : request'[h] = request[h]
  PROVE  Calm(s)'
  <1>1. \A h \in HandlersOf(s) : request[h].submission = s
    BY DEF HandlersOf
  <1>2. \A h \in HandlersOf(s) : Busy(h)'
    BY <1>1 DEF Calm, Busy, Untouched, LastEvent, Unreported, Reporting, Caught
  <1>3. QED
    BY <1>2 DEF Calm, Settled, Untouched, LastEvent, Unreported

\* A handler takes a step on its submission, and goes on or is done.
LEMMA HandlerMoves ==
  ASSUME IInv, NEW h \in Handlers, Active(h),
         NEW s \in Submissions, s = request[h].submission,
         NEW e \in IdleRequests \cup ActiveRequests,
         request' = [request EXCEPT ![h] = e],
         e.stage # "idle" => e.submission = s,
         e.stage = "body" => e.action \in ReviewActions,
         row' \in [Submissions -> Rows], timeline' \in [Submissions -> Statuses],
         issued' \in [Submissions -> SUBSET Numbers],
         unlogged' \subseteq Submissions, failures' \in [Submissions -> 0..2],
         \A t \in Submissions \ {s} : Untouched(t),
         UNCHANGED <<requests, disturbed>>,
         Busy(h) /\ (\E n \in Nat : issued[s] \subseteq {n}) =>
           /\ \E n \in Nat : issued'[s] \subseteq {n}
           /\ IF e.stage = "idle" THEN Settled(s)' ELSE Busy(h)'
  PROVE  IInv'
  <1>1. request \in [Handlers -> IdleRequests \cup ActiveRequests]
    BY DEF IInv, TypeOK
  <1>2. request'[h] = e /\ \A g \in Handlers \ {h} : request'[g] = request[g]
    BY <1>1
  <1>3. TypeOK'
    BY <1>1 DEF IInv, TypeOK
  <1>4. ActionInv'
    BY <1>2 DEF IInv, ActionInv
  <1>5. ASSUME NEW t \in Submissions \ disturbed'
        PROVE  Calm(t)'
    <2>0. Calm(t) /\ t \in Submissions
      BY <1>5 DEF IInv
    <2>1. CASE t # s
      <3>1. HandlersOf(t)' = HandlersOf(t)
        BY <1>2, <2>1 DEF HandlersOf, Active
      <3>2. \A g \in HandlersOf(t) : request'[g] = request[g]
        BY <1>2, <2>1 DEF HandlersOf
      <3>3. QED
        BY <2>0, <2>1, <3>1, <3>2, CalmKept DEF IInv
    <2>2. CASE t = s
      <3>1. h \in HandlersOf(s)
        BY DEF HandlersOf
      <3>2. HandlersOf(s) = {h} /\ Busy(h) /\ \E n \in Nat : issued[s] \subseteq {n}
        BY <2>0, <2>2, <3>1 DEF Calm
      <3>3. /\ \E n \in Nat : issued'[s] \subseteq {n}
            /\ IF e.stage = "idle" THEN Settled(s)' ELSE Busy(h)'
        BY <3>2
      <3>4. \A g \in Handlers \ {h} : ~(request'[g].stage # "idle" /\ request'[g].submission = s)
        BY <1>2, <3>2 DEF HandlersOf, Active
      <3>5. \A g \in HandlersOf(t)' : g = h /\ e.stage # "idle"
        BY <1>2, <2>2, <3>4 DEF HandlersOf, Active
      <3>6. CASE e.stage = "idle"
        BY <2>2, <3>3, <3>5, <3>6 DEF Calm
      <3>7. CASE e.stage # "idle"
        <4>1. h \in HandlersOf(t)'
          BY <1>2, <2>2, <3>7 DEF HandlersOf, Active
        <4>2. QED
          BY <2>2, <3>3, <3>5, <3>7, <4>1 DEF Calm
      <3>8. QED
        BY <3>6, <3>7
    <2>3. QED
      BY <2>1, <2>2
  <1>6. QED
    BY <1>3, <1>4, <1>5 DEF IInv

-----------------------------------------------------------------------------
(* A request arrives.                                                      *)

\* The record of a new handler.
Arriving(s, action, stage) ==
  [stage |-> stage, submission |-> s, action |-> action, seen |-> row[s],
   prior |-> row[s].status,
   patch |-> IF action = "create" THEN "SUBMITTED"
             ELSE IF action \in ApplicantActions THEN Target(action) ELSE "NONE",
   number |-> requests + 1]

\* A handler that finds nobody at work on the submission finds it settled.
LEMMA Arrival ==
  ASSUME IInv, NEW h \in Handlers, NEW s \in Submissions,
         NEW action \in ReviewActions \cup EvidenceActions \cup ApplicantActions \cup {"create"},
         NEW stage \in {"body", "evidence", "update", "event"},
         Begin(h, s, action, stage),
         stage = "body" => action \in ReviewActions,
         stage = "update" =>
           action \in ApplicantActions /\ row[s].status \in {"SUBMITTED", "CHANGES_REQUESTED"},
         IF stage = "event"
         THEN action = "create" /\ row[s].status = "NONE" /\ row' = [row EXCEPT ![s].status = "SUBMITTED"]
         ELSE UNCHANGED row,
         UNCHANGED <<timeline, issued, lapses>>
  PROVE  IInv'
  <1>1. /\ request \in [Handlers -> IdleRequests \cup ActiveRequests] /\ row \in [Submissions -> Rows]
        /\ requests \in 0..MaxRequests /\ requests < MaxRequests /\ disturbed \subseteq Submissions
        /\ requests' = requests + 1
        /\ disturbed' = IF HandlersOf(s) = {} THEN disturbed ELSE disturbed \cup {s}
        /\ request[h].stage = "idle"
    BY DEF IInv, TypeOK, Begin
  <1>p. DEFINE e == Arriving(s, action, stage)
  <1>2. request' = [request EXCEPT ![h] = e]
    BY DEF Begin, Arriving
  <1>3. /\ e.stage = stage /\ e.submission = s /\ e.action = action /\ e.seen = row[s]
        /\ e.prior = row[s].status
        /\ e.patch = IF action = "create" THEN "SUBMITTED"
                     ELSE IF action \in ApplicantActions THEN Target(action) ELSE "NONE"
        /\ e.number = requests + 1
    BY DEF Arriving
  <1>4. e \in ActiveRequests
    <2>1. row[s].status \in Statuses /\ row[s] \in Rows
      BY <1>1 DEF Rows
    <2>2. requests + 1 \in Numbers
      BY <1>1, MaxRequestsAssumption DEF Numbers
    <2>3. (IF action = "create" THEN "SUBMITTED"
           ELSE IF action \in ApplicantActions THEN Target(action) ELSE "NONE") \in Statuses
      BY TargetFacts DEF Statuses
    <2>4. stage \in Awaiting \cup Running
      BY DEF Awaiting, Running
    <2>5. QED
      BY <2>1, <2>2, <2>3, <2>4 DEF Arriving, ActiveRequests
  <1> HIDE DEF e
  <1>5. request'[h] = e /\ \A g \in Handlers \ {h} : request'[g] = request[g]
    BY <1>1, <1>2
  <1>6. row' \in [Submissions -> Rows] /\ \A t \in Submissions \ {s} : row'[t] = row[t]
    <2>1. CASE stage = "event"
      <3>1. [row[s] EXCEPT !.status = "SUBMITTED"] \in Rows
        <4>1. row[s] \in Rows
          BY <1>1
        <4>2. QED
          BY <4>1 DEF Rows, Statuses
      <3>2. row' = [row EXCEPT ![s] = [row[s] EXCEPT !.status = "SUBMITTED"]]
        BY <2>1
      <3>3. QED
        BY <1>1, <3>1, <3>2
    <2>2. CASE stage # "event"
      BY <1>1, <2>2
    <2>3. QED
      BY <2>1, <2>2
  <1>7. TypeOK'
    <2>1. requests' \in 0..MaxRequests
      BY <1>1, MaxRequestsAssumption
    <2>2. QED
      BY <1>1, <1>2, <1>4, <1>6, <2>1 DEF IInv, TypeOK, lapses
  <1>8. ActionInv'
    BY <1>3, <1>5 DEF IInv, ActionInv
  <1>9. ASSUME NEW t \in Submissions \ disturbed'
        PROVE  Calm(t)'
    <2>0. Calm(t) /\ t \in Submissions
      BY <1>1, <1>9 DEF IInv
    <2>1. CASE t # s
      <3>1. HandlersOf(t)' = HandlersOf(t) /\ h \notin HandlersOf(t)
        BY <1>1, <1>3, <1>5, <2>1 DEF HandlersOf, Active
      <3>2. QED
        BY <1>5, <1>6, <2>0, <2>1, <3>1, CalmKept DEF IInv, HandlersOf, Untouched, lapses
    <2>2. CASE t = s
      <3>1. HandlersOf(s) = {}
        BY <1>1, <1>9, <2>2
      <3>2. Settled(s) /\ \E n \in Nat : issued[s] \subseteq {n}
        BY <2>0, <2>2, <3>1 DEF Calm
      <3>3. \A g \in Handlers \ {h} : ~(request'[g].stage # "idle" /\ request'[g].submission = s)
        BY <1>5, <3>1 DEF HandlersOf, Active
      <3>4. HandlersOf(s)' = {h}
        BY <1>3, <1>5, <3>3 DEF HandlersOf, Active
      <3>5. Busy(h)'
        <4>1. request'[h].submission = s /\ UNCHANGED <<timeline, issued, unlogged, failures>>
          BY <1>3, <1>5 DEF lapses
        <4>2. CASE stage = "event"
          <5>1. row'[s].status = "SUBMITTED" /\ e.patch = "SUBMITTED"
            <6>1. row[s] \in Rows /\ row' = [row EXCEPT ![s].status = "SUBMITTED"]
              BY <1>1, <4>2
            <6>2. QED
              BY <1>1, <1>3, <4>2, <6>1 DEF Rows
          <5>2. issued[s] = {} /\ LastEvent(s, "NONE") /\ e.prior = "NONE"
            BY <1>3, <3>2, <4>2 DEF Settled, Unreported, Final
          <5>3. QED
            BY <1>3, <1>5, <4>1, <4>2, <5>1, <5>2
            DEF Busy, LastEvent, Unreported, Reporting, Caught, Final, Writing
        <4>3. CASE stage # "event"
          <5>1. row' = row
            BY <4>3
          <5>2. e.patch \notin Final
            BY <1>3, TargetFacts DEF Final
          <5>3. stage = "update" => issued[s] = {}
            BY <3>2 DEF Settled, Unreported, Final
          <5>4. QED
            BY <1>3, <1>5, <3>2, <4>1, <4>3, <5>1, <5>2, <5>3
            DEF Busy, Settled, LastEvent, Unreported, Reporting, Caught, Final, Writing
        <4>4. QED
          BY <4>2, <4>3
      <3>6. \E n \in Nat : issued'[s] \subseteq {n}
        BY <3>2
      <3>7. QED
        BY <2>2, <3>4, <3>5, <3>6 DEF Calm
    <2>3. QED
      BY <2>1, <2>2
  <1>10. QED
    BY <1>7, <1>8, <1>9 DEF IInv

\* A request of the applicant arrives.
LEMMA ApplicantStep ==
  ASSUME IInv, NEW h \in Handlers, NEW s \in Submissions,
         CreateSubmission(h, s) \/ Resubmit(h, s) \/ Cancel(h, s)
  PROVE  IInv'
  <1>1. CASE CreateSubmission(h, s)
    BY <1>1, Arrival DEF CreateSubmission
  <1>2. CASE Resubmit(h, s)
    BY <1>2, Arrival DEF Resubmit, ApplicantActions
  <1>3. CASE Cancel(h, s)
    BY <1>3, Arrival DEF Cancel, ApplicantActions
  <1>4. QED
    BY <1>1, <1>2, <1>3

\* A request of a reviewer arrives.
LEMMA ReviewerStep ==
  ASSUME IInv, NEW h \in Handlers, NEW s \in Submissions,
         \/ \E action \in ReviewActions : Review(h, s, action)
         \/ \E action \in EvidenceActions : Examine(h, s, action)
  PROVE  IInv'
  <1>1. ASSUME NEW action \in ReviewActions, Review(h, s, action) PROVE IInv'
    BY <1>1, Arrival DEF Review
  <1>2. ASSUME NEW action \in EvidenceActions, Examine(h, s, action) PROVE IInv'
    BY <1>2, Arrival DEF Examine
  <1>3. QED
    BY <1>1, <1>2

-----------------------------------------------------------------------------
(* A handler goes on.                                                      *)

\* The decision rests on the row that was read before the body came; alone, the
\* handler has read the row as it is.
LEMMA DecideStep ==
  ASSUME IInv, NEW h \in Handlers, Decide(h)
  PROVE  IInv'
  <1>1. /\ request[h].stage = "body" /\ Active(h) /\ request[h] \in ActiveRequests
        /\ request[h].action \in ReviewActions /\ request[h].submission \in Submissions
        /\ UNCHANGED <<row, timeline, issued, requests, disturbed, unlogged, failures>>
    BY RequestFacts DEF IInv, ActionInv, Decide, At, Active, lapses
  <1>2. PICK s \in Submissions : s = request[h].submission
    BY <1>1
  <1>3. CASE Finish(h)
    <2>1. Busy(h) => Settled(s)'
      BY <1>1, <1>2 DEF Busy, Settled, LastEvent, Unreported, Reporting, Caught, Final, Writing
    <2>2. QED
      BY <1>1, <1>2, <1>3, <2>1, IdleFacts, HandlerMoves
    DEF IInv, TypeOK, Untouched, Finish
  <1>4. CASE request[h].seen.status = "SUBMITTED" /\ StartUpdate(h, Target(request[h].action))
    <2>p. DEFINE e == [request[h] EXCEPT !.stage = "before", !.patch = Target(request[h].action)]
    <2>1. Target(request[h].action) \in Statuses \ Final
      BY <1>1, TargetFacts
    <2>2. e \in ActiveRequests /\ e.stage = "before" /\ e.submission = s /\ e.patch \notin Final
      BY <1>1, <1>2, <2>1 DEF ActiveRequests, Running
    <2>3. request' = [request EXCEPT ![h] = e]
      BY <1>4 DEF StartUpdate
    <2> HIDE DEF e
    <2>4. Busy(h) => Busy(h)'
      <3>1. request'[h] = e
        BY <2>3 DEF IInv, TypeOK
      <3>2. QED
        BY <1>1, <1>2, <1>4, <2>2, <3>1 DEF Busy, LastEvent, Unreported, Reporting, Caught, Final, Writing
    <2>5. QED
      BY <1>1, <1>2, <2>2, <2>3, <2>4, HandlerMoves
    DEF IInv, TypeOK, Untouched
  <1>5. QED
    BY <1>3, <1>4 DEF Decide

\* The evidence is not part of what the timeline and the credential are about.
LEMMA EvidenceStep ==
  ASSUME IInv, NEW h \in Handlers, SaveEvidence(h) \/ EvidenceFails(h)
  PROVE  IInv'
  <1>1. /\ request[h].stage = "evidence" /\ Active(h) /\ request[h] \in ActiveRequests
        /\ request[h].submission \in Submissions /\ request[h].seen \in Rows
        /\ Finish(h) /\ UNCHANGED <<timeline, issued, requests, disturbed, unlogged, failures>>
    BY RequestFacts DEF IInv, SaveEvidence, EvidenceFails, At, Active, lapses
  <1>2. PICK s \in Submissions : s = request[h].submission
    BY <1>1
  <1>3. /\ row' \in [Submissions -> Rows] /\ row'[s].status = row[s].status
        /\ \A t \in Submissions \ {s} : row'[t] = row[t]
    <2>1. row \in [Submissions -> Rows] /\ row[s] \in Rows
      BY DEF IInv, TypeOK
    <2>2. CASE SaveEvidence(h)
      <3>1. PICK ai \in SUBSET {"evidence", "analysis"} : row' = [row EXCEPT ![s] = [row[s] EXCEPT !.ai = ai]]
        <4>1. request[h].seen.ai \subseteq {"evidence", "analysis"}
          BY <1>1 DEF Rows
        <4>2. QED
          BY <1>2, <2>2, <4>1 DEF SaveEvidence
      <3>2. [row[s] EXCEPT !.ai = ai] \in Rows /\ [row[s] EXCEPT !.ai = ai].status = row[s].status
        BY <2>1 DEF Rows
      <3>3. QED
        BY <2>1, <3>1, <3>2
    <2>3. CASE EvidenceFails(h)
      BY <2>1, <2>3 DEF EvidenceFails
    <2>4. QED
      BY <2>2, <2>3 DEF SaveEvidence, EvidenceFails
  <1>4. Busy(h) => Settled(s)'
    BY <1>1, <1>2, <1>3 DEF Busy, Settled, LastEvent, Unreported, Reporting, Caught, Final, Writing
  <1>5. QED
    BY <1>1, <1>2, <1>3, <1>4, IdleFacts, HandlerMoves
    DEF IInv, TypeOK, Untouched, Finish

\* The status that the event will be compared with.
LEMMA ReadBeforeStep ==
  ASSUME IInv, NEW h \in Handlers, ReadBefore(h)
  PROVE  IInv'
  <1>1. /\ request[h].stage = "before" /\ Active(h) /\ request[h] \in ActiveRequests
        /\ request[h].submission \in Submissions
        /\ UNCHANGED <<row, timeline, issued, requests, disturbed, unlogged, failures>>
    BY RequestFacts DEF IInv, ReadBefore, At, Active, lapses
  <1>2. PICK s \in Submissions : s = request[h].submission
    BY <1>1
  <1>p. DEFINE e == [request[h] EXCEPT !.stage = "update", !.prior = row[s].status]
  <1>3. row[s].status \in Statuses
    BY DEF IInv, TypeOK, Rows
  <1>4. /\ e \in ActiveRequests /\ e.stage = "update" /\ e.submission = s /\ e.prior = row[s].status
        /\ e.patch = request[h].patch
    BY <1>1, <1>2, <1>3 DEF ActiveRequests, Running
  <1>5. request' = [request EXCEPT ![h] = e]
    BY <1>2 DEF ReadBefore
  <1> HIDE DEF e
  <1>6. Busy(h) => Busy(h)'
    <2>1. request'[h] = e
      BY <1>5 DEF IInv, TypeOK
    <2>2. QED
      BY <1>1, <1>2, <1>4, <2>1 DEF Busy, LastEvent, Unreported, Reporting, Caught, Final, Writing
  <1>7. QED
    BY <1>1, <1>2, <1>4, <1>5, <1>6, HandlerMoves
    DEF IInv, TypeOK, Untouched

\* A handler that goes on to another stage, without or with another status to write.
LEMMA GoFacts ==
  ASSUME IInv, NEW h \in Handlers, Active(h), NEW stage \in Stages, Go(h, stage)
  PROVE  \E e \in ActiveRequests :
           /\ request' = [request EXCEPT ![h] = e] /\ request'[h] = e
           /\ e.stage = stage /\ e.patch = request[h].patch /\ e.submission = request[h].submission
           /\ e.prior = request[h].prior
  <1>1. request[h] \in ActiveRequests /\ request \in [Handlers -> IdleRequests \cup ActiveRequests]
    BY RequestFacts DEF IInv, TypeOK
  <1>p. DEFINE e == [request[h] EXCEPT !.stage = stage]
  <1>2. /\ e \in ActiveRequests /\ e.stage = stage /\ e.patch = request[h].patch
        /\ e.submission = request[h].submission /\ e.prior = request[h].prior
    BY <1>1 DEF ActiveRequests, Stages
  <1>3. request' = [request EXCEPT ![h] = e]
    BY <1>1 DEF Go
  <1>4. request'[h] = e
    BY <1>1, <1>3
  <1>5. QED
    BY <1>2, <1>3, <1>4

\* What updateSubmission starts with.
LEMMA StartUpdateFacts ==
  ASSUME IInv, NEW h \in Handlers, Active(h), NEW status \in Statuses, StartUpdate(h, status)
  PROVE  \E e \in ActiveRequests :
           /\ request' = [request EXCEPT ![h] = e] /\ request'[h] = e
           /\ e.stage = "before" /\ e.patch = status /\ e.submission = request[h].submission
  <1>1. request[h] \in ActiveRequests /\ request \in [Handlers -> IdleRequests \cup ActiveRequests]
    BY RequestFacts DEF IInv, TypeOK
  <1>p. DEFINE e == [request[h] EXCEPT !.stage = "before", !.patch = status]
  <1>2. /\ e \in ActiveRequests /\ e.stage = "before" /\ e.patch = status
        /\ e.submission = request[h].submission
    BY <1>1 DEF ActiveRequests, Running
  <1>3. request' = [request EXCEPT ![h] = e]
    BY <1>1 DEF StartUpdate
  <1>4. request'[h] = e
    BY <1>1, <1>3
  <1>5. QED
    BY <1>2, <1>3, <1>4

\* The row takes the status that was asked for.
LEMMA UpdateStep ==
  ASSUME IInv, NEW h \in Handlers, Update(h)
  PROVE  IInv'
  <1>1. /\ request[h].stage = "update" /\ Active(h) /\ Go(h, "event")
        /\ request[h].submission \in Submissions /\ request[h].patch \in Statuses
        /\ request[h].number \in Numbers
        /\ UNCHANGED <<timeline, issued, requests, disturbed, unlogged, failures>>
    BY RequestFacts DEF IInv, Update, At, Active, lapses
  <1>2. PICK s \in Submissions : s = request[h].submission
    BY <1>1
  <1>3. PICK e \in ActiveRequests :
          /\ request' = [request EXCEPT ![h] = e] /\ request'[h] = e
          /\ e.stage = "event" /\ e.patch = request[h].patch /\ e.submission = request[h].submission
          /\ e.prior = request[h].prior
    BY <1>1, GoFacts DEF Running, Stages
  <1>4. /\ row' \in [Submissions -> Rows] /\ row'[s].status = request[h].patch
        /\ \A t \in Submissions \ {s} : row'[t] = row[t]
    <2>p. DEFINE new == [row[s] EXCEPT !.status = request[h].patch,
                           !.credential = IF request[h].patch = "ISSUED" THEN request[h].number
                                          ELSE row[s].credential]
    <2>1. row \in [Submissions -> Rows] /\ row[s] \in Rows
      BY DEF IInv, TypeOK
    <2>2. row' = [row EXCEPT ![s] = new]
      BY <1>2, <2>1 DEF Update
    <2>3. new \in Rows /\ new.status = request[h].patch
      BY <1>1, <2>1 DEF Rows
    <2>4. QED
      BY <2>1, <2>2, <2>3
  <1>5. Busy(h) => Busy(h)'
    BY <1>1, <1>2, <1>3, <1>4 DEF Busy, LastEvent, Unreported, Reporting, Caught, Final, Writing
  <1>6. QED
    BY <1>1, <1>2, <1>3, <1>4, <1>5, HandlerMoves
    DEF IInv, TypeOK, Untouched

\* The event follows the status of the row; one that names no change is not written.
LEMMA RecordEventStep ==
  ASSUME IInv, NEW h \in Handlers, RecordEvent(h)
  PROVE  IInv'
  <1>1. /\ request[h].stage = "event" /\ Active(h)
        /\ request[h].submission \in Submissions /\ request[h].patch \in Statuses
        /\ UNCHANGED <<row, issued, requests, disturbed, failures>>
    BY RequestFacts DEF IInv, RecordEvent, At, Active
  <1>2. PICK s \in Submissions : s = request[h].submission
    BY <1>1
  <1>3. /\ timeline' \in [Submissions -> Statuses] /\ unlogged' \subseteq Submissions
        /\ IF request[h].patch # request[h].prior
           THEN timeline'[s] = request[h].patch
           ELSE timeline'[s] = timeline[s] /\ (s \in unlogged' <=> s \in unlogged)
        /\ \A t \in Submissions \ {s} : timeline'[t] = timeline[t] /\ (t \in unlogged' <=> t \in unlogged)
    BY <1>1, <1>2 DEF IInv, TypeOK, RecordEvent
  <1>4. ASSUME NEW stage \in {"issue", "record"}, Go(h, stage),
               request[h].patch = IF stage = "issue" THEN "APPROVED" ELSE "ISSUED"
        PROVE  IInv'
    <2>1. PICK e \in ActiveRequests :
            /\ request' = [request EXCEPT ![h] = e] /\ request'[h] = e
            /\ e.stage = stage /\ e.patch = request[h].patch /\ e.submission = request[h].submission
            /\ e.prior = request[h].prior
      BY <1>1, <1>4, GoFacts DEF Running, Stages
    <2>2. Busy(h) => Busy(h)'
      BY <1>1, <1>2, <1>3, <1>4, <2>1
      DEF Busy, LastEvent, Unreported, Reporting, Caught, Final, Writing
    <2>3. QED
      BY <1>1, <1>2, <1>3, <1>4, <2>1, <2>2, HandlerMoves DEF IInv, TypeOK, Untouched
  <1>5. CASE Finish(h) /\ request[h].patch # "ISSUED"
    <2>1. Busy(h) => Settled(s)'
      BY <1>1, <1>2, <1>3, <1>5
      DEF Busy, Settled, LastEvent, Unreported, Reporting, Final, Writing
    <2>2. QED
      BY <1>1, <1>2, <1>3, <1>5, <2>1, IdleFacts, HandlerMoves DEF IInv, TypeOK, Untouched, Finish
  <1>6. QED
    BY <1>4, <1>5 DEF RecordEvent

\* An event that could not be written is remembered; of a status that was not
\* written either, nothing is; in the try block the failure is still to be reported.
LEMMA ThrowsStep ==
  ASSUME IInv, NEW h \in Handlers, StatementThrows(h)
  PROVE  IInv'
  <1>1. /\ request[h].stage \in Writing /\ Active(h)
        /\ request[h].submission \in Submissions /\ request[h].patch \in Statuses
        /\ UNCHANGED <<row, timeline, issued, requests, disturbed>>
    BY RequestFacts DEF IInv, StatementThrows, Active, Writing
  <1>2. PICK s \in Submissions : s = request[h].submission
    BY <1>1
  <1>3. /\ unlogged' \subseteq Submissions
        /\ s \in unlogged => s \in unlogged'
        /\ request[h].stage = "event" /\ request[h].patch # request[h].prior => s \in unlogged'
        /\ \A t \in Submissions \ {s} : t \in unlogged' <=> t \in unlogged
    BY <1>1, <1>2 DEF IInv, TypeOK, StatementThrows
  <1>4. /\ failures' \in [Submissions -> 0..2]
        /\ request[h].patch \notin Final => failures' = failures
        /\ request[h].patch \in Final => failures'[s] # 0 /\ (failures[s] # 0 => failures'[s] = 2)
        /\ \A t \in Submissions \ {s} : failures'[t] = failures[t]
    BY <1>2, FailFacts DEF IInv, TypeOK, StatementThrows, Final
  <1>5. CASE request[h].patch = "ISSUED" /\ Go(h, "report")
    <2>1. PICK e \in ActiveRequests :
            /\ request' = [request EXCEPT ![h] = e] /\ request'[h] = e
            /\ e.stage = "report" /\ e.submission = request[h].submission
      BY <1>1, <1>5, GoFacts DEF Running, Stages
    <2>2. Busy(h) => Busy(h)'
      BY <1>1, <1>2, <1>3, <1>4, <1>5, <2>1
      DEF Busy, LastEvent, Unreported, Reporting, Caught, Final, Writing
    <2>3. QED
      BY <1>1, <1>2, <1>3, <1>4, <2>1, <2>2, HandlerMoves DEF IInv, TypeOK, Untouched
  <1>6. CASE request[h].patch # "ISSUED" /\ Finish(h)
    <2>1. Busy(h) => Settled(s)'
      BY <1>1, <1>2, <1>3, <1>4, <1>6
      DEF Busy, Settled, LastEvent, Unreported, Reporting, Caught, Final, Writing
    <2>2. QED
      BY <1>1, <1>2, <1>3, <1>4, <1>6, <2>1, IdleFacts, HandlerMoves
      DEF IInv, TypeOK, Untouched, Finish
  <1>7. QED
    BY <1>5, <1>6 DEF StatementThrows

\* A call throws in the try block of issueSubmission.
LEMMA ThrowFacts ==
  ASSUME IInv, NEW h \in Handlers, Active(h), Throw(h)
  PROVE  /\ \E e \in ActiveRequests :
              /\ request' = [request EXCEPT ![h] = e] /\ request'[h] = e
              /\ e.stage = "report" /\ e.submission = request[h].submission
         /\ failures' \in [Submissions -> 0..2] /\ failures'[request[h].submission] # 0
         /\ \A t \in Submissions \ {request[h].submission} : failures'[t] = failures[t]
  <1>1. request[h].submission \in Submissions /\ "report" \in Stages
    BY RequestFacts DEF IInv, Running, Stages
  <1>2. QED
    BY <1>1, GoFacts, FailFacts DEF IInv, Throw

\* The certificate may fail; then the submission stays approved, without a credential.
LEMMA IssueStep ==
  ASSUME IInv, NEW h \in Handlers, Issue(h)
  PROVE  IInv'
  <1>1. /\ request[h].stage = "issue" /\ Active(h)
        /\ request[h].submission \in Submissions /\ request[h].patch \in Statuses
        /\ UNCHANGED <<row, timeline, issued, requests, disturbed, unlogged>>
    BY RequestFacts DEF IInv, Issue, At, Active
  <1>2. PICK s \in Submissions : s = request[h].submission
    BY <1>1
  <1>3. CASE Finish(h) /\ UNCHANGED failures
    <2>1. Busy(h) => Settled(s)'
      BY <1>1, <1>2, <1>3
      DEF Busy, Settled, LastEvent, Unreported, Reporting, Final, Writing
    <2>2. QED
      BY <1>1, <1>2, <1>3, <2>1, IdleFacts, HandlerMoves DEF IInv, TypeOK, Untouched, Finish
  <1>4. ASSUME NEW stage \in {"chain", "persist"}, Go(h, stage), UNCHANGED failures
        PROVE  IInv'
    <2>1. PICK e \in ActiveRequests :
            /\ request' = [request EXCEPT ![h] = e] /\ request'[h] = e
            /\ e.stage = stage /\ e.patch = request[h].patch /\ e.submission = request[h].submission
      BY <1>1, <1>4, GoFacts DEF Awaiting, Running, Stages
    <2>2. Busy(h) => Busy(h)'
      BY <1>1, <1>2, <1>4, <2>1
      DEF Busy, LastEvent, Unreported, Reporting, Caught, Final, Writing
    <2>3. QED
      BY <1>1, <1>2, <1>4, <2>1, <2>2, HandlerMoves DEF IInv, TypeOK, Untouched
  <1>5. CASE Throw(h)
    <2>1. PICK e \in ActiveRequests :
            /\ request' = [request EXCEPT ![h] = e] /\ request'[h] = e
            /\ e.stage = "report" /\ e.submission = request[h].submission
      BY <1>1, <1>5, ThrowFacts
    <2>2. /\ failures' \in [Submissions -> 0..2] /\ failures'[s] # 0
          /\ \A t \in Submissions \ {s} : failures'[t] = failures[t]
      BY <1>1, <1>2, <1>5, ThrowFacts
    <2>3. Busy(h) => Busy(h)'
      BY <1>1, <1>2, <2>1, <2>2
      DEF Busy, LastEvent, Unreported, Reporting, Caught, Final, Writing
    <2>4. QED
      BY <1>1, <1>2, <2>1, <2>2, <2>3, HandlerMoves DEF IInv, TypeOK, Untouched
  <1>6. QED
    BY <1>3, <1>4, <1>5 DEF Issue

\* The chain call of an issuance returns or throws.
LEMMA ChainReturnsStep ==
  ASSUME IInv, NEW h \in Handlers, ChainReturns(h)
  PROVE  IInv'
  <1>1. /\ request[h].stage = "chain" /\ Active(h)
        /\ request[h].submission \in Submissions /\ request[h].patch \in Statuses
        /\ UNCHANGED <<row, timeline, issued, requests, disturbed, unlogged>>
    BY RequestFacts DEF IInv, ChainReturns, At, Active
  <1>2. PICK s \in Submissions : s = request[h].submission
    BY <1>1
  <1>3. PICK e \in ActiveRequests :
          /\ request' = [request EXCEPT ![h] = e] /\ request'[h] = e
          /\ e.submission = request[h].submission
          /\ e.stage = "persist" \/ (e.stage = "report" /\ failures'[s] # 0)
    <2>1. CASE Go(h, "persist")
      <3>1. "persist" \in Stages
        BY DEF Running, Stages
      <3>2. QED
        BY <1>1, <2>1, <3>1, GoFacts
    <2>2. CASE Throw(h)
      BY <1>1, <1>2, <2>2, ThrowFacts
    <2>3. QED
      BY <2>1, <2>2 DEF ChainReturns
  <1>4. failures' \in [Submissions -> 0..2] /\ \A t \in Submissions \ {s} : failures'[t] = failures[t]
    BY <1>1, <1>2, ThrowFacts DEF IInv, TypeOK, ChainReturns
  <1>5. Busy(h) => Busy(h)'
    BY <1>1, <1>2, <1>3
    DEF Busy, LastEvent, Unreported, Reporting, Caught, Final, Writing
  <1>6. QED
    BY <1>1, <1>2, <1>3, <1>4, <1>5, HandlerMoves DEF IInv, TypeOK, Untouched

\* The one credential of an approved submission; whether it was saved or not, the
\* handler goes on to report it.
LEMMA PersistStep ==
  ASSUME IInv, NEW h \in Handlers, Persist(h)
  PROVE  IInv'
  <1>1. /\ request[h].stage = "persist" /\ Active(h)
        /\ request[h].submission \in Submissions /\ request[h].number \in Numbers
        /\ UNCHANGED <<row, timeline, requests, disturbed, unlogged>>
    BY RequestFacts DEF IInv, Persist, At, Active
  <1>2. PICK s \in Submissions : s = request[h].submission
    BY <1>1
  <1>3. /\ issued' \in [Submissions -> SUBSET Numbers]
        /\ issued'[s] \subseteq issued[s] \cup {request[h].number}
        /\ \A t \in Submissions \ {s} : issued'[t] = issued[t]
    <2>1. PICK saved \in BOOLEAN :
            issued' = [issued EXCEPT ![s] = IF saved THEN issued[s] \cup {request[h].number} ELSE issued[s]]
      BY <1>2 DEF Persist
    <2>2. issued \in [Submissions -> SUBSET Numbers]
      BY DEF IInv, TypeOK
    <2>3. QED
      BY <1>1, <2>1, <2>2
  <1>4. \/ StartUpdate(h, "ISSUED") /\ UNCHANGED failures
        \/ Throw(h)
    BY DEF Persist
  <1>5. PICK e \in ActiveRequests :
          /\ request' = [request EXCEPT ![h] = e] /\ request'[h] = e
          /\ e.submission = request[h].submission
          /\ \/ e.stage = "before" /\ e.patch = "ISSUED"
             \/ e.stage = "report" /\ failures'[s] # 0
    BY <1>1, <1>2, <1>4, StartUpdateFacts, ThrowFacts DEF Statuses
  <1>6. failures' \in [Submissions -> 0..2] /\ \A t \in Submissions \ {s} : failures'[t] = failures[t]
    BY <1>1, <1>2, <1>4, ThrowFacts DEF IInv, TypeOK
  <1>7. Busy(h) => Busy(h)' /\ issued'[s] \subseteq {request[h].number}
    <2> SUFFICES ASSUME Busy(h) PROVE Busy(h)' /\ issued'[s] \subseteq {request[h].number}
      OBVIOUS
    <2>1. issued[s] = {}
      BY <1>1, <1>2 DEF Busy, Reporting, Final, Writing
    <2>2. QED
      BY <1>1, <1>2, <1>3, <1>5, <2>1
      DEF Busy, LastEvent, Unreported, Reporting, Caught, Final, Writing
  <1>8. Busy(h) => Busy(h)' /\ \E n \in Nat : issued'[s] \subseteq {n}
    BY <1>1, <1>7, MaxRequestsAssumption DEF Numbers
  <1>9. QED
    BY <1>1, <1>2, <1>3, <1>5, <1>6, <1>8, HandlerMoves DEF IInv, TypeOK, Untouched

\* The submission is issued already when its profile and its audit are written.
LEMMA RecordStep ==
  ASSUME IInv, NEW h \in Handlers, Record(h)
  PROVE  IInv'
  <1>1. /\ request[h].stage = "record" /\ Active(h)
        /\ request[h].submission \in Submissions
        /\ UNCHANGED <<row, timeline, issued, requests, disturbed, unlogged>>
    BY RequestFacts DEF IInv, Record, At, Active
  <1>2. PICK s \in Submissions : s = request[h].submission
    BY <1>1
  <1>3. CASE Finish(h) /\ UNCHANGED failures
    <2>1. Busy(h) => Settled(s)'
      BY <1>1, <1>2, <1>3 DEF Busy, Settled, LastEvent
    <2>2. QED
      BY <1>1, <1>2, <1>3, <2>1, IdleFacts, HandlerMoves DEF IInv, TypeOK, Untouched, Finish
  <1>4. CASE Throw(h)
    <2>1. PICK e \in ActiveRequests :
            /\ request' = [request EXCEPT ![h] = e] /\ request'[h] = e
            /\ e.stage = "report" /\ e.submission = request[h].submission
      BY <1>1, <1>4, ThrowFacts
    <2>2. /\ failures' \in [Submissions -> 0..2] /\ failures'[s] # 0
          /\ \A t \in Submissions \ {s} : failures'[t] = failures[t]
      BY <1>1, <1>2, <1>4, ThrowFacts
    <2>3. Busy(h) => Busy(h)'
      BY <1>1, <1>2, <2>1, <2>2
      DEF Busy, LastEvent, Unreported, Reporting, Caught, Final, Writing
    <2>4. QED
      BY <1>1, <1>2, <2>1, <2>2, <2>3, HandlerMoves DEF IInv, TypeOK, Untouched
  <1>5. QED
    BY <1>3, <1>4 DEF Record

\* The catch block goes on to write ISSUE_FAILED, or throws a second time.
LEMMA ReportStep ==
  ASSUME IInv, NEW h \in Handlers, Report(h)
  PROVE  IInv'
  <1>1. /\ request[h].stage = "report" /\ Active(h)
        /\ request[h].submission \in Submissions
        /\ UNCHANGED <<row, timeline, issued, requests, disturbed, unlogged>>
    BY RequestFacts DEF IInv, Report, At, Active
  <1>2. PICK s \in Submissions : s = request[h].submission
    BY <1>1
  <1>3. CASE StartUpdate(h, "ISSUE_FAILED") /\ UNCHANGED failures
    <2>1. PICK e \in ActiveRequests :
            /\ request' = [request EXCEPT ![h] = e] /\ request'[h] = e
            /\ e.stage = "before" /\ e.patch = "ISSUE_FAILED" /\ e.submission = request[h].submission
      BY <1>1, <1>3, StartUpdateFacts DEF Statuses
    <2>2. Busy(h) => Busy(h)'
      BY <1>1, <1>2, <1>3, <2>1
      DEF Busy, LastEvent, Unreported, Reporting, Caught, Final, Writing
    <2>3. QED
      BY <1>1, <1>2, <1>3, <2>1, <2>2, HandlerMoves DEF IInv, TypeOK, Untouched
  <1>4. CASE Finish(h) /\ Fail(request[h].submission)
    <2>1. Busy(h) => Settled(s)'
      BY <1>1, <1>2, <1>4, FailFacts
      DEF IInv, Busy, Settled, LastEvent, Unreported, Reporting, Caught, Final
    <2>2. QED
      BY <1>1, <1>2, <1>4, <2>1, FailFacts, IdleFacts, HandlerMoves
      DEF IInv, TypeOK, Untouched, Finish
  <1>5. QED
    BY <1>3, <1>4 DEF Report

\* The submissions of an interrupted handler are disturbed; the others keep theirs.
LEMMA CrashStep ==
  ASSUME IInv, NEW process \in {Reviewers, Applicants}, Crash(process)
  PROVE  IInv'
  <1>1. /\ request' = [h \in Handlers |-> IF h \in process THEN Idle ELSE request[h]]
        /\ disturbed' = disturbed \cup {request[h].submission : h \in {g \in process : Active(g)}}
        /\ UNCHANGED <<row, timeline, issued, requests, unlogged, failures>>
        /\ process \subseteq Handlers
    BY DEF Crash, Handlers, lapses
  <1>2. TypeOK'
    <2>1. request' \in [Handlers -> IdleRequests \cup ActiveRequests]
      BY <1>1, IdleFacts DEF IInv, TypeOK
    <2>2. disturbed' \subseteq Submissions
      <3>1. \A h \in process : Active(h) => request[h].submission \in Submissions
        BY <1>1, RequestFacts DEF IInv
      <3>2. QED
        BY <1>1, <3>1 DEF IInv, TypeOK
    <2>3. QED
      BY <1>1, <2>1, <2>2 DEF IInv, TypeOK
  <1>3. ActionInv'
    BY <1>1, IdleFacts DEF IInv, ActionInv
  <1>4. ASSUME NEW s \in Submissions \ disturbed'
        PROVE  Calm(s)'
    <2>1. Calm(s) /\ s \in Submissions
      BY <1>1, <1>4 DEF IInv
    <2>2. \A h \in HandlersOf(s) : h \notin process
      BY <1>1, <1>4 DEF HandlersOf
    <2>3. HandlersOf(s)' = HandlersOf(s) /\ \A h \in HandlersOf(s) : request'[h] = request[h]
      BY <1>1, <2>2, IdleFacts DEF HandlersOf, Active
    <2>4. QED
      BY <1>1, <2>1, <2>3, CalmKept DEF IInv, Untouched
  <1>5. QED
    BY <1>2, <1>3, <1>4 DEF IInv

-----------------------------------------------------------------------------
(* The theorems.                                                           *)

\* Before the first request every submission is settled.
LEMMA InitInvariant == Init => IInv
  <1> SUFFICES ASSUME Init PROVE IInv
    OBVIOUS
  <1>1. TypeOK
    <2>1. NewRow \in Rows /\ "NONE" \in Statuses
      BY DEF NewRow, Rows, Statuses
    <2>2. QED
      BY <2>1, IdleFacts, MaxRequestsAssumption DEF Init, TypeOK
  <1>2. ActionInv
    BY IdleFacts DEF Init, ActionInv
  <1>3. \A s \in Submissions : Calm(s)
    <2>1. \A s : HandlersOf(s) = {}
      BY IdleFacts DEF Init, HandlersOf, Active
    <2>2. QED
      BY <2>1 DEF Init, Calm, Settled, LastEvent, NewRow
  <1>4. QED
    BY <1>1, <1>2, <1>3 DEF IInv

\* Every step of Next keeps the invariant.
LEMMA InvariantStep == IInv /\ [Next]_vars => IInv'
  <1> SUFFICES ASSUME IInv, [Next]_vars PROVE IInv'
    OBVIOUS
  <1>1. ASSUME NEW h \in Handlers, Step(h) PROVE IInv'
    BY <1>1, DecideStep, EvidenceStep, ReadBeforeStep, UpdateStep, RecordEventStep, ThrowsStep,
       IssueStep, ChainReturnsStep, PersistStep, RecordStep, ReportStep
    DEF Step
  <1>2. ASSUME NEW h \in Applicants, NEW s \in Submissions,
               CreateSubmission(h, s) \/ Resubmit(h, s) \/ Cancel(h, s)
        PROVE  IInv'
    BY <1>2, ApplicantStep DEF Handlers
  <1>3. ASSUME NEW h \in Reviewers, NEW s \in Submissions,
               \/ \E action \in ReviewActions : Review(h, s, action)
               \/ \E action \in EvidenceActions : Examine(h, s, action)
        PROVE  IInv'
    BY <1>3, ReviewerStep DEF Handlers
  <1>4. CASE Crash(Reviewers) \/ Crash(Applicants)
    BY <1>4, CrashStep
  <1>5. CASE UNCHANGED vars
    <2>1. \A s \in Submissions : HandlersOf(s)' = HandlersOf(s)
      BY <1>5 DEF vars, HandlersOf, Active
    <2>2. TypeOK' /\ ActionInv'
      BY <1>5 DEF IInv, TypeOK, ActionInv, vars
    <2>3. \A s \in Submissions \ disturbed' : Calm(s)'
      BY <1>5, <2>1, CalmKept DEF IInv, Untouched, vars
    <2>4. QED
      BY <2>2, <2>3 DEF IInv
  <1>6. QED
    BY <1>1, <1>2, <1>3, <1>4, <1>5 DEF Next

\* Every behaviour keeps the invariant, whatever the order of the statements of the
\* two processes.
THEOREM Invariance == Spec => []IInv
  BY InitInvariant, InvariantStep, PTL DEF Spec

\* Every variable keeps the type that SubmissionReview gives it.
THEOREM TypeCorrect == Spec => []TypeOK
  <1>1. IInv => TypeOK
    BY DEF IInv
  <1>2. QED
    BY <1>1, Invariance, PTL

\* For any number of reviewers, applicants, requests and crashes, a second credential
\* of a submission takes handlers that overlapped or were interrupted.
THEOREM SecondIssueExplained == Spec => []DoubleIssueOnlyByOverlap
  <1>1. IInv => DoubleIssueOnlyByOverlap
    <2> SUFFICES ASSUME IInv, NEW s \in Submissions \ disturbed
                 PROVE  ~(Cardinality(issued[s]) > 1)
      BY DEF DoubleIssueOnlyByOverlap
    <2>1. PICK n \in Nat : issued[s] \subseteq {n}
      BY DEF IInv, Calm
    <2>2. issued[s] = {} \/ issued[s] = {n}
      BY <2>1
    <2>3. Cardinality({}) = 0 /\ Cardinality({n}) = 1
      BY FS_EmptySet, FS_Singleton
    <2>4. QED
      BY <2>2, <2>3
  <1>2. QED
    BY <1>1, Invariance, PTL

\* No credential of a submission that was worked on undisturbed goes unreported on
\* it, whichever single call of its issuance threw: only a second one, in the
\* catch block, leaves the submission approved.
THEOREM CredentialReported == Spec => []CredentialAccountedFor
  <1>1. IInv => CredentialAccountedFor
    BY DEF IInv, Calm, Settled, Unreported, Final, CredentialAccountedFor
  <1>2. QED
    BY <1>1, Invariance, PTL

\* Between the requests to a submission its timeline ends with its status, whatever
\* threw, except where it was the insertion of the latest event itself.
THEOREM TimelineTrue == Spec => []TimelineAgrees
  <1>1. IInv => TimelineAgrees
    BY DEF IInv, Calm, Settled, LastEvent, TimelineAgrees
  <1>2. QED
    BY <1>1, Invariance, PTL

=============================================================================
