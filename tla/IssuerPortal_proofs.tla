-------------------------- MODULE IssuerPortal_proofs --------------------------
(***************************************************************************)
(* Proofs about IssuerPortal for every set of calls, any number of items   *)
(* of a bulk request, any lifetime of a session, with and without a        *)
(* webhook, and however often the process stops.                           *)
(***************************************************************************)
EXTENDS IssuerPortal, TLAPS

-----------------------------------------------------------------------------
(* The inductive invariant: what the rest of the state says of a call at   *)
(* each of its stages.                                                     *)

\* Only a bulk request makes rows, and the audit event follows the effect and
\* precedes the announcement.
WorkInv ==
  \A c \in Calls :
    /\ rows[c] > 0 => call[c].kind = "bulk"
    /\ c \in audited => call[c].done
    /\ call[c].stage = "none" => rows[c] = 0
    /\ call[c].stage \in {"none", "work"} => ~call[c].done
    /\ call[c].stage = "audit" => call[c].done
    /\ call[c].stage \in {"lookup", "post", "settle"} => c \in audited /\ Announced
    /\ call[c].stage = "reply" => c \in audited

\* The delivery row of a call follows its audit and tells how the endpoint was
\* reached.
DeliveryInv ==
  \A c \in Calls :
    /\ row[c] # "none" => c \in audited
    /\ c \in heard => row[c] # "none"
    /\ row[c] = "DELIVERED" => c \in heard
    /\ row[c] = "PENDING" =>
         \/ call[c].stage \in {"post", "settle", "lost"}
         \/ c \in threw /\ call[c].answer = "error"
    /\ call[c].stage \in {"none", "work", "audit", "lookup"} => row[c] = "none"
    /\ call[c].stage \in {"post", "settle"} => row[c] # "none"
    /\ call[c].stage = "reply" => (Announced => row[c] \in {"DELIVERED", "FAILED"})
    /\ c \in threw => call[c].stage = "over"

\* Why a call was answered as it was.
AnswerInv ==
  \A c \in Calls : call[c].stage = "over" =>
    /\ call[c].answer = "ok" =>
         c \in audited /\ (Announced => row[c] \in {"DELIVERED", "FAILED"})
    /\ call[c].answer # "ok" /\ c \notin threw /\ call[c].done => Announced /\ row[c] = "none"
    /\ call[c].answer # "ok" /\ c \notin threw /\ ~call[c].done /\ rows[c] > 0 => rows[c] < Items
    /\ call[c].answer = "unauthorized" => ~call[c].done /\ rows[c] = 0

IInv == PortalTypeOK /\ WorkInv /\ DeliveryInv /\ AnswerInv

\* Before the first call nothing is done, announced or answered.
LEMMA InitInvariant == Init => IInv
  <1> SUFFICES ASSUME Init PROVE IInv
    OBVIOUS
  <1>1. PortalTypeOK
    BY PortalAssumption DEF Init, PortalTypeOK, NoCall, Kinds, Stages, UnderWay, Answers
  <1>2. WorkInv /\ DeliveryInv /\ AnswerInv
    BY DEF Init, NoCall, WorkInv, DeliveryInv, AnswerInv
  <1>3. QED
    BY <1>1, <1>2 DEF IInv

-----------------------------------------------------------------------------
(* Steps of one call.                                                      *)

CallRecords == [kind : Kinds \cup {"none"}, stage : Stages, done : BOOLEAN, answer : Answers]

\* A new request is refused, or admitted to its work.
LEMMA BeginStep ==
  ASSUME IInv, NEW c \in Calls, Begin(c)
  PROVE  IInv'
  <1>0. call \in [Calls -> CallRecords]
    BY DEF IInv, PortalTypeOK, CallRecords
  <1>1. PortalTypeOK'
    <2>1. PICK r : r \in CallRecords /\ call' = [call EXCEPT ![c] = r]
      <3>1. PICK kind \in Kinds : call' = [call EXCEPT ![c] =
              IF SignedIn THEN [NoCall EXCEPT !.kind = kind, !.stage = "work"]
              ELSE [NoCall EXCEPT !.kind = kind, !.stage = "over", !.answer = "unauthorized"]]
        BY DEF Begin
      <3>2. /\ [NoCall EXCEPT !.kind = kind, !.stage = "work"] \in CallRecords
            /\ [NoCall EXCEPT !.kind = kind, !.stage = "over", !.answer = "unauthorized"]
                 \in CallRecords
        BY DEF NoCall, CallRecords, Kinds, Stages, UnderWay, Answers
      <3>3. QED
        BY <3>1, <3>2
    <2>2. call' \in [Calls -> CallRecords]
      BY <1>0, <2>1
    <2>3. QED
      BY <2>2 DEF IInv, PortalTypeOK, CallRecords, Begin, session, deliveries
  <1>2. WorkInv' /\ DeliveryInv' /\ AnswerInv'
    BY DEF IInv, PortalTypeOK, WorkInv, DeliveryInv, AnswerInv, Begin, At, NoCall, Kinds, Stages,
       Answers, session, deliveries
  <1>3. QED
    BY <1>1, <1>2 DEF IInv

\* Making the effect, going on and being answered keep the type of the calls.
LEMMA CallTypes ==
  ASSUME IInv, NEW c \in Calls
  PROVE  /\ call \in [Calls -> CallRecords]
         /\ UNCHANGED call => call' \in [Calls -> CallRecords]
         /\ Effect(c) => call' \in [Calls -> CallRecords]
         /\ Throw(c) => call' \in [Calls -> CallRecords]
         /\ \A stage \in Stages : Go(c, stage) => call' \in [Calls -> CallRecords]
         /\ \A answer \in Answers : Answer(c, answer) => call' \in [Calls -> CallRecords]
  <1>1. call \in [Calls -> CallRecords] /\ call[c] \in CallRecords
    BY DEF IInv, PortalTypeOK, CallRecords
  <1>2. ASSUME Effect(c) PROVE call' \in [Calls -> CallRecords]
    <2>1. call' = [call EXCEPT ![c] = [call[c] EXCEPT !.done = TRUE, !.stage = "audit"]]
      BY <1>1, <1>2 DEF Effect
    <2>2. [call[c] EXCEPT !.done = TRUE, !.stage = "audit"] \in CallRecords
      BY <1>1 DEF CallRecords, Stages, UnderWay
    <2>3. QED
      BY <1>1, <2>1, <2>2
  <1>3. ASSUME NEW answer \in Answers,
               call' = [call EXCEPT ![c].stage = "over", ![c].answer = answer]
        PROVE  call' \in [Calls -> CallRecords]
    <2>1. call' = [call EXCEPT ![c] = [call[c] EXCEPT !.stage = "over", !.answer = answer]]
      BY <1>1, <1>3
    <2>2. [call[c] EXCEPT !.stage = "over", !.answer = answer] \in CallRecords
      BY <1>1 DEF CallRecords, Stages
    <2>3. QED
      BY <1>1, <2>1, <2>2
  <1>4. ASSUME NEW stage \in Stages, Go(c, stage) PROVE call' \in [Calls -> CallRecords]
    <2>1. call' = [call EXCEPT ![c] = [call[c] EXCEPT !.stage = stage]]
      BY <1>1, <1>4 DEF Go
    <2>2. [call[c] EXCEPT !.stage = stage] \in CallRecords
      BY <1>1 DEF CallRecords
    <2>3. QED
      BY <1>1, <2>1, <2>2
  <1>5. "error" \in Answers
    BY DEF Answers
  <1>6. QED
    BY <1>1, <1>2, <1>3, <1>4, <1>5 DEF Answer, Throw

\* A bulk request inserts an item, fails at one, or is done.
LEMMA BulkStep ==
  ASSUME IInv, NEW c \in Calls, Bulk(c)
  PROVE  IInv'
  <1>1. PortalTypeOK'
    <2>1. call' \in [Calls -> CallRecords] /\ threw' \subseteq Calls
      BY CallTypes DEF IInv, PortalTypeOK, Bulk, Answers, Answer, Effect, Throw
    <2>2. rows' \in [Calls -> 0..Items]
      BY PortalAssumption DEF IInv, PortalTypeOK, Bulk
    <2>3. QED
      BY <2>1, <2>2 DEF IInv, PortalTypeOK, CallRecords, Bulk, session, deliveries
  <1>2. WorkInv' /\ DeliveryInv' /\ AnswerInv'
    BY PortalAssumption
    DEF IInv, PortalTypeOK, WorkInv, DeliveryInv, AnswerInv, Bulk, At, Answer, Effect, Throw,
       session, deliveries
  <1>3. QED
    BY <1>1, <1>2 DEF IInv

\* Any other work has its effect, or fails before it; the effect is audited, or
\* a statement throws.
LEMMA WorkStep ==
  ASSUME IInv, NEW c \in Calls, Work(c) \/ Audit(c)
  PROVE  IInv'
  <1>1. PortalTypeOK'
    <2>1. call' \in [Calls -> CallRecords]
      BY CallTypes DEF Work, Audit, Answers, Stages, UnderWay
    <2>2. threw' \subseteq Calls
      BY DEF IInv, PortalTypeOK, Work, Audit, Answer, Effect, Go, Throw
    <2>3. QED
      BY <2>1, <2>2 DEF IInv, PortalTypeOK, CallRecords, Work, Audit, session, deliveries
  <1>2. WorkInv' /\ DeliveryInv' /\ AnswerInv'
    <2>1. CASE Work(c)
      <3>1. /\ call[c].stage = "work" /\ call[c].kind # "bulk"
            /\ UNCHANGED <<session, rows, audited, row, heard, crashes, threw>>
        BY <2>1 DEF Work, At, Effect, Answer, deliveries
      <3>2. CASE Effect(c)
        BY <3>1, <3>2 DEF IInv, PortalTypeOK, WorkInv, DeliveryInv, AnswerInv, Effect, session
      <3>3. CASE Answer(c, "error")
        BY <3>1, <3>3 DEF IInv, PortalTypeOK, WorkInv, DeliveryInv, AnswerInv, Answer, session
      <3>4. QED
        BY <2>1, <3>2, <3>3 DEF Work
    <2>2. CASE Audit(c)
      <3>1. call[c].stage = "audit" /\ UNCHANGED <<session, rows, row, heard, crashes>>
        BY <2>2 DEF Audit, At, deliveries
      <3>2. CASE audited' = audited \cup {c} /\ Go(c, IF Announced THEN "lookup" ELSE "reply")
        BY <3>1, <3>2 DEF IInv, PortalTypeOK, WorkInv, DeliveryInv, AnswerInv, Go, session
      <3>3. CASE Throw(c) /\ UNCHANGED audited
        BY <3>1, <3>3 DEF IInv, PortalTypeOK, WorkInv, DeliveryInv, AnswerInv, Throw, session
      <3>4. QED
        BY <2>2, <3>2, <3>3 DEF Audit
    <2>3. QED
      BY <2>1, <2>2
  <1>3. QED
    BY <1>1, <1>2 DEF IInv

\* The announcement: a row, the endpoint, the settled row and the answer.
LEMMA AnnounceStep ==
  ASSUME IInv, NEW c \in Calls, Lookup(c) \/ Receive(c) \/ Deliver(c) \/ Settle(c) \/ Reply(c)
  PROVE  IInv'
  <1>1. PortalTypeOK'
    <2>1. call' \in [Calls -> CallRecords]
      BY CallTypes DEF Lookup, Receive, Deliver, Settle, Reply, Answers, Stages, UnderWay
    <2>2. threw' \subseteq Calls
      BY DEF IInv, PortalTypeOK, Lookup, Receive, Deliver, Settle, Reply, Answer, Go, Throw
    <2>3. /\ row' \in [Calls -> {"none", "PENDING", "DELIVERED", "FAILED"}]
          /\ heard' \subseteq Calls
      BY DEF IInv, PortalTypeOK, Lookup, Receive, Deliver, Settle, Reply, deliveries
    <2>4. QED
      BY <2>1, <2>2, <2>3
      DEF IInv, PortalTypeOK, CallRecords, Lookup, Receive, Deliver, Settle, Reply, session
  <1>2. ASSUME Lookup(c)
        PROVE  WorkInv' /\ DeliveryInv' /\ AnswerInv'
    <2>1. call[c].stage = "lookup" /\ UNCHANGED <<session, rows, audited, heard, crashes>>
      BY <1>2 DEF Lookup, At
    <2>2. CASE row' = [row EXCEPT ![c] = "PENDING"] /\ Go(c, "post")
      BY <2>1, <2>2 DEF IInv, PortalTypeOK, WorkInv, DeliveryInv, AnswerInv, Go, session
    <2>3. CASE Answer(c, "error") /\ UNCHANGED row
      BY <2>1, <2>3 DEF IInv, PortalTypeOK, WorkInv, DeliveryInv, AnswerInv, Answer, session
    <2>4. CASE Throw(c) /\ UNCHANGED row
      BY <2>1, <2>4 DEF IInv, PortalTypeOK, WorkInv, DeliveryInv, AnswerInv, Throw, session
    <2>5. QED
      BY <1>2, <2>2, <2>3, <2>4 DEF Lookup
  <1>3. ASSUME Receive(c)
        PROVE  WorkInv' /\ DeliveryInv' /\ AnswerInv'
    BY <1>3 DEF IInv, PortalTypeOK, WorkInv, DeliveryInv, AnswerInv, Receive, session
  <1>4. ASSUME Deliver(c)
        PROVE  WorkInv' /\ DeliveryInv' /\ AnswerInv'
    <2>1. call[c].stage = "post" /\ UNCHANGED <<session, rows, audited, heard, crashes>>
      BY <1>4 DEF Deliver, At
    <2>2. PICK stage \in {"reply", "settle"} : Go(c, stage)
      BY <1>4 DEF Deliver
    <2>3. CASE c \in heard /\ row' = [row EXCEPT ![c] = "DELIVERED"]
      BY <2>1, <2>2, <2>3 DEF IInv, PortalTypeOK, WorkInv, DeliveryInv, AnswerInv, Go, session
    <2>4. CASE Go(c, "settle") /\ UNCHANGED row
      BY <2>1, <2>4 DEF IInv, PortalTypeOK, WorkInv, DeliveryInv, AnswerInv, Go, session
    <2>5. QED
      BY <1>4, <2>3, <2>4 DEF Deliver
  <1>5. ASSUME Settle(c)
        PROVE  WorkInv' /\ DeliveryInv' /\ AnswerInv'
    BY <1>5 DEF IInv, PortalTypeOK, WorkInv, DeliveryInv, AnswerInv, Settle, At, Go, Throw, session
  <1>6. ASSUME Reply(c)
        PROVE  WorkInv' /\ DeliveryInv' /\ AnswerInv'
    BY <1>6 DEF IInv, PortalTypeOK, WorkInv, DeliveryInv, AnswerInv, Reply, At, Answer, Throw,
       session, deliveries
  <1>7. WorkInv' /\ DeliveryInv' /\ AnswerInv'
    BY <1>2, <1>3, <1>4, <1>5, <1>6
  <1>8. QED
    BY <1>1, <1>7 DEF IInv

-----------------------------------------------------------------------------
(* Steps of the others.                                                    *)

\* The session and the clock touch no call.
LEMMA SessionStep ==
  ASSUME IInv, SignIn \/ SignOut \/ Tick
  PROVE  IInv'
  <1>1. PortalTypeOK'
    <2>1. cookie \in [present : BOOLEAN, expires : 0..(MaxTime + Lifetime)]
      BY DEF IInv, PortalTypeOK
    <2>2. now \in 0..MaxTime /\ now' \in 0..MaxTime
      BY PortalAssumption DEF IInv, PortalTypeOK, SignIn, SignOut, Tick
    <2>3. cookie' \in [present : BOOLEAN, expires : 0..(MaxTime + Lifetime)]
      <3>1. now + Lifetime \in 0..(MaxTime + Lifetime)
        BY <2>2, PortalAssumption
      <3>2. QED
        <4>1. CASE SignIn
          BY <3>1, <4>1 DEF SignIn
        <4>2. CASE SignOut
          BY <2>1, <4>2 DEF SignOut
        <4>3. CASE Tick
          BY <2>1, <4>3 DEF Tick
        <4>4. QED
          BY <4>1, <4>2, <4>3
    <2>4. QED
      BY <2>2, <2>3 DEF IInv, PortalTypeOK, SignIn, SignOut, Tick, deliveries
  <1>2. UNCHANGED <<call, rows, audited, row, heard, threw>>
    BY DEF SignIn, SignOut, Tick, deliveries
  <1>3. QED
    BY <1>1, <1>2 DEF IInv, WorkInv, DeliveryInv, AnswerInv

\* A crash leaves rows, audit and deliveries as they are.
LEMMA CrashStep ==
  ASSUME IInv, Crash
  PROVE  IInv'
  <1>1. PortalTypeOK'
    BY PortalAssumption DEF IInv, PortalTypeOK, Crash, Stages, UnderWay, session, deliveries
  <1>2. WorkInv' /\ DeliveryInv' /\ AnswerInv'
    BY DEF IInv, PortalTypeOK, WorkInv, DeliveryInv, AnswerInv, Crash, Stages, UnderWay, session,
       deliveries
  <1>3. QED
    BY <1>1, <1>2 DEF IInv

\* Every step of Next keeps the invariant.
LEMMA InvariantStep == IInv /\ [Next]_vars => IInv'
  <1> SUFFICES ASSUME IInv, [Next]_vars PROVE IInv'
    OBVIOUS
  <1>1. CASE SignIn \/ SignOut \/ Tick \/ Crash
    BY <1>1, SessionStep, CrashStep
  <1>2. ASSUME NEW c \in Calls, Begin(c) \/ CallStep(c) \/ Receive(c)
        PROVE  IInv'
    BY <1>2, BeginStep, BulkStep, WorkStep, AnnounceStep DEF CallStep
  <1>3. CASE UNCHANGED vars
    BY <1>3 DEF vars, IInv, PortalTypeOK, WorkInv, DeliveryInv, AnswerInv
  <1>4. QED
    BY <1>1, <1>2, <1>3 DEF Next

\* Whatever calls are made, fail or are cut off, the invariant holds.
THEOREM Invariance == Spec => []IInv
  <1>1. QED
    BY InitInvariant, InvariantStep, PTL DEF Spec

\* The variables keep their types.
THEOREM TypeCorrect == Spec => []PortalTypeOK
  <1>1. IInv => PortalTypeOK
    BY DEF IInv
  <1>2. QED
    BY <1>1, Invariance, PTL

\* Nothing is announced that was not done and audited, no row says DELIVERED of
\* what the endpoint did not receive, and a PENDING row is one being delivered, one
\* a crash left behind, or one whose caller was told of the statement that threw.
THEOREM AnnouncementsTrue == Spec => []AnnouncedIsDone
  <1>1. IInv => AnnouncedIsDone
    BY DEF IInv, WorkInv, DeliveryInv, AnnouncedIsDone
  <1>2. QED
    BY <1>1, Invariance, PTL

\* Success is answered of work that is done and audited with its delivery settled,
\* and an error of work that stands only when a statement threw after it, for a
\* host that was not found, or for a bulk request that stopped at an item: never
\* because of what the endpoint does.
THEOREM AnswersTrue == Spec => []AnswersExplained
  <1>1. IInv => AnswersExplained
    BY DEF IInv, PortalTypeOK, WorkInv, AnswerInv, AnswersExplained, At
  <1>2. QED
    BY <1>1, Invariance, PTL
=============================================================================
