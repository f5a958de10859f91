---------------------------- MODULE AgentRun_proofs ----------------------------
(***************************************************************************)
(* Proofs about AgentRun for every list of plugins, whatever their servers *)
(* offer and the provider asks for, any limit of steps and any budget.     *)
(***************************************************************************)
EXTENDS AgentRun, SequenceTheorems, FiniteSetTheorems, TLAPS

\* Stages at which an MCP server is being called.
Calling == {"current", "session", "legacy"}
\* Stages at which a call may have been performed without an entry in the trace.
Repeating == {"session", "legacy"}

-----------------------------------------------------------------------------
(* The inductive invariant.                                                *)

\* How the stage, the request, the operation under way and the turn belong
\* together.
ControlInv ==
  /\ phase = "running" <=> stage # "none"
  /\ phase # "idle" => request \in Requests
  /\ phase = "waiting" => call \in Operations
  /\ turn.replies <= turn.done /\ turn.done <= turn.count
  /\ stage \in Calling => call \in Operations /\ turn.done < turn.count
  /\ stage = "discover" =>
       turn = NoTurn /\ trace = [o \in Operations |-> NoEntries] /\ \A o \in Operations : performed[o] = 0
  /\ stage = "provider" => turn.done = turn.count

\* A call may be ahead of its entry only while it is being repeated.
PerformedInv ==
  \A o \in Operations :
    performed[o] <= 2 * Recorded(o) + (IF stage \in Repeating /\ call = o THEN 1 ELSE 0)

\* What the user agreed to covers what the run was given as approved, and the
\* call under way was permitted.
ApprovalInv ==
  /\ phase # "idle" =>
       /\ request.operations \subseteq confirmed
       /\ request.operations = {} => \A o \in Operations : o.tool \in request.tools => o \in confirmed
  /\ stage \in Calling => \E t \in Registered(call.tool) : Permitted(t, call)
  /\ NothingUnapproved

\* With Gemini, every call dealt with has its reply.
ReplyInv ==
  stage # "none" /\ request.gemini => turn.replies = turn.done

IInv == TypeOK /\ ControlInv /\ PerformedInv /\ ApprovalInv /\ ReplyInv

Turns == [count : 0..TurnLength, done : 0..TurnLength, replies : 0..TurnLength]
Traces == [Operations -> [ok : Nat, error : Nat, refused : Nat]]

\* Before the first task nothing was asked for, performed or recorded.
LEMMA InitInvariant == Init => IInv
  <1> SUFFICES ASSUME Init PROVE IInv
    OBVIOUS
  <1>1. TypeOK
    <2>1. <<>> \in Seq(Tools)
      OBVIOUS
    <2>2. Len(Plugins) \in Nat
      BY PluginsAssumption
    <2>3. NoTurn \in Turns /\ trace \in Traces
      BY BudgetAssumption DEF Init, NoTurn, NoEntries, Turns, Traces
    <2>4. QED
      BY <2>1, <2>2, <2>3, SubmissionsAssumption DEF Init, TypeOK, Turns, Traces
  <1>2. ControlInv
    BY DEF Init, ControlInv, NoTurn, Calling
  <1>3. PerformedInv
    BY DEF Init, PerformedInv, Recorded, NoEntries, Repeating
  <1>4. ApprovalInv
    BY DEF Init, ApprovalInv, NothingUnapproved, Calling
  <1>5. ReplyInv
    BY DEF Init, ReplyInv
  <1>6. QED
    BY <1>1, <1>2, <1>3, <1>4, <1>5 DEF IInv

-----------------------------------------------------------------------------
(* A new run.                                                              *)

\* Whatever the request, a run begins with nothing found, called or performed.
LEMMA BeginStep ==
  ASSUME IInv, NEW r \in Requests, Begin(r),
         confirmed' \subseteq Operations, attempt' \in 0..2, submissions' \in 0..MaxSubmissions,
         r.operations \subseteq confirmed',
         r.operations = {} => \A o \in Operations : o.tool \in r.tools => o \in confirmed'
  PROVE  IInv'
  <1>1. TypeOK'
    <2>1. <<>> \in Seq(Tools) /\ Len(Plugins) \in Nat
      BY PluginsAssumption
    <2>2. NoTurn \in Turns /\ trace' \in Traces
      BY BudgetAssumption DEF Begin, NoTurn, NoEntries, Turns, Traces
    <2>3. QED
      BY <2>1, <2>2 DEF Begin, TypeOK, Turns, Traces
  <1>2. ControlInv'
    BY DEF Begin, ControlInv, NoTurn, Calling
  <1>3. PerformedInv'
    BY DEF Begin, PerformedInv, Recorded, NoEntries, Repeating
  <1>4. ApprovalInv'
    BY DEF Begin, ApprovalInv, NothingUnapproved, Calling
  <1>5. ReplyInv'
    BY DEF Begin, ReplyInv, NoTurn
  <1>6. QED
    BY <1>1, <1>2, <1>3, <1>4, <1>5 DEF IInv

\* A task begins with an empty trace; the tools its caller names are agreed to.
LEMMA SubmitStep ==
  ASSUME IInv, Submit
  PROVE  IInv'
  <1>1. PICK limit \in StepLimits, gemini \in BOOLEAN, tools \in NamedApprovals :
          /\ Begin([limit |-> limit, gemini |-> gemini, tools |-> tools, operations |-> {}])
          /\ confirmed' = {o \in Operations : o.tool \in tools}
    BY DEF Submit
  <1>2. [limit |-> limit, gemini |-> gemini, tools |-> tools, operations |-> {}] \in Requests
    BY ApprovalsAssumption DEF Requests
  <1>3. attempt' \in 0..2 /\ submissions' \in 0..MaxSubmissions
    BY SubmissionsAssumption DEF IInv, TypeOK, Submit
  <1>4. QED
    BY <1>1, <1>2, <1>3, BeginStep

\* The approval of the operation shown is the only one the new run is given.
LEMMA ConfirmStep ==
  ASSUME IInv, Confirm
  PROVE  IInv'
  <1>1. request \in Requests /\ call \in Operations
    BY DEF IInv, ControlInv, Confirm
  <1>2. [request EXCEPT !.tools = {call.tool}, !.operations = {call}] \in Requests
    BY <1>1 DEF Requests, Names
  <1>3. confirmed' \subseteq Operations /\ attempt' \in 0..2 /\ submissions' \in 0..MaxSubmissions
    BY <1>1 DEF IInv, TypeOK, Confirm
  <1>4. QED
    BY <1>1, <1>2, <1>3, BeginStep DEF Confirm, Requests

-----------------------------------------------------------------------------
(* Discovery, and the turns of the provider.                               *)

\* The tools found so far and those of the next plugin.
LEMMA DiscoverStep ==
  ASSUME IInv, Discover
  PROVE  IInv'
  <1>1. TypeOK'
    <2>1. Len(Plugins) \in Nat /\ Plugins \in [1..Len(Plugins) -> Range(Plugins)]
      BY PluginsAssumption
    <2>2. found \in Nat /\ found < Len(Plugins)
      BY <2>1 DEF IInv, TypeOK, Discover
    <2>p. DEFINE plugin == Plugins[found + 1]
    <2>3. PICK offer \in Offers[plugin] :
            registry' = registry \o
              [i \in DOMAIN offer |-> [name |-> offer[i].name, plugin |-> plugin, risk |-> offer[i].risk]]
      BY DEF Discover
    <2>q. plugin \in Range(Plugins)
      BY <2>1, <2>2
    <2>4. offer \in Seq([name : Names, risk : Risks])
      BY <2>3, <2>q, OffersAssumption
    <2>5. [i \in DOMAIN offer |-> [name |-> offer[i].name, plugin |-> plugin, risk |-> offer[i].risk]]
            \in Seq(Tools)
      <3>1. DOMAIN offer = 1..Len(offer) /\ Len(offer) \in Nat
        BY <2>4
      <3>2. \A i \in 1..Len(offer) : offer[i] \in [name : Names, risk : Risks]
        BY <2>4, ElementOfSeq
      <3>3. QED
        BY <3>1, <3>2, <2>q, IsASeq DEF Tools
    <2>6. registry' \in Seq(Tools)
      BY <2>3, <2>5, ConcatProperties DEF IInv, TypeOK
    <2>7. QED
      BY <2>1, <2>2, <2>6 DEF IInv, TypeOK, Discover
  <1>2. ControlInv'
    BY DEF IInv, ControlInv, Discover, Calling
  <1>3. PerformedInv'
    BY DEF IInv, PerformedInv, Recorded, Discover, Repeating
  <1>4. ApprovalInv'
    BY DEF IInv, ControlInv, ApprovalInv, NothingUnapproved, Discover, Calling
  <1>5. ReplyInv'
    BY DEF IInv, ReplyInv, Discover
  <1>6. QED
    BY <1>1, <1>2, <1>3, <1>4, <1>5 DEF IInv

\* A run that ends leaves its trace and what it performed as they are.
LEMMA EndStep ==
  ASSUME IInv, DiscoveryFails \/ StepLimit \/ ProviderEnds
  PROVE  IInv'
  <1>1. /\ phase' \in {"answered", "failed"} /\ stage' = "none"
        /\ failure' \in {"none", "discovery", "provider", "step-limit"}
        /\ stage \notin Calling /\ phase # "idle"
        /\ UNCHANGED <<request, registry, found, step, turn, call, trace, performed, confirmed,
                       attempt, submissions>>
    BY DEF IInv, ControlInv, DiscoveryFails, StepLimit, ProviderEnds, End, Calling
  <1>2. TypeOK'
    BY <1>1 DEF IInv, TypeOK
  <1>3. ControlInv'
    BY <1>1 DEF IInv, ControlInv, Calling
  <1>4. PerformedInv'
    BY <1>1 DEF IInv, PerformedInv, Recorded, Repeating, Calling
  <1>5. ApprovalInv' /\ ReplyInv'
    BY <1>1 DEF IInv, ApprovalInv, NothingUnapproved, ReplyInv, Registered, Calling
  <1>6. QED
    BY <1>2, <1>3, <1>4, <1>5 DEF IInv

\* A turn starts or its calls arrive: nothing is performed.
LEMMA TurnStep ==
  ASSUME IInv, StartTurn \/ ProviderCalls
  PROVE  IInv'
  <1>1. /\ UNCHANGED <<phase, failure, request, registry, found, call, trace, performed, confirmed,
                       attempt, submissions>>
        /\ stage' \in {"provider", "calls"} /\ stage \in {"discover", "calls", "provider"}
        /\ step' \in Nat
        /\ \/ stage' = "provider" /\ turn' = turn /\ turn.done = turn.count
           \/ /\ stage' = "calls"
              /\ \E n \in 1..TurnLength : turn' = [count |-> n, done |-> 0, replies |-> 0]
    BY DEF IInv, TypeOK, ControlInv, StartTurn, ProviderCalls, runVars, NoTurn
  <1>2. TypeOK'
    <2>1. turn' \in Turns
      BY <1>1, BudgetAssumption DEF IInv, TypeOK, Turns
    <2>2. QED
      BY <1>1, <2>1 DEF IInv, TypeOK, Turns
  <1>3. ControlInv'
    BY <1>1 DEF IInv, ControlInv, Calling
  <1>4. PerformedInv'
    BY <1>1 DEF IInv, PerformedInv, Recorded, Repeating
  <1>5. ApprovalInv' /\ ReplyInv'
    BY <1>1 DEF IInv, ApprovalInv, NothingUnapproved, ReplyInv, Registered, Calling
  <1>6. QED
    BY <1>2, <1>3, <1>4, <1>5 DEF IInv

-----------------------------------------------------------------------------
(* The calls of a turn.                                                    *)

\* What the steps that deal with a call leave alone.
Kept == UNCHANGED <<failure, request, registry, found, step, confirmed, attempt, submissions>>

\* An entry for the call that is dealt with.  The operation is performed at most
\* once more, and only when it was agreed to or needs no approval.
LEMMA RecordStep ==
  ASSUME IInv, NEW o \in Operations, NEW status \in {"ok", "error"}, Record(o, status),
         turn.done < turn.count, stage = "calls" \/ (stage \in Calling /\ call = o),
         Perform(o) \/ UNCHANGED performed,
         \/ UNCHANGED performed
         \/ o \in confirmed
         \/ \E t \in Registered(o.tool) : t.plugin \in Builtin \/ t.risk = "read"
  PROVE  IInv'
  <1>0. /\ trace \in Traces /\ performed \in [Operations -> Nat] /\ turn \in Turns
        /\ phase = "running" /\ stage # "none"
    BY DEF IInv, TypeOK, ControlInv, Traces, Turns, Calling
  <1>1. /\ trace' = [trace EXCEPT ![o][status] = @ + 1]
        /\ turn' = [turn EXCEPT !.done = @ + 1, !.replies = @ + 1]
        /\ stage' = "calls" /\ call' = NoCall /\ phase' = phase /\ Kept
    BY DEF Record, runVars, Kept
  <1>2. trace' \in Traces
    BY <1>0, <1>1 DEF Traces
  <1>3. performed' \in [Operations -> Nat]
    BY <1>0 DEF Perform
  <1>4. TypeOK'
    <2>1. turn' \in Turns
      <3>1. /\ turn.replies <= turn.done /\ turn.done < turn.count
            /\ turn.count \in 0..TurnLength /\ turn.done \in 0..TurnLength
            /\ turn.replies \in 0..TurnLength
        BY <1>0 DEF IInv, ControlInv, Turns
      <3>2. turn.done + 1 \in 0..TurnLength /\ turn.replies + 1 \in 0..TurnLength
        BY <3>1, BudgetAssumption
      <3>3. QED
        BY <1>0, <1>1, <3>2 DEF Turns
    <2>2. QED
      BY <1>0, <1>1, <1>2, <1>3, <2>1 DEF IInv, TypeOK, Turns, Traces, Kept
  <1>5. ControlInv'
    BY <1>0, <1>1 DEF IInv, ControlInv, Turns, Calling, Kept
  <1>6. PerformedInv'
    BY <1>0, <1>1 DEF IInv, PerformedInv, Recorded, Repeating, Calling, Traces, Perform
  <1>7. ApprovalInv'
    <2>1. \A name : Registered(name)' = Registered(name)
      BY <1>1 DEF Registered, Kept
    <2>2. NothingUnapproved'
      BY <1>0, <1>1, <2>1 DEF IInv, ApprovalInv, NothingUnapproved, Perform, Kept
    <2>3. QED
      BY <1>0, <1>1, <2>1, <2>2 DEF IInv, ApprovalInv, Calling, Kept
  <1>8. ReplyInv'
    BY <1>0, <1>1 DEF IInv, ReplyInv, Turns, Kept
  <1>9. QED
    BY <1>4, <1>5, <1>6, <1>7, <1>8 DEF IInv

\* A call that is permitted is one that was agreed to, or needs no approval.
LEMMA PermittedCall ==
  ASSUME IInv, stage \in Calling
  PROVE  \/ call \in confirmed
         \/ \E t \in Registered(call.tool) : t.plugin \in Builtin \/ t.risk = "read"
  <1>1. call \in Operations /\ phase # "idle"
    BY DEF IInv, ControlInv, Calling
  <1>2. PICK t \in Registered(call.tool) : Permitted(t, call)
    BY DEF IInv, ApprovalInv
  <1>3. QED
    BY <1>1, <1>2 DEF IInv, ApprovalInv, Permitted

\* Beyond the budget nothing is performed.
LEMMA RefuseStep ==
  ASSUME IInv, NEW o \in Operations, Refuse(o), stage = "calls", turn.done < turn.count
  PROVE  IInv'
  <1>0. /\ trace \in Traces /\ turn \in Turns /\ phase = "running" /\ Kept
        /\ phase' = phase /\ stage' = stage /\ call' = call /\ performed' = performed
    BY DEF IInv, TypeOK, ControlInv, Traces, Turns, Refuse, runVars, Kept
  <1>1. /\ turn.replies <= turn.done /\ turn.done < turn.count
        /\ turn.count \in 0..TurnLength /\ turn.done \in 0..TurnLength
        /\ turn.replies \in 0..TurnLength
    BY <1>0 DEF IInv, ControlInv, Turns
  <1>2. /\ turn' \in Turns /\ turn'.done = turn.done + 1 /\ turn'.count = turn.count
        /\ turn'.replies \in {turn.replies, turn.replies + 1}
        /\ request.gemini => turn'.replies = turn.replies + 1
    <2>1. turn.done + 1 \in 0..TurnLength /\ turn.replies + 1 \in 0..TurnLength
      BY <1>1, BudgetAssumption
    <2>2. CASE request.gemini
      <3>1. turn' = [turn EXCEPT !.done = @ + 1, !.replies = @ + 1]
        BY <2>2 DEF Refuse
      <3>2. QED
        BY <1>0, <2>1, <3>1 DEF Turns
    <2>3. CASE ~request.gemini
      <3>1. turn' = [turn EXCEPT !.done = @ + 1, !.replies = @]
        BY <2>3 DEF Refuse
      <3>2. QED
        BY <1>0, <2>1, <2>3, <3>1 DEF Turns
    <2>4. QED
      BY <2>2, <2>3
  <1>3. trace' \in Traces /\ trace' = [trace EXCEPT ![o].refused = @ + 1]
    BY <1>0 DEF Refuse, Traces
  <1>4. TypeOK'
    BY <1>0, <1>2, <1>3 DEF IInv, TypeOK, Turns, Traces, Kept
  <1>5. ControlInv'
    BY <1>0, <1>1, <1>2 DEF IInv, ControlInv, Turns, Calling, Kept
  <1>6. PerformedInv'
    <2>1. \A p \in Operations : trace'[p].ok = trace[p].ok /\ trace'[p].error = trace[p].error
      BY <1>0, <1>3 DEF Traces
    <2>2. QED
      BY <1>0, <2>1 DEF IInv, PerformedInv, Recorded
  <1>7. ApprovalInv'
    <2>1. \A name : Registered(name)' = Registered(name)
      BY <1>0 DEF Registered, Kept
    <2>2. QED
      BY <1>0, <2>1 DEF IInv, ApprovalInv, NothingUnapproved, Calling, Kept
  <1>8. ReplyInv'
    BY <1>0, <1>1, <1>2 DEF IInv, ReplyInv, Kept
  <1>9. QED
    BY <1>4, <1>5, <1>6, <1>7, <1>8 DEF IInv

\* The run stops for the user's approval.
LEMMA AwaitApprovalStep ==
  ASSUME IInv, NEW o \in Operations, AwaitApproval(o, Registered(o.tool)), stage = "calls"
  PROVE  IInv'
  <1>1. /\ phase = "running" /\ phase' = "waiting" /\ stage' = "none" /\ failure' = "none" /\ call' = o
        /\ UNCHANGED <<request, registry, found, step, turn, trace, performed, confirmed,
                       attempt, submissions>>
    BY DEF IInv, ControlInv, AwaitApproval, End
  <1>2. TypeOK'
    BY <1>1 DEF IInv, TypeOK
  <1>3. ControlInv'
    BY <1>1 DEF IInv, ControlInv, Calling
  <1>4. PerformedInv'
    BY <1>1 DEF IInv, PerformedInv, Recorded, Repeating
  <1>5. ApprovalInv' /\ ReplyInv'
    <2>1. \A name : Registered(name)' = Registered(name)
      BY <1>1 DEF Registered
    <2>2. QED
      BY <1>1, <2>1 DEF IInv, ApprovalInv, NothingUnapproved, ReplyInv, Calling
  <1>6. QED
    BY <1>2, <1>3, <1>4, <1>5 DEF IInv

\* A call goes to an MCP server, or on to the next message of the older protocol.
\* On the way to it the operation may have been performed without an entry.
LEMMA CallStep ==
  ASSUME IInv, call' \in Operations, turn.done < turn.count, phase = "running",
         UNCHANGED <<phase, turn, trace, runVars>>,
         \/ stage = "calls" /\ stage' = "current" /\ UNCHANGED performed
            /\ \E t \in Registered(call'.tool) : Permitted(t, call')
         \/ stage = "current" /\ stage' = "session" /\ call' = call /\ (Perform(call) \/ UNCHANGED performed)
         \/ stage = "session" /\ stage' = "legacy" /\ call' = call /\ UNCHANGED performed
  PROVE  IInv'
  <1>1. Kept /\ UNCHANGED <<phase, turn, trace>>
    BY DEF runVars, Kept
  <1>2. performed \in [Operations -> Nat] /\ performed' \in [Operations -> Nat]
    <2>1. performed \in [Operations -> Nat]
      BY DEF IInv, TypeOK
    <2>2. QED
      BY <2>1 DEF Perform
  <1>3. \A name : Registered(name)' = Registered(name)
    BY <1>1 DEF Registered, Kept
  <1>4. TypeOK'
    BY <1>1, <1>2 DEF IInv, TypeOK, Kept
  <1>5. ControlInv'
    BY <1>1 DEF IInv, ControlInv, Calling, Kept
  <1>6. PerformedInv'
    <2>1. \A o \in Operations : Recorded(o)' = Recorded(o) /\ Recorded(o) \in Nat /\ trace[o].ok \in Nat
      <3>1. trace \in Traces /\ trace' = trace
        BY <1>1 DEF IInv, TypeOK, Traces
      <3>2. QED
        BY <3>1 DEF Recorded, Traces
    <2>2. QED
      BY <1>1, <1>2, <2>1 DEF IInv, PerformedInv, Perform, Repeating
  <1>7. ApprovalInv'
    <2>1. \A t, o : Permitted(t, o)' <=> Permitted(t, o)
      BY <1>1 DEF Permitted, Kept
    <2>2. NothingUnapproved'
      <3>1. CASE UNCHANGED performed
        BY <1>1, <1>3, <3>1 DEF IInv, ApprovalInv, NothingUnapproved, Kept
      <3>2. CASE stage = "current" /\ Perform(call)
        <4>1. \/ call \in confirmed
              \/ \E t \in Registered(call.tool) : t.plugin \in Builtin \/ t.risk = "read"
          BY <3>2, PermittedCall DEF Calling
        <4>2. \A o \in Operations : o # call => performed'[o] = performed[o]
          BY <1>2, <3>2 DEF Perform
        <4>3. QED
          BY <1>1, <1>3, <4>1, <4>2 DEF IInv, ApprovalInv, NothingUnapproved, Kept
      <3>3. QED
        BY <3>1, <3>2
    <2>3. QED
      BY <1>1, <1>3, <2>1, <2>2 DEF IInv, ApprovalInv, Calling, Kept
  <1>8. ReplyInv'
    BY <1>1 DEF IInv, ReplyInv, Kept
  <1>9. QED
    BY <1>4, <1>5, <1>6, <1>7, <1>8 DEF IInv

\* A call is refused, fails, waits for its approval, succeeds, or goes to a server.
LEMMA NextCallStep ==
  ASSUME IInv, NextCall
  PROVE  IInv'
  <1>1. phase = "running" /\ stage = "calls" /\ turn.done < turn.count
    BY DEF IInv, ControlInv, NextCall
  <1>2. PICK o \in Operations :
          IF turn.done >= ToolBudget THEN Refuse(o)
          ELSE \/ Local(o, Registered(o.tool)) \/ Remote(o, Registered(o.tool))
               \/ AwaitApproval(o, Registered(o.tool))
    BY DEF NextCall
  <1>3. CASE Refuse(o)
    BY <1>1, <1>3, RefuseStep
  <1>4. CASE Local(o, Registered(o.tool))
    <2>1. CASE Record(o, "error") /\ UNCHANGED performed
      BY <1>1, <2>1, RecordStep
    <2>2. CASE /\ \E t \in Registered(o.tool) : t.plugin \in Builtin
               /\ Record(o, "ok") /\ performed' = [performed EXCEPT ![o] = @ + 1]
      BY <1>1, <2>2, RecordStep DEF Perform
    <2>3. QED
      BY <1>4, <2>1, <2>2 DEF Local
  <1>5. CASE Remote(o, Registered(o.tool))
    BY <1>1, <1>5, CallStep DEF Remote
  <1>6. CASE AwaitApproval(o, Registered(o.tool))
    BY <1>1, <1>6, AwaitApprovalStep
  <1>7. QED
    BY <1>2, <1>3, <1>4, <1>5, <1>6

\* The answer of the server, by either protocol.
LEMMA ServerStep ==
  ASSUME IInv, CurrentProtocol \/ OpenSession \/ LegacyProtocol
  PROVE  IInv'
  <1>1. /\ stage \in Calling /\ call \in Operations /\ turn.done < turn.count /\ phase = "running"
        /\ \/ call \in confirmed
           \/ \E t \in Registered(call.tool) : t.plugin \in Builtin \/ t.risk = "read"
    BY PermittedCall DEF IInv, ControlInv, CurrentProtocol, OpenSession, LegacyProtocol, Calling
  <1>2. CASE Record(call, "ok") /\ (Perform(call) \/ UNCHANGED performed)
    BY <1>1, <1>2, RecordStep
  <1>3. CASE Record(call, "error") /\ (Perform(call) \/ UNCHANGED performed)
    BY <1>1, <1>3, RecordStep
  <1>4. CASE /\ stage = "current" /\ stage' = "session" /\ (Perform(call) \/ UNCHANGED performed)
             /\ UNCHANGED <<phase, turn, call, trace, runVars>>
    BY <1>1, <1>4, CallStep
  <1>5. CASE /\ stage = "session" /\ stage' = "legacy"
             /\ UNCHANGED <<phase, turn, call, trace, runVars, performed>>
    BY <1>1, <1>5, CallStep
  <1>6. QED
    BY <1>2, <1>3, <1>4, <1>5 DEF CurrentProtocol, OpenSession, LegacyProtocol, CallLost, Answered

-----------------------------------------------------------------------------
(* Sums over the operations.  Proofs by induction use that a set that is   *)
(* not empty has a least element.                                          *)

\* Induction over the natural numbers, for a set of them: the least number that is not
\* in the set would be 0 or have a predecessor that is.
LEMMA NatSetInduction ==
  ASSUME NEW G, 0 \in G, \A n \in Nat : n \in G => n + 1 \in G
  PROVE  Nat \subseteq G
  <1> DEFINE R == OpToRel(<, Nat)
             T == Nat \ G
  <1>1. IsWellFoundedOn(R, Nat)
    BY NatLessThanWellFounded
  <1>2. \A m, n \in Nat : m < n => <<m, n>> \in R
    BY DEF OpToRel
  <1> SUFFICES ASSUME T # {} PROVE FALSE
    OBVIOUS
  <1> HIDE DEF R
  <1>3. PICK n \in T : \A m \in T : <<m, n>> \notin R
    <2> HIDE DEF T
    <2>1. T \subseteq Nat
      BY DEF T
    <2>2. QED
      BY <1>1, <2>1, WFMin
  <1>4. n # 0 /\ n - 1 \in Nat /\ n - 1 < n
    BY <1>3
  <1>5. n - 1 \notin T
    BY <1>2, <1>3, <1>4
  <1>6. QED
    BY <1>3, <1>4, <1>5

\* `h` sums the values of `f` over every set of D, as SumFunction does: one element
\* is chosen, and its value added to the sum of the others.
Chosen(s) == CHOOSE x \in s : TRUE
Adds(h, f, D) == h = [s \in D |-> IF s = {} THEN 0 ELSE f[Chosen(s)] + h[s \ {Chosen(s)}]]

\* The subsets of S with at most n elements.
Upto(S, n) == {s \in SUBSET S : Cardinality(s) <= n}

\* There is such a function for every finite set: one for the subsets with at most
\* n elements extends to those with one more.
LEMMA SumExists ==
  ASSUME NEW S, IsFiniteSet(S), NEW f
  PROVE  \E h : Adds(h, f, SUBSET S)
  <1> DEFINE G == {n \in Nat : \E h : Adds(h, f, Upto(S, n))}
  <1>0. \A s \in SUBSET S : IsFiniteSet(s) /\ Cardinality(s) \in Nat
    BY FS_Subset, FS_CardinalityType
  <1>1. 0 \in G
    <2>1. Upto(S, 0) \subseteq {{}}
      BY <1>0, FS_EmptySet DEF Upto
    <2>2. Adds([s \in Upto(S, 0) |-> 0], f, Upto(S, 0))
      BY <2>1 DEF Adds
    <2>3. QED
      BY <2>2
  <1>2. ASSUME NEW n \in Nat, n \in G PROVE n + 1 \in G
    <2>1. PICK h : Adds(h, f, Upto(S, n))
      BY <1>2
    <2> DEFINE k == [s \in Upto(S, n + 1) |-> IF s = {} THEN 0 ELSE f[Chosen(s)] + h[s \ {Chosen(s)}]]
    <2>2. ASSUME NEW s \in Upto(S, n + 1), s # {}
          PROVE  s \ {Chosen(s)} \in Upto(S, n + 1) \cap Upto(S, n)
      <3>1. Chosen(s) \in s
        BY <2>2 DEF Chosen
      <3>2. Cardinality(s \ {Chosen(s)}) = Cardinality(s) - 1
        BY <1>0, <3>1, FS_RemoveElement DEF Upto
      <3>3. QED
        BY <1>0, <3>2 DEF Upto
    <2>3. ASSUME NEW s \in Upto(S, n) PROVE s \in Upto(S, n + 1) /\ k[s] = h[s]
      <3>1. s \in Upto(S, n + 1)
        BY <1>0 DEF Upto
      <3>2. h[s] = IF s = {} THEN 0 ELSE f[Chosen(s)] + h[s \ {Chosen(s)}]
        BY <2>1 DEF Adds
      <3>3. QED
        BY <3>1, <3>2
    <2>4. Adds(k, f, Upto(S, n + 1))
      <3>1. \A s \in Upto(S, n + 1) : s # {} => k[s \ {Chosen(s)}] = h[s \ {Chosen(s)}]
        BY <2>2, <2>3
      <3>2. k = [s \in Upto(S, n + 1) |-> IF s = {} THEN 0 ELSE f[Chosen(s)] + k[s \ {Chosen(s)}]]
        BY <3>1
      <3>3. QED
        BY <3>2 DEF Adds
    <2>5. QED
      BY <2>4
  <1>3. Cardinality(S) \in G
    <2> HIDE DEF G
    <2>1. QED
      BY <1>0, <1>1, <1>2, NatSetInduction
  <1>4. Upto(S, Cardinality(S)) = SUBSET S
    BY <1>0, FS_Subset DEF Upto
  <1>5. QED
    BY <1>3, <1>4

\* SumFunction, whose definition chooses such a function, therefore has one.
LEMMA SumAdds ==
  ASSUME NEW S, IsFiniteSet(S), NEW f, DOMAIN f = S
  PROVE  \E h : Adds(h, f, SUBSET S) /\ SumFunction(f) = h[S]
  <1> DEFINE h == CHOOSE g : Adds(g, f, SUBSET S)
  <1>1. Adds(h, f, SUBSET S)
    BY SumExists
  <1>2. SumFunction(f) = h[S]
    BY DEF SumFunction, SumFunctionOnSet, FoldFunctionOnSet, MapThenFoldSet, Adds, Chosen
  <1>3. QED
    BY <1>1, <1>2

\* Induction over the subsets of a finite set: the least subset that is not in `G` would
\* be empty or have an element without which it is.
LEMMA SubsetInduction ==
  ASSUME NEW S, IsFiniteSet(S), NEW G, {} \in G,
         \A s \in SUBSET S : s # {} /\ s \ {Chosen(s)} \in G => s \in G
  PROVE  S \in G
  <1> DEFINE T == (SUBSET S) \ G
  <1> SUFFICES ASSUME T # {} PROVE FALSE
    OBVIOUS
  <1>1. IsWellFoundedOn(StrictSubsetOrdering(S), SUBSET S)
    BY FS_StrictSubsetOrderingWellFounded, FS_FiniteSubsetsOfFinite
  <1>2. PICK s \in T : \A t \in T : <<t, s>> \notin StrictSubsetOrdering(S)
    <2>1. T \subseteq SUBSET S
      OBVIOUS
    <2> HIDE DEF T
    <2>2. QED
      BY <1>1, <2>1, WFMin
  <1>3. s # {}
    BY <1>2
  <1>4. Chosen(s) \in s
    BY <1>3 DEF Chosen
  <1>5. <<s \ {Chosen(s)}, s>> \in StrictSubsetOrdering(S)
    BY <1>4 DEF StrictSubsetOrdering
  <1>6. QED
    BY <1>2, <1>3, <1>5

\* The sum of values that are all zero is zero.
LEMMA SumOfZeros ==
  ASSUME NEW S, IsFiniteSet(S)
  PROVE  SumFunction([x \in S |-> 0]) = 0
  <1> DEFINE f == [x \in S |-> 0]
  <1>1. PICK h : Adds(h, f, SUBSET S) /\ SumFunction(f) = h[S]
    BY SumAdds
  <1> DEFINE G == {s \in SUBSET S : h[s] = 0}
  <1>2. {} \in G
    BY <1>1 DEF Adds
  <1>3. ASSUME NEW s \in SUBSET S, s # {}, s \ {Chosen(s)} \in G
        PROVE  s \in G
    <2>1. h[s] = f[Chosen(s)] + h[s \ {Chosen(s)}] /\ Chosen(s) \in s
      BY <1>1, <1>3 DEF Adds, Chosen
    <2>2. QED
      BY <1>3, <2>1
  <1>4. S \in G
    <2> HIDE DEF G
    <2>1. QED
      BY <1>2, <1>3, SubsetInduction
  <1>5. QED
    BY <1>1, <1>4

\* A sum of natural numbers is one, and grows by one with one of them.
LEMMA SumGrows ==
  ASSUME NEW S, IsFiniteSet(S), NEW f \in [S -> Nat], NEW o \in S
  PROVE  /\ SumFunction(f) \in Nat
         /\ SumFunction([f EXCEPT ![o] = @ + 1]) = SumFunction(f) + 1
  <1> DEFINE g == [f EXCEPT ![o] = @ + 1]
  <1>1. PICK h : Adds(h, f, SUBSET S) /\ SumFunction(f) = h[S]
    BY SumAdds
  <1>2. PICK k : Adds(k, g, SUBSET S) /\ SumFunction(g) = k[S]
    BY SumAdds
  <1> DEFINE G == {s \in SUBSET S : h[s] \in Nat /\ k[s] = h[s] + (IF o \in s THEN 1 ELSE 0)}
  <1>3. {} \in G
    BY <1>1, <1>2 DEF Adds
  <1>4. ASSUME NEW s \in SUBSET S, s # {}, s \ {Chosen(s)} \in G
        PROVE  s \in G
    <2>1. /\ h[s] = f[Chosen(s)] + h[s \ {Chosen(s)}]
          /\ k[s] = g[Chosen(s)] + k[s \ {Chosen(s)}]
          /\ Chosen(s) \in s
      BY <1>1, <1>2, <1>4 DEF Adds, Chosen
    <2>2. /\ f[Chosen(s)] \in Nat
          /\ g[Chosen(s)] = f[Chosen(s)] + (IF o = Chosen(s) THEN 1 ELSE 0)
      BY <2>1
    <2>3. QED
      BY <1>4, <2>1, <2>2
  <1>5. S \in G
    <2> HIDE DEF G
    <2>1. QED
      BY <1>3, <1>4, SubsetInduction
  <1>6. QED
    BY <1>1, <1>2, <1>5

-----------------------------------------------------------------------------
(* What the trace shows of all operations together.                        *)

\* The audit names one source for every operation.
LEMMA OneSource ==
  ASSUME TypeOK, NEW o \in Operations
  PROVE  \E s \in Sources : SourceOf(o) = {s}
  <1>1. registry \in Seq(Tools)
    BY DEF TypeOK
  <1>2. ASSUME NEW t \in Described(o.tool), NEW u \in Described(o.tool)
        PROVE  t = u
    <2>1. PICK i \in 1..Len(registry) :
            /\ t = registry[i] /\ registry[i].name = o.tool
            /\ \A k \in 1..(i - 1) : registry[k].name # o.tool
      BY <1>2 DEF Described
    <2>2. PICK j \in 1..Len(registry) :
            /\ u = registry[j] /\ registry[j].name = o.tool
            /\ \A k \in 1..(j - 1) : registry[k].name # o.tool
      BY <1>2 DEF Described
    <2>3. i \in 1..(j - 1) \/ j \in 1..(i - 1) \/ i = j
      BY <1>1
    <2>4. QED
      BY <2>1, <2>2, <2>3
  <1>3. ASSUME NEW t \in Described(o.tool)
        PROVE  t.plugin \in Sources
    <2>1. t \in Tools
      BY <1>1, <1>3, ElementOfSeq DEF Described
    <2>2. QED
      BY <2>1 DEF Tools, Sources
  <1>4. CASE Described(o.tool) = {}
    BY <1>4 DEF SourceOf, Sources
  <1>5. CASE Described(o.tool) # {}
    <2>1. PICK t : t \in Described(o.tool)
      BY <1>5
    <2>2. SourceOf(o) = {t.plugin}
      BY <1>2, <2>1 DEF SourceOf
    <2>3. QED
      BY <1>3, <2>1, <2>2
  <1>6. QED
    BY <1>4, <1>5

\* An entry is counted once, whatever its status, and a success for the source of
\* its operation.
LEMMA EntryCounts ==
  ASSUME TypeOK, NEW o \in Operations, NEW status \in {"ok", "error", "refused"},
         trace' = [trace EXCEPT ![o][status] = @ + 1], registry' = registry
  PROVE  /\ Executed \in Nat
         /\ Executed' = IF status = "refused" THEN Executed ELSE Executed + 1
         /\ Failures' = IF status = "ok" THEN Failures ELSE Failures + 1
         /\ status # "ok" => Successes' = Successes
         /\ status = "ok" => \E s \in Sources : Successes' = [Successes EXCEPT ![s] = @ + 1]
  <1>0. /\ IsFiniteSet(Operations) /\ trace \in Traces
        /\ \A p : SourceOf(p)' = SourceOf(p)
    BY OperationsAssumption DEF TypeOK, Traces, SourceOf, Described
  <1> DEFINE ex == [p \in Operations |-> Recorded(p)]
             fl == [p \in Operations |-> trace[p].error + trace[p].refused]
             su(s) == [p \in Operations |-> IF s \in SourceOf(p) THEN trace[p].ok ELSE 0]
  <1>1. ex \in [Operations -> Nat] /\ fl \in [Operations -> Nat]
    BY <1>0 DEF Recorded, Traces
  <1>2. \A s : su(s) \in [Operations -> Nat]
    BY <1>0 DEF Traces
  <1>3. Executed = SumFunction(ex) /\ Failures = SumFunction(fl)
    BY DEF Executed, Failures
  <1>4. Executed' = SumFunction(ex') /\ Failures' = SumFunction(fl')
    BY DEF Executed, Failures
  <1>5. Successes = [s \in Sources |-> SumFunction(su(s))]
    BY DEF Successes
  <1>6. Successes' = [s \in Sources |-> SumFunction(su(s)')]
    BY DEF Successes
  <1>7. \A p \in Operations :
          /\ p # o => trace'[p] = trace[p]
          /\ trace'[o].ok = trace[o].ok + (IF status = "ok" THEN 1 ELSE 0)
          /\ trace'[o].error = trace[o].error + (IF status = "error" THEN 1 ELSE 0)
          /\ trace'[o].refused = trace[o].refused + (IF status = "refused" THEN 1 ELSE 0)
    BY <1>0 DEF Traces
  <1>8. ex' = IF status = "refused" THEN ex ELSE [ex EXCEPT ![o] = @ + 1]
    BY <1>0, <1>7 DEF Recorded, Traces
  <1>9. fl' = IF status = "ok" THEN fl ELSE [fl EXCEPT ![o] = @ + 1]
    BY <1>0, <1>7 DEF Traces
  <1>10. \A s : su(s)' = IF status = "ok" /\ s \in SourceOf(o)
                         THEN [su(s) EXCEPT ![o] = @ + 1] ELSE su(s)
    BY <1>0, <1>7 DEF Traces
  <1> HIDE DEF ex, fl, su
  <1>11. Executed \in Nat /\ Executed' = IF status = "refused" THEN Executed ELSE Executed + 1
    BY <1>0, <1>1, <1>3, <1>4, <1>8, SumGrows
  <1>12. Failures' = IF status = "ok" THEN Failures ELSE Failures + 1
    BY <1>0, <1>1, <1>3, <1>4, <1>9, SumGrows
  <1>13. status # "ok" => Successes' = Successes
    BY <1>5, <1>6, <1>10
  <1>14. status = "ok" => \E s \in Sources : Successes' = [Successes EXCEPT ![s] = @ + 1]
    <2>1. PICK s \in Sources : SourceOf(o) = {s}
      BY OneSource
    <2>2. SumFunction([su(s) EXCEPT ![o] = @ + 1]) = SumFunction(su(s)) + 1
      BY <1>0, <1>2, SumGrows
    <2>3. QED
      BY <1>5, <1>6, <1>10, <2>1, <2>2
  <1>15. QED
    BY <1>11, <1>12, <1>13, <1>14

\* An empty trace counts nothing.
LEMMA NoEntriesCount ==
  ASSUME trace = [o \in Operations |-> NoEntries]
  PROVE  Executed = 0 /\ Failures = 0 /\ Successes = [s \in Sources |-> 0]
  <1>1. SumFunction([o \in Operations |-> 0]) = 0
    BY SumOfZeros, OperationsAssumption
  <1>2. [o \in Operations |-> Recorded(o)] = [o \in Operations |-> 0]
    BY DEF Recorded, NoEntries
  <1>3. [o \in Operations |-> trace[o].error + trace[o].refused] = [o \in Operations |-> 0]
    BY DEF NoEntries
  <1>4. \A s : [o \in Operations |-> IF s \in SourceOf(o) THEN trace[o].ok ELSE 0]
                 = [o \in Operations |-> 0]
    BY DEF NoEntries
  <1>5. QED
    BY <1>1, <1>2, <1>3, <1>4 DEF Executed, Failures, Successes

\* The same of the trace after a step.
LEMMA NoEntriesCountNext ==
  ASSUME trace' = [o \in Operations |-> NoEntries]
  PROVE  Executed' = 0 /\ Failures' = 0 /\ Successes' = [s \in Sources |-> 0]
  <1>1. SumFunction([o \in Operations |-> 0]) = 0
    BY SumOfZeros, OperationsAssumption
  <1>2. [o \in Operations |-> Recorded(o)]' = [o \in Operations |-> 0]
    BY DEF Recorded, NoEntries
  <1>3. [o \in Operations |-> trace[o].error + trace[o].refused]' = [o \in Operations |-> 0]
    BY DEF NoEntries
  <1>4. \A s : [o \in Operations |-> IF s \in SourceOf(o) THEN trace[o].ok ELSE 0]'
                 = [o \in Operations |-> 0]
    BY DEF NoEntries
  <1>5. QED
    BY <1>1, <1>2, <1>3, <1>4 DEF Executed, Failures, Successes

-----------------------------------------------------------------------------
(* The theorems.                                                           *)

\* Every step of Next keeps the invariant.
LEMMA InvariantStep == IInv /\ [Next]_vars => IInv'
  <1> SUFFICES ASSUME IInv, [Next]_vars PROVE IInv'
    OBVIOUS
  <1>1. CASE Submit
    BY <1>1, SubmitStep
  <1>2. CASE Confirm
    BY <1>2, ConfirmStep
  <1>3. CASE RunStep
    BY <1>3, DiscoverStep, EndStep, TurnStep, NextCallStep, ServerStep DEF RunStep
  <1>4. CASE UNCHANGED vars
    <2>1. \A name : Registered(name)' = Registered(name)
      BY <1>4 DEF Registered, vars
    <2>2. \A t, o : Permitted(t, o)' <=> Permitted(t, o)
      BY <1>4 DEF Permitted, vars
    <2>3. TypeOK' /\ ControlInv' /\ ReplyInv'
      BY <1>4 DEF IInv, TypeOK, ControlInv, ReplyInv, vars
    <2>4. PerformedInv'
      BY <1>4 DEF IInv, PerformedInv, Recorded, vars
    <2>5. ApprovalInv'
      BY <1>4, <2>1, <2>2 DEF IInv, ApprovalInv, NothingUnapproved, vars
    <2>6. QED
      BY <2>3, <2>4, <2>5 DEF IInv
  <1>5. QED
    BY <1>1, <1>2, <1>3, <1>4 DEF Next

\* Every run keeps the invariant, whatever the servers and the provider answer.
THEOREM Invariance == Spec => []IInv
  BY InitInvariant, InvariantStep, PTL DEF Spec

\* Every variable keeps the type that AgentRun gives it.
THEOREM TypeCorrect == Spec => []TypeOK
  <1>1. IInv => TypeOK
    BY DEF IInv
  <1>2. QED
    BY <1>1, Invariance, PTL

\* The audit of a run that returns has an entry for every two performances of an
\* operation, although calls are lost, and one that fails over HTTP is sent again
\* over the older protocol.
THEOREM TraceCoversWork == Spec => []WorkRecorded
  <1>1. IInv => WorkRecorded
    <2> SUFFICES ASSUME IInv, phase # "running", NEW o \in Operations
                 PROVE  performed[o] <= 2 * Recorded(o)
      BY DEF WorkRecorded
    <2>1. stage = "none"
      BY DEF IInv, ControlInv
    <2>2. performed[o] \in Nat /\ trace[o].ok \in Nat /\ trace[o].error \in Nat
      BY DEF IInv, TypeOK
    <2>3. QED
      BY <2>1, <2>2 DEF IInv, PerformedInv, Recorded, Repeating
  <1>2. QED
    BY <1>1, Invariance, PTL

\* However often the task is run again and the lists of the servers change, no
\* operation is performed that needed an approval and had none.
THEOREM ApprovalRequired == Spec => []NothingUnapproved
  <1>1. IInv => NothingUnapproved
    BY DEF IInv, ApprovalInv
  <1>2. QED
    BY <1>1, Invariance, PTL

\* Every turn of Gemini is followed by one reply for each of its calls, for any
\* budget and any length of the turn.
THEOREM RepliesComplete == Spec => []RepliesMatchCalls
  <1>1. IInv => RepliesMatchCalls
    BY DEF IInv, ControlInv, ReplyInv, RepliesMatchCalls
  <1>2. QED
    BY <1>1, Invariance, PTL

-----------------------------------------------------------------------------
(* AgentRun implements ToolRun.                                            *)

\* No turn executes more calls than the budget, nor a run more turns than its limit.
CallsInv ==
  /\ stage = "discover" => step = 0
  /\ stage \notin {"none", "discover"} => step \in 1..request.limit
  /\ stage = "provider" => Executed <= (step - 1) * ToolBudget
  /\ stage \in Calling \cup {"calls"} =>
       /\ Executed <= (step - 1) * ToolBudget + turn.done
       /\ Executed <= step * ToolBudget
  /\ stage \in Calling => turn.done < ToolBudget

\* A step that leaves the trace and the registry alone leaves the counts alone.
LEMMA CountsKept ==
  ASSUME UNCHANGED <<trace, registry>>
  PROVE  UNCHANGED <<Executed, Failures, Successes>>
  BY DEF Executed, Failures, Successes, Recorded, SourceOf, Described

\* The number of calls executed is a natural number.
LEMMA ExecutedType ==
  ASSUME TypeOK
  PROVE  Executed \in Nat
  <1> DEFINE ex == [p \in Operations |-> Recorded(p)]
  <1>1. ex \in [Operations -> Nat]
    BY DEF TypeOK, Recorded
  <1>2. CASE Operations = {}
    <2>1. ex = [p \in Operations |-> 0]
      BY <1>2
    <2>2. QED
      BY <2>1, SumOfZeros, OperationsAssumption DEF Executed
  <1>3. CASE Operations # {}
    <2>1. PICK o : o \in Operations
      BY <1>3
    <2> HIDE DEF ex
    <2>2. SumFunction(ex) \in Nat
      BY <1>1, <2>1, SumGrows, OperationsAssumption
    <2>3. QED
      BY <2>2 DEF Executed, ex
  <1>4. QED
    BY <1>2, <1>3

\* The greatest of the limits is one of them.
LEMMA GreatestLimit ==
  ASSUME NEW limit \in StepLimits
  PROVE  Max(StepLimits) \in 1..6 /\ limit <= Max(StepLimits)
  <1> DEFINE Greatest(m) == m \in StepLimits /\ \A n \in StepLimits : n <= m
  <1>1. \E m : Greatest(m)
    <2>1. \A n \in StepLimits : n \in {1, 2, 3, 4, 5, 6}
      BY StepsAssumption
    <2>2. QED
      BY <2>1
  <1>2. Greatest(Max(StepLimits))
    BY <1>1, StepsAssumption DEF Max
  <1>3. QED
    BY <1>2, StepsAssumption

\* A step that counts a call, when it was within the budget.
LEMMA WithinBudget ==
  ASSUME NEW e \in Nat, NEW n \in Nat \ {0}, NEW limit \in StepLimits, n <= limit,
         e <= (n - 1) * ToolBudget + turn.done, turn.done \in Nat, turn.done < ToolBudget
  PROVE  e + 1 <= n * ToolBudget /\ e < Max(StepLimits) * ToolBudget
  <1>1. ToolBudget \in Nat
    BY BudgetAssumption
  <1>2. (n - 1) * ToolBudget + ToolBudget = n * ToolBudget
    BY <1>1
  <1>3. (n - 1) * ToolBudget \in Nat /\ n * ToolBudget \in Nat
    BY <1>1
  <1>4. e + 1 <= n * ToolBudget
    BY <1>1, <1>2, <1>3
  <1>5. Max(StepLimits) \in Nat /\ n <= Max(StepLimits)
    BY GreatestLimit, StepsAssumption
  <1>6. n * ToolBudget <= Max(StepLimits) * ToolBudget
    BY <1>1, <1>5
  <1>7. Max(StepLimits) * ToolBudget \in Nat
    BY <1>1, <1>5
  <1>8. QED
    BY <1>3, <1>4, <1>6, <1>7

\* Every run is within its calls when it begins.
LEMMA CallsInit == Init => CallsInv
  BY DEF Init, CallsInv, Calling

Counts == <<phase, Successes, Failures, Executed>>

\* A new run starts with nothing counted.
LEMMA BeginImplements ==
  ASSUME IInv, phase # "running", NEW r, Begin(r)
  PROVE  CallsInv' /\ Abstract!Start
  <1>1. trace' = [o \in Operations |-> NoEntries]
    BY DEF Begin
  <1>2. Executed' = 0 /\ Failures' = 0 /\ Successes' = [s \in Sources |-> 0]
    BY <1>1, NoEntriesCountNext
  <1>3. CallsInv'
    BY DEF Begin, CallsInv, Calling
  <1>4. QED
    BY <1>2, <1>3 DEF Begin, Abstract!Start

\* Nothing is recorded while the tools are discovered.
LEMMA DiscoverImplements ==
  ASSUME IInv, CallsInv, Discover
  PROVE  CallsInv' /\ UNCHANGED Counts
  <1>1. trace = [o \in Operations |-> NoEntries] /\ trace' = trace
    BY DEF IInv, ControlInv, Discover
  <1>2. Executed = 0 /\ Failures = 0 /\ Successes = [s \in Sources |-> 0]
    BY <1>1, NoEntriesCount
  <1>3. Executed' = 0 /\ Failures' = 0 /\ Successes' = [s \in Sources |-> 0]
    BY <1>1, NoEntriesCountNext
  <1>4. CallsInv'
    BY DEF CallsInv, Discover, Calling
  <1>5. QED
    BY <1>2, <1>3, <1>4 DEF Counts, Discover

\* A run that ends keeps what it counted.
LEMMA EndImplements ==
  ASSUME phase = "running", phase' \in {"answered", "waiting", "failed"}, stage' = "none",
         UNCHANGED <<trace, registry>>
  PROVE  CallsInv' /\ Abstract!End
  <1>1. CallsInv'
    BY DEF CallsInv, Calling
  <1>2. QED
    BY <1>1, CountsKept DEF Abstract!End, Abstract!Ended

\* A turn starts, or its calls arrive.
LEMMA TurnImplements ==
  ASSUME IInv, CallsInv, StartTurn \/ ProviderCalls
  PROVE  CallsInv' /\ UNCHANGED Counts
  <1>0. UNCHANGED <<phase, trace, registry, request>> /\ phase = "running" /\ step \in Nat
    BY DEF IInv, TypeOK, ControlInv, StartTurn, ProviderCalls, runVars
  <1>1. UNCHANGED Counts /\ Executed' = Executed /\ Executed \in Nat
    BY <1>0, CountsKept, ExecutedType DEF Counts, IInv
  <1>2. ToolBudget \in Nat /\ (step - 1) * ToolBudget + ToolBudget = step * ToolBudget
    BY <1>0, BudgetAssumption
  <1>3. CASE StartTurn /\ stage = "discover"
    <2>1. request.limit \in StepLimits /\ request.limit \in 1..6
      BY <1>0, StepsAssumption DEF IInv, ControlInv, Requests
    <2>2. step' = 1 /\ stage' = "provider"
      BY <1>3 DEF CallsInv, StartTurn
    <2>3. Executed = 0
      BY <1>3, NoEntriesCount DEF IInv, ControlInv
    <2>4. (step' - 1) * ToolBudget = 0
      BY <1>2, <2>2
    <2>5. QED
      BY <1>0, <1>1, <2>1, <2>2, <2>3, <2>4 DEF CallsInv, Calling
  <1>4. CASE StartTurn /\ stage = "calls"
    <2>1. step' = step + 1 /\ stage' = "provider" /\ step < request.limit /\ step \in 1..request.limit
      BY <1>4 DEF CallsInv, StartTurn
    <2>2. Executed <= step * ToolBudget
      BY <1>4 DEF CallsInv
    <2>3. step' - 1 = step
      BY <1>0, <2>1
    <2>4. request.limit \in Nat
      <3>1. request.limit \in StepLimits
        BY <1>0 DEF IInv, ControlInv, Requests
      <3>2. StepLimits \subseteq Nat
        BY StepsAssumption
      <3>3. QED
        BY <3>1, <3>2
    <2>5. QED
      BY <1>0, <1>1, <2>1, <2>2, <2>3, <2>4 DEF CallsInv, Calling
  <1>5. CASE ProviderCalls
    <2>1. /\ stage' = "calls" /\ step' = step /\ turn'.done = 0
          /\ stage = "provider"
      BY <1>5 DEF ProviderCalls, runVars
    <2>2. Executed <= (step - 1) * ToolBudget /\ step \in 1..request.limit
      BY <2>1 DEF CallsInv
    <2>3. Executed <= step * ToolBudget
      <3>1. (step - 1) * ToolBudget \in Int /\ step * ToolBudget \in Int
        BY <1>0, <1>2
      <3>2. QED
        BY <1>1, <1>2, <2>2, <3>1
    <2>4. (step - 1) * ToolBudget + 0 = (step - 1) * ToolBudget
      BY <1>0, <1>2
    <2>5. QED
      BY <1>0, <1>1, <2>1, <2>2, <2>3, <2>4 DEF CallsInv, Calling
  <1>6. QED
    BY <1>1, <1>3, <1>4, <1>5 DEF StartTurn

\* A call goes to a server, or on to the next message of the older protocol.
LEMMA CallImplements ==
  ASSUME CallsInv, UNCHANGED <<phase, trace, turn, runVars>>,
         stage \in Calling \cup {"calls"}, stage' \in Calling,
         turn.done < ToolBudget
  PROVE  CallsInv' /\ UNCHANGED Counts
  <1>1. UNCHANGED Counts /\ UNCHANGED <<Executed, turn, step, request>>
    BY CountsKept DEF Counts, runVars
  <1>2. QED
    BY <1>1 DEF CallsInv, Calling

\* A call is dealt with: it succeeds or fails within the budget, or is refused.
LEMMA EntryImplements ==
  ASSUME IInv, CallsInv, phase = "running", phase' = phase, registry' = registry,
         request' = request, step' = step,
         NEW o \in Operations, NEW status \in {"ok", "error", "refused"},
         trace' = [trace EXCEPT ![o][status] = @ + 1],
         turn'.done = turn.done + 1, stage \in Calling \cup {"calls"}, stage' = "calls",
         status # "refused" => turn.done < ToolBudget
  PROVE  CallsInv' /\ Abstract!Next
  <1>1. /\ Executed \in Nat
        /\ Executed' = IF status = "refused" THEN Executed ELSE Executed + 1
        /\ Failures' = IF status = "ok" THEN Failures ELSE Failures + 1
        /\ status # "ok" => Successes' = Successes
        /\ status = "ok" => \E s \in Sources : Successes' = [Successes EXCEPT ![s] = @ + 1]
    BY EntryCounts DEF IInv
  <1>2. /\ request.limit \in StepLimits /\ request.limit \in Nat
        /\ step \in Nat \ {0} /\ step <= request.limit /\ turn.done \in Nat
    <2>1. request.limit \in StepLimits /\ request.limit \in Nat /\ turn.done \in Nat
      <3>1. request.limit \in StepLimits
        BY DEF IInv, ControlInv, Requests
      <3>2. turn.done \in 0..TurnLength
        BY DEF IInv, TypeOK
      <3>3. QED
        BY <3>1, <3>2, StepsAssumption
    <2>2. step \in 1..request.limit
      BY DEF CallsInv, Calling
    <2>3. QED
      BY <2>1, <2>2
  <1>3. /\ Executed <= (step - 1) * ToolBudget + turn.done
        /\ Executed <= step * ToolBudget
    BY DEF CallsInv
  <1>4. status # "refused" =>
          Executed + 1 <= step * ToolBudget /\ Executed < Max(StepLimits) * ToolBudget
    BY <1>1, <1>2, <1>3, WithinBudget
  <1>5. CallsInv'
    <2>1. (step - 1) * ToolBudget \in Int /\ step * ToolBudget \in Int
      BY <1>2, BudgetAssumption
    <2>2. Executed' <= (step - 1) * ToolBudget + (turn.done + 1) /\ Executed' <= step * ToolBudget
      BY <1>1, <1>2, <1>3, <1>4, <2>1
    <2>3. QED
      BY <1>2, <2>2 DEF CallsInv, Calling
  <1>6. CASE status = "ok"
    <2>1. PICK s \in Sources : Successes' = [Successes EXCEPT ![s] = @ + 1]
      BY <1>1, <1>6
    <2>2. Abstract!Succeed(s)
      BY <1>1, <1>4, <1>6, <2>1 DEF Abstract!Succeed
    <2>3. QED
      BY <1>5, <2>2 DEF Abstract!Next
  <1>7. CASE status # "ok"
    <2>1. Abstract!FailCall
      BY <1>1, <1>4, <1>7 DEF Abstract!FailCall
    <2>2. QED
      BY <1>5, <2>1 DEF Abstract!Next
  <1>8. QED
    BY <1>5, <1>6, <1>7

\* A call is refused, recorded at once, sent to a server or left to the user.
LEMMA NextCallImplements ==
  ASSUME IInv, CallsInv, NextCall
  PROVE  CallsInv' /\ [Abstract!Next]_Counts
  <1>1. phase = "running" /\ stage = "calls" /\ turn \in Turns
    BY DEF IInv, TypeOK, ControlInv, NextCall, Turns
  <1>2. PICK o \in Operations :
          IF turn.done >= ToolBudget THEN Refuse(o)
          ELSE \/ Local(o, Registered(o.tool)) \/ Remote(o, Registered(o.tool))
               \/ AwaitApproval(o, Registered(o.tool))
    BY DEF NextCall
  <1>3. turn.done \in Nat /\ ToolBudget \in Nat
    BY <1>1, BudgetAssumption DEF Turns
  <1>4. CASE Refuse(o)
    <2>1. turn'.done = turn.done + 1
      BY <1>1, <1>4 DEF Refuse, Turns
    <2>2. QED
      BY <1>1, <1>4, <2>1, EntryImplements DEF Refuse, runVars
  <1>5. ASSUME NEW status \in {"ok", "error"}, Record(o, status), turn.done < ToolBudget
        PROVE  CallsInv' /\ Abstract!Next
    <2>1. turn'.done = turn.done + 1
      BY <1>1, <1>5 DEF Record, Turns
    <2>2. QED
      BY <1>1, <1>5, <2>1, EntryImplements DEF Record, runVars
  <1>6. CASE Remote(o, Registered(o.tool)) /\ turn.done < ToolBudget
    BY <1>1, <1>6, CallImplements DEF Remote, Calling
  <1>7. CASE AwaitApproval(o, Registered(o.tool))
    BY <1>1, <1>7, EndImplements DEF AwaitApproval, End, Abstract!Next
  <1>8. QED
    BY <1>2, <1>3, <1>4, <1>5, <1>6, <1>7 DEF Local

\* The answer of the server, by either protocol, or the next message to it.
LEMMA ServerImplements ==
  ASSUME IInv, CallsInv, CurrentProtocol \/ OpenSession \/ LegacyProtocol
  PROVE  CallsInv' /\ [Abstract!Next]_Counts
  <1>1. /\ phase = "running" /\ stage \in Calling /\ turn \in Turns /\ call \in Operations
        /\ turn.done < ToolBudget
    BY DEF IInv, TypeOK, ControlInv, CallsInv, CurrentProtocol, OpenSession, LegacyProtocol,
           Turns, Calling
  <1>2. ASSUME NEW status \in {"ok", "error"}, Record(call, status)
        PROVE  CallsInv' /\ Abstract!Next
    <2>1. turn'.done = turn.done + 1
      BY <1>1, <1>2 DEF Record, Turns
    <2>2. QED
      BY <1>1, <1>2, <2>1, EntryImplements DEF Record, runVars
  <1>3. CASE stage' \in {"session", "legacy"} /\ UNCHANGED <<phase, turn, call, trace, runVars>>
    BY <1>1, <1>3, CallImplements DEF Calling
  <1>4. QED
    BY <1>2, <1>3 DEF CurrentProtocol, OpenSession, LegacyProtocol, CallLost, Answered

\* Every step of a run is one of ToolRun, or one that its callers do not see.
LEMMA ImplementationStep ==
  ASSUME IInv, CallsInv, [Next]_vars
  PROVE  CallsInv' /\ [Abstract!Next]_Counts
  <1>1. CASE Submit
    <2>1. PICK r : Begin(r)
      BY <1>1 DEF Submit
    <2>2. QED
      BY <1>1, <2>1, BeginImplements DEF Submit, Abstract!Next
  <1>2. CASE Confirm
    <2>1. PICK r : Begin(r)
      BY <1>2 DEF Confirm
    <2>2. QED
      BY <1>2, <2>1, BeginImplements DEF Confirm, Abstract!Next
  <1>3. CASE DiscoveryFails \/ StepLimit \/ ProviderEnds
    <2>1. phase = "running"
      BY <1>3 DEF IInv, ControlInv, DiscoveryFails, StepLimit, ProviderEnds
    <2>2. /\ phase' \in {"answered", "waiting", "failed"} /\ stage' = "none"
          /\ UNCHANGED <<trace, registry>>
      BY <1>3 DEF DiscoveryFails, StepLimit, ProviderEnds, End
    <2>3. QED
      BY <2>1, <2>2, EndImplements DEF Abstract!Next
  <1>4. CASE Discover
    BY <1>4, DiscoverImplements
  <1>5. CASE StartTurn \/ ProviderCalls
    BY <1>5, TurnImplements
  <1>6. CASE NextCall
    BY <1>6, NextCallImplements
  <1>7. CASE CurrentProtocol \/ OpenSession \/ LegacyProtocol
    BY <1>7, ServerImplements
  <1>8. CASE UNCHANGED vars
    <2>1. UNCHANGED <<phase, stage, step, request, turn, trace, registry>>
      BY <1>8 DEF vars
    <2>2. UNCHANGED Counts /\ UNCHANGED Executed
      BY <2>1, CountsKept DEF Counts
    <2>3. QED
      BY <2>1, <2>2 DEF CallsInv
  <1>9. QED
    BY <1>1, <1>2, <1>3, <1>4, <1>5, <1>6, <1>7, <1>8 DEF Next, RunStep

\* Between its start and its end a run adds entries to its trace and nothing else its
\* callers see, it executes no more calls than its steps and the budget allow, and what
\* has ended stays as it is until the next one, for any operations and any answers.
THEOREM Implementation == Spec => RunImplementsToolRun
  <1>1. Init => Abstract!Init
    BY NoEntriesCount DEF Init, Abstract!Init
  <1>2. IInv /\ CallsInv /\ [Next]_vars => CallsInv' /\ [Abstract!Next]_Counts
    BY ImplementationStep
  <1>3. Counts = Abstract!vars
    BY DEF Counts, Abstract!vars
  <1>4. QED
    BY <1>1, <1>2, <1>3, CallsInit, Invariance, PTL DEF Spec, RunImplementsToolRun, Abstract!Spec, Abstract!vars, Counts

=============================================================================
