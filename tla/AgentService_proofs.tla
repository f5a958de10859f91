--------------------------- MODULE AgentService_proofs ---------------------------
(***************************************************************************)
(* Proofs about AgentService for any jobs, server processes, services and  *)
(* older ledger, however the runs of the agents end and whichever          *)
(* processes stop.                                                         *)
(***************************************************************************)
EXTENDS AgentService, TLAPS

JobRecords ==
  [stage : Stages, service : Services, process : Processes, key : Keys \cup {NoKey},
   verdict : Verdicts, control : States]
KeyOrNone == Keys \cup {NoKey}
Phases == {"idle", "running", "answered", "waiting", "failed"}
Runs == [phase : Phases, ok : [Sources -> 0..MaxCalls], failed : 0..MaxCalls]

-----------------------------------------------------------------------------
(* The inductive invariant.                                                *)

\* Everyone, of a job's record.
Crew(b) == RolesOf(b.service) \cup (IF b.service.team THEN {"synthesis"} ELSE {})

\* What VerdictsEarned says of one job, with what keeps it so: no run of a judged
\* job is still under way, and one that waits never goes on to the signature.
Earned(b, u) ==
  /\ \A r \in Roles : u[r].phase # "running"
  /\ (\E r \in Roles : u[r].phase = "waiting") => b.stage = "waiting"
  /\ b.verdict = "fulfilled" =>
       /\ \A r \in Crew(b) : u[r].phase = "answered" /\ u[r].failed = 0
       /\ \E r \in Crew(b), p \in b.service.sources : u[r].ok[p] > 0
  /\ b.verdict = "fulfilled" <=> b.control = "completed"
  /\ b.verdict = "blocked" <=> b.control = "waiting-approval"

\* The runs of a job are those of its service, the reconciling one after the
\* others; the stages between the judgement and the answer have a verdict, those
\* after the signature a key.
Orderly(b, u) ==
  /\ \A r \in Roles \ Crew(b) : u[r].phase = "idle"
  /\ u["synthesis"].phase # "idle" => \A r \in RolesOf(b.service) : u[r].phase = "answered"
  /\ b.verdict = "none" => b.key = NoKey /\ b.stage \in {"roles", "error", "lost"}
  /\ b.stage = "roles" => b.verdict = "none"
  /\ b.stage \in {"waiting", "sign", "keygen"} => b.key = NoKey
  /\ b.stage \in {"store", "migrate", "answered"} => b.key # NoKey

JobInv(b, u) ==
  /\ b = NoJob => \A r \in Roles : u[r].phase = "idle"
  /\ b # NoJob => Orderly(b, u)
  /\ b # NoJob /\ b.verdict # "none" => Earned(b, u)

\* Only signed jobs are in the store, and all that were answered.
StoreInv ==
  /\ \A j \in Jobs : At(j, "answered") => j \in shelf
  /\ \A j \in shelf \cap Jobs : job[j] # NoJob /\ job[j].key # NoKey
  /\ migrated => Legacy \subseteq shelf

\* Whoever is about to replace an identity file replaces one that was made while it
\* was looking for a file.
IdentityInv ==
  /\ IdentitySplitOnlyByRace
  /\ identity # NoKey /\ (\E j \in Jobs : At(j, "keygen")) => identity.job \in raced

IInv ==
  /\ ServiceTypeOK
  /\ \A j \in Jobs : JobInv(job[j], run[j])
  /\ StoreInv
  /\ IdentityInv

-----------------------------------------------------------------------------
(* Records and roles.                                                      *)

\* The fields of the record of a job.
LEMMA RecordFacts ==
  ASSUME NEW b \in JobRecords
  PROVE  /\ b # NoJob /\ b.stage \in Stages /\ b.service \in Services /\ b.process \in Processes
         /\ b.key \in Keys \cup {NoKey} /\ b.verdict \in Verdicts /\ b.control \in States
  BY DEF JobRecords, NoJob, Stages

\* The roles of the services; the reconciling one is none of the specialists.
LEMMA RoleFacts ==
  /\ "synthesis" \in Roles
  /\ \A s \in Services : RolesOf(s) \subseteq Roles /\ "synthesis" \notin RolesOf(s) /\ s.sources # {}
  <1>1. "synthesis" \in Roles
    BY DEF Roles
  <1>s. \A s \in Services : RolesOf(s) \subseteq Roles
    <2> SUFFICES ASSUME NEW s \in Services PROVE RolesOf(s) \subseteq UNION {RolesOf(t) : t \in Services}
      BY DEF Roles
    <2>1. QED
      OBVIOUS
  <1>2. \A s \in Services : "synthesis" \notin RolesOf(s) /\ s.sources # {}
    BY ServicesAssumption
  <1>3. QED
    BY <1>1, <1>s, <1>2

\* A key that was made is not the absence of one.
LEMMA KeyFacts == \A k \in Keys : k # NoKey /\ k.job \in Jobs
  BY JobsAssumption DEF Keys, NoKey

\* The types, in the names of this module.
LEMMA TypeFacts ==
  ServiceTypeOK <=>
    /\ job \in [Jobs -> {NoJob} \cup JobRecords] /\ run \in [Jobs -> [Roles -> Runs]]
    /\ identity \in Keys \cup {NoKey}
    /\ shelf \subseteq Jobs \cup Legacy /\ migrated \in BOOLEAN
    /\ crashes \in 0..MaxCrashes /\ raced \subseteq Jobs
  BY DEF ServiceTypeOK, JobRecords, Runs, Phases

\* Before the first job there is neither run nor key nor receipt.
LEMMA InitInvariant == Init => IInv
  <1> SUFFICES ASSUME Init PROVE IInv
    OBVIOUS
  <1>1. ServiceTypeOK
    <2>1. NoRun \in Runs
      BY BoundsAssumption DEF NoRun, Runs, Phases
    <2>2. QED
      <3>1. job \in [Jobs -> {NoJob} \cup JobRecords]
        BY DEF Init
      <3>2. run \in [Jobs -> [Roles -> Runs]]
        BY <2>1 DEF Init
      <3>3. crashes \in 0..MaxCrashes
        BY BoundsAssumption DEF Init
      <3>4. identity \in Keys \cup {NoKey} /\ shelf = {} /\ raced = {} /\ migrated \in BOOLEAN
        BY DEF Init
      <3>5. QED
        BY <3>1, <3>2, <3>3, <3>4, TypeFacts
  <1>2. \A j \in Jobs : JobInv(job[j], run[j])
    BY DEF Init, JobInv, NoRun
  <1>3. StoreInv /\ IdentityInv
    BY DEF Init, StoreInv, IdentityInv, IdentitySplitOnlyByRace, At, NoJob
  <1>4. QED
    BY <1>1, <1>2, <1>3 DEF IInv

-----------------------------------------------------------------------------
(* One job takes a step.                                                   *)

\* A step of one job that only moves it, and neither enters nor leaves the stages at
\* which the store and the identity count it, keeps the invariant if it fits its runs.
LEMMA JobMoves ==
  ASSUME IInv, NEW j \in Jobs, NEW b \in JobRecords, NEW u \in [Roles -> Runs],
         job' = [job EXCEPT ![j] = b], run' = [run EXCEPT ![j] = u],
         JobInv(b, u),
         b.stage \in {"answered", "keygen"} => job[j] # NoJob /\ b.stage = job[j].stage,
         IF job[j] = NoJob THEN b.key = NoKey /\ j \notin shelf ELSE b.key = job[j].key,
         UNCHANGED durable
  PROVE  IInv'
  <1>1. /\ job' \in [Jobs -> {NoJob} \cup JobRecords] /\ run' \in [Jobs -> [Roles -> Runs]]
        /\ job'[j] = b /\ run'[j] = u
        /\ \A k \in Jobs \ {j} : job'[k] = job[k] /\ run'[k] = run[k]
        /\ job[j] \in {NoJob} \cup JobRecords
        /\ UNCHANGED <<identity, shelf, migrated, crashes, raced>>
    BY TypeFacts DEF IInv, durable
  <1>2. ServiceTypeOK'
    BY <1>1, TypeFacts DEF IInv, ServiceTypeOK, JobRecords, Runs, Phases
  <1>3. \A k \in Jobs : JobInv(job'[k], run'[k])
    BY <1>1 DEF IInv
  <1>4. StoreInv'
    BY <1>1, RecordFacts DEF IInv, StoreInv, At
  <1>5. IdentityInv'
    <2>1. IdentitySplitOnlyByRace'
      BY <1>1, RecordFacts DEF IInv, IdentityInv, IdentitySplitOnlyByRace
    <2>2. \A k \in Jobs : At(k, "keygen")' => At(k, "keygen")
      BY <1>1 DEF At
    <2>3. QED
      BY <1>1, <2>1, <2>2 DEF IInv, IdentityInv
  <1>6. QED
    BY <1>2, <1>3, <1>4, <1>5 DEF IInv

\* The request: the agreement does not fit, or all roles start.
LEMMA RequestStep ==
  ASSUME IInv, NEW j \in Jobs, Request(j)
  PROVE  IInv'
  <1>1. job \in [Jobs -> {NoJob} \cup JobRecords] /\ run \in [Jobs -> [Roles -> Runs]]
    BY TypeFacts DEF IInv
  <1>2. PICK p \in Processes, s \in Wanted[j] :
          \/ /\ job' = [job EXCEPT ![j] = Accepted(s, p)]
             /\ run' = [run EXCEPT ![j] =
                  [r \in Roles |-> IF r \in RolesOf(s) THEN [NoRun EXCEPT !.phase = "running"] ELSE NoRun]]
          \/ /\ job' = [job EXCEPT ![j] = [Accepted(s, p) EXCEPT !.stage = "error"]]
             /\ UNCHANGED run
    BY DEF Request
  <1>3. job[j] = NoJob /\ UNCHANGED durable /\ j \notin shelf
    BY DEF IInv, StoreInv, Request
  <1>4. s \in Services /\ RolesOf(s) \subseteq Roles /\ "synthesis" \notin RolesOf(s)
    BY WantedAssumption, RoleFacts
  <1>5. CASE /\ job' = [job EXCEPT ![j] = Accepted(s, p)]
             /\ run' = [run EXCEPT ![j] =
                  [r \in Roles |-> IF r \in RolesOf(s) THEN [NoRun EXCEPT !.phase = "running"] ELSE NoRun]]
    <2>p. DEFINE b == Accepted(s, p)
                 u == [r \in Roles |->
                         IF r \in RolesOf(s) THEN [NoRun EXCEPT !.phase = "running"] ELSE NoRun]
    <2>1. b \in JobRecords /\ b.service = s /\ b.stage = "roles" /\ b.verdict = "none" /\ b.key = NoKey
      BY <1>4 DEF Accepted, JobRecords, Stages, Verdicts, States
    <2>2. u \in [Roles -> Runs]
      BY BoundsAssumption DEF NoRun, Runs, Phases
    <2>3. \A r \in Roles : u[r].phase = IF r \in RolesOf(s) THEN "running" ELSE "idle"
      BY DEF NoRun
    <2>4. JobInv(b, u)
      BY <1>4, <2>1, <2>3, RoleFacts, RecordFacts DEF JobInv, Orderly, Crew
    <2>5. QED
      BY <1>3, <1>5, <2>1, <2>2, <2>4, JobMoves
  <1>6. CASE job' = [job EXCEPT ![j] = [Accepted(s, p) EXCEPT !.stage = "error"]] /\ UNCHANGED run
    <2>p. DEFINE b == [Accepted(s, p) EXCEPT !.stage = "error"]
    <2>1. b \in JobRecords /\ b.service = s /\ b.stage = "error" /\ b.verdict = "none" /\ b.key = NoKey
      BY <1>4 DEF Accepted, JobRecords, Stages, Verdicts, States
    <2>2. run[j] \in [Roles -> Runs] /\ run' = [run EXCEPT ![j] = run[j]]
      BY <1>1, <1>6
    <2>3. JobInv(b, run[j])
      BY <1>3, <1>4, <2>1, RoleFacts DEF IInv, JobInv, Orderly, Crew
    <2>4. QED
      BY <1>3, <1>6, <2>1, <2>2, <2>3, JobMoves
  <1>7. QED
    BY <1>2, <1>5, <1>6

\* A run ends.  Its job is not judged yet, and if its specialists are done the run is
\* that of the role that reconciles them.
LEMMA RoleEndsStep ==
  ASSUME IInv, NEW j \in Jobs, NEW r \in Roles, RoleEnds(j, r)
  PROVE  IInv'
  <1>1. job \in [Jobs -> {NoJob} \cup JobRecords] /\ run \in [Jobs -> [Roles -> Runs]]
    BY TypeFacts DEF IInv
  <1>2. run[j][r].phase = "running" /\ UNCHANGED <<job, durable>>
    BY DEF RoleEnds
  <1>3. PICK e \in Runs : run' = [run EXCEPT ![j][r] = e] /\ e.phase \in {"answered", "waiting", "failed"}
    <2>1. CASE run' = [run EXCEPT ![j][r].phase = "failed"]
      <3>0. run[j][r] \in Runs
        BY <1>1
      <3>1. [run[j][r] EXCEPT !.phase = "failed"] \in Runs
        BY <3>0 DEF Runs, Phases
      <3>2. run' = [run EXCEPT ![j][r] = [run[j][r] EXCEPT !.phase = "failed"]]
        BY <2>1
      <3>3. [run[j][r] EXCEPT !.phase = "failed"].phase = "failed"
        BY <1>1 DEF Runs
      <3>4. QED
        BY <3>1, <3>2, <3>3
    <2>2. CASE \E how \in {"answered"} \cup (IF MayWait(job[j].service, r) THEN {"waiting"} ELSE {}),
                  record \in Records(job[j].service, r) :
                  run' = [run EXCEPT ![j][r] = [phase |-> how, ok |-> record.ok, failed |-> record.failed]]
      <3>1. PICK how \in {"answered", "waiting"}, record \in Records(job[j].service, r) :
              run' = [run EXCEPT ![j][r] = [phase |-> how, ok |-> record.ok, failed |-> record.failed]]
        BY <2>2
      <3>2. record.ok \in [Sources -> 0..MaxCalls] /\ record.failed \in 0..MaxCalls
        BY DEF Records
      <3>3. [phase |-> how, ok |-> record.ok, failed |-> record.failed] \in Runs
        BY <3>2 DEF Runs, Phases
      <3>4. QED
        BY <3>1, <3>3
    <2>3. QED
      BY <2>1, <2>2 DEF RoleEnds
  <1>4. /\ job[j] \in JobRecords /\ job[j].verdict = "none" /\ Orderly(job[j], run[j])
    BY <1>1, <1>2, RecordFacts DEF IInv, JobInv, Earned
  <1>p. DEFINE u == [run[j] EXCEPT ![r] = e]
  <1>5. /\ u \in [Roles -> Runs] /\ run' = [run EXCEPT ![j] = u] /\ job' = [job EXCEPT ![j] = job[j]]
        /\ u[r].phase \in {"answered", "waiting", "failed"} /\ \A q \in Roles \ {r} : u[q] = run[j][q]
    BY <1>1, <1>2, <1>3
  <1>6. JobInv(job[j], u)
    <2>1. RolesOf(job[j].service) \subseteq Roles /\ "synthesis" \in Roles /\ "synthesis" \notin RolesOf(job[j].service)
      BY <1>4, RecordFacts, RoleFacts
    <2>2. Orderly(job[j], u)
      BY <1>2, <1>4, <1>5, <2>1 DEF Orderly, Crew
    <2>3. QED
      BY <1>4, <2>2, RecordFacts DEF JobInv
  <1>7. QED
    BY <1>2, <1>4, <1>5, <1>6, JobMoves, RecordFacts

-----------------------------------------------------------------------------
(* The stages of a job.                                                    *)

\* One run has failed, or signing, or the store: the caller gets an error.
LEMMA FailureStep ==
  ASSUME IInv, NEW j \in Jobs, JobFails(j) \/ SigningFails(j) \/ StoreFails(j)
  PROVE  IInv'
  <1>1. job \in [Jobs -> {NoJob} \cup JobRecords] /\ run \in [Jobs -> [Roles -> Runs]]
    BY TypeFacts DEF IInv
  <1>2. /\ job[j].stage \in {"roles", "sign", "keygen", "store"} /\ UNCHANGED <<run, durable>>
        /\ job' = [job EXCEPT ![j].stage = "error"]
    BY DEF JobFails, SigningFails, StoreFails, At, Goto
  <1>3. job[j] \in JobRecords
    BY <1>1, <1>2 DEF NoJob
  <1>p. DEFINE b == [job[j] EXCEPT !.stage = "error"]
  <1>4. /\ b \in JobRecords /\ b.stage = "error" /\ b.service = job[j].service /\ b.key = job[j].key
        /\ b.verdict = job[j].verdict /\ b.control = job[j].control
    BY <1>3 DEF JobRecords, Stages
  <1>5. JobInv(b, run[j])
    BY <1>2, <1>3, <1>4, RecordFacts DEF IInv, JobInv, Orderly, Earned, Crew
  <1>6. job' = [job EXCEPT ![j] = b] /\ run' = [run EXCEPT ![j] = run[j]] /\ run[j] \in [Roles -> Runs]
    BY <1>1, <1>2
  <1>7. QED
    BY <1>2, <1>3, <1>4, <1>5, <1>6, JobMoves, RecordFacts

\* The reports are reconciled once all specialists answered.
LEMMA SynthesizeStep ==
  ASSUME IInv, NEW j \in Jobs, Synthesize(j)
  PROVE  IInv'
  <1>1. job \in [Jobs -> {NoJob} \cup JobRecords] /\ run \in [Jobs -> [Roles -> Runs]]
    BY TypeFacts DEF IInv
  <1>2. /\ job[j].stage = "roles" /\ RolesDone(j) /\ ~Waits(j) /\ job[j].service.team
        /\ run' = [run EXCEPT ![j]["synthesis"].phase = "running"] /\ UNCHANGED <<job, durable>>
    BY DEF Synthesize, At
  <1>3. job[j] \in JobRecords
    BY <1>1, <1>2 DEF NoJob
  <1>4. RolesOf(job[j].service) \subseteq Roles /\ "synthesis" \in Roles /\ "synthesis" \notin RolesOf(job[j].service)
    BY <1>3, RecordFacts, RoleFacts
  <1>p. DEFINE u == [run[j] EXCEPT !["synthesis"] = [run[j]["synthesis"] EXCEPT !.phase = "running"]]
  <1>5. /\ u \in [Roles -> Runs] /\ run' = [run EXCEPT ![j] = u] /\ job' = [job EXCEPT ![j] = job[j]]
        /\ \A q \in Roles \ {"synthesis"} : u[q] = run[j][q]
    <2>1. [run[j]["synthesis"] EXCEPT !.phase = "running"] \in Runs
      BY <1>1, <1>4 DEF Runs, Phases
    <2>2. QED
      BY <1>1, <1>2, <1>4, <2>1
  <1>6. \A q \in RolesOf(job[j].service) : run[j][q].phase = "answered"
    BY <1>2, <1>4 DEF RolesDone, Waits
  <1>7. JobInv(job[j], u)
    BY <1>2, <1>3, <1>4, <1>5, <1>6, RecordFacts DEF IInv, JobInv, Orderly, Crew
  <1>8. QED
    BY <1>2, <1>3, <1>5, <1>7, JobMoves, RecordFacts

\* The verdict.  A role that waits leaves the reconciling one idle, so none of the
\* runs is under way; without one, the trace is that of everyone.
LEMMA JudgeStep ==
  ASSUME IInv, NEW j \in Jobs, Judge(j)
  PROVE  IInv'
  <1>1. job \in [Jobs -> {NoJob} \cup JobRecords] /\ run \in [Jobs -> [Roles -> Runs]]
    BY TypeFacts DEF IInv
  <1>2. /\ job[j].stage = "roles" /\ RolesDone(j) /\ UNCHANGED <<run, durable>>
        /\ Waits(j) \/ ~job[j].service.team \/ run[j]["synthesis"].phase = "answered"
    BY DEF Judge, At
  <1>3. job[j] \in JobRecords /\ Orderly(job[j], run[j]) /\ job[j].verdict = "none" /\ job[j].key = NoKey
    BY <1>1, <1>2, RecordFacts DEF IInv, JobInv, Orderly, NoJob
  <1>4. /\ RolesOf(job[j].service) \subseteq Roles /\ "synthesis" \in Roles
        /\ "synthesis" \notin RolesOf(job[j].service) /\ job[j].service.sources # {}
    BY <1>3, RecordFacts, RoleFacts
  <1>p. DEFINE b == [job[j] EXCEPT !.verdict = Fulfillment(j), !.control = ControlState(j),
                                   !.stage = IF Waits(j) THEN "waiting" ELSE "sign"]
  <1>5. /\ Fulfillment(j) \in Verdicts \ {"none"} /\ ControlState(j) \in States
        /\ Fulfillment(j) = "blocked" <=> Waits(j)
        /\ ControlState(j) = "waiting-approval" <=> Waits(j)
        /\ Fulfillment(j) = "fulfilled" <=> ControlState(j) = "completed"
        /\ Fulfillment(j) = "fulfilled" => ~Waits(j) /\ Sourced(j) /\ ~SomeFailed(j)
    BY DEF Fulfillment, ControlState, Verdicts, States
  <1>6. /\ b \in JobRecords /\ b.service = job[j].service /\ b.key = NoKey
        /\ b.stage = (IF Waits(j) THEN "waiting" ELSE "sign")
        /\ b.verdict = Fulfillment(j) /\ b.control = ControlState(j)
    BY <1>3, <1>5 DEF JobRecords, Stages
  <1>7. \A r \in Roles : run[j][r].phase # "running"
    <2> SUFFICES ASSUME run[j]["synthesis"].phase = "running" PROVE FALSE
      BY <1>2, <1>3 DEF Orderly, RolesDone, Crew
    <2>1. Waits(j) /\ \A r \in RolesOf(job[j].service) : run[j][r].phase = "answered"
      BY <1>2, <1>3, <1>4 DEF Orderly, Crew
    <2>2. QED
      BY <1>3, <2>1 DEF Orderly, Waits, Crew
  <1>8. Earned(b, run[j])
    <2>1. CASE Fulfillment(j) = "fulfilled"
      <3>1. TraceOf(j) = Crew(b) /\ Crew(b) \subseteq Roles
        BY <1>4, <1>5, <1>6, <2>1 DEF TraceOf, Crew
      <3>2. \A r \in Crew(b) : run[j][r].phase = "answered"
        BY <1>2, <1>4, <1>5, <1>6, <2>1 DEF RolesDone, Waits, Crew
      <3>3. \A r \in Crew(b) : run[j][r].failed = 0
        <4>1. \A r \in Roles : run[j][r].failed \in 0..MaxCalls
          BY <1>1 DEF Runs
        <4>2. QED
          BY <1>5, <2>1, <3>1, <4>1, BoundsAssumption DEF SomeFailed
      <3>4. \E r \in Crew(b), p \in b.service.sources : run[j][r].ok[p] > 0
        BY <1>4, <1>5, <1>6, <2>1, <3>1 DEF Sourced
      <3>5. QED
        BY <1>5, <1>6, <1>7, <2>1, <3>2, <3>3, <3>4 DEF Earned, Waits
    <2>2. CASE Fulfillment(j) # "fulfilled"
      BY <1>5, <1>6, <1>7, <2>2 DEF Earned, Waits
    <2>3. QED
      BY <2>1, <2>2
  <1>9. JobInv(b, run[j])
    BY <1>3, <1>5, <1>6, <1>8, RecordFacts DEF JobInv, Orderly, Crew
  <1>10. job' = [job EXCEPT ![j] = b] /\ run' = [run EXCEPT ![j] = run[j]] /\ run[j] \in [Roles -> Runs]
    BY <1>1, <1>2 DEF Judge
  <1>11. job[j] # NoJob /\ b.key = job[j].key /\ b.stage \notin {"answered", "keygen"}
    BY <1>3, <1>6, RecordFacts
  <1>12. QED
    <2> HIDE DEF b
    <2>1. QED
      BY <1>2, <1>6, <1>9, <1>10, <1>11, JobMoves

-----------------------------------------------------------------------------
(* The identity and the store.                                             *)

\* A judged job that goes on to another stage, with the key it has or one it gets.
LEMMA StageMoves ==
  ASSUME IInv, NEW j \in Jobs, NEW stage \in Stages, NEW key \in KeyOrNone,
         job[j].stage \in {"sign", "keygen", "store", "migrate"},
         stage \in {"keygen", "store", "migrate", "answered", "error"},
         job[j].key \in {NoKey, key},
         stage = "keygen" => key = NoKey,
         stage \in {"store", "migrate", "answered"} => key # NoKey,
         job' = [job EXCEPT ![j].key = key, ![j].stage = stage], UNCHANGED run
  PROVE  /\ job' \in [Jobs -> {NoJob} \cup JobRecords]
         /\ job[j] \in JobRecords /\ job'[j] \in JobRecords
         /\ job'[j].stage = stage /\ job'[j].key = key
         /\ \A k \in Jobs \ {j} : job'[k] = job[k]
         /\ \A k \in Jobs : JobInv(job'[k], run'[k])
  <1>1. job \in [Jobs -> {NoJob} \cup JobRecords] /\ run \in [Jobs -> [Roles -> Runs]]
    BY TypeFacts DEF IInv
  <1>2. job[j] \in JobRecords
    BY <1>1 DEF NoJob
  <1>p. DEFINE b == [job[j] EXCEPT !.key = key, !.stage = stage]
  <1>3. /\ b \in JobRecords /\ b.stage = stage /\ b.key = key /\ b.service = job[j].service
        /\ b.verdict = job[j].verdict /\ b.control = job[j].control
    BY <1>2 DEF JobRecords, KeyOrNone
  <1>4. JobInv(b, run[j])
    BY <1>2, <1>3, RecordFacts DEF IInv, JobInv, Orderly, Earned, Crew
  <1>5. job' = [job EXCEPT ![j] = b]
    BY <1>1
  <1>6. QED
    BY <1>1, <1>2, <1>3, <1>4, <1>5 DEF IInv

\* Another stage with the same key.
LEMMA GotoMoves ==
  ASSUME IInv, NEW j \in Jobs, NEW stage \in Stages,
         job[j].stage \in {"sign", "keygen", "store", "migrate"},
         Goto(j, stage)
  PROVE  /\ job[j].key \in KeyOrNone
         /\ job' = [job EXCEPT ![j].key = job[j].key, ![j].stage = stage]
  <1>1. job \in [Jobs -> {NoJob} \cup JobRecords]
    BY TypeFacts DEF IInv
  <1>2. job[j] \in JobRecords
    BY <1>1 DEF NoJob
  <1>3. [job[j] EXCEPT !.key = job[j].key, !.stage = stage] = [job[j] EXCEPT !.stage = stage]
    BY <1>2 DEF JobRecords
  <1>4. QED
    BY <1>1, <1>2, <1>3, RecordFacts DEF Goto, KeyOrNone

\* The file that is there signs; without one a key is to be made.
LEMMA LoadIdentityStep ==
  ASSUME IInv, NEW j \in Jobs, LoadIdentity(j)
  PROVE  IInv'
  <1>1. /\ job[j].stage = "sign" /\ UNCHANGED <<run, identity, shelf, migrated, crashes, raced>>
        /\ identity \in Keys \cup {NoKey}
        /\ job[j] # NoJob /\ job[j].key = NoKey
    BY TypeFacts DEF IInv, JobInv, Orderly, LoadIdentity, At, durable, NoJob
  <1>2. /\ job' \in [Jobs -> {NoJob} \cup JobRecords] /\ job[j] \in JobRecords /\ job'[j] \in JobRecords
        /\ \A k \in Jobs \ {j} : job'[k] = job[k]
        /\ \A k \in Jobs : JobInv(job'[k], run'[k])
        /\ \/ identity # NoKey /\ job'[j].stage = "store" /\ job'[j].key = identity
           \/ identity = NoKey /\ job'[j].stage = "keygen" /\ job'[j].key = NoKey
    <2>1. CASE identity # NoKey
      <3>1. job' = [job EXCEPT ![j].key = identity, ![j].stage = "store"]
        BY <2>1 DEF LoadIdentity
      <3>2. QED
        BY <1>1, <2>1, <3>1, StageMoves DEF Stages, KeyOrNone
    <2>2. CASE identity = NoKey
      <3>1. job' = [job EXCEPT ![j].key = NoKey, ![j].stage = "keygen"]
        BY <1>1, <2>2, GotoMoves DEF LoadIdentity, Stages
      <3>2. "keygen" \in Stages /\ NoKey \in KeyOrNone /\ UNCHANGED run
        BY <1>1 DEF Stages, KeyOrNone
      <3>3. QED
        BY <1>1, <2>2, <3>1, <3>2, StageMoves
    <2>3. QED
      BY <2>1, <2>2
  <1>3. ServiceTypeOK'
    BY <1>1, <1>2, TypeFacts DEF IInv, ServiceTypeOK, JobRecords, Runs, Phases
  <1>4. StoreInv'
    BY <1>1, <1>2, RecordFacts DEF IInv, StoreInv, At
  <1>5. IdentityInv'
    BY <1>1, <1>2, RecordFacts DEF IInv, IdentityInv, IdentitySplitOnlyByRace, At
  <1>6. QED
    BY <1>2, <1>3, <1>4, <1>5 DEF IInv

\* The new key replaces the file.  If there was one by then, it was made while this
\* job had found none, and so was the new one if others have found none either.
LEMMA CreateIdentityStep ==
  ASSUME IInv, NEW j \in Jobs, CreateIdentity(j)
  PROVE  IInv'
  <1>1. job \in [Jobs -> {NoJob} \cup JobRecords] /\ identity \in Keys \cup {NoKey} /\ raced \subseteq Jobs
    BY TypeFacts DEF IInv
  <1>2. /\ job[j].stage = "keygen" /\ UNCHANGED <<run, shelf, migrated, crashes>>
        /\ job[j] \in JobRecords /\ job[j].key = NoKey
    BY <1>1, RecordFacts DEF IInv, JobInv, Orderly, CreateIdentity, At, NoJob
  <1>p. DEFINE key == [process |-> job[j].process, job |-> j]
               makers == {k \in Jobs : At(k, "keygen")}
  <1>3. /\ key \in Keys /\ key # NoKey /\ key.job = j /\ identity' = key
        /\ job' = [job EXCEPT ![j].key = key, ![j].stage = "store"]
        /\ raced' = IF makers = {j} THEN raced ELSE raced \cup makers
    <2>1. key \in Keys
      BY <1>2, RecordFacts DEF Keys
    <2>2. QED
      BY <2>1, KeyFacts DEF CreateIdentity
  <1>4. j \in makers /\ makers \subseteq Jobs
    BY <1>2 DEF At
  <1> HIDE DEF key, makers
  <1>5. /\ job' \in [Jobs -> {NoJob} \cup JobRecords] /\ job'[j] \in JobRecords
        /\ job'[j].stage = "store" /\ job'[j].key = key
        /\ \A k \in Jobs \ {j} : job'[k] = job[k]
        /\ \A k \in Jobs : JobInv(job'[k], run'[k])
    BY <1>2, <1>3, StageMoves DEF Stages, KeyOrNone
  <1>6. raced \subseteq raced' /\ raced' \subseteq Jobs
    BY <1>1, <1>3, <1>4
  <1>7. ServiceTypeOK'
    BY <1>2, <1>3, <1>5, <1>6, TypeFacts DEF IInv, ServiceTypeOK, JobRecords, Runs, Phases
  <1>8. StoreInv'
    BY <1>2, <1>5, RecordFacts DEF IInv, StoreInv, At
  <1>9. IdentityInv'
    <2>1. identity # NoKey => identity.job \in raced
      BY <1>2 DEF IInv, IdentityInv, At
    <2>2. IdentitySplitOnlyByRace'
      BY <1>3, <1>5, <1>6, <2>1 DEF IInv, IdentityInv, IdentitySplitOnlyByRace
    <2>3. ASSUME NEW k \in Jobs, At(k, "keygen")'
          PROVE  j \in raced'
      <3>1. k # j /\ At(k, "keygen")
        BY <1>5, <2>3 DEF At
      <3>2. k \in makers
        BY <3>1 DEF makers
      <3>3. QED
        BY <1>3, <1>4, <3>1, <3>2
    <2>4. QED
      BY <1>3, <2>2, <2>3 DEF IdentityInv
  <1>10. QED
    BY <1>5, <1>7, <1>8, <1>9 DEF IInv

\* The store is opened, and takes the older jobs in first; or it fails.
LEMMA StoreStep ==
  ASSUME IInv, NEW j \in Jobs, OpenStore(j) \/ MigrateLegacy(j)
  PROVE  IInv'
  <1>1. /\ job[j].stage \in {"store", "migrate"} /\ UNCHANGED <<run, identity, crashes, raced>>
        /\ job[j] # NoJob /\ job[j].key # NoKey
    BY DEF IInv, JobInv, Orderly, OpenStore, MigrateLegacy, At, NoJob
  <1>2. PICK stage \in {"answered", "migrate", "store", "error"} :
          /\ Goto(j, stage)
          /\ \/ stage = "answered" /\ shelf' = shelf \cup {j} /\ migrated' = migrated
             \/ stage = "store" /\ shelf' = shelf \cup Legacy /\ migrated' = TRUE
             \/ stage \in {"migrate", "error"} /\ UNCHANGED <<shelf, migrated>>
    BY DEF OpenStore, MigrateLegacy
  <1>3. /\ job' \in [Jobs -> {NoJob} \cup JobRecords] /\ job[j] \in JobRecords /\ job'[j] \in JobRecords
        /\ job'[j].stage = stage /\ job'[j].key = job[j].key
        /\ \A k \in Jobs \ {j} : job'[k] = job[k]
        /\ \A k \in Jobs : JobInv(job'[k], run'[k])
    <2>1. stage \in Stages /\ UNCHANGED run /\ job[j].stage \in {"sign", "keygen", "store", "migrate"}
      BY <1>1 DEF Stages
    <2>2. /\ job[j].key \in KeyOrNone
          /\ job' = [job EXCEPT ![j].key = job[j].key, ![j].stage = stage]
      BY <1>2, <2>1, GotoMoves
    <2>3. PICK key \in KeyOrNone : key = job[j].key
      BY <2>2
    <2>4. /\ job' = [job EXCEPT ![j].key = key, ![j].stage = stage] /\ key # NoKey
          /\ job[j].key \in {NoKey, key} /\ stage # "keygen"
      BY <1>1, <2>2, <2>3
    <2>5. QED
      <3>1. /\ job' \in [Jobs -> {NoJob} \cup JobRecords]
            /\ job[j] \in JobRecords /\ job'[j] \in JobRecords
            /\ job'[j].stage = stage /\ job'[j].key = key
            /\ \A k \in Jobs \ {j} : job'[k] = job[k]
            /\ \A k \in Jobs : JobInv(job'[k], run'[k])
        BY <2>1, <2>4, StageMoves
      <3>2. QED
        BY <2>3, <3>1
  <1>4. ServiceTypeOK'
    <2>1. shelf' \subseteq Jobs \cup Legacy /\ migrated' \in BOOLEAN
      BY <1>2, TypeFacts DEF IInv
    <2>2. QED
      BY <1>1, <1>3, <2>1, TypeFacts DEF IInv, ServiceTypeOK, JobRecords, Runs, Phases
  <1>5. StoreInv'
    BY <1>1, <1>2, <1>3, RecordFacts, LegacyAssumption DEF IInv, StoreInv, At
  <1>6. IdentityInv'
    <2>1. \A k \in Jobs : At(k, "keygen")' => At(k, "keygen")
      BY <1>2, <1>3 DEF At
    <2>2. IdentitySplitOnlyByRace'
      BY <1>1, <1>3, RecordFacts DEF IInv, IdentityInv, IdentitySplitOnlyByRace
    <2>3. QED
      BY <1>1, <2>1, <2>2 DEF IInv, IdentityInv
  <1>7. QED
    BY <1>3, <1>4, <1>5, <1>6 DEF IInv

-----------------------------------------------------------------------------
(* A process stops.                                                        *)

\* Its unfinished jobs are lost and its unfinished runs are no more; those of judged
\* jobs were finished.
LEMMA CrashStep ==
  ASSUME IInv, NEW p \in Processes, Crash(p)
  PROVE  IInv'
  <1>1. /\ job \in [Jobs -> {NoJob} \cup JobRecords] /\ run \in [Jobs -> [Roles -> Runs]]
        /\ UNCHANGED <<identity, shelf, migrated, raced>>
        /\ crashes \in 0..MaxCrashes /\ crashes < MaxCrashes /\ crashes' = crashes + 1
    BY TypeFacts DEF IInv, Crash
  <1>p. DEFINE lost == {j \in Jobs : job[j] # NoJob /\ job[j].process = p}
  <1>2. /\ job' = [j \in Jobs |-> IF j \in lost /\ job[j].stage \in InProgress
                                  THEN [job[j] EXCEPT !.stage = "lost"] ELSE job[j]]
        /\ run' = [j \in Jobs |-> [r \in Roles |->
             IF j \in lost /\ run[j][r].phase = "running" THEN NoRun ELSE run[j][r]]]
    BY DEF Crash
  <1>3. \A j \in Jobs : j \in lost => job[j] \in JobRecords
    BY <1>1
  <1> HIDE DEF lost
  <1>4. ASSUME NEW j \in Jobs, job[j] # NoJob
        PROVE  /\ job[j] \in JobRecords /\ job'[j] \in JobRecords /\ job'[j] # NoJob
               /\ \/ job'[j] = job[j]
                  \/ job[j].stage \in InProgress /\ job'[j] = [job[j] EXCEPT !.stage = "lost"]
               /\ job'[j].stage \in {job[j].stage, "lost"}
               /\ job[j].stage = "waiting" => job'[j].stage = "waiting"
               /\ job'[j].service = job[j].service /\ job'[j].key = job[j].key
               /\ job'[j].verdict = job[j].verdict /\ job'[j].control = job[j].control
    <2>1. job[j] \in JobRecords
      BY <1>1, <1>4
    <2>2. [job[j] EXCEPT !.stage = "lost"] \in JobRecords
      BY <2>1 DEF JobRecords, Stages
    <2>3. \/ job'[j] = job[j]
          \/ job[j].stage \in InProgress /\ job'[j] = [job[j] EXCEPT !.stage = "lost"]
      BY <1>2
    <2>4. QED
      BY <2>1, <2>2, <2>3, RecordFacts DEF JobRecords, InProgress
  <1>5. ASSUME NEW j \in Jobs, job[j] = NoJob
        PROVE  job'[j] = NoJob /\ run'[j] = run[j]
    <2>1. j \notin lost
      BY <1>3, <1>5, RecordFacts
    <2>2. run'[j] = [r \in Roles |-> run[j][r]] /\ job'[j] = job[j]
      BY <1>2, <2>1
    <2>3. QED
      BY <1>1, <1>5, <2>2
  <1>6. \A j \in Jobs, r \in Roles :
          \/ run'[j][r] = run[j][r]
          \/ run[j][r].phase = "running" /\ run'[j][r] = NoRun
    BY <1>2
  <1>7. NoRun \in Runs /\ NoRun.phase = "idle"
    BY BoundsAssumption DEF NoRun, Runs, Phases
  <1>8. ServiceTypeOK'
    <2>1. job' \in [Jobs -> {NoJob} \cup JobRecords]
      BY <1>2, <1>4, <1>5
    <2>2. run' \in [Jobs -> [Roles -> Runs]]
      <3>1. \A j \in Jobs, r \in Roles : run[j][r] \in Runs
        BY <1>1
      <3>2. QED
        BY <1>2, <1>7, <3>1
    <2>3. crashes' \in 0..MaxCrashes
      BY <1>1, BoundsAssumption
    <2>4. QED
      BY <1>1, <2>1, <2>2, <2>3, TypeFacts DEF IInv, ServiceTypeOK, JobRecords, Runs, Phases
  <1>9. ASSUME NEW j \in Jobs, job[j] # NoJob
        PROVE  JobInv(job'[j], run'[j])
    <2>1. /\ job'[j].service = job[j].service /\ job'[j].verdict = job[j].verdict
          /\ job'[j].control = job[j].control
          /\ job[j].stage = "waiting" => job'[j].stage = "waiting"
      BY <1>4, <1>9
    <2>2. job[j].service \in Services /\ RolesOf(job[j].service) \subseteq Roles /\ "synthesis" \in Roles
      BY <1>4, <1>9, RecordFacts, RoleFacts
    <2>3. Orderly(job'[j], run'[j])
      <3>0. Orderly(job[j], run[j])
        BY <1>9 DEF IInv, JobInv
      <3>1. Crew(job'[j]) = Crew(job[j]) /\ Crew(job[j]) \subseteq Roles
        BY <1>4, <1>9, <2>2 DEF Crew
      <3>2. \A r \in Roles \ Crew(job'[j]) : run'[j][r].phase = "idle"
        BY <1>6, <1>7, <3>0, <3>1 DEF Orderly
      <3>3. run'[j]["synthesis"].phase # "idle" =>
              \A r \in RolesOf(job'[j].service) : run'[j][r].phase = "answered"
        <4> SUFFICES ASSUME run'[j]["synthesis"].phase # "idle", NEW r \in RolesOf(job[j].service)
                     PROVE  run'[j][r].phase = "answered"
          BY <2>1
        <4>1. run[j]["synthesis"].phase # "idle"
          BY <1>6, <1>7, <2>2
        <4>2. run[j][r].phase = "answered" /\ r \in Roles
          BY <2>2, <3>0, <4>1 DEF Orderly
        <4>3. QED
          BY <1>6, <4>2
      <3>4. /\ job'[j].verdict = "none" => job'[j].key = NoKey /\ job'[j].stage \in {"roles", "error", "lost"}
            /\ job'[j].stage = "roles" => job'[j].verdict = "none"
            /\ job'[j].stage \in {"waiting", "sign", "keygen"} => job'[j].key = NoKey
            /\ job'[j].stage \in {"store", "migrate", "answered"} => job'[j].key # NoKey
        BY <1>4, <1>9, <3>0 DEF Orderly
      <3>5. QED
        BY <3>2, <3>3, <3>4 DEF Orderly
    <2>4. ASSUME job'[j].verdict # "none" PROVE Earned(job'[j], run'[j])
      <3>1. Earned(job[j], run[j])
        BY <1>4, <1>9, <2>4 DEF IInv, JobInv
      <3>2. \A r \in Roles : run'[j][r] = run[j][r]
        BY <1>6, <3>1 DEF Earned
      <3>3. Crew(job'[j]) = Crew(job[j]) /\ Crew(job[j]) \subseteq Roles
        BY <1>4, <1>9, <2>2 DEF Crew
      <3>4. QED
        <4>1. \A r \in Roles : run'[j][r].phase # "running"
          BY <3>1, <3>2 DEF Earned
        <4>2. (\E r \in Roles : run'[j][r].phase = "waiting") => job'[j].stage = "waiting"
          BY <2>1, <3>1, <3>2 DEF Earned
        <4>3. job'[j].verdict = "fulfilled" =>
                /\ \A r \in Crew(job'[j]) : run'[j][r].phase = "answered" /\ run'[j][r].failed = 0
                /\ \E r \in Crew(job'[j]), source \in job'[j].service.sources : run'[j][r].ok[source] > 0
          BY <2>1, <3>1, <3>2, <3>3 DEF Earned
        <4>4. QED
          BY <2>1, <3>1, <4>1, <4>2, <4>3 DEF Earned
    <2>5. QED
      BY <1>4, <1>9, <2>3, <2>4 DEF JobInv
  <1>10. \A j \in Jobs : JobInv(job'[j], run'[j])
    BY <1>5, <1>9 DEF IInv
  <1>11. StoreInv'
    <2>1. \A j \in Jobs : At(j, "answered")' => At(j, "answered")
      BY <1>4, <1>5 DEF At
    <2>2. QED
      BY <1>1, <1>4, <2>1 DEF IInv, StoreInv
  <1>12. IdentityInv'
    <2>1. \A j \in Jobs : At(j, "keygen")' => At(j, "keygen")
      BY <1>4, <1>5 DEF At
    <2>2. IdentitySplitOnlyByRace'
      BY <1>1, <1>4, <1>5 DEF IInv, IdentityInv, IdentitySplitOnlyByRace
    <2>3. QED
      BY <1>1, <2>1, <2>2 DEF IInv, IdentityInv
  <1>13. QED
    BY <1>8, <1>10, <1>11, <1>12 DEF IInv

-----------------------------------------------------------------------------
(* The theorems.                                                           *)

\* Every step of Next keeps the invariant.
LEMMA InvariantStep == IInv /\ [Next]_vars => IInv'
  <1> SUFFICES ASSUME IInv, [Next]_vars PROVE IInv'
    OBVIOUS
  <1>1. ASSUME NEW j \in Jobs, Request(j) PROVE IInv'
    BY <1>1, RequestStep
  <1>2. ASSUME NEW j \in Jobs, JobStep(j) PROVE IInv'
    BY <1>2, FailureStep, SynthesizeStep, JudgeStep, LoadIdentityStep, CreateIdentityStep, StoreStep
    DEF JobStep
  <1>3. ASSUME NEW j \in Jobs, NEW r \in Roles, RoleEnds(j, r) PROVE IInv'
    BY <1>3, RoleEndsStep
  <1>4. ASSUME NEW p \in Processes, Crash(p) PROVE IInv'
    BY <1>4, CrashStep
  <1>5. CASE UNCHANGED vars
    <2>1. \A j \in Jobs, stage \in Stages : At(j, stage)' <=> At(j, stage)
      BY <1>5 DEF vars, At
    <2>2. ServiceTypeOK' /\ (\A j \in Jobs : JobInv(job'[j], run'[j]))
      BY <1>5 DEF IInv, ServiceTypeOK, vars
    <2>3. StoreInv' /\ IdentityInv'
      BY <1>5, <2>1 DEF IInv, StoreInv, IdentityInv, IdentitySplitOnlyByRace, vars, Stages
    <2>4. QED
      BY <2>2, <2>3 DEF IInv
  <1>6. QED
    BY <1>1, <1>2, <1>3, <1>4, <1>5 DEF Next

\* Every data directory keeps the invariant, however its jobs end and its processes
\* stop.
THEOREM Invariance == Spec => []IInv
  BY InitInvariant, InvariantStep, PTL DEF Spec

\* Every variable keeps the type that AgentService gives it.
THEOREM TypeCorrect == Spec => []ServiceTypeOK
  <1>1. IInv => ServiceTypeOK
    BY DEF IInv
  <1>2. QED
    BY <1>1, Invariance, PTL

\* The verdict of every job, for any service whose policy names a source, is the one
\* its runs have earned, at the judgement and ever after.
THEOREM VerdictsStand == Spec => []VerdictsEarned
  <1>1. IInv => VerdictsEarned
    <2> SUFFICES ASSUME IInv, NEW j \in Jobs, Judged(j)
                 PROVE  /\ job[j].verdict = "fulfilled" =>
                             /\ \A r \in Everyone(j) : run[j][r].phase = "answered" /\ run[j][r].failed = 0
                             /\ \E r \in Everyone(j), p \in job[j].service.sources : run[j][r].ok[p] > 0
                        /\ job[j].verdict = "fulfilled" <=> job[j].control = "completed"
                        /\ job[j].verdict = "blocked" <=> job[j].control = "waiting-approval"
                        /\ Waits(j) => job[j].key = NoKey
      BY DEF VerdictsEarned
    <2>1. Earned(job[j], run[j]) /\ Orderly(job[j], run[j])
      BY DEF IInv, JobInv, Judged
    <2>2. Crew(job[j]) = Everyone(j)
      BY DEF Crew, Everyone
    <2>3. QED
      BY <2>1, <2>2 DEF Earned, Orderly, Waits
  <1>2. QED
    BY <1>1, Invariance, PTL

\* Whatever fails or stops on the way, and however many processes take over the
\* older ledger, no answered job and no older one is missing from the store.
THEOREM StoreKeepsJobs == Spec => []JobsKept
  <1>1. IInv => JobsKept
    BY DEF IInv, StoreInv, JobsKept
  <1>2. QED
    BY <1>1, Invariance, PTL

\* Receipts of one directory differ in their key only by the race of processes that
\* found no identity file, for any number of processes and jobs.
THEOREM IdentityShared == Spec => []IdentitySplitOnlyByRace
  <1>1. IInv => IdentitySplitOnlyByRace
    BY DEF IInv, IdentityInv
  <1>2. QED
    BY <1>1, Invariance, PTL

=============================================================================
