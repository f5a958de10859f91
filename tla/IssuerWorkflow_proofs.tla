-------------------------- MODULE IssuerWorkflow_proofs --------------------------
(***************************************************************************)
(* Proofs about IssuerWorkflow, and about PublicInspector, which inspects  *)
(* what it leaves behind, for every set of credentials, portal requests,   *)
(* command line processes and inspections.                                 *)
(***************************************************************************)
EXTENDS PublicInspector, TLAPS

-----------------------------------------------------------------------------
(* Marks.                                                                  *)

\* The order of the marks.
LEMMA RankValues ==
  /\ Rank("NONE") = 0 /\ Rank("ACTIVE") = 1 /\ Rank("REVOKED") = 2
  /\ \A m \in Marks : Rank(m) \in {0, 1, 2}
  BY DEF Rank, Marks

\* A job takes its credential one mark further.
LEMMA KindValues ==
  /\ Source("issue") = "NONE" /\ Goal("issue") = "ACTIVE"
  /\ Source("revoke") = "ACTIVE" /\ Goal("revoke") = "REVOKED"
  BY DEF Source, Goal

\* A running or awaiting stage is not "idle".
LEMMA StageValues ==
  /\ \A w \in Workers : TypeOK /\ Active(w) => job[w] \in ActiveJobs
  /\ \A w \in Workers : TypeOK /\ ~Active(w) => job[w] = Idle
  BY DEF TypeOK, Active, ActiveJobs, Idle, Awaiting, Running

-----------------------------------------------------------------------------
(* The inductive invariant.                                                *)

\* The statuses of an operations row that report success.
Success == {"ACTIVE", "REVOKED", "ACTIVE_OFFCHAIN", "REVOKED_OFFCHAIN"}

\* A command line job works on a credential it marked offline; the row of a
\* portal job is the row of that job, and reports no success yet.
JobsInv ==
  /\ \A w \in Clis : Active(w) =>
       job[w].credential \in offline /\ job[w].stage \in Running
  /\ \A w \in Portal : Active(w) =>
       /\ operation[w] \in Operations
       /\ operation[w].kind = job[w].kind
       /\ operation[w].credential = job[w].credential
       /\ operation[w].status \notin Success \cup {"NONE"}
  /\ \A w \in Workers : job[w].stage = "rollback" => job[w].kind = "revoke"

\* How far the chain is at each stage of a portal job, and for the evidence in
\* the operations rows.
ChainInv ==
  \A w \in Portal :
    /\ job[w].stage = "sent" =>
         Rank(chain[job[w].credential]) >= Rank(Source(job[w].kind))
    /\ job[w].stage = "landed" \/ (ChainWrites /\ job[w].stage \in Running) =>
         Rank(chain[job[w].credential]) >= Rank(Goal(job[w].kind))
    /\ operation[w].status # "NONE" =>
         (operation[w].evidence =>
            Rank(chain[operation[w].credential]) >= Rank(Goal(operation[w].kind)))

\* Not the ledger alone but every copy of it in the hands of a job, which may be
\* saved over it, stays behind the chain.
CopyInv ==
  ChainWrites =>
    \A c \in Credentials \ offline :
      /\ Rank(ledger[c]) <= Rank(chain[c])
      /\ \A w \in Workers : Active(w) => Rank(job[w].copy[c]) <= Rank(chain[c])

\* Without collisions one job at most is writing, what it holds is the ledger
\* but for its own credential, and no row already reports the revocation it
\* may roll back.
WriteInv ==
  /\ \A v, w \in Workers : Writing(v) /\ Writing(w) => v = w
  /\ \A w \in Workers : Writing(w) =>
       /\ \A c \in Credentials \ {job[w].credential} : job[w].copy[c] = ledger[c]
       /\ job[w].copy[job[w].credential] = Source(job[w].kind)
       /\ job[w].stage = "save" => ledger[job[w].credential] = Source(job[w].kind)
       /\ job[w].stage = "rollback" =>
            ledger[job[w].credential] \in {Source(job[w].kind), Goal(job[w].kind)}
       /\ job[w].kind = "revoke" =>
            \A v \in Portal : /\ operation[v].status \in Success
                              /\ operation[v].credential = job[w].credential
                              => operation[v].kind = "issue"
  /\ \A w \in Workers : job[w].stage = "files" =>
       Rank(ledger[job[w].credential]) >= Rank(Goal(job[w].kind))
  /\ \A w \in Portal : operation[w].status \in Success =>
       Rank(ledger[operation[w].credential]) >= Rank(Goal(operation[w].kind))

IInv == TypeOK /\ JobsInv /\ ChainInv /\ CopyInv /\ (collided \/ WriteInv)

\* Nothing has happened yet: the invariant holds.
LEMMA InitInvariant == Init => IInv
  <1> SUFFICES ASSUME Init
               PROVE  IInv
    OBVIOUS
  <1>1. TypeOK
    <2>1. collided \in BOOLEAN
      BY DEF Init
    <2>2. /\ ledger \in Ledgers
          /\ artifacts \in [Credentials -> SUBSET Files]
          /\ chain \in [Credentials -> Marks]
          /\ inflight = {} /\ offline = {} /\ torn = {}
      BY DEF Init, Ledgers, Marks
    <2>3. /\ job \in [Workers -> ActiveJobs \cup {Idle}]
          /\ operation \in [Portal -> Operations \cup {NoOperation}]
          /\ jobs \in 0..MaxJobs
      BY MaxJobsAssumption DEF Init
    <2>4. QED
      BY <2>1, <2>2, <2>3 DEF TypeOK
  <1>2. \A w \in Workers : job[w] = Idle /\ ~Active(w)
    BY DEF Init, Active, Idle
  <1>3. JobsInv
    BY <1>2 DEF JobsInv, Workers, Idle
  <1>4. ChainInv
    BY <1>2 DEF ChainInv, Workers, Idle, Running, Init, NoOperation
  <1>5. CopyInv
    BY <1>2, RankValues DEF CopyInv, Init
  <1>6. WriteInv
    BY <1>2 DEF WriteInv, Writing, Workers, Idle, Init, NoOperation, Success
  <1>7. QED
    BY <1>1, <1>3, <1>4, <1>5, <1>6 DEF IInv

\* Every step keeps the variables well typed.
LEMMA TypeStep == TypeOK /\ JobsInv /\ Next => TypeOK'
  <1> SUFFICES ASSUME TypeOK, JobsInv, Next
               PROVE  TypeOK'
    OBVIOUS
  <1> USE StageValues
  <1>1. ASSUME NEW w \in Portal, NEW c \in Credentials, NEW kind \in Kinds, PortalStarts(w, c, kind)
        PROVE  TypeOK'
    BY <1>1, MaxJobsAssumption, ChainWritesAssumption
    DEF PortalStarts, StartJob, TypeOK, Workers, Operations, OperationStatuses, ActiveJobs,
        Awaiting, Running
  <1>2. ASSUME NEW w \in Clis, NEW c \in Credentials, NEW kind \in Kinds, CliStarts(w, c, kind)
        PROVE  TypeOK'
    BY <1>2, MaxJobsAssumption
    DEF CliStarts, StartJob, TypeOK, Workers, ActiveJobs, Awaiting, Running
  <1>3. ASSUME NEW w \in Workers, Send(w)
        PROVE  TypeOK'
    BY <1>3 DEF Send, At, Go, TypeOK, Active, ActiveJobs, Awaiting, Running, Idle
  <1>4. ASSUME NEW c \in Credentials, ChainCommits(c)
        PROVE  TypeOK'
    BY <1>4 DEF ChainCommits, TypeOK, WorkersOn, Active, ActiveJobs, Awaiting, Running, Idle, Marks
  <1>5. ASSUME NEW c \in Credentials, ChainDrops(c)
        PROVE  TypeOK'
    BY <1>5 DEF ChainDrops, TypeOK
  <1> DEFINE Typed(w) == Active(w) /\ w \in Portal => operation[w] \in Operations
  <1>6. ASSUME NEW w \in Workers
        PROVE  Typed(w)
    BY DEF JobsInv
  <1>7. ASSUME NEW w \in Workers, Active(w), Throw(w)
        PROVE  /\ job' \in [Workers -> ActiveJobs \cup {Idle}]
               /\ operation' \in [Portal -> Operations \cup {NoOperation}]
               /\ torn' \subseteq Credentials
    BY <1>6, <1>7 DEF Throw, SetOperation, Finish, TypeOK, Operations, OperationStatuses, ActiveJobs
  <1>8. ASSUME NEW w \in Workers, ChainReturns(w)
        PROVE  TypeOK'
    <2>1. job' \in [Workers -> ActiveJobs \cup {Idle}]
      BY <1>8 DEF ChainReturns, At, Go, TypeOK, Active, ActiveJobs, Running
    <2>2. operation' = [operation EXCEPT ![w].status = "CHAIN_COMMITTED", ![w].evidence = TRUE]
      BY <1>8 DEF ChainReturns
    <2>3. w \in Portal => operation[w] \in Operations
      BY <1>6, <1>8 DEF ChainReturns, At, Active
    <2>4. w \in Portal => operation'[w] \in Operations
      <3>1. TRUE \in BOOLEAN
        OBVIOUS
      <3>2. QED
        BY <2>2, <2>3, <3>1 DEF TypeOK, Operations, OperationStatuses
    <2>5. operation' \in [Portal -> Operations \cup {NoOperation}]
      BY <2>2, <2>4 DEF TypeOK
    <2>6. QED
      BY <1>8, <2>1, <2>5 DEF ChainReturns, TypeOK
  <1>9. ASSUME NEW w \in Workers, ChainThrows(w)
        PROVE  TypeOK'
    BY <1>7, <1>9 DEF ChainThrows, At, Active, TypeOK
  <1>10. ASSUME NEW w \in Workers, Load(w)
         PROVE  TypeOK'
    <2>1. CASE Throw(w) /\ UNCHANGED <<ledger, artifacts, chain, inflight, jobs, offline, collided>>
      BY <1>7, <1>10, <2>1 DEF Load, At, Active, TypeOK
    <2>2. CASE /\ job' = [job EXCEPT ![w].stage = "save", ![w].copy = ledger]
               /\ collided' = (collided \/ \E v \in Workers \ {w} : Writing(v))
               /\ UNCHANGED <<ledger, artifacts, chain, inflight, jobs, offline, operation, torn>>
      <3>1. collided' \in BOOLEAN
        BY <2>2
      <3>2. job' \in [Workers -> ActiveJobs \cup {Idle}]
        BY <1>10, <2>2 DEF Load, At, Active, TypeOK, ActiveJobs, Running
      <3>3. QED
        BY <2>2, <3>1, <3>2 DEF TypeOK
    <2>3. QED
      BY <1>10, <2>1, <2>2 DEF Load
  <1>11. ASSUME NEW w \in Workers, Save(w)
         PROVE  TypeOK'
    BY <1>7, <1>11
    DEF Save, At, Go, Active, TypeOK, ActiveJobs, Running, Awaiting, Idle, Ledgers, Goal, Marks
  <1>12. ASSUME NEW w \in Workers, WriteFiles(w)
         PROVE  TypeOK'
    BY <1>6, <1>7, <1>12
    DEF WriteFiles, At, Go, Finish, SetOperation, FinalStatus, Active, TypeOK, ActiveJobs,
        Running, Awaiting, Idle, Files, Operations, OperationStatuses, Goal, Kinds
  <1>13. ASSUME NEW w \in Workers, Rollback(w)
         PROVE  TypeOK'
    BY <1>7, <1>13 DEF Rollback, At, Active, TypeOK, ActiveJobs, Ledgers
  <1>14. ASSUME NEW process \in SUBSET Workers, Crash(process)
         PROVE  TypeOK'
    BY <1>14 DEF Crash, TypeOK, Active, ActiveJobs
  <1>15. QED
    BY <1>1, <1>2, <1>3, <1>4, <1>5, <1>8, <1>9, <1>10, <1>11, <1>12, <1>13, <1>14
    DEF Next, Progress, Workers

\* Every step keeps jobs and operations rows together.
LEMMA JobsStep == TypeOK /\ JobsInv /\ Next => JobsInv'
  <1> SUFFICES ASSUME TypeOK, JobsInv, Next
               PROVE  JobsInv'
    OBVIOUS
  <1>0. job \in [Workers -> ActiveJobs \cup {Idle}] /\ operation \in [Portal -> Operations \cup {NoOperation}]
    BY DEF TypeOK
  <1> USE WorkersAssumption DEF Workers
  <1>1. ASSUME NEW w \in Portal, NEW c \in Credentials, NEW kind \in Kinds, PortalStarts(w, c, kind)
        PROVE  JobsInv'
    <2>1. /\ job'[w].kind = kind /\ job'[w].credential = c /\ job'[w].stage \in {"chain", "load"}
          /\ \A v \in Workers \ {w} : job'[v] = job[v]
          /\ \A v \in Portal \ {w} : operation'[v] = operation[v]
          /\ operation'[w].kind = kind /\ operation'[w].credential = c
          /\ operation'[w].status \in {"PREPARED", "CHAIN_PENDING"}
          /\ operation'[w] \in Operations
          /\ offline' = offline
      BY <1>0, <1>1, ChainWritesAssumption DEF PortalStarts, StartJob, Operations, OperationStatuses
    <2>2. QED
      BY <2>1 DEF JobsInv, Active, Success
  <1>2. ASSUME NEW w \in Clis, NEW c \in Credentials, NEW kind \in Kinds, CliStarts(w, c, kind)
        PROVE  JobsInv'
    BY <1>0, <1>2 DEF CliStarts, StartJob, JobsInv, Active, Running
  <1>3. ASSUME NEW w \in Workers, Send(w)
        PROVE  JobsInv'
    BY <1>0, <1>3 DEF Send, At, Go, JobsInv, Active, ActiveJobs, Running, Idle
  <1>4. ASSUME NEW c \in Credentials, ChainCommits(c)
        PROVE  JobsInv'
    BY <1>0, <1>4 DEF ChainCommits, WorkersOn, JobsInv, Active, ActiveJobs, Running, Idle
  <1>5. ASSUME NEW c \in Credentials, ChainDrops(c)
        PROVE  JobsInv'
    BY <1>5 DEF ChainDrops, JobsInv, Active
  <1>6. ASSUME NEW w \in Workers, Active(w), Throw(w), UNCHANGED offline
        PROVE  JobsInv'
    BY <1>0, <1>6 DEF Throw, SetOperation, Finish, JobsInv, Active, Idle, Operations, OperationStatuses, Success
  <1>7. ASSUME NEW w \in Workers, Active(w), NEW stage \in Running, Go(w, stage),
               stage = "rollback" => job[w].kind = "revoke",
               UNCHANGED <<operation, offline>>
        PROVE  JobsInv'
    BY <1>0, <1>7 DEF Go, JobsInv, Active, ActiveJobs, Running, Idle
  <1>8. ASSUME NEW w \in Workers, ChainReturns(w)
        PROVE  JobsInv'
    <2>1. w \in Portal
      BY <1>8 DEF ChainReturns, At, JobsInv, Active, Running
    <2>2. operation[w] \in Operations
      BY <1>8, <2>1 DEF ChainReturns, At, JobsInv, Active
    <2>3. /\ operation' = [operation EXCEPT ![w].status = "CHAIN_COMMITTED", ![w].evidence = TRUE]
          /\ TRUE \in BOOLEAN
      BY <1>8 DEF ChainReturns
    <2>4. /\ operation'[w] \in Operations
          /\ operation'[w].kind = operation[w].kind
          /\ operation'[w].credential = operation[w].credential
          /\ operation'[w].status = "CHAIN_COMMITTED"
          /\ \A v \in Portal \ {w} : operation'[v] = operation[v]
      BY <1>0, <2>1, <2>2, <2>3 DEF Operations, OperationStatuses
    <2>5. /\ job'[w].stage = "load" /\ job'[w].kind = job[w].kind
          /\ job'[w].credential = job[w].credential /\ Active(w)
          /\ \A v \in Workers \ {w} : job'[v] = job[v]
          /\ offline' = offline
      BY <1>0, <1>8 DEF ChainReturns, At, Go, Active, ActiveJobs, Idle
    <2>6. QED
      BY <2>1, <2>4, <2>5 DEF JobsInv, Active, Success, Running
  <1>9. ASSUME NEW w \in Workers, ChainThrows(w)
        PROVE  JobsInv'
    BY <1>6, <1>9 DEF ChainThrows, At, Active
  <1>10. ASSUME NEW w \in Workers, Load(w)
         PROVE  JobsInv'
    <2>1. Active(w) /\ UNCHANGED offline
      BY <1>10 DEF Load, At, Active
    <2>2. CASE job' = [job EXCEPT ![w].stage = "save", ![w].copy = ledger] /\ UNCHANGED operation
      BY <1>0, <2>1, <2>2 DEF JobsInv, Active, ActiveJobs, Running, Idle
    <2>3. QED
      BY <1>6, <1>10, <2>1, <2>2 DEF Load
  <1>11. ASSUME NEW w \in Workers, Save(w)
         PROVE  JobsInv'
    <2>1. Active(w) /\ UNCHANGED offline
      BY <1>11 DEF Save, At, Active
    <2>2. QED
      BY <1>6, <1>7, <1>11, <2>1 DEF Save, Running
  <1>12. ASSUME NEW w \in Workers, WriteFiles(w)
         PROVE  JobsInv'
    <2>1. Active(w) /\ UNCHANGED offline
      BY <1>12 DEF WriteFiles, At, Active
    <2>2. CASE Finish(w) /\ IF w \in Portal THEN SetOperation(w, FinalStatus(w)) ELSE UNCHANGED operation
      <3>1. job' = [job EXCEPT ![w] = Idle] /\ \A v \in Portal \ {w} : operation'[v] = operation[v]
        BY <1>0, <2>2 DEF Finish, SetOperation
      <3>2. QED
        BY <1>0, <2>1, <3>1 DEF JobsInv, Active, Idle
    <2>3. QED
      BY <1>6, <1>7, <1>12, <2>1, <2>2 DEF WriteFiles, Running
  <1>13. ASSUME NEW w \in Workers, Rollback(w)
         PROVE  JobsInv'
    BY <1>6, <1>13 DEF Rollback, At, Active
  <1>14. ASSUME NEW process \in SUBSET Workers, Crash(process)
         PROVE  JobsInv'
    BY <1>0, <1>14 DEF Crash, JobsInv, Active, Idle
  <1>15. QED
    BY <1>1, <1>2, <1>3, <1>4, <1>5, <1>8, <1>9, <1>10, <1>11, <1>12, <1>13, <1>14
    DEF Next, Progress

\* The chain only moves forward.
LEMMA ChainMonotone ==
  TypeOK /\ Next => \A c \in Credentials : Rank(chain[c]) <= Rank(chain'[c])
  <1> SUFFICES ASSUME TypeOK, Next, NEW c \in Credentials
               PROVE  Rank(chain[c]) <= Rank(chain'[c])
    OBVIOUS
  <1>1. chain[c] \in Marks
    BY DEF TypeOK
  <1>2. CASE ChainCommits(c)
    BY <1>1, <1>2, RankValues DEF ChainCommits, TypeOK, Marks
  <1>3. CASE chain'[c] = chain[c]
    BY <1>1, <1>3, RankValues
  <1>4. chain'[c] = chain[c] \/ ChainCommits(c)
    BY DEF Next, Progress, TypeOK, PortalStarts, CliStarts, StartJob, Send, ChainCommits, ChainDrops,
           ChainReturns, ChainThrows, Load, Save, WriteFiles, Rollback, Crash
  <1>5. QED
    BY <1>2, <1>3, <1>4

\* A job of the portal stays behind the chain: what has to be there at its stage
\* is there, and the chain does not go back.
LEMMA ChainStep == TypeOK /\ JobsInv /\ ChainInv /\ Next => ChainInv'
  <1> SUFFICES ASSUME TypeOK, JobsInv, ChainInv, Next
               PROVE  ChainInv'
    OBVIOUS
  <1>0. /\ job \in [Workers -> ActiveJobs \cup {Idle}]
        /\ operation \in [Portal -> Operations \cup {NoOperation}]
        /\ chain \in [Credentials -> Marks]
    BY DEF TypeOK
  <1>m. \A c \in Credentials : Rank(chain[c]) <= Rank(chain'[c])
    BY ChainMonotone
  <1>r. \A m \in Marks : Rank(m) \in {0, 1, 2}
    BY RankValues
  <1>c. \A c \in Credentials : chain[c] \in Marks /\ chain'[c] \in Marks
    BY <1>0, TypeStep DEF TypeOK
  <1>g. \A kind \in Kinds : Source(kind) \in Marks /\ Goal(kind) \in Marks
    BY KindValues DEF Kinds, Marks
  <1> USE WorkersAssumption DEF Workers
  \* What the invariant says of one request's job and of its operations row.
  <1> DEFINE JobFact(w) ==
        /\ job[w].stage = "sent" =>
             Rank(chain[job[w].credential]) >= Rank(Source(job[w].kind))
        /\ job[w].stage = "landed" \/ (ChainWrites /\ job[w].stage \in Running) =>
             Rank(chain[job[w].credential]) >= Rank(Goal(job[w].kind))
      RowFact(w) ==
        operation[w].status # "NONE" =>
          (operation[w].evidence =>
             Rank(chain[operation[w].credential]) >= Rank(Goal(operation[w].kind)))
  <1>i. \A w \in Portal : JobFact(w) /\ RowFact(w)
    BY DEF ChainInv
  <1>s. (\A w \in Portal : JobFact(w)' /\ RowFact(w)') => ChainInv'
    BY DEF ChainInv
  <1>w. \A w \in Portal : Active(w) => job[w].credential \in Credentials /\ job[w].kind \in Kinds
    BY <1>0 DEF Active, ActiveJobs, Idle
  <1>o. \A w \in Portal : operation[w].status = "NONE" \/ operation[w] \in Operations
    BY <1>0 DEF NoOperation
  \* Nothing becomes false by what others do.
  <1>1. ASSUME NEW w \in Portal, job'[w] = job[w] \/ job'[w] = Idle
        PROVE  JobFact(w)'
    <2>1. CASE job'[w] = Idle
      BY <2>1 DEF Idle, Running
    <2>2. CASE job'[w] = job[w] /\ Active(w)
      <3>1. job[w].credential \in Credentials /\ job[w].kind \in Kinds
        BY <1>w, <2>2
      <3>2. QED
        BY <1>i, <1>m, <1>r, <1>c, <1>g, <2>2, <3>1
    <2>3. CASE job'[w] = job[w] /\ ~Active(w)
      BY <2>3 DEF Active, Running
    <2>4. QED
      BY <1>1, <2>1, <2>2, <2>3
  <1>2. ASSUME NEW w \in Portal, operation[w].status # "NONE",
               operation'[w].evidence = operation[w].evidence,
               operation'[w].credential = operation[w].credential,
               operation'[w].kind = operation[w].kind
        PROVE  RowFact(w)'
    <2>1. operation[w] \in Operations
      BY <1>2, <1>o
    <2>2. operation[w].credential \in Credentials /\ operation[w].kind \in Kinds
      BY <2>1 DEF Operations
    <2>3. operation[w].evidence => Rank(chain[operation[w].credential]) >= Rank(Goal(operation[w].kind))
      BY <1>2, <1>i
    <2>4. Rank(chain'[operation[w].credential]) >= Rank(chain[operation[w].credential])
      BY <1>m, <2>2
    <2>5. Rank(chain[operation[w].credential]) >= Rank(Goal(operation[w].kind)) =>
             Rank(chain'[operation[w].credential]) >= Rank(Goal(operation[w].kind))
      BY <1>r, <1>c, <1>g, <2>2, <2>4
    <2>6. QED
      BY <1>2, <2>3, <2>5
  <1>3. ASSUME NEW w \in Portal, operation'[w] = operation[w]
        PROVE  RowFact(w)'
    BY <1>2, <1>3
  <1>4. ASSUME NEW w \in Workers, Active(w), Throw(w)
        PROVE  ChainInv'
    <2>1. \A v \in Portal : job'[v] = job[v] \/ job'[v] = Idle
      BY <1>0, <1>4 DEF Throw, Finish
    <2>2. ASSUME NEW v \in Portal
          PROVE  RowFact(v)'
      <3>1. CASE v = w
        <4>1. operation[w] \in Operations
          BY <1>4, <3>1 DEF JobsInv
        <4>2. operation' = [operation EXCEPT ![w].status = "FAILED"]
          BY <1>4, <3>1 DEF Throw, SetOperation
        <4>3. /\ operation'[w].evidence = operation[w].evidence
              /\ operation'[w].credential = operation[w].credential
              /\ operation'[w].kind = operation[w].kind
          BY <1>0, <3>1, <4>1, <4>2 DEF Operations
        <4>4. operation[w].status # "NONE"
          BY <1>4, <3>1 DEF JobsInv
        <4>5. QED
          BY <1>2, <3>1, <4>3, <4>4
      <3>2. CASE v # w
        BY <1>0, <1>3, <1>4, <3>2 DEF Throw, SetOperation
      <3>3. QED
        BY <3>1, <3>2
    <2>3. QED
      BY <1>1, <1>s, <2>1, <2>2
  <1>5. ASSUME NEW w \in Workers, job[w].stage \in Running, job'[w].stage \in Running,
               job'[w].kind = job[w].kind, job'[w].credential = job[w].credential,
               \A v \in Workers \ {w} : job'[v] = job[v],
               UNCHANGED operation
        PROVE  ChainInv'
    <2>1. ASSUME NEW v \in Portal
          PROVE  JobFact(v)'
      <3>1. CASE v = w
        <4>1. job[w].credential \in Credentials /\ job[w].kind \in Kinds
          BY <1>5, <1>w, <3>1 DEF Active, Running
        <4>2. QED
          BY <1>5, <1>i, <1>m, <1>r, <1>c, <1>g, <3>1, <4>1 DEF Running
      <3>2. CASE v # w
        BY <1>1, <1>5, <3>2
      <3>3. QED
        BY <3>1, <3>2
    <2>2. QED
      BY <1>3, <1>5, <1>s, <2>1
  <1>6. ASSUME NEW w \in Portal, NEW c \in Credentials, NEW kind \in Kinds, PortalStarts(w, c, kind)
        PROVE  ChainInv'
    <2>1. /\ \A v \in Portal \ {w} : job'[v] = job[v] /\ operation'[v] = operation[v]
          /\ job'[w].stage = IF ChainWrites THEN "chain" ELSE "load"
          /\ ~operation'[w].evidence
      BY <1>0, <1>6 DEF PortalStarts, StartJob
    <2>2. JobFact(w)' /\ RowFact(w)'
      BY <2>1 DEF Running
    <2>3. QED
      BY <1>1, <1>3, <1>s, <2>1, <2>2
  <1>7. ASSUME NEW w \in Clis, NEW c \in Credentials, NEW kind \in Kinds, CliStarts(w, c, kind)
        PROVE  ChainInv'
    BY <1>0, <1>1, <1>3, <1>7, <1>s DEF CliStarts, StartJob
  <1>8. ASSUME NEW w \in Workers, Send(w)
        PROVE  ChainInv'
    <2>1. /\ \A v \in Workers \ {w} : job'[v] = job[v]
          /\ job'[w].stage = "sent" /\ job'[w].kind = job[w].kind
          /\ job'[w].credential = job[w].credential
          /\ chain[job[w].credential] = Source(job[w].kind)
          /\ Active(w)
          /\ UNCHANGED <<chain, operation>>
      BY <1>0, <1>8 DEF Send, At, Go, Active, ActiveJobs, Idle
    <2>2. w \in Portal => JobFact(w)'
      BY <1>w, <1>g, <1>r, <2>1 DEF Running
    <2>3. QED
      BY <1>1, <1>3, <1>s, <2>1, <2>2
  <1>9. ASSUME NEW c \in Credentials, ChainCommits(c)
        PROVE  ChainInv'
    <2>1. ASSUME NEW w \in Portal
          PROVE  JobFact(w)'
      <3>1. CASE w \in WorkersOn(c) /\ job[w].stage = "sent"
        <4>1. /\ job'[w].stage = "landed" /\ job'[w].kind = job[w].kind
              /\ job'[w].credential = c /\ job[w].credential = c
              /\ job[w].kind \in Kinds
          BY <1>0, <1>9, <3>1 DEF ChainCommits, WorkersOn, Active, ActiveJobs, Idle
        <4>2. chain'[c] = IF chain[c] = "NONE" THEN "ACTIVE" ELSE "REVOKED"
          BY <1>0, <1>9 DEF ChainCommits
        <4>3. Rank(chain[c]) >= Rank(Source(job[w].kind))
          BY <1>i, <3>1, <4>1
        <4>4. CASE job[w].kind = "issue"
          BY <4>1, <4>2, <4>4, RankValues, KindValues DEF Running
        <4>5. CASE job[w].kind = "revoke"
          BY <4>1, <4>2, <4>3, <4>5, RankValues, KindValues DEF Running
        <4>6. QED
          BY <4>1, <4>4, <4>5 DEF Kinds
      <3>2. CASE ~(w \in WorkersOn(c) /\ job[w].stage = "sent")
        BY <1>1, <1>9, <3>2 DEF ChainCommits
      <3>3. QED
        BY <3>1, <3>2
    <2>2. QED
      BY <1>3, <1>9, <1>s, <2>1 DEF ChainCommits
  <1>10. ASSUME NEW c \in Credentials, ChainDrops(c)
         PROVE  ChainInv'
    BY <1>1, <1>3, <1>10, <1>s DEF ChainDrops
  <1>11. ASSUME NEW w \in Workers, ChainReturns(w)
         PROVE  ChainInv'
    <2>1. /\ \A v \in Workers \ {w} : job'[v] = job[v]
          /\ job'[w].stage = "load" /\ job'[w].kind = job[w].kind
          /\ job'[w].credential = job[w].credential
          /\ job[w].stage = "landed" /\ Active(w)
          /\ UNCHANGED chain
      BY <1>0, <1>11 DEF ChainReturns, At, Go, Active, ActiveJobs, Idle
    <2>2. w \in Portal
      BY <2>1 DEF JobsInv, Running
    <2>3. Rank(chain[job[w].credential]) >= Rank(Goal(job[w].kind))
      BY <1>i, <2>1, <2>2
    <2>4. /\ operation[w].credential = job[w].credential /\ operation[w].kind = job[w].kind
          /\ operation[w] \in Operations
      BY <2>1, <2>2 DEF JobsInv
    <2>5. /\ operation'[w].credential = job[w].credential /\ operation'[w].kind = job[w].kind
          /\ \A v \in Portal \ {w} : operation'[v] = operation[v]
      BY <1>0, <1>11, <2>2, <2>4 DEF ChainReturns, Operations
    <2>6. JobFact(w)' /\ RowFact(w)'
      BY <2>1, <2>3, <2>5
    <2>7. QED
      BY <1>1, <1>3, <1>s, <2>1, <2>5, <2>6
  <1>12. ASSUME NEW w \in Workers, ChainThrows(w)
         PROVE  ChainInv'
    BY <1>4, <1>12 DEF ChainThrows, At, Active
  <1>13. ASSUME NEW w \in Workers, NEW stage \in Running, job[w].stage \in Running, Go(w, stage),
                UNCHANGED operation
         PROVE  ChainInv'
    <2>1. /\ job'[w].stage = stage /\ job'[w].kind = job[w].kind
          /\ job'[w].credential = job[w].credential
          /\ \A v \in Workers \ {w} : job'[v] = job[v]
      BY <1>0, <1>13 DEF Go, ActiveJobs, Idle, Running
    <2>2. QED
      BY <1>5, <1>13, <2>1
  <1>14. ASSUME NEW w \in Workers, Load(w)
         PROVE  ChainInv'
    <2>1. job[w].stage = "load" /\ Active(w)
      BY <1>14 DEF Load, At, Active
    <2>2. CASE job' = [job EXCEPT ![w].stage = "save", ![w].copy = ledger] /\ UNCHANGED operation
      <3>1. /\ job'[w].stage = "save" /\ job'[w].kind = job[w].kind
            /\ job'[w].credential = job[w].credential
            /\ \A v \in Workers \ {w} : job'[v] = job[v]
        BY <1>0, <2>1, <2>2 DEF ActiveJobs, Idle
      <3>2. QED
        BY <1>5, <2>1, <2>2, <3>1 DEF Running
    <2>3. QED
      BY <1>4, <1>14, <2>1, <2>2 DEF Load
  <1>15. ASSUME NEW w \in Workers, Save(w)
         PROVE  ChainInv'
    BY <1>4, <1>13, <1>15 DEF Save, At, Active, Running
  <1>16. ASSUME NEW w \in Workers, WriteFiles(w)
         PROVE  ChainInv'
    <2>1. job[w].stage = "files" /\ Active(w)
      BY <1>16 DEF WriteFiles, At, Active
    <2>2. CASE Finish(w) /\ IF w \in Portal THEN SetOperation(w, FinalStatus(w)) ELSE UNCHANGED operation
      <3>1. \A v \in Portal : job'[v] = job[v] \/ job'[v] = Idle
        BY <1>0, <2>2 DEF Finish
      <3>2. ASSUME NEW v \in Portal
            PROVE  RowFact(v)'
        <4>1. CASE v = w
          <5>1. operation[w] \in Operations /\ operation[w].status # "NONE"
            BY <2>1, <4>1 DEF JobsInv
          <5>2. /\ operation'[w].evidence = operation[w].evidence
                /\ operation'[w].credential = operation[w].credential
                /\ operation'[w].kind = operation[w].kind
            BY <1>0, <2>2, <4>1, <5>1 DEF SetOperation, Operations
          <5>3. QED
            BY <1>2, <4>1, <5>1, <5>2
        <4>2. CASE v # w
          BY <1>0, <1>3, <2>2, <4>2 DEF SetOperation
        <4>3. QED
          BY <4>1, <4>2
      <3>3. QED
        BY <1>1, <1>s, <3>1, <3>2
    <2>3. QED
      BY <1>4, <1>13, <1>16, <2>1, <2>2 DEF WriteFiles, Running
  <1>17. ASSUME NEW w \in Workers, Rollback(w)
         PROVE  ChainInv'
    BY <1>4, <1>17 DEF Rollback, At, Active
  <1>18. ASSUME NEW process \in SUBSET Workers, Crash(process)
         PROVE  ChainInv'
    BY <1>1, <1>3, <1>18, <1>s DEF Crash
  <1>19. QED
    BY <1>6, <1>7, <1>8, <1>9, <1>10, <1>11, <1>12, <1>14, <1>15, <1>16, <1>17, <1>18
    DEF Next, Progress

\* What is saved over the ledger is a copy that is behind the chain, changed at
\* a credential whose chain transaction has committed.
LEMMA CopyStep == TypeOK /\ JobsInv /\ ChainInv /\ CopyInv /\ Next => CopyInv'
  <1> SUFFICES ASSUME TypeOK, JobsInv, ChainInv, CopyInv, Next, ChainWrites,
                      NEW c \in Credentials, c \notin offline'
               PROVE  /\ Rank(ledger'[c]) <= Rank(chain'[c])
                      /\ \A w \in Workers : job'[w].stage # "idle" =>
                           Rank(job'[w].copy[c]) <= Rank(chain'[c])
    BY DEF CopyInv, Active
  <1>0. /\ job \in [Workers -> ActiveJobs \cup {Idle}]
        /\ ledger \in Ledgers
        /\ chain[c] \in Marks /\ chain'[c] \in Marks
    BY TypeStep DEF TypeOK
  <1>m. Rank(chain[c]) <= Rank(chain'[c])
    BY ChainMonotone
  <1>r. \A m \in Marks : Rank(m) \in {0, 1, 2}
    BY RankValues
  <1>f. c \notin offline
    <2>1. CASE offline' = offline
      BY <2>1
    <2>2. CASE \E w \in Clis, k \in Credentials, kind \in Kinds : CliStarts(w, k, kind)
      BY <2>2 DEF CliStarts
    <2>3. QED
      BY <2>1, <2>2 DEF Next, Progress, PortalStarts, Send, ChainCommits, ChainDrops,
         ChainReturns, ChainThrows, Load, Save, WriteFiles, Rollback, Crash
  <1>l. /\ ledger[c] \in Marks /\ Rank(ledger[c]) <= Rank(chain[c])
        /\ \A w \in Workers : Active(w) =>
             job[w].copy[c] \in Marks /\ Rank(job[w].copy[c]) <= Rank(chain[c])
    BY <1>0, <1>f DEF CopyInv, Ledgers, Active, ActiveJobs, Idle
  <1> USE DEF Workers
  \* A mark behind the chain before the step is behind it afterwards.
  <1>b. ASSUME NEW m \in Marks, Rank(m) <= Rank(chain[c])
        PROVE  Rank(m) <= Rank(chain'[c])
    BY <1>0, <1>m, <1>r, <1>b
  <1>1. ASSUME ledger'[c] = ledger[c] \/ \E w \in Workers : Active(w) /\ ledger'[c] = job[w].copy[c],
               \A w \in Workers : \/ job'[w].stage = "idle"
                                  \/ job'[w].copy = ledger
                                  \/ Active(w) /\ job'[w].copy = job[w].copy
        PROVE  /\ Rank(ledger'[c]) <= Rank(chain'[c])
               /\ \A w \in Workers : job'[w].stage # "idle" =>
                    Rank(job'[w].copy[c]) <= Rank(chain'[c])
    BY <1>l, <1>b, <1>1
  <1>2. ASSUME NEW w \in Workers, NEW k \in Credentials, NEW kind, NEW stage, StartJob(w, k, kind, stage)
        PROVE  \A v \in Workers : \/ job'[v].stage = "idle"
                                  \/ job'[v].copy = ledger
                                  \/ Active(v) /\ job'[v].copy = job[v].copy
    BY <1>0, <1>2 DEF StartJob, Active
  <1>3. ASSUME NEW w \in Workers, NEW stage, Active(w), Go(w, stage) \/ Finish(w)
        PROVE  \A v \in Workers : \/ job'[v].stage = "idle"
                                  \/ Active(v) /\ job'[v].copy = job[v].copy
    BY <1>0, <1>3 DEF Go, Finish, Active, ActiveJobs, Idle
  <1>4. ASSUME NEW w \in Workers, NEW k \in Credentials, NEW kind \in Kinds,
               PortalStarts(w, k, kind) \/ CliStarts(w, k, kind)
        PROVE  ledger' = ledger /\ \E stage : StartJob(w, k, kind, stage)
    BY <1>4 DEF PortalStarts, CliStarts, StartJob
  <1>5. ASSUME NEW w \in Workers, Send(w) \/ ChainReturns(w) \/ ChainThrows(w)
        PROVE  ledger' = ledger /\ Active(w) /\ (Finish(w) \/ \E stage : Go(w, stage))
    BY <1>5 DEF Send, ChainReturns, ChainThrows, Throw, At, Active
  <1>6. ASSUME NEW k \in Credentials, ChainCommits(k)
        PROVE  /\ ledger' = ledger
               /\ \A v \in Workers : \/ job'[v].stage = "idle"
                                     \/ Active(v) /\ job'[v].copy = job[v].copy
    BY <1>0, <1>6 DEF ChainCommits, WorkersOn, Active, ActiveJobs, Idle
  <1>7. ASSUME NEW k \in Credentials, ChainDrops(k)
        PROVE  ledger' = ledger /\ job' = job
    BY <1>7 DEF ChainDrops
  <1>8. ASSUME NEW w \in Workers, Load(w)
        PROVE  /\ ledger' = ledger
               /\ \A v \in Workers : \/ job'[v].stage = "idle"
                                     \/ job'[v].copy = ledger
                                     \/ Active(v) /\ job'[v].copy = job[v].copy
    BY <1>0, <1>8 DEF Load, At, Throw, Finish, Active, ActiveJobs, Idle
  <1>9. ASSUME NEW w \in Workers, WriteFiles(w) \/ Rollback(w)
        PROVE  /\ ledger' = ledger \/ ledger' = job[w].copy
               /\ Active(w) /\ (Finish(w) \/ \E stage : Go(w, stage))
    BY <1>9 DEF WriteFiles, Rollback, Throw, At, Active
  <1>10. ASSUME NEW process \in SUBSET Workers, Crash(process)
         PROVE  /\ ledger' = ledger
                /\ \A v \in Workers : job'[v] = Idle \/ job'[v] = job[v]
    BY <1>10 DEF Crash
  <1>11. ASSUME NEW w \in Workers, Save(w)
         PROVE  /\ Rank(ledger'[c]) <= Rank(chain'[c])
                /\ \A v \in Workers : job'[v].stage # "idle" =>
                     Rank(job'[v].copy[c]) <= Rank(chain'[c])
    <2>1. /\ job[w].stage = "save" /\ Active(w)
          /\ Finish(w) \/ \E stage : Go(w, stage)
          /\ \/ ledger' = ledger
             \/ ledger' = [job[w].copy EXCEPT ![job[w].credential] = Goal(job[w].kind)]
      BY <1>11 DEF Save, Throw, At, Active
    <2>2. CASE ledger'[c] = ledger[c] \/ ledger'[c] = job[w].copy[c]
      BY <1>1, <1>3, <2>1, <2>2
    <2>3. CASE ledger'[c] # ledger[c] /\ ledger'[c] # job[w].copy[c]
      <3>1. job[w].copy \in Ledgers /\ job[w].kind \in Kinds
        BY <1>0, <2>1 DEF Active, ActiveJobs, Idle
      <3>2. job[w].credential = c /\ ledger'[c] = Goal(job[w].kind)
        BY <2>1, <2>3, <3>1 DEF Ledgers
      <3>3. w \in Portal
        BY <1>f, <2>1, <3>2 DEF JobsInv
      <3>4. Rank(chain[c]) >= Rank(Goal(job[w].kind))
        BY <2>1, <3>2, <3>3 DEF ChainInv, Running
      <3>5. Goal(job[w].kind) \in Marks
        BY <3>1, KindValues DEF Kinds, Marks
      <3>6. Rank(ledger'[c]) <= Rank(chain'[c])
        BY <1>0, <1>b, <1>r, <3>2, <3>4, <3>5
      <3>7. \A v \in Workers : \/ job'[v].stage = "idle"
                               \/ Active(v) /\ job'[v].copy = job[v].copy
        BY <1>3, <2>1
      <3>8. QED
        BY <1>b, <1>l, <3>6, <3>7
    <2>4. QED
      BY <2>2, <2>3
  <1>12. CASE \E w \in Workers : Send(w) \/ ChainReturns(w) \/ ChainThrows(w)
    BY <1>1, <1>3, <1>5, <1>12
  <1>13. CASE \E w \in Workers : WriteFiles(w) \/ Rollback(w)
    BY <1>1, <1>3, <1>9, <1>13
  <1>14. CASE \E w \in Workers, k \in Credentials, kind \in Kinds :
                PortalStarts(w, k, kind) \/ CliStarts(w, k, kind)
    BY <1>1, <1>2, <1>4, <1>14
  <1>15. CASE \E process \in SUBSET Workers : Crash(process)
    BY <1>1, <1>10, <1>15 DEF Active, Idle
  <1>16. CASE \E k \in Credentials : ChainCommits(k) \/ ChainDrops(k)
    BY <1>1, <1>6, <1>7, <1>16 DEF Active
  <1>17. CASE \E w \in Workers : Load(w)
    BY <1>1, <1>8, <1>17
  <1>18. QED
    BY <1>11, <1>12, <1>13, <1>14, <1>15, <1>16, <1>17 DEF Next, Progress

\* As long as no two processes collide, one job writes at a time, and what it
\* puts in the ledger is what the others left there but for its own credential.
LEMMA WriteStep == TypeOK /\ JobsInv /\ (collided \/ WriteInv) /\ Next => collided' \/ WriteInv'
  <1> SUFFICES ASSUME TypeOK, JobsInv, collided \/ WriteInv, Next, ~collided'
               PROVE  WriteInv'
    OBVIOUS
  <1>f. ~collided
    <2>1. collided => collided'
      BY DEF Next, Progress, PortalStarts, CliStarts, StartJob, Send, ChainCommits, ChainDrops,
         ChainReturns, ChainThrows, Load, Save, WriteFiles, Rollback, Crash
    <2>2. QED
      BY <2>1
  <1>w. WriteInv
    BY <1>f
  <1>0. /\ job \in [Workers -> ActiveJobs \cup {Idle}]
        /\ operation \in [Portal -> Operations \cup {NoOperation}]
        /\ ledger \in [Credentials -> Marks]
    BY DEF TypeOK, Ledgers
  <1>t. \A w \in Workers : Active(w) =>
          /\ job[w] \in ActiveJobs
          /\ job[w].credential \in Credentials
          /\ job[w].kind \in Kinds
          /\ job[w].copy \in [Credentials -> Marks]
    BY <1>0 DEF Active, ActiveJobs, Idle, Ledgers
  <1>o. \A v \in Portal : operation[v].status \in Success =>
          operation[v].credential \in Credentials /\ operation[v].kind \in Kinds
    BY <1>0 DEF NoOperation, Success, Operations
  <1>r. \A m \in Marks : Rank(m) \in {0, 1, 2}
    BY RankValues
  <1> USE WorkersAssumption DEF Workers
  <1>c. \A w \in Workers : Writing(w) => Active(w) /\ job[w].stage \in {"save", "files", "rollback"}
    BY DEF Writing, Active
  \* Steps that start, suspend or end a job and leave ledger and reports alone.
  <1>1. ASSUME ledger' = ledger,
               \A w \in Workers : job'[w] = job[w] \/ job'[w].stage \notin {"save", "files", "rollback"},
               \A v \in Portal : operation'[v] = operation[v] \/ operation'[v].status \notin Success
        PROVE  WriteInv'
    <2>1. \A w \in Workers : Writing(w)' => Writing(w) /\ job'[w] = job[w]
      BY <1>1 DEF Writing
    <2>2. \A v, w \in Workers : Writing(v)' /\ Writing(w)' => v = w
      BY <1>w, <2>1 DEF WriteInv
    <2>3. \A w \in Workers : job'[w].stage = "files" =>
            Rank(ledger'[job'[w].credential]) >= Rank(Goal(job'[w].kind))
      BY <1>w, <1>1 DEF WriteInv
    <2>4. \A w \in Portal : operation'[w].status \in Success =>
            Rank(ledger'[operation'[w].credential]) >= Rank(Goal(operation'[w].kind))
      BY <1>w, <1>1 DEF WriteInv
    <2>5. \A w \in Workers : Writing(w)' =>
            /\ \A c \in Credentials \ {job'[w].credential} : job'[w].copy[c] = ledger'[c]
            /\ job'[w].copy[job'[w].credential] = Source(job'[w].kind)
            /\ job'[w].stage = "save" => ledger'[job'[w].credential] = Source(job'[w].kind)
            /\ job'[w].stage = "rollback" =>
                 ledger'[job'[w].credential] \in {Source(job'[w].kind), Goal(job'[w].kind)}
            /\ job'[w].kind = "revoke" =>
                 \A v \in Portal : /\ operation'[v].status \in Success
                                   /\ operation'[v].credential = job'[w].credential
                                   => operation'[v].kind = "issue"
      BY <1>w, <1>1, <2>1 DEF WriteInv
    <2>6. QED
      BY <2>2, <2>3, <2>4, <2>5 DEF WriteInv
  <1>2. ASSUME NEW w \in Workers, Active(w), Throw(w), ledger' = ledger
        PROVE  WriteInv'
    <2>1. \A v \in Workers : job'[v] = job[v] \/ job'[v].stage = "idle"
      BY <1>0, <1>2 DEF Throw, Finish, Idle
    <2>2. ASSUME NEW v \in Portal
          PROVE  operation'[v] = operation[v] \/ operation'[v].status \notin Success
      <3>1. CASE v = w
        <4>1. operation[w] \in Operations
          BY <1>2, <3>1 DEF JobsInv
        <4>2. operation'[w].status = "FAILED"
          BY <1>0, <1>2, <3>1, <4>1 DEF Throw, SetOperation, Operations
        <4>3. QED
          BY <3>1, <4>2 DEF Success
      <3>2. CASE v # w
        BY <1>0, <1>2, <3>2 DEF Throw, SetOperation
      <3>3. QED
        BY <3>1, <3>2
    <2>3. QED
      BY <1>1, <1>2, <2>1, <2>2
  <1>3. ASSUME NEW w \in Workers, Load(w)
        PROVE  WriteInv'
    <2>1. Active(w) /\ ledger' = ledger /\ job[w].stage = "load"
      BY <1>3 DEF Load, At, Active
    <2>2. CASE Throw(w)
      BY <1>2, <2>1, <2>2
    <2>3. CASE /\ ledger[job[w].credential] = Source(job[w].kind)
               /\ job' = [job EXCEPT ![w].stage = "save", ![w].copy = ledger]
               /\ collided' = (collided \/ \E v \in Workers \ {w} : Writing(v))
               /\ UNCHANGED operation
      <3>1. \A v \in Workers \ {w} : ~Writing(v)
        BY <2>3
      <3>2. /\ job'[w].stage = "save" /\ job'[w].copy = ledger
            /\ job'[w].kind = job[w].kind /\ job'[w].credential = job[w].credential
            /\ \A v \in Workers \ {w} : job'[v] = job[v]
        BY <1>0, <1>t, <2>1, <2>3 DEF ActiveJobs
      <3>3. \A v \in Workers : Writing(v)' => v = w
        BY <3>1, <3>2 DEF Writing
      <3>4. job[w].kind = "revoke" =>
              \A v \in Portal : /\ operation[v].status \in Success
                                /\ operation[v].credential = job[w].credential
                                => operation[v].kind = "issue"
        <4>1. SUFFICES ASSUME job[w].kind = "revoke", NEW v \in Portal,
                              operation[v].status \in Success,
                              operation[v].credential = job[w].credential,
                              operation[v].kind = "revoke"
                       PROVE  FALSE
          BY <1>o DEF Kinds
        <4>2. Rank(ledger[job[w].credential]) >= Rank(Goal("revoke"))
          BY <1>w, <4>1 DEF WriteInv
        <4>3. QED
          BY <2>3, <4>1, <4>2, RankValues, KindValues
      <3>5. /\ UNCHANGED <<ledger, operation>>
            /\ ledger[job[w].credential] = Source(job[w].kind)
        BY <2>1, <2>3
      <3>6. \A v \in Workers : job'[v].stage = "files" =>
              Rank(ledger'[job'[v].credential]) >= Rank(Goal(job'[v].kind))
        BY <1>w, <3>2, <3>5 DEF WriteInv
      <3>7. \A v \in Portal : operation'[v].status \in Success =>
              Rank(ledger'[operation'[v].credential]) >= Rank(Goal(operation'[v].kind))
        BY <1>w, <3>5 DEF WriteInv
      <3>8. QED
        BY <3>2, <3>3, <3>4, <3>5, <3>6, <3>7 DEF WriteInv
    <2>4. QED
      BY <1>3, <2>2, <2>3 DEF Load
  \* A job that goes to roll its revocation back.
  <1>4. ASSUME NEW w \in Workers, Writing(w), job[w].kind = "revoke", Go(w, "rollback"),
               ledger' = ledger, UNCHANGED operation
        PROVE  WriteInv'
    <2>1. /\ job'[w].stage = "rollback" /\ job'[w].copy = job[w].copy
          /\ job'[w].kind = job[w].kind /\ job'[w].credential = job[w].credential
          /\ \A v \in Workers \ {w} : job'[v] = job[v]
      BY <1>0, <1>4, <1>c, <1>t DEF Go, ActiveJobs
    <2>2. \A v \in Workers : Writing(v)' => v = w
      BY <1>w, <1>4, <2>1 DEF WriteInv, Writing
    <2>3. ledger[job[w].credential] \in {Source(job[w].kind), Goal(job[w].kind)}
      <3>1. CASE job[w].stage \in {"save", "rollback"}
        BY <1>w, <1>4, <3>1 DEF WriteInv
      <3>2. CASE job[w].stage = "files"
        <4>1. Rank(ledger[job[w].credential]) >= Rank(Goal("revoke"))
          BY <1>w, <1>4, <3>2 DEF WriteInv
        <4>2. ledger[job[w].credential] \in Marks
          BY <1>0, <1>4, <1>c, <1>t
        <4>3. QED
          BY <1>4, <4>1, <4>2, RankValues, KindValues DEF Marks
      <3>3. QED
        BY <1>4, <1>c, <3>1, <3>2
    <2>4. QED
      BY <1>w, <1>4, <2>1, <2>2, <2>3 DEF WriteInv
  <1>5. ASSUME NEW w \in Workers, job[w].stage = "save", Go(w, "files"), UNCHANGED operation,
               ledger' = [job[w].copy EXCEPT ![job[w].credential] = Goal(job[w].kind)]
        PROVE  WriteInv'
    <2>1. Writing(w) /\ Active(w)
      BY <1>5 DEF Writing, Active
    <2>2. /\ job'[w].stage = "files" /\ job'[w].copy = job[w].copy
          /\ job'[w].kind = job[w].kind /\ job'[w].credential = job[w].credential
          /\ \A v \in Workers \ {w} : job'[v] = job[v]
      BY <1>0, <1>5, <1>t, <2>1 DEF Go, ActiveJobs
    <2>3. /\ ledger'[job[w].credential] = Goal(job[w].kind)
          /\ \A c \in Credentials \ {job[w].credential} : ledger'[c] = ledger[c]
          /\ ledger[job[w].credential] = Source(job[w].kind)
      BY <1>w, <1>5, <1>t, <2>1 DEF WriteInv
    <2>4. \A c \in Credentials : Rank(ledger'[c]) >= Rank(ledger[c])
      BY <1>0, <1>r, <1>t, <2>1, <2>3, RankValues, KindValues DEF Kinds
    <2>5. Rank(ledger'[job[w].credential]) >= Rank(Goal(job[w].kind))
      BY <1>t, <2>1, <2>3, RankValues, KindValues DEF Kinds
    <2>6. ASSUME NEW c \in Credentials, NEW kind \in Kinds, Rank(ledger[c]) >= Rank(Goal(kind))
          PROVE  Rank(ledger'[c]) >= Rank(Goal(kind))
      <3>1. ledger'[c] \in Marks /\ ledger[c] \in Marks /\ Goal(kind) \in Marks
        BY <1>0, <1>t, <2>1, <2>3, KindValues DEF Kinds, Marks
      <3>2. QED
        BY <1>r, <2>4, <2>6, <3>1
    <2>7. \A v \in Workers : Writing(v)' => v = w
      BY <1>w, <2>1, <2>2 DEF WriteInv, Writing
    <2>8. \A v \in Workers : job'[v].stage = "files" =>
            Rank(ledger'[job'[v].credential]) >= Rank(Goal(job'[v].kind))
      <3>1. \A v \in Workers \ {w} : job[v].stage = "files" => Active(v)
        BY DEF Active
      <3>2. QED
        BY <1>w, <1>t, <2>2, <2>5, <2>6, <3>1 DEF WriteInv
    <2>9. \A v \in Portal : operation[v].status \in Success =>
            Rank(ledger'[operation[v].credential]) >= Rank(Goal(operation[v].kind))
      BY <1>w, <1>o, <2>6 DEF WriteInv
    <2>10. /\ \A c \in Credentials \ {job[w].credential} : job[w].copy[c] = ledger'[c]
           /\ job[w].copy[job[w].credential] = Source(job[w].kind)
           /\ job[w].kind = "revoke" =>
                \A v \in Portal : /\ operation[v].status \in Success
                                  /\ operation[v].credential = job[w].credential
                                  => operation[v].kind = "issue"
      BY <1>w, <2>1, <2>3 DEF WriteInv
    <2>11. QED
      BY <1>5, <2>2, <2>7, <2>8, <2>9, <2>10 DEF WriteInv
  <1>6. ASSUME NEW w \in Workers, Save(w)
        PROVE  WriteInv'
    <2>1. job[w].stage = "save" /\ Writing(w) /\ Active(w)
      BY <1>6 DEF Save, At, Writing, Active
    <2>2. QED
      BY <1>2, <1>4, <1>5, <1>6, <2>1 DEF Save
  \* A job that is done: its row reports success, if it has one.
  <1>7. ASSUME NEW w \in Workers, job[w].stage = "files", ledger' = ledger, Finish(w),
               IF w \in Portal THEN SetOperation(w, FinalStatus(w)) ELSE UNCHANGED operation
        PROVE  WriteInv'
    <2>1. Active(w)
      BY <1>7 DEF Active
    <2>2. /\ job'[w].stage = "idle"
          /\ \A v \in Workers \ {w} : job'[v] = job[v]
      BY <1>0, <1>7 DEF Finish, Idle
    <2>3. /\ \A v \in Portal \ {w} : operation'[v] = operation[v]
          /\ w \in Portal => /\ operation'[w].credential = job[w].credential
                             /\ operation'[w].kind = job[w].kind
      <3>1. w \in Portal => /\ operation[w] \in Operations
                            /\ operation[w].credential = job[w].credential
                            /\ operation[w].kind = job[w].kind
        BY <2>1 DEF JobsInv
      <3>2. QED
        BY <1>0, <1>7, <3>1 DEF SetOperation, Operations
    <2>4. \A v \in Workers : Writing(v)' => v # w /\ Writing(v) /\ job'[v] = job[v]
      BY <2>2 DEF Writing
    <2>5. Rank(ledger[job[w].credential]) >= Rank(Goal(job[w].kind))
      BY <1>w, <1>7 DEF WriteInv
    <2>6. ASSUME NEW v \in Workers, Writing(v)', job[v].kind = "revoke",
                 NEW u \in Portal, operation'[u].status \in Success,
                 operation'[u].credential = job[v].credential
          PROVE  operation'[u].kind = "issue"
      <3>1. CASE u = w
        <4>1. job[w].kind # "revoke"
          BY <1>w, <1>7, <2>4, <2>6 DEF WriteInv, Writing
        <4>2. QED
          BY <1>t, <2>1, <2>3, <3>1, <4>1 DEF Kinds
      <3>2. CASE u # w
        BY <1>w, <2>3, <2>4, <2>6, <3>2 DEF WriteInv
      <3>3. QED
        BY <3>1, <3>2
    <2>7. \A v, u \in Workers : Writing(v)' /\ Writing(u)' => v = u
      BY <1>w, <2>4 DEF WriteInv
    <2>8. \A v \in Workers : job'[v].stage = "files" =>
            Rank(ledger'[job'[v].credential]) >= Rank(Goal(job'[v].kind))
      BY <1>w, <1>7, <2>2 DEF WriteInv
    <2>9. \A v \in Portal : operation'[v].status \in Success =>
            Rank(ledger'[operation'[v].credential]) >= Rank(Goal(operation'[v].kind))
      BY <1>w, <1>7, <2>3, <2>5 DEF WriteInv
    <2>10. \A v \in Workers : Writing(v)' =>
             /\ \A c \in Credentials \ {job'[v].credential} : job'[v].copy[c] = ledger'[c]
             /\ job'[v].copy[job'[v].credential] = Source(job'[v].kind)
             /\ job'[v].stage = "save" => ledger'[job'[v].credential] = Source(job'[v].kind)
             /\ job'[v].stage = "rollback" =>
                  ledger'[job'[v].credential] \in {Source(job'[v].kind), Goal(job'[v].kind)}
      BY <1>w, <1>7, <2>4 DEF WriteInv
    <2>11. QED
      BY <2>4, <2>6, <2>7, <2>8, <2>9, <2>10 DEF WriteInv
  <1>8. ASSUME NEW w \in Workers, WriteFiles(w)
        PROVE  WriteInv'
    <2>1. job[w].stage = "files" /\ Active(w) /\ ledger' = ledger
      BY <1>8 DEF WriteFiles, At, Active
    <2>2. job[w].kind = "revoke" => Writing(w)
      BY <2>1 DEF Writing
    <2>3. QED
      BY <1>2, <1>4, <1>7, <1>8, <2>1, <2>2 DEF WriteFiles
  <1>9. ASSUME NEW w \in Workers, Rollback(w)
        PROVE  WriteInv'
    <2>1. job[w].stage = "rollback" /\ Active(w) /\ job[w].kind = "revoke" /\ Writing(w) /\ Throw(w)
      BY <1>9 DEF Rollback, At, Active, JobsInv, Writing
    <2>2. CASE ledger' = ledger
      BY <1>2, <2>1, <2>2
    <2>3. CASE ledger' = job[w].copy
      <3>1. /\ \A c \in Credentials \ {job[w].credential} : ledger'[c] = ledger[c]
            /\ ledger'[job[w].credential] = "ACTIVE"
        BY <1>w, <2>1, <2>3, KindValues DEF WriteInv
      <3>2. /\ job'[w].stage = "idle"
            /\ \A v \in Workers \ {w} : job'[v] = job[v]
        BY <1>0, <2>1 DEF Throw, Finish, Idle
      <3>3. \A v \in Workers : ~Writing(v)'
        BY <1>w, <2>1, <3>2 DEF WriteInv, Writing
      <3>4. ASSUME NEW v \in Workers, job'[v].stage = "files"
            PROVE  Rank(ledger'[job'[v].credential]) >= Rank(Goal(job'[v].kind))
        <4>1. v # w /\ job'[v] = job[v] /\ Active(v)
          BY <3>2, <3>4 DEF Active
        <4>2. job[v].kind = "issue"
          BY <1>t, <3>3, <3>4, <4>1 DEF Writing, Kinds
        <4>3. Rank(ledger[job[v].credential]) >= Rank(Goal("issue"))
          BY <1>w, <3>4, <4>1, <4>2 DEF WriteInv
        <4>4. QED
          BY <1>t, <3>1, <4>1, <4>2, <4>3, RankValues, KindValues
      <3>5. ASSUME NEW v \in Portal, operation'[v].status \in Success
            PROVE  Rank(ledger'[operation'[v].credential]) >= Rank(Goal(operation'[v].kind))
        <4>1. v # w
          <5>1. CASE w \in Portal
            <6>1. operation[w] \in Operations
              BY <2>1, <5>1 DEF JobsInv
            <6>2. operation'[w].status = "FAILED"
              BY <1>0, <2>1, <5>1, <6>1 DEF Throw, SetOperation, Operations
            <6>3. QED
              BY <3>5, <6>2 DEF Success
          <5>2. CASE w \notin Portal
            BY <5>2
          <5>3. QED
            BY <5>1, <5>2
        <4>2. operation'[v] = operation[v]
          BY <1>0, <2>1, <4>1 DEF Throw, SetOperation
        <4>3. Rank(ledger[operation[v].credential]) >= Rank(Goal(operation[v].kind))
          BY <1>w, <3>5, <4>2 DEF WriteInv
        <4>4. operation[v].credential = job[w].credential => operation[v].kind = "issue"
          BY <1>w, <2>1, <3>5, <4>2 DEF WriteInv
        <4>5. QED
          BY <1>o, <3>1, <3>5, <4>2, <4>3, <4>4, RankValues, KindValues
      <3>6. QED
        BY <3>3, <3>4, <3>5 DEF WriteInv
    <2>4. QED
      BY <1>9, <2>2, <2>3 DEF Rollback
  <1>10. ASSUME NEW w \in Workers, NEW c \in Credentials, NEW kind \in Kinds,
                \/ w \in Portal /\ PortalStarts(w, c, kind)
                \/ w \in Clis /\ CliStarts(w, c, kind)
         PROVE  WriteInv'
    <2>1. ledger' = ledger /\ \A v \in Workers \ {w} : job'[v] = job[v]
      BY <1>0, <1>10 DEF PortalStarts, CliStarts, StartJob
    <2>2. job'[w].stage \in {"chain", "load"}
      BY <1>0, <1>10, ChainWritesAssumption DEF PortalStarts, CliStarts, StartJob
    <2>3. \A v \in Portal : operation'[v] = operation[v] \/ operation'[v].status \notin Success
      BY <1>0, <1>10 DEF PortalStarts, CliStarts, Success
    <2>4. QED
      BY <1>1, <2>1, <2>2, <2>3
  <1>11. ASSUME NEW w \in Workers, Send(w) \/ ChainReturns(w)
         PROVE  WriteInv'
    <2>1. Active(w) /\ ledger' = ledger /\ (Go(w, "sent") \/ Go(w, "load"))
      BY <1>11 DEF Send, ChainReturns, At, Active
    <2>2. \A v \in Workers : job'[v] = job[v] \/ job'[v].stage \in {"sent", "load"}
      BY <1>0, <1>t, <2>1 DEF Go, ActiveJobs
    <2>3. ASSUME NEW v \in Portal
          PROVE  operation'[v] = operation[v] \/ operation'[v].status \notin Success
      <3>1. CASE Send(w) \/ v # w
        BY <1>0, <1>11, <3>1 DEF Send, ChainReturns
      <3>2. CASE ChainReturns(w) /\ v = w
        <4>1. operation[w] \in Operations
          BY <2>1, <3>2 DEF JobsInv
        <4>2. operation'[w].status = "CHAIN_COMMITTED"
          BY <1>0, <3>2, <4>1 DEF ChainReturns, Operations
        <4>3. QED
          BY <3>2, <4>2 DEF Success
      <3>3. QED
        BY <1>11, <3>1, <3>2
    <2>4. QED
      BY <1>1, <2>1, <2>2, <2>3
  <1>12. ASSUME NEW w \in Workers, ChainThrows(w)
         PROVE  WriteInv'
    BY <1>2, <1>12 DEF ChainThrows, At, Active
  <1>13. ASSUME NEW c \in Credentials, ChainCommits(c) \/ ChainDrops(c)
         PROVE  WriteInv'
    <2>1. ledger' = ledger /\ operation' = operation
      BY <1>13 DEF ChainCommits, ChainDrops
    <2>2. \A v \in Workers : job'[v] = job[v] \/ job'[v].stage = "landed"
      BY <1>0, <1>13, <1>t DEF ChainCommits, ChainDrops, WorkersOn, ActiveJobs
    <2>3. QED
      BY <1>1, <2>1, <2>2
  <1>14. ASSUME NEW process \in SUBSET Workers, Crash(process)
         PROVE  WriteInv'
    BY <1>1, <1>14 DEF Crash, Idle
  <1>15. QED
    BY <1>3, <1>6, <1>8, <1>9, <1>10, <1>11, <1>12, <1>13, <1>14 DEF Next, Progress

-----------------------------------------------------------------------------
\* The inductive invariant is preserved by every step and by stuttering.
LEMMA InvariantStep == IInv /\ [Next]_vars => IInv'
  <1>1. IInv /\ Next => IInv'
    BY TypeStep, JobsStep, ChainStep, CopyStep, WriteStep DEF IInv
  <1>2. ASSUME IInv, UNCHANGED vars
        PROVE  IInv'
    <2>1. TypeOK' /\ JobsInv'
      BY <1>2 DEF vars, IInv, TypeOK, JobsInv, Active
    <2>2. ChainInv' /\ CopyInv'
      BY <1>2 DEF vars, IInv, ChainInv, CopyInv, Active
    <2>3. (collided \/ WriteInv) => (collided' \/ WriteInv')
      BY <1>2 DEF vars, WriteInv, Writing
    <2>4. QED
      BY <1>2, <2>1, <2>2, <2>3 DEF IInv
  <1>3. QED
    BY <1>1, <1>2

\* Whatever jobs run, fail, are interrupted or collide, the invariant holds.
THEOREM Invariance == Spec => []IInv
  <1>1. QED
    BY InitInvariant, InvariantStep, PTL DEF Spec

\* The variables keep their types.
THEOREM TypeCorrect == Spec => []TypeOK
  <1>1. IInv => TypeOK
    BY DEF IInv
  <1>2. QED
    BY <1>1, Invariance, PTL

\* Issuing and revoking change the chain first: whatever fails, crashes or
\* collides afterwards, the ledger never says more than the chain of a
\* credential only the portal worked on.
THEOREM LedgerBehindChain == Spec => []LedgerNeverAheadOfChain
  <1>1. IInv => LedgerNeverAheadOfChain
    BY DEF IInv, CopyInv, LedgerNeverAheadOfChain
  <1>2. QED
    BY <1>1, Invariance, PTL

\* An operations row that reports success or carries chain evidence is right
\* about the ledger and the chain.
THEOREM OperationsCorrect == Spec => []OperationsTellTheTruth
  <1>1. IInv => OperationsTellTheTruth
    BY DEF IInv, ChainInv, WriteInv, Success, OperationsTellTheTruth
  <1>2. QED
    BY <1>1, Invariance, PTL

\* Without collisions a step lowers an entry of the ledger only by rolling back
\* a revocation of that credential.
LEMMA LoweringStep ==
  IInv /\ [Next]_vars =>
    \A c \in Credentials :
      Rank(ledger'[c]) < Rank(ledger[c]) =>
        \/ collided
        \/ \E w \in Workers :
             job[w].stage = "rollback" /\ job[w].kind = "revoke" /\ job[w].credential = c
  <1> SUFFICES ASSUME IInv, [Next]_vars, ~collided, NEW c \in Credentials,
                      Rank(ledger'[c]) < Rank(ledger[c])
               PROVE  \E w \in Workers :
                        job[w].stage = "rollback" /\ job[w].kind = "revoke" /\ job[w].credential = c
    OBVIOUS
  <1>0. TypeOK /\ JobsInv /\ WriteInv
    BY DEF IInv
  <1>1. ledger[c] \in Marks /\ Rank(ledger[c]) \in {0, 1, 2}
    BY <1>0, RankValues DEF TypeOK, Ledgers
  <1>2. ledger' # ledger
    BY <1>1
  <1>3. PICK w \in Workers : Save(w) \/ Rollback(w)
    BY <1>2 DEF Next, Progress, vars, PortalStarts, CliStarts, StartJob, Send, ChainCommits, ChainDrops,
       ChainReturns, ChainThrows, Load, WriteFiles, Crash, Workers
  <1>4. Writing(w) /\ Active(w)
    BY <1>0, <1>3 DEF Save, Rollback, At, Writing, Active, JobsInv
  <1>5. /\ job[w].kind \in Kinds /\ job[w].copy \in [Credentials -> Marks]
        /\ job[w].credential \in Credentials
    BY <1>0, <1>4 DEF TypeOK, Active, ActiveJobs, Idle, Ledgers
  <1>6. \A d \in Credentials \ {job[w].credential} : job[w].copy[d] = ledger[d]
    BY <1>0, <1>4 DEF WriteInv
  <1>7. CASE Save(w)
    <2>1. ledger' = [job[w].copy EXCEPT ![job[w].credential] = Goal(job[w].kind)]
      BY <1>2, <1>7 DEF Save
    <2>2. ledger[job[w].credential] = Source(job[w].kind)
      BY <1>0, <1>4, <1>7 DEF WriteInv, Save, At
    <2>3. CASE c = job[w].credential
      BY <1>5, <2>1, <2>2, <2>3, RankValues, KindValues DEF Kinds
    <2>4. CASE c # job[w].credential
      BY <1>1, <1>5, <1>6, <2>1, <2>4
    <2>5. QED
      BY <2>3, <2>4
  <1>8. CASE Rollback(w)
    <2>1. ledger' = job[w].copy /\ job[w].stage = "rollback"
      BY <1>2, <1>8 DEF Rollback, At
    <2>2. job[w].kind = "revoke"
      BY <1>0, <2>1 DEF JobsInv
    <2>3. c = job[w].credential
      BY <1>1, <1>6, <2>1
    <2>4. QED
      BY <2>1, <2>2, <2>3
  <1>9. QED
    BY <1>3, <1>7, <1>8

\* Whole-file saves do no harm to bystanders: without collisions, only the
\* rollback of a revocation lowers an entry, and only its own.
THEOREM LoweringIsRollback == Spec => OnlyOwnRollbackLowers
  <1>1. QED
    BY LoweringStep, Invariance, PTL DEF Spec, OnlyOwnRollbackLowers

-----------------------------------------------------------------------------
(* The ledger and the chain agree.                                         *)

\* For a credential no job failed on: the ledger is behind the chain only while
\* a job that saw the chain commit has yet to save, a transaction is in flight
\* only while a job waits for it, and a job knows where the chain is.
Fresh(c) ==
  /\ ledger[c] # chain[c] =>
       \E w \in WorkersOn(c) : job[w].stage \in {"landed", "load", "save", "rollback"}
  /\ c \in inflight => \E w \in WorkersOn(c) : job[w].stage = "sent"
  /\ \A w \in WorkersOn(c) :
       /\ job[w].kind = "issue" =>
            (\A v \in WorkersOn(c) : v = w) /\ (ledger[c] = "NONE" \/ job[w].stage = "files")
       /\ job[w].kind = "revoke" => ledger[c] # "NONE" /\ chain[c] # "NONE"
       /\ job[w].stage = "sent" => chain[c] = Source(job[w].kind)
       /\ job[w].stage = "landed" \/ job[w].stage \in Running => chain[c] = Goal(job[w].kind)
       /\ job[w].stage = "files" => ledger[c] = Goal(job[w].kind)

AgreeInv ==
  ChainWrites /\ ~collided => \A c \in Credentials \ (torn \cup offline) : Fresh(c)

\* Nothing has been recorded anywhere.
LEMMA AgreeInit == Init => AgreeInv
  BY DEF Init, AgreeInv, Fresh, WorkersOn, Active, Idle, Workers

\* A credential stays fresh when nothing of it is touched.
LEMMA FreshStays ==
  ASSUME NEW c \in Credentials, Fresh(c), ledger'[c] = ledger[c], chain'[c] = chain[c],
         c \in inflight' => c \in inflight, WorkersOn(c)' = WorkersOn(c),
         \A v \in WorkersOn(c) : job'[v] = job[v]
  PROVE  Fresh(c)'
  BY DEF Fresh

\* The jobs on other credentials than a worker's are the same after its step.
LEMMA OtherJobs ==
  ASSUME TypeOK, NEW w \in Workers, Active(w), NEW c, c # job[w].credential,
         NEW new, job' = [job EXCEPT ![w] = new],
         new.stage # "idle" => new.credential = job[w].credential
  PROVE  /\ WorkersOn(c)' = WorkersOn(c)
         /\ \A v \in WorkersOn(c) : job'[v] = job[v]
  BY DEF TypeOK, WorkersOn, Active

\* Without collisions only a job on a credential changes its ledger entry.
LEMMA LedgerKept ==
  ASSUME IInv, Next, ~collided, NEW c \in Credentials, WorkersOn(c) = {}
  PROVE  ledger'[c] = ledger[c]
  <1>0. TypeOK /\ JobsInv /\ WriteInv
    BY DEF IInv
  <1>1. CASE ledger' # ledger
    <2>1. PICK w \in Workers : Save(w) \/ Rollback(w)
      BY <1>1 DEF Next, Progress, PortalStarts, CliStarts, StartJob, Send, ChainCommits, ChainDrops,
         ChainReturns, ChainThrows, Load, WriteFiles, Crash, Workers
    <2>2. Writing(w) /\ Active(w)
      BY <1>0, <2>1 DEF Save, Rollback, At, Writing, Active, JobsInv
    <2>3. /\ job[w].copy \in [Credentials -> Marks]
          /\ job[w].credential # c
      BY <1>0, <2>2 DEF TypeOK, Active, ActiveJobs, Idle, Ledgers, WorkersOn
    <2>4. job[w].copy[c] = ledger[c]
      BY <1>0, <2>2, <2>3 DEF WriteInv
    <2>5. QED
      BY <1>1, <2>1, <2>3, <2>4 DEF Save, Rollback
  <1>2. QED
    BY <1>1

\* A step of a worker that goes on, or of the portal, keeps every fresh
\* credential fresh; one that fails marks its credential torn.
LEMMA WorkerAgrees ==
  ASSUME IInv, AgreeInv, ChainWrites, NEW w \in Workers, Progress(w) \/ Send(w),
         ~collided', NEW c \in Credentials, c \notin torn', c \notin offline'
  PROVE  Fresh(c)'
  <1>0. /\ TypeOK /\ JobsInv
        /\ job \in [Workers -> ActiveJobs \cup {Idle}]
    BY DEF IInv, TypeOK
  <1>1. Active(w)
    BY DEF Progress, Send, ChainReturns, ChainThrows, Load, Save, WriteFiles, Rollback, At, Active
  <1>2. job[w] \in ActiveJobs
    BY <1>0, <1>1, StageValues
  <1>3. /\ job[w].credential \in Credentials
        /\ job[w].kind \in Kinds
        /\ job[w].copy \in [Credentials -> Marks]
    BY <1>2 DEF ActiveJobs, Ledgers
  <1>4. ~collided /\ c \notin torn /\ c \notin offline
    <2>1. ~collided
      BY DEF Progress, Send, ChainReturns, ChainThrows, Load, Save, WriteFiles, Rollback
    <2>2. torn \subseteq torn'
      BY DEF Progress, Send, ChainReturns, ChainThrows, Load, Save, WriteFiles, Rollback, Throw
    <2>3. offline' = offline
      BY DEF Progress, Send, ChainReturns, ChainThrows, Load, Save, WriteFiles, Rollback
    <2>4. QED
      BY <2>1, <2>2, <2>3
  <1>5. Fresh(c) /\ WriteInv
    BY <1>4 DEF AgreeInv, IInv
  <1>6. ledger \in [Credentials -> Marks] /\ chain \in [Credentials -> Marks]
    BY <1>0 DEF TypeOK, Ledgers
  \* what a worker on another credential leaves alone
  <1>7. CASE c # job[w].credential
    <2>1. ledger'[c] = ledger[c]
      <3>1. CASE Save(w) \/ Rollback(w)
        <4>1. Writing(w)
          BY <1>0, <3>1 DEF Save, Rollback, At, Writing, JobsInv
        <4>2. job[w].copy[c] = ledger[c]
          BY <1>5, <1>7, <4>1 DEF WriteInv
        <4>3. QED
          BY <1>3, <1>7, <3>1, <4>2 DEF Save, Rollback
      <3>2. CASE ledger' = ledger
        BY <3>2
      <3>3. QED
        BY <3>1, <3>2 DEF Progress, Send, ChainReturns, ChainThrows, Load, WriteFiles
    <2>2. chain'[c] = chain[c] /\ (c \in inflight' => c \in inflight)
      BY <1>7 DEF Progress, Send, ChainReturns, ChainThrows, Load, Save, WriteFiles, Rollback
    <2>3. \E new : job' = [job EXCEPT ![w] = new]
                   /\ (new.stage # "idle" => new.credential = job[w].credential)
      <3>1. CASE job' = [job EXCEPT ![w] = Idle]
        <4>1. Idle.stage = "idle"
          BY DEF Idle
        <4>2. QED
          BY <3>1, <4>1
      <3>2. CASE \E stage : Go(w, stage)
        <4>1. PICK stage : Go(w, stage)
          BY <3>2
        <4>2. job' = [job EXCEPT ![w] = [job[w] EXCEPT !.stage = stage]]
          BY <1>0, <4>1 DEF Go
        <4>3. [job[w] EXCEPT !.stage = stage].credential = job[w].credential
          BY <1>2 DEF ActiveJobs
        <4>4. QED
          BY <4>2, <4>3
      <3>3. CASE job' = [job EXCEPT ![w].stage = "save", ![w].copy = ledger]
        <4>1. job' = [job EXCEPT ![w] = [job[w] EXCEPT !.stage = "save", !.copy = ledger]]
          BY <1>0, <3>3
        <4>2. [job[w] EXCEPT !.stage = "save", !.copy = ledger].credential = job[w].credential
          BY <1>2 DEF ActiveJobs
        <4>3. QED
          BY <4>1, <4>2
      <3>4. QED
        BY <3>1, <3>2, <3>3
        DEF Progress, Send, ChainReturns, ChainThrows, Load, Save, WriteFiles, Rollback, Throw, Finish
    <2>4. /\ WorkersOn(c)' = WorkersOn(c)
          /\ \A v \in WorkersOn(c) : job'[v] = job[v]
      BY <1>0, <1>1, <1>7, <2>3, OtherJobs
    <2>5. QED
      BY <1>5, <2>1, <2>2, <2>4, FreshStays
  \* what a worker on the credential does
  <1>8. CASE c = job[w].credential
    <2>1. w \in Portal /\ w \in WorkersOn(c)
      BY <1>0, <1>1, <1>4, <1>8 DEF JobsInv, WorkersOn, Workers
    <2>2. ~Throw(w)
      BY <1>8 DEF Throw
    <2>3. /\ \A v \in WorkersOn(c) : job[v].kind \in Kinds
      BY <1>0 DEF WorkersOn, Active, ActiveJobs, Idle
    <2>4. ASSUME NEW stage \in Awaiting \cup Running,
                 job' = [job EXCEPT ![w].stage = stage] \/
                 job' = [job EXCEPT ![w].stage = stage, ![w].copy = ledger]
          PROVE  /\ WorkersOn(c)' = WorkersOn(c)
                 /\ \A v \in WorkersOn(c) : v # w => job'[v] = job[v]
                 /\ \A v \in WorkersOn(c) : job'[v].kind = job[v].kind
                 /\ job'[w].stage = stage
      BY <1>0, <1>2, <2>1, <2>4 DEF WorkersOn, Active, ActiveJobs, Awaiting, Running
    <2>5. CASE Send(w)
      <3>1. /\ ledger' = ledger /\ chain' = chain
            /\ chain[c] = Source(job[w].kind)
            /\ job' = [job EXCEPT ![w].stage = "sent"]
            /\ job[w].stage = "chain"
        BY <1>8, <2>5 DEF Send, Go, At
      <3>2. /\ WorkersOn(c)' = WorkersOn(c)
            /\ \A v \in WorkersOn(c) : v # w => job'[v] = job[v]
            /\ \A v \in WorkersOn(c) : job'[v].kind = job[v].kind
            /\ job'[w].stage = "sent"
        BY <2>4, <3>1 DEF Awaiting
      <3>3. QED
        BY <1>5, <2>1, <3>1, <3>2 DEF Fresh, Running
    <2>6. CASE ChainReturns(w)
      <3>1. /\ ledger' = ledger /\ chain' = chain /\ inflight' = inflight
            /\ job' = [job EXCEPT ![w].stage = "load"]
            /\ job[w].stage = "landed"
        BY <2>6 DEF ChainReturns, Go, At
      <3>2. /\ WorkersOn(c)' = WorkersOn(c)
            /\ \A v \in WorkersOn(c) : v # w => job'[v] = job[v]
            /\ \A v \in WorkersOn(c) : job'[v].kind = job[v].kind
            /\ job'[w].stage = "load"
        BY <2>4, <3>1 DEF Running
      <3>3. QED
        BY <1>5, <2>1, <3>1, <3>2 DEF Fresh, Running
    <2>7. CASE Load(w)
      <3>1. /\ ledger' = ledger /\ chain' = chain /\ inflight' = inflight
            /\ job[w].stage = "load"
        BY <2>2, <2>7 DEF Load, At
      <3>0. job' = [job EXCEPT ![w].stage = "save", ![w].copy = ledger]
        BY <2>2, <2>7 DEF Load
      <3>2. /\ WorkersOn(c)' = WorkersOn(c)
            /\ \A v \in WorkersOn(c) : v # w => job'[v] = job[v]
            /\ \A v \in WorkersOn(c) : job'[v].kind = job[v].kind
            /\ job'[w].stage = "save"
        BY <2>4, <3>0 DEF Running
      <3>3. QED
        BY <1>5, <2>1, <3>1, <3>2 DEF Fresh, Running
    <2>8. CASE Save(w)
      <3>1. job[w].stage = "save" /\ chain' = chain /\ inflight' = inflight
        BY <2>8 DEF Save, At
      <3>2. chain[c] = Goal(job[w].kind)
        BY <1>5, <2>1, <3>1 DEF Fresh, Running
      <3>3. CASE /\ ledger' = [job[w].copy EXCEPT ![job[w].credential] = Goal(job[w].kind)]
                 /\ Go(w, "files")
        <4>1. ledger'[c] = Goal(job[w].kind)
          BY <1>3, <1>8, <3>3
        <4>2. /\ WorkersOn(c)' = WorkersOn(c)
              /\ \A v \in WorkersOn(c) : v # w => job'[v] = job[v]
              /\ \A v \in WorkersOn(c) : job'[v].kind = job[v].kind
              /\ job'[w].stage = "files"
          BY <2>4, <3>3 DEF Running, Go
        <4>3. \A v \in WorkersOn(c) : v # w => job[v].kind # "issue" /\ job[v].stage # "files"
          <5>1. ASSUME NEW v \in WorkersOn(c), v # w, job[v].stage = "files"
                PROVE  FALSE
            <6>1. /\ ledger[c] = Goal(job[v].kind)
                  /\ chain[c] = Goal(job[v].kind)
              BY <1>5, <5>1 DEF Fresh, Running
            <6>2. ledger[c] = Source(job[w].kind)
              BY <1>5, <1>8, <3>1 DEF WriteInv, Writing
            <6>3. QED
              BY <1>3, <3>2, <6>1, <6>2, KindValues DEF Kinds
          <5>2. QED
            BY <1>5, <2>1, <5>1 DEF Fresh
        <4>4. QED
          BY <1>3, <1>5, <2>1, <2>3, <3>1, <3>2, <4>1, <4>2, <4>3, KindValues DEF Fresh, Running, Kinds
      <3>4. CASE job[w].kind = "revoke" /\ Go(w, "rollback") /\ ledger' = ledger
        <4>1. /\ WorkersOn(c)' = WorkersOn(c)
              /\ \A v \in WorkersOn(c) : v # w => job'[v] = job[v]
              /\ \A v \in WorkersOn(c) : job'[v].kind = job[v].kind
              /\ job'[w].stage = "rollback"
          BY <2>4, <3>4 DEF Running, Go
        <4>2. QED
          BY <1>5, <2>1, <3>1, <3>4, <4>1 DEF Fresh, Running
      <3>5. QED
        BY <2>2, <2>8, <3>3, <3>4 DEF Save
    <2>9. CASE WriteFiles(w)
      <3>1. job[w].stage = "files" /\ chain' = chain /\ inflight' = inflight /\ ledger' = ledger
        BY <2>9 DEF WriteFiles, At
      <3>2. ledger[c] = Goal(job[w].kind) /\ chain[c] = Goal(job[w].kind)
        BY <1>5, <2>1, <3>1 DEF Fresh, Running
      <3>3. CASE Finish(w)
        <4>1. /\ WorkersOn(c)' = WorkersOn(c) \ {w}
              /\ \A v \in WorkersOn(c) : v # w => job'[v] = job[v]
          BY <1>0, <3>3 DEF Finish, WorkersOn, Active, Idle
        <4>2. QED
          BY <1>5, <3>1, <3>2, <4>1 DEF Fresh
      <3>4. CASE job[w].kind = "revoke" /\ Go(w, "rollback")
        <4>1. /\ WorkersOn(c)' = WorkersOn(c)
              /\ \A v \in WorkersOn(c) : v # w => job'[v] = job[v]
              /\ \A v \in WorkersOn(c) : job'[v].kind = job[v].kind
              /\ job'[w].stage = "rollback"
          BY <2>4, <3>4 DEF Running, Go
        <4>2. QED
          BY <1>5, <2>1, <3>1, <3>4, <4>1 DEF Fresh, Running
      <3>5. QED
        BY <2>2, <2>9, <3>3, <3>4 DEF WriteFiles
    <2>10. QED
      BY <2>2, <2>5, <2>6, <2>7, <2>8, <2>9 DEF Progress, ChainThrows, Rollback
  <1>9. QED
    BY <1>7, <1>8

\* A revocation starts only where the ledger lists the credential, and no issue
\* of it can be under way then.
LEMMA StartAgrees ==
  ASSUME IInv, AgreeInv, ChainWrites, NEW w \in Workers, NEW d \in Credentials, NEW kind \in Kinds,
         (w \in Portal /\ PortalStarts(w, d, kind)) \/ (w \in Clis /\ CliStarts(w, d, kind)),
         ~collided', NEW c \in Credentials, c \notin torn', c \notin offline'
  PROVE  Fresh(c)'
  <1>0. /\ TypeOK /\ JobsInv
        /\ job \in [Workers -> ActiveJobs \cup {Idle}]
    BY DEF IInv, TypeOK
  <1>1. /\ ledger' = ledger /\ chain' = chain /\ inflight' = inflight
        /\ job[w].stage = "idle"
        /\ ThreadFree(w)
    BY DEF PortalStarts, CliStarts, StartJob
  <1>2. PICK stage \in {"chain", "load"} : job' = [job EXCEPT ![w] =
          [stage |-> stage, kind |-> kind, credential |-> d, copy |-> ledger]]
    BY DEF PortalStarts, CliStarts, StartJob
  <1>3. ~collided /\ c \notin torn /\ c \notin offline
    BY DEF PortalStarts, CliStarts, StartJob
  <1>4. Fresh(c)
    BY <1>3 DEF AgreeInv
  <1>5. ledger \in [Credentials -> Marks] /\ chain \in [Credentials -> Marks]
    BY <1>0 DEF TypeOK, Ledgers
  <1>6. w \notin WorkersOn(c)
    BY <1>1 DEF WorkersOn, Active
  <1>7. /\ \A v \in Workers : v # w => job'[v] = job[v]
        /\ job'[w].stage = stage /\ job'[w].kind = kind /\ job'[w].credential = d
    BY <1>0, <1>2
  <1>8. CASE c # d
    <2>1. WorkersOn(c)' = WorkersOn(c)
      BY <1>1, <1>7, <1>8 DEF WorkersOn, Active
    <2>2. \A v \in WorkersOn(c) : job'[v] = job[v]
      BY <1>6, <1>7 DEF WorkersOn
    <2>3. QED
      BY <1>1, <1>4, <2>1, <2>2, FreshStays
  <1>9. CASE c = d
    <2>1. w \in Portal /\ PortalStarts(w, d, kind)
      BY <1>9 DEF CliStarts
    <2>2. stage = "chain"
      BY <1>7, <2>1 DEF PortalStarts, StartJob, TypeOK
    <2>3. /\ WorkersOn(c)' = WorkersOn(c) \cup {w}
          /\ \A v \in WorkersOn(c) : v # w /\ job'[v] = job[v]
      BY <1>6, <1>7, <1>9, <2>2 DEF WorkersOn, Active
    <2>4. CASE kind = "issue"
      <3>1. ledger[c] = "NONE" /\ chain[c] = "NONE" /\ c \notin inflight /\ WorkersOn(c) = {}
        BY <1>9, <2>1, <2>4 DEF PortalStarts, Prepared
      <3>2. QED
        BY <1>1, <1>7, <2>2, <2>3, <2>4, <3>1 DEF Fresh, Running
    <2>5. CASE kind = "revoke"
      <3>1. ledger[c] = "ACTIVE"
        BY <1>9, <2>1, <2>5 DEF PortalStarts, Prepared
      <3>2. ASSUME NEW v \in WorkersOn(c)
            PROVE  v \in Portal /\ job[v].stage # "files" /\ job[v].kind \in Kinds
        <4>1. v \in Portal /\ v # w
          BY <1>0, <1>3, <1>6 DEF JobsInv, WorkersOn, Workers
        <4>2. job[v].stage \notin Running
          BY <1>1, <2>1, <4>1 DEF ThreadFree, SameProcess, Workers
        <4>3. job[v].kind \in Kinds
          BY <1>0 DEF WorkersOn, Active, ActiveJobs, Idle
        <4>4. QED
          BY <4>1, <4>2, <4>3 DEF Running
      <3>3. \A v \in WorkersOn(c) : job[v].kind = "revoke"
        BY <1>4, <3>1, <3>2 DEF Fresh, Kinds
      <3>4. chain[c] # "NONE"
        <4>1. CASE WorkersOn(c) = {}
          BY <1>4, <3>1, <4>1 DEF Fresh
        <4>2. CASE WorkersOn(c) # {}
          BY <1>4, <3>3, <4>2 DEF Fresh
        <4>3. QED
          BY <4>1, <4>2
      <3>5. QED
        BY <1>1, <1>4, <1>7, <2>2, <2>3, <2>5, <3>1, <3>3, <3>4 DEF Fresh, Running
    <2>6. QED
      BY <2>4, <2>5 DEF Kinds
  <1>10. QED
    BY <1>8, <1>9

\* A commitment tells every job that waits for it.
LEMMA NodeAgrees ==
  ASSUME IInv, AgreeInv, ChainWrites, NEW d \in Credentials, ChainCommits(d) \/ ChainDrops(d),
         ~collided', NEW c \in Credentials, c \notin torn', c \notin offline'
  PROVE  Fresh(c)'
  <1>0. /\ job \in [Workers -> ActiveJobs \cup {Idle}]
        /\ chain \in [Credentials -> Marks]
    BY DEF IInv, TypeOK
  <1>1. /\ ledger' = ledger
        /\ inflight' = inflight \ {d}
        /\ ~collided /\ c \notin torn /\ c \notin offline
    BY DEF ChainCommits, ChainDrops
  <1>2. Fresh(c)
    BY <1>1 DEF AgreeInv
  <1>3. CASE ChainDrops(d)
    <2>1. job' = job /\ chain' = chain
      BY <1>3 DEF ChainDrops
    <2>2. WorkersOn(c)' = WorkersOn(c)
      BY <2>1 DEF WorkersOn, Active
    <2>3. QED
      BY <1>1, <1>2, <2>1, <2>2, FreshStays
  <1>4. CASE ChainCommits(d)
    <2>1. \A w \in Workers :
            /\ w \in WorkersOn(d) /\ job[w].stage = "sent" =>
                 /\ job'[w].stage = "landed" /\ job'[w].kind = job[w].kind
                 /\ job'[w].credential = job[w].credential
            /\ ~(w \in WorkersOn(d) /\ job[w].stage = "sent") => job'[w] = job[w]
      <3>1. \A w \in WorkersOn(d) : job[w] \in ActiveJobs
        BY <1>0 DEF WorkersOn, Active, Idle
      <3>2. QED
        BY <1>4, <3>1 DEF ChainCommits, ActiveJobs
    <2>2. \A k : WorkersOn(k)' = WorkersOn(k)
      BY <2>1 DEF WorkersOn, Active
    <2>3. CASE c # d
      <3>1. chain'[c] = chain[c]
        BY <1>0, <1>4, <2>3 DEF ChainCommits
      <3>2. \A v \in WorkersOn(c) : job'[v] = job[v]
        BY <2>1, <2>3 DEF WorkersOn
      <3>3. QED
        BY <1>1, <1>2, <2>2, <3>1, <3>2, FreshStays
    <2>4. CASE c = d
      <3>1. /\ chain'[c] = IF chain[c] = "NONE" THEN "ACTIVE" ELSE "REVOKED"
            /\ c \in inflight
        BY <1>0, <1>4, <2>4 DEF ChainCommits
      <3>2. PICK w \in WorkersOn(c) : job[w].stage = "sent"
        BY <1>2, <3>1 DEF Fresh
      <3>3. \A v \in WorkersOn(c) : job[v].kind \in Kinds
        BY <1>0 DEF WorkersOn, Active, ActiveJobs, Idle
      <3>4. chain[c] = Source(job[w].kind)
        BY <1>2, <3>2 DEF Fresh
      <3>5. chain'[c] = Goal(job[w].kind)
        BY <3>1, <3>2, <3>3, <3>4, KindValues DEF Kinds
      <3>6. \A v \in WorkersOn(c) : job[v].kind = job[w].kind
        BY <1>2, <3>2, <3>3 DEF Fresh, Kinds
      <3>7. \A v \in WorkersOn(c) : ~(job[v].stage = "landed" \/ job[v].stage \in Running)
        <4>1. Source(job[w].kind) # Goal(job[w].kind)
          BY <3>2, <3>3, KindValues DEF Kinds
        <4>2. QED
          BY <1>2, <3>4, <3>6, <4>1 DEF Fresh
      <3>8. \A v \in WorkersOn(c) :
              /\ job'[v].kind = job[v].kind
              /\ job'[v].stage \in {job[v].stage, "landed"} /\ job'[v].stage # "sent"
              /\ job'[v].stage = "files" => job[v].stage = "files"
        BY <2>1, <2>4 DEF WorkersOn
      <3>9. job'[w].stage = "landed" /\ w \in WorkersOn(c)'
        BY <2>1, <2>2, <2>4, <3>2 DEF WorkersOn
      <3>10. \A v \in WorkersOn(c) :
               /\ job[v].kind = "issue" =>
                    (\A u \in WorkersOn(c) : u = v) /\ (ledger[c] = "NONE" \/ job[v].stage = "files")
               /\ job[v].kind = "revoke" => ledger[c] # "NONE" /\ chain[c] # "NONE"
        BY <1>2 DEF Fresh
      <3>11. \A v \in WorkersOn(c) : job[v].stage # "files" /\ job'[v].stage # "files"
        BY <3>7, <3>8 DEF Running
      <3>12. chain'[c] # "NONE" /\ c \notin inflight'
        BY <1>1, <2>4, <3>1
      <3>13. QED
        BY <1>1, <2>2, <3>5, <3>6, <3>8, <3>9, <3>10, <3>11, <3>12 DEF Fresh
    <2>5. QED
      BY <2>3, <2>4
  <1>5. QED
    BY <1>3, <1>4

\* A crash tears the credentials it interrupts and leaves the others.
LEMMA CrashAgrees ==
  ASSUME IInv, AgreeInv, ChainWrites, NEW process \in SUBSET Workers, Crash(process),
         ~collided', NEW c \in Credentials, c \notin torn', c \notin offline'
  PROVE  Fresh(c)'
  <1>1. /\ ledger' = ledger /\ chain' = chain /\ inflight' = inflight
        /\ ~collided /\ c \notin torn /\ c \notin offline
        /\ \A w \in process : Active(w) => job[w].credential # c
    BY DEF Crash
  <1>2. Fresh(c)
    BY <1>1 DEF AgreeInv
  <1>3. /\ \A w \in process : job'[w] = Idle
        /\ \A w \in Workers : w \notin process => job'[w] = job[w]
    BY DEF Crash
  <1>4. WorkersOn(c) \cap process = {}
    BY <1>1 DEF WorkersOn
  <1>5. /\ WorkersOn(c)' = WorkersOn(c)
        /\ \A v \in WorkersOn(c) : job'[v] = job[v]
    BY <1>3, <1>4 DEF WorkersOn, Active, Idle
  <1>6. QED
    BY <1>1, <1>2, <1>5, FreshStays

\* Every step keeps untorn credentials fresh.
LEMMA AgreeStep == IInv /\ AgreeInv /\ [Next]_vars => AgreeInv'
  <1> SUFFICES ASSUME IInv, AgreeInv, [Next]_vars, ChainWrites, ~collided',
                      NEW c \in Credentials, c \notin torn', c \notin offline'
               PROVE  Fresh(c)'
    BY DEF AgreeInv
  <1>1. CASE UNCHANGED vars
    BY <1>1 DEF vars, AgreeInv, Fresh, WorkersOn, Active
  <1>2. CASE Next
    BY <1>2, WorkerAgrees, StartAgrees, NodeAgrees, CrashAgrees DEF Next, Workers
  <1>3. QED
    BY <1>1, <1>2

\* A credential no job failed on, and none works on, stands the same in the
\* ledger and on the chain.
THEOREM LedgerAgreesWithChain == Spec => []ChainAndLedgerAgree
  <1>1. Init => IInv /\ AgreeInv
    BY InitInvariant, AgreeInit
  <1>2. IInv /\ AgreeInv /\ [Next]_vars => (IInv /\ AgreeInv)'
    BY InvariantStep, AgreeStep
  <1>3. AgreeInv => ChainAndLedgerAgree
    BY DEF AgreeInv, Fresh, ChainAndLedgerAgree
  <1>4. QED
    BY <1>1, <1>2, <1>3, PTL DEF Spec

-----------------------------------------------------------------------------
(* What the public is told (PublicInspector).                              *)

\* compareStates, case by case.
LEMMA Comparison ==
  ASSUME NEW offChain, NEW onChain
  PROVE  /\ onChain = "NOT_FOUND" => CompareStates(offChain, onChain) = "ONCHAIN_RECORD_NOT_FOUND"
         /\ onChain = "RPC_UNAVAILABLE" => CompareStates(offChain, onChain) = "RPC_UNAVAILABLE"
         /\ onChain = "NOT_CHECKED" => CompareStates(offChain, onChain) = "NOT_CHECKED"
         /\ onChain = "CONFLICT_DUPLICATE" => CompareStates(offChain, onChain) = "CHAIN_CONFLICT"
         /\ onChain \in {"ACTIVE", "REVOKED"} =>
              CompareStates(offChain, onChain) =
                IF offChain = "NONE" THEN "OFFCHAIN_RECORD_NOT_FOUND"
                ELSE IF offChain # onChain THEN "STATE_MISMATCH" ELSE "STATE_CONSISTENT"
  <1>1. DOMAIN Codes = {"RPC_UNAVAILABLE", "NOT_CHECKED", "CONFLICT_DUPLICATE", "INVALID_RECORD", "NOT_FOUND"}
    BY DEF Codes
  <1>2. /\ Codes["NOT_FOUND"] = "ONCHAIN_RECORD_NOT_FOUND"
        /\ Codes["RPC_UNAVAILABLE"] = "RPC_UNAVAILABLE"
        /\ Codes["NOT_CHECKED"] = "NOT_CHECKED"
        /\ Codes["CONFLICT_DUPLICATE"] = "CHAIN_CONFLICT"
    BY DEF Codes
  <1>3. QED
    BY <1>1, <1>2 DEF CompareStates

\* An entry read through an edit: revoked entries alone can look active.
Read(v, held) ==
  \E edit \in Edits : \E document :
    /\ v = Verify(held, edit, document)
    /\ edit = "reactivated" => held = "REVOKED"

\* Only an entry that is whole and really ACTIVE verifies as valid.
LEMMA VerifyFacts ==
  ASSUME NEW held \in Marks, NEW v, Read(v, held)
  PROVE  /\ v \in Verifications
         /\ v.missing <=> held = "NONE"
         /\ v.integrityValid => v.status = held /\ held # "NONE"
         /\ v.valid => v.integrityValid /\ v.status = "ACTIVE"
  <1>0. PICK edit \in Edits :
          \E document : /\ v = Verify(held, edit, document)
                        /\ edit = "reactivated" => held = "REVOKED"
    BY DEF Read
  <1>1. PICK document : /\ v = Verify(held, edit, document)
                        /\ edit = "reactivated" => held = "REVOKED"
    BY <1>0
  <1> DEFINE status == IF edit = "reactivated" THEN "ACTIVE" ELSE held
             missing == held = "NONE"
             whole == ~missing /\ edit = "none" /\ document # "differs"
             verified == ~missing /\ document = "matches"
  <1>2. v = [status |-> status, missing |-> missing, integrityValid |-> whole,
             documentVerified |-> verified, valid |-> whole /\ verified /\ status = "ACTIVE"]
    BY <1>1 DEF Verify
  <1>3. /\ status \in Marks
        /\ missing \in BOOLEAN /\ whole \in BOOLEAN /\ verified \in BOOLEAN
        /\ (whole /\ verified /\ status = "ACTIVE") \in BOOLEAN
    BY DEF Marks
  <1>4. whole => status = held /\ held # "NONE"
    OBVIOUS
  <1> HIDE DEF status, missing, whole, verified
  <1>5. v \in Verifications
    BY <1>2, <1>3 DEF Verifications
  <1>6. v.missing = missing /\ v.integrityValid = whole /\ v.status = status
    BY <1>2
  <1>7. v.valid = (whole /\ verified /\ status = "ACTIVE")
    BY <1>2
  <1>8. v.missing <=> held = "NONE"
    BY <1>6 DEF missing
  <1>9. QED
    BY <1>4, <1>5, <1>6, <1>7, <1>8

Contradictions == {"STATE_MISMATCH", "ONCHAIN_RECORD_NOT_FOUND", "OFFCHAIN_RECORD_NOT_FOUND"}

\* What the index can answer for a mark.
Answers(mark) ==
  {IF mark = "NONE" THEN "NOT_FOUND" ELSE mark, "RPC_UNAVAILABLE", "NOT_CHECKED"}
  \cup {s \in {"CONFLICT_DUPLICATE"} : mark # "NONE"}

\* selectOutcome reports a contradiction only of two sides that differ, and
\* vouches only for what both sides call ACTIVE.
LEMMA OutcomeFacts ==
  ASSUME NEW held \in Marks, NEW v, Read(v, held), NEW mark \in Marks,
         NEW answer \in Answers(mark), NEW code, code = CompareStates(v.status, answer)
  PROVE  /\ SelectOutcome(v, answer, code) \in Outcomes
         /\ SelectOutcome(v, answer, code) \in Contradictions => held # mark
         /\ Usable(v, answer, code) => held = "ACTIVE" /\ mark = "ACTIVE"
  <1>1. /\ v.missing <=> held = "NONE"
        /\ v.integrityValid => v.status = held /\ held # "NONE"
        /\ v.valid => v.integrityValid /\ v.status = "ACTIVE"
    BY VerifyFacts
  <1>2. /\ answer = "NOT_FOUND" => mark = "NONE" /\ code = "ONCHAIN_RECORD_NOT_FOUND"
        /\ answer = "RPC_UNAVAILABLE" => code = "RPC_UNAVAILABLE"
        /\ answer = "NOT_CHECKED" => code = "NOT_CHECKED"
        /\ answer = "CONFLICT_DUPLICATE" => code = "CHAIN_CONFLICT"
        /\ answer \in {"ACTIVE", "REVOKED"} =>
             /\ mark = answer
             /\ code = IF v.status = "NONE" THEN "OFFCHAIN_RECORD_NOT_FOUND"
                       ELSE IF v.status # answer THEN "STATE_MISMATCH" ELSE "STATE_CONSISTENT"
        /\ answer \in {"NOT_FOUND", "RPC_UNAVAILABLE", "NOT_CHECKED", "CONFLICT_DUPLICATE",
                       "ACTIVE", "REVOKED"}
    BY Comparison DEF Answers, Marks
  <1>3. SelectOutcome(v, answer, code) \in Outcomes
    BY <1>2 DEF SelectOutcome, Outcomes, Inconsistent
  <1>4. SelectOutcome(v, answer, code) \in Contradictions => held # mark
    <2>1. CASE answer = "NOT_FOUND"
      BY <1>1, <1>2, <2>1 DEF SelectOutcome, Inconsistent, Contradictions
    <2>2. CASE answer = "RPC_UNAVAILABLE"
      BY <1>1, <1>2, <2>2 DEF SelectOutcome, Inconsistent, Contradictions
    <2>3. CASE answer = "NOT_CHECKED"
      BY <1>1, <1>2, <2>3 DEF SelectOutcome, Inconsistent, Contradictions
    <2>4. CASE answer = "CONFLICT_DUPLICATE"
      BY <1>1, <1>2, <2>4 DEF SelectOutcome, Inconsistent, Contradictions
    <2>5. CASE answer \in {"ACTIVE", "REVOKED"}
      BY <1>1, <1>2, <2>5 DEF SelectOutcome, Inconsistent, Contradictions
    <2>6. QED
      BY <1>2, <2>1, <2>2, <2>3, <2>4, <2>5
  <1>5. Usable(v, answer, code) => held = "ACTIVE" /\ mark = "ACTIVE"
    BY <1>1, <1>2 DEF Usable
  <1>6. QED
    BY <1>3, <1>4, <1>5

\* What an inspection knows of the credential between its two reads: the index
\* has only moved forward, and if no job was seen the entry is still as read.
Knows(n) ==
  /\ n \in ActiveInspections
  /\ Read(n.verification, n.held)
  /\ Rank(n.before) <= Rank(indexed[n.credential])
  /\ ChainWrites /\ ~collided /\ n.credential \notin torn \cup offline /\ ~n.moved =>
       WorkersOn(n.credential) = {} /\ n.held = ledger[n.credential]

InspectionsInv == \A i \in Inspectors : inspection[i] # NoInspection => Knows(inspection[i])

IndexInv == \A c \in Credentials : Rank(indexed[c]) <= Rank(chain[c])

InspectorInv ==
  /\ IInv /\ AgreeInv
  /\ InspectorTypeOK
  /\ IndexInv
  /\ InspectionsInv
  /\ VouchesForActiveOnly
  /\ ContradictionsExplained

\* A report is the only thing the two properties speak of.
LEMMA ReportsStay ==
  ASSUME VouchesForActiveOnly, ContradictionsExplained, UNCHANGED report
  PROVE  VouchesForActiveOnly' /\ ContradictionsExplained'
  BY DEF VouchesForActiveOnly, ContradictionsExplained

\* Ranks are comparable.
LEMMA RankOrder ==
  ASSUME NEW a \in Marks, NEW b \in Marks, NEW c \in Marks
  PROVE  /\ Rank(a) <= Rank(a)
         /\ Rank(a) <= Rank(b) /\ Rank(b) <= Rank(c) => Rank(a) <= Rank(c)
         /\ a = "REVOKED" /\ Rank(a) <= Rank(b) => b = "REVOKED"
  BY RankValues DEF Marks

\* Before the first inspection nothing was read or reported.
LEMMA InspectorInitInvariant == InspectorInit => InspectorInv
  <1> SUFFICES ASSUME InspectorInit
               PROVE  InspectorInv
    OBVIOUS
  <1>1. IInv /\ AgreeInv
    BY InitInvariant, AgreeInit DEF InspectorInit
  <1>2. InspectorTypeOK
    BY MaxInspectionsAssumption DEF InspectorInit, InspectorTypeOK, Marks
  <1>3. IndexInv
    BY RankValues DEF InspectorInit, Init, IndexInv
  <1>4. InspectionsInv
    BY DEF InspectorInit, InspectionsInv
  <1>5. VouchesForActiveOnly /\ ContradictionsExplained
    <2>1. \A i \in Inspectors : report[i].outcome = "NONE"
      BY DEF InspectorInit, NoReport
    <2>2. QED
      BY <2>1 DEF VouchesForActiveOnly, ContradictionsExplained
  <1>6. QED
    BY <1>1, <1>2, <1>3, <1>4, <1>5 DEF InspectorInv

\* What went wrong stays known.
LEMMA GhostsGrow ==
  ASSUME Next
  PROVE  /\ torn \subseteq torn'
         /\ offline \subseteq offline'
         /\ collided => collided'
  <1>1. torn' = torn \/ (\E s : torn' = torn \cup s)
    BY DEF Next, Progress, PortalStarts, CliStarts, StartJob, Send, ChainCommits, ChainDrops,
           ChainReturns, ChainThrows, Load, Save, WriteFiles, Rollback, Crash, Throw
  <1>2. offline' = offline \/ (\E s : offline' = offline \cup s)
    BY DEF Next, Progress, PortalStarts, CliStarts, StartJob, Send, ChainCommits, ChainDrops,
           ChainReturns, ChainThrows, Load, Save, WriteFiles, Rollback, Crash
  <1>3. collided => collided'
    BY DEF Next, Progress, PortalStarts, CliStarts, StartJob, Send, ChainCommits, ChainDrops,
           ChainReturns, ChainThrows, Load, Save, WriteFiles, Rollback, Crash
  <1>4. QED
    BY <1>1, <1>2, <1>3

\* While the issuer works, an inspection learns which credentials moved, and the
\* entry of one that did not stays as it was read.
LEMMA IssuerStepKeeps == InspectorInv /\ IssuerStep => InspectorInv'
  <1> SUFFICES ASSUME InspectorInv, IssuerStep
               PROVE  InspectorInv'
    OBVIOUS
  <1>1. /\ Next
        /\ indexed' = indexed /\ report' = report /\ inspections' = inspections
    BY DEF IssuerStep
  <1>2. /\ TypeOK /\ IInv /\ AgreeInv /\ InspectorTypeOK
        /\ ledger \in [Credentials -> Marks]
        /\ indexed \in [Credentials -> Marks]
        /\ inspection \in [Inspectors -> ActiveInspections \cup {NoInspection}]
    BY DEF InspectorInv, IInv, TypeOK, InspectorTypeOK, Ledgers
  <1>3. IInv' /\ AgreeInv'
    BY <1>1, <1>2, InvariantStep, AgreeStep
  <1>4. /\ torn \subseteq torn' /\ offline \subseteq offline'
        /\ collided => collided'
    BY <1>1, GhostsGrow
  <1>5. IndexInv'
    <2>1. \A c \in Credentials : Rank(chain[c]) <= Rank(chain'[c])
      BY <1>1, <1>2, ChainMonotone
    <2>2. \A c \in Credentials : indexed[c] \in Marks /\ chain[c] \in Marks /\ chain'[c] \in Marks
      BY <1>2, <1>3 DEF IInv, TypeOK
    <2>3. QED
      BY <1>1, <2>1, <2>2, RankOrder DEF InspectorInv, IndexInv
  <1>6. \A i \in Inspectors : inspection'[i] =
          IF inspection[i] = NoInspection THEN NoInspection
          ELSE [inspection[i] EXCEPT !.moved =
                  @ \/ \E w \in Workers : Active(w)' /\ job'[w].credential = inspection[i].credential]
    BY DEF IssuerStep
  <1>7. ASSUME NEW i \in Inspectors, inspection[i] # NoInspection
        PROVE  inspection'[i] \in ActiveInspections /\ Knows(inspection[i])'
    <2>1. PICK n \in ActiveInspections : n = inspection[i]
      BY <1>2, <1>7
    <2>2. PICK met \in BOOLEAN :
            met <=> \E w \in Workers : Active(w)' /\ job'[w].credential = n.credential
      OBVIOUS
    <2>3. inspection'[i] = [n EXCEPT !.moved = (n.moved \/ met)]
      BY <1>6, <1>7, <2>1, <2>2
    <2>4. n.moved \in BOOLEAN /\ (n.moved \/ met) \in BOOLEAN /\ n.credential \in Credentials
          /\ n.before \in Marks
      BY <2>1 DEF ActiveInspections
    <2>5. PICK m : m = [n EXCEPT !.moved = (n.moved \/ met)]
      OBVIOUS
    <2>6. /\ m \in ActiveInspections
          /\ m.credential = n.credential /\ m.verification = n.verification
          /\ m.held = n.held /\ m.before = n.before
      BY <2>1, <2>4, <2>5 DEF ActiveInspections
    <2>7. m.moved = (n.moved \/ met)
      BY <2>1, <2>5 DEF ActiveInspections
    <2>8. Knows(n)
      BY <1>7, <2>1 DEF InspectorInv, InspectionsInv
    <2>9. ASSUME ChainWrites, ~collided', n.credential \notin torn' \cup offline', ~m.moved
          PROVE  WorkersOn(n.credential)' = {} /\ n.held = ledger'[n.credential]
      <3>1. ~n.moved /\ ~met
        BY <2>7, <2>9
      <3>2. ~collided /\ n.credential \notin torn \cup offline
        BY <1>4, <2>9
      <3>3. WorkersOn(n.credential) = {} /\ n.held = ledger[n.credential]
        BY <2>8, <2>9, <3>1, <3>2 DEF Knows
      <3>4. ledger'[n.credential] = ledger[n.credential]
        BY <1>1, <1>2, <2>4, <3>2, <3>3, LedgerKept
      <3>5. WorkersOn(n.credential)' = {}
        BY <2>2, <3>1 DEF WorkersOn
      <3>6. QED
        BY <3>3, <3>4, <3>5
    <2>10. inspection'[i] = m
      BY <2>3, <2>5
    <2>11. QED
      BY <1>1, <2>6, <2>8, <2>9, <2>10 DEF Knows
  <1>8. InspectionsInv'
    BY <1>6, <1>7 DEF InspectionsInv
  <1>9. InspectorTypeOK'
    <2>1. inspection' \in [Inspectors -> ActiveInspections \cup {NoInspection}]
      <3>1. \A i \in Inspectors : inspection'[i] \in ActiveInspections \cup {NoInspection}
        BY <1>6, <1>7
      <3>2. QED
        BY <3>1 DEF IssuerStep
    <2>2. QED
      BY <1>1, <1>2, <2>1 DEF InspectorTypeOK
  <1>10. QED
    BY <1>1, <1>3, <1>5, <1>8, <1>9, ReportsStay DEF InspectorInv

\* An inspection reads the ledger side.
LEMMA InspectKeeps ==
  ASSUME InspectorInv, NEW i \in Inspectors, NEW c \in Credentials, NEW document,
         NEW skipChain \in BOOLEAN, Inspect(i, c, document, skipChain)
  PROVE  InspectorInv'
  <1>1. /\ UNCHANGED vars /\ indexed' = indexed /\ report' = report
        /\ inspections < MaxInspections /\ inspections' = inspections + 1
    BY DEF Inspect
  <1>2. /\ ledger' = ledger /\ chain' = chain /\ job' = job /\ collided' = collided
        /\ torn' = torn /\ offline' = offline
    BY <1>1 DEF vars
  <1>3. /\ IInv /\ AgreeInv /\ InspectorTypeOK
        /\ ledger \in [Credentials -> Marks]
        /\ indexed \in [Credentials -> Marks]
        /\ inspection \in [Inspectors -> ActiveInspections \cup {NoInspection}]
    BY DEF InspectorInv, IInv, TypeOK, InspectorTypeOK, Ledgers
  <1>4. IInv' /\ AgreeInv'
    BY <1>1, <1>3, InvariantStep, AgreeStep
  <1>5. PICK edit \in Edits :
          /\ edit = "reactivated" => ledger[c] = "REVOKED"
          /\ inspection' = [inspection EXCEPT ![i] =
               [stage |-> "chain", credential |-> c, verification |-> Verify(ledger[c], edit, document),
                skipChain |-> skipChain, held |-> ledger[c], before |-> indexed[c],
                moved |-> WorkersOn(c) # {}]]
    <2>1. PICK edit \in IF ledger[c] = "REVOKED" THEN Edits ELSE Edits \ {"reactivated"} :
            inspection' = [inspection EXCEPT ![i] =
               [stage |-> "chain", credential |-> c, verification |-> Verify(ledger[c], edit, document),
                skipChain |-> skipChain, held |-> ledger[c], before |-> indexed[c],
                moved |-> WorkersOn(c) # {}]]
      BY DEF Inspect
    <2>2. edit \in Edits /\ (edit = "reactivated" => ledger[c] = "REVOKED")
      OBVIOUS
    <2>3. QED
      BY <2>1, <2>2
  <1>6. PICK v : v = Verify(ledger[c], edit, document)
    OBVIOUS
  <1>m. PICK moved \in BOOLEAN : moved = (WorkersOn(c) # {})
    OBVIOUS
  <1>7. PICK n : n = [stage |-> "chain", credential |-> c, verification |-> v,
                      skipChain |-> skipChain, held |-> ledger[c], before |-> indexed[c],
                      moved |-> moved]
    OBVIOUS
  <1>8. inspection' = [inspection EXCEPT ![i] = n]
    BY <1>5, <1>6, <1>m, <1>7
  <1>9. Read(v, ledger[c]) /\ v \in Verifications
    <2>1. Read(v, ledger[c])
      BY <1>5, <1>6 DEF Read
    <2>2. QED
      BY <1>3, <2>1, VerifyFacts
  <1>10. /\ n \in ActiveInspections
         /\ n.credential = c /\ n.verification = v /\ n.held = ledger[c] /\ n.before = indexed[c]
         /\ n.moved = moved
    BY <1>3, <1>7, <1>9 DEF ActiveInspections
  <1>11. InspectionsInv'
    <2>1. ASSUME NEW j \in Inspectors, inspection'[j] # NoInspection
          PROVE  Knows(inspection[j])'
      <3>1. CASE j = i
        <4>1. inspection'[j] = n
          BY <1>3, <1>8, <3>1
        <4>2. Rank(indexed[c]) <= Rank(indexed[c])
          BY <1>3, RankOrder
        <4>3. WorkersOn(c)' = WorkersOn(c)
          BY <1>2 DEF WorkersOn, Active
        <4>4. QED
          BY <1>1, <1>2, <1>6, <1>m, <1>9, <1>10, <4>1, <4>2, <4>3 DEF Knows
      <3>2. CASE j # i
        <4>1. inspection'[j] = inspection[j] /\ Knows(inspection[j])
          BY <1>3, <1>8, <2>1, <3>2 DEF InspectorInv, InspectionsInv
        <4>2. \A k : WorkersOn(k)' = WorkersOn(k)
          BY <1>2 DEF WorkersOn, Active
        <4>3. QED
          BY <1>1, <1>2, <4>1, <4>2 DEF Knows
      <3>3. QED
        BY <3>1, <3>2
    <2>2. QED
      BY <2>1 DEF InspectionsInv
  <1>12. InspectorTypeOK'
    <2>1. inspection' \in [Inspectors -> ActiveInspections \cup {NoInspection}]
      BY <1>3, <1>8, <1>10
    <2>2. inspections' \in 0..MaxInspections
      BY <1>1, <1>3, MaxInspectionsAssumption DEF InspectorTypeOK
    <2>3. QED
      BY <1>1, <1>3, <2>1, <2>2 DEF InspectorTypeOK
  <1>13. IndexInv'
    BY <1>1, <1>2 DEF InspectorInv, IndexInv
  <1>14. QED
    BY <1>1, <1>4, <1>11, <1>12, <1>13, ReportsStay DEF InspectorInv

\* An inspection compares the two sides and reports.
LEMMA ReportKeeps ==
  ASSUME InspectorInv, NEW i \in Inspectors, Report(i)
  PROVE  InspectorInv'
  <1>1. /\ UNCHANGED vars /\ indexed' = indexed /\ inspections' = inspections
        /\ inspection[i] # NoInspection
        /\ inspection' = [inspection EXCEPT ![i] = NoInspection]
    BY DEF Report
  <1>2. /\ ledger' = ledger /\ chain' = chain /\ job' = job /\ collided' = collided
        /\ torn' = torn /\ offline' = offline
    BY <1>1 DEF vars
  <1>3. /\ IInv /\ AgreeInv /\ InspectorTypeOK
        /\ ledger \in [Credentials -> Marks]
        /\ chain \in [Credentials -> Marks]
        /\ indexed \in [Credentials -> Marks]
        /\ inspection \in [Inspectors -> ActiveInspections \cup {NoInspection}]
        /\ report \in [Inspectors -> Reports \cup {NoReport}]
    BY DEF InspectorInv, IInv, TypeOK, InspectorTypeOK, Ledgers
  <1>4. IInv' /\ AgreeInv'
    BY <1>1, <1>3, InvariantStep, AgreeStep
  <1>5. PICK n \in ActiveInspections : n = inspection[i]
    BY <1>1, <1>3
  <1>6. PICK c \in Credentials, v \in Verifications, held \in Marks, before \in Marks :
          c = n.credential /\ v = n.verification /\ held = n.held /\ before = n.before
    BY <1>5 DEF ActiveInspections
  <1>7. Knows(n) /\ Read(v, held)
    BY <1>1, <1>5, <1>6 DEF InspectorInv, InspectionsInv, Knows
  <1>8. PICK answer \in ChainAnswers(i) :
          LET code == CompareStates(inspection[i].verification.status, answer) IN
          report' = [report EXCEPT ![i] =
            [outcome |-> SelectOutcome(inspection[i].verification, answer, code),
             usable |-> Usable(inspection[i].verification, answer, code),
             credential |-> inspection[i].credential, held |-> inspection[i].held,
             before |-> inspection[i].before, explained |-> MayDiffer(i)]]
    BY DEF Report
  <1>9. PICK code : code = CompareStates(v.status, answer)
    OBVIOUS
  <1>o. PICK outcome : outcome = SelectOutcome(v, answer, code)
    OBVIOUS
  <1>10. PICK usable \in BOOLEAN, explained \in BOOLEAN :
           /\ usable = Usable(v, answer, code)
           /\ explained = MayDiffer(i)
    <2>1. Usable(v, answer, code) \in BOOLEAN
      BY DEF Usable
    <2>2. MayDiffer(i) \in BOOLEAN
      BY DEF MayDiffer
    <2>3. QED
      BY <2>1, <2>2
  <1>11. PICK r : r = [outcome |-> outcome, usable |-> usable, credential |-> c, held |-> held,
                       before |-> before, explained |-> explained]
    OBVIOUS
  <1>12. report' = [report EXCEPT ![i] = r]
    BY <1>5, <1>6, <1>8, <1>9, <1>o, <1>10, <1>11
  <1>13. answer \in Answers(indexed[c]) /\ indexed[c] \in Marks /\ chain[c] \in Marks
    BY <1>3, <1>5, <1>6 DEF ChainAnswers, Answers
  <1>14. /\ outcome \in Outcomes
         /\ outcome \in Contradictions => held # indexed[c]
         /\ usable => held = "ACTIVE" /\ indexed[c] = "ACTIVE"
    BY <1>7, <1>9, <1>o, <1>10, <1>13, OutcomeFacts
  <1>15. /\ r \in Reports
         /\ r.outcome = outcome /\ r.usable = usable /\ r.held = held /\ r.before = before
         /\ r.explained = explained
    BY <1>11, <1>14 DEF Reports
  <1>16. usable => held = "ACTIVE" /\ before # "REVOKED"
    <2>1. Rank(before) <= Rank(indexed[c])
      BY <1>6, <1>7 DEF Knows
    <2>2. before = "REVOKED" => indexed[c] = "REVOKED"
      BY <1>13, <2>1, RankOrder
    <2>3. QED
      BY <1>14, <2>2
  <1>17. outcome \in Contradictions => explained
    <2>1. ASSUME ~MayDiffer(i)
          PROVE  held = indexed[c]
      <3>1. /\ ~n.moved /\ indexed[c] = chain[c] /\ c \notin torn \cup offline
            /\ ~collided /\ ChainWrites
        BY <1>5, <1>6, <2>1 DEF MayDiffer
      <3>2. WorkersOn(c) = {} /\ held = ledger[c]
        BY <1>6, <1>7, <3>1 DEF Knows
      <3>3. Fresh(c)
        BY <1>3, <3>1 DEF AgreeInv
      <3>4. ledger[c] = chain[c]
        BY <3>2, <3>3 DEF Fresh
      <3>5. QED
        BY <3>1, <3>2, <3>4
    <2>2. QED
      BY <1>10, <1>14, <2>1
  <1>18. \A j \in Inspectors : report'[j] = IF j = i THEN r ELSE report[j]
    BY <1>3, <1>12
  <1>19. VouchesForActiveOnly'
    BY <1>15, <1>16, <1>18 DEF InspectorInv, VouchesForActiveOnly
  <1>20. ContradictionsExplained'
    BY <1>15, <1>17, <1>18 DEF InspectorInv, ContradictionsExplained, Contradictions
  <1>21. InspectorTypeOK'
    BY <1>1, <1>3, <1>12, <1>15 DEF InspectorTypeOK
  <1>22. InspectionsInv'
    <2>1. ASSUME NEW j \in Inspectors, inspection'[j] # NoInspection
          PROVE  Knows(inspection[j])'
      <3>1. inspection'[j] = inspection[j] /\ Knows(inspection[j])
        BY <1>1, <1>3, <2>1 DEF InspectorInv, InspectionsInv
      <3>2. \A k : WorkersOn(k)' = WorkersOn(k)
        BY <1>2 DEF WorkersOn, Active
      <3>3. QED
        BY <1>1, <1>2, <3>1, <3>2 DEF Knows
    <2>2. QED
      BY <2>1 DEF InspectionsInv
  <1>23. IndexInv'
    BY <1>1, <1>2 DEF InspectorInv, IndexInv
  <1>24. QED
    BY <1>4, <1>19, <1>20, <1>21, <1>22, <1>23 DEF InspectorInv

\* The index catches up with the chain.
LEMMA UpdateIndexKeeps ==
  ASSUME InspectorInv, NEW c \in Credentials, UpdateIndex(c)
  PROVE  InspectorInv'
  <1>1. /\ UNCHANGED vars /\ inspection' = inspection /\ report' = report
        /\ inspections' = inspections
        /\ indexed' = [indexed EXCEPT ![c] = chain[c]]
    BY DEF UpdateIndex
  <1>2. /\ ledger' = ledger /\ chain' = chain /\ job' = job /\ collided' = collided
        /\ torn' = torn /\ offline' = offline
    BY <1>1 DEF vars
  <1>3. /\ IInv /\ AgreeInv /\ InspectorTypeOK /\ IndexInv
        /\ chain \in [Credentials -> Marks]
        /\ indexed \in [Credentials -> Marks]
        /\ inspection \in [Inspectors -> ActiveInspections \cup {NoInspection}]
    BY DEF InspectorInv, IInv, TypeOK, InspectorTypeOK
  <1>4. IInv' /\ AgreeInv'
    BY <1>1, <1>3, InvariantStep, AgreeStep
  <1>5. /\ indexed' \in [Credentials -> Marks]
        /\ \A d \in Credentials : /\ Rank(indexed[d]) <= Rank(indexed'[d])
                                  /\ Rank(indexed'[d]) <= Rank(chain[d])
    <2>1. \A d \in Credentials :
            /\ indexed[d] \in Marks /\ chain[d] \in Marks
            /\ Rank(indexed[d]) <= Rank(chain[d])
            /\ indexed'[d] = IF d = c THEN chain[c] ELSE indexed[d]
      BY <1>1, <1>3 DEF IndexInv
    <2>2. QED
      BY <1>1, <1>3, <2>1, RankOrder
  <1>6. InspectorTypeOK' /\ IndexInv'
    BY <1>1, <1>2, <1>3, <1>5 DEF InspectorTypeOK, IndexInv
  <1>7. InspectionsInv'
    <2>1. ASSUME NEW j \in Inspectors, inspection[j] # NoInspection
          PROVE  Knows(inspection[j])'
      <3>1. PICK n \in ActiveInspections : n = inspection[j]
        BY <1>3, <2>1
      <3>2. Knows(n) /\ n.credential \in Credentials /\ n.before \in Marks
        BY <2>1, <3>1 DEF InspectorInv, InspectionsInv, ActiveInspections
      <3>3. Rank(n.before) <= Rank(indexed'[n.credential])
        <4>1. /\ indexed[n.credential] \in Marks /\ indexed'[n.credential] \in Marks
              /\ Rank(n.before) <= Rank(indexed[n.credential])
              /\ Rank(indexed[n.credential]) <= Rank(indexed'[n.credential])
          BY <1>3, <1>5, <3>2 DEF Knows
        <4>2. QED
          BY <3>2, <4>1, RankOrder
      <3>4. \A k : WorkersOn(k)' = WorkersOn(k)
        BY <1>2 DEF WorkersOn, Active
      <3>5. QED
        BY <1>1, <1>2, <3>1, <3>2, <3>3, <3>4 DEF Knows
    <2>2. QED
      BY <1>1, <2>1 DEF InspectionsInv
  <1>8. QED
    BY <1>1, <1>4, <1>6, <1>7, ReportsStay DEF InspectorInv

\* Every step keeps the invariant of issuer and inspectors.
LEMMA InspectorStep == InspectorInv /\ [InspectorNext]_allVars => InspectorInv'
  <1> SUFFICES ASSUME InspectorInv, [InspectorNext]_allVars
               PROVE  InspectorInv'
    OBVIOUS
  <1>1. CASE UNCHANGED allVars
    <2>1. UNCHANGED vars /\ indexed' = indexed /\ inspection' = inspection /\ report' = report
          /\ inspections' = inspections
      BY <1>1 DEF allVars, inspectorVars
    <2>2. /\ ledger' = ledger /\ chain' = chain /\ job' = job /\ collided' = collided
          /\ torn' = torn /\ offline' = offline
      BY <2>1 DEF vars
    <2>3. IInv' /\ AgreeInv'
      BY <2>1, InvariantStep, AgreeStep DEF InspectorInv
    <2>4. \A k : WorkersOn(k)' = WorkersOn(k)
      BY <2>2 DEF WorkersOn, Active
    <2>5. InspectionsInv'
      BY <2>1, <2>2, <2>4 DEF InspectorInv, InspectionsInv, Knows
    <2>6. InspectorTypeOK' /\ IndexInv'
      BY <2>1, <2>2 DEF InspectorInv, InspectorTypeOK, IndexInv
    <2>7. QED
      BY <2>1, <2>3, <2>5, <2>6, ReportsStay DEF InspectorInv
  <1>2. CASE InspectorNext
    BY <1>2, IssuerStepKeeps, InspectKeeps, ReportKeeps, UpdateIndexKeeps DEF InspectorNext
  <1>3. QED
    BY <1>1, <1>2

\* The invariant holds while inspections, the issuer and the index run.
THEOREM InspectorInvariance == InspectorSpec => []InspectorInv
  <1>1. QED
    BY InspectorInitInvariant, InspectorStep, PTL DEF InspectorSpec

\* The inspector's variables keep their types; its outcomes are those it documents.
THEOREM InspectorTypeCorrect == InspectorSpec => []InspectorTypeOK
  <1>1. InspectorInv => InspectorTypeOK
    BY DEF InspectorInv
  <1>2. QED
    BY <1>1, InspectorInvariance, PTL

\* Only a credential the ledger really held as ACTIVE, and whose revocation was
\* not indexed when the inspection began, is vouched for.
THEOREM VouchersEarned == InspectorSpec => []VouchesForActiveOnly
  <1>1. InspectorInv => VouchesForActiveOnly
    BY DEF InspectorInv
  <1>2. QED
    BY <1>1, InspectorInvariance, PTL

\* A reported contradiction has a cause: a job that ran between the two reads, a
\* lagging index, a failure, a collision or a command line tool.
THEOREM ContradictionsHaveCauses == InspectorSpec => []ContradictionsExplained
  <1>1. InspectorInv => ContradictionsExplained
    BY DEF InspectorInv
  <1>2. QED
    BY <1>1, InspectorInvariance, PTL
=============================================================================
