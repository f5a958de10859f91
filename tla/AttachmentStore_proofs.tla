-------------------------- MODULE AttachmentStore_proofs --------------------------
(***************************************************************************)
(* Proofs about AttachmentStore: its invariants hold for any number of     *)
(* handlers and requests and for any limit.                                *)
(***************************************************************************)
EXTENDS AttachmentStore, FiniteSetTheorems, TLAPS

\* What a handler that runs knows of its attachment.
Placed(h) ==
  LET a == handler[h].id IN
  /\ At(h, "insert") => a \notin rows /\ file[a] = "whole"
  /\ At(h, "added") => a \in rows /\ file[a] = "whole"
  /\ At(h, "undo") => a \notin rows \/ a \in unlogged
  /\ At(h, "delete") => a \in rows
  /\ At(h, "removed") \/ At(h, "unlink") => a \notin rows

\* Handlers of the inspector run one at a time; the number of an upload is its
\* own, and has no row before it is inserted.
HandlersInv ==
  /\ \A g, h \in Handlers : handler[g].stage \in Running /\ handler[h].stage \in Running => g = h
  /\ \A h \in Handlers : handler[h] # Idle => handler[h].id \in 1..requests
  /\ \A h \in Handlers : handler[h].stage \in {"write", "insert", "added", "undo"} =>
       handler[h].kind = "upload"
  /\ \A h \in Handlers : handler[h].stage \in {"delete", "removed", "unlink"} =>
       handler[h].kind = "remove"
  /\ \A g, h \in Handlers :
       handler[g] # Idle /\ handler[h] # Idle /\ handler[g].kind = "upload"
         /\ handler[h].kind = "upload" /\ handler[g].id = handler[h].id => g = h
  /\ rows \subseteq 1..requests
  /\ \A h \in Handlers :
       handler[h].stage \in {"body", "write"} /\ handler[h].kind = "upload" =>
         handler[h].id \notin rows
  /\ \A h \in Handlers : Placed(h)

\* A handler that is about to insert has counted fewer rows than the limit.
LimitInv ==
  \A h \in Handlers : handler[h].stage \in {"write", "insert"} => Cardinality(rows) < Limit

\* What runs on a closed submission ran when it was closed.
ClosedInv == status \in Closed => WorkedOn \subseteq late

\* Of attachments no handler touched, an audit under way has a true picture.
AuditInv ==
  audit # NoAudit =>
    /\ WorkedOn \subseteq audit.moved
    /\ audit.pending \cup audit.current \subseteq audit.listed
    /\ audit.pending \cap audit.current = {}
    /\ audit.stage # "open" => audit.current = {}
    /\ audit.stage = "done" => audit.pending = {}
    /\ \A a \in Attachments \ audit.moved :
         /\ a \in audit.listed <=> a \in rows
         /\ a \in audit.missing <=>
              a \in audit.listed \ (audit.pending \cup audit.current) /\ file[a] # "whole"
         /\ audit.stage = "done" => (a \in audit.orphaned <=> a \notin rows /\ file[a] # "none")

IInv ==
  /\ TypeOK
  /\ HandlersInv
  /\ RowsReadable
  /\ LimitKept
  /\ LimitInv
  /\ OrphansExplained
  /\ ClosedSetKept
  /\ ClosedInv
  /\ AuditInv

-----------------------------------------------------------------------------
(* Initial states.                                                         *)

\* The invariant holds of an empty submission.
LEMMA InitInv == Init => IInv
<1> SUFFICES ASSUME Init PROVE IInv
  OBVIOUS
<1> USE DEF Init, Idle
<1>1. TypeOK
  <2>1. /\ status \in Editable \cup Closed /\ issuing \in BOOLEAN
        /\ change \in {"none", "SUBMITTED", "CANCELLED"}
    BY DEF Editable
  <2>2. requests \in 0..MaxRequests /\ file \in [Attachments -> Contents]
    BY MaxRequestsAssumption DEF Contents
  <2> QED
    BY <2>1, <2>2 DEF TypeOK
<1>2. HandlersInv
  BY DEF HandlersInv, Running, Placed, At
<1>3. RowsReadable
  BY DEF RowsReadable
<1>4. LimitKept
  BY FS_EmptySet, LimitAssumption DEF LimitKept
<1>5. LimitInv
  BY DEF LimitInv
<1>6. OrphansExplained
  BY DEF OrphansExplained
<1>7. ClosedSetKept /\ ClosedInv
  BY DEF ClosedSetKept, ClosedInv, Closed
<1>8. AuditInv
  BY DEF AuditInv
<1> QED
  BY <1>1, <1>2, <1>3, <1>4, <1>5, <1>6, <1>7, <1>8 DEF IInv

-----------------------------------------------------------------------------
(* Steps.                                                                  *)

\* What the disjuncts of Next other than Audit do to all variables but audit.
Work == (\E h \in Handlers : HandlerStep(h)) \/ Crash \/ StatusStep

\* A new status, from whichever process, leaves rows, files and handlers alone.
LEMMA StatusStepFacts ==
  ASSUME TypeOK, StatusStep
  PROVE  /\ UNCHANGED <<rows, file, handler, requests, unlogged, interrupted>>
         /\ issuing' \in BOOLEAN /\ change' \in {"none", "SUBMITTED", "CANCELLED"}
         /\ \/ UNCHANGED <<status, decidedOn, late>>
            \/ \E new \in Editable \cup Closed : SetStatus(new)
<1>1. CASE Decide
  BY <1>1 DEF Decide, TypeOK, Editable, Closed
<1>2. CASE Issue
  BY <1>2 DEF Issue, TypeOK, Closed
<1>3. CASE BeginChange
  BY <1>3 DEF BeginChange, TypeOK
<1>4. CASE WriteChange
  BY <1>4 DEF WriteChange, TypeOK, Editable, Closed
<1> QED
  BY <1>1, <1>2, <1>3, <1>4 DEF StatusStep

\* Every step keeps the variables, but the audit, in their types.
LEMMA WorkType ==
  ASSUME TypeOK, Work
  PROVE  /\ status' \in Editable \cup Closed
         /\ issuing' \in BOOLEAN
         /\ change' \in {"none", "SUBMITTED", "CANCELLED"}
         /\ rows' \subseteq Attachments
         /\ file' \in [Attachments -> Contents]
         /\ handler' \in [Handlers -> ActiveHandlers \cup {Idle}]
         /\ requests' \in 0..MaxRequests
         /\ unlogged' \subseteq Attachments
         /\ interrupted' \subseteq Attachments
         /\ decidedOn' \subseteq Attachments
         /\ late' \subseteq Attachments
<1> USE DEF TypeOK
<1>0. \A h \in Handlers : handler[h].stage \in {"body"} \cup Running =>
        handler[h] \in ActiveHandlers /\ handler[h].id \in Attachments
  BY DEF ActiveHandlers, Idle, Running
<1>01. WorkedOn \subseteq Attachments
  BY <1>0 DEF WorkedOn
<1>1. ASSUME NEW h \in Handlers, HandlerStep(h) PROVE
         /\ status' \in Editable \cup Closed
         /\ issuing' \in BOOLEAN
         /\ change' \in {"none", "SUBMITTED", "CANCELLED"}
         /\ rows' \subseteq Attachments
         /\ file' \in [Attachments -> Contents]
         /\ handler' \in [Handlers -> ActiveHandlers \cup {Idle}]
         /\ requests' \in 0..MaxRequests
         /\ unlogged' \subseteq Attachments
         /\ interrupted' \subseteq Attachments
         /\ decidedOn' \subseteq Attachments
         /\ late' \subseteq Attachments
  <2>1. ASSUME NEW kind \in {"upload", "remove"}, Begin(h, kind) PROVE
           handler' \in [Handlers -> ActiveHandlers \cup {Idle}] /\ requests' \in 0..MaxRequests
    <3>1. requests + 1 \in Attachments /\ 1..requests \subseteq Attachments
      BY <2>1, MaxRequestsAssumption DEF Begin, Attachments
    <3>2. PICK a \in Attachments :
            handler' = [handler EXCEPT ![h] = [stage |-> "body", kind |-> kind, id |-> a]]
      BY <2>1, <3>1 DEF Begin
    <3>3. requests' \in 0..MaxRequests
      BY <2>1, MaxRequestsAssumption DEF Begin
    <3> QED
      BY <3>2, <3>3 DEF ActiveHandlers
  <2>2. CASE \E kind \in {"upload", "remove"} : Begin(h, kind)
    BY <2>1, <2>2 DEF Begin, statusVars
  <2>3. CASE Check(h)
    BY <2>3, <1>0 DEF Check, At, Go, Finish, ActiveHandlers, Running, statusVars
  <2>4. CASE WriteFile(h)
    BY <2>4, <1>0 DEF WriteFile, At, Go, Finish, Abandon, ActiveHandlers, Running, Contents, statusVars
  <2>5. CASE InsertRow(h)
    BY <2>5, <1>0 DEF InsertRow, At, Go, ActiveHandlers, Running, statusVars
  <2>6. CASE RecordAdded(h)
    BY <2>6, <1>0 DEF RecordAdded, At, Go, Finish, ActiveHandlers, Running, statusVars
  <2>7. CASE Undo(h)
    BY <2>7, <1>0 DEF Undo, At, Finish, Abandon, ActiveHandlers, Running, Contents, statusVars
  <2>8. CASE DeleteRow(h)
    BY <2>8, <1>0 DEF DeleteRow, At, Go, Finish, ActiveHandlers, Running, statusVars
  <2>9. CASE RecordRemoved(h)
    BY <2>9, <1>0 DEF RecordRemoved, At, Go, Finish, Abandon, ActiveHandlers, Running, statusVars
  <2>10. CASE Unlink(h)
    BY <2>10, <1>0 DEF Unlink, At, Finish, Abandon, ActiveHandlers, Running, Contents, statusVars
  <2> QED
    BY <1>1, <2>2, <2>3, <2>4, <2>5, <2>6, <2>7, <2>8, <2>9, <2>10 DEF HandlerStep
<1>2. CASE Crash
  <2>1. \A h \in Handlers : [file EXCEPT ![handler[h].id] = "partial"] \in [Attachments -> Contents]
    BY DEF Contents
  <2> QED
    BY <1>2, <1>01, <2>1 DEF Crash
<1>3. CASE StatusStep
  BY <1>3, <1>01, StatusStepFacts DEF SetStatus
<1> QED
  BY <1>1, <1>2, <1>3 DEF Work

\* A handler that does anything after its body is the only one that runs.
LEMMA Alone ==
  ASSUME TypeOK, HandlersInv, NEW h \in Handlers, handler[h].stage \in Running
  PROVE  /\ \A g \in Handlers \ {h} : handler[g].stage \notin Running
         /\ handler[h].id \in 1..requests
         /\ handler[h] # Idle
         /\ handler[h].id \in Attachments
         /\ WorkedOn = {handler[h].id}
<1>1. \A g \in Handlers \ {h} : handler[g].stage \notin Running
  BY DEF HandlersInv
<1>2. handler[h] # Idle
  BY DEF Running, Idle
<1>3. handler[h].id \in 1..requests
  BY <1>2 DEF HandlersInv
<1>4. handler[h].id \in Attachments
  BY <1>3, MaxRequestsAssumption DEF TypeOK, Attachments
<1>5. WorkedOn = {handler[h].id}
  BY <1>1 DEF WorkedOn
<1> QED
  BY <1>1, <1>2, <1>3, <1>4, <1>5

\* A handler that runs alone may take a stage of its kind, or end, if it leaves
\* what the invariant says of its own attachment.
LEMMA OwnStep ==
  ASSUME TypeOK, HandlersInv, NEW h \in Handlers, NEW new,
         handler[h] # Idle,
         \A g \in Handlers \ {h} : handler[g].stage \notin Running,
         handler' = [handler EXCEPT ![h] = new],
         \/ new = Idle
         \/ /\ new \in ActiveHandlers
            /\ new.id = handler[h].id /\ new.kind = handler[h].kind
            /\ new.stage \in (IF new.kind = "upload" THEN {"write", "insert", "added", "undo"}
                              ELSE {"delete", "removed", "unlink"}),
         rows' \subseteq rows \cup {handler[h].id},
         handler[h].kind = "remove" => rows' \subseteq rows,
         requests' = requests,
         new # Idle /\ new.stage = "write" => new.id \notin rows',
         new # Idle => Placed(h)'
  PROVE  HandlersInv'
<1>0. handler \in [Handlers -> ActiveHandlers \cup {Idle}]
  BY DEF TypeOK
<1>01. /\ handler'[h] = new
       /\ \A g \in Handlers \ {h} : handler'[g] = handler[g]
       /\ handler[h] \in ActiveHandlers
  BY <1>0
<1>02. \A g \in Handlers : handler[g] # Idle => handler[g] \in ActiveHandlers
  BY <1>0
<1>1. (\A g, k \in Handlers : handler[g].stage \in Running /\ handler[k].stage \in Running => g = k)'
  BY <1>01
<1>2. (\A g \in Handlers : handler[g] # Idle => handler[g].id \in 1..requests)'
  BY <1>01 DEF HandlersInv
<1>3. (\A g \in Handlers : handler[g].stage \in {"write", "insert", "added", "undo"} =>
         handler[g].kind = "upload")'
  BY <1>01 DEF HandlersInv, ActiveHandlers, Idle
<1>4. (\A g \in Handlers : handler[g].stage \in {"delete", "removed", "unlink"} =>
         handler[g].kind = "remove")'
  BY <1>01 DEF HandlersInv, ActiveHandlers, Idle
<1>5. (\A g, k \in Handlers :
         handler[g] # Idle /\ handler[k] # Idle /\ handler[g].kind = "upload"
           /\ handler[k].kind = "upload" /\ handler[g].id = handler[k].id => g = k)'
  BY <1>01 DEF HandlersInv
<1>6. (rows \subseteq 1..requests)'
  BY DEF HandlersInv
<1>7. (\A g \in Handlers :
         handler[g].stage \in {"body", "write"} /\ handler[g].kind = "upload" =>
           handler[g].id \notin rows)'
  <2>1. SUFFICES ASSUME NEW g \in Handlers, handler'[g].stage \in {"body", "write"},
                        handler'[g].kind = "upload"
                 PROVE  handler'[g].id \notin rows'
    OBVIOUS
  <2>2. CASE g = h
    BY <1>01, <2>1, <2>2 DEF Idle
  <2>3. CASE g # h
    <3>1. handler[g] # Idle /\ handler[g].id \notin rows
      BY <1>01, <2>1, <2>3 DEF HandlersInv, Idle
    <3>2. handler[h].kind \in {"upload", "remove"}
      BY <1>01 DEF ActiveHandlers
    <3> QED
      BY <1>01, <2>1, <2>3, <3>1, <3>2 DEF HandlersInv
  <2> QED
    BY <2>2, <2>3
<1>8. (\A g \in Handlers : Placed(g))'
  BY <1>01 DEF Placed, At, Running, Idle
<1> QED
  BY <1>1, <1>2, <1>3, <1>4, <1>5, <1>6, <1>7, <1>8 DEF HandlersInv

\* Nothing a handler does after its body disturbs the other handlers.
LEMMA HandlersStep ==
  ASSUME TypeOK, HandlersInv, Work
  PROVE  HandlersInv'
<1> USE DEF HandlersInv, Placed, At
<1>0. handler \in [Handlers -> ActiveHandlers \cup {Idle}] /\ requests \in Nat
  BY MaxRequestsAssumption DEF TypeOK
<1>01. file \in [Attachments -> Contents]
  BY DEF TypeOK
<1>1. ASSUME NEW h \in Handlers, HandlerStep(h) PROVE HandlersInv'
  <2>1. ASSUME NEW kind \in {"upload", "remove"}, Begin(h, kind) PROVE HandlersInv'
    <3>1. PICK a \in (IF kind = "upload" THEN {requests + 1} ELSE 1..requests) :
            handler' = [handler EXCEPT ![h] = [stage |-> "body", kind |-> kind, id |-> a]]
      BY <2>1 DEF Begin
    <3>2. a \in 1..requests' /\ 1..requests \subseteq 1..requests'
      BY <1>0, <2>1, <3>1 DEF Begin
    <3>3. kind = "upload" =>
            a = requests + 1 /\ a \notin rows
              /\ \A g \in Handlers : handler[g] # Idle => handler[g].id # a
      BY <1>0, <3>1
    <3>4. rows' = rows /\ file' = file /\ unlogged' = unlogged
      BY <2>1 DEF Begin
    <3> QED
      BY <1>0, <3>1, <3>2, <3>3, <3>4 DEF Running
  <2>2. CASE \E kind \in {"upload", "remove"} : Begin(h, kind)
    BY <2>1, <2>2
  <2>3. CASE Check(h)
    <3>1. PICK new \in {Idle, [handler[h] EXCEPT !.stage = "write"],
                        [handler[h] EXCEPT !.stage = "delete"]} :
            /\ handler' = [handler EXCEPT ![h] = new]
            /\ new # Idle /\ new.stage = "write" => handler[h].kind = "upload"
            /\ new # Idle /\ new.stage = "delete" =>
                 handler[h].kind = "remove" /\ handler[h].id \in rows
      BY <1>0, <2>3 DEF Check, Go, Finish, Idle, ActiveHandlers
    <3>2. handler[h] \in ActiveHandlers /\ handler[h] # Idle /\ handler[h].stage = "body"
      BY <1>0, <2>3 DEF Check, Idle
    <3>3. \A g \in Handlers : handler[g].stage \notin Running
      BY <2>3 DEF Check, ThreadFree
    <3>4. rows' = rows /\ requests' = requests
      BY <2>3 DEF Check
    <3>5. \/ new = Idle
          \/ /\ new \in ActiveHandlers /\ new.id = handler[h].id /\ new.kind = handler[h].kind
             /\ new.stage \in {"write", "delete"}
      BY <3>1, <3>2 DEF ActiveHandlers, Running
    <3>6. new # Idle /\ new.stage = "write" => new.id \notin rows'
      BY <3>1, <3>2, <3>4, <3>5
    <3>7. new # Idle => Placed(h)'
      BY <1>0, <3>1, <3>4, <3>5
    <3> HIDE DEF HandlersInv, Placed
    <3> QED
      BY <3>1, <3>2, <3>3, <3>4, <3>5, <3>6, <3>7, OwnStep
  <2>4. CASE WriteFile(h)
    <3>1. handler[h] \in ActiveHandlers /\ handler[h].stage = "write"
      BY <1>0, <2>4 DEF WriteFile, Idle
    <3>2. /\ \A g \in Handlers \ {h} : handler[g].stage \notin Running
          /\ handler[h].id \in Attachments /\ handler[h] # Idle
      BY <3>1, Alone DEF Running
    <3>3. handler[h].kind = "upload" /\ Placed(h)
      BY <3>1
    <3>4. PICK new \in {Idle,
                        [handler[h] EXCEPT !.stage = "insert"]} :
            handler' = [handler EXCEPT ![h] = new] /\ (new # Idle => Placed(h)')
      BY <1>0, <1>01, <2>4, <3>1, <3>2, <3>3 DEF WriteFile, Go, Finish, Abandon, Idle, ActiveHandlers
    <3>5. /\ rows' \subseteq rows \cup {handler[h].id} /\ requests' = requests
          /\ handler[h].kind = "remove" => rows' \subseteq rows
      BY <2>4, <3>3 DEF WriteFile
    <3>6. \/ new = Idle
          \/ /\ new \in ActiveHandlers /\ new.id = handler[h].id /\ new.kind = handler[h].kind
             /\ new.stage \in {"insert"}
      BY <3>1, <3>4 DEF ActiveHandlers, Running
    <3> HIDE DEF HandlersInv, Placed
    <3> QED
      BY <3>2, <3>3, <3>4, <3>5, <3>6, OwnStep
  <2>5. CASE InsertRow(h)
    <3>1. handler[h] \in ActiveHandlers /\ handler[h].stage = "insert"
      BY <1>0, <2>5 DEF InsertRow, Idle
    <3>2. /\ \A g \in Handlers \ {h} : handler[g].stage \notin Running
          /\ handler[h].id \in Attachments /\ handler[h] # Idle
      BY <3>1, Alone DEF Running
    <3>3. handler[h].kind = "upload" /\ Placed(h)
      BY <3>1
    <3>4. PICK new \in {[handler[h] EXCEPT !.stage = "added"],
                        [handler[h] EXCEPT !.stage = "undo"]} :
            handler' = [handler EXCEPT ![h] = new] /\ (new # Idle => Placed(h)')
      BY <1>0, <1>01, <2>5, <3>1, <3>2, <3>3 DEF InsertRow, Go, Finish, Abandon, Idle, ActiveHandlers
    <3>5. /\ rows' \subseteq rows \cup {handler[h].id} /\ requests' = requests
          /\ handler[h].kind = "remove" => rows' \subseteq rows
      BY <2>5, <3>3 DEF InsertRow
    <3>6. \/ new = Idle
          \/ /\ new \in ActiveHandlers /\ new.id = handler[h].id /\ new.kind = handler[h].kind
             /\ new.stage \in {"added", "undo"}
      BY <3>1, <3>4 DEF ActiveHandlers, Running
    <3> HIDE DEF HandlersInv, Placed
    <3> QED
      BY <3>2, <3>3, <3>4, <3>5, <3>6, OwnStep
  <2>6. CASE RecordAdded(h)
    <3>1. handler[h] \in ActiveHandlers /\ handler[h].stage = "added"
      BY <1>0, <2>6 DEF RecordAdded, Idle
    <3>2. /\ \A g \in Handlers \ {h} : handler[g].stage \notin Running
          /\ handler[h].id \in Attachments /\ handler[h] # Idle
      BY <3>1, Alone DEF Running
    <3>3. handler[h].kind = "upload" /\ Placed(h)
      BY <3>1
    <3>4. PICK new \in {Idle,
                        [handler[h] EXCEPT !.stage = "undo"]} :
            handler' = [handler EXCEPT ![h] = new] /\ (new # Idle => Placed(h)')
      BY <1>0, <1>01, <2>6, <3>1, <3>2, <3>3 DEF RecordAdded, Go, Finish, Abandon, Idle, ActiveHandlers
    <3>5. /\ rows' \subseteq rows \cup {handler[h].id} /\ requests' = requests
          /\ handler[h].kind = "remove" => rows' \subseteq rows
      BY <2>6, <3>3 DEF RecordAdded
    <3>6. \/ new = Idle
          \/ /\ new \in ActiveHandlers /\ new.id = handler[h].id /\ new.kind = handler[h].kind
             /\ new.stage \in {"undo"}
      BY <3>1, <3>4 DEF ActiveHandlers, Running
    <3> HIDE DEF HandlersInv, Placed
    <3> QED
      BY <3>2, <3>3, <3>4, <3>5, <3>6, OwnStep
  <2>7. CASE Undo(h)
    <3>1. handler[h] \in ActiveHandlers /\ handler[h].stage = "undo"
      BY <1>0, <2>7 DEF Undo, Idle
    <3>2. /\ \A g \in Handlers \ {h} : handler[g].stage \notin Running
          /\ handler[h].id \in Attachments /\ handler[h] # Idle
      BY <3>1, Alone DEF Running
    <3>3. handler[h].kind = "upload" /\ Placed(h)
      BY <3>1
    <3>4. PICK new \in {Idle} :
            handler' = [handler EXCEPT ![h] = new] /\ (new # Idle => Placed(h)')
      BY <1>0, <1>01, <2>7, <3>1, <3>2, <3>3 DEF Undo, Go, Finish, Abandon, Idle, ActiveHandlers
    <3>5. /\ rows' \subseteq rows \cup {handler[h].id} /\ requests' = requests
          /\ handler[h].kind = "remove" => rows' \subseteq rows
      BY <2>7, <3>3 DEF Undo
    <3>6. \/ new = Idle
          \/ /\ new \in ActiveHandlers /\ new.id = handler[h].id /\ new.kind = handler[h].kind
             /\ new.stage \in {}
      BY <3>1, <3>4 DEF ActiveHandlers, Running
    <3> HIDE DEF HandlersInv, Placed
    <3> QED
      BY <3>2, <3>3, <3>4, <3>5, <3>6, OwnStep
  <2>8. CASE DeleteRow(h)
    <3>1. handler[h] \in ActiveHandlers /\ handler[h].stage = "delete"
      BY <1>0, <2>8 DEF DeleteRow, Idle
    <3>2. /\ \A g \in Handlers \ {h} : handler[g].stage \notin Running
          /\ handler[h].id \in Attachments /\ handler[h] # Idle
      BY <3>1, Alone DEF Running
    <3>3. handler[h].kind = "remove" /\ Placed(h)
      BY <3>1
    <3>4. PICK new \in {Idle,
                        [handler[h] EXCEPT !.stage = "removed"]} :
            handler' = [handler EXCEPT ![h] = new] /\ (new # Idle => Placed(h)')
      BY <1>0, <1>01, <2>8, <3>1, <3>2, <3>3 DEF DeleteRow, Go, Finish, Abandon, Idle, ActiveHandlers
    <3>5. /\ rows' \subseteq rows \cup {handler[h].id} /\ requests' = requests
          /\ handler[h].kind = "remove" => rows' \subseteq rows
      BY <2>8, <3>3 DEF DeleteRow
    <3>6. \/ new = Idle
          \/ /\ new \in ActiveHandlers /\ new.id = handler[h].id /\ new.kind = handler[h].kind
             /\ new.stage \in {"removed"}
      BY <3>1, <3>4 DEF ActiveHandlers, Running
    <3> HIDE DEF HandlersInv, Placed
    <3> QED
      BY <3>2, <3>3, <3>4, <3>5, <3>6, OwnStep
  <2>9. CASE RecordRemoved(h)
    <3>1. handler[h] \in ActiveHandlers /\ handler[h].stage = "removed"
      BY <1>0, <2>9 DEF RecordRemoved, Idle
    <3>2. /\ \A g \in Handlers \ {h} : handler[g].stage \notin Running
          /\ handler[h].id \in Attachments /\ handler[h] # Idle
      BY <3>1, Alone DEF Running
    <3>3. handler[h].kind = "remove" /\ Placed(h)
      BY <3>1
    <3>4. PICK new \in {Idle,
                        [handler[h] EXCEPT !.stage = "unlink"]} :
            handler' = [handler EXCEPT ![h] = new] /\ (new # Idle => Placed(h)')
      BY <1>0, <1>01, <2>9, <3>1, <3>2, <3>3 DEF RecordRemoved, Go, Finish, Abandon, Idle, ActiveHandlers
    <3>5. /\ rows' \subseteq rows \cup {handler[h].id} /\ requests' = requests
          /\ handler[h].kind = "remove" => rows' \subseteq rows
      BY <2>9, <3>3 DEF RecordRemoved
    <3>6. \/ new = Idle
          \/ /\ new \in ActiveHandlers /\ new.id = handler[h].id /\ new.kind = handler[h].kind
             /\ new.stage \in {"unlink"}
      BY <3>1, <3>4 DEF ActiveHandlers, Running
    <3> HIDE DEF HandlersInv, Placed
    <3> QED
      BY <3>2, <3>3, <3>4, <3>5, <3>6, OwnStep
  <2>10. CASE Unlink(h)
    <3>1. handler[h] \in ActiveHandlers /\ handler[h].stage = "unlink"
      BY <1>0, <2>10 DEF Unlink, Idle
    <3>2. /\ \A g \in Handlers \ {h} : handler[g].stage \notin Running
          /\ handler[h].id \in Attachments /\ handler[h] # Idle
      BY <3>1, Alone DEF Running
    <3>3. handler[h].kind = "remove" /\ Placed(h)
      BY <3>1
    <3>4. PICK new \in {Idle} :
            handler' = [handler EXCEPT ![h] = new] /\ (new # Idle => Placed(h)')
      BY <1>0, <1>01, <2>10, <3>1, <3>2, <3>3 DEF Unlink, Go, Finish, Abandon, Idle, ActiveHandlers
    <3>5. /\ rows' \subseteq rows \cup {handler[h].id} /\ requests' = requests
          /\ handler[h].kind = "remove" => rows' \subseteq rows
      BY <2>10, <3>3 DEF Unlink
    <3>6. \/ new = Idle
          \/ /\ new \in ActiveHandlers /\ new.id = handler[h].id /\ new.kind = handler[h].kind
             /\ new.stage \in {}
      BY <3>1, <3>4 DEF ActiveHandlers, Running
    <3> HIDE DEF HandlersInv, Placed
    <3> QED
      BY <3>2, <3>3, <3>4, <3>5, <3>6, OwnStep
  <2> QED
    BY <1>1, <2>2, <2>3, <2>4, <2>5, <2>6, <2>7, <2>8, <2>9, <2>10 DEF HandlerStep
<1>2. CASE Crash
  BY <1>2 DEF Crash, Idle, Running
<1>3. CASE StatusStep
  BY <1>3, StatusStepFacts
<1> QED
  BY <1>1, <1>2, <1>3 DEF Work

\* The steps of a handler after its check.
Runs(h) ==
  \/ WriteFile(h)
  \/ InsertRow(h)
  \/ RecordAdded(h)
  \/ Undo(h)
  \/ DeleteRow(h)
  \/ RecordRemoved(h)
  \/ Unlink(h)

\* They keep all but the handler's own attachment, and the submission.
LEMMA RunStep ==
  ASSUME TypeOK, HandlersInv, NEW h \in Handlers, Runs(h)
  PROVE  /\ handler[h].stage \in Running /\ WorkedOn = {handler[h].id}
         /\ WorkedOn' \subseteq WorkedOn
         /\ UNCHANGED <<status, requests, decidedOn, late>>
         /\ \A a \in Attachments \ WorkedOn : (a \in rows' <=> a \in rows) /\ file'[a] = file[a]
<1>0. handler \in [Handlers -> ActiveHandlers \cup {Idle}] /\ file \in [Attachments -> Contents]
  BY DEF TypeOK
<1>1. handler[h].stage \in Running
  BY DEF Runs, WriteFile, InsertRow, RecordAdded, Undo, DeleteRow, RecordRemoved, Unlink, At, Running
<1>2. handler[h] \in ActiveHandlers
  BY <1>0, <1>1 DEF Idle, Running
<1>3. PICK new : /\ handler' = [handler EXCEPT ![h] = new]
                 /\ new = Idle \/ new.id = handler[h].id
  <2>1. CASE handler' = [handler EXCEPT ![h] = Idle]
    BY <2>1
  <2>2. CASE \E stage \in Running : handler' = [handler EXCEPT ![h].stage = stage]
    <3>1. PICK stage \in Running : handler' = [handler EXCEPT ![h].stage = stage]
      BY <2>2
    <3>2. handler' = [handler EXCEPT ![h] = [handler[h] EXCEPT !.stage = stage]]
      BY <3>1
    <3>3. [handler[h] EXCEPT !.stage = stage].id = handler[h].id
      BY <1>2 DEF ActiveHandlers
    <3> QED
      BY <3>2, <3>3
  <2> QED
    BY <2>1, <2>2
    DEF Runs, WriteFile, InsertRow, RecordAdded, Undo, DeleteRow, RecordRemoved, Unlink,
        Go, Finish, Abandon, Running
<1>4. \A g \in Handlers \ {h} : handler'[g] = handler[g] /\ handler[g].stage \notin Running
  BY <1>0, <1>1, <1>3, Alone
<1>5. WorkedOn = {handler[h].id}
  BY <1>1, Alone
<1>6. WorkedOn' \subseteq WorkedOn
  BY <1>0, <1>3, <1>4, <1>5 DEF WorkedOn, Running, Idle
<1>7. UNCHANGED <<status, requests, decidedOn, late>>
  BY DEF Runs, WriteFile, InsertRow, RecordAdded, Undo, DeleteRow, RecordRemoved, Unlink, statusVars
<1>8. \A a \in Attachments \ {handler[h].id} : a \in rows' <=> a \in rows
  BY DEF Runs, WriteFile, InsertRow, RecordAdded, Undo, DeleteRow, RecordRemoved, Unlink
<1>9. \A a \in Attachments \ {handler[h].id} : file'[a] = file[a]
  BY <1>0 DEF Runs, WriteFile, InsertRow, RecordAdded, Undo, DeleteRow, RecordRemoved, Unlink
<1> QED
  BY <1>1, <1>5, <1>6, <1>7, <1>8, <1>9

\* A handler works on something new only when it passes its check, which finds
\* the submission editable.
LEMMA CheckStep ==
  ASSUME TypeOK, NEW h \in Handlers,
         Check(h) \/ \E kind \in {"upload", "remove"} : Begin(h, kind)
  PROVE  /\ WorkedOn = {}
         /\ WorkedOn' = {} \/ status \in Editable
         /\ UNCHANGED <<status, rows, file, unlogged, interrupted, decidedOn, late>>
<1>0. handler \in [Handlers -> ActiveHandlers \cup {Idle}]
  BY DEF TypeOK
<1>1. WorkedOn = {}
  BY DEF Check, Begin, ThreadFree, WorkedOn
<1>2. UNCHANGED <<status, rows, file, unlogged, interrupted, decidedOn, late>>
  BY DEF Check, Begin, statusVars
<1>3. CASE Check(h)
  <2>1. CASE status \in Editable
    BY <1>1, <1>2, <2>1
  <2>2. CASE status \notin Editable
    BY <1>0, <1>1, <1>2, <1>3, <2>2 DEF Check, ThreadFree, Finish, WorkedOn, Running, Idle
  <2> QED
    BY <2>1, <2>2
<1>4. CASE \E kind \in {"upload", "remove"} : Begin(h, kind)
  <2>1. PICK kind, a : handler' = [handler EXCEPT ![h] = [stage |-> "body", kind |-> kind, id |-> a]]
    BY <1>4 DEF Begin
  <2> QED
    <3>1. \A g \in Handlers : handler'[g].stage \notin Running
      BY <1>0, <1>4, <2>1 DEF Begin, ThreadFree, Running
    <3>2. WorkedOn' = {}
      BY <3>1 DEF WorkedOn
    <3> QED
      BY <1>1, <1>2, <3>2
<1> QED
  BY <1>3, <1>4

\* What no handler works on keeps its row and its file.
LEMMA Frame ==
  ASSUME TypeOK, HandlersInv, Work
  PROVE  \A a \in Attachments \ WorkedOn : (a \in rows' <=> a \in rows) /\ file'[a] = file[a]
<1>1. ASSUME NEW h \in Handlers, HandlerStep(h)
      PROVE  \A a \in Attachments \ WorkedOn : (a \in rows' <=> a \in rows) /\ file'[a] = file[a]
  BY <1>1, RunStep, CheckStep DEF HandlerStep, Runs
<1>2. CASE Crash
  <2>1. \A h \in Handlers : At(h, "write") => handler[h].id \in WorkedOn
    BY DEF WorkedOn, At, Running
  <2> QED
    BY <1>2, <2>1 DEF Crash, TypeOK
<1>3. CASE StatusStep
  BY <1>3, StatusStepFacts
<1> QED
  BY <1>1, <1>2, <1>3 DEF Work

\* The set a submission was closed with changes only where a handler is at work.
LEMMA ClosedStep ==
  ASSUME TypeOK, HandlersInv, ClosedSetKept, ClosedInv, Work
  PROVE  ClosedSetKept' /\ ClosedInv'
<1> USE DEF ClosedSetKept, ClosedInv
<1>0. rows \subseteq Attachments /\ rows' \subseteq Attachments
  BY WorkType DEF TypeOK
<1>1. ASSUME NEW h \in Handlers, HandlerStep(h) PROVE ClosedSetKept' /\ ClosedInv'
  <2>1. CASE Runs(h)
    BY <1>0, <2>1, RunStep
  <2>2. CASE Check(h) \/ \E kind \in {"upload", "remove"} : Begin(h, kind)
    <3>1. status \in Closed => status \notin Editable
      BY DEF Closed, Editable
    <3> QED
      BY <2>2, <3>1, CheckStep
  <2> QED
    BY <1>1, <2>1, <2>2 DEF HandlerStep, Runs
<1>2. CASE Crash
  <2>1. WorkedOn' = {}
    BY <1>2 DEF Crash, WorkedOn, Running, Idle
  <2> QED
    BY <1>2, <2>1 DEF Crash
<1>3. CASE StatusStep
  <2>1. UNCHANGED rows /\ WorkedOn' = WorkedOn
    BY <1>3, StatusStepFacts DEF WorkedOn
  <2> QED
    BY <1>3, <2>1, StatusStepFacts DEF SetStatus
<1> QED
  BY <1>1, <1>2, <1>3 DEF Work

\* Rows keep their files.
LEMMA ReadableStep ==
  ASSUME TypeOK, HandlersInv, RowsReadable, Work
  PROVE  RowsReadable'
<1> USE DEF RowsReadable
<1>0. file \in [Attachments -> Contents] /\ rows \subseteq Attachments
  BY DEF TypeOK
<1>1. ASSUME NEW h \in Handlers, HandlerStep(h) PROVE RowsReadable'
  <2>1. CASE \E kind \in {"upload", "remove"} : Begin(h, kind)
    BY <2>1 DEF Begin
  <2>2. CASE Check(h)
    BY <2>2 DEF Check
  <2>3. CASE WriteFile(h)
    <3>1. handler[h].stage = "write" /\ handler[h].id \in Attachments
      BY <2>3, Alone DEF WriteFile, At, Running
    <3>2. Placed(h) /\ (handler[h].stage = "write" => handler[h].id \notin rows)
      BY <3>1 DEF HandlersInv
    <3> QED
      BY <1>0, <2>3, <3>1, <3>2 DEF WriteFile, Placed, At
  <2>4. CASE InsertRow(h)
    <3>1. handler[h].stage = "insert" /\ handler[h].id \in Attachments
      BY <2>4, Alone DEF InsertRow, At, Running
    <3>2. Placed(h) /\ (handler[h].stage = "write" => handler[h].id \notin rows)
      BY <3>1 DEF HandlersInv
    <3> QED
      BY <1>0, <2>4, <3>1, <3>2 DEF InsertRow, Placed, At
  <2>5. CASE RecordAdded(h)
    <3>1. handler[h].stage = "added" /\ handler[h].id \in Attachments
      BY <2>5, Alone DEF RecordAdded, At, Running
    <3>2. Placed(h) /\ (handler[h].stage = "write" => handler[h].id \notin rows)
      BY <3>1 DEF HandlersInv
    <3> QED
      BY <1>0, <2>5, <3>1, <3>2 DEF RecordAdded, Placed, At
  <2>6. CASE Undo(h)
    <3>1. handler[h].stage = "undo" /\ handler[h].id \in Attachments
      BY <2>6, Alone DEF Undo, At, Running
    <3>2. Placed(h) /\ (handler[h].stage = "write" => handler[h].id \notin rows)
      BY <3>1 DEF HandlersInv
    <3> QED
      BY <1>0, <2>6, <3>1, <3>2 DEF Undo, Placed, At
  <2>7. CASE DeleteRow(h)
    <3>1. handler[h].stage = "delete" /\ handler[h].id \in Attachments
      BY <2>7, Alone DEF DeleteRow, At, Running
    <3>2. Placed(h) /\ (handler[h].stage = "write" => handler[h].id \notin rows)
      BY <3>1 DEF HandlersInv
    <3> QED
      BY <1>0, <2>7, <3>1, <3>2 DEF DeleteRow, Placed, At
  <2>8. CASE RecordRemoved(h)
    <3>1. handler[h].stage = "removed" /\ handler[h].id \in Attachments
      BY <2>8, Alone DEF RecordRemoved, At, Running
    <3>2. Placed(h) /\ (handler[h].stage = "write" => handler[h].id \notin rows)
      BY <3>1 DEF HandlersInv
    <3> QED
      BY <1>0, <2>8, <3>1, <3>2 DEF RecordRemoved, Placed, At
  <2>9. CASE Unlink(h)
    <3>1. handler[h].stage = "unlink" /\ handler[h].id \in Attachments
      BY <2>9, Alone DEF Unlink, At, Running
    <3>2. Placed(h) /\ (handler[h].stage = "write" => handler[h].id \notin rows)
      BY <3>1 DEF HandlersInv
    <3> QED
      BY <1>0, <2>9, <3>1, <3>2 DEF Unlink, Placed, At
  <2> QED
    BY <1>1, <2>1, <2>2, <2>3, <2>4, <2>5, <2>6, <2>7, <2>8, <2>9 DEF HandlerStep
<1>2. CASE Crash
  <2>1. \A h \in Handlers : At(h, "write") => handler[h].id \in Attachments \ rows
    BY Alone DEF At, HandlersInv, Running
  <2> QED
    BY <1>0, <1>2, <2>1 DEF Crash
<1>3. CASE StatusStep
  BY <1>3, StatusStepFacts
<1> QED
  BY <1>1, <1>2, <1>3 DEF Work

\* A row is inserted only by a handler that counted fewer than the limit.
LEMMA LimitStep ==
  ASSUME TypeOK, HandlersInv, LimitKept, LimitInv, Work
  PROVE  LimitKept' /\ LimitInv'
<1> USE DEF LimitKept, LimitInv
<1>0. handler \in [Handlers -> ActiveHandlers \cup {Idle}]
  BY DEF TypeOK
<1>01. IsFiniteSet(rows) /\ Cardinality(rows) \in Nat
  <2>1. IsFiniteSet(1..MaxRequests)
    <3>1. 1 \in Int /\ MaxRequests \in Int
      BY MaxRequestsAssumption
    <3> QED
      BY <3>1, FS_Interval
  <2>2. rows \subseteq 1..MaxRequests
    BY DEF TypeOK, Attachments
  <2>3. IsFiniteSet(rows)
    BY <2>1, <2>2, FS_Subset
  <2> QED
    BY <2>3, FS_CardinalityType
<1>1. ASSUME NEW h \in Handlers, HandlerStep(h) PROVE LimitKept' /\ LimitInv'
  <2>1. CASE \E kind \in {"upload", "remove"} : Begin(h, kind)
    <3>1. PICK kind, a : handler' = [handler EXCEPT ![h] = [stage |-> "body", kind |-> kind, id |-> a]]
      BY <2>1 DEF Begin
    <3> QED
      BY <1>0, <2>1, <3>1 DEF Begin
  <2>2. CASE Check(h)
    BY <1>0, <2>2 DEF Check, Go, Finish, ThreadFree, Running, Idle, ActiveHandlers, TypeOK
  <2>3. CASE Runs(h)
    <3>1. \A g \in Handlers \ {h} : handler[g].stage \notin Running /\ handler'[g] = handler[g]
      BY <1>0, <2>3, RunStep, Alone
      DEF Runs, WriteFile, InsertRow, RecordAdded, Undo, DeleteRow, RecordRemoved, Unlink,
          Go, Finish, Abandon
    <3>2. handler[h] \in ActiveHandlers
      BY <1>0, <2>3, RunStep DEF Idle, Running
    <3>3. CASE InsertRow(h)
      <4>1. Cardinality(rows) < Limit /\ handler[h].id \notin rows
        BY <3>3 DEF InsertRow, At, HandlersInv, Placed
      <4>2. Cardinality(rows \cup {handler[h].id}) = Cardinality(rows) + 1
        BY <1>01, <4>1, FS_AddElement
      <4>3. Cardinality(rows') <= Limit
        BY <1>01, <3>3, <4>1, <4>2, LimitAssumption DEF InsertRow
      <4>4. handler'[h].stage \in {"added", "undo"}
        BY <1>0, <3>2, <3>3 DEF InsertRow, Go, ActiveHandlers
      <4> QED
        BY <3>1, <4>3, <4>4 DEF Running
    <3>4. CASE DeleteRow(h)
      <4>1. Cardinality(rows') <= Cardinality(rows) /\ Cardinality(rows') \in Nat
        BY <1>01, <3>4, FS_Subset, FS_CardinalityType DEF DeleteRow
      <4>2. handler'[h].stage \in {"removed", "idle"}
        BY <1>0, <3>2, <3>4 DEF DeleteRow, Go, Finish, ActiveHandlers, Idle
      <4> QED
        BY <1>01, <3>1, <4>1, <4>2, LimitAssumption DEF Running
    <3>5. CASE WriteFile(h)
      BY <1>0, <3>1, <3>2, <3>5 DEF WriteFile, At, Abandon, Finish, Go, Running, ActiveHandlers, Idle
    <3>6. CASE RecordAdded(h) \/ Undo(h) \/ RecordRemoved(h) \/ Unlink(h)
      <4>1. rows' = rows
        BY <3>6 DEF RecordAdded, Undo, RecordRemoved, Unlink
      <4>2. handler'[h].stage \in {"undo", "unlink", "idle"}
        BY <1>0, <3>2, <3>6 DEF RecordAdded, Undo, RecordRemoved, Unlink, Abandon, Finish, Go,
                                ActiveHandlers, Idle
      <4> QED
        BY <3>1, <4>1, <4>2 DEF Running
    <3> QED
      BY <2>3, <3>3, <3>4, <3>5, <3>6 DEF Runs
  <2> QED
    BY <1>1, <2>1, <2>2, <2>3 DEF HandlerStep, Runs
<1>2. CASE Crash
  BY <1>2 DEF Crash, Idle
<1>3. CASE StatusStep
  BY <1>3, StatusStepFacts
<1> QED
  BY <1>1, <1>2, <1>3 DEF Work

\* A file loses its row, or is written, only while a handler works on it, and a
\* handler that ends without having cleaned up says so.
LEMMA OrphansStep ==
  ASSUME TypeOK, HandlersInv, OrphansExplained, Work
  PROVE  OrphansExplained'
<1> USE DEF OrphansExplained
<1>0. /\ handler \in [Handlers -> ActiveHandlers \cup {Idle}]
      /\ file \in [Attachments -> Contents]
      /\ rows \subseteq Attachments
  BY DEF TypeOK
<1>1. ASSUME NEW h \in Handlers, HandlerStep(h) PROVE OrphansExplained'
  <2>1. CASE Check(h) \/ \E kind \in {"upload", "remove"} : Begin(h, kind)
    BY <2>1, CheckStep
  <2>2. CASE Runs(h)
    <3>1. handler[h].stage \in Running /\ WorkedOn = {handler[h].id}
      BY <2>2, RunStep
    <3>2. handler[h] \in ActiveHandlers /\ handler[h].id \in Attachments
      BY <1>0, <3>1 DEF Idle, Running, ActiveHandlers
    <3>3. interrupted \subseteq interrupted'
      BY <2>2 DEF Runs, WriteFile, InsertRow, RecordAdded, Undo, DeleteRow, RecordRemoved,
                  Unlink, Abandon
    <3>4. \A a \in Attachments \ {handler[h].id} : (a \in rows' <=> a \in rows) /\ file'[a] = file[a]
      BY <2>2, <3>1, RunStep
    <3>5. handler'[h].stage \in Running => handler[h].id \in WorkedOn'
      <4>1. handler'[h].stage \in Running => handler'[h].id = handler[h].id
        BY <1>0, <2>2, <3>2
        DEF Runs, WriteFile, InsertRow, RecordAdded, Undo, DeleteRow, RecordRemoved, Unlink,
            Go, Finish, Abandon, ActiveHandlers, Idle, Running
      <4> QED
        BY <4>1 DEF WorkedOn
    <3>6. \/ handler'[h].stage \in Running
          \/ handler[h].id \in interrupted'
          \/ handler[h].id \in rows'
          \/ file'[handler[h].id] = "none"
      <4>1. At(h, "added") \/ At(h, "delete") => handler[h].id \in rows
        BY DEF HandlersInv, Placed
      <4> QED
        BY <1>0, <2>2, <3>2, <4>1
        DEF Runs, WriteFile, InsertRow, RecordAdded, Undo, DeleteRow, RecordRemoved, Unlink,
            Go, Finish, Abandon, ActiveHandlers, Running
    <3> QED
      BY <3>1, <3>3, <3>4, <3>5, <3>6
  <2> QED
    BY <1>1, <2>1, <2>2 DEF HandlerStep, Runs
<1>2. CASE Crash
  <2>1. \A a \in Attachments \ WorkedOn : (a \in rows' <=> a \in rows) /\ file'[a] = file[a]
    BY Frame
  <2>2. interrupted' = interrupted \cup WorkedOn
    BY <1>2 DEF Crash
  <2> QED
    BY <2>1, <2>2
<1>3. CASE StatusStep
  BY <1>3, StatusStepFacts DEF WorkedOn
<1> QED
  BY <1>1, <1>2, <1>3 DEF Work

-----------------------------------------------------------------------------
(* The audit.                                                              *)

\* Next splits into work, which the audit's ghost follows, and audit steps.
LEMMA NextIs ==
  Next <=> \/ Work /\ audit' = IF audit = NoAudit THEN audit ELSE [audit EXCEPT !.moved = @ \cup WorkedOn']
           \/ Audit
  BY DEF Next, Work

\* While handlers work, what the audit knows of the others stays true.
LEMMA AuditWorkStep ==
  ASSUME TypeOK, HandlersInv, AuditInv, Work,
         audit' = IF audit = NoAudit THEN audit ELSE [audit EXCEPT !.moved = @ \cup WorkedOn']
  PROVE  AuditInv' /\ audit' \in Audits \cup {NoAudit}
<1>1. CASE audit = NoAudit
  BY <1>1 DEF AuditInv
<1>2. CASE audit # NoAudit
  <2>1. audit \in Audits
    BY <1>2 DEF TypeOK
  <2>2. WorkedOn' \subseteq Attachments
    <3>1. handler' \in [Handlers -> ActiveHandlers \cup {Idle}] /\ requests' \in 0..MaxRequests
      BY WorkType
    <3>2. HandlersInv'
      BY HandlersStep
    <3> QED
      BY <3>1, <3>2, MaxRequestsAssumption DEF HandlersInv, WorkedOn, Attachments, Idle, Running
  <2>3. /\ audit' = [audit EXCEPT !.moved = @ \cup WorkedOn']
        /\ audit' \in Audits
        /\ audit'.moved = audit.moved \cup WorkedOn'
        /\ audit'.stage = audit.stage /\ audit'.listed = audit.listed
        /\ audit'.pending = audit.pending /\ audit'.current = audit.current
        /\ audit'.missing = audit.missing /\ audit'.orphaned = audit.orphaned
    BY <1>2, <2>1, <2>2 DEF Audits
  <2>4. WorkedOn \subseteq audit.moved
    BY <1>2 DEF AuditInv
  <2>5. \A a \in Attachments \ audit'.moved : (a \in rows' <=> a \in rows) /\ file'[a] = file[a]
    BY <2>3, <2>4, Frame
  <2> QED
    BY <1>2, <2>3, <2>5 DEF AuditInv
<1> QED
  BY <1>1, <1>2

\* The steps of the audit keep its picture true of what no handler touched.
LEMMA AuditStep ==
  ASSUME TypeOK, AuditInv, Audit
  PROVE  AuditInv' /\ audit' \in Audits \cup {NoAudit}
<1>0. /\ rows' = rows /\ file' = file /\ WorkedOn' = WorkedOn
      /\ rows \subseteq Attachments
  BY DEF Audit, WorkedOn, TypeOK
<1>1. CASE StartAudit
  <2>1. WorkedOn \subseteq Attachments
    BY DEF TypeOK, WorkedOn, ActiveHandlers, Idle, Running
  <2>2. audit' = [stage |-> "rows", listed |-> rows, pending |-> rows, current |-> {},
                  missing |-> {}, orphaned |-> {}, moved |-> WorkedOn]
    BY <1>1 DEF StartAudit
  <2>3. audit' \in Audits
    BY <1>0, <2>1, <2>2 DEF Audits
  <2> QED
    BY <1>0, <2>2, <2>3 DEF AuditInv
<1>2. ASSUME audit \in Audits, audit # NoAudit, AuditRow \/ AuditOpen \/ Walk
      PROVE  AuditInv' /\ audit' \in Audits
  <2>1. CASE AuditRow
    <3>1. PICK a \in audit.pending :
            audit' = IF a \in rows
              THEN [audit EXCEPT !.stage = "open", !.pending = @ \ {a}, !.current = {a}]
              ELSE [audit EXCEPT !.pending = @ \ {a}, !.missing = @ \cup {a}]
      BY <2>1 DEF AuditRow
    <3>2. audit.stage = "rows" /\ audit.current = {} /\ a \in audit.listed /\ a \in Attachments
      BY <1>2, <2>1, <3>1 DEF AuditRow, AuditInv, Audits
    <3>3. CASE a \in rows
      <4>1. /\ audit' \in Audits
            /\ audit'.stage = "open" /\ audit'.listed = audit.listed
            /\ audit'.pending = audit.pending \ {a} /\ audit'.current = {a}
            /\ audit'.missing = audit.missing /\ audit'.moved = audit.moved
        BY <1>2, <3>1, <3>2, <3>3 DEF Audits
      <4>2. audit'.pending \cup audit'.current = audit.pending \cup audit.current
        BY <3>1, <3>2, <4>1
      <4> HIDE <3>1
      <4> QED
        BY <1>0, <1>2, <4>1, <4>2 DEF AuditInv
    <3>4. CASE a \notin rows
      BY <1>0, <1>2, <3>1, <3>2, <3>4 DEF AuditInv, Audits
    <3> QED
      BY <3>3, <3>4
  <2>2. CASE AuditOpen
    BY <1>0, <1>2, <2>2 DEF AuditOpen, AuditInv, Audits
  <2>3. CASE Walk
    <3>1. audit.current = {}
      BY <1>2, <2>3 DEF Walk, AuditInv
    <3> QED
      BY <1>0, <1>2, <2>3, <3>1 DEF Walk, AuditInv, Audits
  <2> QED
    BY <1>2, <2>1, <2>2, <2>3
<1>3. AuditRow \/ AuditOpen \/ Walk => audit \in Audits /\ audit # NoAudit
  <2>1. AuditRow \/ AuditOpen \/ Walk => audit.stage \in {"rows", "open"}
    BY DEF AuditRow, AuditOpen, Walk
  <2>2. NoAudit.stage = "none"
    BY DEF NoAudit
  <2> QED
    BY <2>1, <2>2 DEF TypeOK
<1> QED
  BY <1>1, <1>2, <1>3 DEF Audit

-----------------------------------------------------------------------------
(* The theorems.                                                           *)

\* Every step, and every stuttering step, preserves the invariant.
LEMMA StepInv == IInv /\ [Next]_vars => IInv'
<1> SUFFICES ASSUME IInv, [Next]_vars PROVE IInv'
  OBVIOUS
<1> USE DEF IInv
<1>1. CASE Work /\ audit' = IF audit = NoAudit THEN audit ELSE [audit EXCEPT !.moved = @ \cup WorkedOn']
  <2>1. AuditInv' /\ audit' \in Audits \cup {NoAudit}
    BY <1>1, AuditWorkStep
  <2>2. TypeOK'
    BY <1>1, <2>1, WorkType DEF TypeOK
  <2> QED
    BY <1>1, <2>1, <2>2, HandlersStep, ReadableStep, LimitStep, OrphansStep, ClosedStep
<1>2. CASE Audit
  <2>1. AuditInv' /\ audit' \in Audits \cup {NoAudit}
    BY <1>2, AuditStep
  <2>2. UNCHANGED <<statusVars, rows, file, handler, requests, unlogged, interrupted>>
    BY <1>2 DEF Audit
  <2>3. TypeOK'
    BY <2>1, <2>2 DEF TypeOK, statusVars
  <2>4. HandlersInv'
    BY <2>2 DEF HandlersInv, Placed, At
  <2>5. RowsReadable' /\ LimitKept' /\ LimitInv'
    BY <2>2 DEF RowsReadable, LimitKept, LimitInv
  <2>6. OrphansExplained' /\ ClosedSetKept' /\ ClosedInv'
    BY <2>2 DEF OrphansExplained, ClosedSetKept, ClosedInv, WorkedOn, statusVars
  <2> QED
    BY <2>1, <2>3, <2>4, <2>5, <2>6
<1>3. CASE UNCHANGED vars
  <2> USE <1>3 DEF vars
  <2>1. TypeOK' /\ HandlersInv'
    BY DEF TypeOK, HandlersInv, Placed, At
  <2>2. RowsReadable' /\ LimitKept' /\ LimitInv'
    BY DEF RowsReadable, LimitKept, LimitInv
  <2>3. OrphansExplained' /\ ClosedSetKept' /\ ClosedInv' /\ AuditInv'
    BY DEF OrphansExplained, ClosedSetKept, ClosedInv, AuditInv, WorkedOn
  <2> QED
    BY <2>1, <2>2, <2>3
<1> QED
  BY <1>1, <1>2, <1>3, NextIs

\* The inductive invariant holds throughout.
THEOREM Invariance == Spec => []IInv
<1> QED
  BY InitInv, StepInv, PTL DEF Spec

\* Every variable keeps its type.
THEOREM TypeCorrect == Spec => []TypeOK
<1>1. IInv => TypeOK
  BY DEF IInv
<1> QED
  BY <1>1, Invariance, PTL

\* Uploads that wait for their bodies together do not pass the limit, whatever
\* the limit is.
THEOREM LimitRespected == Spec => []LimitKept
<1>1. IInv => LimitKept
  BY DEF IInv
<1> QED
  BY <1>1, Invariance, PTL

\* A row without its file comes of an upload whose event could not be inserted,
\* and a file without its row of a request that runs, threw or was cut off.
THEOREM StorageExplained == Spec => [](RowsReadable /\ OrphansExplained)
<1>1. IInv => RowsReadable /\ OrphansExplained
  BY DEF IInv
<1> QED
  BY <1>1, Invariance, PTL

\* A file without its row comes of a request that runs, threw or was cut off.
THEOREM OrphansAccounted == Spec => []OrphansExplained
<1>1. IInv => OrphansExplained
  BY DEF IInv
<1> QED
  BY <1>1, Invariance, PTL

\* However many stale decisions and issuances overwrite the status of a closed
\* submission, its files stay those it was closed on, but for the attachment a
\* handler was working on then.
THEOREM ClosedSetRespected == Spec => []ClosedSetKept
<1>1. IInv => ClosedSetKept
  BY DEF IInv
<1> QED
  BY <1>1, Invariance, PTL

\* An audit is right about every attachment that no request touched meanwhile.
THEOREM AuditCorrect == Spec => []AuditTrue
<1>1. IInv => AuditTrue
  <2> SUFFICES ASSUME IInv, audit.stage = "done", NEW a \in Attachments \ audit.moved
               PROVE  /\ a \in audit.missing <=> a \in rows /\ file[a] # "whole"
                      /\ a \in audit.orphaned <=> a \notin rows /\ file[a] # "none"
    BY DEF AuditTrue
  <2> QED
    BY DEF IInv, AuditInv, NoAudit
<1> QED
  BY <1>1, Invariance, PTL

=============================================================================
