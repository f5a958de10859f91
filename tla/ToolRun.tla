-------------------------------- MODULE ToolRun --------------------------------
(***************************************************************************)
(* What an agent run promises to its callers (runCkbAgent as the service   *)
(* layer uses it): between its start and its end it adds records of tool   *)
(* calls to its trace; it ends with an answer, with an operation that      *)
(* waits for approval, or with an error; and what has ended stays as it is *)
(* until a new run is started.                                             *)
(***************************************************************************)
EXTENDS Naturals

CONSTANTS
  Sources, \* the plugins a record may name, "unknown" included
  MaxCalls \* the most calls a run may execute

VARIABLES
  phase,   \* "idle", "running", "answered", "waiting" or "failed"
  ok,      \* for every source, its calls that succeeded
  failed,  \* calls that did not
  executed \* calls that were let through to a tool

vars == <<phase, ok, failed, executed>>

Ended == {"answered", "waiting", "failed"}

Init ==
  /\ phase = "idle"
  /\ ok = [s \in Sources |-> 0]
  /\ failed = 0
  /\ executed = 0

Start ==
  /\ phase # "running"
  /\ phase' = "running"
  /\ ok' = [s \in Sources |-> 0]
  /\ failed' = 0
  /\ executed' = 0

Succeed(s) ==
  /\ phase = "running" /\ executed < MaxCalls
  /\ ok' = [ok EXCEPT ![s] = @ + 1]
  /\ executed' = executed + 1
  /\ UNCHANGED <<phase, failed>>

\* A call that failed, or one that was refused and never executed.
FailCall ==
  /\ phase = "running"
  /\ failed' = failed + 1
  /\ \/ executed < MaxCalls /\ executed' = executed + 1
     \/ UNCHANGED executed
  /\ UNCHANGED <<phase, ok>>

\* The operation that waits is recorded, and not among the executed calls.
End ==
  /\ phase = "running"
  /\ phase' \in Ended
  /\ UNCHANGED <<ok, failed, executed>>

Next == Start \/ (\E s \in Sources : Succeed(s)) \/ FailCall \/ End

Spec == Init /\ [][Next]_vars

=============================================================================
