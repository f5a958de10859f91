------------------------------ MODULE IssuerPortal ------------------------------
(***************************************************************************)
(* The administrator's calls of the issuer portal (issuer-http.js): the    *)
(* sign-in that admits them (session-auth.js), the work they do, and the   *)
(* webhook that announces it (webhook-service.js).                         *)
(*                                                                         *)
(* The work of a review or a revocation is that of SubmissionReview and    *)
(* IssuerWorkflow; here its effect is made or it fails.  The effect is     *)
(* audited, announced and answered: the host is looked up, a delivery row  *)
(* is written, the endpoint is called, the row is settled.  Any statement  *)
(* on the way may throw, which answers an error though the effect stands,  *)
(* and the process may stop between any two of these.                      *)
(***************************************************************************)
EXTENDS Naturals, FiniteSets

CONSTANTS
  Calls,     \* requests of the administrator
  Announced, \* whether WEBHOOK_URL is configured
  Items,     \* submissions of one bulk request
  Lifetime,  \* of a session, in ticks: eight hours
  MaxTime,   \* bound: the latest time
  MaxCrashes \* bound: processes that stop

ASSUME PortalAssumption ==
  /\ Announced \in BOOLEAN /\ Items \in Nat \ {0} /\ Lifetime \in Nat
  /\ MaxTime \in Nat /\ MaxCrashes \in Nat

VARIABLES
  now,     \* the time
  cookie,  \* the session in the browser: when it expires, and whether there is one
  call,    \* what becomes of a request
  rows,    \* submissions a bulk request created
  audited, \* the calls with an audit event
  row,     \* the delivery row of a call
  heard,   \* the calls whose event reached the endpoint
  crashes, \* processes stopped
  threw    \* ghost: the calls that a statement ended once they had an effect

vars == <<now, cookie, call, rows, audited, row, heard, crashes, threw>>

Kinds == {"bulk", "decide", "approve", "revoke"}
UnderWay == {"work", "audit", "lookup", "post", "settle", "reply"}
Stages == UnderWay \cup {"none", "over", "lost"}
Answers == {"none", "ok", "unauthorized", "error"}
NoCall == [kind |-> "none", stage |-> "none", done |-> FALSE, answer |-> "none"]

PortalTypeOK ==
  /\ now \in 0..MaxTime
  /\ cookie \in [present : BOOLEAN, expires : 0..(MaxTime + Lifetime)]
  /\ call \in [Calls ->
       [kind : Kinds \cup {"none"}, stage : Stages, done : BOOLEAN, answer : Answers]]
  /\ rows \in [Calls -> 0..Items] /\ audited \subseteq Calls
  /\ row \in [Calls -> {"none", "PENDING", "DELIVERED", "FAILED"}]
  /\ heard \subseteq Calls /\ crashes \in 0..MaxCrashes /\ threw \subseteq Calls

Init ==
  /\ now = 0 /\ cookie = [present |-> FALSE, expires |-> 0]
  /\ call = [c \in Calls |-> NoCall]
  /\ rows = [c \in Calls |-> 0] /\ audited = {}
  /\ row = [c \in Calls |-> "none"] /\ heard = {} /\ crashes = 0 /\ threw = {}

At(c, stage) == call[c].stage = stage
Go(c, stage) == call' = [call EXCEPT ![c].stage = stage] /\ UNCHANGED threw
Answer(c, answer) ==
  call' = [call EXCEPT ![c].stage = "over", ![c].answer = answer] /\ UNCHANGED threw

\* A statement throws after the effect.
Throw(c) ==
  /\ call' = [call EXCEPT ![c].stage = "over", ![c].answer = "error"]
  /\ threw' = threw \cup {c}

session == <<now, cookie>>
deliveries == <<row, heard>>

-----------------------------------------------------------------------------
(* Sessions.                                                               *)

\* A sign-in with the right password, within the limit RateLimiter describes.
SignIn ==
  /\ cookie' = [present |-> TRUE, expires |-> now + Lifetime]
  /\ UNCHANGED <<now, call, rows, audited, deliveries, crashes, threw>>

SignOut ==
  /\ cookie' = [cookie EXCEPT !.present = FALSE]
  /\ UNCHANGED <<now, call, rows, audited, deliveries, crashes, threw>>

\* verifySessionToken.
SignedIn == cookie.present /\ cookie.expires >= now

Tick ==
  /\ now < MaxTime /\ now' = now + 1
  /\ UNCHANGED <<cookie, call, rows, audited, deliveries, crashes, threw>>

\* The session is looked at once, when the request arrives.
Begin(c) ==
  /\ At(c, "none")
  /\ \E kind \in Kinds :
       call' = [call EXCEPT ![c] =
         IF SignedIn THEN [NoCall EXCEPT !.kind = kind, !.stage = "work"]
         ELSE [NoCall EXCEPT !.kind = kind, !.stage = "over", !.answer = "unauthorized"]]
  /\ UNCHANGED <<session, rows, audited, deliveries, crashes, threw>>

-----------------------------------------------------------------------------
(* Work.                                                                   *)

\* The effect is made; what follows it may still throw.
Effect(c) ==
  /\ call' = [call EXCEPT ![c].done = TRUE, ![c].stage = "audit"]
  /\ UNCHANGED threw

\* The items are checked and inserted one after the other; the first that is not
\* valid, or whose row or event cannot be inserted, ends the request and leaves
\* the rows before it.
Bulk(c) ==
  /\ At(c, "work") /\ call[c].kind = "bulk"
  /\ LET inserted == [rows EXCEPT ![c] = @ + 1] IN
     \/ /\ rows[c] < Items
        /\ \/ rows' = inserted /\ UNCHANGED <<call, threw>>
           \/ Answer(c, "error") /\ UNCHANGED rows
           \/ Throw(c) /\ rows' \in {rows, inserted}
     \/ rows[c] = Items /\ Effect(c) /\ UNCHANGED rows
  /\ UNCHANGED <<session, audited, deliveries, crashes>>

\* Mutant: a failure is announced as well.
WorkAnnounced(c) ==
  /\ At(c, "work") /\ call[c].kind # "bulk"
  /\ Effect(c) \/ Go(c, IF Announced THEN "lookup" ELSE "over")
  /\ UNCHANGED <<session, rows, audited, deliveries, crashes>>

\* The status of the submission, or the ledger, is written, or the work fails
\* before that.
Work(c) ==
  /\ At(c, "work") /\ call[c].kind # "bulk"
  /\ Effect(c) \/ Answer(c, "error")
  /\ UNCHANGED <<session, rows, audited, deliveries, crashes>>

\* The event, the operation, the profile and the artifacts that follow the
\* effect, and the audit last: any of them may throw.
Audit(c) ==
  /\ At(c, "audit")
  /\ \/ audited' = audited \cup {c} /\ Go(c, IF Announced THEN "lookup" ELSE "reply")
     \/ Throw(c) /\ UNCHANGED audited
  /\ UNCHANGED <<session, rows, deliveries, crashes>>

-----------------------------------------------------------------------------
(* The announcement (deliverWebhook).                                      *)

\* The lookup throws, also on a private address, before there is a row, and so
\* may the insertion of the row: the call is answered with an error.
Lookup(c) ==
  /\ At(c, "lookup")
  /\ \/ row' = [row EXCEPT ![c] = "PENDING"] /\ Go(c, "post")
     \/ (Answer(c, "error") \/ Throw(c)) /\ UNCHANGED row
  /\ UNCHANGED <<session, rows, audited, heard, crashes>>

\* The endpoint may receive the event after the portal gave it up.
Receive(c) ==
  /\ row[c] # "none"
  /\ heard' = heard \cup {c}
  /\ UNCHANGED <<session, call, rows, audited, row, crashes, threw>>

\* The endpoint accepted the event and the row says so; its error, the timeout,
\* or the statements that write and read the row, lead to the catch block.
Deliver(c) ==
  /\ At(c, "post")
  /\ LET delivered == [row EXCEPT ![c] = "DELIVERED"] IN
     \/ c \in heard /\ row' = delivered /\ (Go(c, "reply") \/ Go(c, "settle"))
     \/ Go(c, "settle") /\ UNCHANGED row
  /\ UNCHANGED <<session, rows, audited, heard, crashes>>

\* Mutant: a delivery that failed makes the call fail.
SettleThrows(c) ==
  /\ At(c, "settle")
  /\ \/ row' = [row EXCEPT ![c] = "FAILED"] /\ Answer(c, "error")
     \/ row' \in {row, [row EXCEPT ![c] = "FAILED"]} /\ Throw(c)
  /\ UNCHANGED <<session, rows, audited, heard, crashes>>

\* The catch block settles the row, once; a delivery that failed does not make
\* the call fail, the statements that write and read the row may.
Settle(c) ==
  /\ At(c, "settle")
  /\ \/ row' = [row EXCEPT ![c] = "FAILED"] /\ Go(c, "reply")
     \/ row' \in {row, [row EXCEPT ![c] = "FAILED"]} /\ Throw(c)
  /\ UNCHANGED <<session, rows, audited, heard, crashes>>

\* A decision reads its submission once more for the answer.
Reply(c) ==
  /\ At(c, "reply")
  /\ Answer(c, "ok") \/ (call[c].kind = "decide" /\ Throw(c))
  /\ UNCHANGED <<session, rows, audited, deliveries, crashes>>

Crash ==
  /\ crashes < MaxCrashes
  /\ crashes' = crashes + 1
  /\ call' = [c \in Calls |->
       IF call[c].stage \in UnderWay THEN [call[c] EXCEPT !.stage = "lost"] ELSE call[c]]
  /\ UNCHANGED <<session, rows, audited, deliveries, threw>>

-----------------------------------------------------------------------------
CallStep(c) ==
  Bulk(c) \/ Work(c) \/ Audit(c) \/ Lookup(c) \/ Deliver(c) \/ Settle(c) \/ Reply(c)

Next ==
  \/ SignIn \/ SignOut \/ Tick \/ Crash
  \/ \E c \in Calls : Begin(c) \/ CallStep(c) \/ Receive(c)

Spec == Init /\ [][Next]_vars

-----------------------------------------------------------------------------
(* Properties                                                              *)

\* Whatever the endpoint hears of or a row tells of was done and is in the audit
\* log; a row says DELIVERED only of an event that was received, and stays PENDING
\* only while it is delivered, when the process stopped meanwhile, or when the
\* statement that should settle it threw, which the caller was told of.
AnnouncedIsDone ==
  \A c \in Calls :
    /\ c \in heard \/ row[c] # "none" => call[c].done /\ c \in audited
    /\ c \in heard => row[c] # "none"
    /\ row[c] = "DELIVERED" => c \in heard
    /\ row[c] = "PENDING" =>
         \/ call[c].stage \in {"post", "settle", "lost"}
         \/ c \in threw /\ call[c].answer = "error"

\* An administrator told of success has it, audited, and with its delivery settled
\* when there is a webhook.  One told of an error has no effect, but for three
\* cases: a statement threw after the effect; the host of the webhook could not be
\* looked up; an item of a bulk request was not valid and the rows before it stand
\* without an audit event.  An endpoint that fails is none of them.
AnswersExplained ==
  \A c \in Calls : At(c, "over") =>
    /\ call[c].answer = "ok" =>
         call[c].done /\ c \in audited /\ (Announced => row[c] \in {"DELIVERED", "FAILED"})
    /\ call[c].answer = "error" /\ (call[c].done \/ rows[c] > 0) =>
         \/ c \in threw
         \/ Announced /\ call[c].done /\ row[c] = "none"
         \/ call[c].kind = "bulk" /\ rows[c] < Items /\ c \notin audited
    /\ call[c].answer = "unauthorized" => ~call[c].done /\ rows[c] = 0

=============================================================================
