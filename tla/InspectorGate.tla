------------------------------ MODULE InspectorGate ------------------------------
(***************************************************************************)
(* How the public inspector admits and serves requests (inspector-http.js).*)
(*                                                                         *)
(* A route counts the request with the limiter, then looks at its switch,  *)
(* reads a body if it has one, and answers at once or after awaiting an AI *)
(* provider, a node or a chain.  /api/inspect keeps the document it was    *)
(* given in a temporary file meanwhile.  Health, readiness and static files*)
(* are answered without the limiter and leave nothing behind.  What a      *)
(* handler does is the matter of the other modules.                        *)
(***************************************************************************)
EXTENDS Naturals, FiniteSets

CONSTANTS
  Addresses,   \* clientAddress of requests
  Served,      \* the routes requests are made to
  Limit, Window, MaxBuckets, MaxTime, MaxRequests, \* of the limiter
  MaxOpen,     \* bound: requests under way
  MaxRestarts  \* bound: restarts

VARIABLES
  now, buckets, bucket, requests, admissions, forgotten, \* of the limiter
  open,      \* the requests under way
  documents, \* the requests whose temporary file exists
  left,      \* ghost: the files a restart left behind
  restarts   \* restarts so far

-----------------------------------------------------------------------------
(* The routes: for each its limiter key, the switch of the deployment it   *)
(* asks for, whether it reads a body, and how it answers.                  *)

Route(name, key, switch, body, work) ==
  [name |-> name, key |-> key, switch |-> switch, body |-> body, work |-> work]
Read(name, switch) == Route(name, name, switch, FALSE, "now")
Post(name, switch, work) == Route(name, name, switch, TRUE, work)
AiPost(name) == Route(name, "ai", "ai", TRUE, "later")

CatalogRoutes ==
  {Read("learning", "none"), Read("stats", "none"), Read("directory", "directory"),
   Read("config", "none"), Read("certificate-html", "none"), Read("certificate", "none"),
   Read("qr", "qr"), Read("passport", "none")}

SubmissionRoutes ==
  {Post("submission", "db", "now"), Post("submission-resubmit", "db", "now"),
   Post("submission-cancel", "db", "now"), Post("submission-attachment", "db", "now"),
   Post("submission-attachment-delete", "db", "now"),
   Read("submission-attachments", "db"), Read("submission-status", "db")}

DocumentRoutes == {Post("document-inspect", "none", "now"), Post("evidence-check", "none", "later")}

AnalysisRoutes == {AiPost("ai-document"), AiPost("ai-explain"), AiPost("ai-evidence"), AiPost("ai-tutor")}

AgentRoutes == {AiPost("ai-application"), AiPost("ai-agent")}

CommerceRoutes ==
  {Post("agent-commerce-agreement", "none", "now"), Post("agent-commerce-fiber-quote", "ai", "later"),
   Post("agent-commerce-run", "ai", "later"), Read("agent-commerce-job", "jobs"),
   Post("agent-commerce-checkpoint-verify", "none", "now"),
   Post("agent-commerce-verify", "none", "now")}

TransactionRoutes ==
  {Post("agent-commerce-preflight", "none", "later"), Post("agent-commerce-build", "none", "later"),
   Post("agent-commerce-fiber-status", "none", "later"), Read("agent-commerce-doctor", "none")}

ProofRoutes ==
  {Post("inspect", "none", "document"), Post("decode-cell", "none", "now"),
   Post("verify-proof", "none", "now")}

AiRoutes == AnalysisRoutes \cup AgentRoutes
Routes ==
  CatalogRoutes \cup SubmissionRoutes \cup DocumentRoutes \cup AiRoutes
    \cup CommerceRoutes \cup TransactionRoutes \cup ProofRoutes

ASSUME ServedAssumption == Served \subseteq Routes
ASSUME LimitAssumption == Limit \in Nat \ {0} /\ MaxBuckets \in Nat \ {0} /\ Window \in Nat
ASSUME BoundsAssumption == MaxTime \in Nat /\ MaxRequests \in Nat
ASSUME GateBoundsAssumption == MaxOpen \in Nat /\ MaxRestarts \in Nat

\* Mutant: every path has a count of its own.
KeyByPath(r) == r.name

KeyOf(r) == r.key

Clients == Addresses \X {KeyOf(r) : r \in Served}
Limiter == INSTANCE RateLimiter

gate == <<open, documents, left, restarts>>
vars == <<now, buckets, bucket, requests, admissions, forgotten, gate>>

Calls == [number : 0..MaxRequests, route : Served, stage : {"reading", "working"}]

GateTypeOK ==
  /\ Limiter!TypeOK
  /\ open \subseteq Calls /\ Cardinality(open) <= MaxOpen
  /\ documents \subseteq 0..MaxRequests /\ left \subseteq documents
  /\ restarts \in 0..MaxRestarts

Init ==
  /\ Limiter!Init
  /\ open = {} /\ documents = {} /\ left = {} /\ restarts = 0

-----------------------------------------------------------------------------
(* Requests.                                                               *)

\* A request that gets past the limiter and the switch of its route is answered
\* at once, or its body is awaited; no route without a body answers later.
Arrive(a, r) ==
  /\ Limiter!Request(<<a, KeyOf(r)>>)
  /\ \/ /\ admissions' # admissions /\ r.body
        /\ Cardinality(open) < MaxOpen
        /\ open' = open \cup {[number |-> requests, route |-> r, stage |-> "reading"]}
     \/ /\ admissions' = admissions \/ ~r.body \/ r.switch # "none"
        /\ UNCHANGED open
  /\ UNCHANGED <<documents, left, restarts>>

\* readJsonBody settles once, when the body ends, grows too large, is no JSON or
\* breaks off; a body its handler finds invalid is answered at once too.
BodyEnds(o) ==
  /\ o.stage = "reading"
  /\ \/ open' = open \ {o} /\ UNCHANGED documents
     \/ /\ o.route.work # "now"
        /\ open' = (open \ {o}) \cup {[o EXCEPT !.stage = "working"]}
        /\ \/ o.route.work = "document" /\ documents' = documents \cup {o.number}
           \/ UNCHANGED documents
  /\ UNCHANGED left

\* Mutant: the file is removed only when the inspection succeeds.
WorkKeepsFile(o) ==
  /\ o.stage = "working"
  /\ open' = open \ {o}
  /\ documents' = documents \ {o.number} \/ UNCHANGED documents
  /\ UNCHANGED left

\* What the route awaits ends, well or with an error; the file goes either way.
WorkEnds(o) ==
  /\ o.stage = "working"
  /\ open' = open \ {o}
  /\ documents' = documents \ {o.number}
  /\ UNCHANGED left

Proceed(o) ==
  /\ o \in open
  /\ BodyEnds(o) \/ WorkEnds(o)
  /\ UNCHANGED <<now, buckets, bucket, requests, admissions, forgotten, restarts>>

Restart ==
  /\ restarts < MaxRestarts
  /\ restarts' = restarts + 1
  /\ Limiter!Restart
  /\ open' = {} /\ left' = documents
  /\ UNCHANGED documents

Tick == Limiter!Tick /\ UNCHANGED gate

Next ==
  \/ \E a \in Addresses, r \in Served : Arrive(a, r)
  \/ \E o \in open : Proceed(o)
  \/ Tick \/ Restart

Spec == Init /\ [][Next]_vars

-----------------------------------------------------------------------------
(* Properties                                                              *)

\* Any span of one window, wherever it lies, lets an address make less than twice the
\* limit of requests to one route, and to all the AI routes together, unless its
\* bucket was dropped or the process restarted in that span.
AdmissionsBounded ==
  \A a \in Addresses, t \in 0..MaxTime, kind \in {AiRoutes \cap Served} \cup {{r} : r \in Served} :
    LET ids == {<<a, KeyOf(r)>> : r \in kind}
        span == t..(t + Window)
    IN (\A id \in ids : forgotten[id] \cap span = {}) =>
         Cardinality(UNION {Limiter!AdmittedIn(id, span) : id \in ids}) < 2 * Limit

\* While the process runs, a bucket in its window is dropped only when more clients
\* were let in within one window than there may be buckets.
ForgottenOnlyWhenFull == Limiter!ForgottenOnlyWhenFull

\* The temporary file of an inspection is gone once the inspection is over, however
\* it ended; only a restart in the middle leaves one behind.
DocumentsRemoved ==
  \A n \in documents : n \in left \/ \E o \in open : o.number = n /\ o.stage = "working"

=============================================================================
