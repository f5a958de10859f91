------------------------------- MODULE RateLimiter -------------------------------
(***************************************************************************)
(* The request limiter of the inspector (createRateLimiter of              *)
(* inspector-http.js) and the sign-in limiter of the issuer portal         *)
(* (checkLoginRate of issuer-http.js): one Map of buckets, each a start    *)
(* time and a count, with a bound on the number of buckets.                *)
(*                                                                         *)
(* A call runs without an await, so calls are atomic.  What is hard is the *)
(* order of the Map: a bucket that is set anew keeps its old place in it,  *)
(* and the first buckets are dropped when there are too many.  The Map is  *)
(* gone when the process restarts.                                         *)
(***************************************************************************)
EXTENDS Naturals, FiniteSets

CONSTANTS
  Clients,     \* addresses, with the route for the inspector
  Limit,       \* requests in a window: 45, or 8 sign-ins
  Window,      \* one minute, or ten
  MaxBuckets,  \* 10000, or 5000
  MaxTime,     \* bound: the latest time
  MaxRequests  \* bound: requests in a behaviour

VARIABLES
  now,        \* Date.now(), in ticks
  buckets,    \* the clients that have a bucket
  bucket,     \* what their buckets hold, and their place in the Map
  requests,   \* requests made; numbers them and the places in the Map
  admissions, \* ghost: the requests let in
  forgotten   \* ghost: for every client, when a bucket in its window was dropped

vars == <<now, buckets, bucket, requests, admissions, forgotten>>

Times == 0..MaxTime
Numbers == 0..MaxRequests
Buckets == [start : Times, count : Nat, place : Numbers]
Admissions == [client : Clients, time : Times, number : Numbers]

TypeOK ==
  /\ now \in Times
  /\ buckets \subseteq Clients
  /\ bucket \in [Clients -> Buckets]
  /\ requests \in Numbers
  /\ admissions \subseteq Admissions
  /\ forgotten \in [Clients -> SUBSET Times]

Init ==
  /\ now = 0
  /\ buckets = {}
  /\ bucket = [c \in Clients |-> [start |-> 0, count |-> 0, place |-> 0]]
  /\ requests = 0
  /\ admissions = {}
  /\ forgotten = [c \in Clients |-> {}]

-----------------------------------------------------------------------------
Expired(b) == now - b.start > Window

\* Mutant: the first buckets go, expired or not.
KeptFirst(present, held) ==
  IF Cardinality(present) <= MaxBuckets THEN present
  ELSE {c \in present :
         Cardinality({d \in present : held[d].place > held[c].place}) < MaxBuckets}

\* The buckets that stay when there are too many: first the expired ones go,
\* then those at the front of the Map.
Kept(present, held) ==
  IF Cardinality(present) <= MaxBuckets THEN present
  ELSE LET live == {c \in present : ~Expired(held[c])} IN
       {c \in live : Cardinality({d \in live : held[d].place > held[c].place}) < MaxBuckets}

Admit(c) ==
  admissions' = admissions \cup {[client |-> c, time |-> now, number |-> requests]}

\* A first request, or the first after the window: the bucket starts anew.
Start(c) ==
  /\ c \notin buckets \/ Expired(bucket[c])
  /\ LET held == [bucket EXCEPT ![c] =
                   [start |-> now, count |-> 1,
                    place |-> IF c \in buckets THEN bucket[c].place ELSE requests]]
         kept == Kept(buckets \cup {c}, held)
     IN /\ bucket' = held
        /\ buckets' = kept
        /\ forgotten' = [d \in Clients |->
             IF d \in buckets \ kept /\ ~Expired(held[d]) THEN forgotten[d] \cup {now} ELSE forgotten[d]]
  /\ Admit(c)

\* Another request in the window, refused beyond the limit.
Count(c) ==
  /\ c \in buckets /\ ~Expired(bucket[c])
  /\ bucket' = [bucket EXCEPT ![c].count = @ + 1]
  /\ IF bucket'[c].count > Limit THEN UNCHANGED admissions ELSE Admit(c)
  /\ UNCHANGED <<buckets, forgotten>>

Request(c) ==
  /\ requests < MaxRequests
  /\ requests' = requests + 1
  /\ Start(c) \/ Count(c)
  /\ UNCHANGED now

\* The process restarts: a new Map.
Restart ==
  /\ buckets' = {}
  /\ forgotten' = [c \in Clients |->
       IF c \in buckets /\ ~Expired(bucket[c]) THEN forgotten[c] \cup {now} ELSE forgotten[c]]
  /\ UNCHANGED <<now, bucket, requests, admissions>>

Tick ==
  /\ now < MaxTime
  /\ now' = now + 1
  /\ UNCHANGED <<buckets, bucket, requests, admissions, forgotten>>

Next == Tick \/ Restart \/ \E c \in Clients : Request(c)

Spec == Init /\ [][Next]_vars

-----------------------------------------------------------------------------
(* Properties                                                              *)

AdmittedIn(c, times) == {a \in admissions : a.client = c /\ a.time \in times}

\* A bucket in its window is dropped only when more clients than there may be
\* buckets were let in within one window.
ForgottenOnlyWhenFull ==
  [][requests' # requests /\ forgotten' # forgotten =>
       Cardinality({c \in Clients : AdmittedIn(c, {t \in Times : now <= t + Window})' # {}})
         > MaxBuckets]_vars

=============================================================================
