--------------------------- MODULE PublicSite_proofs ---------------------------
(***************************************************************************)
(* Proofs about the two sides of the public site.                          *)
(*                                                                         *)
(* InspectorGate and the limiter it instantiates, for any addresses and    *)
(* routes served, any limit, window and number of buckets, and however     *)
(* many requests are under way when the process restarts.                  *)
(*                                                                         *)
(* Console, for any of the page's controls in use, any services and any    *)
(* number of clicks.                                                       *)
(***************************************************************************)
EXTENDS InspectorGate, Console, FiniteSetTheorems, SequenceTheorems, TLAPS

Admitted(c, times) == Limiter!AdmittedIn(c, times)
Span(t) == t..(t + Window)

-----------------------------------------------------------------------------
(* InspectorGate: the inductive invariant.                                 *)

\* What a client's bucket says of the client, dropped or not: the request that
\* started it was let in, and one that was dropped had expired or was noted.
BucketInv(c) ==
  LET b == bucket[c] IN
  /\ b.start <= now
  /\ b.count = 0 => c \notin buckets /\ \A a \in admissions : a.client # c
  /\ c \in buckets =>
       b.place < requests /\ \E a \in admissions : a.client = c /\ a.time = b.start
  /\ c \notin buckets /\ b.count > 0 =>
       Limiter!Expired(b) \/ \E f \in forgotten[c] : b.start <= f

\* The requests of a bucket that were let in.
Allowed(b) == IF b.count < Limit THEN b.count ELSE Limit

\* How many requests of the span at t are let in: a bucket older than the span has
\* its first request before it; of one that starts in the span, the bucket before
\* it had its first request before the span.
Bound(b, t) ==
  IF b.start < t THEN Allowed(b) - 1
  ELSE IF b.start <= t + Window THEN Limit - 1 + Allowed(b)
  ELSE 2 * Limit - 1

CountInv(c) ==
  \A t \in 0..MaxTime :
    bucket[c].count > 0 /\ forgotten[c] \cap Span(t) = {} =>
      Cardinality(Admitted(c, Span(t))) <= Bound(bucket[c], t)

LimiterInv ==
  /\ Limiter!TypeOK
  /\ IsFiniteSet(buckets) /\ IsFiniteSet(admissions)
  /\ \A a \in admissions : a.time <= now
  /\ \A c \in Clients : \A f \in forgotten[c] : f <= now
  /\ \A c \in Clients : BucketInv(c) /\ CountInv(c)

\* The number of a request under way is its own as far as files go.
FilesInv ==
  /\ IsFiniteSet(open)
  /\ \A o \in open : o.number < requests /\ o.number \notin left
  /\ \A n \in documents : n < requests
  /\ DocumentsRemoved

GateInv == GateTypeOK /\ LimiterInv /\ FilesInv

Buckets == [start : 0..MaxTime, count : Nat, place : 0..MaxRequests]
NewAdmission(c) == [client |-> c, time |-> now, number |-> requests]

-----------------------------------------------------------------------------
(* The limiter.                                                            *)

\* Its variables, one by one.
LEMMA LimiterTypes ==
  ASSUME LimiterInv
  PROVE  /\ now \in Nat /\ now <= MaxTime /\ requests \in Nat /\ requests <= MaxRequests
         /\ buckets \subseteq Clients /\ bucket \in [Clients -> Buckets]
         /\ forgotten \in [Clients -> SUBSET (0..MaxTime)]
         /\ \A c \in Clients : /\ bucket[c].start \in Nat /\ bucket[c].start <= MaxTime
                               /\ bucket[c].count \in Nat /\ bucket[c].place \in Nat
         /\ \A a \in admissions : a.client \in Clients /\ a.time \in Nat
  <1>1. Limiter!TypeOK
    BY DEF LimiterInv
  <1>2. now \in 0..MaxTime /\ requests \in 0..MaxRequests
    BY <1>1 DEF Limiter!TypeOK, Limiter!Times, Limiter!Numbers
  <1>3. bucket \in [Clients -> Buckets] /\ forgotten \in [Clients -> SUBSET (0..MaxTime)]
    BY <1>1 DEF Limiter!TypeOK, Limiter!Times, Limiter!Numbers, Limiter!Buckets, Buckets
  <1>4. buckets \subseteq Clients
    BY <1>1 DEF Limiter!TypeOK
  <1>5. \A a \in admissions : a.client \in Clients /\ a.time \in 0..MaxTime
    BY <1>1 DEF Limiter!TypeOK, Limiter!Times, Limiter!Admissions
  <1>6. \A c \in Clients : /\ bucket[c].start \in 0..MaxTime
                           /\ bucket[c].count \in Nat /\ bucket[c].place \in 0..MaxRequests
    BY <1>3 DEF Buckets
  <1>7. QED
    BY <1>2, <1>3, <1>4, <1>5, <1>6, BoundsAssumption

\* Those let in are finitely many.
LEMMA AdmittedFinite ==
  ASSUME NEW c, NEW times, IsFiniteSet(admissions)
  PROVE  IsFiniteSet(Admitted(c, times)) /\ Cardinality(Admitted(c, times)) \in Nat
  <1>1. Admitted(c, times) \subseteq admissions
    BY DEF Admitted, Limiter!AdmittedIn
  <1>2. IsFiniteSet(Admitted(c, times))
    BY <1>1, FS_Subset
  <1>3. QED
    BY <1>2, FS_CardinalityType

\* One more admission adds one to the spans it lies in and nothing to others.
LEMMA AdmitOne ==
  ASSUME LimiterInv, NEW c \in Clients, NEW d \in Clients, NEW times,
         admissions' = admissions \cup {NewAdmission(c)}
  PROVE  /\ d # c \/ now \notin times => Admitted(d, times)' = Admitted(d, times)
         /\ Cardinality(Admitted(c, times)') <= Cardinality(Admitted(c, times)) + 1
  <1>1. PICK a : a = NewAdmission(c)
    OBVIOUS
  <1>2. admissions' = admissions \cup {a} /\ a.client = c /\ a.time = now
    BY <1>1 DEF NewAdmission
  <1>3. d # c \/ now \notin times => Admitted(d, times)' = Admitted(d, times)
    BY <1>2 DEF Admitted, Limiter!AdmittedIn
  <1>4. Cardinality(Admitted(c, times)') <= Cardinality(Admitted(c, times)) + 1
    <2>1. PICK A : A = Admitted(c, times)
      OBVIOUS
    <2>2. IsFiniteSet(A) /\ Cardinality(A) \in Nat
      BY <2>1, AdmittedFinite DEF LimiterInv
    <2>3. Admitted(c, times)' \in {A, A \cup {a}}
      BY <1>2, <2>1 DEF Admitted, Limiter!AdmittedIn
    <2>4. Cardinality(A \cup {a}) <= Cardinality(A) + 1
      BY <2>2, FS_AddElement
    <2>5. Cardinality(A) <= Cardinality(A) + 1
      BY <2>2
    <2>6. QED
      BY <2>1, <2>3, <2>4, <2>5
  <1>5. QED
    BY <1>3, <1>4

\* The limiter counts as the gate does.
LEMMA SameCardinality ==
  ASSUME NEW S
  PROVE  Limiter!Cardinality(S) = Cardinality(S)
  BY DEF Cardinality, Limiter!Cardinality

\* What stays of the Map: no bucket in its window goes unless there are too many of
\* them, and the one at its end stays.
LEMMA KeptFacts ==
  ASSUME NEW present, IsFiniteSet(present), NEW held,
         \A c \in present : held[c].place \in Nat,
         NEW kept, kept = Limiter!Kept(present, held)
  PROVE  /\ kept \subseteq present /\ IsFiniteSet(kept)
         /\ \A d \in present \ kept : ~Limiter!Expired(held[d]) =>
              Cardinality({e \in present : ~Limiter!Expired(held[e])}) > MaxBuckets
         /\ \A c \in present :
              ~Limiter!Expired(held[c]) /\ (\A d \in present : held[d].place <= held[c].place) =>
                c \in kept
  <1> DEFINE live == {e \in present : ~Limiter!Expired(held[e])}
             Behind(d) == {e \in live : held[e].place > held[d].place}
  <1>1. /\ Cardinality(present) <= MaxBuckets => kept = present
        /\ ~(Cardinality(present) <= MaxBuckets) =>
             kept = {d \in live : Cardinality(Behind(d)) < MaxBuckets}
    <2>1. kept = IF Limiter!Cardinality(present) <= MaxBuckets THEN present
                 ELSE {d \in live : Limiter!Cardinality(Behind(d)) < MaxBuckets}
      BY Zenon DEF Limiter!Kept
    <2>2. Limiter!Cardinality(present) = Cardinality(present)
      BY SameCardinality
    <2>3. \A d : Limiter!Cardinality(Behind(d)) = Cardinality(Behind(d))
      BY SameCardinality
    <2> HIDE DEF Behind, live
    <2>4. QED
      BY <2>1, <2>2, <2>3
  <1>2. kept \subseteq present
    BY <1>1
  <1>3. IsFiniteSet(kept)
    BY <1>2, FS_Subset
  <1>4. IsFiniteSet(live)
    BY FS_Subset
  <1>5. ASSUME NEW d \in present \ kept, ~Limiter!Expired(held[d])
        PROVE  Cardinality(live) > MaxBuckets
    <2>1. d \in live /\ ~(Cardinality(Behind(d)) < MaxBuckets)
      BY <1>1, <1>5
    <2>2. IsFiniteSet(Behind(d)) /\ Behind(d) \subseteq live
      BY <1>4, FS_Subset
    <2>3. Cardinality(Behind(d)) \in Nat
      BY <2>2, FS_CardinalityType
    <2>4. d \notin Behind(d)
      OBVIOUS
    <2> HIDE DEF Behind, live
    <2>5. Cardinality(Behind(d) \cup {d}) = Cardinality(Behind(d)) + 1
      BY <2>2, <2>4, FS_AddElement
    <2>6. Behind(d) \cup {d} \subseteq live
      BY <2>1, <2>2
    <2>7. Cardinality(Behind(d) \cup {d}) <= Cardinality(live) /\ Cardinality(live) \in Nat
      BY <1>4, <2>6, FS_Subset, FS_CardinalityType
    <2>8. QED
      BY <2>1, <2>3, <2>5, <2>7, LimitAssumption
  <1>6. ASSUME NEW c \in present, ~Limiter!Expired(held[c]),
               \A d \in present : held[d].place <= held[c].place
        PROVE  c \in kept
    <2>1. Behind(c) = {}
      BY <1>6
    <2>2. Cardinality(Behind(c)) = 0
      BY <2>1, FS_EmptySet
    <2>3. c \in live
      BY <1>6
    <2> HIDE DEF Behind, live
    <2>4. QED
      BY <1>1, <2>2, <2>3, LimitAssumption
  <1>7. QED
    BY <1>2, <1>3, <1>5, <1>6

\* A client's first request, or its first after the window, is let in, and a client
\* whose bucket has gone is counted anew.
LEMMA StartStep ==
  ASSUME LimiterInv, NEW c \in Clients, requests < MaxRequests, requests' = requests + 1, now' = now,
         Limiter!Start(c)
  PROVE  LimiterInv'
  <1> DEFINE b == [start |-> now, count |-> 1,
                   place |-> IF c \in buckets THEN bucket[c].place ELSE requests]
             held == [bucket EXCEPT ![c] = b]
             present == buckets \cup {c}
             kept == Limiter!Kept(present, held)
  <1>1. /\ bucket' = held /\ buckets' = kept
        /\ forgotten' = [d \in Clients |->
             IF d \in buckets \ kept /\ ~Limiter!Expired(held[d]) THEN forgotten[d] \cup {now}
             ELSE forgotten[d]]
        /\ admissions' = admissions \cup {NewAdmission(c)}
        /\ c \notin buckets \/ Limiter!Expired(bucket[c])
    BY DEF Limiter!Start, Limiter!Admit, NewAdmission
  <1>2. /\ now \in Nat /\ now <= MaxTime /\ requests \in Nat
        /\ buckets \subseteq Clients /\ bucket \in [Clients -> Buckets]
        /\ forgotten \in [Clients -> SUBSET (0..MaxTime)]
        /\ \A d \in Clients : /\ bucket[d].start \in Nat /\ bucket[d].count \in Nat
                              /\ bucket[d].place \in Nat
        /\ \A a \in admissions : a.client \in Clients /\ a.time \in Nat
    BY LimiterTypes
  <1>3. b \in Buckets /\ b.start = now /\ b.count = 1 /\ b.place \in Nat /\ b.place <= requests
    BY <1>2, BoundsAssumption DEF Buckets, LimiterInv, BucketInv
  <1> HIDE DEF b
  <1>4. /\ held \in [Clients -> Buckets]
        /\ held[c] = b /\ \A d \in Clients \ {c} : held[d] = bucket[d]
    BY <1>2, <1>3
  <1> HIDE DEF held
  <1>5. /\ kept \subseteq present /\ IsFiniteSet(kept)
        /\ c \notin buckets => c \in kept
    <2>1. IsFiniteSet(present) /\ present \subseteq Clients
      BY <1>2, FS_AddElement DEF LimiterInv
    <2>2. \A d \in present : held[d].place \in Nat
      BY <1>2, <1>3, <1>4
    <2>3. kept \subseteq present /\ IsFiniteSet(kept)
      BY <2>1, <2>2, KeptFacts
    <2>4. ASSUME c \notin buckets
          PROVE  c \in kept
      <3>1. held[c].place = requests
        BY <1>4, <2>4 DEF b
      <3>2. \A d \in buckets : held[d].place < requests
        BY <1>2, <1>4, <2>4 DEF LimiterInv, BucketInv
      <3>3. \A d \in present : held[d].place <= held[c].place
        BY <1>2, <3>1, <3>2, <2>2
      <3>4. ~Limiter!Expired(held[c])
        BY <1>2, <1>3, <1>4, LimitAssumption DEF Limiter!Expired
      <3>5. QED
        BY <2>1, <2>2, <3>3, <3>4, KeptFacts
    <2>5. QED
      BY <2>3, <2>4
  <1> HIDE DEF kept
  <1>6. Limiter!TypeOK'
    <2>1. NewAdmission(c) \in Limiter!Admissions
      BY <1>2 DEF NewAdmission, Limiter!Admissions, Limiter!Times, Limiter!Numbers, LimiterInv, Limiter!TypeOK
    <2>2. buckets' \subseteq Clients
      BY <1>1, <1>2, <1>5
    <2>3. bucket' \in [Clients -> Limiter!Buckets]
      BY <1>1, <1>4 DEF Limiter!Buckets, Limiter!Times, Limiter!Numbers, Buckets
    <2>4. requests' \in Limiter!Numbers
      BY <1>2, BoundsAssumption DEF Limiter!Numbers
    <2>5. forgotten' \in [Clients -> SUBSET Limiter!Times]
      BY <1>1, <1>2, BoundsAssumption DEF Limiter!Times
    <2>6. QED
      BY <1>1, <2>1, <2>2, <2>3, <2>4, <2>5 DEF LimiterInv, Limiter!TypeOK
  <1>7. IsFiniteSet(buckets') /\ IsFiniteSet(admissions')
    BY <1>1, <1>5, FS_AddElement DEF LimiterInv
  <1>8. \A a \in admissions' : a.time <= now'
    BY <1>1, <1>2 DEF LimiterInv, NewAdmission
  <1>9. ASSUME NEW d \in Clients
        PROVE  BucketInv(d)'
    <2>1. CASE d = c
      <3>1. bucket'[d] = b
        BY <1>1, <1>4, <2>1
      <3>2. \E a \in admissions' : a.client = d /\ a.time = now
        <4>1. NewAdmission(c) \in admissions'
          BY <1>1
        <4>2. NewAdmission(c).client = d /\ NewAdmission(c).time = now
          BY <2>1 DEF NewAdmission
        <4>3. QED
          BY <4>1, <4>2
      <3>3. d \notin buckets' => \E f \in forgotten'[d] : b.start <= f
        <4> SUFFICES ASSUME d \notin kept
                     PROVE  \E f \in forgotten'[d] : b.start <= f
          BY <1>1
        <4>1. d \in buckets \ kept
          BY <1>5, <2>1
        <4>2. ~Limiter!Expired(held[d])
          BY <1>2, <1>3, <1>4, <2>1, LimitAssumption DEF Limiter!Expired
        <4>3. now \in forgotten'[d]
          BY <1>1, <4>1, <4>2
        <4>4. QED
          BY <1>2, <1>3, <4>3
      <3>4. QED
        BY <1>2, <1>3, <3>1, <3>2, <3>3 DEF BucketInv
    <2>2. CASE d # c
      <3>1. bucket'[d] = bucket[d] /\ held[d] = bucket[d]
        BY <1>1, <1>4, <2>2
      <3>2. BucketInv(d)
        BY DEF LimiterInv
      <3>3. bucket[d].count = 0 => d \notin buckets' /\ \A a \in admissions' : a.client # d
        BY <1>1, <1>5, <2>2, <3>2 DEF BucketInv, NewAdmission
      <3>4. d \in buckets' =>
              bucket[d].place < requests' /\ \E a \in admissions' : a.client = d /\ a.time = bucket[d].start
        BY <1>1, <1>2, <1>5, <2>2, <3>2 DEF BucketInv
      <3>5. d \notin buckets' /\ bucket[d].count > 0 =>
              Limiter!Expired(bucket[d]) \/ \E f \in forgotten'[d] : bucket[d].start <= f
        <4>1. CASE d \in buckets \ kept /\ ~Limiter!Expired(held[d])
          <5>1. now \in forgotten'[d] /\ bucket[d].start <= now
            BY <1>1, <3>2, <4>1 DEF BucketInv
          <5>2. QED
            BY <5>1
        <4>2. CASE ~(d \in buckets \ kept /\ ~Limiter!Expired(held[d]))
          <5>1. forgotten'[d] = forgotten[d]
            BY <1>1, <4>2
          <5>2. QED
            BY <1>1, <3>1, <3>2, <4>2, <5>1 DEF BucketInv
        <4>3. QED
          BY <4>1, <4>2
      <3>6. bucket[d].start <= now
        BY <3>2 DEF BucketInv
      <3>7. QED
        BY <3>1, <3>3, <3>4, <3>5, <3>6 DEF BucketInv, Limiter!Expired
    <2>3. QED
      BY <2>1, <2>2
  <1>10. ASSUME NEW d \in Clients
         PROVE  CountInv(d)'
    <2> SUFFICES ASSUME NEW t \in 0..MaxTime, bucket'[d].count > 0, forgotten'[d] \cap Span(t) = {}
                 PROVE  Cardinality(Admitted(d, Span(t))') <= Bound(bucket'[d], t)
      BY DEF CountInv, Bound, Allowed, Span
    <2>1. forgotten[d] \subseteq forgotten'[d]
      BY <1>1
    <2>2. forgotten[d] \cap Span(t) = {}
      BY <2>1
    <2>3. BucketInv(d) /\ CountInv(d)
      BY DEF LimiterInv
    <2>4. CASE d # c
      <3>1. bucket'[d] = bucket[d]
        BY <1>1, <1>4, <2>4
      <3>2. Admitted(d, Span(t))' = Admitted(d, Span(t))
        BY <1>1, <2>4, AdmitOne
      <3>3. QED
        BY <2>2, <2>3, <3>1, <3>2 DEF CountInv
    <2>5. CASE d = c
      <3>1. bucket'[d] = b
        BY <1>1, <1>4, <2>5
      <3>2. PICK n : n = Cardinality(Admitted(c, Span(t)))
        OBVIOUS
      <3>3. n \in Nat
        BY <3>2, AdmittedFinite DEF LimiterInv
      <3>4. PICK m : m = Cardinality(Admitted(c, Span(t))')
        OBVIOUS
      <3>5. m <= n + 1 /\ (now \notin Span(t) => m = n)
        BY <1>1, <3>2, <3>4, AdmitOne
      <3>6. m \in Nat
        <4>1. IsFiniteSet(admissions')
          BY <1>7
        <4>2. Admitted(c, Span(t))' \subseteq admissions'
          BY DEF Admitted, Limiter!AdmittedIn
        <4>3. QED
          BY <3>4, <4>1, <4>2, FS_Subset, FS_CardinalityType
      <3>7. bucket[c].count = 0 => n = 0
        <4> SUFFICES ASSUME bucket[c].count = 0
                     PROVE  Admitted(c, Span(t)) = {}
          BY <3>2, FS_EmptySet
        <4>1. QED
          BY <2>3, <2>5 DEF BucketInv, Admitted, Limiter!AdmittedIn
      <3>8. bucket[c].count > 0 => n <= Bound(bucket[c], t)
        BY <2>2, <2>3, <2>5, <3>2 DEF CountInv
      <3>9. bucket[c].count > 0 /\ now \in Span(t) => bucket[c].start < t
        <4> SUFFICES ASSUME bucket[c].count > 0, now \in Span(t)
                     PROVE  bucket[c].start < t
          OBVIOUS
        <4>1. t <= now /\ now <= t + Window /\ t \in Nat
          BY <1>2, BoundsAssumption DEF Span
        <4>2. CASE Limiter!Expired(bucket[c])
          BY <1>2, <2>3, <2>5, <4>1, <4>2, LimitAssumption DEF BucketInv, Limiter!Expired
        <4>3. CASE ~Limiter!Expired(bucket[c])
          <5>1. PICK f \in forgotten[c] : bucket[c].start <= f
            BY <1>1, <2>3, <2>5, <4>3 DEF BucketInv
          <5>2. f \in Nat /\ f \notin Span(t) /\ f <= now
            BY <1>2, <2>2, <2>5, <5>1 DEF LimiterInv
          <5>3. QED
            BY <1>2, <4>1, <5>1, <5>2, LimitAssumption DEF Span
        <4>4. QED
          BY <4>2, <4>3
      <3>11. Allowed(bucket[c]) <= Limit /\ Allowed(bucket[c]) \in Nat /\ Allowed(b) = 1
        BY <1>2, <1>3, LimitAssumption DEF Allowed
      <3>12. t \in Nat /\ Window \in Nat /\ Limit \in Nat /\ Limit > 0
        BY BoundsAssumption, LimitAssumption
      <3>13. CASE now \in Span(t)
        <4>1. Bound(b, t) = Limit
          BY <1>2, <1>3, <3>11, <3>12, <3>13 DEF Bound, Span
        <4>2. n <= Limit - 1
          BY <1>2, <3>3, <3>7, <3>8, <3>9, <3>11, <3>12, <3>13 DEF Bound
        <4>3. QED
          BY <2>5, <3>1, <3>3, <3>4, <3>5, <3>6, <3>12, <4>1, <4>2
      <3>14. CASE now < t
        <4>1. Admitted(c, Span(t))' = {}
          BY <1>2, <1>8, <3>12, <3>14 DEF Admitted, Limiter!AdmittedIn, Span
        <4>2. m = 0
          BY <3>4, <4>1, FS_EmptySet
        <4>3. Bound(b, t) = 0
          BY <1>3, <3>11, <3>14 DEF Bound
        <4>4. QED
          BY <2>5, <3>1, <3>4, <4>2, <4>3
      <3>15. CASE now > t + Window
        <4>1. Bound(b, t) = 2 * Limit - 1
          BY <1>2, <1>3, <3>12, <3>15 DEF Bound
        <4>2. m = n
          BY <1>2, <3>5, <3>12, <3>15 DEF Span
        <4>3. n <= 2 * Limit - 1
          BY <1>2, <3>3, <3>7, <3>8, <3>11, <3>12 DEF Bound
        <4>4. QED
          BY <2>5, <3>1, <3>4, <4>1, <4>2, <4>3
      <3>16. QED
        BY <1>2, <3>12, <3>13, <3>14, <3>15 DEF Span
    <2>6. QED
      BY <2>4, <2>5
  <1>11. \A d \in Clients : \A f \in forgotten'[d] : f <= now'
    BY <1>1, <1>2 DEF LimiterInv
  <1>12. QED
    BY <1>6, <1>7, <1>8, <1>9, <1>10, <1>11 DEF LimiterInv

\* Another request in the window is let in up to the limit, and counted.
LEMMA CountStep ==
  ASSUME LimiterInv, NEW c \in Clients, requests < MaxRequests, requests' = requests + 1, now' = now,
         Limiter!Count(c)
  PROVE  LimiterInv'
  <1> DEFINE b == [bucket[c] EXCEPT !.count = bucket[c].count + 1]
  <1>1. /\ c \in buckets /\ ~Limiter!Expired(bucket[c])
        /\ bucket' = [bucket EXCEPT ![c] = b]
        /\ buckets' = buckets /\ forgotten' = forgotten
        /\ IF bucket'[c].count > Limit THEN admissions' = admissions
           ELSE admissions' = admissions \cup {NewAdmission(c)}
    BY DEF Limiter!Count, Limiter!Admit, NewAdmission
  <1>2. /\ now \in Nat /\ now <= MaxTime /\ requests \in Nat
        /\ bucket \in [Clients -> Buckets]
        /\ \A d \in Clients : /\ bucket[d].start \in Nat /\ bucket[d].count \in Nat
                              /\ bucket[d].place \in Nat
        /\ \A a \in admissions : a.client \in Clients /\ a.time \in Nat
    BY LimiterTypes
  <1>3. /\ b \in Buckets /\ b.start = bucket[c].start /\ b.place = bucket[c].place
        /\ b.count = bucket[c].count + 1
    BY <1>2 DEF Buckets
  <1> HIDE DEF b
  <1>4. bucket' \in [Clients -> Buckets] /\ bucket'[c] = b /\ \A d \in Clients \ {c} : bucket'[d] = bucket[d]
    BY <1>1, <1>2, <1>3
  <1>5. admissions \subseteq admissions' /\ admissions' \subseteq admissions \cup {NewAdmission(c)}
    BY <1>1
  <1>6. Limiter!TypeOK'
    <2>1. NewAdmission(c) \in Limiter!Admissions
      BY <1>2 DEF NewAdmission, Limiter!Admissions, Limiter!Times, Limiter!Numbers, LimiterInv, Limiter!TypeOK
    <2>2. bucket' \in [Clients -> Limiter!Buckets]
      BY <1>4 DEF Limiter!Buckets, Limiter!Times, Limiter!Numbers, Buckets
    <2>3. requests' \in Limiter!Numbers
      BY <1>2, BoundsAssumption DEF Limiter!Numbers
    <2>4. QED
      BY <1>1, <1>5, <2>1, <2>2, <2>3 DEF LimiterInv, Limiter!TypeOK
  <1>7. IsFiniteSet(buckets') /\ IsFiniteSet(admissions')
    <2>1. IsFiniteSet(admissions \cup {NewAdmission(c)})
      BY FS_AddElement DEF LimiterInv
    <2>2. QED
      BY <1>1, <1>5, <2>1, FS_Subset DEF LimiterInv
  <1>8. \A a \in admissions' : a.time <= now'
    BY <1>2, <1>5 DEF LimiterInv, NewAdmission
  <1>9. \A d \in Clients : \A f \in forgotten'[d] : f <= now'
    BY <1>1 DEF LimiterInv
  <1>10. ASSUME NEW d \in Clients
         PROVE  BucketInv(d)'
    <2>1. BucketInv(d) /\ bucket[c].count # 0
      BY <1>1 DEF LimiterInv, BucketInv
    <2>2. CASE d = c
      BY <1>1, <1>2, <1>3, <1>4, <1>5, <2>1, <2>2 DEF BucketInv
    <2>3. CASE d # c
      <3>1. bucket[d].count = 0 => d \notin buckets' /\ \A a \in admissions' : a.client # d
        BY <1>1, <1>5, <2>1, <2>3 DEF BucketInv, NewAdmission
      <3>2. QED
        BY <1>1, <1>2, <1>4, <1>5, <2>1, <2>3, <3>1 DEF BucketInv, Limiter!Expired
    <2>4. QED
      BY <2>2, <2>3
  <1>11. ASSUME NEW d \in Clients
         PROVE  CountInv(d)'
    <2> SUFFICES ASSUME NEW t \in 0..MaxTime, bucket'[d].count > 0, forgotten'[d] \cap Span(t) = {}
                 PROVE  Cardinality(Admitted(d, Span(t))') <= Bound(bucket'[d], t)
      BY DEF CountInv, Bound, Allowed, Span
    <2>1. CountInv(d) /\ BucketInv(c)
      BY DEF LimiterInv
    <2>2. CASE d # c
      <3>1. Admitted(d, Span(t))' = Admitted(d, Span(t))
        <4>1. CASE admissions' = admissions
          BY <4>1 DEF Admitted, Limiter!AdmittedIn
        <4>2. CASE admissions' = admissions \cup {NewAdmission(c)}
          BY <2>2, <4>2, AdmitOne
        <4>3. QED
          BY <1>1, <4>1, <4>2
      <3>2. QED
        BY <1>1, <1>4, <2>1, <2>2, <3>1 DEF CountInv
    <2>3. CASE d = c
      <3>1. PICK n : n = Cardinality(Admitted(c, Span(t)))
        OBVIOUS
      <3>2. PICK m : m = Cardinality(Admitted(c, Span(t))')
        OBVIOUS
      <3>3. n \in Nat
        BY <3>1, AdmittedFinite DEF LimiterInv
      <3>4. m \in Nat
        <4>1. Admitted(c, Span(t))' \subseteq admissions'
          BY DEF Admitted, Limiter!AdmittedIn
        <4>2. QED
          BY <1>7, <3>2, <4>1, FS_Subset, FS_CardinalityType
      <3>5. bucket[c].count > 0 /\ bucket[c].start <= now /\ now <= bucket[c].start + Window
        BY <1>1, <1>2, <2>1, LimitAssumption DEF BucketInv, Limiter!Expired
      <3>6. n <= Bound(bucket[c], t)
        BY <1>1, <2>1, <2>3, <3>1, <3>5 DEF CountInv
      <3>7. t \in Nat /\ Window \in Nat /\ Limit \in Nat /\ Limit > 0
        BY BoundsAssumption, LimitAssumption
      <3>8. CASE b.count > Limit
        <4>1. admissions' = admissions
          BY <1>1, <1>4, <3>8
        <4>2. m = n
          BY <3>1, <3>2, <4>1 DEF Admitted, Limiter!AdmittedIn
        <4>3. Bound(bucket[c], t) <= Bound(b, t)
          BY <1>2, <1>3, <3>7, <3>8 DEF Bound, Allowed
        <4>4. Bound(bucket[c], t) \in Int /\ Bound(b, t) \in Int
          BY <1>2, <1>3, <3>7 DEF Bound, Allowed
        <4>5. QED
          BY <1>4, <2>3, <3>2, <3>3, <3>6, <4>2, <4>3, <4>4
      <3>9. CASE ~(b.count > Limit)
        <4>1. admissions' = admissions \cup {NewAdmission(c)}
          BY <1>1, <1>4, <3>9
        <4>2. m <= n + 1 /\ (now \notin Span(t) => m = n)
          BY <3>1, <3>2, <4>1, AdmitOne
        <4>3. Bound(b, t) = IF b.start <= t + Window THEN Bound(bucket[c], t) + 1 ELSE Bound(bucket[c], t)
          BY <1>2, <1>3, <3>7, <3>9 DEF Bound, Allowed
        <4>4. Bound(bucket[c], t) \in Int
          BY <1>2, <3>7 DEF Bound, Allowed
        <4>5. b.start > t + Window => now \notin Span(t)
          BY <1>2, <1>3, <3>5, <3>7 DEF Span
        <4>6. QED
          BY <1>2, <1>3, <1>4, <2>3, <3>2, <3>3, <3>4, <3>6, <3>7, <4>2, <4>3, <4>4, <4>5
      <3>10. QED
        BY <3>8, <3>9
    <2>4. QED
      BY <2>2, <2>3
  <1>12. QED
    BY <1>6, <1>7, <1>8, <1>9, <1>10, <1>11 DEF LimiterInv

\* Time passes: an expired bucket stays expired.
LEMMA TickStep ==
  ASSUME LimiterInv, Limiter!Tick
  PROVE  LimiterInv'
  <1>1. /\ now' = now + 1 /\ now < MaxTime
        /\ UNCHANGED <<requests, buckets, bucket, admissions, forgotten>>
    BY DEF Limiter!Tick
  <1>2. /\ now \in Nat
        /\ \A d \in Clients : bucket[d].start \in Nat /\ bucket[d].count \in Nat
        /\ \A a \in admissions : a.time \in Nat
        /\ forgotten \in [Clients -> SUBSET (0..MaxTime)]
    BY LimiterTypes
  <1>3. Limiter!TypeOK'
    BY <1>1, <1>2, BoundsAssumption DEF LimiterInv, Limiter!TypeOK, Limiter!Times
  <1>4. \A a \in admissions' : a.time <= now'
    BY <1>1, <1>2 DEF LimiterInv
  <1>5. \A d \in Clients : \A f \in forgotten'[d] : f <= now'
    BY <1>1, <1>2, BoundsAssumption DEF LimiterInv
  <1>6. ASSUME NEW d \in Clients
        PROVE  BucketInv(d)' /\ CountInv(d)'
    <2>1. BucketInv(d) /\ CountInv(d)
      BY DEF LimiterInv
    <2>2. BucketInv(d)'
      BY <1>1, <1>2, <2>1, LimitAssumption DEF BucketInv, Limiter!Expired
    <2>3. CountInv(d)'
      BY <1>1, <2>1 DEF CountInv, Admitted, Limiter!AdmittedIn, Span, Bound, Allowed
    <2>4. QED
      BY <2>2, <2>3
  <1>7. QED
    BY <1>1, <1>3, <1>4, <1>5, <1>6 DEF LimiterInv

\* A restart drops every bucket.
LEMMA RestartStep ==
  ASSUME LimiterInv, Limiter!Restart
  PROVE  LimiterInv'
  <1>1. /\ buckets' = {}
        /\ forgotten' = [d \in Clients |->
             IF d \in buckets /\ ~Limiter!Expired(bucket[d]) THEN forgotten[d] \cup {now}
             ELSE forgotten[d]]
        /\ UNCHANGED <<now, requests, bucket, admissions>>
    BY DEF Limiter!Restart
  <1>2. /\ now \in Nat /\ now <= MaxTime
        /\ forgotten \in [Clients -> SUBSET (0..MaxTime)]
    BY LimiterTypes
  <1>3. Limiter!TypeOK'
    BY <1>1, <1>2, BoundsAssumption DEF LimiterInv, Limiter!TypeOK, Limiter!Times
  <1>4. \A d \in Clients : \A f \in forgotten'[d] : f <= now'
    BY <1>1, <1>2 DEF LimiterInv
  <1>5. ASSUME NEW d \in Clients
        PROVE  BucketInv(d)' /\ CountInv(d)'
    <2>1. BucketInv(d) /\ CountInv(d)
      BY DEF LimiterInv
    <2>2. forgotten[d] \subseteq forgotten'[d]
          /\ (d \in buckets /\ ~Limiter!Expired(bucket[d]) => now \in forgotten'[d])
      BY <1>1
    <2>3. BucketInv(d)'
      BY <1>1, <2>1, <2>2 DEF BucketInv, Limiter!Expired
    <2>4. \A t : forgotten'[d] \cap Span(t) = {} => forgotten[d] \cap Span(t) = {}
      BY <2>2
    <2>5. CountInv(d)'
      BY <1>1, <2>1, <2>4 DEF CountInv, Admitted, Limiter!AdmittedIn, Span, Bound, Allowed
    <2>6. QED
      BY <2>3, <2>5
  <1>6. QED
    BY <1>1, <1>3, <1>4, <1>5, FS_EmptySet DEF LimiterInv

\* Whatever the limiter does keeps what is known of it.
LEMMA RequestStep ==
  ASSUME LimiterInv, NEW c \in Clients, Limiter!Request(c)
  PROVE  LimiterInv'
  BY StartStep, CountStep DEF Limiter!Request

\* A stutter of the limiter's variables keeps it, too.
LEMMA LimiterStays ==
  ASSUME LimiterInv, UNCHANGED <<now, buckets, bucket, requests, admissions, forgotten>>
  PROVE  LimiterInv'
  <1>1. Limiter!TypeOK'
    BY DEF LimiterInv, Limiter!TypeOK
  <1>2. \A d \in Clients : BucketInv(d)' /\ CountInv(d)'
    BY DEF LimiterInv, BucketInv, CountInv, Limiter!Expired, Bound, Allowed, Admitted,
       Limiter!AdmittedIn, Span
  <1>3. QED
    BY <1>1, <1>2 DEF LimiterInv

-----------------------------------------------------------------------------
(* The gate.                                                               *)

\* Nobody has asked for anything.
LEMMA InitInvariant == Init => GateInv
  <1> SUFFICES ASSUME Init PROVE GateInv
    OBVIOUS
  <1>1. /\ now = 0 /\ buckets = {} /\ requests = 0 /\ admissions = {}
        /\ bucket = [c \in Clients |-> [start |-> 0, count |-> 0, place |-> 0]]
        /\ forgotten = [c \in Clients |-> {}]
        /\ open = {} /\ documents = {} /\ left = {} /\ restarts = 0
    BY DEF Init, Limiter!Init
  <1>2. Limiter!TypeOK
    <2>1. 0 \in 0..MaxTime /\ 0 \in 0..MaxRequests
      BY BoundsAssumption
    <2>2. bucket \in [Clients -> Limiter!Buckets]
      BY <1>1, <2>1 DEF Limiter!Buckets, Limiter!Times, Limiter!Numbers
    <2>3. QED
      BY <1>1, <2>1, <2>2 DEF Limiter!TypeOK, Limiter!Times, Limiter!Numbers
  <1>3. LimiterInv
    <2>1. ASSUME NEW c \in Clients
          PROVE  BucketInv(c) /\ CountInv(c)
      <3>1. bucket[c].start = 0 /\ bucket[c].count = 0
        BY <1>1
      <3>2. QED
        BY <1>1, <3>1 DEF BucketInv, CountInv
    <2>2. QED
      BY <1>1, <1>2, <2>1, FS_EmptySet DEF LimiterInv
  <1>4. GateTypeOK
    BY <1>1, <1>2, FS_EmptySet, GateBoundsAssumption DEF GateTypeOK
  <1>5. FilesInv
    BY <1>1, FS_EmptySet DEF FilesInv, DocumentsRemoved
  <1>6. QED
    BY <1>3, <1>4, <1>5 DEF GateInv

\* A request is counted, and refused, answered or opened.
LEMMA ArriveStep ==
  ASSUME GateInv, NEW a \in Addresses, NEW r \in Served, Arrive(a, r)
  PROVE  GateInv'
  <1> DEFINE o == [number |-> requests, route |-> r, stage |-> "reading"]
  <1>1. Limiter!Request(<<a, KeyOf(r)>>) /\ <<a, KeyOf(r)>> \in Clients
        /\ UNCHANGED <<documents, left, restarts>>
    BY DEF Arrive, Clients
  <1>2. requests' = requests + 1 /\ requests < MaxRequests
    BY <1>1 DEF Limiter!Request
  <1>3. LimiterInv'
    BY <1>1, RequestStep DEF GateInv
  <1>4. \/ open' = open
        \/ open' = open \cup {o} /\ Cardinality(open) < MaxOpen
    BY DEF Arrive
  <1>5. requests \in Nat /\ Limiter!TypeOK'
    BY <1>3, LimiterTypes DEF GateInv, LimiterInv
  <1>6. o \in Calls /\ o.number = requests /\ o.stage = "reading"
    BY <1>2, <1>5, BoundsAssumption DEF Calls
  <1> HIDE DEF o
  <1>7. IsFiniteSet(open) /\ Cardinality(open) \in Nat
    BY FS_CardinalityType DEF GateInv, FilesInv
  <1>8. IsFiniteSet(open') /\ Cardinality(open') <= MaxOpen
    <2>1. Cardinality(open) <= MaxOpen
      BY DEF GateInv, GateTypeOK
    <2>2. IsFiniteSet(open \cup {o}) /\ Cardinality(open \cup {o}) \in {Cardinality(open), Cardinality(open) + 1}
      BY <1>7, FS_AddElement
    <2>3. QED
      BY <1>4, <1>7, <2>1, <2>2, GateBoundsAssumption
  <1>9. GateTypeOK'
    BY <1>1, <1>4, <1>5, <1>6, <1>8 DEF GateInv, GateTypeOK, Calls
  <1>10. FilesInv'
    <2>1. requests \notin left
      BY <1>5 DEF GateInv, GateTypeOK, FilesInv
    <2>2. \A p \in open' : p.number < requests' /\ p.number \notin left'
      <3> SUFFICES ASSUME NEW p \in open'
                   PROVE  p.number < requests + 1 /\ p.number \notin left
        BY <1>1, <1>2
      <3>1. CASE p \in open
        <4>1. p.number \in Nat /\ p.number < requests /\ p.number \notin left
          BY <3>1 DEF GateInv, GateTypeOK, Calls, FilesInv
        <4>2. QED
          BY <1>5, <4>1
      <3>2. CASE p = o
        BY <1>5, <1>6, <2>1, <3>2
      <3>3. QED
        BY <1>4, <3>1, <3>2
    <2>3. \A n \in documents' : n < requests'
      <3> SUFFICES ASSUME NEW n \in documents
                   PROVE  n < requests + 1
        BY <1>1, <1>2
      <3>1. n \in Nat /\ n < requests
        BY DEF GateInv, GateTypeOK, FilesInv
      <3>2. QED
        BY <1>5, <3>1
    <2>4. DocumentsRemoved'
      BY <1>1, <1>4 DEF GateInv, FilesInv, DocumentsRemoved
    <2>5. QED
      BY <1>8, <2>2, <2>3, <2>4 DEF FilesInv
  <1>11. QED
    BY <1>3, <1>9, <1>10 DEF GateInv

\* A request under way goes on or is over: its own file is all it touches.
LEMMA ProceedStep ==
  ASSUME GateInv, NEW o \in open, Proceed(o)
  PROVE  GateInv'
  <1>1. /\ UNCHANGED <<now, buckets, bucket, requests, admissions, forgotten, restarts, left>>
        /\ BodyEnds(o) \/ WorkEnds(o)
    BY DEF Proceed, BodyEnds, WorkEnds
  <1>2. LimiterInv'
    BY <1>1, LimiterStays DEF GateInv
  <1>3. /\ open \subseteq Calls /\ IsFiniteSet(open) /\ Cardinality(open) \in Nat
        /\ Cardinality(open) <= MaxOpen
        /\ requests \in Nat
        /\ documents \subseteq 0..MaxRequests /\ left \subseteq documents
    BY LimiterTypes, FS_CardinalityType DEF GateInv, GateTypeOK, FilesInv
  <1>4. o \in Calls /\ o.number \in 0..MaxRequests /\ o.number < requests /\ o.number \notin left
    BY <1>3 DEF GateInv, FilesInv, Calls
  <1> DEFINE w == [o EXCEPT !.stage = "working"]
  <1>5. w \in Calls /\ w.number = o.number /\ w.stage = "working"
    BY <1>4 DEF Calls
  <1> HIDE DEF w
  <1>6. /\ IsFiniteSet(open \ {o}) /\ Cardinality(open \ {o}) = Cardinality(open) - 1
        /\ IsFiniteSet((open \ {o}) \cup {w}) /\ Cardinality((open \ {o}) \cup {w}) <= Cardinality(open)
    <2>1. PICK rest : rest = open \ {o}
      OBVIOUS
    <2>2. IsFiniteSet(rest) /\ Cardinality(rest) = Cardinality(open) - 1
      BY <1>3, <2>1, FS_RemoveElement
    <2>3. IsFiniteSet(rest \cup {w}) /\ Cardinality(rest \cup {w}) \in {Cardinality(rest), Cardinality(rest) + 1}
      BY <2>2, FS_AddElement
    <2>4. QED
      BY <1>3, <2>1, <2>2, <2>3
  <1>7. \/ /\ open' = open \ {o} /\ o.stage = "reading" /\ documents' = documents
        \/ /\ open' = (open \ {o}) \cup {w} /\ o.stage = "reading"
           /\ documents' \in {documents, documents \cup {o.number}}
        \/ /\ open' = open \ {o} /\ o.stage = "working" /\ documents' = documents \ {o.number}
    BY <1>1 DEF BodyEnds, WorkEnds, w
  <1>8. open' \subseteq (open \ {o}) \cup {w} /\ IsFiniteSet(open') /\ Cardinality(open') <= MaxOpen
    <2>1. CASE open' = open \ {o}
      BY <1>3, <1>6, <2>1, GateBoundsAssumption
    <2>2. CASE open' = (open \ {o}) \cup {w}
      <3>1. PICK n \in Nat : n = Cardinality((open \ {o}) \cup {w})
        BY <1>6, FS_CardinalityType
      <3>2. n <= MaxOpen
        BY <1>3, <1>6, <3>1, GateBoundsAssumption
      <3>3. QED
        BY <1>6, <2>2, <3>1, <3>2
    <2>3. QED
      BY <1>7, <2>1, <2>2
  <1>9. documents' \subseteq documents \cup {o.number} /\ left \subseteq documents'
    BY <1>3, <1>4, <1>7
  <1>10. GateTypeOK'
    BY <1>1, <1>2, <1>3, <1>4, <1>5, <1>8, <1>9 DEF GateInv, GateTypeOK, LimiterInv, Calls
  <1>11. FilesInv'
    <2>1. \A p \in open' : p.number < requests /\ p.number \notin left
      BY <1>4, <1>5, <1>8 DEF GateInv, FilesInv
    <2>2. \A n \in documents' : n < requests
      BY <1>4, <1>9 DEF GateInv, FilesInv
    <2>3. ASSUME NEW n \in documents'
          PROVE  n \in left \/ \E p \in open' : p.number = n /\ p.stage = "working"
      <3>1. CASE n \in documents /\ (o.stage = "working" => n # o.number)
        <4>1. CASE n \in left
          BY <4>1
        <4>2. CASE n \notin left
          <5>1. PICK p \in open : p.number = n /\ p.stage = "working"
            BY <3>1, <4>2 DEF GateInv, FilesInv, DocumentsRemoved
          <5>2. p # o
            BY <3>1, <5>1
          <5>3. p \in open'
            BY <1>7, <5>2
          <5>4. QED
            BY <5>1, <5>3
        <4>3. QED
          BY <4>1, <4>2
      <3>2. CASE ~(n \in documents /\ (o.stage = "working" => n # o.number))
        <4>1. n = o.number /\ open' = (open \ {o}) \cup {w}
          BY <1>7, <3>2
        <4>2. QED
          BY <1>5, <4>1
      <3>3. QED
        BY <3>1, <3>2
    <2>4. QED
      BY <1>1, <1>8, <2>1, <2>2, <2>3 DEF FilesInv, DocumentsRemoved
  <1>12. QED
    BY <1>2, <1>10, <1>11 DEF GateInv

\* Every step of Next keeps the invariant.
LEMMA InvariantStep == GateInv /\ [Next]_vars => GateInv'
  <1> SUFFICES ASSUME GateInv, [Next]_vars PROVE GateInv'
    OBVIOUS
  <1>1. ASSUME NEW a \in Addresses, NEW r \in Served, Arrive(a, r) PROVE GateInv'
    BY <1>1, ArriveStep
  <1>2. ASSUME NEW o \in open, Proceed(o) PROVE GateInv'
    BY <1>2, ProceedStep
  <1>3. CASE Tick
    <2>1. LimiterInv' /\ requests' = requests /\ UNCHANGED gate
      BY <1>3, TickStep DEF Tick, GateInv, Limiter!Tick
    <2>2. UNCHANGED <<open, documents, left, restarts>>
      BY <2>1 DEF gate
    <2>3. QED
      BY <2>1, <2>2 DEF GateInv, GateTypeOK, LimiterInv, FilesInv, DocumentsRemoved, Calls
  <1>4. CASE Restart
    <2>1. /\ LimiterInv' /\ requests' = requests
          /\ restarts < MaxRestarts /\ restarts' = restarts + 1
          /\ open' = {} /\ left' = documents /\ documents' = documents
      BY <1>4, RestartStep DEF Restart, GateInv, Limiter!Restart
    <2>2. GateTypeOK'
      BY <2>1, FS_EmptySet, GateBoundsAssumption DEF GateInv, GateTypeOK, LimiterInv
    <2>3. FilesInv'
      BY <2>1, FS_EmptySet DEF GateInv, FilesInv, DocumentsRemoved
    <2>4. QED
      BY <2>1, <2>2, <2>3 DEF GateInv
  <1>5. CASE UNCHANGED vars
    <2>1. UNCHANGED <<now, buckets, bucket, requests, admissions, forgotten, open, documents, left, restarts>>
      BY <1>5 DEF vars, gate
    <2>2. LimiterInv'
      BY <2>1, LimiterStays DEF GateInv
    <2>3. QED
      BY <2>1, <2>2 DEF GateInv, GateTypeOK, LimiterInv, FilesInv, DocumentsRemoved, Calls
  <1>6. QED
    BY <1>1, <1>2, <1>3, <1>4, <1>5 DEF Next

-----------------------------------------------------------------------------
(* The theorems.                                                           *)

\* GateInv holds in every reachable state.
THEOREM Invariance == Spec => []GateInv
  BY InitInvariant, InvariantStep, PTL DEF Spec

\* The limiter, the requests under way and their files keep their types, however
\* many requests arrive and however often the process restarts.
THEOREM TypeCorrect == Spec => []GateTypeOK
  <1>1. GateInv => GateTypeOK
    BY DEF GateInv
  <1>2. QED
    BY <1>1, Invariance, PTL

\* The file of an inspection goes with the inspection, unless a restart comes first.
THEOREM FilesGo == Spec => []DocumentsRemoved
  <1>1. GateInv => DocumentsRemoved
    BY DEF GateInv, FilesInv
  <1>2. QED
    BY <1>1, Invariance, PTL

\* Of one client: in a span in which its bucket is not lost it makes less than twice
\* the limit of requests.
LEMMA SpanBounded ==
  ASSUME GateInv, NEW c \in Clients, NEW t \in 0..MaxTime, forgotten[c] \cap Span(t) = {}
  PROVE  Cardinality(Admitted(c, Span(t))) < 2 * Limit
  <1>1. BucketInv(c) /\ CountInv(c) /\ bucket[c].count \in Nat /\ bucket[c].start \in Nat
    BY LimiterTypes DEF GateInv, LimiterInv
  <1>2. PICK n \in Nat : n = Cardinality(Admitted(c, Span(t)))
    BY AdmittedFinite DEF GateInv, LimiterInv
  <1>3. CASE bucket[c].count = 0
    <2>1. Admitted(c, Span(t)) = {}
      BY <1>1, <1>3 DEF BucketInv, Admitted, Limiter!AdmittedIn
    <2>2. QED
      BY <2>1, FS_EmptySet, LimitAssumption
  <1>4. CASE bucket[c].count > 0
    <2>1. n <= Bound(bucket[c], t)
      BY <1>1, <1>2, <1>4 DEF CountInv
    <2>2. t \in Nat
      BY BoundsAssumption
    <2>3. QED
      BY <1>1, <1>2, <2>1, <2>2, LimitAssumption DEF Bound, Allowed
  <1>5. QED
    BY <1>1, <1>3, <1>4

\* The AI routes share one key.
LEMMA AiKey == \A r \in AiRoutes : KeyOf(r) = "ai"
  BY DEF AiRoutes, AnalysisRoutes, AgentRoutes, AiPost, Route, KeyOf

\* In any span of one window an address makes less than twice the limit of requests
\* to one route, and to all the AI routes together.
THEOREM RequestsBounded == Spec => []AdmissionsBounded
  <1>1. GateInv => AdmissionsBounded
    <2> SUFFICES ASSUME GateInv, NEW a \in Addresses, NEW t \in 0..MaxTime,
                        NEW kind \in {AiRoutes \cap Served} \cup {{r} : r \in Served},
                        \A id \in {<<a, KeyOf(r)>> : r \in kind} : forgotten[id] \cap Span(t) = {}
                 PROVE  Cardinality(UNION {Admitted(id, Span(t)) : id \in {<<a, KeyOf(r)>> : r \in kind}})
                          < 2 * Limit
      BY DEF AdmissionsBounded, Admitted, Span
    <2> DEFINE ids == {<<a, KeyOf(r)>> : r \in kind}
    <2>1. kind \subseteq Served /\ \A r, s \in kind : KeyOf(r) = KeyOf(s)
      BY AiKey
    <2>2. CASE kind = {}
      <3>1. UNION {Admitted(id, Span(t)) : id \in ids} = {}
        BY <2>2
      <3>2. QED
        BY <3>1, FS_EmptySet, LimitAssumption
    <2>3. CASE kind # {}
      <3>1. PICK r \in kind : TRUE
        BY <2>3
      <3>2. ids = {<<a, KeyOf(r)>>} /\ <<a, KeyOf(r)>> \in Clients
        BY <2>1, <3>1 DEF Clients
      <3>3. UNION {Admitted(id, Span(t)) : id \in ids} = Admitted(<<a, KeyOf(r)>>, Span(t))
        BY <3>2
      <3>4. QED
        BY <3>2, <3>3, SpanBounded
    <2>4. QED
      BY <2>2, <2>3
  <1>2. QED
    BY <1>1, Invariance, PTL

-----------------------------------------------------------------------------
(* What makes the limiter forget.                                          *)

\* The clients of finitely many admissions are finitely many.
LEMMA ClientsFinite ==
  ASSUME NEW A, IsFiniteSet(A), NEW C, \A c \in C : \E a \in A : a.client = c
  PROVE  IsFiniteSet(C)
  <1> DEFINE T == {a.client : a \in A}
             f == [a \in A |-> a.client]
  <1>1. f \in Surjection(A, T)
    BY DEF Surjection
  <1> HIDE DEF f
  <1>2. IsFiniteSet(T)
    BY <1>1, FS_Surjection
  <1>3. C \subseteq T
    OBVIOUS
  <1> HIDE DEF T
  <1>4. QED
    BY <1>2, <1>3, FS_Subset

\* The times not more than a window ago.
Recently == {t \in 0..MaxTime : now <= t + Window}

\* Who is let in while a bucket in its window goes is one of too many.
LEMMA ForgettingStep ==
  ASSUME LimiterInv, LimiterInv', NEW c \in Clients, Limiter!Request(c), forgotten' # forgotten
  PROVE  Cardinality({d \in Clients : Admitted(d, Recently)' # {}}) > MaxBuckets
  <1> DEFINE b == [start |-> now, count |-> 1,
                   place |-> IF c \in buckets THEN bucket[c].place ELSE requests]
             held == [bucket EXCEPT ![c] = b]
             present == buckets \cup {c}
             kept == Limiter!Kept(present, held)
             live == {e \in present : ~Limiter!Expired(held[e])}
             recent == {d \in Clients : Admitted(d, Recently)' # {}}
  <1>1. Limiter!Start(c)
    BY DEF Limiter!Request, Limiter!Count
  <1>2. /\ forgotten' = [d \in Clients |->
             IF d \in buckets \ kept /\ ~Limiter!Expired(held[d]) THEN forgotten[d] \cup {now}
             ELSE forgotten[d]]
        /\ admissions' = admissions \cup {NewAdmission(c)}
        /\ now' = now
    BY <1>1 DEF Limiter!Start, Limiter!Admit, NewAdmission, Limiter!Request
  <1>3. /\ now \in Nat /\ now <= MaxTime /\ requests \in Nat
        /\ buckets \subseteq Clients /\ bucket \in [Clients -> Buckets]
        /\ forgotten \in [Clients -> SUBSET (0..MaxTime)]
        /\ \A d \in Clients : /\ bucket[d].start \in Nat /\ bucket[d].start <= MaxTime
                              /\ bucket[d].place \in Nat
    BY LimiterTypes
  <1>4. /\ held[c] = b /\ \A d \in Clients \ {c} : held[d] = bucket[d]
        /\ b.start = now /\ b.place \in Nat
    BY <1>3
  <1> HIDE DEF b, held
  <1>5. PICK d \in buckets \ kept : ~Limiter!Expired(held[d])
    BY <1>2, <1>3
  <1>6. Cardinality(live) > MaxBuckets
    <2>1. IsFiniteSet(present) /\ present \subseteq Clients
      BY <1>3, FS_AddElement DEF LimiterInv
    <2>2. \A e \in present : held[e].place \in Nat
      BY <1>3, <1>4
    <2>3. QED
      BY <1>5, <2>1, <2>2, KeptFacts
  <1> HIDE DEF kept
  <1>7. live \subseteq recent
    <2> SUFFICES ASSUME NEW e \in live
                 PROVE  e \in Clients /\ \E a \in admissions' : a.client = e /\ a.time \in Recently'
      BY DEF Admitted, Limiter!AdmittedIn
    <2>1. e \in Clients
      BY <1>3
    <2>2. CASE e = c
      <3>1. NewAdmission(c).client = e /\ NewAdmission(c).time = now
        BY <2>2 DEF NewAdmission
      <3>2. now \in Recently'
        BY <1>2, <1>3, BoundsAssumption, LimitAssumption DEF Recently
      <3>3. QED
        BY <1>2, <2>1, <3>1, <3>2
    <2>3. CASE e # c
      <3>1. e \in buckets /\ ~Limiter!Expired(bucket[e])
        BY <1>4, <2>1, <2>3
      <3>2. PICK a \in admissions : a.client = e /\ a.time = bucket[e].start
        BY <2>1, <3>1 DEF LimiterInv, BucketInv
      <3>3. bucket[e].start <= now
        BY <2>1 DEF LimiterInv, BucketInv
      <3>4. bucket[e].start \in Recently'
        BY <1>2, <1>3, <2>1, <3>1, <3>3, BoundsAssumption, LimitAssumption
        DEF Recently, Limiter!Expired
      <3>5. QED
        BY <1>2, <2>1, <3>2, <3>4
    <2>4. QED
      BY <2>2, <2>3
  <1>8. IsFiniteSet(recent)
    <2>1. \A e \in recent : \E a \in admissions' : a.client = e
      BY DEF Admitted, Limiter!AdmittedIn
    <2>2. IsFiniteSet(admissions')
      BY DEF LimiterInv
    <2> HIDE DEF recent
    <2>3. QED
      BY <2>1, <2>2, ClientsFinite
  <1> HIDE DEF live, recent
  <1>9. Cardinality(live) <= Cardinality(recent) /\ Cardinality(recent) \in Nat /\ Cardinality(live) \in Nat
    BY <1>7, <1>8, FS_Subset, FS_CardinalityType
  <1>10. Cardinality(recent) > MaxBuckets
    BY <1>6, <1>9, LimitAssumption
  <1>11. QED
    BY <1>10 DEF recent

\* While the process runs, a bucket in its window goes only when more clients than
\* there may be buckets were let in within a window.
THEOREM ForgettingHasCause == Spec => ForgottenOnlyWhenFull
  <1> DEFINE Full == requests' # requests /\ forgotten' # forgotten =>
               Limiter!Cardinality({c \in Clients :
                 Limiter!AdmittedIn(c, {t \in Limiter!Times : now <= t + Window})' # {}}) > MaxBuckets
  <1>1. GateInv /\ GateInv' /\ [Next]_vars => [Full]_(Limiter!vars)
    <2> SUFFICES ASSUME GateInv, GateInv', [Next]_vars, requests' # requests, forgotten' # forgotten
                 PROVE  Full
      OBVIOUS
    <2>1. PICK c \in Clients : Limiter!Request(c)
      <3>1. ~Tick /\ ~Restart /\ vars' # vars
        BY DEF Tick, Restart, Limiter!Tick, Limiter!Restart, vars
      <3>2. ASSUME NEW o \in open, Proceed(o) PROVE FALSE
        BY <3>2 DEF Proceed
      <3>3. PICK a \in Addresses, r \in Served : Arrive(a, r)
        BY <3>1, <3>2 DEF Next
      <3>4. QED
        BY <3>3 DEF Arrive, Clients
    <2>2. Cardinality({d \in Clients : Admitted(d, Recently)' # {}}) > MaxBuckets
      BY <2>1, ForgettingStep DEF GateInv
    <2>3. Limiter!Cardinality({d \in Clients : Admitted(d, Recently)' # {}}) > MaxBuckets
      BY <2>2, SameCardinality
    <2>4. QED
      BY <2>3 DEF Admitted, Recently, Limiter!Times
  <1>2. QED
    BY <1>1, Invariance, PTL DEF Spec, ForgottenOnlyWhenFull, Limiter!ForgottenOnlyWhenFull
-----------------------------------------------------------------------------
(* Console: the inductive invariant.                                       *)

\* A handler as Start makes it and the answers change it.
IsHandler(t) ==
  /\ t = [control |-> t.control, stage |-> t.stage, left |-> t.left, about |-> t.about,
          asked |-> t.asked, moved |-> t.moved]
  /\ t.control \in Controls /\ t.control.flow \in Flows
  /\ t.stage \in Stages /\ t.moved \in BOOLEAN

PageShape ==
  /\ clicks \in Nat
  /\ task = [n \in 1..clicks |-> task[n]] /\ \A n \in 1..clicks : IsHandler(task[n])
  /\ DOMAIN shown = Panels
  /\ \A p \in Panels : shown[p].by \in 0..clicks

\* A handler that is not over keeps its control disabled, and no other handler of
\* the control was started after it.
LockInv ==
  \A n \in 1..clicks :
    task[n].stage # "over" /\ Locked(task[n].control) =>
      /\ task[n].control \in busy
      /\ \A m \in (n + 1)..clicks : task[m].control # task[n].control

\* Where the subject of handler n is at each of its stages: in the tracking fields, once
\* a new submission has its id, or in what was asked, unless somebody wrote the fields.
Follows(n, t, tracked) ==
  /\ t.stage = "act" =>
       /\ t.control.flow = "track"
       /\ t.control = SubmitControl => t.left \in {1, 2}
       /\ IF t.control = SubmitControl /\ t.left = 2 THEN t.about = n
          ELSE tracked = t.about \/ t.moved
  /\ t.stage = "agree" => t.control.flow = "job"
  /\ t.stage = "last" =>
       /\ t.control.flow = "ask" => t.asked = None
       /\ t.control.flow = "reopen" => t.asked = t.about
       /\ t.control.flow = "track" => t.asked = t.about \/ t.moved

\* A panel shows its own controls' answers, and a subject only when the handler is over.
ShownInv ==
  \A p \in Panels :
    LET n == shown[p].by IN
    n > 0 =>
      /\ task[n].control.panel = p
      /\ shown[p].about # None =>
           /\ task[n].stage = "over"
           /\ shown[p].about = task[n].about \/ (Doing(n, "track") /\ task[n].moved)

PageInv ==
  /\ PageShape /\ LockInv /\ ShownInv
  /\ \A n \in 1..clicks : Follows(n, task[n], field)

\* An empty page satisfies it.
LEMMA PageInitInvariant == PageInit => PageInv
  <1> SUFFICES ASSUME PageInit PROVE PageInv
    OBVIOUS
  <1>1. task = [n \in 1..clicks |-> task[n]] /\ 1..clicks = {}
    <2>1. clicks = 0 /\ task = <<>>
      BY DEF PageInit
    <2>2. QED
      BY <2>1
  <1>2. PageShape
    BY <1>1 DEF PageInit, PageShape
  <1>3. QED
    BY <1>1, <1>2 DEF PageInit, PageInv, LockInv, ShownInv

-----------------------------------------------------------------------------
(* Console: steps of one handler.                                          *)

\* What a step of handler n may do: go on to `t`, and show what was asked if it was the
\* last answer and is accepted.
LEMMA HandlerStep ==
  ASSUME PageInv, NEW n \in 1..clicks, task[n].stage # "over",
         NEW t, IsHandler(t), t.control = task[n].control, t.about = task[n].about,
         t.moved = task[n].moved, Follows(n, t, field),
         task' = [task EXCEPT ![n] = t], UNCHANGED <<clicks, field>>,
         \/ busy' = busy
         \/ t.stage = "over" /\ busy' = Released(t.control),
         \/ shown' = shown
         \/ /\ task[n].stage = "last" /\ t.stage = "over" /\ Accepted(n)
            /\ shown' = [shown EXCEPT ![t.control.panel] = [by |-> n, about |-> task[n].asked]]
  PROVE  PageInv'
  <1>1. /\ clicks \in Nat /\ n \in Nat /\ clicks' = clicks /\ field' = field
        /\ task'[n] = t /\ \A m \in 1..clicks : m # n => task'[m] = task[m]
        /\ task' = [m \in 1..clicks |-> task'[m]]
        /\ \A m \in 1..clicks : IsHandler(task'[m]) /\ task'[m].control = task[m].control
    <2>1. clicks \in Nat /\ task = [m \in 1..clicks |-> task[m]]
          /\ \A m \in 1..clicks : IsHandler(task[m])
      BY DEF PageInv, PageShape
    <2>2. task' = [m \in 1..clicks |-> IF m = n THEN t ELSE task[m]]
      BY <2>1
    <2>3. QED
      BY <2>1, <2>2
  <1>2. PageShape'
    <2>1. t.control.panel \in Panels
      BY DEF IsHandler, Panels
    <2>2. DOMAIN shown' = Panels /\ \A p \in Panels : shown'[p].by \in 0..clicks
      BY <1>1, <2>1 DEF PageInv, PageShape
    <2>3. QED
      BY <1>1, <2>2 DEF PageShape
  <1>3. LockInv'
    <2> SUFFICES ASSUME NEW k \in 1..clicks, task'[k].stage # "over", Locked(task'[k].control)
                 PROVE  /\ task'[k].control \in busy'
                        /\ \A m \in (k + 1)..clicks : task'[m].control # task'[k].control
      BY <1>1 DEF LockInv
    <2>1. task[k].stage # "over" /\ task'[k].control = task[k].control
      BY <1>1
    <2>2. /\ task[k].control \in busy
          /\ \A m \in (k + 1)..clicks : task[m].control # task[k].control
      BY <2>1 DEF PageInv, LockInv
    <2>3. \A m \in (k + 1)..clicks : task'[m].control # task'[k].control
      BY <1>1, <2>1, <2>2
    <2>4. CASE busy' = busy
      BY <2>1, <2>2, <2>3, <2>4
    <2>5. CASE t.stage = "over" /\ busy' = Released(t.control)
      <3>1. k # n
        BY <1>1, <2>5
      <3>2. task[k].control # task[n].control
        <4>1. CASE k < n
          BY <1>1, <2>2, <4>1
        <4>2. CASE n < k
          <5>1. SUFFICES ASSUME task[k].control = task[n].control PROVE FALSE
            OBVIOUS
          <5>2. \A m \in (n + 1)..clicks : task[m].control # task[n].control
            BY <2>1, <5>1 DEF PageInv, LockInv
          <5>3. QED
            BY <1>1, <4>2, <5>1, <5>2
        <4>3. QED
          BY <1>1, <3>1, <4>1, <4>2
      <3>3. QED
        BY <2>1, <2>2, <2>3, <2>5, <3>2 DEF Released
    <2>6. QED
      BY <2>4, <2>5
  <1>4. ShownInv'
    <2> SUFFICES ASSUME NEW p \in Panels, NEW k, k = shown'[p].by, k > 0
                 PROVE  /\ task'[k].control.panel = p
                        /\ shown'[p].about # None =>
                             /\ task'[k].stage = "over"
                             /\ \/ shown'[p].about = task'[k].about
                                \/ task'[k].control.flow = "track" /\ task'[k].moved
      BY DEF ShownInv, Doing
    <2>1. CASE shown'[p] = shown[p]
      <3>1. k \in 1..clicks
        BY <1>1, <2>1 DEF PageInv, PageShape
      <3>2. /\ task[k].control.panel = p
            /\ shown[p].about # None =>
                 /\ task[k].stage = "over"
                 /\ \/ shown[p].about = task[k].about
                    \/ task[k].control.flow = "track" /\ task[k].moved
        BY <2>1 DEF PageInv, ShownInv, Doing
      <3>3. CASE k = n
        BY <1>1, <2>1, <3>2, <3>3
      <3>4. CASE k # n
        BY <1>1, <2>1, <3>1, <3>2, <3>4
      <3>5. QED
        BY <3>3, <3>4
    <2>2. CASE shown'[p] # shown[p]
      <3>1. /\ task[n].stage = "last" /\ t.stage = "over" /\ Accepted(n)
            /\ shown' = [shown EXCEPT ![t.control.panel] = [by |-> n, about |-> task[n].asked]]
        BY <2>2
      <3>2. p = t.control.panel /\ shown'[p] = [by |-> n, about |-> task[n].asked]
        BY <2>2, <3>1 DEF PageInv, PageShape
      <3>3. task'[k] = t
        BY <1>1, <3>2
      <3>4. \/ task[n].asked = None \/ task[n].asked = task[n].about
            \/ task[n].control.flow = "track" /\ task[n].moved
        BY <3>1 DEF PageInv, PageShape, IsHandler, Flows, Follows, Accepted, Doing
      <3>5. QED
        BY <3>1, <3>2, <3>3, <3>4
    <2>3. QED
      BY <2>1, <2>2
  <1>5. (\A m \in 1..clicks : Follows(m, task[m], field))'
    <2>1. \A m \in 1..clicks : Follows(m, task[m], field)
      BY DEF PageInv
    <2>2. \A m \in 1..clicks : Follows(m, task'[m], field)
      BY <1>1, <2>1
    <2>3. QED
      BY <1>1, <2>2 DEF Follows
  <1>6. QED
    BY <1>2, <1>3, <1>4, <1>5 DEF PageInv

\* A handler that ends, with or without showing its last answer.
LEMMA EndsStep ==
  ASSUME PageInv, NEW n \in 1..clicks, task[n].stage # "over", Ends(n),
         UNCHANGED <<clicks, field>>,
         \/ shown' = shown
         \/ /\ task[n].stage = "last" /\ Accepted(n)
            /\ shown' = [shown EXCEPT ![task[n].control.panel] = [by |-> n, about |-> task[n].asked]]
  PROVE  PageInv'
  <1> DEFINE t == [task[n] EXCEPT !.stage = "over"]
  <1>1. IsHandler(task[n]) /\ task = [m \in 1..clicks |-> task[m]]
    BY DEF PageInv, PageShape
  <1>2. /\ IsHandler(t) /\ t.control = task[n].control /\ t.about = task[n].about
        /\ t.moved = task[n].moved /\ t.stage = "over"
    BY <1>1 DEF IsHandler, Stages
  <1>3. Follows(n, t, field)
    BY <1>2 DEF Follows
  <1>4. task' = [task EXCEPT ![n] = t] /\ busy' = Released(t.control)
    BY <1>1, <1>2 DEF Ends
  <1> HIDE DEF t
  <1>5. QED
    BY <1>2, <1>3, <1>4, HandlerStep

\* A handler that goes on to its last answer asks for a subject.
LastAsked(r, v) == [r EXCEPT !.stage = "last", !.asked = v]

LEMMA LastStage ==
  ASSUME NEW r, IsHandler(r), NEW v
  PROVE  /\ IsHandler(LastAsked(r, v))
         /\ LastAsked(r, v).control = r.control /\ LastAsked(r, v).about = r.about
         /\ LastAsked(r, v).left = r.left /\ LastAsked(r, v).moved = r.moved
         /\ LastAsked(r, v).stage = "last" /\ LastAsked(r, v).asked = v
  <1> DEFINE u == [r EXCEPT !.stage = "last"]
             t == [u EXCEPT !.asked = v]
  <1>1. /\ IsHandler(u) /\ u.control = r.control /\ u.about = r.about /\ u.left = r.left
        /\ u.moved = r.moved /\ u.stage = "last"
    BY DEF IsHandler, Stages
  <1>2. LastAsked(r, v) = t
    BY DEF LastAsked
  <1> HIDE DEF u
  <1>3. /\ IsHandler(t) /\ t.control = u.control /\ t.about = u.about /\ t.left = u.left
        /\ t.moved = u.moved /\ t.stage = u.stage /\ t.asked = v
    BY <1>1 DEF IsHandler
  <1> HIDE DEF t
  <1>4. QED
    BY <1>1, <1>2, <1>3

\* A handler that asks for the tracked submission when its own requests are answered.
LEMMA RefreshStep ==
  ASSUME PageInv, NEW n \in 1..clicks, At(n, "act"), ~(Creates(n) /\ task[n].left = 2), Refresh(n),
         UNCHANGED <<clicks, field, busy, shown>>
  PROVE  PageInv'
  <1> DEFINE t == [task[n] EXCEPT !.stage = "last", !.left = 0, !.asked = field]
  <1>1. IsHandler(task[n]) /\ task = [m \in 1..clicks |-> task[m]]
    BY DEF PageInv, PageShape
  <1>2. /\ IsHandler(t) /\ t.control = task[n].control /\ t.about = task[n].about
        /\ t.moved = task[n].moved /\ t.stage = "last" /\ t.asked = field
    <2> DEFINE r == [task[n] EXCEPT !.left = 0]
    <2>1. /\ IsHandler(r) /\ r.control = task[n].control /\ r.about = task[n].about
          /\ r.moved = task[n].moved
      BY <1>1 DEF IsHandler
    <2> DEFINE u == LastAsked(r, field)
    <2>2. t = u
      BY <1>1 DEF IsHandler, LastAsked
    <2> HIDE DEF r, t
    <2>3. /\ IsHandler(u) /\ u.control = r.control /\ u.about = r.about
          /\ u.moved = r.moved /\ u.stage = "last" /\ u.asked = field
      BY <2>1, LastStage
    <2> HIDE DEF u
    <2>4. QED
      BY <2>1, <2>2, <2>3
  <1>3. /\ task[n].control.flow = "track"
        /\ field = task[n].about \/ task[n].moved
    BY DEF PageInv, Follows, At, Creates
  <1>4. Follows(n, t, field)
    BY <1>2, <1>3 DEF Follows
  <1>5. task' = [task EXCEPT ![n] = t]
    BY <1>1 DEF Refresh
  <1> HIDE DEF t
  <1>6. task[n].stage # "over"
    BY DEF At
  <1>7. QED
    BY <1>2, <1>4, <1>5, <1>6, HandlerStep

\* One more request of a submission handler is answered.
LEMMA HandlerAsks ==
  ASSUME PageInv, NEW n \in 1..clicks, At(n, "act"), ~Creates(n),
         task' = [task EXCEPT ![n].left = @ - 1],
         UNCHANGED <<clicks, field, busy, shown>>
  PROVE  PageInv'
  <1> DEFINE t == [task[n] EXCEPT !.left = @ - 1]
  <1>1. IsHandler(task[n]) /\ task = [m \in 1..clicks |-> task[m]]
    BY DEF PageInv, PageShape
  <1>2. /\ IsHandler(t) /\ t.control = task[n].control /\ t.about = task[n].about
        /\ t.moved = task[n].moved /\ t.stage = "act"
    BY <1>1 DEF IsHandler, Stages, At
  <1>3. /\ task[n].control.flow = "track"
        /\ field = task[n].about \/ task[n].moved
    BY DEF PageInv, Follows, At, Creates
  <1>4. Follows(n, t, field)
    BY <1>2, <1>3 DEF Follows, Creates
  <1>5. task' = [task EXCEPT ![n] = t]
    BY <1>1
  <1> HIDE DEF t
  <1>6. task[n].stage # "over"
    BY DEF At
  <1>7. QED
    BY <1>2, <1>4, <1>5, <1>6, HandlerStep

\* The agreement is accepted: the job is asked for.
LEMMA AgreedStep ==
  ASSUME PageInv, NEW n \in 1..clicks, Agreed(n)
  PROVE  PageInv'
  <1> DEFINE t == LastAsked(task[n], chosen)
  <1>1. IsHandler(task[n]) /\ task = [m \in 1..clicks |-> task[m]]
    BY DEF PageInv, PageShape
  <1>2. /\ IsHandler(t) /\ t.control = task[n].control /\ t.about = task[n].about
        /\ t.moved = task[n].moved /\ t.stage = "last"
    BY <1>1, LastStage
  <1>3. task[n].control.flow = "job"
    BY DEF PageInv, Follows, At, Agreed
  <1>4. Follows(n, t, field)
    BY <1>2, <1>3 DEF Follows
  <1>5. task' = [task EXCEPT ![n] = t] /\ task[n].stage # "over"
    BY <1>1 DEF Agreed, At, LastAsked
  <1> HIDE DEF t
  <1>6. QED
    BY <1>2, <1>4, <1>5, HandlerStep DEF Agreed

-----------------------------------------------------------------------------
(* Console: steps that write the tracking fields, and clicks.              *)

\* A handler that is the same but for having been told.
LEMMA MovedHandler ==
  ASSUME NEW r, IsHandler(r), NEW m \in BOOLEAN, NEW t, t = [r EXCEPT !.moved = m]
  PROVE  /\ IsHandler(t) /\ t.control = r.control /\ t.stage = r.stage /\ t.left = r.left
         /\ t.about = r.about /\ t.asked = r.asked /\ t.moved = m
  BY DEF IsHandler

\* Writing the fields tells the handlers that are under way.
LEMMA RetrackedFacts ==
  ASSUME PageInv, NEW id, NEW n \in 1..clicks
  PROVE  LET r == Retracked(id)[n]
         IN  /\ IsHandler(r)
             /\ r.control = task[n].control /\ r.stage = task[n].stage /\ r.left = task[n].left
             /\ r.about = task[n].about /\ r.asked = task[n].asked
             /\ r.moved <=> task[n].moved \/ (task[n].stage # "over" /\ id # field)
  <1> DEFINE m == task[n].moved \/ (task[n].stage # "over" /\ id # field)
             r == Retracked(id)[n]
  <1>1. IsHandler(task[n])
    BY DEF PageInv, PageShape
  <1>2. r = [task[n] EXCEPT !.moved = m]
    BY DEF Retracked
  <1>3. m \in BOOLEAN
    BY <1>1 DEF IsHandler
  <1>4. r.moved <=> task[n].moved \/ (task[n].stage # "over" /\ id # field)
    BY <1>1, <1>2 DEF IsHandler
  <1> HIDE DEF m, r
  <1>5. /\ IsHandler(r)
        /\ r.control = task[n].control /\ r.stage = task[n].stage /\ r.left = task[n].left
        /\ r.about = task[n].about /\ r.asked = task[n].asked
    BY <1>1, <1>2, <1>3 DEF IsHandler
  <1>6. QED
    BY <1>4, <1>5 DEF r

\* The fields are written with `id`.  Handler `w`, if it is one, writes the id of the
\* submission it created.
Tracks(id, w) ==
  /\ field' = id /\ clicks' = clicks /\ busy' = busy /\ shown' = shown
  /\ w \notin 1..clicks \/ (At(w, "act") /\ Creates(w) /\ task[w].left = 2 /\ id = w)
  /\ task' = [n \in 1..clicks |-> task'[n]]
  /\ \A n \in 1..clicks :
       /\ IsHandler(task'[n])
       /\ task'[n].control = task[n].control /\ task'[n].stage = task[n].stage
       /\ task'[n].about = task[n].about /\ task'[n].asked = task[n].asked
       /\ n = w => task'[n].left = 1
       /\ n # w =>
            /\ task'[n].left = task[n].left
            /\ task'[n].moved <=> task[n].moved \/ (task[n].stage # "over" /\ id # field)

LEMMA TrackingStep ==
  ASSUME PageInv, NEW id, NEW w, Tracks(id, w)
  PROVE  PageInv'
  <1> USE DEF Tracks
  <1>1. /\ clicks \in Nat /\ clicks' = clicks
        /\ \A n \in 1..clicks : IsHandler(task[n])
    BY DEF PageInv, PageShape
  <1>2. ASSUME NEW n \in 1..clicks
        PROVE  /\ task'[n].control = task[n].control /\ task'[n].stage = task[n].stage
               /\ task'[n].about = task[n].about /\ task'[n].asked = task[n].asked
               /\ n = w => task'[n].left = 1
               /\ n # w =>
                    /\ task'[n].left = task[n].left
                    /\ task'[n].moved <=> task[n].moved \/ (task[n].stage # "over" /\ id # field)
    OBVIOUS
  <1>3. PageShape'
    BY <1>1, <1>2 DEF PageInv, PageShape
  <1>4. LockInv'
    <2> SUFFICES ASSUME NEW n \in 1..clicks, task'[n].stage # "over", Locked(task'[n].control)
                 PROVE  /\ task'[n].control \in busy
                        /\ \A m \in (n + 1)..clicks : task'[m].control # task'[n].control
      BY <1>1 DEF LockInv
    <2>1. /\ task[n].control \in busy
          /\ \A m \in (n + 1)..clicks : task[m].control # task[n].control
      BY <1>2 DEF PageInv, LockInv
    <2>2. \A m \in (n + 1)..clicks : m \in 1..clicks
      BY <1>1
    <2>3. QED
      BY <1>2, <2>1, <2>2
  <1>5. ShownInv'
    <2> SUFFICES ASSUME NEW p \in Panels, NEW k, k = shown'[p].by, k > 0
                 PROVE  /\ task'[k].control.panel = p
                        /\ shown'[p].about # None =>
                             /\ task'[k].stage = "over"
                             /\ \/ shown'[p].about = task'[k].about
                                \/ task'[k].control.flow = "track" /\ task'[k].moved
      BY DEF ShownInv, Doing
    <2>1. k \in 1..clicks
      <3>1. shown'[p].by = shown[p].by /\ shown[p].by \in 0..clicks
        BY DEF PageInv, PageShape
      <3>2. QED
        BY <1>1, <3>1
    <2>2. /\ task[k].control.panel = p
          /\ shown[p].about # None =>
               /\ task[k].stage = "over"
               /\ \/ shown[p].about = task[k].about
                  \/ task[k].control.flow = "track" /\ task[k].moved
      BY DEF PageInv, ShownInv, Doing
    <2>3. shown[p].about # None => k # w
      BY <2>1, <2>2 DEF At
    <2>4. QED
      BY <1>2, <2>1, <2>2, <2>3
  <1>6. ASSUME NEW n \in 1..clicks
        PROVE  Follows(n, task'[n], field')
    <2>1. Follows(n, task[n], field)
      BY DEF PageInv
    <2>2. CASE n # w
      BY <1>2, <2>1, <2>2 DEF Follows
    <2>3. CASE n = w
      <3>1. /\ task[n].stage = "act" /\ task[n].control = SubmitControl /\ task[n].left = 2 /\ id = n
        BY <2>3 DEF At, Creates
      <3>2. task[n].about = n /\ task[n].control.flow = "track"
        BY <2>1, <3>1 DEF Follows
      <3>3. QED
        BY <1>2, <2>3, <3>1, <3>2 DEF Follows
    <2>4. QED
      BY <2>2, <2>3
  <1>7. QED
    BY <1>1, <1>3, <1>4, <1>5, <1>6 DEF PageInv

\* The user writes the fields.
LEMMA EditStep ==
  ASSUME PageInv, NEW id, EditTracking(id)
  PROVE  PageInv'
  <1>1. task' = [n \in 1..clicks |-> task'[n]]
    BY DEF EditTracking, Retracked
  <1>2. \A n \in 1..clicks : task'[n] = Retracked(id)[n]
    BY DEF EditTracking
  <1>3. clicks + 1 \notin 1..clicks
    BY DEF PageInv, PageShape
  <1>4. clicks' = clicks /\ busy' = busy /\ shown' = shown /\ field' = id
    BY DEF EditTracking
  <1>5. \A n \in 1..clicks :
          /\ IsHandler(task'[n])
          /\ task'[n].control = task[n].control /\ task'[n].stage = task[n].stage
          /\ task'[n].about = task[n].about /\ task'[n].asked = task[n].asked
          /\ task'[n].left = task[n].left
          /\ task'[n].moved <=> task[n].moved \/ (task[n].stage # "over" /\ id # field)
    BY <1>2, RetrackedFacts
  <1>6. Tracks(id, clicks + 1)
    BY <1>1, <1>3, <1>4, <1>5 DEF Tracks
  <1>7. QED
    BY <1>6, TrackingStep

\* The first answer of a new submission: its id is written, and it has not been
\* overwritten since.
LEMMA CreatedStep ==
  ASSUME PageInv, NEW w \in 1..clicks, At(w, "act"), Creates(w), task[w].left = 2, field' = w,
         task' = [Retracked(w) EXCEPT ![w].left = 1, ![w].moved = FALSE],
         UNCHANGED <<clicks, busy, shown>>
  PROVE  PageInv'
  <1> DEFINE r == Retracked(w)[w]
             u == [r EXCEPT !.left = 1]
             t == [u EXCEPT !.moved = FALSE]
  <1>1. DOMAIN Retracked(w) = 1..clicks /\ Retracked(w) = [n \in 1..clicks |-> Retracked(w)[n]]
    BY DEF Retracked
  <1>2. task' = [Retracked(w) EXCEPT ![w] = t]
    BY <1>1
  <1>3. /\ IsHandler(r)
        /\ r.control = task[w].control /\ r.stage = task[w].stage /\ r.about = task[w].about
        /\ r.asked = task[w].asked
    BY RetrackedFacts
  <1> HIDE DEF r
  <1>4. /\ IsHandler(u) /\ u.left = 1
        /\ u.control = r.control /\ u.stage = r.stage /\ u.about = r.about /\ u.asked = r.asked
    BY <1>3 DEF IsHandler
  <1> HIDE DEF u
  <1>5. /\ IsHandler(t) /\ t.left = u.left
        /\ t.control = u.control /\ t.stage = u.stage /\ t.about = u.about /\ t.asked = u.asked
    BY <1>4, MovedHandler
  <1> HIDE DEF t
  <1>6. /\ task' = [n \in 1..clicks |-> task'[n]] /\ task'[w] = t
        /\ \A n \in 1..clicks : n # w => task'[n] = Retracked(w)[n]
    BY <1>1, <1>2
  <1>7. \A n \in 1..clicks :
          /\ IsHandler(task'[n])
          /\ task'[n].control = task[n].control /\ task'[n].stage = task[n].stage
          /\ task'[n].about = task[n].about /\ task'[n].asked = task[n].asked
          /\ n = w => task'[n].left = 1
          /\ n # w =>
               /\ task'[n].left = task[n].left
               /\ task'[n].moved <=> task[n].moved \/ (task[n].stage # "over" /\ w # field)
    <2> SUFFICES ASSUME NEW n \in 1..clicks
                 PROVE  /\ IsHandler(task'[n])
                        /\ task'[n].control = task[n].control /\ task'[n].stage = task[n].stage
                        /\ task'[n].about = task[n].about /\ task'[n].asked = task[n].asked
                        /\ n = w => task'[n].left = 1
                        /\ n # w =>
                             /\ task'[n].left = task[n].left
                             /\ task'[n].moved <=> task[n].moved \/ (task[n].stage # "over" /\ w # field)
      OBVIOUS
    <2>1. CASE n = w
      BY <1>3, <1>4, <1>5, <1>6, <2>1
    <2>2. CASE n # w
      <3> DEFINE q == Retracked(w)[n]
      <3>1. /\ IsHandler(q)
            /\ q.control = task[n].control /\ q.stage = task[n].stage /\ q.left = task[n].left
            /\ q.about = task[n].about /\ q.asked = task[n].asked
            /\ q.moved <=> task[n].moved \/ (task[n].stage # "over" /\ w # field)
        BY RetrackedFacts
      <3>2. task'[n] = q
        BY <1>6, <2>2
      <3> HIDE DEF q
      <3>3. QED
        BY <2>2, <3>1, <3>2
    <2>3. QED
      BY <2>1, <2>2
  <1>8. Tracks(w, w)
    BY <1>6, <1>7 DEF Tracks
  <1>9. QED
    BY <1>8, TrackingStep

\* The handler that a click starts.
Started(c, stage, about, asked) ==
  [control |-> c, stage |-> stage, left |-> c.acts, about |-> about, asked |-> asked, moved |-> FALSE]

\* Every handler is one of the four flows, and a new submission has two requests to make.
LEMMA ControlFlows ==
  /\ \A c \in Controls : c.flow \in Flows
  /\ SubmitControl.acts = 2 /\ SubmitControl.flow = "track"
  <1>1. \A c \in AllControls : c.flow \in Flows
    BY DEF AllControls, Flows, Control, Asks, InspectControl, DecodeControl, ProofControl,
      DocumentControls, ExplainControl, PassportControl, DirectoryControl, TutorControl,
      SubmitControl, TrackControl, ResubmitControl, CancelControl, RemoveControl,
      PrecheckControls, ApplicationControl, ServiceControl, ReopenControl, QuoteControl,
      DoctorControls, PaymentControl, TransactionControls
  <1>2. SubmitControl.acts = 2 /\ SubmitControl.flow = "track"
    BY DEF SubmitControl, Control
  <1>3. QED
    BY <1>1, <1>2, ConsoleAssumption

\* The new handler is put after the others.
LEMMA AppendedHandler ==
  ASSUME PageShape, NEW e
  PROVE  Append(task, e) = [n \in 1..(clicks + 1) |-> IF n = clicks + 1 THEN e ELSE task[n]]
  <1> DEFINE S == {task[n] : n \in 1..clicks}
  <1>1. clicks \in Nat /\ task = [n \in 1..clicks |-> task[n]]
    BY DEF PageShape
  <1>2. task \in [1..clicks -> S]
    BY <1>1
  <1>3. task \in Seq(S) /\ Len(task) = clicks
    BY <1>1, <1>2, LenProperties, SeqDef
  <1>4. QED
    BY <1>1, <1>3

\* A click starts a handler whose control is not disabled, and may hide its panel.
Starts(c, stage, about, asked) ==
  /\ c \in Controls /\ Start(c, stage, about, asked) /\ stage \in Stages
  /\ Follows(clicks + 1, Started(c, stage, about, asked), field)
  /\ clicks' = clicks + 1 /\ field' = field
  /\ \/ shown' = shown
     \/ shown' = [shown EXCEPT ![c.panel] = [by |-> clicks + 1, about |-> None]]

LEMMA HandlerStarts ==
  ASSUME PageInv, NEW c, NEW stage, NEW about, NEW asked, Starts(c, stage, about, asked)
  PROVE  PageInv'
  <1> DEFINE e == Started(c, stage, about, asked)
             w == clicks + 1
  <1>1. /\ clicks \in Nat /\ clicks' = w /\ w \in Nat /\ field' = field /\ w \notin 1..clicks
        /\ 1..w = (1..clicks) \cup {w}
    BY DEF PageInv, PageShape, Starts
  <1>2. IsHandler(e) /\ e.control = c
    BY ControlFlows DEF IsHandler, Started, Starts
  <1>3. /\ task' = [n \in 1..w |-> task'[n]] /\ task'[w] = e
        /\ \A n \in 1..clicks : task'[n] = task[n]
    <2>1. task' = Append(task, e)
      BY DEF Starts, Start, Started
    <2> HIDE DEF e
    <2>2. task' = [n \in 1..w |-> IF n = w THEN e ELSE task[n]]
      BY <2>1, AppendedHandler DEF PageInv
    <2>3. QED
      BY <1>1, <2>2
  <1>4. Follows(w, e, field)
    BY DEF Starts
  <1>5. c \notin busy /\ busy \subseteq busy' /\ (Locked(c) => c \in busy')
    BY DEF Starts, Start, Locked
  <1> HIDE DEF e
  <1>6. PageShape'
    <2>1. \A n \in 1..w : IsHandler(task'[n])
      BY <1>1, <1>2, <1>3 DEF PageInv, PageShape
    <2>2. DOMAIN shown' = Panels /\ \A p \in Panels : shown'[p].by \in 0..w
      <3>1. c.panel \in Panels
        BY DEF Starts, Panels
      <3>2. \A k \in 0..clicks : k \in 0..w
        BY <1>1
      <3>3. w \in 0..w
        BY <1>1
      <3>4. DOMAIN shown = Panels /\ \A p \in Panels : shown[p].by \in 0..clicks
        BY DEF PageInv, PageShape
      <3> HIDE DEF w
      <3>5. CASE shown' = shown
        BY <3>2, <3>4, <3>5
      <3>6. CASE shown' = [shown EXCEPT ![c.panel] = [by |-> w, about |-> None]]
        BY <3>1, <3>2, <3>3, <3>4, <3>6
      <3>7. QED
        BY <3>5, <3>6 DEF Starts, w
    <2>3. QED
      BY <1>1, <1>3, <2>1, <2>2 DEF PageShape
  <1>7. LockInv'
    <2> SUFFICES ASSUME NEW n \in 1..w, task'[n].stage # "over", Locked(task'[n].control)
                 PROVE  /\ task'[n].control \in busy'
                        /\ \A m \in (n + 1)..w : task'[m].control # task'[n].control
      BY <1>1 DEF LockInv
    <2>1. CASE n = w
      <3>1. (n + 1)..w = {}
        BY <1>1, <2>1
      <3>2. QED
        BY <1>2, <1>3, <1>5, <2>1, <3>1
    <2>2. CASE n \in 1..clicks
      <3>1. task'[n] = task[n]
        BY <1>3, <2>2
      <3>2. /\ task[n].control \in busy
            /\ \A m \in (n + 1)..clicks : task[m].control # task[n].control
        BY <2>2, <3>1 DEF PageInv, LockInv
      <3>3. ASSUME NEW m \in (n + 1)..w
            PROVE  task'[m].control # task[n].control
        <4>1. CASE m = w
          BY <1>2, <1>3, <1>5, <3>2, <4>1
        <4>2. CASE m # w
          <5>1. m \in (n + 1)..clicks /\ m \in 1..clicks
            BY <1>1, <2>2, <4>2
          <5>2. QED
            BY <1>3, <3>2, <5>1
        <4>3. QED
          BY <4>1, <4>2
      <3>4. QED
        BY <1>5, <3>1, <3>2, <3>3
    <2>3. QED
      BY <1>1, <2>1, <2>2
  <1>8. ShownInv'
    <2> SUFFICES ASSUME NEW p \in Panels, NEW k, k = shown'[p].by, k > 0
                 PROVE  /\ task'[k].control.panel = p
                        /\ shown'[p].about # None =>
                             /\ task'[k].stage = "over"
                             /\ \/ shown'[p].about = task'[k].about
                                \/ task'[k].control.flow = "track" /\ task'[k].moved
      BY DEF ShownInv, Doing
    <2>1. CASE shown'[p] = shown[p]
      <3>1. k \in 1..clicks
        BY <1>1, <2>1 DEF PageInv, PageShape
      <3>2. /\ task[k].control.panel = p
            /\ shown[p].about # None =>
                 /\ task[k].stage = "over"
                 /\ \/ shown[p].about = task[k].about
                    \/ task[k].control.flow = "track" /\ task[k].moved
        BY <2>1 DEF PageInv, ShownInv, Doing
      <3>3. QED
        BY <1>3, <2>1, <3>1, <3>2
    <2>2. CASE shown'[p] # shown[p]
      <3>1. p = c.panel /\ shown'[p] = [by |-> w, about |-> None]
        BY <2>2 DEF Starts, PageInv, PageShape
      <3>2. QED
        BY <1>2, <1>3, <3>1
    <2>3. QED
      BY <2>1, <2>2
  <1>9. ASSUME NEW n \in 1..w
        PROVE  Follows(n, task'[n], field)
    <2>1. CASE n = w
      BY <1>3, <1>4, <2>1
    <2>2. CASE n \in 1..clicks
      BY <1>3, <2>2 DEF PageInv
    <2>3. QED
      BY <1>1, <2>1, <2>2
  <1>10. (\A n \in 1..clicks : Follows(n, task[n], field))'
    BY <1>1, <1>9 DEF Follows
  <1>11. QED
    BY <1>6, <1>7, <1>8, <1>10 DEF PageInv

\* What a click starts: the flow decides what the handler does first, and about what.
LEMMA ClickStep ==
  ASSUME PageInv, NEW c \in Controls, Click(c)
  PROVE  \E stage, about, asked : Starts(c, stage, about, asked)
  <1>1. /\ clicks' = clicks + 1 /\ field' = field
        /\ \/ shown' = shown
           \/ shown' = [shown EXCEPT ![c.panel] = [by |-> clicks + 1, about |-> None]]
    BY DEF Click
  <1>2. ASSUME NEW stage \in Stages, NEW about, NEW asked, Start(c, stage, about, asked),
               Follows(clicks + 1, Started(c, stage, about, asked), field)
        PROVE  \E a, b, d : Starts(c, a, b, d)
    BY <1>1, <1>2 DEF Starts
  <1>3. CASE c.flow = "ask" /\ Start(c, "last", None, None)
    <2>1. Follows(clicks + 1, Started(c, "last", None, None), field)
      BY <1>3 DEF Follows, Started
    <2>2. QED
      BY <1>2, <1>3, <2>1 DEF Stages
  <1>4. CASE c.flow = "job" /\ Start(c, "agree", chosen, None)
    <2>1. Follows(clicks + 1, Started(c, "agree", chosen, None), field)
      BY <1>4 DEF Follows, Started
    <2>2. QED
      BY <1>2, <1>4, <2>1 DEF Stages
  <1>5. CASE c.flow = "reopen" /\ \E j \in Range(jobs) : Start(c, "last", task[j].about, task[j].about)
    <2>1. PICK v : Start(c, "last", v, v)
      BY <1>5
    <2>2. Follows(clicks + 1, Started(c, "last", v, v), field)
      BY <1>5 DEF Follows, Started
    <2>3. QED
      BY <1>2, <2>1, <2>2 DEF Stages
  <1>6. CASE c = SubmitControl /\ Start(c, "act", clicks + 1, None)
    <2>1. Follows(clicks + 1, Started(c, "act", clicks + 1, None), field)
      BY <1>6, ControlFlows DEF Follows, Started
    <2>2. QED
      BY <1>2, <1>6, <2>1 DEF Stages
  <1>7. CASE c.flow = "track" /\ c # SubmitControl /\ Start(c, "act", field, None)
    <2>1. Follows(clicks + 1, Started(c, "act", field, None), field)
      BY <1>7 DEF Follows, Started
    <2>2. QED
      BY <1>2, <1>7, <2>1 DEF Stages
  <1>8. CASE c.flow = "track" /\ Start(c, "last", field, field)
    <2>1. Follows(clicks + 1, Started(c, "last", field, field), field)
      BY <1>8 DEF Follows, Started
    <2>2. QED
      BY <1>2, <1>8, <2>1 DEF Stages
  <1>9. QED
    BY <1>3, <1>4, <1>5, <1>6, <1>7, <1>8 DEF Click

-----------------------------------------------------------------------------
(* Console: the steps together, and the theorems.                          *)

\* An answer to handler n, or the end of it.
LEMMA AnswerStep ==
  ASSUME PageInv, NEW n \in 1..clicks,
         Acted(n) \/ ActFails(n) \/ Agreed(n) \/ Show(n) \/ ApprovalAsked(n) \/ Fails(n)
  PROVE  PageInv'
  <1>1. IsHandler(task[n]) /\ Follows(n, task[n], field)
    BY DEF PageInv, PageShape
  <1>2. CASE Acted(n)
    <2>1. CASE Creates(n) /\ task[n].left = 2
      BY <1>2, <2>1, CreatedStep DEF Acted
    <2>2. CASE ~(Creates(n) /\ task[n].left = 2) /\ task[n].left = 1
      BY <1>2, <2>2, RefreshStep DEF Acted
    <2>3. CASE ~(Creates(n) /\ task[n].left = 2) /\ task[n].left # 1
      <3>1. ~Creates(n)
        BY <1>1, <1>2, <2>3 DEF Follows, Creates, Acted, At
      <3>2. QED
        BY <1>2, <2>3, <3>1, HandlerAsks DEF Acted
    <2>4. QED
      BY <2>1, <2>2, <2>3
  <1>3. CASE ActFails(n)
    <2>1. CASE Creates(n) /\ task[n].left = 1
      BY <1>3, <2>1, RefreshStep DEF ActFails
    <2>2. CASE ~(Creates(n) /\ task[n].left = 1)
      <3>1. task[n].stage # "over"
        BY <1>3 DEF ActFails, At
      <3>2. QED
        BY <1>3, <2>2, <3>1, EndsStep DEF ActFails
    <2>3. QED
      BY <2>1, <2>2
  <1>4. CASE Agreed(n)
    BY <1>4, AgreedStep
  <1>5. CASE Show(n) \/ ApprovalAsked(n)
    <2>1. /\ task[n].stage = "last" /\ Accepted(n) /\ Ends(n) /\ UNCHANGED <<clicks, field>>
          /\ shown' = [shown EXCEPT ![task[n].control.panel] = [by |-> n, about |-> task[n].asked]]
      BY <1>5 DEF Show, ApprovalAsked, At
    <2>2. QED
      BY <2>1, EndsStep
  <1>6. CASE Fails(n)
    <2>1. task[n].stage # "over" /\ Ends(n) /\ UNCHANGED <<clicks, field, shown>>
      BY <1>6 DEF Fails, At
    <2>2. QED
      BY <2>1, EndsStep
  <1>7. QED
    BY <1>2, <1>3, <1>4, <1>5, <1>6

\* The invariant is inductive.
LEMMA PageStepInvariant == PageInv /\ [PageNext]_pageVars => PageInv'
  <1> SUFFICES ASSUME PageInv, [PageNext]_pageVars PROVE PageInv'
    OBVIOUS
  <1>1. ASSUME NEW id \in Known, EditTracking(id) PROVE PageInv'
    BY <1>1, EditStep
  <1>2. ASSUME NEW s \in Services, SelectService(s) PROVE PageInv'
    BY <1>2 DEF SelectService, PageInv, PageShape, LockInv, ShownInv, Follows, Doing
  <1>3. ASSUME NEW c \in Controls, Click(c) PROVE PageInv'
    BY <1>3, ClickStep, HandlerStarts
  <1>4. ASSUME NEW n \in 1..clicks,
               Acted(n) \/ ActFails(n) \/ Agreed(n) \/ Show(n) \/ ApprovalAsked(n) \/ Fails(n)
        PROVE  PageInv'
    BY <1>4, AnswerStep
  <1>5. CASE UNCHANGED pageVars
    BY <1>5 DEF pageVars, PageInv, PageShape, LockInv, ShownInv, Follows, Doing
  <1>6. QED
    BY <1>1, <1>2, <1>3, <1>4, <1>5 DEF PageNext

\* Every reachable state of the page satisfies the invariant.
THEOREM PageInvariant == PageSpec => []PageInv
  BY PageInitInvariant, PageStepInvariant, PTL DEF PageSpec

\* Whatever is clicked and whenever the answers arrive, a panel shows what its handler
\* was started for, unless the tracking fields were written meanwhile.
THEOREM AnswersFit == PageSpec => []AnswersFitTheirRequest
  <1>1. PageInv => AnswersFitTheirRequest
    BY DEF PageInv, ShownInv, AnswersFitTheirRequest
  <1>2. QED
    BY <1>1, PageInvariant, PTL

\* A panel that one control writes, and that control disabled meanwhile, never goes
\* back to an older answer: the handler that answers is the last its control started.
THEOREM OlderAnswers == PageSpec => OlderOnlyWhereShared
  <1>1. ASSUME PageInv, [PageNext]_pageVars, NEW p \in Panels, shown'[p].by < shown[p].by, Alone(p)
        PROVE  FALSE
    <2>1. /\ clicks \in Nat /\ DOMAIN shown = Panels
          /\ shown[p].by \in 0..clicks /\ shown[p].by # 0
          /\ \A n \in 1..clicks : IsHandler(task[n])
      <3>1. /\ clicks \in Nat /\ DOMAIN shown = Panels
            /\ \A q \in Panels : shown[q].by \in 0..clicks
            /\ \A n \in 1..clicks : IsHandler(task[n])
        BY <1>1 DEF PageInv, PageShape
      <3>2. \A q \in Panels : shown'[q].by \in 0..clicks'
        BY <1>1, PageStepInvariant DEF PageInv, PageShape
      <3>3. QED
        BY <1>1, <3>1, <3>2
    <2>2. PICK n \in 1..clicks : Show(n) \/ ApprovalAsked(n)
      <3>1. shown' # shown
        BY <1>1, <2>1
      <3>2. ASSUME NEW c \in Controls, Click(c) PROVE FALSE
        <4>1. shown' = [shown EXCEPT ![c.panel] = [by |-> clicks + 1, about |-> None]]
          BY <3>1, <3>2 DEF Click
        <4>2. shown'[p].by = shown[p].by \/ shown'[p].by = clicks + 1
          BY <2>1, <4>1
        <4>3. QED
          BY <1>1, <2>1, <4>2
      <3>3. QED
        BY <1>1, <3>1, <3>2 DEF PageNext, pageVars, EditTracking, SelectService, Acted,
          ActFails, Agreed, Fails
    <2>3. /\ task[n].stage = "last"
          /\ shown' = [shown EXCEPT ![task[n].control.panel] = [by |-> n, about |-> task[n].asked]]
      BY <2>2 DEF Show, ApprovalAsked, At
    <2>4. p = task[n].control.panel /\ n < shown[p].by
      BY <1>1, <2>1, <2>3
    <2>5. LET m == shown[p].by
          IN  m \in (n + 1)..clicks /\ m \in 1..clicks /\ task[m].control.panel = p
      BY <1>1, <2>1, <2>4 DEF PageInv, ShownInv
    <2>6. task[n].control \in Controls /\ task[shown[p].by].control \in Controls
      BY <2>1, <2>5 DEF IsHandler
    <2>7. task[n].control = task[shown[p].by].control /\ Locked(task[n].control)
      BY <1>1, <2>4, <2>5, <2>6 DEF Alone
    <2>8. QED
      BY <1>1, <2>3, <2>5, <2>7 DEF PageInv, LockInv
  <1>2. PageInv /\ [PageNext]_pageVars
          => [\A p \in Panels : shown'[p].by < shown[p].by => ~Alone(p)]_pageVars
    BY <1>1
  <1>3. QED
    BY <1>2, PageInvariant, PTL DEF PageSpec, OlderOnlyWhereShared

-----------------------------------------------------------------------------
(* Console: types.                                                         *)

\* What PageInv leaves open of a handler's types, and that one that makes requests has
\* one to make.
TypedHandler(t) ==
  /\ t.left \in 0..2 /\ t.about \in Subjects /\ t.asked \in Subjects
  /\ t.stage = "act" => t.left \in {1, 2}

TypesInv ==
  /\ clicks <= MaxClicks /\ \A n \in 1..clicks : TypedHandler(task[n])
  /\ busy \subseteq Controls
  /\ \A p \in Panels :
       /\ shown[p] = [by |-> shown[p].by, about |-> shown[p].about]
       /\ shown[p].about \in Subjects
  /\ field \in Submissions /\ chosen \in Services
  /\ jobs \in Seq(1..clicks) /\ Len(jobs) <= RememberedJobs

\* A sequence over a set is one over a larger set.
LEMMA SequenceOverMore ==
  ASSUME NEW A, NEW B, A \subseteq B, NEW s \in Seq(A)
  PROVE  s \in Seq(B)
  <1>1. s \in [1..Len(s) -> A] /\ Len(s) \in Nat
    BY LenProperties
  <1>2. s \in [1..Len(s) -> B]
    BY <1>1
  <1>3. QED
    BY <1>1, <1>2, SeqDef

\* A finished job is put in front of at most RememberedJobs of them.
LEMMA Remembered ==
  ASSUME clicks \in Nat, jobs \in Seq(1..clicks), NEW n \in 1..clicks
  PROVE  Remember(n) \in Seq(1..clicks) /\ Len(Remember(n)) <= RememberedJobs
  <1> DEFINE others == IF n \in Range(jobs)
                       THEN RemoveAt(jobs, CHOOSE i \in DOMAIN jobs : jobs[i] = n) ELSE jobs
             size == IF Len(others) < RememberedJobs THEN Len(others) + 1 ELSE RememberedJobs
  <1>1. others \in Seq(1..clicks)
    <2>1. CASE n \in Range(jobs)
      <3> DEFINE i == CHOOSE i \in DOMAIN jobs : jobs[i] = n
      <3>1. i \in 1..Len(jobs)
        BY <2>1 DEF Range
      <3> HIDE DEF i
      <3>2. /\ SubSeq(jobs, 1, i - 1) \in Seq(1..clicks)
            /\ SubSeq(jobs, i + 1, Len(jobs)) \in Seq(1..clicks)
        BY <3>1
      <3>3. QED
        BY <2>1, <3>2 DEF RemoveAt, i
    <2>2. QED
      BY <2>1
  <1> HIDE DEF others
  <1>2. size \in Nat /\ size <= RememberedJobs /\ size <= Len(others) + 1 /\ 1 <= size
    BY <1>1, ConsoleAssumption
  <1> HIDE DEF size
  <1>3. <<n>> \o others \in Seq(1..clicks) /\ Len(<<n>> \o others) = Len(others) + 1
    BY <1>1
  <1>4. SubSeq(<<n>> \o others, 1, size) \in Seq(1..clicks) /\ Len(SubSeq(<<n>> \o others, 1, size)) = size
    BY <1>1, <1>2, <1>3
  <1>5. QED
    BY <1>2, <1>4 DEF Remember, others, size

\* How many requests the handlers that make some have to make.
LEMMA RequestsToMake ==
  \A c \in Controls :
    /\ c.acts \in 0..2
    /\ c.flow = "track" /\ c # TrackControl => c.acts \in {1, 2}
  <1>1. \A c \in AllControls :
          /\ c.acts \in 0..2
          /\ c.flow = "track" /\ c # TrackControl => c.acts \in {1, 2}
    BY DEF AllControls, Control, Asks, InspectControl, DecodeControl, ProofControl,
      DocumentControls, ExplainControl, PassportControl, DirectoryControl, TutorControl,
      SubmitControl, TrackControl, ResubmitControl, CancelControl, RemoveControl,
      PrecheckControls, ApplicationControl, ServiceControl, ReopenControl, QuoteControl,
      DoctorControls, PaymentControl, TransactionControls
  <1>2. QED
    BY <1>1, ConsoleAssumption

\* A step of handler n that leaves it typed.
LEMMA TypedStep ==
  ASSUME PageInv, TypesInv, NEW n \in 1..clicks, NEW t, TypedHandler(t),
         task' = [task EXCEPT ![n] = t], UNCHANGED <<clicks, chosen>>,
         busy' \subseteq Controls, field' \in Submissions,
         \/ shown' = shown
         \/ shown' = [shown EXCEPT ![task[n].control.panel] = [by |-> n, about |-> task[n].asked]],
         jobs' = jobs \/ jobs' = Remember(n)
  PROVE  TypesInv'
  <1>1. clicks \in Nat /\ task = [m \in 1..clicks |-> task[m]] /\ DOMAIN shown = Panels
    BY DEF PageInv, PageShape
  <1>2. clicks' <= MaxClicks /\ busy' \subseteq Controls /\ field' \in Submissions /\ chosen' \in Services
    BY DEF TypesInv
  <1>3. \A m \in 1..clicks : TypedHandler(task'[m])
    <2>1. \A m \in 1..clicks : task'[m] = IF m = n THEN t ELSE task[m]
      BY <1>1
    <2>2. \A m \in 1..clicks : TypedHandler(task[m])
      BY DEF TypesInv
    <2>3. QED
      BY <2>1, <2>2
  <1>4. \A p \in Panels :
          /\ shown'[p] = [by |-> shown'[p].by, about |-> shown'[p].about]
          /\ shown'[p].about \in Subjects
    <2>1. task[n].asked \in Subjects
      BY DEF TypesInv, TypedHandler
    <2>2. \A p \in Panels :
            /\ shown[p] = [by |-> shown[p].by, about |-> shown[p].about]
            /\ shown[p].about \in Subjects
      BY DEF TypesInv
    <2> DEFINE v == [by |-> n, about |-> task[n].asked]
    <2>3. v = [by |-> v.by, about |-> v.about] /\ v.about \in Subjects
      BY <2>1
    <2> HIDE DEF v
    <2>4. \A p \in Panels : shown'[p] = shown[p] \/ shown'[p] = v
      BY <1>1 DEF v
    <2>5. QED
      BY <2>2, <2>3, <2>4
  <1>5. jobs' \in Seq(1..clicks) /\ Len(jobs') <= RememberedJobs
    BY <1>1, Remembered DEF TypesInv
  <1>6. QED
    BY <1>2, <1>3, <1>4, <1>5 DEF TypesInv, TypedHandler

\* A handler that ends.
LEMMA TypedEnd ==
  ASSUME PageInv, TypesInv, NEW n \in 1..clicks, Ends(n), UNCHANGED <<clicks, field, chosen>>,
         \/ shown' = shown
         \/ shown' = [shown EXCEPT ![task[n].control.panel] = [by |-> n, about |-> task[n].asked]],
         jobs' = jobs \/ jobs' = Remember(n)
  PROVE  TypesInv'
  <1> DEFINE t == [task[n] EXCEPT !.stage = "over"]
  <1>1. IsHandler(task[n]) /\ TypedHandler(task[n]) /\ task = [m \in 1..clicks |-> task[m]]
    BY DEF PageInv, PageShape, TypesInv
  <1>2. TypedHandler(t)
    <2>1. t.left = task[n].left /\ t.about = task[n].about /\ t.asked = task[n].asked /\ t.stage = "over"
      BY <1>1 DEF IsHandler
    <2> HIDE DEF t
    <2>2. QED
      BY <1>1, <2>1 DEF TypedHandler
  <1>3. task' = [task EXCEPT ![n] = t] /\ busy' \subseteq Controls
    BY <1>1 DEF Ends, Released, TypesInv
  <1>4. field' \in Submissions
    BY DEF TypesInv
  <1> HIDE DEF t
  <1>5. QED
    BY <1>2, <1>3, <1>4, TypedStep

\* A handler that goes on to its last answer, or to its next request.
LEMMA TypedNextAnswer ==
  ASSUME PageInv, TypesInv, NEW n \in 1..clicks,
         \/ Refresh(n)
         \/ At(n, "act") /\ task[n].left # 1 /\ task' = [task EXCEPT ![n].left = @ - 1]
         \/ task' = [task EXCEPT ![n].stage = "last", ![n].asked = chosen],
         UNCHANGED <<clicks, busy, shown, field, chosen, jobs>>
  PROVE  TypesInv'
  <1>1. IsHandler(task[n]) /\ TypedHandler(task[n]) /\ task = [m \in 1..clicks |-> task[m]]
    BY DEF PageInv, PageShape, TypesInv
  <1>2. busy' \subseteq Controls /\ field' \in Submissions /\ field \in Subjects /\ chosen \in Subjects
    BY DEF TypesInv, Subjects
  <1>3. CASE Refresh(n)
    <2> DEFINE u == [task[n] EXCEPT !.left = 0]
               t == LastAsked(u, field)
    <2>1. IsHandler(u) /\ u.left = 0 /\ u.about = task[n].about
      BY <1>1 DEF IsHandler
    <2>2. task' = [task EXCEPT ![n] = t]
      BY <1>1, <1>3 DEF Refresh, LastAsked, IsHandler
    <2> HIDE DEF u
    <2>3. t.left = 0 /\ t.about = task[n].about /\ t.asked = field /\ t.stage = "last"
      BY <2>1, LastStage
    <2> HIDE DEF t
    <2>4. TypedHandler(t)
      BY <1>1, <1>2, <2>3 DEF TypedHandler
    <2>5. QED
      BY <1>2, <2>2, <2>4, TypedStep
  <1>4. CASE At(n, "act") /\ task[n].left # 1 /\ task' = [task EXCEPT ![n].left = @ - 1]
    <2> DEFINE t == [task[n] EXCEPT !.left = @ - 1]
    <2>1. t.left = task[n].left - 1 /\ t.about = task[n].about /\ t.asked = task[n].asked
          /\ t.stage = task[n].stage
      BY <1>1 DEF IsHandler
    <2>2. task' = [task EXCEPT ![n] = t]
      BY <1>1, <1>4
    <2> HIDE DEF t
    <2>3. TypedHandler(t)
      BY <1>1, <1>4, <2>1 DEF TypedHandler, At
    <2>4. QED
      BY <1>2, <2>2, <2>3, TypedStep
  <1>5. CASE task' = [task EXCEPT ![n].stage = "last", ![n].asked = chosen]
    <2> DEFINE t == LastAsked(task[n], chosen)
    <2>1. t.left = task[n].left /\ t.about = task[n].about /\ t.asked = chosen /\ t.stage = "last"
      BY <1>1, LastStage
    <2>2. task' = [task EXCEPT ![n] = t]
      BY <1>1, <1>5 DEF LastAsked
    <2> HIDE DEF t
    <2>3. TypedHandler(t)
      BY <1>1, <1>2, <2>1 DEF TypedHandler
    <2>4. QED
      BY <1>2, <2>2, <2>3, TypedStep
  <1>6. QED
    BY <1>3, <1>4, <1>5

\* A handler that a click starts.
LEMMA TypedStart ==
  ASSUME PageInv, TypesInv, NEW c \in Controls, NEW stage, NEW about \in Subjects, NEW asked \in Subjects,
         Start(c, stage, about, asked), stage = "act" => c.acts \in {1, 2},
         clicks < MaxClicks, clicks' = clicks + 1, UNCHANGED <<field, chosen, jobs>>,
         \/ shown' = shown
         \/ shown' = [shown EXCEPT ![c.panel] = [by |-> clicks + 1, about |-> None]]
  PROVE  TypesInv'
  <1> DEFINE e == Started(c, stage, about, asked)
             w == clicks + 1
  <1>1. clicks \in Nat /\ clicks < w /\ 1..w = (1..clicks) \cup {w} /\ DOMAIN shown = Panels
    BY DEF PageInv, PageShape
  <1>2. TypedHandler(e)
    BY RequestsToMake DEF TypedHandler, Started
  <1>3. task' = [n \in 1..w |-> IF n = w THEN e ELSE task[n]]
    <2>1. task' = Append(task, e)
      BY DEF Start, Started
    <2> HIDE DEF e
    <2>2. QED
      BY <2>1, AppendedHandler DEF PageInv
  <1>4. clicks' <= MaxClicks
    BY <1>1, ConsoleAssumption
  <1> HIDE DEF e
  <1>5. \A n \in 1..w : TypedHandler(task'[n])
    <2>1. \A n \in 1..clicks : TypedHandler(task[n])
      BY DEF TypesInv
    <2>2. QED
      BY <1>1, <1>2, <1>3, <2>1
  <1>6. busy' \subseteq Controls
    BY DEF Start, TypesInv
  <1>7. \A p \in Panels :
          /\ shown'[p] = [by |-> shown'[p].by, about |-> shown'[p].about]
          /\ shown'[p].about \in Subjects
    BY <1>1 DEF TypesInv, Subjects
  <1>8. jobs' \in Seq(1..w)
    <2>1. jobs' = jobs /\ jobs \in Seq(1..clicks) /\ 1..clicks \subseteq 1..w
      BY <1>1 DEF TypesInv
    <2>2. QED
      BY <2>1, SequenceOverMore
  <1>9. QED
    BY <1>4, <1>5, <1>6, <1>7, <1>8 DEF TypesInv, TypedHandler

\* Writing the tracking fields keeps the types.
LEMMA TypedTracking ==
  ASSUME PageInv, TypesInv, NEW id \in Submissions, field' = id,
         UNCHANGED <<clicks, busy, shown, chosen, jobs>>,
         \/ task' = Retracked(id)
         \/ \E w \in 1..clicks : task' = [Retracked(id) EXCEPT ![w].left = 1, ![w].moved = FALSE]
  PROVE  TypesInv'
  <1>1. ASSUME NEW n \in 1..clicks
        PROVE  TypedHandler(task'[n])
    <2> DEFINE r == Retracked(id)[n]
    <2>1. TypedHandler(task[n])
      BY DEF TypesInv
    <2>2. /\ IsHandler(r) /\ r.left = task[n].left /\ r.about = task[n].about /\ r.asked = task[n].asked
          /\ r.stage = task[n].stage
      BY RetrackedFacts
    <2>3. DOMAIN Retracked(id) = 1..clicks
      BY DEF Retracked
    <2>4. CASE task'[n] = r
      <3> HIDE DEF r
      <3>1. QED
        BY <2>1, <2>2, <2>4 DEF TypedHandler
    <2>5. CASE task'[n] # r
      <3>1. task'[n] = [[r EXCEPT !.left = 1] EXCEPT !.moved = FALSE]
        BY <2>3, <2>5
      <3> DEFINE u == [r EXCEPT !.left = 1]
                 t == [u EXCEPT !.moved = FALSE]
      <3> HIDE DEF r
      <3>2. IsHandler(u) /\ u.left = 1 /\ u.about = r.about /\ u.asked = r.asked
        BY <2>2 DEF IsHandler
      <3>3. task'[n] = t
        BY <3>1
      <3> HIDE DEF u
      <3>4. t.left = u.left /\ t.about = u.about /\ t.asked = u.asked
        BY <3>2, MovedHandler
      <3> HIDE DEF t
      <3>5. QED
        BY <2>1, <2>2, <3>2, <3>3, <3>4 DEF TypedHandler
    <2>6. QED
      BY <2>4, <2>5
  <1>2. QED
    BY <1>1 DEF TypesInv, TypedHandler

\* The types are inductive with the invariant.
LEMMA TypesStep == PageInv /\ TypesInv /\ [PageNext]_pageVars => TypesInv'
  <1> SUFFICES ASSUME PageInv, TypesInv, [PageNext]_pageVars PROVE TypesInv'
    OBVIOUS
  <1>1. ASSUME NEW id \in Known, EditTracking(id) PROVE TypesInv'
    <2>1. clicks \in Nat /\ clicks <= MaxClicks /\ MaxClicks \in Nat
      BY ConsoleAssumption DEF PageInv, PageShape, TypesInv
    <2>2. id \in Submissions
      BY <2>1 DEF Known, Submissions
    <2>3. QED
      BY <1>1, <2>2, TypedTracking DEF EditTracking
  <1>2. ASSUME NEW s \in Services, SelectService(s) PROVE TypesInv'
    BY <1>2 DEF SelectService, TypesInv, TypedHandler
  <1>3. ASSUME NEW c \in Controls, Click(c) PROVE TypesInv'
    <2>1. /\ clicks \in Nat /\ clicks < MaxClicks /\ MaxClicks \in Nat
          /\ clicks + 1 \in Subjects /\ field \in Subjects /\ chosen \in Subjects /\ None \in Subjects
      BY <1>3, ConsoleAssumption DEF Click, PageInv, PageShape, TypesInv, Subjects, Submissions
    <2>2. UNCHANGED <<field, chosen, jobs>> /\ clicks' = clicks + 1
      BY <1>3 DEF Click
    <2>3. \/ shown' = shown
          \/ shown' = [shown EXCEPT ![c.panel] = [by |-> clicks + 1, about |-> None]]
      BY <1>3 DEF Click
    <2>4. ASSUME NEW stage, NEW about \in Subjects, NEW asked \in Subjects,
                 Start(c, stage, about, asked), stage = "act" => c.acts \in {1, 2}
          PROVE  TypesInv'
      BY <2>1, <2>2, <2>3, <2>4, TypedStart
    <2>5. ASSUME NEW j \in Range(jobs) PROVE task[j].about \in Subjects
      <3>1. jobs \in Seq(1..clicks)
        BY DEF TypesInv
      <3>2. j \in 1..clicks
        <4>1. PICK i \in DOMAIN jobs : j = jobs[i]
          BY DEF Range
        <4>2. jobs \in [1..Len(jobs) -> 1..clicks]
          BY <3>1, LenProperties
        <4>3. QED
          BY <4>1, <4>2
      <3>3. QED
        BY <3>2 DEF TypesInv, TypedHandler
    <2>6. c.flow = "track" /\ c # TrackControl => c.acts \in {1, 2}
      BY RequestsToMake
    <2>7. TrackControl # SubmitControl /\ SubmitControl.flow = "track"
      BY DEF TrackControl, SubmitControl, Control
    <2>8. \/ Start(c, "last", None, None)
          \/ Start(c, "agree", chosen, None)
          \/ \E j \in Range(jobs) : Start(c, "last", task[j].about, task[j].about)
          \/ c.flow = "track" /\ c # TrackControl /\ Start(c, "act", clicks + 1, None)
          \/ c.flow = "track" /\ c # TrackControl /\ Start(c, "act", field, None)
          \/ Start(c, "last", field, field)
      BY <1>3, <2>7 DEF Click
    <2>9. QED
      BY <2>1, <2>4, <2>5, <2>6, <2>8
  <1>4. ASSUME NEW n \in 1..clicks, Acted(n) PROVE TypesInv'
    <2>1. CASE Creates(n) /\ task[n].left = 2
      <3>1. n \in Submissions
        BY ConsoleAssumption DEF PageInv, PageShape, TypesInv, Submissions
      <3>2. QED
        BY <1>4, <2>1, <3>1, TypedTracking DEF Acted
    <2>2. CASE ~(Creates(n) /\ task[n].left = 2)
      <3>1. /\ \/ Refresh(n)
               \/ At(n, "act") /\ task[n].left # 1 /\ task' = [task EXCEPT ![n].left = @ - 1]
            /\ UNCHANGED <<clicks, busy, shown, field, chosen, jobs>>
        BY <1>4, <2>2 DEF Acted
      <3>2. QED
        BY <3>1, TypedNextAnswer
    <2>3. QED
      BY <2>1, <2>2
  <1>5. ASSUME NEW n \in 1..clicks, ActFails(n) PROVE TypesInv'
    <2>1. CASE Refresh(n) /\ UNCHANGED busy
      BY <1>5, <2>1, TypedNextAnswer DEF ActFails
    <2>2. CASE Ends(n)
      BY <1>5, <2>2, TypedEnd DEF ActFails
    <2>3. QED
      BY <1>5, <2>1, <2>2 DEF ActFails
  <1>6. ASSUME NEW n \in 1..clicks, Agreed(n) PROVE TypesInv'
    BY <1>6, TypedNextAnswer DEF Agreed
  <1>7. ASSUME NEW n \in 1..clicks, Show(n) \/ ApprovalAsked(n) \/ Fails(n) PROVE TypesInv'
    <2>1. /\ Ends(n) /\ UNCHANGED <<clicks, field, chosen>>
          /\ \/ shown' = shown
             \/ shown' = [shown EXCEPT ![task[n].control.panel] = [by |-> n, about |-> task[n].asked]]
          /\ jobs' = jobs \/ jobs' = Remember(n)
      BY <1>7 DEF Show, ApprovalAsked, Fails
    <2>2. QED
      BY <2>1, TypedEnd
  <1>8. CASE UNCHANGED pageVars
    BY <1>8 DEF pageVars, TypesInv, TypedHandler
  <1>9. QED
    BY <1>1, <1>2, <1>3, <1>4, <1>5, <1>6, <1>7, <1>8 DEF PageNext

\* The variables of the page have their types, for any number of clicks.
THEOREM ConsoleTypeCorrect == PageSpec => []ConsoleTypeOK
  <1>1. PageInit => TypesInv
    <2> SUFFICES ASSUME PageInit PROVE TypesInv
      OBVIOUS
    <2>1. 1..clicks = {} /\ jobs \in Seq(1..clicks) /\ Len(jobs) = 0 /\ clicks = 0
      BY DEF PageInit
    <2>2. QED
      BY <2>1, ConsoleAssumption DEF PageInit, TypesInv, Submissions, Subjects
  <1>2. PageInv /\ TypesInv => ConsoleTypeOK
    <2> SUFFICES ASSUME PageInv, TypesInv PROVE ConsoleTypeOK
      OBVIOUS
    <2>1. clicks \in Nat /\ clicks \in 0..MaxClicks
      BY ConsoleAssumption DEF PageInv, PageShape, TypesInv
    <2>2. ASSUME NEW n \in 1..clicks
          PROVE  task[n] \in [control : Controls, stage : Stages, left : 0..2, about : Subjects,
                              asked : Subjects, moved : BOOLEAN]
      BY DEF PageInv, PageShape, IsHandler, TypesInv, TypedHandler
    <2>3. ASSUME NEW p \in Panels
          PROVE  shown[p] \in [by : 0..MaxClicks, about : Subjects]
      <3>1. /\ shown[p] = [by |-> shown[p].by, about |-> shown[p].about]
            /\ shown[p].about \in Subjects /\ shown[p].by \in 0..clicks
        BY DEF PageInv, PageShape, TypesInv
      <3>2. shown[p].by \in 0..MaxClicks
        <4>1. shown[p].by \in 0..clicks
          BY <3>1
        <4>2. QED
          BY <2>1, <4>1, ConsoleAssumption
      <3>3. QED
        BY <3>1, <3>2
    <2>4. jobs \in Seq(Numbers)
      <3>1. jobs \in Seq(1..clicks) /\ 1..clicks \subseteq Numbers
        BY <2>1, ConsoleAssumption DEF TypesInv, Numbers
      <3>2. QED
        BY <3>1, SequenceOverMore
    <2>5. QED
      BY <2>1, <2>2, <2>3, <2>4 DEF ConsoleTypeOK, TypesInv
  <1>3. QED
    BY <1>1, <1>2, TypesStep, PageInvariant, PTL DEF PageSpec
=============================================================================
