---------------------------- MODULE IntakeProofs ----------------------------
(***************************************************************************)
(* Proofs about Intake, for any number of deliveries, any lease that       *)
(* outlives the budget and any number of retries.                          *)
(*                                                                         *)
(* The first part is about the automaton that reads an order's audit       *)
(* history, for histories of any length.  The induction over the history   *)
(* is done on sets of natural numbers, whose least elements exist: a       *)
(* property of all prefixes holds because there is no shortest prefix      *)
(* without it.                                                             *)
(*                                                                         *)
(* The argument about the deliveries: every event has a stamp of its own,  *)
(* so that the history a claim reads is a permutation of the committed     *)
(* one; IInv counts in it one retry that nobody has resumed exactly while  *)
(* the order is in progress and unowned, so that a claim never resumes     *)
(* what another request owns.                                              *)
(***************************************************************************)
EXTENDS Intake, FiniteSetTheorems, TLAPS

(***************************************************************************)
(* Least and greatest elements.                                            *)
(***************************************************************************)
\* A set of natural numbers that is not empty has a least element.
LEMMA LeastElement ==
  ASSUME NEW S \in SUBSET Nat, S # {}
  PROVE  \E n \in S : \A m \in S : n <= m
<1>1. PICK n \in S : \A m \in S : ~(<<m, n>> \in OpToRel(<, Nat))
  BY NatLessThanWellFounded, WFMin
<1>2. \A m \in S : ~(m < n)
  BY <1>1 DEF OpToRel
<1>. QED
  BY <1>2

\* A property of numbers up to N that holds for 0 and goes from each to the next
\* holds for all of them: S is the set of the numbers that have it.
LEMMA Induction ==
  ASSUME NEW N \in Nat, NEW S, 0 \in S,
         \A n \in 0..N : n < N /\ n \in S => n + 1 \in S
  PROVE  \A n \in 0..N : n \in S
<1>. DEFINE T == {n \in 0..N : n \notin S}
<1> SUFFICES ASSUME T # {} PROVE FALSE
  OBVIOUS
<1>0. T \in SUBSET Nat
  OBVIOUS
<1>1. PICK n \in T : \A m \in T : n <= m
  <2>. HIDE DEF T
  <2>. QED
    BY <1>0, LeastElement
<1>2. n # 0 /\ n - 1 \in 0..N /\ n - 1 < N /\ n - 1 \notin T
  BY <1>1
<1>. QED
  BY <1>1, <1>2

\* A set of positive numbers with an upper bound has a greatest element.
LEMMA GreatestElement ==
  ASSUME NEW N \in Nat, NEW S \in SUBSET (1..N), S # {}
  PROVE  Max(S) \in S /\ \A n \in S : Max(S) >= n
<1>. DEFINE T == {k \in Nat : N - k \in S}
<1>1. PICK n : n \in S
  OBVIOUS
<1>2. N - n \in T
  BY <1>1
<1>3. PICK k \in T : \A m \in T : k <= m
  BY <1>2, LeastElement
<1>4. N - k \in S /\ \A m \in S : N - k >= m
  BY <1>3
<1>. QED
  BY <1>4 DEF Max

(***************************************************************************)
(* The recursion over the prefixes of a history.                           *)
(***************************************************************************)
\* What it means to be the function that Readings defines, up to a prefix.
IsReading(f, events, N) ==
  f = [n \in 0..N |-> IF n = 0 THEN HistoryStart ELSE Read(f[n - 1], events[n])]

\* There is such a function: the recursive definition of Readings is sound.
LEMMA ReadingExists ==
  ASSUME NEW events, NEW N \in Nat
  PROVE  \E f : IsReading(f, events, N)
<1>. DEFINE S == {n \in 0..N : \E f : IsReading(f, events, n)}
<1>1. 0 \in S
  <2>. DEFINE f == [n \in 0..0 |-> HistoryStart]
  <2>1. IsReading(f, events, 0)
    BY DEF IsReading
  <2>. QED
    BY <2>1
<1>2. ASSUME NEW n \in 0..N, n < N, n \in S
      PROVE  n + 1 \in S
  <2>1. PICK f : IsReading(f, events, n)
    BY <1>2
  <2>. DEFINE g == [k \in 0..(n + 1) |->
                      IF k = n + 1 THEN Read(f[n], events[n + 1]) ELSE f[k]]
  <2>2. ASSUME NEW k \in 0..(n + 1)
        PROVE  g[k] = IF k = 0 THEN HistoryStart ELSE Read(g[k - 1], events[k])
    <3>1. CASE k = n + 1
      BY <3>1
    <3>2. CASE k # n + 1
      <4>1. k \in 0..n /\ (k # 0 => k - 1 \in 0..n /\ k - 1 # n + 1)
        BY <3>2
      <4>2. f[k] = IF k = 0 THEN HistoryStart ELSE Read(f[k - 1], events[k])
        BY <2>1, <4>1 DEF IsReading
      <4>. QED
        BY <3>2, <4>1, <4>2
    <3>. QED
      BY <3>1, <3>2
  <2>3. IsReading(g, events, n + 1)
    BY <2>2 DEF IsReading
  <2>. QED
    BY <1>2, <2>3
<1>3. \A n \in 0..N : n \in S
  <2>. HIDE DEF S
  <2>. QED
    BY <1>1, <1>2, Induction
<1>. QED
  BY <1>3

\* The automaton starts at the beginning and reads one event after the other.
LEMMA ReadingsStep ==
  ASSUME NEW events, Len(events) \in Nat
  PROVE  /\ Readings(events)[0] = HistoryStart
         /\ \A n \in 1..Len(events) :
              Readings(events)[n] = Read(Readings(events)[n - 1], events[n])
<1>1. Readings(events) =
        CHOOSE f : f = [n \in 0..Len(events) |->
                          IF n = 0 THEN HistoryStart ELSE Read(f[n - 1], events[n])]
  BY DEF Readings
<1>2. IsReading(Readings(events), events, Len(events))
  BY <1>1, ReadingExists DEF IsReading
<1>. QED
  BY <1>2 DEF IsReading

(***************************************************************************)
(* Retries and the executions that used them.                              *)
(***************************************************************************)
Phases == {"RECEIVED", "PROCESSING", "PROCESSING_FAILED", "PROCESSING_RESTORED",
           "EXTRACTED", "EXTRACTED_FAILED", "EXTRACTED_RESTORED"}

\* The states of the automaton.
Histories ==
  [ valid : BOOLEAN, phase : Phases,
    failed : RetryOrigins \cup {NoOrigin}, requested : RetryOrigins \cup {NoOrigin},
    received : BOOLEAN, started : BOOLEAN, extracted : BOOLEAN,
    restored : [RetryOrigins -> Seq(BOOLEAN)] ]

Restorations == {"ORDER_RETRY_RESTORED"}
Resumptions  == {"ORDER_PROCESSING_RESUMED", "ORDER_EXTRACTION_RESUMED"}

\* How many of the first n events are of these types.
Count(events, n, types) == Cardinality({i \in 1..n : events[i] \in types})

\* How many retries nobody has used.
Outstanding(h) == Cardinality(Unused(h.restored["PROCESSING"])) +
                  Cardinality(Unused(h.restored["EXTRACTED"]))

\* The unused retries of one origin are finitely many.
LEMMA UnusedFinite ==
  ASSUME NEW uses \in Seq(BOOLEAN)
  PROVE  /\ Unused(uses) \in SUBSET (1..Len(uses))
         /\ IsFiniteSet(Unused(uses)) /\ Cardinality(Unused(uses)) \in Nat
<1>1. Unused(uses) \in SUBSET (1..Len(uses)) /\ Len(uses) \in Nat
  BY DEF Unused
<1>2. IsFiniteSet(1..Len(uses))
  BY <1>1, FS_Interval
<1>. QED
  BY <1>1, <1>2, FS_Subset, FS_CardinalityType

\* A new retry is one more unused retry.
LEMMA UnusedAfterRestoration ==
  ASSUME NEW uses \in Seq(BOOLEAN)
  PROVE  /\ Append(uses, FALSE) \in Seq(BOOLEAN)
         /\ Unused(Append(uses, FALSE)) = Unused(uses) \cup {Len(uses) + 1}
         /\ Cardinality(Unused(Append(uses, FALSE))) = Cardinality(Unused(uses)) + 1
<1>1. Unused(Append(uses, FALSE)) = Unused(uses) \cup {Len(uses) + 1}
  BY DEF Unused
<1>2. Len(uses) + 1 \notin Unused(uses) /\ IsFiniteSet(Unused(uses))
  BY UnusedFinite DEF Unused
<1>3. Cardinality(Unused(uses) \cup {Len(uses) + 1}) = Cardinality(Unused(uses)) + 1
  BY <1>2, FS_AddElement
<1>4. Append(uses, FALSE) \in Seq(BOOLEAN)
  OBVIOUS
<1>. QED
  BY <1>1, <1>3, <1>4

\* An execution that resumes uses up the latest of the unused retries.
LEMMA UnusedAfterResumption ==
  ASSUME NEW uses \in Seq(BOOLEAN), Unused(uses) # {}
  PROVE  /\ ConsumeLatest(uses) \in Seq(BOOLEAN)
         /\ Max(Unused(uses)) \in Unused(uses)
         /\ Unused(ConsumeLatest(uses)) = Unused(uses) \ {Max(Unused(uses))}
         /\ Cardinality(Unused(uses)) = Cardinality(Unused(ConsumeLatest(uses))) + 1
<1>. DEFINE last == Max(Unused(uses))
<1>0. Len(uses) \in Nat /\ Unused(uses) \in SUBSET (1..Len(uses))
  BY UnusedFinite
<1>1. last \in Unused(uses)
  BY <1>0, GreatestElement
<1>2. last \in 1..Len(uses)
  BY <1>1 DEF Unused
<1>3. ConsumeLatest(uses) = [uses EXCEPT ![last] = TRUE]
  BY DEF ConsumeLatest
<1>4. ConsumeLatest(uses) \in Seq(BOOLEAN)
  BY <1>2, <1>3
<1>5. Unused(ConsumeLatest(uses)) = Unused(uses) \ {last}
  <2>. HIDE DEF last
  <2>. QED
    BY <1>2, <1>3 DEF Unused
<1>6. IsFiniteSet(Unused(uses)) /\ Cardinality(Unused(uses)) \in Nat
  BY UnusedFinite
<1>7. Cardinality(Unused(uses) \ {last}) = Cardinality(Unused(uses)) - 1
  BY <1>1, <1>6, FS_RemoveElement
<1>. QED
  BY <1>1, <1>4, <1>5, <1>6, <1>7

\* What an event that the automaton accepts does to the unused retries.
LEMMA AdvanceFacts ==
  ASSUME NEW h \in Histories, NEW event, h.valid, Accepts(h, event)
  PROVE  /\ Advance(h, event) \in Histories /\ Advance(h, event).valid
         /\ event \in Restorations =>
              Outstanding(Advance(h, event)) = Outstanding(h) + 1
         /\ event \in Resumptions =>
              Outstanding(h) = Outstanding(Advance(h, event)) + 1
         /\ event \notin Restorations \cup Resumptions =>
              Outstanding(Advance(h, event)) = Outstanding(h)
<1>. DEFINE k == Advance(h, event)
            p == h.restored["PROCESSING"]
            x == h.restored["EXTRACTED"]
<1>1. /\ h.restored \in [RetryOrigins -> Seq(BOOLEAN)]
      /\ p \in Seq(BOOLEAN) /\ x \in Seq(BOOLEAN)
      /\ Cardinality(Unused(p)) \in Nat /\ Cardinality(Unused(x)) \in Nat
  BY UnusedFinite DEF Histories, RetryOrigins
<1>2. CASE event = "ORDER_RETRY_RESTORED"
  <2>1. h.requested \in RetryOrigins
    BY <1>2 DEF Accepts, Histories
  <2>2. k = [h EXCEPT !.restored[h.requested] = Append(@, FALSE),
                      !.phase = RestoredPhase(h.requested),
                      !.failed = NoOrigin, !.requested = NoOrigin]
    BY <1>2 DEF Advance
  <2>3. k.restored = [h.restored EXCEPT ![h.requested] = Append(@, FALSE)]
    BY <2>2 DEF Histories
  <2>4. k \in Histories /\ k.valid
    <3>1. k.restored \in [RetryOrigins -> Seq(BOOLEAN)]
      BY <1>1, <2>1, <2>3, UnusedAfterRestoration
    <3>2. RestoredPhase(h.requested) \in Phases
      BY DEF RestoredPhase, Phases
    <3>. QED
      BY <2>2, <2>3, <3>1, <3>2 DEF Histories
  <2>5. Outstanding(k) = Outstanding(h) + 1
    <3>1. CASE h.requested = "PROCESSING"
      <4>. DEFINE q == Append(p, FALSE)
      <4>1. k.restored["PROCESSING"] = q /\ k.restored["EXTRACTED"] = x
        BY <1>1, <2>3, <3>1 DEF RetryOrigins
      <4>2. Cardinality(Unused(q)) = Cardinality(Unused(p)) + 1
        BY <1>1, UnusedAfterRestoration
      <4>3. Outstanding(k) = Cardinality(Unused(q)) + Cardinality(Unused(x))
        <5>. HIDE DEF k
        <5>. QED
          BY <4>1 DEF Outstanding
      <4>. QED
        <5>1. Outstanding(h) = Cardinality(Unused(p)) + Cardinality(Unused(x))
          BY DEF Outstanding
        <5>. HIDE DEF k, p, x, q
        <5>. QED
          BY <1>1, <4>2, <4>3, <5>1
    <3>2. CASE h.requested = "EXTRACTED"
      <4>. DEFINE q == Append(x, FALSE)
      <4>1. k.restored["EXTRACTED"] = q /\ k.restored["PROCESSING"] = p
        BY <1>1, <2>3, <3>2 DEF RetryOrigins
      <4>2. Cardinality(Unused(q)) = Cardinality(Unused(x)) + 1
        BY <1>1, UnusedAfterRestoration
      <4>3. Outstanding(k) = Cardinality(Unused(p)) + Cardinality(Unused(q))
        <5>. HIDE DEF k
        <5>. QED
          BY <4>1 DEF Outstanding
      <4>. QED
        <5>1. Outstanding(h) = Cardinality(Unused(p)) + Cardinality(Unused(x))
          BY DEF Outstanding
        <5>. HIDE DEF k, p, x, q
        <5>. QED
          BY <1>1, <4>2, <4>3, <5>1
    <3>. QED
      BY <2>1, <3>1, <3>2 DEF RetryOrigins
  <2>. QED
    BY <1>2, <2>4, <2>5 DEF Restorations, Resumptions
<1>3. CASE event = "ORDER_PROCESSING_RESUMED"
  <2>1. Unused(p) # {}
    BY <1>3 DEF Accepts
  <2>2. k = [h EXCEPT !.restored["PROCESSING"] = ConsumeLatest(@), !.phase = "PROCESSING"]
    BY <1>3 DEF Advance
  <2>3. k.restored = [h.restored EXCEPT !["PROCESSING"] = ConsumeLatest(@)]
    BY <2>2 DEF Histories
  <2>4. k.restored \in [RetryOrigins -> Seq(BOOLEAN)]
    BY <1>1, <2>1, <2>3, UnusedAfterResumption
  <2>5. k \in Histories /\ k.valid
    BY <2>2, <2>3, <2>4 DEF Histories, Phases
  <2>6. k.restored["PROCESSING"] = ConsumeLatest(p) /\ k.restored["EXTRACTED"] = x
    BY <1>1, <2>3 DEF RetryOrigins
  <2>7. ConsumeLatest(p) \in Seq(BOOLEAN)
        /\ Cardinality(Unused(p)) = Cardinality(Unused(ConsumeLatest(p))) + 1
    BY <1>1, <2>1, UnusedAfterResumption
  <2>8. Cardinality(Unused(ConsumeLatest(p))) \in Nat
    BY <2>7, UnusedFinite
  <2>9. Outstanding(h) = Outstanding(k) + 1
    BY <1>1, <2>6, <2>7, <2>8 DEF Outstanding
  <2>. QED
    BY <1>3, <2>5, <2>9 DEF Restorations, Resumptions
<1>4. CASE event = "ORDER_EXTRACTION_RESUMED"
  <2>1. Unused(x) # {}
    BY <1>4 DEF Accepts
  <2>2. k = [h EXCEPT !.restored["EXTRACTED"] = ConsumeLatest(@), !.phase = "EXTRACTED"]
    BY <1>4 DEF Advance
  <2>3. k.restored = [h.restored EXCEPT !["EXTRACTED"] = ConsumeLatest(@)]
    BY <2>2 DEF Histories
  <2>4. k.restored \in [RetryOrigins -> Seq(BOOLEAN)]
    BY <1>1, <2>1, <2>3, UnusedAfterResumption
  <2>5. k \in Histories /\ k.valid
    BY <2>2, <2>3, <2>4 DEF Histories, Phases
  <2>6. k.restored["EXTRACTED"] = ConsumeLatest(x) /\ k.restored["PROCESSING"] = p
    BY <1>1, <2>3 DEF RetryOrigins
  <2>7. ConsumeLatest(x) \in Seq(BOOLEAN)
        /\ Cardinality(Unused(x)) = Cardinality(Unused(ConsumeLatest(x))) + 1
    BY <1>1, <2>1, UnusedAfterResumption
  <2>8. Cardinality(Unused(ConsumeLatest(x))) \in Nat
    BY <2>7, UnusedFinite
  <2>9. Outstanding(h) = Outstanding(k) + 1
    BY <1>1, <2>6, <2>7, <2>8 DEF Outstanding
  <2>. QED
    BY <1>4, <2>5, <2>9 DEF Restorations, Resumptions
<1>5. CASE event \notin Restorations \cup Resumptions
  <2>1. k \in Histories /\ k.valid /\ k.restored = h.restored
    BY <1>5 DEF Accepts, Advance, Histories, Phases, RetryOrigins, Restorations, Resumptions
  <2>. QED
    BY <1>5, <2>1 DEF Outstanding
<1>. QED
  BY <1>2, <1>3, <1>4, <1>5 DEF Restorations, Resumptions

(***************************************************************************)
(* What the automaton knows of every history that it accepts.              *)
(***************************************************************************)
\* Counting one more event.
LEMMA CountStep ==
  ASSUME NEW events, NEW n \in Nat, NEW types
  PROVE  /\ Count(events, 0, types) = 0 /\ Count(events, n, types) \in Nat
         /\ Count(events, n + 1, types) =
              Count(events, n, types) + (IF events[n + 1] \in types THEN 1 ELSE 0)
<1>. DEFINE S(k) == {i \in 1..k : events[i] \in types}
<1>1. S(0) = {} /\ Cardinality(S(0)) = 0
  BY FS_EmptySet
<1>2. IsFiniteSet(S(n)) /\ Cardinality(S(n)) \in Nat
  <2>1. S(n) \subseteq 1..n /\ IsFiniteSet(1..n)
    BY FS_Interval
  <2>. QED
    BY <2>1, FS_Subset, FS_CardinalityType
<1>3. CASE events[n + 1] \in types
  <2>1. S(n + 1) = S(n) \cup {n + 1} /\ n + 1 \notin S(n)
    BY <1>3
  <2>2. Cardinality(S(n + 1)) = Cardinality(S(n)) + 1
    BY <1>2, <2>1, FS_AddElement
  <2>. QED
    BY <1>1, <1>2, <1>3, <2>2 DEF Count
<1>4. CASE events[n + 1] \notin types
  <2>1. S(n + 1) = S(n)
    BY <1>4
  <2>. QED
    BY <1>1, <1>2, <1>4, <2>1 DEF Count
<1>. QED
  BY <1>3, <1>4

\* In a history that the automaton accepts up to here, every retry that restored
\* the order has been used by one resumption or is still outstanding.
Balanced(events, n) ==
  LET h == Readings(events)[n] IN
  h.valid => /\ h \in Histories
             /\ Count(events, n, Restorations) =
                  Count(events, n, Resumptions) + Outstanding(h)

\* The automaton pairs retries with resumptions (claims.py,
\* _consume_latest_generation) over histories of any length.
LEMMA HistoryIsBalanced ==
  ASSUME NEW events, Len(events) \in Nat
  PROVE  \A n \in 0..Len(events) : Balanced(events, n)
<1>. DEFINE S == {n \in 0..Len(events) : Balanced(events, n)}
            R == Readings(events)
<1>1. 0 \in S
  <2>1. HistoryStart \in Histories
    BY DEF HistoryStart, Histories, Phases, RetryOrigins
  <2>2. /\ HistoryStart.restored["PROCESSING"] = <<>>
        /\ HistoryStart.restored["EXTRACTED"] = <<>>
    BY DEF HistoryStart, RetryOrigins
  <2>3. Unused(<<>>) = {} /\ Cardinality(Unused(<<>>)) = 0
    BY FS_EmptySet DEF Unused
  <2>4. Outstanding(HistoryStart) = 0
    BY <2>2, <2>3 DEF Outstanding
  <2>5. R[0] = HistoryStart
    BY ReadingsStep
  <2>6. Count(events, 0, Restorations) = 0 /\ Count(events, 0, Resumptions) = 0
    BY CountStep, 0 \in Nat
  <2>. QED
    BY <2>1, <2>4, <2>5, <2>6 DEF Balanced
<1>2. ASSUME NEW n \in 0..Len(events), n < Len(events), n \in S
      PROVE  n + 1 \in S
  <2>. DEFINE h == R[n]
              e == events[n + 1]
  <2>1. R[n + 1] = Read(h, e)
    <3>1. n + 1 \in 1..Len(events) /\ (n + 1) - 1 = n
      BY <1>2
    <3>. QED
      BY <3>1, ReadingsStep
  <2>. SUFFICES ASSUME R[n + 1].valid
                PROVE  /\ R[n + 1] \in Histories
                       /\ Count(events, n + 1, Restorations) =
                            Count(events, n + 1, Resumptions) + Outstanding(R[n + 1])
    BY <1>2 DEF Balanced
  <2>2. h.valid /\ Accepts(h, e) /\ R[n + 1] = Advance(h, e)
    <3>. SUFFICES ASSUME ~(h.valid /\ Accepts(h, e)) PROVE FALSE
      BY <2>1 DEF Read
    <3>1. R[n + 1] = [h EXCEPT !.valid = FALSE]
      BY <2>1 DEF Read
    <3>. QED
      BY <3>1
  <2>3. /\ h \in Histories
        /\ Count(events, n, Restorations) = Count(events, n, Resumptions) + Outstanding(h)
    BY <1>2, <2>2 DEF Balanced
  <2>4. Outstanding(h) \in Nat
    BY <2>3, UnusedFinite DEF Outstanding, Histories, RetryOrigins
  <2>5. /\ Advance(h, e) \in Histories /\ Advance(h, e).valid
        /\ e \in Restorations => Outstanding(Advance(h, e)) = Outstanding(h) + 1
        /\ e \in Resumptions => Outstanding(h) = Outstanding(Advance(h, e)) + 1
        /\ e \notin Restorations \cup Resumptions =>
             Outstanding(Advance(h, e)) = Outstanding(h)
    BY <2>2, <2>3, AdvanceFacts
  <2>6. Outstanding(Advance(h, e)) \in Nat
    BY <2>5, UnusedFinite DEF Outstanding, Histories, RetryOrigins
  <2>7. n \in Nat
    OBVIOUS
  <2>8. /\ Count(events, n, Restorations) \in Nat
        /\ Count(events, n + 1, Restorations) =
             Count(events, n, Restorations) + (IF e \in Restorations THEN 1 ELSE 0)
        /\ Count(events, n, Resumptions) \in Nat
        /\ Count(events, n + 1, Resumptions) =
             Count(events, n, Resumptions) + (IF e \in Resumptions THEN 1 ELSE 0)
    BY <2>7, CountStep
  <2>9. ~(e \in Restorations /\ e \in Resumptions)
    BY DEF Restorations, Resumptions
  <2>10. Count(events, n + 1, Restorations) =
           Count(events, n + 1, Resumptions) + Outstanding(Advance(h, e))
    <3>. HIDE DEF h, e
    <3>. QED
      BY <2>3, <2>4, <2>5, <2>6, <2>8, <2>9
  <2>. QED
    BY <2>2, <2>5, <2>10
<1>3. \A n \in 0..Len(events) : n \in S
  <2>. HIDE DEF S
  <2>. QED
    BY <1>1, <1>2, Induction
<1>. QED
  BY <1>3

\* What the automaton knows after a prefix depends on that prefix only.
LEMMA ReadingsOfPrefix ==
  ASSUME NEW a, NEW b, Len(a) \in Nat, Len(b) \in Nat, Len(a) <= Len(b),
         \A i \in 1..Len(a) : a[i] = b[i]
  PROVE  Readings(a)[Len(a)] = Readings(b)[Len(a)]
<1>. DEFINE S == {n \in 0..Len(a) : Readings(a)[n] = Readings(b)[n]}
<1>1. 0 \in S
  BY ReadingsStep
<1>2. ASSUME NEW n \in 0..Len(a), n < Len(a), n \in S
      PROVE  n + 1 \in S
  <2>1. /\ n + 1 \in 1..Len(a) /\ n + 1 \in 1..Len(b) /\ (n + 1) - 1 = n
        /\ a[n + 1] = b[n + 1]
    BY <1>2
  <2>2. Readings(a)[n + 1] = Read(Readings(a)[n], a[n + 1])
    BY <2>1, ReadingsStep
  <2>3. Readings(b)[n + 1] = Read(Readings(b)[n], b[n + 1])
    BY <2>1, ReadingsStep
  <2>. QED
    BY <1>2, <2>1, <2>2, <2>3
<1>3. \A n \in 0..Len(a) : n \in S
  <2>. HIDE DEF S
  <2>. QED
    BY <1>1, <1>2, Induction
<1>. QED
  BY <1>3

\* A claim that resumes a retry finds one that nobody has used: the history holds
\* more restorations than resumptions (claims.py, decide_intake_claim_kind).
THEOREM ResumptionNeedsUnusedRetry ==
  ASSUME NEW events, Len(events) \in Nat, NEW origin \in RetryOrigins,
         HistoryStatus(events).valid, RetryUnused(HistoryStatus(events), origin)
  PROVE  Count(events, Len(events), Resumptions) < Count(events, Len(events), Restorations)
<1>. DEFINE N == Len(events)
            h == Readings(events)[N]
            uses == h.restored[origin]
<1>1. h.valid /\ HistoryStatus(events).restored = h.restored
  <2>1. HistoryStatus(events) =
          [h EXCEPT !.valid = /\ @ /\ Undisturbed(h)
                              /\ N >= 2
                              /\ events[1] = "ORDER_RECEIVED"
                              /\ events[2] = "ORDER_PROCESSING_STARTED"]
    BY DEF HistoryStatus
  <2>2. HistoryStatus(events).restored = h.restored
    <3>. HIDE DEF h
    <3>. QED
      BY <2>1
  <2>3. h.valid
    <3>. HIDE DEF h
    <3>. QED
      BY <2>1
  <2>. QED
    BY <2>2, <2>3
<1>2. /\ h \in Histories
      /\ Count(events, N, Restorations) = Count(events, N, Resumptions) + Outstanding(h)
  <2>1. Balanced(events, N)
    BY HistoryIsBalanced
  <2>. QED
    BY <1>1, <2>1 DEF Balanced
<1>3. uses \in Seq(BOOLEAN)
  BY <1>2 DEF Histories
<1>4. Unused(uses) # {}
  <2>1. uses # <<>> /\ ~uses[Len(uses)]
    BY <1>1 DEF RetryUnused, Last
  <2>2. Len(uses) \in DOMAIN uses
    BY <1>3, <2>1
  <2>. QED
    BY <2>1, <2>2 DEF Unused
<1>5. Cardinality(Unused(uses)) \in Nat /\ Cardinality(Unused(uses)) # 0
  BY <1>3, <1>4, UnusedFinite, FS_EmptySet
<1>6. /\ Cardinality(Unused(h.restored["PROCESSING"])) \in Nat
      /\ Cardinality(Unused(h.restored["EXTRACTED"])) \in Nat
  BY <1>2, UnusedFinite DEF Histories, RetryOrigins
<1>7. Outstanding(h) \in Nat /\ Outstanding(h) > 0
  <2>. HIDE DEF h
  <2>. QED
    BY <1>5, <1>6 DEF Outstanding, RetryOrigins
<1>8. Count(events, N, Resumptions) \in Nat
  BY CountStep
<1>. QED
  BY <1>2, <1>7, <1>8

(***************************************************************************)
(* Events, in the order they were committed.                               *)
(***************************************************************************)
EventTypes == KnownEvents \cup RoutingEvents
Events == [type : EventTypes, at : Nat]

\* The types in the order the events were committed.
Types(events) == [n \in DOMAIN events |-> events[n].type]

StampsDiffer(events) ==
  \A i, j \in DOMAIN events : i # j => events[i].at # events[j].at

StampsGrow(events) ==
  \A i, j \in DOMAIN events : i < j => events[i].at < events[j].at

\* A sequence of events, taken apart.
LEMMA EventFacts ==
  ASSUME NEW events \in Seq(Events)
  PROVE  /\ DOMAIN events = 1..Len(events) /\ Len(events) \in Nat
         /\ \A k \in 1..Len(events) : events[k].at \in Nat /\ events[k].type \in EventTypes
<1>1. DOMAIN events = 1..Len(events) /\ Len(events) \in Nat
  OBVIOUS
<1>2. \A k \in 1..Len(events) : events[k] \in Events
  OBVIOUS
<1>. QED
  BY <1>1, <1>2 DEF Events

(***************************************************************************)
(* Reading the events in the order of their stamps.                        *)
(***************************************************************************)
\* The rank of an event grows with its stamp.
LEMMA RankFacts ==
  ASSUME NEW events \in Seq(Events), NEW i \in DOMAIN events, NEW j \in DOMAIN events
  PROVE  /\ Rank(events, i) \in 0..(Len(events) - 1)
         /\ events[i].at < events[j].at => Rank(events, i) < Rank(events, j)
<1>. DEFINE N == Len(events)
            Before(k) == {m \in DOMAIN events : events[m].at < events[k].at}
<1>1. DOMAIN events = 1..N /\ N \in Nat /\ \A k \in 1..N : events[k].at \in Nat
  BY EventFacts
<1>2. \A k \in 1..N : Before(k) \in SUBSET ((1..N) \ {k})
  BY <1>1
<1>3. ASSUME NEW k \in 1..N
      PROVE  IsFiniteSet((1..N) \ {k}) /\ Cardinality((1..N) \ {k}) = N - 1
  <2>1. IsFiniteSet(1..N) /\ Cardinality(1..N) = N
    <3>1. 1 \in Int /\ N \in Int /\ ~(1 > N)
      BY <1>1
    <3>. QED
      BY <3>1, FS_Interval
  <2>. QED
    BY <2>1, FS_RemoveElement
<1>4. ASSUME NEW k \in 1..N
      PROVE  /\ IsFiniteSet(Before(k)) /\ Cardinality(Before(k)) \in Nat
             /\ Cardinality(Before(k)) <= N - 1
  <2>1. Before(k) \in SUBSET ((1..N) \ {k})
    BY <1>2
  <2>. DEFINE S == (1..N) \ {k}
  <2>2. IsFiniteSet(S) /\ Cardinality(S) = N - 1
    BY <1>3
  <2>. HIDE DEF Before, S
  <2>3. IsFiniteSet(Before(k)) /\ Cardinality(Before(k)) <= Cardinality(S)
    BY <2>1, <2>2, FS_Subset DEF S
  <2>. QED
    BY <2>2, <2>3, FS_CardinalityType
<1>5. ASSUME events[i].at < events[j].at
      PROVE  Cardinality(Before(i)) < Cardinality(Before(j))
  <2>1. Before(i) \in SUBSET Before(j) /\ i \in Before(j) /\ i \notin Before(i)
    BY <1>1, <1>5
  <2>. HIDE DEF Before
  <2>. QED
    BY <1>1, <1>4, <2>1, FS_Subset
<1>6. Rank(events, i) = Cardinality(Before(i)) /\ Rank(events, j) = Cardinality(Before(j))
  BY DEF Rank
<1>. HIDE DEF Before
<1>. QED
  BY <1>1, <1>4, <1>5, <1>6

\* Where the n-th event of the history was committed.
PlaceOf(events, n) == CHOOSE i \in DOMAIN events : Rank(events, i) = n - 1

\* If all stamps differ, the history lists every event once.
LEMMA PlaceFacts ==
  ASSUME NEW events \in Seq(Events), StampsDiffer(events)
  PROVE  /\ \A n \in 1..Len(events) : /\ PlaceOf(events, n) \in 1..Len(events)
                                      /\ Rank(events, PlaceOf(events, n)) = n - 1
         /\ \A i \in 1..Len(events) : \E n \in 1..Len(events) : PlaceOf(events, n) = i
<1>. DEFINE N == Len(events)
            rank == [i \in 1..N |-> Rank(events, i)]
<1>1. DOMAIN events = 1..N /\ N \in Nat /\ \A k \in 1..N : events[k].at \in Nat
  BY EventFacts
<1>2. rank \in [1..N -> 0..(N - 1)]
  BY <1>1, RankFacts
<1>3. \A i, j \in 1..N : Rank(events, i) = Rank(events, j) => i = j
  <2>. SUFFICES ASSUME NEW i \in 1..N, NEW j \in 1..N, i # j
                PROVE  Rank(events, i) # Rank(events, j)
    OBVIOUS
  <2>1. events[i].at < events[j].at \/ events[j].at < events[i].at
    BY <1>1 DEF StampsDiffer
  <2>2. Rank(events, i) \in Int /\ Rank(events, j) \in Int
    BY <1>1, RankFacts
  <2>. QED
    BY <1>1, <2>1, <2>2, RankFacts
<1>4. rank \in Injection(1..N, 0..(N - 1))
  BY <1>2, <1>3 DEF Injection, IsInjective
<1>5. /\ IsFiniteSet(0..(N - 1)) /\ Cardinality(0..(N - 1)) = N
      /\ Cardinality(1..N) = N
  <2>1. 0 \in Int /\ 1 \in Int /\ N \in Int /\ N - 1 \in Int
    BY <1>1
  <2>2. /\ IsFiniteSet(0..(N - 1))
        /\ Cardinality(0..(N - 1)) = IF 0 > N - 1 THEN 0 ELSE (N - 1) - 0 + 1
    BY <2>1, FS_Interval
  <2>3. Cardinality(1..N) = IF 1 > N THEN 0 ELSE N - 1 + 1
    BY <2>1, FS_Interval
  <2>. QED
    BY <1>1, <2>2, <2>3
<1>6. rank \in Surjection(1..N, 0..(N - 1))
  <2>. HIDE DEF rank
  <2>. QED
    BY <1>4, <1>5, FS_Injection
<1>7. \A n \in 1..N : PlaceOf(events, n) \in 1..N /\ Rank(events, PlaceOf(events, n)) = n - 1
  <2>. SUFFICES ASSUME NEW n \in 1..N
                PROVE  \E i \in DOMAIN events : Rank(events, i) = n - 1
    BY <1>1 DEF PlaceOf
  <2>1. n - 1 \in 0..(N - 1)
    BY <1>1
  <2>2. PICK i \in 1..N : rank[i] = n - 1
    BY <1>6, <2>1 DEF Surjection
  <2>. QED
    BY <1>1, <2>2
<1>8. ASSUME NEW i \in 1..N
      PROVE  \E n \in 1..N : PlaceOf(events, n) = i
  <2>1. Rank(events, i) \in 0..(N - 1)
    BY <1>1, RankFacts
  <2>2. Rank(events, i) + 1 \in 1..N /\ (Rank(events, i) + 1) - 1 = Rank(events, i)
    BY <1>1, <2>1
  <2>3. PlaceOf(events, Rank(events, i) + 1) = i
    BY <1>3, <1>7, <2>2
  <2>. QED
    BY <2>2, <2>3
<1>. QED
  BY <1>7, <1>8

\* The history that a claim reads has as many events of a kind as were committed.
LEMMA HistoryCounts ==
  ASSUME NEW events \in Seq(Events), StampsDiffer(events), NEW types
  PROVE  Count(HistoryOf(events), Len(events), types) =
           Count(Types(events), Len(events), types)
<1>. DEFINE N == Len(events)
            A == {n \in 1..N : HistoryOf(events)[n] \in types}
            B == {i \in 1..N : Types(events)[i] \in types}
            place == [n \in A |-> PlaceOf(events, n)]
<1>1. DOMAIN events = 1..N /\ N \in Nat
  OBVIOUS
<1>2. \A n \in 1..N : HistoryOf(events)[n] = events[PlaceOf(events, n)].type
  BY <1>1 DEF HistoryOf, PlaceOf
<1>3. \A i \in 1..N : Types(events)[i] = events[i].type
  BY <1>1 DEF Types
<1>4. \A n \in 1..N : n \in A <=> PlaceOf(events, n) \in B
  BY <1>2, <1>3, PlaceFacts
<1>5. place \in [A -> B]
  BY <1>4
<1>6. \A m, n \in A : place[m] = place[n] => m = n
  BY PlaceFacts
<1>7. \A i \in B : \E n \in A : place[n] = i
  <2>. SUFFICES ASSUME NEW i \in B PROVE \E n \in A : place[n] = i
    OBVIOUS
  <2>1. PICK n \in 1..N : PlaceOf(events, n) = i
    BY PlaceFacts
  <2>2. n \in A
    BY <1>4, <2>1
  <2>. QED
    BY <2>1, <2>2
<1>8. place \in Bijection(A, B)
  <2>. HIDE DEF place, A, B
  <2>. QED
    BY <1>5, <1>6, <1>7 DEF Bijection, Injection, Surjection, IsInjective
<1>9. IsFiniteSet(A)
  <2>1. A \in SUBSET (1..N) /\ 1 \in Int /\ N \in Int
    BY <1>1
  <2>. HIDE DEF A
  <2>. QED
    BY <2>1, FS_Interval, FS_Subset
<1>10. Cardinality(A) = Cardinality(B)
  <2>. HIDE DEF place, A, B
  <2>. QED
    BY <1>8, <1>9, FS_Bijection DEF ExistsBijection
<1>. QED
  BY <1>10 DEF Count

\* Events committed in the order of their stamps are read in that order.
LEMMA HistoryInOrder ==
  ASSUME NEW events \in Seq(Events), StampsGrow(events)
  PROVE  HistoryOf(events) = Types(events)
<1>. DEFINE N == Len(events)
<1>1. DOMAIN events = 1..N /\ N \in Nat /\ \A k \in 1..N : events[k].at \in Nat
  BY EventFacts
<1>2. ASSUME NEW i \in 1..N
      PROVE  Rank(events, i) = i - 1
  <2>1. {j \in DOMAIN events : events[j].at < events[i].at} = 1..(i - 1)
    <3>1. \A j \in 1..N : events[j].at < events[i].at <=> j < i
      BY <1>1 DEF StampsGrow
    <3>. QED
      BY <1>1, <3>1
  <2>2. Cardinality(1..(i - 1)) = i - 1
    BY FS_Interval
  <2>. QED
    BY <2>1, <2>2 DEF Rank
<1>3. ASSUME NEW n \in 1..N
      PROVE  PlaceOf(events, n) = n
  <2>1. \A i \in DOMAIN events : Rank(events, i) = n - 1 <=> i = n
    BY <1>1, <1>2
  <2>. QED
    BY <1>1, <2>1 DEF PlaceOf
<1>4. HistoryOf(events) = [n \in DOMAIN events |-> events[PlaceOf(events, n)].type]
  BY DEF HistoryOf, PlaceOf
<1>. QED
  BY <1>1, <1>3, <1>4 DEF Types

(***************************************************************************)
(* Recording events.                                                       *)
(***************************************************************************)
\* What is recorded comes after what has been recorded.
LEMMA RecordFacts ==
  ASSUME NEW events \in Seq(Events), NEW more \in Seq(Events)
  PROVE  /\ events \o more \in Seq(Events)
         /\ Len(events \o more) = Len(events) + Len(more)
         /\ \A i \in 1..Len(events) : (events \o more)[i] = events[i]
         /\ \A i \in DOMAIN (events \o more) :
              \/ i \in DOMAIN events /\ (events \o more)[i] = events[i]
              \/ /\ i - Len(events) \in DOMAIN more
                 /\ (events \o more)[i] = more[i - Len(events)]
  OBVIOUS

\* New stamps that lie where no stamp is yet differ from all of them.
LEMMA FreshStamps ==
  ASSUME NEW events \in Seq(Events), NEW more \in Seq(Events),
         NEW lo \in Nat, NEW hi \in Nat,
         StampsDiffer(events), StampsGrow(more),
         \A i \in DOMAIN events : events[i].at < lo \/ events[i].at >= hi,
         \A i \in DOMAIN more : lo <= more[i].at /\ more[i].at < hi
  PROVE  StampsDiffer(events \o more)
<1>. DEFINE all == events \o more
            N == Len(events)
<1>1. N \in Nat /\ DOMAIN all \subseteq Nat
  OBVIOUS
<1>2. \A i \in DOMAIN events : events[i].at \in Nat
  BY EventFacts
<1>3. \A i \in DOMAIN more : more[i].at \in Nat
  BY EventFacts
<1>4. SUFFICES ASSUME NEW i \in DOMAIN all, NEW j \in DOMAIN all, i # j
               PROVE  all[i].at # all[j].at
  BY DEF StampsDiffer
<1>5. /\ \/ i \in DOMAIN events /\ all[i] = events[i]
         \/ i - N \in DOMAIN more /\ all[i] = more[i - N]
      /\ \/ j \in DOMAIN events /\ all[j] = events[j]
         \/ j - N \in DOMAIN more /\ all[j] = more[j - N]
  BY RecordFacts
<1>6. i \in Nat /\ j \in Nat
  BY <1>1
<1>. HIDE DEF all, N
<1>7. CASE i \in DOMAIN events /\ all[i] = events[i]
           /\ j \in DOMAIN events /\ all[j] = events[j]
  BY <1>4, <1>7 DEF StampsDiffer
<1>8. CASE i - N \in DOMAIN more /\ all[i] = more[i - N]
           /\ j - N \in DOMAIN more /\ all[j] = more[j - N]
  <2>1. i - N < j - N \/ j - N < i - N
    BY <1>1, <1>4, <1>6
  <2>. QED
    BY <1>3, <1>8, <2>1 DEF StampsGrow
<1>9. CASE i \in DOMAIN events /\ all[i] = events[i]
           /\ j - N \in DOMAIN more /\ all[j] = more[j - N]
  BY <1>2, <1>3, <1>9
<1>10. CASE i - N \in DOMAIN more /\ all[i] = more[i - N]
            /\ j \in DOMAIN events /\ all[j] = events[j]
  BY <1>2, <1>3, <1>10
<1>. QED
  BY <1>5, <1>7, <1>8, <1>9, <1>10

OccursIn(events, type) == Cardinality({i \in DOMAIN events : events[i].type = type})

\* One more event is one more of its type and of no other.
LEMMA OneMore ==
  ASSUME NEW events \in Seq(Events), NEW event \in Events, NEW type
  PROVE  /\ Append(events, event) \in Seq(Events)
         /\ OccursIn(events, type) \in Nat
         /\ OccursIn(Append(events, event), type) =
              OccursIn(events, type) + (IF event.type = type THEN 1 ELSE 0)
<1>. DEFINE S(l) == {i \in DOMAIN l : l[i].type = type}
            more == Append(events, event)
            N == Len(events)
<1>1. /\ more \in Seq(Events) /\ N \in Nat /\ DOMAIN events = 1..N
      /\ DOMAIN more = 1..(N + 1) /\ more[N + 1] = event
      /\ \A i \in 1..N : more[i] = events[i]
  OBVIOUS
<1>2. IsFiniteSet(S(events)) /\ Cardinality(S(events)) \in Nat
  <2>1. S(events) \in SUBSET (1..N) /\ 1 \in Int /\ N \in Int
    BY <1>1
  <2>. HIDE DEF S
  <2>. QED
    BY <2>1, FS_Interval, FS_Subset, FS_CardinalityType
<1>3. CASE event.type = type
  <2>1. S(more) = S(events) \cup {N + 1} /\ N + 1 \notin S(events)
    <3>. HIDE DEF more
    <3>. QED
      BY <1>1, <1>3
  <2>2. Cardinality(S(more)) = Cardinality(S(events)) + 1
    BY <1>2, <2>1, FS_AddElement
  <2>. QED
    BY <1>1, <1>2, <1>3, <2>2 DEF OccursIn
<1>4. CASE event.type # type
  <2>1. S(more) = S(events)
    <3>. HIDE DEF more
    <3>. QED
      BY <1>1, <1>4
  <2>2. OccursIn(more, type) = Cardinality(S(more))
        /\ OccursIn(events, type) = Cardinality(S(events))
    BY DEF OccursIn
  <2>. HIDE DEF S
  <2>. QED
    BY <1>1, <1>2, <1>4, <2>1, <2>2
<1>. QED
  BY <1>3, <1>4

\* The two kinds of resumption counted together.
LEMMA CountsAgree ==
  ASSUME NEW events \in Seq(Events)
  PROVE  /\ Count(Types(events), Len(events), Restorations) =
              OccursIn(events, "ORDER_RETRY_RESTORED")
         /\ Count(Types(events), Len(events), Resumptions) =
              OccursIn(events, "ORDER_PROCESSING_RESUMED")
                + OccursIn(events, "ORDER_EXTRACTION_RESUMED")
<1>. DEFINE S(type) == {i \in DOMAIN events : events[i].type = type}
            P == S("ORDER_PROCESSING_RESUMED")
            X == S("ORDER_EXTRACTION_RESUMED")
            N == Len(events)
<1>1. N \in Nat /\ DOMAIN events = 1..N
  OBVIOUS
<1>2. \A i \in 1..N : Types(events)[i] = events[i].type
  BY <1>1 DEF Types
<1>3. {i \in 1..N : Types(events)[i] \in Restorations} = S("ORDER_RETRY_RESTORED")
  BY <1>1, <1>2 DEF Restorations
<1>4. {i \in 1..N : Types(events)[i] \in Resumptions} = P \cup X
  BY <1>1, <1>2 DEF Resumptions
<1>5. P \in SUBSET (1..N) /\ X \in SUBSET (1..N) /\ P \cap X = {}
  BY <1>1
<1>6. IsFiniteSet(P) /\ IsFiniteSet(X)
  <2>1. IsFiniteSet(1..N)
    <3>1. 1 \in Int /\ N \in Int
      BY <1>1
    <3>. QED
      BY <3>1, FS_Interval
  <2>. HIDE DEF P, X
  <2>. QED
    BY <1>5, <2>1, FS_Subset
<1>7. Cardinality(P \cup X) = Cardinality(P) + Cardinality(X)
  <2>. HIDE DEF P, X
  <2>1. Cardinality(P \cup X) = Cardinality(P) + Cardinality(X) - Cardinality(P \cap X)
    BY <1>6, FS_Union
  <2>2. Cardinality(P \cap X) = 0
    BY <1>5, FS_EmptySet
  <2>3. Cardinality(P) \in Nat /\ Cardinality(X) \in Nat
    BY <1>6, FS_CardinalityType
  <2>. QED
    BY <2>1, <2>2, <2>3
<1>. QED
  BY <1>3, <1>4, <1>7 DEF Count, OccursIn

(***************************************************************************)
(* The inductive invariant.                                                *)
(***************************************************************************)
Places == {"new", "done"} \cup Running
Answers == {"none", "conflict", "come back", "stand down", "completed", "unavailable"}

TypeOK ==
  /\ order \in {Missing} \cup Order
  /\ log \in Seq(Events)
  /\ fence \in Requests \cup {Nobody} /\ fenceLeft \in 0..Lease
  /\ snapshot \in BOOLEAN
  /\ pc \in [Requests -> Places] /\ content \in [Requests -> Contents]
  /\ arrived \in [Requests -> Nat] /\ left \in [Requests -> {Late} \cup 0..Budget]
  /\ kind \in [Requests -> ClaimKinds] /\ answer \in [Requests -> Answers]
  /\ clock \in Nat

Routed == {"NEEDS_REVIEW", "READY_FOR_APPROVAL"}

\* The row between two transactions: only an order in progress is owned.
RowShape ==
  /\ order.state \in {"MISSING", "RECEIVED", "PROCESSING", "EXTRACTED"}
                       \cup FailureStates \cup Routed
  /\ order = Missing => log = <<>>
  /\ order.state \in FailureStates => order.origin \in RetryOrigins
  /\ snapshot => order.state \in Routed
  /\ fence # Nobody => InProgress

\* A request behind its creation carries the key's content; the owner's place
\* agrees with the order's state.
RequestShape ==
  \A r \in Requests :
    /\ pc[r] \in {"claim"} \cup Working => order # Missing /\ content[r] = body
    /\ fence = r => pc[r] \in Working \cup {"done"}
    /\ fence = r /\ pc[r] = "work" => order.state = StageOf(kind[r])
    /\ fence = r /\ pc[r] \in {"validate", "route"} => order.state = "EXTRACTED"

\* A request that stops in time is over before its lease.
Ownership ==
  \A r \in Requests :
    pc[r] \in Working /\ left[r] # Late => fence = r /\ left[r] < fenceLeft

\* The first of a request's stamps that it may still use.
NextStamp(place) ==
  CASE place = "create" -> 0
    [] place = "claim" -> 1
    [] place = "work" -> 2
    [] OTHER -> 3

\* No stamp is used twice.
Stamps ==
  /\ StampsDiffer(log)
  /\ \A i \in DOMAIN log : log[i].at < Gap * (clock + 1)
  /\ \A r \in Requests : pc[r] # "new" => arrived[r] \in 1..clock
  /\ \A r, s \in Requests :
       pc[r] # "new" /\ pc[s] # "new" /\ arrived[r] = arrived[s] => r = s
  /\ \A r \in Requests, i \in DOMAIN log :
       pc[r] \in Running =>
         \/ log[i].at < Gap * arrived[r] + NextStamp(pc[r])
         \/ log[i].at >= Gap * (arrived[r] + 1)

Unowned == InProgress /\ fence = Nobody

\* One retry has not been resumed exactly while the order is in progress and
\* nobody has taken it.
RetryBalance ==
  Occurrences("ORDER_PROCESSING_RESUMED") + Occurrences("ORDER_EXTRACTION_RESUMED")
    + (IF Unowned THEN 1 ELSE 0) = Occurrences("ORDER_RETRY_RESTORED")

IInv == TypeOK /\ RowShape /\ RequestShape /\ Ownership /\ Stamps /\ RetryBalance

\* The phase of an order in the automaton's terms; taken tells whether a request
\* owns the execution.
PhaseOf(o, taken) ==
  CASE o.state = "RECEIVED" -> "RECEIVED"
    [] o.state \in RetryOrigins -> IF taken THEN o.state ELSE RestoredPhase(o.state)
    [] OTHER -> IF o.origin = "PROCESSING" THEN "PROCESSING_FAILED" ELSE "EXTRACTED_FAILED"

LastUnused(uses) == uses # <<>> /\ Unused(uses) = {Len(uses)}

\* The automaton at the end of the history agrees with the order; the one retry
\* that may be unused is the last one, of the state the order is in.
Matches(h, o, taken) ==
  /\ h \in Histories /\ h.valid /\ h.received
  /\ h.started <=> o.state # "RECEIVED"
  /\ h.extracted <=> o.state = "EXTRACTED" \/ o.origin = "EXTRACTED"
  /\ h.failed = o.origin /\ h.requested = NoOrigin
  /\ h.phase = PhaseOf(o, taken)
  /\ \A origin \in RetryOrigins :
       IF origin = o.state /\ ~taken THEN LastUnused(h.restored[origin])
       ELSE Unused(h.restored[origin]) = {}

\* The automaton at the end of the committed history.
EndOf(events) == Readings(Types(events))[Len(events)]

\* The history of an order that has been claimed and not routed.
Begun(events) ==
  /\ Len(events) >= 2
  /\ \A i \in DOMAIN events : events[i].type \in KnownEvents
  /\ events[1].type = "ORDER_RECEIVED" /\ events[2].type = "ORDER_PROCESSING_STARTED"

\* What the history tells as long as nothing is recorded out of order.
Parsed ==
  StampsGrow(log) /\ order.state \notin {"MISSING"} \cup Routed =>
    /\ Matches(EndOf(log), order, fence # Nobody)
    /\ IF order.state = "RECEIVED" THEN Len(log) = 1 /\ log[1].type = "ORDER_RECEIVED"
       ELSE Begun(log)

(***************************************************************************)
(* Claims.                                                                 *)
(***************************************************************************)
\* Only failed orders carry an origin.
LEMMA OrderFacts ==
  ASSUME TypeOK, RowShape
  PROVE  /\ order = Missing <=> order.state = "MISSING"
         /\ order.state \notin FailureStates => order.origin = NoOrigin
         /\ order.state \in FailureStates => order.origin \in RetryOrigins
         /\ order = [state |-> order.state, origin |-> order.origin]
<1>1. CASE order = Missing
  BY <1>1 DEF Missing, FailureStates
<1>2. CASE order \in Order
  BY <1>2 DEF Order, OrderStates, FailureStates, Missing, RowShape
<1>. QED
  BY <1>1, <1>2 DEF TypeOK

\* The history that a claim reads is as long as the committed one.
LEMMA HistoryLength ==
  ASSUME NEW events \in Seq(Events)
  PROVE  Len(HistoryOf(events)) = Len(events)
<1>1. DOMAIN HistoryOf(events) = 1..Len(events)
  BY DEF HistoryOf
<1>2. HistoryOf(events) = [n \in 1..Len(events) |-> HistoryOf(events)[n]]
  BY DEF HistoryOf
<1>. QED
  BY <1>1, <1>2

\* A claim that resumes a retry finds an order that nobody has taken.
LEMMA ResumesUnowned ==
  ASSUME IInv, NEW origin \in RetryOrigins,
         Recoverable(order.state, HistoryOf(log)),
         RetryUnused(HistoryStatus(HistoryOf(log)), origin)
  PROVE  Unowned
<1>. DEFINE history == HistoryOf(log)
            N == Len(log)
<1>1. log \in Seq(Events) /\ StampsDiffer(log) /\ N \in Nat
  BY DEF IInv, TypeOK, Stamps
<1>2. Len(history) = N
  BY <1>1, HistoryLength
<1>3. HistoryStatus(history).valid
  BY DEF Recoverable
<1>4. Count(history, N, Resumptions) < Count(history, N, Restorations)
  <2>. HIDE DEF history
  <2>. QED
    BY <1>1, <1>2, <1>3, ResumptionNeedsUnusedRetry DEF history
<1>5. /\ Count(history, N, Resumptions) = Count(Types(log), N, Resumptions)
      /\ Count(history, N, Restorations) = Count(Types(log), N, Restorations)
  BY <1>1, HistoryCounts
<1>6. Occurrences("ORDER_PROCESSING_RESUMED") + Occurrences("ORDER_EXTRACTION_RESUMED")
        < Occurrences("ORDER_RETRY_RESTORED")
  BY <1>1, <1>4, <1>5, CountsAgree DEF Occurrences, OccursIn
<1>7. /\ Occurrences("ORDER_PROCESSING_RESUMED") \in Nat
      /\ Occurrences("ORDER_EXTRACTION_RESUMED") \in Nat
      /\ Occurrences("ORDER_RETRY_RESTORED") \in Nat
  <2>1. \A type : Occurrences(type) = OccursIn(log, type)
    BY DEF Occurrences, OccursIn
  <2>2. [type |-> "ORDER_RECEIVED", at |-> 0] \in Events
    BY DEF Events, EventTypes, KnownEvents
  <2>. QED
    BY <1>1, <2>1, <2>2, OneMore
<1>. QED
  BY <1>6, <1>7 DEF IInv, RetryBalance

\* What a claim is granted: the first execution, one that a retry authorized and
\* nobody has taken, or one whose owner's lease is over.
LEMMA GrantFacts ==
  ASSUME IInv, NEW granted, granted = ClaimKind(HistoryOf(log)), granted # "STAND_DOWN"
  PROVE  /\ granted \in ClaimKinds \ {"STAND_DOWN"}
         /\ \/ granted = "INITIAL" /\ order.state = "RECEIVED" /\ fence = Nobody
            \/ /\ granted \in {"RESUME_PROCESSING", "RESUME_EXTRACTED"}
               /\ order.state = StageOf(granted) /\ InProgress /\ fence = Nobody
            \/ /\ granted \in {"RECOVER_PROCESSING", "RECOVER_EXTRACTED"}
               /\ order.state = StageOf(granted) /\ InProgress
               /\ fence # Nobody /\ fenceLeft = 0
<1>. DEFINE history == HistoryOf(log)
            decided == DecideClaimKind(order.state, history)
<1>1. CASE decided = "STAND_DOWN"
  <2>1. granted = RecoverStale(order.state, history)
    BY <1>1 DEF ClaimKind
  <2>2. /\ Recoverable(order.state, history) /\ fence # Nobody /\ fenceLeft = 0
        /\ granted = IF order.state = "PROCESSING" THEN "RECOVER_PROCESSING"
                     ELSE "RECOVER_EXTRACTED"
    BY <2>1 DEF RecoverStale
  <2>3. InProgress
    BY <2>2 DEF IInv, RowShape
  <2>. QED
    BY <2>2, <2>3 DEF InProgress, StageOf, FromProcessing, ProcessingKinds, ClaimKinds
<1>2. CASE decided # "STAND_DOWN"
  <2>1. granted = decided
    BY <1>2 DEF ClaimKind
  <2>2. \/ granted = "INITIAL" /\ order.state = "RECEIVED"
        \/ /\ granted = "RESUME_PROCESSING" /\ order.state = "PROCESSING"
           /\ Recoverable(order.state, history)
           /\ RetryUnused(HistoryStatus(history), order.state)
        \/ /\ granted = "RESUME_EXTRACTED" /\ order.state = "EXTRACTED"
           /\ Recoverable(order.state, history)
           /\ RetryUnused(HistoryStatus(history), order.state)
    BY <1>2, <2>1 DEF DecideClaimKind
  <2>3. CASE granted = "INITIAL" /\ order.state = "RECEIVED"
    BY <2>3 DEF IInv, RowShape, InProgress, ClaimKinds
  <2>4. CASE /\ granted = "RESUME_PROCESSING" /\ order.state = "PROCESSING"
             /\ Recoverable(order.state, history)
             /\ RetryUnused(HistoryStatus(history), order.state)
    <3>1. Unowned
      BY <2>4, ResumesUnowned DEF RetryOrigins
    <3>. QED
      BY <2>4, <3>1 DEF Unowned, StageOf, FromProcessing, ProcessingKinds, ClaimKinds
  <2>5. CASE /\ granted = "RESUME_EXTRACTED" /\ order.state = "EXTRACTED"
             /\ Recoverable(order.state, history)
             /\ RetryUnused(HistoryStatus(history), order.state)
    <3>1. Unowned
      BY <2>5, ResumesUnowned DEF RetryOrigins
    <3>. QED
      BY <2>5, <3>1 DEF Unowned, StageOf, FromProcessing, ProcessingKinds, ClaimKinds
  <2>. QED
    BY <2>2, <2>3, <2>4, <2>5
<1>. QED
  BY <1>1, <1>2

(***************************************************************************)
(* What one request records.                                               *)
(***************************************************************************)
\* Stamps of a request come in order and stay within its gap.
LEMMA NextStampFacts ==
  /\ \A place : NextStamp(place) \in 0..3
  /\ NextStamp("create") = 0 /\ NextStamp("claim") = 1 /\ NextStamp("work") = 2
  /\ NextStamp("validate") = 3 /\ NextStamp("route") = 3
  BY DEF NextStamp

\* An event of the model, and a sequence of one.
LEMMA EventIn ==
  ASSUME NEW rank \in Nat, NEW k \in Nat, NEW type \in EventTypes
  PROVE  /\ Event(rank, k, type) \in Events
         /\ Event(rank, k, type).type = type
         /\ Event(rank, k, type).at = Gap * rank + k
  BY DEF Event, Events, Gap

\* A sequence of one event.
LEMMA OneEvent ==
  ASSUME NEW events \in Seq(Events), NEW event \in Events
  PROVE  /\ Append(events, event) = events \o <<event>>
         /\ <<event>> \in Seq(Events) /\ StampsGrow(<<event>>)
         /\ DOMAIN <<event>> = {1} /\ <<event>>[1] = event
  BY DEF StampsGrow

\* The gaps of two requests do not meet.
LEMMA GapFacts ==
  ASSUME NEW a \in Nat, NEW b \in Nat, NEW x \in Nat,
         NEW m \in 0..3, NEW n \in 0..3, NEW last \in 0..8
  PROVE  /\ n <= m /\ (x < Gap * a + n \/ x >= Gap * (a + 1)) =>
              x < Gap * a + m \/ x >= Gap * (a + 1)
         /\ last <= m /\ x < Gap * a + last => x < Gap * a + m
         /\ a # b /\ Gap * b + n <= x /\ x < Gap * b + last =>
              x < Gap * a + m \/ x >= Gap * (a + 1)
  BY DEF Gap

\* Recording within the part of its gap that a request has not used keeps all
\* stamps different and the other requests' gaps free.
LEMMA StampsAfter ==
  ASSUME IInv, NEW r \in Requests, pc[r] \in Running,
         NEW more \in Seq(Events), log' = log \o more, StampsGrow(more),
         NEW last \in 0..Gap,
         \A i \in DOMAIN more : /\ Gap * arrived[r] + NextStamp(pc[r]) <= more[i].at
                                /\ more[i].at < Gap * arrived[r] + last,
         \A s \in Requests \ {r} : pc'[s] = pc[s],
         pc'[r] \in Running => /\ NextStamp(pc[r]) <= NextStamp(pc'[r])
                               /\ last <= NextStamp(pc'[r]),
         arrived' = arrived, clock' = clock
  PROVE  Stamps'
<1>1. /\ log \in Seq(Events) /\ clock \in Nat
      /\ arrived \in [Requests -> Nat] /\ pc \in [Requests -> Places]
  BY DEF IInv, TypeOK
<1>2. Stamps
  BY DEF IInv
<1>3. pc[r] # "new" /\ arrived[r] \in 1..clock /\ arrived[r] \in Nat
  BY <1>1, <1>2 DEF Stamps, Running, Working
<1>4. Gap = 8 /\ NextStamp(pc[r]) \in 0..3 /\ \A s : NextStamp(pc'[s]) \in 0..3
  BY NextStampFacts DEF Gap
<1>5. \A i \in DOMAIN log : log[i].at \in Nat
  BY <1>1, EventFacts
<1>6. \A i \in DOMAIN more : more[i].at \in Nat
  BY EventFacts
<1>7. StampsDiffer(log')
  <2>. DEFINE lo == Gap * arrived[r] + NextStamp(pc[r])
              hi == Gap * (arrived[r] + 1)
  <2>1. lo \in Nat /\ hi \in Nat
    BY <1>3, <1>4
  <2>2. \A i \in DOMAIN log : log[i].at < lo \/ log[i].at >= hi
    BY <1>2 DEF Stamps
  <2>3. \A i \in DOMAIN more : lo <= more[i].at /\ more[i].at < hi
    BY <1>3, <1>4, <1>6
  <2>4. StampsDiffer(log)
    BY <1>2 DEF Stamps
  <2>. HIDE DEF lo, hi
  <2>. QED
    BY <1>1, <2>1, <2>2, <2>3, <2>4, FreshStamps
<1>8. \A i \in DOMAIN log' :
        \/ \E j \in DOMAIN log : log'[i].at = log[j].at
        \/ \E j \in DOMAIN more : log'[i].at = more[j].at
  <2>1. \A i \in DOMAIN (log \o more) :
          \/ i \in DOMAIN log /\ (log \o more)[i] = log[i]
          \/ /\ i - Len(log) \in DOMAIN more
             /\ (log \o more)[i] = more[i - Len(log)]
    BY <1>1, RecordFacts
  <2>. QED
    BY <2>1
<1>9. \A i \in DOMAIN log' : log'[i].at < Gap * (clock' + 1)
  <2>. SUFFICES ASSUME NEW i \in DOMAIN log' PROVE log'[i].at < Gap * (clock' + 1)
    OBVIOUS
  <2>1. CASE \E j \in DOMAIN log : log'[i].at = log[j].at
    BY <1>2, <2>1 DEF Stamps
  <2>2. CASE \E j \in DOMAIN more : log'[i].at = more[j].at
    <3>1. PICK j \in DOMAIN more : log'[i].at = more[j].at
      BY <2>2
    <3>2. more[j].at < Gap * arrived[r] + last
      OBVIOUS
    <3>. QED
      BY <1>1, <1>3, <1>4, <1>6, <3>1, <3>2
  <2>. QED
    BY <1>8, <2>1, <2>2
<1>10. \A s \in Requests : pc'[s] # "new" => pc[s] # "new"
  BY <1>3
<1>11. \A s \in Requests, i \in DOMAIN log' :
         pc'[s] \in Running =>
           \/ log'[i].at < Gap * arrived'[s] + NextStamp(pc'[s])
           \/ log'[i].at >= Gap * (arrived'[s] + 1)
  <2>. SUFFICES ASSUME NEW s \in Requests, NEW i \in DOMAIN log', pc'[s] \in Running
                PROVE  \/ log'[i].at < Gap * arrived[s] + NextStamp(pc'[s])
                       \/ log'[i].at >= Gap * (arrived[s] + 1)
    OBVIOUS
  <2>1. /\ pc[s] \in Running /\ pc[s] # "new" /\ arrived[s] \in Nat
        /\ NextStamp(pc[s]) <= NextStamp(pc'[s])
        /\ NextStamp(pc[s]) \in 0..3 /\ NextStamp(pc'[s]) \in 0..3
    BY <1>1, NextStampFacts DEF Running, Working
  <2>2. CASE \E j \in DOMAIN log : log'[i].at = log[j].at
    <3>1. PICK j \in DOMAIN log : log'[i].at = log[j].at
      BY <2>2
    <3>2. \/ log[j].at < Gap * arrived[s] + NextStamp(pc[s])
          \/ log[j].at >= Gap * (arrived[s] + 1)
      BY <1>2, <2>1 DEF Stamps
    <3>3. log[j].at \in Nat
      BY <1>5
    <3>. QED
      BY <2>1, <3>1, <3>2, <3>3, GapFacts, 0 \in 0..8
  <2>3. CASE \E j \in DOMAIN more : log'[i].at = more[j].at
    <3>1. PICK j \in DOMAIN more : log'[i].at = more[j].at
      BY <2>3
    <3>2. /\ Gap * arrived[r] + NextStamp(pc[r]) <= more[j].at
          /\ more[j].at < Gap * arrived[r] + last /\ more[j].at \in Nat
      BY <1>6
    <3>3. CASE s = r
      <4>1. last <= NextStamp(pc'[s])
        BY <3>3
      <4>2. last \in 0..8
        BY DEF Gap
      <4>. QED
        BY <1>4, <2>1, <3>1, <3>2, <3>3, <4>1, <4>2, GapFacts
    <3>4. CASE s # r
      <4>1. arrived[s] # arrived[r]
        BY <1>2, <1>3, <2>1, <3>4 DEF Stamps
      <4>2. last \in 0..8
        BY DEF Gap
      <4>. DEFINE m == NextStamp(pc'[s])
                  n == NextStamp(pc[r])
                  x == more[j].at
      <4>3. x < Gap * arrived[s] + m \/ x >= Gap * (arrived[s] + 1)
        <5>1. m \in 0..3 /\ n \in 0..3 /\ x \in Nat
          BY <1>4, <2>1, <3>2
        <5>2. Gap * arrived[r] + n <= x /\ x < Gap * arrived[r] + last
          BY <3>2
        <5>. HIDE DEF m, n, x
        <5>. QED
          BY <1>3, <2>1, <4>1, <4>2, <5>1, <5>2, GapFacts
      <4>. QED
        BY <3>1, <4>3
    <3>. QED
      BY <3>3, <3>4
  <2>. QED
    BY <1>8, <2>2, <2>3
<1>. QED
  BY <1>2, <1>7, <1>9, <1>10, <1>11 DEF Stamps

\* Counting after one event, and after several of other types.
LEMMA OccursAfter ==
  ASSUME log \in Seq(Events), NEW event \in Events, log' = Append(log, event), NEW type
  PROVE  /\ Occurrences(type) \in Nat
         /\ Occurrences(type)' = Occurrences(type) + (IF event.type = type THEN 1 ELSE 0)
<1>1. /\ Occurrences(type) = OccursIn(log, type)
      /\ Occurrences(type)' = OccursIn(Append(log, event), type)
  BY DEF Occurrences, OccursIn
<1>. QED
  BY <1>1, OneMore

\* Three events of other types leave the count of a type alone.
LEMMA OccursAfterMore ==
  ASSUME log \in Seq(Events), NEW a \in Events, NEW b \in Events, NEW c \in Events,
         log' = log \o <<a, b, c>>, NEW type, type \notin {a.type, b.type, c.type}
  PROVE  Occurrences(type)' = Occurrences(type)
<1>1. log' = Append(Append(Append(log, a), b), c)
  OBVIOUS
<1>2. Append(log, a) \in Seq(Events) /\ Append(Append(log, a), b) \in Seq(Events)
  OBVIOUS
<1>3. /\ OccursIn(log, type) \in Nat
      /\ OccursIn(Append(log, a), type) = OccursIn(log, type)
  BY OneMore
<1>4. OccursIn(Append(Append(log, a), b), type) = OccursIn(Append(log, a), type)
  <2>. DEFINE l == Append(log, a)
  <2>1. OccursIn(l, type) \in Nat
    BY <1>3
  <2>. HIDE DEF l
  <2>2. OccursIn(Append(l, b), type) = OccursIn(l, type) + (IF b.type = type THEN 1 ELSE 0)
    BY <1>2, OneMore DEF l
  <2>3. OccursIn(Append(l, b), type) = OccursIn(l, type)
    BY <2>1, <2>2
  <2>. QED
    BY <2>3 DEF l
<1>5. OccursIn(Append(Append(Append(log, a), b), c), type) =
        OccursIn(Append(Append(log, a), b), type)
  <2>. DEFINE l == Append(Append(log, a), b)
  <2>1. OccursIn(l, type) \in Nat
    BY <1>3, <1>4
  <2>. HIDE DEF l
  <2>2. OccursIn(Append(l, c), type) = OccursIn(l, type) + (IF c.type = type THEN 1 ELSE 0)
    BY <1>2, OneMore DEF l
  <2>3. OccursIn(Append(l, c), type) = OccursIn(l, type)
    BY <2>1, <2>2
  <2>. QED
    BY <2>3 DEF l
<1>. QED
  BY <1>1, <1>3, <1>4, <1>5 DEF Occurrences, OccursIn

(***************************************************************************)
(* IInv is inductive: one lemma per action.                                *)
(***************************************************************************)
LEMMA InitIInv == Init => IInv
<1>. SUFFICES ASSUME Init PROVE IInv
  OBVIOUS
<1>. USE DEF Init
<1>1. TypeOK
  <2>1. 0 \in 0..Lease /\ 0 \in 0..Budget
    BY LeaseAssumption
  <2>2. log \in Seq(Events)
    BY SMT
  <2>4. snapshot \in BOOLEAN /\ order \in {Missing} \cup Order
    BY Zenon
  <2>5. clock \in Nat /\ fence \in Requests \cup {Nobody}
    OBVIOUS
  <2>3. /\ pc \in [Requests -> Places] /\ answer \in [Requests -> Answers]
        /\ kind \in [Requests -> ClaimKinds] /\ arrived \in [Requests -> Nat]
        /\ left \in [Requests -> {Late} \cup 0..Budget]
    BY <2>1 DEF Places, Answers, ClaimKinds
  <2>. QED
    BY <2>1, <2>2, <2>3, <2>4, <2>5 DEF TypeOK
<1>2. RowShape
  BY NamesAssumption DEF RowShape, Missing, InProgress, FailureStates, Routed
<1>3. RequestShape /\ Ownership
  BY NamesAssumption DEF RequestShape, Ownership, Working
<1>4. Stamps
  BY DEF Stamps, StampsDiffer, Running, Working
<1>5. RetryBalance
  <2>1. \A type : Occurrences(type) = 0
    BY FS_EmptySet DEF Occurrences
  <2>2. ~Unowned
    BY DEF Unowned, InProgress, Missing
  <2>. QED
    BY <2>1, <2>2 DEF RetryBalance
<1>. QED
  BY <1>1, <1>2, <1>3, <1>4, <1>5 DEF IInv

\* A request that only moves on, on a row that stays as it is.
LEMMA QuietStep ==
  ASSUME IInv, NEW r \in Requests, pc[r] \in Running,
         NEW place \in {"claim", "validate", "route", "done"},
         pc' = [pc EXCEPT ![r] = place], answer' \in [Requests -> Answers],
         UNCHANGED <<row, content, arrived, left, kind, clock>>,
         NextStamp(pc[r]) <= NextStamp(place),
         place = "claim" => order # Missing /\ content[r] = body /\ fence # r,
         place \in Working =>
           pc[r] \in Working /\ (fence = r => order.state = "EXTRACTED")
  PROVE  IInv'
<1>. USE DEF row
<1>0. /\ pc \in [Requests -> Places] /\ pc'[r] = place
      /\ \A s \in Requests \ {r} : pc'[s] = pc[s]
  BY DEF IInv, TypeOK
<1>1. TypeOK'
  BY DEF IInv, TypeOK, Places, Running, Working
<1>2. RowShape'
  BY DEF IInv, RowShape, InProgress
<1>3. RequestShape'
  <2>. SUFFICES ASSUME NEW s \in Requests
                PROVE  /\ pc'[s] \in {"claim"} \cup Working =>
                            order # Missing /\ content[s] = body
                       /\ fence = s => pc'[s] \in Working \cup {"done"}
                       /\ fence = s /\ pc'[s] = "work" => order.state = StageOf(kind[s])
                       /\ fence = s /\ pc'[s] \in {"validate", "route"} =>
                            order.state = "EXTRACTED"
    BY DEF RequestShape, StageOf
  <2>1. CASE s = r
    <3>1. pc'[s] = place /\ place # "work"
      BY <1>0, <2>1
    <3>2. CASE place = "claim"
      BY <2>1, <3>1, <3>2
    <3>3. CASE place \in {"validate", "route"}
      <4>1. pc[r] \in Working
        BY <3>3 DEF Working
      <4>2. order # Missing /\ content[r] = body
        BY <4>1 DEF IInv, RequestShape
      <4>. QED
        BY <2>1, <3>1, <3>3, <4>2 DEF Working
    <3>4. CASE place = "done"
      BY <3>1, <3>4 DEF Working
    <3>. QED
      BY <3>2, <3>3, <3>4
  <2>2. CASE s # r
    BY <1>0, <2>2 DEF IInv, RequestShape
  <2>. QED
    BY <2>1, <2>2
<1>4. Ownership'
  <2>. SUFFICES ASSUME NEW s \in Requests, pc'[s] \in Working, left[s] # Late
                PROVE  fence = s /\ left[s] < fenceLeft
    BY DEF Ownership
  <2>1. pc[s] \in Working
    <3>1. CASE s = r
      BY <1>0, <3>1
    <3>2. CASE s # r
      BY <1>0, <3>2
    <3>. QED
      BY <3>1, <3>2
  <2>. QED
    BY <2>1 DEF IInv, Ownership
<1>5. Stamps'
  <2>. DEFINE more == <<>>
  <2>1. log \in Seq(Events)
    BY DEF IInv, TypeOK
  <2>2. /\ more \in Seq(Events) /\ log' = log \o more /\ StampsGrow(more)
        /\ DOMAIN more = {}
    BY <2>1 DEF StampsGrow
  <2>3. NextStamp(pc[r]) \in 0..Gap /\ 0 \in 0..Gap /\ \A s : 0 <= NextStamp(s)
    BY NextStampFacts DEF Gap
  <2>. HIDE DEF more
  <2>. QED
    BY <1>0, <2>2, <2>3, StampsAfter
<1>6. RetryBalance'
  BY DEF IInv, RetryBalance, Unowned, InProgress, Occurrences
<1>. QED
  BY <1>1, <1>2, <1>3, <1>4, <1>5, <1>6 DEF IInv

\* Arriving, being answered without work, and moving on.
LEMMA ArriveStep == ASSUME IInv, NEW r \in Requests, Arrive(r) PROVE IInv'
<1>. USE DEF Arrive, row
<1>1. TypeOK'
  BY LeaseAssumption DEF IInv, TypeOK, Places, Running
<1>2. RowShape'
  BY DEF IInv, RowShape, InProgress
<1>0. /\ pc \in [Requests -> Places] /\ arrived \in [Requests -> Nat] /\ clock \in Nat
      /\ left \in [Requests -> {Late} \cup 0..Budget] /\ log \in Seq(Events)
      /\ pc'[r] = "create" /\ arrived'[r] = clock + 1
      /\ \A s \in Requests \ {r} : /\ pc'[s] = pc[s] /\ arrived'[s] = arrived[s]
                                  /\ left'[s] = left[s]
  BY DEF IInv, TypeOK
<1>3. RequestShape'
  <2>. SUFFICES ASSUME NEW s \in Requests
                PROVE  /\ pc'[s] \in {"claim"} \cup Working =>
                            order # Missing /\ content[s] = body
                       /\ fence = s => pc'[s] \in Working \cup {"done"}
                       /\ fence = s /\ pc'[s] = "work" => order.state = StageOf(kind[s])
                       /\ fence = s /\ pc'[s] \in {"validate", "route"} =>
                            order.state = "EXTRACTED"
    BY DEF RequestShape, StageOf
  <2>1. CASE s = r
    BY <1>0, <2>1 DEF IInv, RequestShape, Working
  <2>2. CASE s # r
    BY <1>0, <2>2 DEF IInv, RequestShape
  <2>. QED
    BY <2>1, <2>2
<1>4. Ownership'
  BY <1>0 DEF IInv, Ownership, Working
<1>5. Stamps'
  <2>1. \A i \in DOMAIN log : log[i].at \in Nat /\ log[i].at < Gap * (clock + 1)
    BY <1>0, EventFacts DEF IInv, Stamps
  <2>2. \A i \in DOMAIN log : log[i].at < Gap * (clock' + 1)
    BY <1>0, <2>1 DEF Gap
  <2>3. \A s \in Requests : pc'[s] # "new" => arrived'[s] \in 1..clock'
    BY <1>0 DEF IInv, Stamps
  <2>4. \A s, t \in Requests :
          pc'[s] # "new" /\ pc'[t] # "new" /\ arrived'[s] = arrived'[t] => s = t
    <3>1. \A s \in Requests \ {r} : pc'[s] # "new" => arrived'[s] \in 1..clock
      BY <1>0 DEF IInv, Stamps
    <3>2. \A s, t \in Requests \ {r} :
            pc'[s] # "new" /\ pc'[t] # "new" /\ arrived'[s] = arrived'[t] => s = t
      BY <1>0 DEF IInv, Stamps
    <3>. QED
      BY <1>0, <3>1, <3>2
  <2>5. \A s \in Requests, i \in DOMAIN log :
          pc'[s] \in Running =>
            \/ log[i].at < Gap * arrived'[s] + NextStamp(pc'[s])
            \/ log[i].at >= Gap * (arrived'[s] + 1)
    <3>. SUFFICES ASSUME NEW s \in Requests, NEW i \in DOMAIN log, pc'[s] \in Running
                  PROVE  \/ log[i].at < Gap * arrived'[s] + NextStamp(pc'[s])
                         \/ log[i].at >= Gap * (arrived'[s] + 1)
      OBVIOUS
    <3>1. CASE s = r
      BY <1>0, <2>1, <3>1, NextStampFacts DEF Gap
    <3>2. CASE s # r
      BY <1>0, <3>2 DEF IInv, Stamps
    <3>. QED
      BY <3>1, <3>2
  <2>. QED
    BY <2>2, <2>3, <2>4, <2>5 DEF IInv, Stamps
<1>6. RetryBalance'
  BY DEF IInv, RetryBalance, Unowned, InProgress, Occurrences
<1>. QED
  BY <1>1, <1>2, <1>3, <1>4, <1>5, <1>6 DEF IInv

\* An existing order answers a delivery that owns nothing yet.
LEMMA ReplayStep == ASSUME IInv, NEW r \in Requests, ReplayOrder(r) PROVE IInv'
<1>1. pc[r] = "create" /\ pc[r] \in Running /\ order # Missing
  BY DEF ReplayOrder, Running
<1>2. NextStamp(pc[r]) <= NextStamp("claim") /\ NextStamp(pc[r]) <= NextStamp("done")
  BY <1>1 DEF NextStamp
<1>3. fence # r
  BY <1>1 DEF IInv, RequestShape, Working
<1>4. UNCHANGED <<row, content, arrived, left, kind, clock>>
  BY DEF ReplayOrder, GoTo, Finish
<1>5. answer \in [Requests -> Answers]
  BY DEF IInv, TypeOK
<1>6. CASE SameContent(r) /\ GoTo(r, "claim")
  <2>1. pc' = [pc EXCEPT ![r] = "claim"] /\ answer' \in [Requests -> Answers]
    BY <1>5, <1>6 DEF GoTo
  <2>2. content[r] = body
    BY <1>6 DEF SameContent
  <2>. QED
    BY <1>1, <1>2, <1>3, <1>4, <2>1, <2>2, QuietStep DEF Working
<1>7. CASE Finish(r, "conflict")
  <2>1. pc' = [pc EXCEPT ![r] = "done"] /\ answer' \in [Requests -> Answers]
    BY <1>5, <1>7 DEF Finish, Answers
  <2>. QED
    BY <1>1, <1>2, <1>4, <2>1, QuietStep DEF Working
<1>. QED
  BY <1>6, <1>7 DEF ReplayOrder

\* Ending without having done anything to the row.
LEMMA EndStep ==
  ASSUME IInv, NEW r \in Requests, pc[r] \in Running, NEW told \in Answers,
         Finish(r, told), UNCHANGED <<row, clock>>
  PROVE  IInv'
<1>1. NextStamp(pc[r]) <= NextStamp("done")
  BY NextStampFacts DEF NextStamp
<1>2. answer \in [Requests -> Answers]
  BY DEF IInv, TypeOK
<1>3. /\ pc' = [pc EXCEPT ![r] = "done"] /\ answer' \in [Requests -> Answers]
      /\ UNCHANGED <<row, content, arrived, left, kind, clock>>
  BY <1>2 DEF Finish
<1>. QED
  BY <1>1, <1>3, QuietStep DEF Working

\* A request that finds others at work ends without a trace in the row.
LEMMA StandDownStep == ASSUME IInv, NEW r \in Requests, StandDown(r) PROVE IInv'
<1>1. pc[r] \in Running /\ UNCHANGED <<row, clock>>
  BY DEF StandDown, Running
<1>2. PICK told \in Answers : Finish(r, told)
  BY DEF StandDown, Answers
<1>. QED
  BY <1>1, <1>2, EndStep

\* So does one that fails or is lost; its fence stays behind.
LEMMA GiveUpStep == ASSUME IInv, NEW r \in Requests, GiveUp(r) PROVE IInv'
<1>1. pc[r] \in Running /\ UNCHANGED <<row, clock>> /\ Finish(r, "unavailable")
  BY DEF GiveUp
<1>. QED
  BY <1>1, EndStep DEF Answers

\* The owner moves on to the decision without touching the row.
LEMMA GatherStep == ASSUME IInv, NEW r \in Requests, GatherFacts(r) PROVE IInv'
<1>1. pc[r] = "validate" /\ pc[r] \in Running /\ pc[r] \in Working
  BY DEF GatherFacts, Running, Working
<1>2. NextStamp(pc[r]) <= NextStamp("route")
  BY <1>1 DEF NextStamp
<1>3. answer' \in [Requests -> Answers]
  BY DEF IInv, TypeOK, GatherFacts, GoTo
<1>4. /\ pc' = [pc EXCEPT ![r] = "route"] /\ order.state = "EXTRACTED"
      /\ UNCHANGED <<row, content, arrived, left, kind, clock>>
  BY DEF GatherFacts, GoTo
<1>. QED
  BY <1>1, <1>2, <1>3, <1>4, QuietStep

\* Stamps after one event at offset k of the request's gap.
LEMMA StampsAfterOne ==
  ASSUME IInv, NEW r \in Requests, pc[r] \in Running,
         NEW k \in 0..7, NEW type \in EventTypes, NEW place \in Places,
         log' = Append(log, Event(arrived[r], k, type)),
         pc' = [pc EXCEPT ![r] = place], NextStamp(pc[r]) <= k,
         place \in Running => k < NextStamp(place),
         arrived' = arrived, clock' = clock
  PROVE  Stamps' /\ log' \in Seq(Events)
<1>. DEFINE event == Event(arrived[r], k, type)
            more  == <<event>>
            last  == k + 1
<1>1. /\ log \in Seq(Events) /\ arrived[r] \in Nat /\ pc \in [Requests -> Places]
  BY DEF IInv, TypeOK
<1>2. event \in Events /\ event.at = Gap * arrived[r] + k
  BY <1>1, EventIn
<1>3. /\ log' = log \o more /\ more \in Seq(Events) /\ StampsGrow(more)
      /\ DOMAIN more = {1} /\ more[1] = event
  BY <1>1, <1>2, OneEvent
<1>4. /\ pc'[r] = place /\ \A s \in Requests \ {r} : pc'[s] = pc[s]
  BY <1>1
<1>5. /\ NextStamp(pc[r]) \in 0..3 /\ NextStamp(place) \in 0..3
      /\ last \in 0..Gap
  BY NextStampFacts DEF Gap
<1>6. \A i \in DOMAIN more : /\ Gap * arrived[r] + NextStamp(pc[r]) <= more[i].at
                             /\ more[i].at < Gap * arrived[r] + last
  BY <1>1, <1>2, <1>3, <1>5 DEF Gap
<1>7. pc'[r] \in Running => /\ NextStamp(pc[r]) <= NextStamp(pc'[r])
                            /\ last <= NextStamp(pc'[r])
  BY <1>4, <1>5
<1>8. log' \in Seq(Events)
  BY <1>1, <1>3
<1>9. Stamps'
  <2>. HIDE DEF event, more, last
  <2>. QED
    BY <1>3, <1>4, <1>5, <1>6, <1>7, StampsAfter
<1>. QED
  BY <1>8, <1>9

\* The first event of the order, with the first stamp of its request.
LEMMA CreateStep == ASSUME IInv, NEW r \in Requests, CreateOrder(r) PROVE IInv'
<1>. DEFINE event == Event(arrived[r], 0, "ORDER_RECEIVED")
<1>1. /\ pc[r] = "create" /\ pc[r] \in Running /\ order = Missing
      /\ order' = [state |-> "RECEIVED", origin |-> NoOrigin] /\ body' = content[r]
      /\ log' = Append(log, event) /\ pc' = [pc EXCEPT ![r] = "claim"]
      /\ UNCHANGED <<content, arrived, left, answer, fence, fenceLeft, snapshot, kind,
                     clock>>
  BY DEF CreateOrder, GoTo, Running
<1>2. /\ pc \in [Requests -> Places] /\ log \in Seq(Events) /\ arrived[r] \in Nat
      /\ pc'[r] = "claim" /\ \A s \in Requests \ {r} : pc'[s] = pc[s]
  BY <1>1 DEF IInv, TypeOK
<1>3. event \in Events /\ event.type = "ORDER_RECEIVED"
  <2>1. "ORDER_RECEIVED" \in EventTypes /\ 0 \in Nat /\ arrived[r] \in Nat
    BY <1>2 DEF EventTypes, KnownEvents
  <2> QED BY <2>1, EventIn
<1>4. Stamps' /\ log' \in Seq(Events)
  <2>1. NextStamp(pc[r]) <= 0 /\ 0 < NextStamp("claim") /\ 0 \in 0..7
    BY <1>1, NextStampFacts
  <2>2. "claim" \in Places /\ "ORDER_RECEIVED" \in EventTypes
    BY DEF EventTypes, KnownEvents, Places, Running
  <2>. QED
    BY <1>1, <2>1, <2>2, StampsAfterOne
<1>5. fence = Nobody /\ ~snapshot /\ log = <<>> /\ ~Unowned
      /\ \A s \in Requests : pc[s] \notin {"claim"} \cup Working
  BY <1>1 DEF IInv, RowShape, RequestShape, Missing, Unowned, InProgress, FailureStates,
              Routed, TypeOK
<1>6. TypeOK'
  <2>1. order' \in Order
    BY <1>1 DEF Order, OrderStates, FailureStates
  <2>. QED
    BY <1>1, <1>4, <2>1 DEF IInv, TypeOK, Places, Running
<1>7. RowShape'
  BY <1>1, <1>5 DEF RowShape, Missing, FailureStates, Routed
<1>8. order' # Missing
  BY <1>1 DEF Missing
<1>9. RequestShape'
  BY <1>1, <1>2, <1>5, <1>8, NamesAssumption DEF RequestShape, Working, StageOf
<1>10. Ownership'
  BY <1>2, <1>5 DEF Ownership, Working
<1>11. RetryBalance'
  <2>1. ~Unowned'
    BY <1>1 DEF Unowned, InProgress
  <2>2. \A type : Occurrences(type) \in Nat /\
                  Occurrences(type)' = Occurrences(type) + (IF event.type = type THEN 1 ELSE 0)
    <3>. HIDE DEF event
    <3>. QED
      BY <1>1, <1>2, <1>3, OccursAfter
  <2>. QED
    BY <1>3, <1>5, <2>1, <2>2 DEF IInv, RetryBalance
<1>. QED
  BY <1>4, <1>6, <1>7, <1>9, <1>10, <1>11 DEF IInv

\* A claim takes the order and the fence, and uses up a retry or nothing.
LEMMA ClaimStep == ASSUME IInv, NEW r \in Requests, Claim(r) PROVE IInv'
<1>. DEFINE granted == ClaimKind(HistoryOf(log))
            event == Event(arrived[r], 1, ClaimEvent[granted])
<1>1. /\ pc[r] = "claim" /\ pc[r] \in Running /\ granted # "STAND_DOWN"
      /\ order' = IF granted = "INITIAL" THEN TransitionTo(order, "PROCESSING") ELSE order
      /\ log' = Append(log, event) /\ fence' = r /\ fenceLeft' = Lease
      /\ kind' = [kind EXCEPT ![r] = granted] /\ pc' = [pc EXCEPT ![r] = "work"]
      /\ UNCHANGED <<content, arrived, left, answer, body, snapshot, clock>>
  BY DEF Claim, GoTo, Running, FullLease
<1>2. /\ granted \in ClaimKinds \ {"STAND_DOWN"}
      /\ \/ granted = "INITIAL" /\ order.state = "RECEIVED" /\ fence = Nobody
         \/ /\ granted \in {"RESUME_PROCESSING", "RESUME_EXTRACTED"}
            /\ order.state = StageOf(granted) /\ InProgress /\ fence = Nobody
         \/ /\ granted \in {"RECOVER_PROCESSING", "RECOVER_EXTRACTED"}
            /\ order.state = StageOf(granted) /\ InProgress
            /\ fence # Nobody /\ fenceLeft = 0
  <2>. HIDE DEF granted
  <2>. QED
    BY <1>1, GrantFacts DEF granted
<1>. HIDE DEF granted
<1>3. /\ pc \in [Requests -> Places] /\ kind \in [Requests -> ClaimKinds]
      /\ log \in Seq(Events) /\ arrived[r] \in Nat
      /\ pc'[r] = "work" /\ kind'[r] = granted
      /\ \A s \in Requests \ {r} : pc'[s] = pc[s] /\ kind'[s] = kind[s]
  BY <1>1 DEF IInv, TypeOK
<1>4. ClaimEvent[granted] \in EventTypes
  BY <1>2 DEF ClaimEvent, ClaimKinds, EventTypes, KnownEvents
<1>5. event \in Events /\ event.type = ClaimEvent[granted]
  BY <1>3, <1>4, EventIn
<1>6. Stamps' /\ log' \in Seq(Events)
  <2>1. NextStamp(pc[r]) <= 1 /\ 1 < NextStamp("work") /\ 1 \in 0..7
    BY <1>1, NextStampFacts
  <2>2. "work" \in Places
    BY DEF Places, Running, Working
  <2>. QED
    BY <1>1, <1>4, <2>1, <2>2, StampsAfterOne
<1>7. /\ order' \in Order /\ order'.state = StageOf(granted) /\ order' # Missing
      /\ order'.origin = NoOrigin /\ InProgress'
  <2>1. CASE granted = "INITIAL"
    BY <1>1, <2>1 DEF TransitionTo, Order, OrderStates, FailureStates, StageOf,
                      FromProcessing, ProcessingKinds, InProgress, Missing
  <2>2. CASE granted # "INITIAL"
    <3>1. order' = order /\ InProgress /\ order.state = StageOf(granted)
      BY <1>1, <1>2, <2>2
    <3>2. order \in {Missing} \cup Order
      BY DEF IInv, TypeOK
    <3>. QED
      BY <3>1, <3>2 DEF InProgress, Missing, Order, FailureStates
  <2>. QED
    BY <2>1, <2>2
<1>8. ~snapshot
  BY <1>2 DEF IInv, RowShape, InProgress, Routed
<1>9. TypeOK'
  BY <1>1, <1>2, <1>6, <1>7, LeaseAssumption DEF IInv, TypeOK, Places, Running, Working
<1>10. RowShape'
  BY <1>1, <1>7, <1>8 DEF RowShape, InProgress, FailureStates
<1>11. order # Missing /\ content[r] = body
  BY <1>1 DEF IInv, RequestShape
<1>12. RequestShape'
  <2>. SUFFICES ASSUME NEW s \in Requests
                PROVE  /\ pc'[s] \in {"claim"} \cup Working =>
                            order' # Missing /\ content'[s] = body'
                       /\ fence' = s => pc'[s] \in Working \cup {"done"}
                       /\ fence' = s /\ pc'[s] = "work" => order'.state = StageOf(kind'[s])
                       /\ fence' = s /\ pc'[s] \in {"validate", "route"} =>
                            order'.state = "EXTRACTED"
    BY DEF RequestShape, StageOf
  <2>1. CASE s = r
    BY <1>1, <1>3, <1>7, <1>11, <2>1 DEF Working
  <2>2. CASE s # r
    BY <1>1, <1>3, <1>7, <2>2 DEF IInv, RequestShape
  <2>. QED
    BY <2>1, <2>2
<1>13. Ownership'
  <2>. SUFFICES ASSUME NEW s \in Requests, pc'[s] \in Working, left[s] # Late
                PROVE  s = r /\ left[s] < Lease
    BY <1>1 DEF Ownership
  <2>1. left[s] \in 0..Budget
    BY DEF IInv, TypeOK
  <2>2. s = r
    <3>. SUFFICES ASSUME s # r PROVE FALSE
      OBVIOUS
    <3>1. fence = s /\ left[s] < fenceLeft
      BY <1>3 DEF IInv, Ownership
    <3>. QED
      BY <1>2, <2>1, <3>1, NamesAssumption
  <2>. QED
    BY <2>1, <2>2, LeaseAssumption
<1>14. RetryBalance'
  <2>1. ~Unowned'
    BY <1>1, NamesAssumption DEF Unowned
  <2>2. \A type : Occurrences(type) \in Nat /\
                  Occurrences(type)' = Occurrences(type) + (IF event.type = type THEN 1 ELSE 0)
    <3>. HIDE DEF event
    <3>. QED
      BY <1>1, <1>3, <1>5, OccursAfter
  <2>3. Unowned <=> granted \in {"RESUME_PROCESSING", "RESUME_EXTRACTED"}
    BY <1>2 DEF Unowned, InProgress
  <2>4. CASE granted \in {"RESUME_PROCESSING", "RESUME_EXTRACTED"}
    <3>1. event.type \in {"ORDER_PROCESSING_RESUMED", "ORDER_EXTRACTION_RESUMED"}
      BY <1>5, <2>4 DEF ClaimEvent
    <3>. QED
      BY <2>1, <2>2, <2>3, <2>4, <3>1 DEF IInv, RetryBalance
  <2>5. CASE granted \notin {"RESUME_PROCESSING", "RESUME_EXTRACTED"}
    <3>1. event.type \notin {"ORDER_PROCESSING_RESUMED", "ORDER_EXTRACTION_RESUMED",
                             "ORDER_RETRY_RESTORED"}
      BY <1>2, <1>5, <2>5 DEF ClaimEvent, ClaimKinds
    <3>. QED
      BY <2>1, <2>2, <2>3, <2>5, <3>1 DEF IInv, RetryBalance
  <2>. QED
    BY <2>4, <2>5
<1>. QED
  BY <1>6, <1>9, <1>10, <1>12, <1>13, <1>14 DEF IInv

\* The extraction is recorded and ownership goes on into validation.
LEMMA CompleteStep == ASSUME IInv, NEW r \in Requests, CompleteExtraction(r) PROVE IInv'
<1>. DEFINE event == Event(arrived[r], 2, "ORDER_EXTRACTION_COMPLETED")
<1>1. /\ pc[r] = "work" /\ pc[r] \in Running /\ pc[r] \in Working
      /\ pc' = [pc EXCEPT ![r] = "validate"]
      /\ UNCHANGED <<content, arrived, left, answer, body, fence, fenceLeft, snapshot, kind,
                     clock>>
  BY DEF CompleteExtraction, GoTo, Running, Working
<1>2. /\ pc \in [Requests -> Places] /\ log \in Seq(Events) /\ arrived[r] \in Nat
      /\ pc'[r] = "validate" /\ \A s \in Requests \ {r} : pc'[s] = pc[s]
      /\ answer \in [Requests -> Answers]
  BY <1>1 DEF IInv, TypeOK
<1>3. CASE kind[r] \notin FromProcessing /\ UNCHANGED <<order, log>>
  <2>1. fence = r => order.state = "EXTRACTED"
    BY <1>1, <1>3 DEF IInv, RequestShape, StageOf
  <2>2. NextStamp(pc[r]) <= NextStamp("validate")
    BY <1>1, NextStampFacts
  <2>3. UNCHANGED <<row, content, arrived, left, kind, clock>> /\ answer' = answer
    BY <1>1, <1>3 DEF row
  <2>4. answer' \in [Requests -> Answers]
    BY <1>2, <2>3
  <2>. QED
    BY <1>1, <2>1, <2>2, <2>3, <2>4, QuietStep
<1>4. CASE /\ order.state = "PROCESSING" /\ HoldsFence(r)
           /\ order' = TransitionTo(order, "EXTRACTED")
           /\ log' = Append(log, event)
  <2>1. event \in Events /\ event.type = "ORDER_EXTRACTION_COMPLETED"
    <3>1. "ORDER_EXTRACTION_COMPLETED" \in EventTypes /\ 2 \in Nat
      BY DEF EventTypes, KnownEvents
    <3>. QED
      BY <1>2, <3>1, EventIn
  <2>2. Stamps' /\ log' \in Seq(Events)
    <3>1. NextStamp(pc[r]) <= 2 /\ 2 < NextStamp("validate") /\ 2 \in 0..7
      BY <1>1, NextStampFacts
    <3>2. "validate" \in Places /\ "ORDER_EXTRACTION_COMPLETED" \in EventTypes
      BY DEF EventTypes, KnownEvents, Places, Running, Working
    <3>. QED
      BY <1>1, <1>4, <3>1, <3>2, StampsAfterOne
  <2>3. order' = [state |-> "EXTRACTED", origin |-> NoOrigin] /\ fence = r /\ InProgress
    BY <1>4 DEF TransitionTo, FailureStates, HoldsFence, InProgress
  <2>4. InProgress' /\ order' # Missing /\ order'.state = "EXTRACTED" /\ order' \in Order
    BY <2>3 DEF InProgress, Missing, Order, OrderStates, FailureStates
  <2>5. TypeOK'
    BY <1>1, <2>2, <2>4 DEF IInv, TypeOK, Places, Running, Working
  <2>6. RowShape'
    BY <1>1, <1>4, <2>4 DEF IInv, RowShape, FailureStates, Routed
  <2>7. RequestShape'
    <3>. SUFFICES ASSUME NEW s \in Requests
                  PROVE  /\ pc'[s] \in {"claim"} \cup Working => content[s] = body
                         /\ fence = s => pc'[s] \in Working \cup {"done"}
                         /\ fence = s => pc'[s] # "work"
      BY <1>1, <2>4 DEF RequestShape, StageOf
    <3>1. CASE s = r
      BY <1>1, <1>2, <3>1 DEF IInv, RequestShape, Working
    <3>2. CASE s # r
      BY <1>1, <1>2, <2>3, <3>2 DEF IInv, RequestShape
    <3>. QED
      BY <3>1, <3>2
  <2>8. Ownership'
    <3>1. \A s \in Requests : pc'[s] \in Working => pc[s] \in Working
      BY <1>1, <1>2
    <3>. QED
      BY <1>1, <3>1 DEF IInv, Ownership
  <2>9. RetryBalance'
    <3>1. \A type : Occurrences(type) \in Nat /\
                    Occurrences(type)' = Occurrences(type) + (IF event.type = type THEN 1 ELSE 0)
      <4>. HIDE DEF event
      <4>. QED
        BY <1>2, <1>4, <2>1, OccursAfter
    <3>2. ~Unowned /\ ~Unowned'
      BY <1>1, <2>3, NamesAssumption DEF Unowned
    <3>. QED
      BY <2>1, <3>1, <3>2 DEF IInv, RetryBalance
  <2>. QED
    BY <2>2, <2>5, <2>6, <2>7, <2>8, <2>9 DEF IInv
<1>. QED
  BY <1>3, <1>4 DEF CompleteExtraction

\* The owner finishes: the order leaves the stage and nobody holds the fence.
LEMMA FinishedStep ==
  ASSUME IInv, NEW r \in Requests, pc[r] \in Working, HoldsFence(r), ClearFence,
         Finish(r, "completed"), UNCHANGED <<body, clock>>,
         order' \in Order, order'.state \in FailureStates \cup Routed,
         order'.state \in FailureStates => order'.origin \in RetryOrigins /\ ~snapshot',
         snapshot' \in BOOLEAN,
         Stamps', log' \in Seq(Events),
         Occurrences("ORDER_PROCESSING_RESUMED")' = Occurrences("ORDER_PROCESSING_RESUMED"),
         Occurrences("ORDER_EXTRACTION_RESUMED")' = Occurrences("ORDER_EXTRACTION_RESUMED"),
         Occurrences("ORDER_RETRY_RESTORED")' = Occurrences("ORDER_RETRY_RESTORED")
  PROVE  IInv'
<1>1. /\ pc' = [pc EXCEPT ![r] = "done"]
      /\ answer' = [answer EXCEPT ![r] = "completed"]
      /\ UNCHANGED <<content, arrived, left, kind>>
      /\ fence = r /\ fence' = Nobody /\ fenceLeft' = 0
  BY DEF Finish, HoldsFence, ClearFence
<1>2. /\ pc \in [Requests -> Places] /\ answer \in [Requests -> Answers]
      /\ pc'[r] = "done" /\ \A s \in Requests \ {r} : pc'[s] = pc[s]
  BY <1>1 DEF IInv, TypeOK
<1>3. order' # Missing /\ ~InProgress'
  BY DEF Missing, InProgress, FailureStates, Routed
<1>4. ~Unowned /\ ~Unowned'
  BY <1>1, <1>3, NamesAssumption DEF Unowned
<1>5. TypeOK'
  <2>1. pc' \in [Requests -> Places] /\ answer' \in [Requests -> Answers]
    BY <1>1, <1>2 DEF Places, Answers
  <2>2. fenceLeft' \in 0..Lease /\ fence' \in Requests \cup {Nobody}
    BY <1>1, LeaseAssumption
  <2>. QED
    BY <1>1, <2>1, <2>2 DEF IInv, TypeOK
<1>6. RowShape'
  BY <1>1, <1>3 DEF RowShape, Routed, FailureStates
<1>7. RequestShape'
  <2>1. \A s \in Requests : pc'[s] \in {"claim"} \cup Working => content[s] = body
    BY <1>2 DEF IInv, RequestShape, Working
  <2>. QED
    BY <1>1, <1>3, <2>1, NamesAssumption DEF RequestShape, StageOf
<1>8. Ownership'
  <2>. SUFFICES ASSUME NEW s \in Requests, pc'[s] \in Working, left[s] # Late PROVE FALSE
    BY <1>1 DEF Ownership
  <2>1. s # r /\ pc[s] \in Working
    BY <1>2 DEF Working
  <2>. QED
    BY <1>1, <2>1 DEF IInv, Ownership
<1>9. RetryBalance'
  BY <1>4 DEF IInv, RetryBalance
<1>. QED
  BY <1>5, <1>6, <1>7, <1>8, <1>9 DEF IInv

\* A failure is recorded by the owner, who leaves with it: the stage it came
\* from is what a retry restores.
LEMMA FailureStep ==
  ASSUME IInv, NEW r \in Requests, NEW origin \in RetryOrigins, NEW k \in {2, 3},
         pc[r] \in Working, NextStamp(pc[r]) <= k, PersistFailure(r, origin, k)
  PROVE  IInv'
<1>. DEFINE event == Event(arrived[r], k, FailureEvent(origin))
<1>1. /\ order.state = origin /\ HoldsFence(r) /\ ClearFence
      /\ log' = Append(log, event) /\ Finish(r, "completed")
      /\ UNCHANGED <<body, snapshot, clock>>
      /\ pc' = [pc EXCEPT ![r] = "done"] /\ arrived' = arrived
  BY DEF PersistFailure, Finish
<1>2. PICK target \in FailureStates : order' = TransitionTo(order, target)
  BY DEF PersistFailure
<1>3. /\ order' = [state |-> target, origin |-> origin] /\ order' \in Order
      /\ order'.state \in FailureStates /\ order'.origin \in RetryOrigins
  BY <1>1, <1>2 DEF TransitionTo, Order, FailureOrigins, RetryOrigins
<1>4. ~snapshot /\ snapshot \in BOOLEAN
  BY <1>1 DEF IInv, RowShape, Routed, RetryOrigins, TypeOK
<1>5. /\ FailureEvent(origin) \in EventTypes
      /\ FailureEvent(origin) \notin {"ORDER_PROCESSING_RESUMED", "ORDER_EXTRACTION_RESUMED",
                                     "ORDER_RETRY_RESTORED"}
  BY DEF FailureEvent, EventTypes, KnownEvents
<1>6. log \in Seq(Events) /\ arrived[r] \in Nat
  BY DEF IInv, TypeOK
<1>7. event \in Events /\ event.type = FailureEvent(origin)
  <2>1. k \in Nat
    OBVIOUS
  <2>. QED
    BY <1>5, <1>6, <2>1, EventIn
<1>8. Stamps' /\ log' \in Seq(Events)
  <2>1. pc[r] \in Running /\ "done" \in Places /\ "done" \notin Running /\ k \in 0..7
    BY DEF Running, Places, Working
  <2>. QED
    BY <1>1, <1>5, <2>1, StampsAfterOne
<1>9. \A type : type # event.type => Occurrences(type)' = Occurrences(type)
  <2>. HIDE DEF event
  <2>. SUFFICES ASSUME NEW type, type # event.type
                PROVE  Occurrences(type)' = Occurrences(type)
    OBVIOUS
  <2>1. /\ Occurrences(type) \in Nat
        /\ Occurrences(type)' = Occurrences(type) + (IF event.type = type THEN 1 ELSE 0)
    BY <1>1, <1>6, <1>7, OccursAfter
  <2>. QED
    BY <2>1
<1>10. order'.state \in FailureStates \cup Routed /\ snapshot' = snapshot
  BY <1>1, <1>3
<1>11. /\ Occurrences("ORDER_PROCESSING_RESUMED")' = Occurrences("ORDER_PROCESSING_RESUMED")
       /\ Occurrences("ORDER_EXTRACTION_RESUMED")' = Occurrences("ORDER_EXTRACTION_RESUMED")
       /\ Occurrences("ORDER_RETRY_RESTORED")' = Occurrences("ORDER_RETRY_RESTORED")
  BY <1>5, <1>7, <1>9
<1>. QED
  BY <1>1, <1>3, <1>4, <1>8, <1>10, <1>11, FinishedStep

\* The two failures: of the extraction, and of the validation.
LEMMA ExtractionFailsStep ==
  ASSUME IInv, NEW r \in Requests, ExtractionFails(r) PROVE IInv'
<1>1. /\ pc[r] = "work" /\ pc[r] \in Working /\ PersistFailure(r, StageOf(kind[r]), 2)
      /\ StageOf(kind[r]) \in RetryOrigins
  BY DEF ExtractionFails, StageOf, RetryOrigins, Working
<1>2. NextStamp(pc[r]) <= 2
  BY <1>1, NextStampFacts
<1>. QED
  BY <1>1, <1>2, FailureStep

\* Trusted data or facts fail, and the failure is persisted.
LEMMA ValidationFailsStep ==
  ASSUME IInv, NEW r \in Requests, ValidationFails(r) PROVE IInv'
<1>1. /\ pc[r] = "route" /\ pc[r] \in Working /\ PersistFailure(r, "EXTRACTED", 3)
  BY DEF ValidationFails, Working
<1>2. NextStamp(pc[r]) <= 3
  BY <1>1, NextStampFacts
<1>. QED
  BY <1>1, <1>2, FailureStep DEF RetryOrigins

\* The three routing events take the order out of the stages that are owned.
LEMMA RouteStep == ASSUME IInv, NEW r \in Requests, Route(r) PROVE IInv'
<1>1. /\ pc[r] = "route" /\ pc[r] \in Working /\ pc[r] \in Running
      /\ HoldsFence(r) /\ ClearFence /\ Finish(r, "completed")
      /\ snapshot' = TRUE /\ UNCHANGED <<body, clock>>
      /\ pc' = [pc EXCEPT ![r] = "done"] /\ arrived' = arrived
  BY DEF Route, Finish, Working, Running
<1>2. PICK target \in NormalTransitions["VALIDATED"] :
        /\ order' = TransitionTo(TransitionTo(order, "VALIDATED"), target)
        /\ log' = log \o
             << Event(arrived[r], 3, "EXTRACTION_SNAPSHOT_RECORDED"),
                Event(arrived[r], 4, "ORDER_VALIDATED"),
                Event(arrived[r], 5, IF target = "NEEDS_REVIEW" THEN "ORDER_NEEDS_REVIEW"
                                     ELSE "ORDER_READY_FOR_APPROVAL") >>
  BY DEF Route
<1>. DEFINE last == IF target = "NEEDS_REVIEW" THEN "ORDER_NEEDS_REVIEW"
                    ELSE "ORDER_READY_FOR_APPROVAL"
            a == Event(arrived[r], 3, "EXTRACTION_SNAPSHOT_RECORDED")
            b == Event(arrived[r], 4, "ORDER_VALIDATED")
            c == Event(arrived[r], 5, last)
            more == <<a, b, c>>
<1>3. target \in Routed
  BY DEF NormalTransitions, Routed
<1>4. /\ order' = [state |-> target, origin |-> NoOrigin] /\ order' \in Order
      /\ order'.state \in Routed /\ order'.state \notin FailureStates
  BY <1>2, <1>3 DEF TransitionTo, FailureStates, Routed, Order, OrderStates
<1>5. log \in Seq(Events) /\ arrived[r] \in Nat /\ pc \in [Requests -> Places]
  BY DEF IInv, TypeOK
<1>6. /\ a \in Events /\ b \in Events /\ c \in Events
      /\ a.at = Gap * arrived[r] + 3 /\ b.at = Gap * arrived[r] + 4
      /\ c.at = Gap * arrived[r] + 5
      /\ {a.type, b.type, c.type} \subseteq RoutingEvents
  <2>1. /\ last \in RoutingEvents /\ "EXTRACTION_SNAPSHOT_RECORDED" \in RoutingEvents
        /\ "ORDER_VALIDATED" \in RoutingEvents /\ RoutingEvents \subseteq EventTypes
    BY DEF RoutingEvents, EventTypes
  <2>2. \A k \in Nat, type \in RoutingEvents :
          /\ Event(arrived[r], k, type) \in Events
          /\ Event(arrived[r], k, type).at = Gap * arrived[r] + k
          /\ Event(arrived[r], k, type).type = type
    BY <1>5, <2>1, EventIn
  <2>3. a \in Events /\ a.at = Gap * arrived[r] + 3 /\ a.type \in RoutingEvents
    BY <2>1, <2>2, 3 \in Nat
  <2>4. b \in Events /\ b.at = Gap * arrived[r] + 4 /\ b.type \in RoutingEvents
    BY <2>1, <2>2, 4 \in Nat
  <2>5. c \in Events /\ c.at = Gap * arrived[r] + 5 /\ c.type \in RoutingEvents
    BY <2>1, <2>2, 5 \in Nat
  <2>. HIDE DEF a, b, c
  <2>. QED
    BY <2>3, <2>4, <2>5
<1>7. log' = log \o more
  BY <1>2
<1>. HIDE DEF a, b, c
<1>8. ASSUME NEW type, type \notin RoutingEvents
      PROVE  Occurrences(type)' = Occurrences(type)
  <2>1. type \notin {a.type, b.type, c.type}
    BY <1>6, <1>8
  <2>2. log' = log \o <<a, b, c>>
    BY <1>7
  <2>. QED
    BY <1>5, <1>6, <2>1, <2>2, OccursAfterMore
<1>9. Stamps'
  <2>1. /\ more \in Seq(Events) /\ DOMAIN more = {1, 2, 3}
        /\ more[1] = a /\ more[2] = b /\ more[3] = c
    BY <1>6
  <2>. HIDE DEF more
  <2>2. StampsGrow(more)
    BY <1>5, <1>6, <2>1 DEF StampsGrow, Gap
  <2>3. NextStamp(pc[r]) = 3 /\ Gap \in 0..Gap
    BY <1>1, NextStampFacts DEF Gap
  <2>4. \A i \in DOMAIN more : /\ Gap * arrived[r] + NextStamp(pc[r]) <= more[i].at
                               /\ more[i].at < Gap * arrived[r] + Gap
    BY <1>5, <1>6, <2>1, <2>3 DEF Gap
  <2>5. pc'[r] \notin Running /\ \A s \in Requests \ {r} : pc'[s] = pc[s]
    BY <1>1, <1>5 DEF Running, Working
  <2>. QED
    BY <1>1, <1>7, <2>1, <2>2, <2>3, <2>4, <2>5, StampsAfter
<1>10. log' \in Seq(Events)
  BY <1>5, <1>6, <1>7
<1>11. /\ Occurrences("ORDER_PROCESSING_RESUMED")' = Occurrences("ORDER_PROCESSING_RESUMED")
       /\ Occurrences("ORDER_EXTRACTION_RESUMED")' = Occurrences("ORDER_EXTRACTION_RESUMED")
       /\ Occurrences("ORDER_RETRY_RESTORED")' = Occurrences("ORDER_RETRY_RESTORED")
  BY <1>8 DEF RoutingEvents
<1>12. snapshot' \in BOOLEAN
  BY <1>1
<1>. QED
  BY <1>1, <1>4, <1>9, <1>10, <1>11, <1>12, FinishedStep

\* An operator's retry restores the failed stage; nobody has taken it yet.
LEMMA RetryStep == ASSUME IInv, HumanRetry PROVE IInv'
<1>. DEFINE a == Event(clock + 1, 0, "ORDER_RETRY_REQUESTED")
            b == Event(clock + 1, 1, "ORDER_RETRY_RESTORED")
            more == <<a, b>>
<1>1. /\ order.state = "FAILED_RETRYABLE" /\ order' = Retry(order)
      /\ log' = log \o more /\ clock' = clock + 1
      /\ UNCHANGED <<body, fence, fenceLeft, snapshot>>
      /\ UNCHANGED <<pc, content, arrived, left, kind, answer>>
  BY DEF HumanRetry, CanRetry, request
<1>2. log \in Seq(Events) /\ clock \in Nat /\ clock + 1 \in Nat /\ arrived \in [Requests -> Nat]
  BY DEF IInv, TypeOK
<1>3. order.origin \in RetryOrigins /\ fence = Nobody /\ ~snapshot
  BY <1>1 DEF IInv, RowShape, FailureStates, InProgress, Routed
<1>4. /\ order' = [state |-> order.origin, origin |-> NoOrigin] /\ order' \in Order
      /\ order'.state \in RetryOrigins /\ order' # Missing
  BY <1>1, <1>3 DEF Retry, RetryOrigins, Order, OrderStates, FailureStates, Missing
<1>5. /\ a \in Events /\ a.type = "ORDER_RETRY_REQUESTED" /\ a.at = Gap * (clock + 1)
      /\ b \in Events /\ b.type = "ORDER_RETRY_RESTORED" /\ b.at = Gap * (clock + 1) + 1
  <2>1. "ORDER_RETRY_REQUESTED" \in EventTypes /\ "ORDER_RETRY_RESTORED" \in EventTypes
    BY DEF EventTypes, KnownEvents
  <2>2. /\ a \in Events /\ a.type = "ORDER_RETRY_REQUESTED"
        /\ a.at = Gap * (clock + 1) + 0
    BY <1>2, <2>1, EventIn, 0 \in Nat
  <2>3. /\ b \in Events /\ b.type = "ORDER_RETRY_RESTORED" /\ b.at = Gap * (clock + 1) + 1
    BY <1>2, <2>1, EventIn, 1 \in Nat
  <2>. HIDE DEF a, b
  <2>. QED
    BY <1>2, <2>2, <2>3 DEF Gap
<1>. HIDE DEF a, b
<1>6. /\ more \in Seq(Events) /\ DOMAIN more = {1, 2} /\ more[1] = a /\ more[2] = b
  BY <1>5
<1>7. log' \in Seq(Events)
  BY <1>1, <1>2, <1>6
<1>8. TypeOK'
  BY <1>1, <1>2, <1>4, <1>7 DEF IInv, TypeOK
<1>9. RowShape'
  BY <1>1, <1>3, <1>4 DEF RowShape, RetryOrigins, FailureStates
<1>10. RequestShape'
  BY <1>1, <1>3, <1>4, NamesAssumption DEF IInv, RequestShape, StageOf
<1>11. Ownership'
  BY <1>1 DEF IInv, Ownership
<1>12. Stamps'
  <2>. HIDE DEF more
  <2>0. \A i \in DOMAIN log : log[i].at \in Nat /\ log[i].at < Gap * (clock + 1)
    BY <1>2, EventFacts DEF IInv, Stamps
  <2>1. StampsGrow(more)
    BY <1>2, <1>5, <1>6 DEF StampsGrow, Gap
  <2>2. \A i \in DOMAIN more : /\ Gap * (clock + 1) <= more[i].at
                               /\ more[i].at < Gap * (clock' + 1) /\ more[i].at \in Nat
    BY <1>1, <1>2, <1>5, <1>6 DEF Gap
  <2>3. StampsDiffer(log')
    <3>. DEFINE lo == Gap * (clock + 1)
                hi == Gap * (clock' + 1)
    <3>1. lo \in Nat /\ hi \in Nat
      BY <1>1, <1>2 DEF Gap
    <3>2. \A i \in DOMAIN log : log[i].at < lo \/ log[i].at >= hi
      BY <2>0
    <3>3. \A i \in DOMAIN more : lo <= more[i].at /\ more[i].at < hi
      BY <2>2
    <3>4. StampsDiffer(log)
      BY DEF IInv, Stamps
    <3>. HIDE DEF lo, hi
    <3>. QED
      BY <1>1, <1>2, <1>6, <2>1, <3>1, <3>2, <3>3, <3>4, FreshStamps
  <2>4. \A i \in DOMAIN log' :
          \/ \E j \in DOMAIN log : log'[i].at = log[j].at
          \/ \E j \in DOMAIN more : log'[i].at = more[j].at
    <3>1. \A i \in DOMAIN (log \o more) :
            \/ i \in DOMAIN log /\ (log \o more)[i] = log[i]
            \/ /\ i - Len(log) \in DOMAIN more
               /\ (log \o more)[i] = more[i - Len(log)]
      BY <1>2, <1>6, RecordFacts
    <3>. QED
      BY <1>1, <3>1
  <2>5. \A i \in DOMAIN log' : log'[i].at < Gap * (clock' + 1)
    <3>1. \A i \in DOMAIN log : log[i].at < Gap * (clock' + 1)
      BY <1>1, <1>2, <2>0 DEF Gap
    <3>. QED
      BY <2>2, <2>4, <3>1
  <2>6. \A s \in Requests : pc[s] # "new" => arrived[s] \in 1..clock /\ arrived[s] \in 1..clock'
    BY <1>1, <1>2 DEF IInv, Stamps
  <2>7. \A s \in Requests, i \in DOMAIN log' :
          pc[s] \in Running =>
            \/ log'[i].at < Gap * arrived[s] + NextStamp(pc[s])
            \/ log'[i].at >= Gap * (arrived[s] + 1)
    <3>. SUFFICES ASSUME NEW s \in Requests, NEW i \in DOMAIN log', pc[s] \in Running
                  PROVE  \/ log'[i].at < Gap * arrived[s] + NextStamp(pc[s])
                         \/ log'[i].at >= Gap * (arrived[s] + 1)
      OBVIOUS
    <3>1. CASE \E j \in DOMAIN log : log'[i].at = log[j].at
      BY <3>1 DEF IInv, Stamps
    <3>2. CASE \E j \in DOMAIN more : log'[i].at = more[j].at
      <4>1. arrived[s] \in 1..clock
        BY <2>6 DEF Running, Working
      <4>2. PICK j \in DOMAIN more : log'[i].at = more[j].at
        BY <3>2
      <4>3. Gap * (clock + 1) <= more[j].at /\ more[j].at \in Nat
        BY <2>2
      <4>4. more[j].at >= Gap * (arrived[s] + 1)
        BY <1>2, <4>1, <4>3 DEF Gap
      <4>. QED
        BY <4>2, <4>4
    <3>. QED
      BY <2>4, <3>1, <3>2
  <2>. QED
    BY <1>1, <2>3, <2>5, <2>6, <2>7 DEF IInv, Stamps
<1>13. RetryBalance'
  <2>1. log' = Append(Append(log, a), b)
    BY <1>1, <1>2
  <2>. DEFINE l == Append(log, a)
  <2>2. l \in Seq(Events)
    BY <1>2, <1>5
  <2>3. \A type : /\ OccursIn(log, type) \in Nat
                  /\ OccursIn(l, type) = OccursIn(log, type) + (IF a.type = type THEN 1 ELSE 0)
    BY <1>2, <1>5, OneMore
  <2>. HIDE DEF l
  <2>4. \A type : OccursIn(Append(l, b), type) =
                    OccursIn(l, type) + (IF b.type = type THEN 1 ELSE 0)
    BY <1>5, <2>2, OneMore
  <2>5. \A type : /\ Occurrences(type) = OccursIn(log, type)
                  /\ Occurrences(type)' = OccursIn(Append(l, b), type)
    BY <2>1 DEF Occurrences, OccursIn, l
  <2>6. /\ Occurrences("ORDER_PROCESSING_RESUMED")' = Occurrences("ORDER_PROCESSING_RESUMED")
        /\ Occurrences("ORDER_EXTRACTION_RESUMED")' = Occurrences("ORDER_EXTRACTION_RESUMED")
        /\ Occurrences("ORDER_RETRY_RESTORED")' = Occurrences("ORDER_RETRY_RESTORED") + 1
        /\ Occurrences("ORDER_PROCESSING_RESUMED") \in Nat
        /\ Occurrences("ORDER_EXTRACTION_RESUMED") \in Nat
        /\ Occurrences("ORDER_RETRY_RESTORED") \in Nat
    BY <1>5, <2>3, <2>4, <2>5
  <2>7. ~Unowned /\ Unowned'
    BY <1>1, <1>3, <1>4 DEF Unowned, InProgress, RetryOrigins
  <2>. QED
    BY <2>6, <2>7 DEF IInv, RetryBalance
<1>. QED
  BY <1>8, <1>9, <1>10, <1>11, <1>12, <1>13 DEF IInv

\* While time passes, the owner's budget runs out before its lease.
LEMMA TickStep == ASSUME IInv, Tick PROVE IInv'
<1>. USE DEF Tick
<1>1. /\ fenceLeft \in 0..Lease /\ left \in [Requests -> {Late} \cup 0..Budget]
      /\ Budget \in Nat /\ Lease \in Nat
  BY LeaseAssumption DEF IInv, TypeOK
<1>2. fenceLeft' \in 0..Lease
  BY <1>1 DEF CountDown
<1>3. \A r \in Requests : left'[r] \in {Late} \cup 0..Budget
  BY <1>1 DEF RunDown, Late
<1>4. TypeOK'
  BY <1>2, <1>3 DEF IInv, TypeOK
<1>5. RowShape' /\ RequestShape'
  BY DEF IInv, RowShape, RequestShape, InProgress, StageOf
<1>6. Ownership'
  <2>. SUFFICES ASSUME NEW r \in Requests, pc[r] \in Working, left'[r] # Late
                PROVE  fence = r /\ left'[r] < fenceLeft'
    BY DEF Ownership
  <2>1. left'[r] = RunDown(left[r])
    BY DEF Running
  <2>2. left[r] # Late /\ left[r] \in 0..Budget /\ left'[r] = left[r] - 1
    BY <1>1, <2>1 DEF RunDown
  <2>3. fence = r /\ left[r] < fenceLeft
    BY <2>2 DEF IInv, Ownership
  <2>. QED
    BY <1>1, <2>2, <2>3 DEF CountDown
<1>7. Stamps'
  BY DEF IInv, Stamps
<1>8. RetryBalance'
  BY DEF IInv, RetryBalance, Unowned, InProgress, Occurrences
<1>. QED
  BY <1>4, <1>5, <1>6, <1>7, <1>8 DEF IInv

\* Every step of the specification is one of these.
LEMMA NextStep == IInv /\ [Next]_vars => IInv'
<1>. SUFFICES ASSUME IInv, [Next]_vars PROVE IInv'
  OBVIOUS
<1>1. CASE UNCHANGED vars
  BY <1>1 DEF vars, row, request, IInv, TypeOK, RowShape, RequestShape, Ownership, Stamps,
              RetryBalance, Unowned, InProgress, Occurrences, StageOf
<1>2. CASE Next
  BY <1>2, ArriveStep, CreateStep, ReplayStep, ClaimStep, StandDownStep, CompleteStep,
     ExtractionFailsStep, GatherStep, RouteStep, ValidationFailsStep, GiveUpStep, RetryStep,
     TickStep DEF Next
<1>. QED
  BY <1>1, <1>2

\* The inductive invariant holds in every state of every behaviour.
THEOREM Invariance == Spec => []IInv
  BY InitIInv, NextStep, PTL DEF Spec

\* Requests that stop in time never work on the order at the same time
\* (claims.py, ownership.py), for any number of deliveries.
THEOREM ExecutionsDoNotOverlap == Spec => []OneExecution
<1>1. IInv => OneExecution
  BY DEF IInv, Ownership, OneExecution
<1>. QED
  BY <1>1, Invariance, PTL

\* The holder of the fence finds the order in the stage its claim says.
THEOREM LiveOwnerProceeds == Spec => []LiveOwnerIsNeverRefused
<1>1. IInv => LiveOwnerIsNeverRefused
  BY DEF IInv, RequestShape, RowShape, LiveOwnerIsNeverRefused, HoldsFence, Routed
<1>. QED
  BY <1>1, Invariance, PTL

\* A delivery of another document under the same key is never worked on.
THEOREM ForeignContentIsRefused == Spec => []ForeignContentIsNeverWorkedOn
<1>1. IInv => ForeignContentIsNeverWorkedOn
  BY DEF IInv, RequestShape, ForeignContentIsNeverWorkedOn
<1>. QED
  BY <1>1, Invariance, PTL

\* A human retry authorizes one execution, for any number of retries, deliveries
\* and recoveries, in whatever order the stamps come.
THEOREM RetriesAreUsedOnce == Spec => []RetryGrantsOneExecution
<1>1. ASSUME IInv PROVE RetryGrantsOneExecution
  <2>1. log \in Seq(Events)
    BY <1>1 DEF IInv, TypeOK
  <2>2. [type |-> "ORDER_RECEIVED", at |-> 0] \in Events
    BY DEF Events, EventTypes, KnownEvents
  <2>3. \A type : Occurrences(type) = OccursIn(log, type) /\ OccursIn(log, type) \in Nat
    BY <2>1, <2>2, OneMore DEF Occurrences, OccursIn
  <2>. QED
    BY <1>1, <2>3 DEF IInv, RetryBalance, RetryGrantsOneExecution
<1>. QED
  BY <1>1, Invariance, PTL

\* Nobody takes the fence from a request whose lease still runs.
THEOREM TakeoverWaitsForExpiry == Spec => TakeoverOnlyAfterExpiry
<1>1. ASSUME IInv, [Next]_vars, fence # Nobody, fence' \notin {fence, Nobody}
      PROVE  fenceLeft = 0
  <2>1. PICK r \in Requests : Claim(r)
    BY <1>1 DEF Next, vars, row, Arrive, CreateOrder, ReplayOrder, StandDown,
                CompleteExtraction, ExtractionFails, GatherFacts, Route, ValidationFails,
                GiveUp, HumanRetry, Tick, PersistFailure, ClearFence
  <2>2. ClaimKind(HistoryOf(log)) # "STAND_DOWN"
    BY <2>1 DEF Claim
  <2>. QED
    BY <1>1, <2>2, GrantFacts
<1>2. IInv /\ [Next]_vars =>
        [fence # Nobody /\ fence' \notin {fence, Nobody} => fenceLeft = 0]_vars
  BY <1>1
<1>. QED
  BY <1>2, Invariance, PTL DEF Spec, TakeoverOnlyAfterExpiry

(***************************************************************************)
(* Redeliveries are served: what the automaton knows at the end of a       *)
(* history that was committed in the order of its stamps.                  *)
(***************************************************************************)
LEMMA TypesFacts ==
  ASSUME NEW events \in Seq(Events)
  PROVE  /\ Len(Types(events)) = Len(events)
         /\ DOMAIN Types(events) = 1..Len(events)
         /\ \A i \in 1..Len(events) : Types(events)[i] = events[i].type
<1>1. Types(events) = [i \in 1..Len(events) |-> events[i].type]
  BY DEF Types
<1>2. Len(Types(events)) = Len(events)
  <2>1. Len(events) \in Nat
    OBVIOUS
  <2>. QED
    BY <1>1, <2>1
<1>. QED
  BY <1>1, <1>2

\* One more event is read from where the automaton is.
LEMMA EndAfter ==
  ASSUME NEW events \in Seq(Events), NEW event \in Events
  PROVE  EndOf(Append(events, event)) = Read(EndOf(events), event.type)
<1>. DEFINE N == Len(events)
            more == Append(events, event)
            a == Types(events)
            b == Types(more)
<1>1. /\ more \in Seq(Events) /\ N \in Nat /\ Len(more) = N + 1 /\ more[N + 1] = event
      /\ \A i \in 1..N : more[i] = events[i]
  OBVIOUS
<1>2. /\ Len(a) = N /\ \A i \in 1..N : a[i] = events[i].type
      /\ Len(b) = N + 1 /\ \A i \in 1..(N + 1) : b[i] = more[i].type
  <2>. HIDE DEF more
  <2>. QED
    BY <1>1, TypesFacts
<1>. HIDE DEF a, b, more, N
<1>3. \A i \in 1..N : a[i] = b[i]
  BY <1>1, <1>2
<1>4. Readings(a)[N] = Readings(b)[N]
  <2>1. Len(a) \in Nat /\ Len(b) \in Nat /\ Len(a) <= Len(b)
    BY <1>1, <1>2
  <2>. QED
    BY <1>2, <1>3, <2>1, ReadingsOfPrefix
<1>5. Readings(b)[N + 1] = Read(Readings(b)[N], b[N + 1])
  <2>1. N + 1 \in 1..Len(b) /\ (N + 1) - 1 = N /\ Len(b) \in Nat
    BY <1>1, <1>2
  <2>. QED
    BY <2>1, ReadingsStep
<1>6. b[N + 1] = event.type
  BY <1>1, <1>2
<1>. QED
  BY <1>1, <1>4, <1>5, <1>6 DEF EndOf, a, b, more, N

\* Before the first event it is at its start.
LEMMA EndOfNothing == EndOf(<<>>) = HistoryStart
<1>1. <<>> \in Seq(Events) /\ Len(<<>>) = 0
  OBVIOUS
<1>2. Len(Types(<<>>)) = 0
  BY <1>1, TypesFacts
<1>. QED
  BY <1>1, <1>2, ReadingsStep DEF EndOf

\* The agreement goes from one event of an order to the next.
LEMMA MatchReceived ==
  Matches(Read(HistoryStart, "ORDER_RECEIVED"), [state |-> "RECEIVED", origin |-> NoOrigin],
          FALSE)
<1>. DEFINE k == Read(HistoryStart, "ORDER_RECEIVED")
<1>1. Unused(<<>>) = {} /\ <<>> \in Seq(BOOLEAN)
  BY DEF Unused
<1>2. k = [HistoryStart EXCEPT !.received = TRUE]
  BY DEF Read, Accepts, Advance, HistoryStart
<1>3. /\ k = [ valid |-> TRUE, phase |-> "RECEIVED", failed |-> NoOrigin,
              requested |-> NoOrigin, received |-> TRUE, started |-> FALSE,
              extracted |-> FALSE, restored |-> [origin \in RetryOrigins |-> <<>>] ]
  BY <1>2 DEF HistoryStart
<1>5. /\ k \in Histories /\ k.valid /\ k.received /\ ~k.started /\ ~k.extracted
      /\ k.failed = NoOrigin /\ k.requested = NoOrigin /\ k.phase = "RECEIVED"
      /\ k.restored = [origin \in RetryOrigins |-> <<>>]
  <2>1. [origin \in RetryOrigins |-> <<>>] \in [RetryOrigins -> Seq(BOOLEAN)]
    BY <1>1
  <2>. HIDE DEF k
  <2>. QED
    BY <1>3, <2>1 DEF Histories, Phases
<1>4. Matches(k, [state |-> "RECEIVED", origin |-> NoOrigin], FALSE)
  <2>. HIDE DEF k
  <2>. QED
    BY <1>1, <1>5 DEF Matches, RetryOrigins, PhaseOf, NoOrigin
<1>. QED
  BY <1>4

\* What each event does to a history that matches the order: the first claim.
LEMMA MatchStarted ==
  ASSUME NEW h, NEW o, Matches(h, o, FALSE), o.state = "RECEIVED", o.origin = NoOrigin
  PROVE  Matches(Read(h, "ORDER_PROCESSING_STARTED"),
                 [state |-> "PROCESSING", origin |-> NoOrigin], TRUE)
<1>. DEFINE k == Read(h, "ORDER_PROCESSING_STARTED")
<1>1. /\ h \in Histories /\ h.valid /\ h.received /\ ~h.started /\ ~h.extracted
      /\ h.phase = "RECEIVED" /\ h.failed = NoOrigin /\ h.requested = NoOrigin
      /\ \A origin \in RetryOrigins : Unused(h.restored[origin]) = {}
  BY DEF Matches, PhaseOf, NoOrigin, RetryOrigins
<1>2. k = [h EXCEPT !.started = TRUE, !.phase = "PROCESSING"]
  BY <1>1 DEF Read, Accepts, Advance
<1>3. /\ k \in Histories /\ k.valid /\ k.received /\ k.started /\ ~k.extracted
      /\ k.failed = NoOrigin /\ k.requested = NoOrigin
      /\ k.phase = "PROCESSING" /\ k.restored = h.restored
  BY <1>1, <1>2 DEF Histories, Phases
<1>4. Matches(k, [state |-> "PROCESSING", origin |-> NoOrigin], TRUE)
  <2>. HIDE DEF k
  <2>. QED
    BY <1>1, <1>3 DEF Matches, PhaseOf, RetryOrigins, NoOrigin
<1>. QED
  BY <1>4

ResumedEvent(origin) ==
  IF origin = "PROCESSING" THEN "ORDER_PROCESSING_RESUMED" ELSE "ORDER_EXTRACTION_RESUMED"

\* A claim of a retried order uses up the retry that restored it.
LEMMA MatchResumed ==
  ASSUME NEW h, NEW o, Matches(h, o, FALSE), o.state \in RetryOrigins, o.origin = NoOrigin
  PROVE  Matches(Read(h, ResumedEvent(o.state)), o, TRUE)
<1>. DEFINE k == Read(h, ResumedEvent(o.state))
            uses == h.restored[o.state]
<1>1. /\ h \in Histories /\ h.valid /\ h.received /\ h.phase = RestoredPhase(o.state)
      /\ (h.started <=> o.state # "RECEIVED")
      /\ (h.extracted <=> o.state = "EXTRACTED" \/ o.origin = "EXTRACTED")
      /\ h.failed = o.origin /\ h.requested = NoOrigin
      /\ LastUnused(uses) /\ uses \in Seq(BOOLEAN)
  BY DEF Matches, PhaseOf, RetryOrigins, Histories
<1>2. k = [h EXCEPT !.restored[o.state] = ConsumeLatest(@), !.phase = o.state]
  BY <1>1 DEF Read, Accepts, Advance, ResumedEvent, RetryOrigins, RestoredPhase, LastUnused
<1>3. /\ ConsumeLatest(uses) \in Seq(BOOLEAN) /\ Unused(ConsumeLatest(uses)) = {}
  <2>1. /\ ConsumeLatest(uses) \in Seq(BOOLEAN)
        /\ Unused(ConsumeLatest(uses)) = Unused(uses) \ {Max(Unused(uses))}
        /\ Max(Unused(uses)) \in Unused(uses)
    BY <1>1, UnusedAfterResumption DEF LastUnused
  <2>. QED
    BY <1>1, <2>1 DEF LastUnused
<1>4. /\ k.restored = [h.restored EXCEPT ![o.state] = ConsumeLatest(@)]
      /\ h.restored \in [RetryOrigins -> Seq(BOOLEAN)]
  BY <1>1, <1>2 DEF Histories
<1>5. /\ k.restored \in [RetryOrigins -> Seq(BOOLEAN)]
      /\ k.restored[o.state] = ConsumeLatest(uses)
      /\ \A origin \in RetryOrigins \ {o.state} : k.restored[origin] = h.restored[origin]
  BY <1>3, <1>4
<1>6. /\ k \in Histories /\ k.valid /\ k.received /\ (k.started <=> h.started)
      /\ (k.extracted <=> h.extracted) /\ k.failed = h.failed
      /\ k.requested = h.requested /\ k.phase = o.state
  BY <1>1, <1>2, <1>5 DEF Histories, Phases, RetryOrigins
<1>7. \A origin \in RetryOrigins : Unused(k.restored[origin]) = {}
  BY <1>3, <1>5 DEF Matches
<1>8. PhaseOf(o, TRUE) = o.state
  BY DEF PhaseOf, RetryOrigins
<1>9. Matches(k, o, TRUE)
  <2>. HIDE DEF k, uses
  <2>. QED
    BY <1>1, <1>6, <1>7, <1>8 DEF Matches
<1>. QED
  BY <1>9

RecoveredEvent(origin) ==
  IF origin = "PROCESSING" THEN "ORDER_PROCESSING_RECOVERED" ELSE "ORDER_EXTRACTION_RECOVERED"

\* A claim of what its owner left behind changes nothing.
LEMMA MatchRecovered ==
  ASSUME NEW h, NEW o, Matches(h, o, TRUE), o.state \in RetryOrigins, o.origin = NoOrigin
  PROVE  Matches(Read(h, RecoveredEvent(o.state)), o, TRUE)
<1>1. h \in Histories /\ h.valid /\ h.phase = o.state /\ Undisturbed(h)
  BY DEF Matches, PhaseOf, RetryOrigins, Undisturbed
<1>2. Read(h, RecoveredEvent(o.state)) = [h EXCEPT !.phase = o.state]
  BY <1>1 DEF Read, Accepts, Advance, RecoveredEvent, RetryOrigins
<1>3. [h EXCEPT !.phase = o.state] = h
  BY <1>1 DEF Histories
<1>. QED
  BY <1>2, <1>3

\* The extraction.
LEMMA MatchCompleted ==
  ASSUME NEW h, NEW o, Matches(h, o, TRUE), o.state = "PROCESSING", o.origin = NoOrigin
  PROVE  Matches(Read(h, "ORDER_EXTRACTION_COMPLETED"),
                 [state |-> "EXTRACTED", origin |-> NoOrigin], TRUE)
<1>. DEFINE k == Read(h, "ORDER_EXTRACTION_COMPLETED")
<1>1. /\ h \in Histories /\ h.valid /\ h.phase = "PROCESSING" /\ Undisturbed(h)
      /\ h.started /\ ~h.extracted /\ h.received
      /\ h.failed = NoOrigin /\ h.requested = NoOrigin
      /\ \A origin \in RetryOrigins : Unused(h.restored[origin]) = {}
  BY DEF Matches, PhaseOf, RetryOrigins, Undisturbed, NoOrigin
<1>2. k = [h EXCEPT !.extracted = TRUE, !.phase = "EXTRACTED"]
  BY <1>1 DEF Read, Accepts, Advance
<1>3. /\ k \in Histories /\ k.valid /\ k.received /\ k.extracted /\ k.started
      /\ k.failed = NoOrigin /\ k.requested = NoOrigin
      /\ k.phase = "EXTRACTED" /\ k.restored = h.restored
  BY <1>1, <1>2 DEF Histories, Phases
<1>4. Matches(k, [state |-> "EXTRACTED", origin |-> NoOrigin], TRUE)
  <2>. HIDE DEF k
  <2>. QED
    BY <1>1, <1>3 DEF Matches, PhaseOf, RetryOrigins
<1>. QED
  BY <1>4

\* A failure remembers the stage the order failed in.
LEMMA MatchFailed ==
  ASSUME NEW h, NEW o, NEW target \in FailureStates,
         Matches(h, o, TRUE), o.state \in RetryOrigins, o.origin = NoOrigin
  PROVE  Matches(Read(h, FailureEvent(o.state)), [state |-> target, origin |-> o.state], FALSE)
<1>. DEFINE k == Read(h, FailureEvent(o.state))
            phase == IF o.state = "PROCESSING" THEN "PROCESSING_FAILED" ELSE "EXTRACTED_FAILED"
            failed == [state |-> target, origin |-> o.state]
<1>1. /\ h \in Histories /\ h.valid /\ h.phase = o.state /\ Undisturbed(h)
      /\ h.started /\ (h.extracted <=> o.state = "EXTRACTED") /\ h.received
      /\ h.requested = NoOrigin
      /\ \A origin \in RetryOrigins : Unused(h.restored[origin]) = {}
  BY DEF Matches, PhaseOf, RetryOrigins, Undisturbed, NoOrigin
<1>2. k = [h EXCEPT !.failed = o.state, !.phase = phase]
  BY <1>1 DEF Read, Accepts, Advance, FailureEvent, RetryOrigins
<1>3. /\ k \in Histories /\ k.valid /\ k.received /\ k.started
      /\ (k.extracted <=> o.state = "EXTRACTED") /\ k.failed = o.state
      /\ k.requested = NoOrigin /\ k.phase = phase /\ k.restored = h.restored
  BY <1>1, <1>2 DEF Histories, Phases
<1>4. PhaseOf(failed, FALSE) = phase
  BY DEF PhaseOf, RetryOrigins, FailureStates
<1>5. Matches(k, failed, FALSE)
  <2>. HIDE DEF k, phase
  <2>. QED
    BY <1>1, <1>3, <1>4 DEF Matches, RetryOrigins, FailureStates
<1>. QED
  BY <1>5

\* A retry, with its two events, returns the order to that stage.
LEMMA MatchRetried ==
  ASSUME NEW h, NEW o, Matches(h, o, FALSE),
         o.state \in FailureStates, o.origin \in RetryOrigins
  PROVE  Matches(Read(Read(h, "ORDER_RETRY_REQUESTED"), "ORDER_RETRY_RESTORED"),
                 [state |-> o.origin, origin |-> NoOrigin], FALSE)
<1>. DEFINE g == Read(h, "ORDER_RETRY_REQUESTED")
            k == Read(g, "ORDER_RETRY_RESTORED")
            uses == h.restored[o.origin]
            next == [state |-> o.origin, origin |-> NoOrigin]
<1>1. /\ h \in Histories /\ h.valid /\ h.failed = o.origin /\ h.requested = NoOrigin
      /\ h.failed # NoOrigin /\ uses \in Seq(BOOLEAN)
      /\ \A origin \in RetryOrigins : Unused(h.restored[origin]) = {}
      /\ h.started /\ (h.extracted <=> o.origin = "EXTRACTED") /\ h.received
  BY DEF Matches, RetryOrigins, FailureStates, NoOrigin, Histories
<1>2. g = [h EXCEPT !.requested = o.origin]
  BY <1>1 DEF Read, Accepts, Advance
<1>3. /\ g.valid /\ g.received /\ g.started /\ (g.extracted <=> o.origin = "EXTRACTED")
      /\ g.requested = o.origin /\ g.requested # NoOrigin /\ g.restored = h.restored
      /\ g \in Histories
  BY <1>1, <1>2 DEF Histories
<1>. HIDE DEF g
<1>4. k = [g EXCEPT !.restored[o.origin] = Append(@, FALSE),
                    !.phase = RestoredPhase(o.origin),
                    !.failed = NoOrigin, !.requested = NoOrigin]
  BY <1>1, <1>3 DEF Read, Accepts, Advance
<1>5. /\ k.restored = [h.restored EXCEPT ![o.origin] = Append(@, FALSE)]
      /\ h.restored \in [RetryOrigins -> Seq(BOOLEAN)]
  BY <1>1, <1>3, <1>4 DEF Histories
<1>6. /\ Append(uses, FALSE) \in Seq(BOOLEAN) /\ Append(uses, FALSE) # <<>>
      /\ Len(Append(uses, FALSE)) = Len(uses) + 1
      /\ Unused(Append(uses, FALSE)) = {Len(uses) + 1}
  <2>1. /\ Append(uses, FALSE) \in Seq(BOOLEAN)
        /\ Unused(Append(uses, FALSE)) = Unused(uses) \cup {Len(uses) + 1}
    BY <1>1, UnusedAfterRestoration
  <2>2. Append(uses, FALSE) # <<>> /\ Len(Append(uses, FALSE)) = Len(uses) + 1
    <3>1. \A x : x = FALSE => Len(Append(uses, x)) = Len(uses) + 1 /\ Append(uses, x) # <<>>
      BY <1>1
    <3>. QED
      BY <3>1
  <2>3. Unused(uses) = {}
    BY <1>1
  <2>. QED
    BY <2>1, <2>2, <2>3
<1>7. /\ k.restored \in [RetryOrigins -> Seq(BOOLEAN)]
      /\ k.restored[o.origin] = Append(uses, FALSE)
      /\ \A origin \in RetryOrigins \ {o.origin} : k.restored[origin] = h.restored[origin]
  BY <1>5, <1>6
<1>8. /\ k \in Histories /\ k.valid /\ k.received /\ k.started
      /\ (k.extracted <=> o.origin = "EXTRACTED") /\ k.failed = NoOrigin
      /\ k.requested = NoOrigin /\ k.phase = RestoredPhase(o.origin)
  <2>1. RestoredPhase(o.origin) \in Phases
    BY DEF RestoredPhase, Phases
  <2>. QED
    BY <1>3, <1>4, <1>7, <2>1 DEF Histories
<1>9. LastUnused(k.restored[o.origin])
      /\ \A origin \in RetryOrigins \ {o.origin} : Unused(k.restored[origin]) = {}
  <2>1. LastUnused(Append(uses, FALSE))
    BY <1>6 DEF LastUnused
  <2>. QED
    BY <1>1, <1>7, <2>1
<1>10. PhaseOf(next, FALSE) = RestoredPhase(o.origin)
  BY DEF PhaseOf, RetryOrigins
<1>11. Matches(k, next, FALSE)
  <2>. HIDE DEF k, uses
  <2>. QED
    BY <1>1, <1>3, <1>8, <1>9, <1>10 DEF Matches, RetryOrigins, NoOrigin
<1>. QED
  BY <1>11 DEF g

\* What was recorded in order before an event was recorded in order.
LEMMA OrderedPrefix ==
  ASSUME NEW events \in Seq(Events), NEW event \in Events,
         StampsGrow(Append(events, event))
  PROVE  StampsGrow(events)
<1>1. /\ DOMAIN events \subseteq DOMAIN Append(events, event)
      /\ \A i \in DOMAIN events : Append(events, event)[i] = events[i]
  OBVIOUS
<1>. QED
  BY <1>1 DEF StampsGrow

\* One more event at the end of a sequence.
LEMMA AppendFacts ==
  ASSUME NEW events \in Seq(Events), NEW event \in Events
  PROVE  /\ Append(events, event) \in Seq(Events) /\ Len(events) \in Nat
         /\ Len(Append(events, event)) = Len(events) + 1
         /\ DOMAIN Append(events, event) = 1..(Len(events) + 1)
         /\ Append(events, event)[Len(events) + 1] = event
         /\ \A i \in 1..Len(events) : Append(events, event)[i] = events[i]
  OBVIOUS

\* The same for the second event.
LEMMA SecondEvent ==
  ASSUME NEW events \in Seq(Events), NEW event \in Events, Len(events) = 1
  PROVE  /\ Len(Append(events, event)) = 2 /\ DOMAIN Append(events, event) = {1, 2}
         /\ Append(events, event)[1] = events[1] /\ Append(events, event)[2] = event
<1>. DEFINE more == Append(events, event)
            N == Len(events)
<1>1. /\ Len(more) = N + 1 /\ DOMAIN more = 1..(N + 1) /\ more[N + 1] = event
      /\ \A i \in 1..N : more[i] = events[i]
  BY AppendFacts
<1>2. N = 1
  OBVIOUS
<1>. HIDE DEF more, N
<1>3. Len(more) = 2 /\ DOMAIN more = {1, 2} /\ more[2] = event /\ more[1] = events[1]
  BY <1>1, <1>2
<1>. QED
  BY <1>3 DEF more

\* What has begun stays begun.
LEMMA BegunAfter ==
  ASSUME NEW events \in Seq(Events), NEW event \in Events, Begun(events),
         event.type \in KnownEvents
  PROVE  Begun(Append(events, event))
<1>. DEFINE more == Append(events, event)
            N == Len(events)
<1>1. /\ N \in Nat /\ N >= 2 /\ Len(more) = N + 1 /\ DOMAIN events = 1..N
      /\ DOMAIN more = 1..(N + 1)
      /\ more[N + 1] = event /\ \A i \in 1..N : more[i] = events[i]
  BY DEF Begun
<1>2. 1 \in 1..N /\ 2 \in 1..N /\ \A i \in 1..(N + 1) : i = N + 1 \/ i \in 1..N
  BY <1>1
<1>3. Begun(more)
  <2>. HIDE DEF more, N
  <2>. QED
    BY <1>1, <1>2 DEF Begun, N
<1>. QED
  BY <1>3

\* A request's event keeps the automaton in agreement with the order.
LEMMA ParsedAfter ==
  ASSUME IInv, Parsed, NEW event \in Events, log' = Append(log, event),
         order.state \notin {"MISSING", "RECEIVED"} \cup Routed,
         order'.state \notin {"MISSING", "RECEIVED"} \cup Routed,
         event.type \in KnownEvents,
         Matches(EndOf(log), order, fence # Nobody) =>
           Matches(Read(EndOf(log), event.type), order', fence' # Nobody)
  PROVE  Parsed'
<1>. SUFFICES ASSUME StampsGrow(log')
              PROVE  Matches(EndOf(log'), order', fence' # Nobody) /\ Begun(log')
  BY DEF Parsed, Matches, EndOf, Begun, StampsGrow, Types, PhaseOf
<1>1. log \in Seq(Events)
  BY DEF IInv, TypeOK
<1>2. StampsGrow(log)
  BY <1>1, OrderedPrefix
<1>3. Matches(EndOf(log), order, fence # Nobody) /\ Begun(log)
  BY <1>2 DEF Parsed
<1>4. EndOf(log') = Read(EndOf(log), event.type)
  BY <1>1, EndAfter
<1>. QED
  BY <1>1, <1>3, <1>4, BegunAfter

\* Before the first delivery there is no order and no history.
LEMMA InitParsed == Init => Parsed
  BY DEF Init, Parsed, Missing

\* Every action keeps the history in agreement with the order.
LEMMA ParsedStep == IInv /\ Parsed /\ [Next]_vars => Parsed'
<1>. SUFFICES ASSUME IInv, Parsed, [Next]_vars PROVE Parsed'
  OBVIOUS
<1>0. log \in Seq(Events) /\ arrived \in [Requests -> Nat] /\ clock + 1 \in Nat
  BY DEF IInv, TypeOK
<1>00. TypeOK /\ RowShape
  BY DEF IInv
<1>1. CASE UNCHANGED <<order, log, fence>>
  BY <1>1 DEF Parsed
<1>2. ASSUME NEW r \in Requests, CreateOrder(r) PROVE Parsed'
  <2>. DEFINE event == Event(arrived[r], 0, "ORDER_RECEIVED")
  <2>1. /\ log = <<>> /\ fence' = fence /\ fence = Nobody
        /\ order' = [state |-> "RECEIVED", origin |-> NoOrigin] /\ log' = Append(log, event)
    BY <1>2 DEF CreateOrder, IInv, RowShape, InProgress, Missing
  <2>2. event \in Events /\ event.type = "ORDER_RECEIVED"
    <3>1. "ORDER_RECEIVED" \in EventTypes /\ 0 \in Nat /\ arrived[r] \in Nat
      BY <1>0 DEF EventTypes, KnownEvents
    <3> QED BY <3>1, EventIn
  <2>3. EndOf(log') = Read(HistoryStart, "ORDER_RECEIVED")
    BY <1>0, <2>1, <2>2, EndAfter, EndOfNothing
  <2>4. Matches(EndOf(log'), order', FALSE)
    BY <2>1, <2>3, MatchReceived
  <2>5. Matches(EndOf(log'), order', fence' # Nobody)
    BY <2>1, <2>4
  <2>6. Len(log') = 1 /\ log'[1] = event
    BY <2>1
  <2>7. order'.state = "RECEIVED"
    BY <2>1
  <2>. QED
    BY <2>2, <2>5, <2>6, <2>7 DEF Parsed
<1>3. ASSUME NEW r \in Requests, Claim(r) PROVE Parsed'
  <2>. DEFINE granted == ClaimKind(HistoryOf(log))
              event == Event(arrived[r], 1, ClaimEvent[granted])
  <2>1. /\ granted # "STAND_DOWN"
        /\ order' = IF granted = "INITIAL" THEN TransitionTo(order, "PROCESSING") ELSE order
        /\ log' = Append(log, event) /\ fence' = r /\ fence' # Nobody
    BY <1>3, NamesAssumption DEF Claim
  <2>2. /\ granted \in ClaimKinds \ {"STAND_DOWN"}
        /\ \/ granted = "INITIAL" /\ order.state = "RECEIVED" /\ fence = Nobody
           \/ /\ granted \in {"RESUME_PROCESSING", "RESUME_EXTRACTED"}
              /\ order.state = StageOf(granted) /\ InProgress /\ fence = Nobody
           \/ /\ granted \in {"RECOVER_PROCESSING", "RECOVER_EXTRACTED"}
              /\ order.state = StageOf(granted) /\ InProgress
              /\ fence # Nobody /\ fenceLeft = 0
    <3>. HIDE DEF granted
    <3>. QED
      BY <2>1, GrantFacts DEF granted
  <2>. HIDE DEF granted
  <2>3. /\ ClaimEvent[granted] \in KnownEvents /\ ClaimEvent[granted] \in EventTypes
    BY <2>2 DEF ClaimEvent, ClaimKinds, EventTypes, KnownEvents
  <2>4. event \in Events /\ event.type = ClaimEvent[granted]
    BY <1>0, <2>3, EventIn
  <2>5. order.state \notin FailureStates /\ order.origin = NoOrigin
    <3>1. order.state \notin FailureStates
      BY <2>2 DEF FailureStates, InProgress
    <3>. QED
      BY <1>00, <3>1, OrderFacts
  <2>6. CASE granted = "INITIAL"
    <3>1. order.state = "RECEIVED" /\ fence = Nobody
          /\ order' = [state |-> "PROCESSING", origin |-> NoOrigin]
      BY <2>1, <2>2, <2>6 DEF TransitionTo, FailureStates, InProgress, StageOf
    <3>. SUFFICES ASSUME StampsGrow(log')
                  PROVE  Matches(EndOf(log'), order', TRUE) /\ Begun(log')
      <4>1. (fence' # Nobody) = TRUE /\ order'.state = "PROCESSING"
        BY <2>1, <3>1
      <4>. QED
        BY <4>1 DEF Parsed
    <3>2. StampsGrow(log)
      BY <1>0, <2>1, <2>4, OrderedPrefix
    <3>3. Matches(EndOf(log), order, FALSE) /\ Len(log) = 1 /\ log[1].type = "ORDER_RECEIVED"
      <4>1. /\ Matches(EndOf(log), order, fence # Nobody)
            /\ Len(log) = 1 /\ log[1].type = "ORDER_RECEIVED"
        BY <3>1, <3>2 DEF Parsed, Routed
      <4>2. (fence # Nobody) = FALSE
        BY <3>1
      <4>. QED
        BY <4>1, <4>2
    <3>4. event.type = "ORDER_PROCESSING_STARTED"
      BY <2>4, <2>6 DEF ClaimEvent
    <3>5. EndOf(log') = Read(EndOf(log), "ORDER_PROCESSING_STARTED")
      BY <1>0, <2>1, <2>4, <3>4, EndAfter
    <3>6. Matches(EndOf(log'), order', TRUE)
      BY <2>5, <3>1, <3>3, <3>5, MatchStarted
    <3>7. Begun(log')
      <4>1. Len(log') = 2 /\ DOMAIN log' = {1, 2} /\ log'[1] = log[1] /\ log'[2] = event
        <5>. HIDE DEF event
        <5>. QED
          BY <1>0, <2>1, <2>4, <3>3, SecondEvent
      <4>. QED
        BY <3>3, <3>4, <4>1 DEF Begun, KnownEvents
    <3>. QED
      BY <3>6, <3>7
  <2>7. CASE granted # "INITIAL"
    <3>1. order' = order /\ order.state = StageOf(granted) /\ order.state \in RetryOrigins
      BY <2>1, <2>2, <2>7 DEF StageOf, RetryOrigins
    <3>2. ASSUME Matches(EndOf(log), order, fence # Nobody)
          PROVE  Matches(Read(EndOf(log), event.type), order', fence' # Nobody)
      <4>1. CASE granted \in {"RESUME_PROCESSING", "RESUME_EXTRACTED"}
        <5>1. fence = Nobody /\ ResumedEvent(order.state) = event.type
          BY <2>2, <2>4, <3>1, <4>1 DEF ResumedEvent, ClaimEvent, StageOf, FromProcessing,
                                        ProcessingKinds
        <5>2. (fence # Nobody) = FALSE /\ (fence' # Nobody) = TRUE
          BY <2>1, <5>1
        <5>. QED
          BY <2>5, <3>1, <3>2, <5>1, <5>2, MatchResumed
      <4>2. CASE granted \in {"RECOVER_PROCESSING", "RECOVER_EXTRACTED"}
        <5>1. fence # Nobody /\ RecoveredEvent(order.state) = event.type
          BY <2>2, <2>4, <3>1, <4>2 DEF RecoveredEvent, ClaimEvent, StageOf, FromProcessing,
                                        ProcessingKinds
        <5>2. (fence # Nobody) = TRUE /\ (fence' # Nobody) = TRUE
          BY <2>1, <5>1
        <5>. QED
          BY <2>5, <3>1, <3>2, <5>1, <5>2, MatchRecovered
      <4>. QED
        BY <2>2, <2>7, <4>1, <4>2
    <3>. QED
      <4>1. order.state \notin {"MISSING", "RECEIVED"} \cup Routed
        BY <3>1 DEF RetryOrigins, Routed
      <4>2. event.type \in KnownEvents
        BY <2>3, <2>4
      <4>. HIDE DEF event
      <4>. QED
        BY <2>1, <2>4, <3>1, <3>2, <4>1, <4>2, ParsedAfter
  <2>. QED
    BY <2>6, <2>7
<1>4. ASSUME NEW r \in Requests, CompleteExtraction(r), ~UNCHANGED <<order, log, fence>>
      PROVE  Parsed'
  <2>. DEFINE event == Event(arrived[r], 2, "ORDER_EXTRACTION_COMPLETED")
  <2>1. /\ order.state = "PROCESSING" /\ fence = r /\ fence' = r /\ r # Nobody
        /\ order' = [state |-> "EXTRACTED", origin |-> NoOrigin]
        /\ log' = Append(log, event)
    BY <1>4, NamesAssumption DEF CompleteExtraction, HoldsFence, TransitionTo, FailureStates
  <2>2. event \in Events /\ event.type = "ORDER_EXTRACTION_COMPLETED"
    <3>1. "ORDER_EXTRACTION_COMPLETED" \in EventTypes /\ 2 \in Nat
      BY DEF EventTypes, KnownEvents
    <3>. QED
      BY <1>0, <3>1, EventIn
  <2>3. order.origin = NoOrigin
    BY <1>00, <2>1, OrderFacts DEF FailureStates
  <2>4. (fence # Nobody) = TRUE /\ (fence' # Nobody) = TRUE
    BY <2>1
  <2>5. ASSUME Matches(EndOf(log), order, fence # Nobody)
        PROVE  Matches(Read(EndOf(log), event.type), order', fence' # Nobody)
    BY <2>1, <2>2, <2>3, <2>4, <2>5, MatchCompleted
  <2>6. /\ order.state \notin {"MISSING", "RECEIVED"} \cup Routed
        /\ order'.state \notin {"MISSING", "RECEIVED"} \cup Routed
        /\ event.type \in KnownEvents
    BY <2>1, <2>2 DEF Routed, KnownEvents
  <2>. HIDE DEF event
  <2>. QED
    BY <2>1, <2>2, <2>5, <2>6, ParsedAfter
<1>5. ASSUME NEW r \in Requests, NEW origin \in RetryOrigins, NEW k \in {2, 3},
             PersistFailure(r, origin, k)
      PROVE  Parsed'
  <2>. DEFINE event == Event(arrived[r], k, FailureEvent(origin))
  <2>1. /\ order.state = origin /\ fence = r /\ fence' = Nobody /\ r # Nobody
        /\ log' = Append(log, event)
    BY <1>5, NamesAssumption DEF PersistFailure, HoldsFence, ClearFence
  <2>2. PICK target \in FailureStates : order' = [state |-> target, origin |-> origin]
    BY <1>5, <2>1 DEF PersistFailure, TransitionTo
  <2>3. FailureEvent(origin) \in EventTypes /\ FailureEvent(origin) \in KnownEvents
    BY DEF FailureEvent, EventTypes, KnownEvents
  <2>4. event \in Events /\ event.type = FailureEvent(origin)
    <3>1. k \in Nat
      OBVIOUS
    <3>. QED
      BY <1>0, <2>3, <3>1, EventIn
  <2>5. order.origin = NoOrigin
    BY <1>00, <2>1, OrderFacts DEF FailureStates, RetryOrigins
  <2>6. (fence # Nobody) = TRUE /\ (fence' # Nobody) = FALSE
    BY <2>1
  <2>7. ASSUME Matches(EndOf(log), order, fence # Nobody)
        PROVE  Matches(Read(EndOf(log), event.type), order', fence' # Nobody)
    BY <2>1, <2>2, <2>4, <2>5, <2>6, <2>7, MatchFailed
  <2>8. /\ order.state \notin {"MISSING", "RECEIVED"} \cup Routed
        /\ order'.state \notin {"MISSING", "RECEIVED"} \cup Routed
        /\ event.type \in KnownEvents
    BY <2>1, <2>2, <2>3, <2>4 DEF Routed, RetryOrigins, FailureStates
  <2>. HIDE DEF event
  <2>. QED
    BY <2>1, <2>4, <2>7, <2>8, ParsedAfter
<1>6. ASSUME NEW r \in Requests, Route(r) PROVE Parsed'
  <2>1. order'.state \in Routed
    BY <1>6 DEF Route, NormalTransitions, TransitionTo, Routed
  <2>. QED
    BY <2>1 DEF Parsed
<1>7. ASSUME HumanRetry PROVE Parsed'
  <2>. DEFINE a == Event(clock + 1, 0, "ORDER_RETRY_REQUESTED")
              b == Event(clock + 1, 1, "ORDER_RETRY_RESTORED")
              l == Append(log, a)
  <2>1. /\ order.state = "FAILED_RETRYABLE" /\ fence' = fence
        /\ order' = [state |-> order.origin, origin |-> NoOrigin]
        /\ log' = log \o <<a, b>>
    BY <1>7 DEF HumanRetry, CanRetry, Retry
  <2>2. order.origin \in RetryOrigins /\ fence = Nobody
    BY <2>1 DEF IInv, RowShape, FailureStates, InProgress
  <2>3. /\ a \in Events /\ a.type = "ORDER_RETRY_REQUESTED"
        /\ b \in Events /\ b.type = "ORDER_RETRY_RESTORED"
    <3>1. "ORDER_RETRY_REQUESTED" \in EventTypes /\ "ORDER_RETRY_RESTORED" \in EventTypes
      BY DEF EventTypes, KnownEvents
    <3>2. a \in Events /\ a.type = "ORDER_RETRY_REQUESTED"
      BY <1>0, <3>1, EventIn, 0 \in Nat
    <3>3. b \in Events /\ b.type = "ORDER_RETRY_RESTORED"
      BY <1>0, <3>1, EventIn, 1 \in Nat
    <3>. QED
      BY <3>2, <3>3
  <2>. HIDE DEF a, b
  <2>4. l \in Seq(Events) /\ log' = Append(l, b)
    BY <1>0, <2>1, <2>3
  <2>5. order'.state \in RetryOrigins /\ order'.state \notin {"MISSING", "RECEIVED"} \cup Routed
    BY <2>1, <2>2 DEF RetryOrigins, Routed
  <2>. HIDE DEF l
  <2>. SUFFICES ASSUME StampsGrow(log')
                PROVE  Matches(EndOf(log'), order', FALSE) /\ Begun(log')
    <3>1. (fence' # Nobody) = FALSE
      BY <2>1, <2>2
    <3>. QED
      BY <2>5, <3>1 DEF Parsed
  <2>6. StampsGrow(l)
    BY <2>3, <2>4, OrderedPrefix
  <2>7. StampsGrow(log)
    BY <1>0, <2>3, <2>6, OrderedPrefix DEF l
  <2>8. Matches(EndOf(log), order, fence # Nobody) /\ Begun(log)
    BY <2>1, <2>7 DEF Parsed, Routed
  <2>9. Matches(EndOf(log), order, FALSE)
    <3>1. (fence # Nobody) = FALSE
      BY <2>2
    <3>. QED
      BY <2>8, <3>1
  <2>10. EndOf(l) = Read(EndOf(log), "ORDER_RETRY_REQUESTED")
    BY <1>0, <2>3, EndAfter DEF l
  <2>11. EndOf(log') = Read(EndOf(l), "ORDER_RETRY_RESTORED")
    BY <2>3, <2>4, EndAfter
  <2>12. Matches(EndOf(log'), order', FALSE)
    BY <2>1, <2>2, <2>9, <2>10, <2>11, MatchRetried DEF FailureStates
  <2>13. Begun(l)
    BY <1>0, <2>3, <2>8, BegunAfter DEF l, KnownEvents
  <2>14. Begun(log')
    BY <2>3, <2>4, <2>13, BegunAfter DEF KnownEvents
  <2>. QED
    BY <2>12, <2>14
<1>8. ASSUME NEW r \in Requests, ExtractionFails(r) \/ ValidationFails(r) PROVE Parsed'
  <2>1. StageOf(kind[r]) \in RetryOrigins /\ "EXTRACTED" \in RetryOrigins
    BY DEF StageOf, RetryOrigins
  <2>. QED
    BY <1>5, <1>8, <2>1 DEF ExtractionFails, ValidationFails
<1>9. CASE UNCHANGED vars
  BY <1>1, <1>9 DEF vars, row
<1>10. CASE Next
  <2>1. ASSUME NEW r \in Requests,
               Arrive(r) \/ ReplayOrder(r) \/ StandDown(r) \/ GatherFacts(r) \/ GiveUp(r)
        PROVE  Parsed'
    BY <1>1, <2>1 DEF Arrive, ReplayOrder, StandDown, GatherFacts, GiveUp, row
  <2>2. CASE Tick
    BY <1>1, <2>2 DEF Tick
  <2>. QED
    BY <1>1, <1>2, <1>3, <1>4, <1>6, <1>7, <1>8, <1>10, <2>1, <2>2 DEF Next
<1>. QED
  BY <1>9, <1>10

\* The agreement holds in every state of every behaviour.
THEOREM HistoryIsUnderstood == Spec => []Parsed
  BY Invariance, InitParsed, ParsedStep, PTL DEF Spec

\* Read in order, the history of an order in progress is recoverable, and holds an
\* unused retry exactly while nobody owns the order.
LEMMA InProgressFacts ==
  ASSUME IInv, Parsed, InProgress, InOrder
  PROVE  /\ Recoverable(order.state, HistoryOf(log))
         /\ RetryUnused(HistoryStatus(HistoryOf(log)), order.state) <=> fence = Nobody
<1>. DEFINE end == EndOf(log)
            history == Types(log)
            status == HistoryStatus(history)
            state == order.state
            uses == end.restored[state]
<1>1. log \in Seq(Events) /\ StampsGrow(log) /\ HistoryOf(log) = history
  <2>1. log \in Seq(Events) /\ StampsGrow(log)
    BY DEF IInv, TypeOK, InOrder, StampsGrow
  <2>. QED
    BY <2>1, HistoryInOrder
<1>2. state \in RetryOrigins /\ order.origin = NoOrigin
  <2>1. state \in RetryOrigins /\ state \notin FailureStates
    BY DEF InProgress, RetryOrigins, FailureStates
  <2>. QED
    BY <2>1, OrderFacts DEF IInv
<1>3. Matches(end, order, fence # Nobody) /\ Begun(log)
  BY <1>1, <1>2 DEF Parsed, RetryOrigins, Routed
<1>4. /\ end \in Histories /\ end.valid /\ Undisturbed(end)
      /\ end.phase = IF fence # Nobody THEN state ELSE RestoredPhase(state)
      /\ IF fence = Nobody THEN LastUnused(uses) ELSE Unused(uses) = {}
      /\ uses \in Seq(BOOLEAN)
  BY <1>2, <1>3 DEF Matches, PhaseOf, RetryOrigins, Undisturbed, Histories
<1>5. /\ Len(history) = Len(log) /\ Len(history) \in Nat /\ Len(history) >= 2
      /\ history[1] = "ORDER_RECEIVED" /\ history[2] = "ORDER_PROCESSING_STARTED"
      /\ \A i \in DOMAIN history : history[i] \in KnownEvents
  <2>1. /\ Len(history) = Len(log) /\ DOMAIN history = 1..Len(log) /\ Len(log) \in Nat
        /\ \A i \in 1..Len(log) : history[i] = log[i].type
        /\ DOMAIN log = 1..Len(log)
    BY <1>1, TypesFacts
  <2>. HIDE DEF history
  <2>. QED
    BY <1>3, <2>1 DEF Begun
<1>6. status.valid /\ status.phase = end.phase /\ status.restored = end.restored
  <2>1. end = Readings(history)[Len(history)]
    BY <1>5 DEF EndOf
  <2>. HIDE DEF end, history
  <2>2. status = [end EXCEPT !.valid = /\ @ /\ Undisturbed(end)
                                       /\ Len(history) >= 2
                                       /\ history[1] = "ORDER_RECEIVED"
                                       /\ history[2] = "ORDER_PROCESSING_STARTED"]
    BY <2>1 DEF HistoryStatus
  <2>. HIDE DEF status
  <2>. QED
    BY <1>4, <1>5, <2>2 DEF Histories
<1>7. Range(history) \subseteq KnownEvents
  BY <1>5 DEF Range
<1>8. end.phase \in PhasesOf(state)
  BY <1>2, <1>4 DEF PhasesOf, RestoredPhase, RetryOrigins
<1>9. Recoverable(state, history)
  BY <1>6, <1>7, <1>8 DEF Recoverable
<1>10. RetryUnused(status, state) <=> fence = Nobody
  <2>1. RetryUnused(status, state) <=> uses # <<>> /\ ~uses[Len(uses)]
    BY <1>6 DEF RetryUnused, Last
  <2>2. uses # <<>> => Len(uses) \in DOMAIN uses
    BY <1>4
  <2>. HIDE DEF uses, status
  <2>3. CASE fence = Nobody
    BY <1>4, <2>1, <2>3 DEF LastUnused, Unused
  <2>4. CASE fence # Nobody
    BY <1>4, <2>1, <2>2, <2>4 DEF Unused
  <2>. QED
    BY <2>3, <2>4
<1>. QED
  BY <1>1, <1>9, <1>10

\* Whatever redelivery comes next for an order in progress is served, as long as
\* nothing has been recorded out of order (claims.py): for any number of
\* deliveries, retries and recoveries.
THEOREM RedeliveriesAreServed == Spec => []RedeliveryIsServed
<1>1. ASSUME IInv, Parsed PROVE RedeliveryIsServed
  <2>. SUFFICES ASSUME InProgress, InOrder
                PROVE  IF fence # Nobody /\ fenceLeft > 0
                       THEN /\ ClaimKind(HistoryOf(log)) = "STAND_DOWN"
                            /\ RetryAfterKnown(HistoryOf(log))
                       ELSE ClaimKind(HistoryOf(log)) # "STAND_DOWN"
    BY DEF RedeliveryIsServed
  <2>. DEFINE history == HistoryOf(log)
  <2>1. /\ Recoverable(order.state, history)
        /\ RetryUnused(HistoryStatus(history), order.state) <=> fence = Nobody
    BY <1>1, InProgressFacts
  <2>2. fenceLeft \in Nat
    BY <1>1, LeaseAssumption DEF IInv, TypeOK
  <2>3. order.state \in {"PROCESSING", "EXTRACTED"}
    BY DEF InProgress
  <2>. HIDE DEF history
  <2>4. CASE fence = Nobody
    <3>1. DecideClaimKind(order.state, history) # "STAND_DOWN"
      BY <2>1, <2>3, <2>4 DEF DecideClaimKind
    <3>2. ClaimKind(history) # "STAND_DOWN"
      BY <3>1 DEF ClaimKind
    <3>. QED
      BY <2>4, <3>2 DEF history
  <2>5. CASE fence # Nobody
    <3>1. DecideClaimKind(order.state, history) = "STAND_DOWN"
      BY <2>1, <2>3, <2>5 DEF DecideClaimKind
    <3>2. ClaimKind(history) = RecoverStale(order.state, history)
      BY <3>1 DEF ClaimKind
    <3>3. CASE fenceLeft > 0
      <4>1. ClaimKind(history) = "STAND_DOWN"
        BY <2>2, <3>2, <3>3 DEF RecoverStale
      <4>2. RetryAfterKnown(history)
        BY <2>1, <2>5, <3>3 DEF RetryAfterKnown
      <4>. QED
        BY <2>5, <3>3, <4>1, <4>2 DEF history
    <3>4. CASE ~(fenceLeft > 0)
      <4>1. ClaimKind(history) # "STAND_DOWN"
        BY <2>1, <2>2, <2>3, <2>5, <3>2, <3>4 DEF RecoverStale
      <4>. QED
        BY <3>4, <4>1 DEF history
    <3>. QED
      BY <3>3, <3>4
  <2>. QED
    BY <2>4, <2>5
<1>. QED
  BY <1>1, Invariance, HistoryIsUnderstood, PTL
==============================================================================
