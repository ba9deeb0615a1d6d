------------------------- MODULE NotificationsProofs -------------------------
(***************************************************************************)
(* Proofs about Notifications, for any set of intents and dispatchers and  *)
(* any number of attempts.  The argument: IInv ties every dispatcher at    *)
(* work to a claim token and an attempt number of its own, and says that   *)
(* the token is the row's exactly as long as the attempt is the last one.  *)
(***************************************************************************)
EXTENDS Notifications, TLAPS

\* What a claim request does to one row: it finalizes it, claims it as a new
\* attempt, or leaves it alone.
LEMMA FinalizeFacts ==
  ASSUME IInv, NEW picked, NEW n \in Notifications, FinalizeAndClaim(picked),
         n \in picked => Eligible(n)
  PROVE  \/ /\ Exhausted(n) /\ n \notin picked
            /\ status'[n] = "FAILED_FINAL" /\ claim'[n] = NoToken /\ expired'[n] = FALSE
            /\ attempts'[n] = attempts[n]
         \/ /\ ~Exhausted(n) /\ n \in picked
            /\ status'[n] = "CLAIMED" /\ claim'[n] = issued + 1 /\ expired'[n] = FALSE
            /\ attempts'[n] = attempts[n] + 1 /\ attempts'[n] \in Attempts
         \/ /\ ~Exhausted(n) /\ n \notin picked
            /\ status'[n] = status[n] /\ claim'[n] = claim[n]
            /\ expired'[n] = expired[n] /\ attempts'[n] = attempts[n]
<1>1. attempts[n] \in 0..MaxAttempts /\ expired[n] \in BOOLEAN
  BY DEF IInv, TypeOK
<1>2. Exhausted(n) => n \notin picked
  BY <1>1, AttemptsAssumption DEF Exhausted, Eligible
<1>3. n \in picked => attempts[n] + 1 \in Attempts
  BY <1>1, AttemptsAssumption DEF Eligible, Attempts
<1>4. /\ status'[n] = IF Exhausted(n) THEN "FAILED_FINAL"
                      ELSE IF n \in picked THEN "CLAIMED" ELSE status[n]
      /\ claim'[n] = IF Exhausted(n) THEN NoToken
                     ELSE IF n \in picked THEN issued + 1 ELSE claim[n]
      /\ expired'[n] = IF Exhausted(n) \/ n \in picked THEN FALSE ELSE expired[n]
      /\ attempts'[n] = IF n \in picked THEN attempts[n] + 1 ELSE attempts[n]
  BY DEF FinalizeAndClaim, NextAttempt
<1>5. CASE Exhausted(n)
  BY <1>2, <1>4, <1>5
<1>6. CASE ~Exhausted(n) /\ n \in picked
  BY <1>3, <1>4, <1>6
<1>7. CASE ~Exhausted(n) /\ n \notin picked
  BY <1>4, <1>7
<1> QED
  BY <1>5, <1>6, <1>7

\* The rows stay well typed under a claim request.
LEMMA FinalizeType ==
  ASSUME IInv, NEW picked, FinalizeAndClaim(picked),
         \A n \in Notifications : n \in picked => Eligible(n)
  PROVE  /\ status' \in [Notifications -> {"NONE", "PENDING", "CLAIMED"} \cup Settled]
         /\ attempts' \in [Notifications -> 0..MaxAttempts]
         /\ claim' \in [Notifications -> Nat]
         /\ expired' \in [Notifications -> BOOLEAN]
<1>1. TypeOK
  BY DEF IInv
<1>2. \A n \in Notifications :
        /\ status'[n] \in {"NONE", "PENDING", "CLAIMED"} \cup Settled
        /\ attempts'[n] \in 0..MaxAttempts
        /\ claim'[n] \in Nat
        /\ expired'[n] \in BOOLEAN
  <2> SUFFICES ASSUME NEW n \in Notifications
               PROVE  /\ status'[n] \in {"NONE", "PENDING", "CLAIMED"} \cup Settled
                      /\ attempts'[n] \in 0..MaxAttempts
                      /\ claim'[n] \in Nat
                      /\ expired'[n] \in BOOLEAN
    OBVIOUS
  <2> QED
    <3>1. /\ status[n] \in {"NONE", "PENDING", "CLAIMED"} \cup Settled
          /\ attempts[n] \in 0..MaxAttempts /\ claim[n] \in Nat
          /\ expired[n] \in BOOLEAN /\ issued + 1 \in Nat
      BY <1>1 DEF TypeOK
    <3>2. \A k \in Attempts : k \in 0..MaxAttempts
      BY AttemptsAssumption DEF Attempts
    <3>3. /\ status'[n] \in {"FAILED_FINAL", "CLAIMED", status[n]}
          /\ claim'[n] \in {0, issued + 1, claim[n]}
          /\ expired'[n] = FALSE \/ expired'[n] = expired[n]
          /\ attempts'[n] = attempts[n] \/ attempts'[n] \in Attempts
      BY FinalizeFacts DEF NoToken
    <3>4. expired'[n] \in BOOLEAN
      BY <3>1, <3>3
    <3>5. /\ status'[n] \in {"NONE", "PENDING", "CLAIMED"} \cup Settled
          /\ attempts'[n] \in 0..MaxAttempts
          /\ claim'[n] \in Nat
      BY <3>1, <3>2, <3>3 DEF Settled
    <3> QED
      BY <3>4, <3>5
<1> QED
  BY <1>2 DEF FinalizeAndClaim

\* A dispatcher that leaves is idle and the others are as they were.
LEMMA LeaveFacts ==
  ASSUME TypeOK, NEW d \in Dispatchers, Leave(d)
  PROVE  /\ pc'[d] = "idle" /\ outcome'[d] = Nothing
         /\ \A e \in Dispatchers \ {d} :
              /\ pc'[e] = pc[e] /\ job'[e] = job[e] /\ token'[e] = token[e]
              /\ attempt'[e] = attempt[e] /\ outcome'[e] = outcome[e]
              /\ inTime'[e] = inTime[e]
         /\ pc' \in [Dispatchers -> Places]
         /\ job' \in [Dispatchers -> Notifications \cup {Nothing}]
         /\ token' \in [Dispatchers -> Nat]
         /\ attempt' \in [Dispatchers -> 0..MaxAttempts]
         /\ outcome' \in [Dispatchers -> {"DELIVERED", "FAILED", Nothing}]
         /\ inTime' \in [Dispatchers -> BOOLEAN]
<1>1. 0 \in 0..MaxAttempts
  BY AttemptsAssumption
<1> QED
  BY <1>1 DEF TypeOK, Leave, Places, NoToken

\* A dispatcher that leaves while the rows stay as they are keeps the invariant.
LEMMA LeaveStep ==
  ASSUME IInv, NEW d \in Dispatchers, Leave(d), UNCHANGED <<intent, issued, provider>>
  PROVE  IInv'
<1> USE DEF intent, provider
<1>1. TypeOK'
  BY LeaveFacts DEF IInv, TypeOK
<1>2. \A n \in Notifications : RowShape(n)'
  BY DEF IInv, RowShape
<1>3. \A e \in Dispatchers : DispatcherShape(e)'
  <2> SUFFICES ASSUME NEW e \in Dispatchers PROVE DispatcherShape(e)'
    OBVIOUS
  <2>1. CASE e = d
    BY <2>1, LeaveFacts DEF IInv, DispatcherShape
  <2>2. CASE e # d
    <3>1. /\ pc'[e] = pc[e] /\ job'[e] = job[e] /\ token'[e] = token[e]
          /\ attempt'[e] = attempt[e] /\ outcome'[e] = outcome[e]
          /\ inTime'[e] = inTime[e]
      BY <2>2, LeaveFacts DEF IInv
    <3> QED
      BY <3>1 DEF IInv, DispatcherShape
  <2> QED
    BY <2>1, <2>2
<1>4. AttemptsDiffer'
  BY LeaveFacts DEF IInv, AttemptsDiffer
<1>5. SettledByTheLastAttempt'
  BY DEF IInv, SettledByTheLastAttempt
<1> QED
  BY <1>1, <1>2, <1>3, <1>4, <1>5 DEF IInv

\* The initial states satisfy the invariant.
LEMMA InitIInv == Init => IInv
<1> SUFFICES ASSUME Init PROVE IInv
  OBVIOUS
<1>1. TypeOK
  BY AttemptsAssumption DEF Init, TypeOK, Places, Settled, Attempts, NoToken
<1>2. ASSUME NEW n \in Notifications PROVE RowShape(n)
  <2>1. /\ status[n] = "NONE" /\ claim[n] = 0 /\ issued = 0 /\ expired[n] = FALSE
        /\ accepted[n] = {} /\ called[n] = {}
    BY DEF Init, NoToken
  <2> QED
    BY <2>1 DEF RowShape, NoToken
<1>3. (\A d \in Dispatchers : DispatcherShape(d)) /\ AttemptsDiffer
  BY DEF Init, DispatcherShape, AttemptsDiffer
<1>4. SettledByTheLastAttempt
  BY DEF Init, SettledByTheLastAttempt
<1> QED
  BY <1>1, <1>2, <1>3, <1>4 DEF IInv

\* Granting a claim keeps the invariant.
LEMMA ClaimStep ==
  ASSUME IInv, NEW d \in Dispatchers, NEW n \in Notifications, Claim(d, n)
  PROVE  IInv'
<1> DEFINE Row(m) == /\ status'[m] = status[m] /\ claim'[m] = claim[m]
                     /\ expired'[m] = expired[m] /\ attempts'[m] = attempts[m]
<1>0. TypeOK /\ issued \in Nat /\ issued' = issued + 1
  BY DEF IInv, TypeOK, Claim
<1>1. /\ pc' = [pc EXCEPT ![d] = "claimed"]
      /\ job' = [job EXCEPT ![d] = n]
      /\ token' = [token EXCEPT ![d] = issued + 1]
      /\ attempt' = [attempt EXCEPT ![d] = attempts[n] + 1]
      /\ due' = due
      /\ UNCHANGED <<outcome, inTime, called, accepted>>
  BY DEF Claim, NextAttempt, provider, FinalizeAndClaim
<1>2. \A m \in Notifications :
        \/ /\ Exhausted(m) /\ m # n
           /\ status'[m] = "FAILED_FINAL" /\ claim'[m] = NoToken /\ expired'[m] = FALSE
           /\ attempts'[m] = attempts[m]
        \/ /\ m = n
           /\ status'[m] = "CLAIMED" /\ claim'[m] = issued + 1 /\ expired'[m] = FALSE
           /\ attempts'[m] = attempts[m] + 1 /\ attempts'[m] \in Attempts
        \/ ~Exhausted(m) /\ m # n /\ Row(m)
  BY FinalizeFacts DEF Claim
<1>3. TypeOK'
  <2>1. attempts[n] + 1 \in 0..MaxAttempts
    BY <1>2, AttemptsAssumption DEF Attempts, Exhausted
  <2>2. /\ status' \in [Notifications -> {"NONE", "PENDING", "CLAIMED"} \cup Settled]
        /\ attempts' \in [Notifications -> 0..MaxAttempts]
        /\ claim' \in [Notifications -> Nat]
        /\ expired' \in [Notifications -> BOOLEAN]
    BY FinalizeType DEF Claim
  <2> QED
    BY <1>0, <1>1, <2>1, <2>2 DEF TypeOK, Places
<1>4. \A m \in Notifications : RowShape(m)'
  <2> SUFFICES ASSUME NEW m \in Notifications PROVE RowShape(m)'
    OBVIOUS
  <2>1. /\ RowShape(m) /\ claim[m] \in Nat /\ attempts[m] \in Nat
        /\ claim'[m] \in Nat /\ called[m] \in SUBSET Attempts
    BY <1>3 DEF IInv, TypeOK
  <2> QED
    BY <1>0, <1>1, <1>2, <2>1, AttemptsAssumption
    DEF RowShape, NoToken, Exhausted, Attempts
<1>5. \A e \in Dispatchers : DispatcherShape(e)'
  <2> SUFFICES ASSUME NEW e \in Dispatchers PROVE DispatcherShape(e)'
    OBVIOUS
  <2>0. /\ RowShape(n) /\ attempts[n] \in Nat /\ attempts'[n] = attempts[n] + 1
        /\ claim'[n] = issued + 1 /\ status'[n] = "CLAIMED" /\ ~expired'[n]
        /\ called[n] \in SUBSET Attempts
    BY <1>2 DEF IInv, TypeOK, Exhausted
  <2>1. CASE e = d
    <3>1. /\ pc'[e] = "claimed" /\ job'[e] = n /\ token'[e] = issued + 1
          /\ attempt'[e] = attempts[n] + 1 /\ outcome'[e] = outcome[e]
      BY <1>0, <1>1, <2>1 DEF TypeOK
    <3>2. outcome[e] # "DELIVERED"
      BY <2>1 DEF IInv, DispatcherShape, Claim, Nothing
    <3> QED
      BY <1>0, <1>1, <2>0, <3>1, <3>2 DEF DispatcherShape, RowShape
  <2>2. CASE e # d
    <3>1. /\ pc'[e] = pc[e] /\ job'[e] = job[e] /\ token'[e] = token[e]
          /\ attempt'[e] = attempt[e] /\ outcome'[e] = outcome[e]
          /\ inTime'[e] = inTime[e]
      BY <1>0, <1>1, <2>2 DEF TypeOK
    <3> SUFFICES ASSUME pc[e] # "idle" PROVE DispatcherShape(e)'
      BY <3>1 DEF DispatcherShape, IInv
    <3> DEFINE m == job[e]
    <3>2. /\ m \in Notifications /\ DispatcherShape(e) /\ RowShape(m)
          /\ token[e] \in Nat /\ attempt[e] \in Nat /\ attempts[m] \in Nat
          /\ inTime[e] \in BOOLEAN /\ expired[m] \in BOOLEAN
      BY DEF IInv, DispatcherShape, TypeOK
    <3> QED
      BY <1>0, <1>1, <1>2, <3>1, <3>2
      DEF DispatcherShape, RowShape, NoToken, Exhausted
  <2> QED
    BY <2>1, <2>2
<1>6. AttemptsDiffer'
  <2> SUFFICES ASSUME NEW a \in Dispatchers, NEW b \in Dispatchers,
                      pc'[a] # "idle", pc'[b] # "idle", job'[a] = job'[b],
                      attempt'[a] = attempt'[b], a # b
               PROVE  FALSE
    BY DEF AttemptsDiffer
  <2>0. pc[d] = "idle" /\ attempts[n] \in Nat
    BY <1>0 DEF Claim, TypeOK
  <2>1. \A e \in Dispatchers \ {d} :
          pc[e] # "idle" /\ job[e] = n => attempt[e] \in 1..attempts[n]
    BY DEF IInv, DispatcherShape
  <2>2. \A e \in Dispatchers \ {d} :
          pc'[e] = pc[e] /\ job'[e] = job[e] /\ attempt'[e] = attempt[e]
    BY <1>0, <1>1 DEF TypeOK
  <2>3. job'[d] = n /\ attempt'[d] = attempts[n] + 1
    BY <1>0, <1>1 DEF TypeOK
  <2>4. CASE a = d
    BY <2>0, <2>1, <2>2, <2>3, <2>4
  <2>5. CASE b = d
    BY <2>0, <2>1, <2>2, <2>3, <2>5
  <2>6. CASE a # d /\ b # d
    BY <2>2, <2>6 DEF IInv, AttemptsDiffer
  <2> QED
    BY <2>4, <2>5, <2>6
<1>7. SettledByTheLastAttempt'
  BY <1>1, <1>2 DEF IInv, SettledByTheLastAttempt, Exhausted
<1> QED
  BY <1>3, <1>4, <1>5, <1>6, <1>7 DEF IInv

\* What a dispatcher's own step, which changes only its own locals and nothing
\* that it or others rely on, leaves as it was.
LEMMA OthersKeepTheirShape ==
  ASSUME IInv, NEW e \in Dispatchers,
         UNCHANGED <<status, attempts, claim, expired, issued, called, accepted>>,
         pc'[e] = pc[e], job'[e] = job[e], token'[e] = token[e],
         attempt'[e] = attempt[e], outcome'[e] = outcome[e], inTime'[e] = inTime[e]
  PROVE  DispatcherShape(e)'
BY DEF IInv, DispatcherShape

\* Finalizing without a claim keeps the invariant.
LEMMA NoWorkStep ==
  ASSUME IInv, NEW d \in Dispatchers, NoWork(d)
  PROVE  IInv'
<1>0. /\ TypeOK /\ FinalizeAndClaim({})
      /\ UNCHANGED <<pc, job, token, attempt, outcome, inTime, issued, called, accepted>>
      /\ due' = due
  BY DEF IInv, NoWork, dispatcher, provider, FinalizeAndClaim
<1>1. \A m \in Notifications :
        \/ /\ Exhausted(m)
           /\ status'[m] = "FAILED_FINAL" /\ claim'[m] = NoToken
           /\ expired'[m] = FALSE /\ attempts'[m] = attempts[m]
        \/ /\ status'[m] = status[m] /\ claim'[m] = claim[m]
           /\ expired'[m] = expired[m] /\ attempts'[m] = attempts[m]
  BY <1>0, FinalizeFacts
<1>2. TypeOK'
  BY <1>0, FinalizeType DEF TypeOK
<1>3. ASSUME NEW m \in Notifications PROVE RowShape(m)'
  <2>1. RowShape(m) /\ issued \in Nat
    BY <1>0 DEF IInv, TypeOK
  <2> QED
    BY <1>0, <1>1, <2>1 DEF RowShape, NoToken, Exhausted
<1>4. ASSUME NEW e \in Dispatchers PROVE DispatcherShape(e)'
  <2> SUFFICES ASSUME pc[e] # "idle" PROVE DispatcherShape(e)'
    BY <1>0 DEF DispatcherShape, IInv
  <2> DEFINE m == job[e]
  <2>1. /\ m \in Notifications /\ DispatcherShape(e) /\ RowShape(m)
        /\ token[e] \in Nat /\ inTime[e] \in BOOLEAN /\ expired[m] \in BOOLEAN
    BY <1>0 DEF IInv, DispatcherShape, TypeOK
  <2> QED
    BY <1>0, <1>1, <2>1 DEF DispatcherShape, RowShape, NoToken, Exhausted
<1>5. AttemptsDiffer'
  BY <1>0 DEF IInv, AttemptsDiffer
<1>6. SettledByTheLastAttempt'
  BY <1>0, <1>1 DEF IInv, SettledByTheLastAttempt, Exhausted
<1> QED
  BY <1>2, <1>3, <1>4, <1>5, <1>6 DEF IInv

\* Calling the provider keeps the invariant: the attempt was not called before.
LEMMA CallStep ==
  ASSUME IInv, NEW d \in Dispatchers, Call(d)
  PROVE  IInv'
<1> DEFINE n == job[d]
<1>0. /\ TypeOK /\ pc[d] = "claimed" /\ DispatcherShape(d)
      /\ UNCHANGED <<status, attempts, claim, expired, due, job, token, attempt,
                     inTime, issued>>
  BY DEF IInv, Call, intent
<1>1. /\ n \in Notifications /\ attempt[d] \in 1..attempts[n]
      /\ attempt[d] \notin called[n] /\ attempts[n] \in 0..MaxAttempts
  BY <1>0 DEF DispatcherShape, TypeOK
<1>2. attempt[d] \in Attempts
  BY <1>1, AttemptsAssumption DEF Attempts
<1>3. /\ called' = [called EXCEPT ![n] = @ \cup {attempt[d]}]
      /\ \/ accepted' = [accepted EXCEPT ![n] = @ \cup {attempt[d]}]
         \/ accepted' = accepted
      /\ \/ outcome' = [outcome EXCEPT ![d] = "DELIVERED"]
            /\ accepted' = [accepted EXCEPT ![n] = @ \cup {attempt[d]}]
         \/ outcome' = [outcome EXCEPT ![d] = "FAILED"]
      /\ pc' = [pc EXCEPT ![d] = "called"]
  BY DEF Call
<1>4. TypeOK'
  <2>1. called' \in [Notifications -> SUBSET Attempts]
    BY <1>0, <1>2, <1>3 DEF TypeOK
  <2>2. accepted' \in [Notifications -> SUBSET Attempts]
    BY <1>0, <1>2, <1>3 DEF TypeOK
  <2>3. /\ outcome' \in [Dispatchers -> {"DELIVERED", "FAILED", Nothing}]
        /\ pc' \in [Dispatchers -> Places]
    BY <1>0, <1>3 DEF TypeOK, Places
  <2> QED
    BY <1>0, <2>1, <2>2, <2>3 DEF TypeOK
<1>5. \A m \in Notifications :
        /\ called[m] \subseteq called'[m] /\ accepted[m] \subseteq accepted'[m]
        /\ m # n => called'[m] = called[m] /\ accepted'[m] = accepted[m]
        /\ called'[m] \subseteq called[m] \cup {attempt[d]}
        /\ accepted'[m] \subseteq accepted[m] \cup {attempt[d]}
        /\ m = n => attempt[d] \in called'[m]
  BY <1>0, <1>3 DEF TypeOK
<1>6. ASSUME NEW m \in Notifications PROVE RowShape(m)'
  <2>1. RowShape(m)
    BY DEF IInv
  <2>2. accepted'[m] \subseteq called'[m]
    BY <1>5, <2>1, <1>6 DEF RowShape
  <2>3. called'[m] \subseteq 1..attempts[m]
    BY <1>1, <1>5, <2>1, <1>6 DEF RowShape
  <2> QED
    BY <1>0, <2>1, <2>2, <2>3 DEF RowShape
<1>7. ASSUME NEW e \in Dispatchers PROVE DispatcherShape(e)'
  <2>1. CASE e = d
    <3>1. /\ pc'[d] = "called"
          /\ outcome'[d] = "DELIVERED" => attempt[d] \in accepted'[n]
      BY <1>0, <1>1, <1>3 DEF TypeOK
    <3> QED
      BY <1>0, <2>1, <3>1 DEF DispatcherShape
  <2>2. CASE e # d
    <3> SUFFICES ASSUME pc[e] # "idle" PROVE DispatcherShape(e)'
      BY <1>0, <1>3, <2>2 DEF DispatcherShape, IInv, TypeOK
    <3>1. pc'[e] = pc[e] /\ outcome'[e] = outcome[e]
      BY <1>0, <1>3, <2>2 DEF TypeOK
    <3>2. job[e] = n => attempt[e] # attempt[d]
      BY <1>0, <2>2 DEF IInv, AttemptsDiffer
    <3>3. DispatcherShape(e) /\ job[e] \in Notifications
      BY DEF IInv, DispatcherShape
    <3>4. pc[e] = "claimed" => attempt[e] \notin called'[job[e]]
      BY <1>5, <3>2, <3>3 DEF DispatcherShape
    <3>5. outcome[e] = "DELIVERED" => attempt[e] \in accepted'[job[e]]
      BY <1>5, <3>3 DEF DispatcherShape
    <3> QED
      BY <1>0, <3>1, <3>3, <3>4, <3>5 DEF DispatcherShape
  <2> QED
    BY <2>1, <2>2
<1>8. AttemptsDiffer'
  BY <1>0, <1>3 DEF IInv, AttemptsDiffer, TypeOK
<1>9. SettledByTheLastAttempt'
  BY <1>0, <1>5 DEF IInv, SettledByTheLastAttempt
<1> QED
  BY <1>4, <1>6, <1>7, <1>8, <1>9 DEF IInv

\* Starting a report keeps the invariant.
LEMMA StartReportStep ==
  ASSUME IInv, NEW d \in Dispatchers, StartReport(d)
  PROVE  IInv'
<1>0. /\ TypeOK /\ pc[d] = "called"
      /\ pc' = [pc EXCEPT ![d] = "reporting"]
      /\ inTime' = [inTime EXCEPT ![d] = ~expired[job[d]]]
      /\ UNCHANGED <<status, attempts, claim, expired, due, job, token, attempt,
                     outcome, issued, called, accepted>>
  BY DEF IInv, StartReport, intent, provider
<1>1. TypeOK'
  BY <1>0 DEF TypeOK, Places
<1>2. ASSUME NEW m \in Notifications PROVE RowShape(m)'
  BY <1>0 DEF IInv, RowShape
<1>3. ASSUME NEW e \in Dispatchers PROVE DispatcherShape(e)'
  <2>1. CASE e = d
    <3>1. pc'[d] = "reporting" /\ (~expired[job[d]] => inTime'[d])
      BY <1>0 DEF TypeOK
    <3> QED
      BY <1>0, <2>1, <3>1 DEF IInv, DispatcherShape
  <2>2. CASE e # d
    <3>1. pc'[e] = pc[e] /\ inTime'[e] = inTime[e]
      BY <1>0, <2>2 DEF TypeOK
    <3> QED
      BY <1>0, <3>1, OthersKeepTheirShape
  <2> QED
    BY <2>1, <2>2
<1>4. AttemptsDiffer'
  BY <1>0 DEF IInv, AttemptsDiffer, TypeOK
<1>5. SettledByTheLastAttempt'
  BY <1>0 DEF IInv, SettledByTheLastAttempt
<1> QED
  BY <1>1, <1>2, <1>3, <1>4, <1>5 DEF IInv

\* Recording an outcome keeps the invariant: the reporter holds the last attempt,
\* and nobody else does.
LEMMA ReportStep ==
  ASSUME IInv, NEW d \in Dispatchers, Report(d)
  PROVE  IInv'
<1> DEFINE n == job[d]
<1>0. /\ TypeOK /\ pc[d] = "reporting" /\ IsCurrent(d) /\ DispatcherShape(d) /\ Leave(d)
      /\ UNCHANGED <<attempts, issued, called, accepted>>
  BY DEF IInv, Report, provider
<1>1. /\ n \in Notifications /\ status[n] = "CLAIMED" /\ claim[n] = token[d]
      /\ attempt[d] = attempts[n] /\ attempts[n] \in 0..MaxAttempts
      /\ outcome[d] = "DELIVERED" => attempts[n] \in accepted[n]
  BY <1>0 DEF IsCurrent, DispatcherShape, TypeOK
<1>2. /\ status' = [status EXCEPT ![n] =
           IF outcome[d] = "DELIVERED" THEN "DELIVERED" ELSE AfterFailure(n)]
      /\ due' = [due EXCEPT ![n] = IF status'[n] = "PENDING" THEN FALSE ELSE @]
      /\ claim' = [claim EXCEPT ![n] = NoToken]
      /\ expired' = [expired EXCEPT ![n] = FALSE]
  BY DEF Report
<1>3. \/ status'[n] = "DELIVERED" /\ outcome[d] = "DELIVERED"
      \/ status'[n] = "FAILED_FINAL" /\ attempts[n] = MaxAttempts
      \/ status'[n] = "PENDING"
  BY <1>0, <1>1, <1>2, AttemptsAssumption DEF TypeOK, AfterFailure
<1>4. \A m \in Notifications \ {n} :
        status'[m] = status[m] /\ claim'[m] = claim[m] /\ expired'[m] = expired[m]
  BY <1>0, <1>1, <1>2 DEF TypeOK
<1>5. claim'[n] = 0 /\ expired'[n] = FALSE
  BY <1>0, <1>1, <1>2 DEF TypeOK, NoToken
<1>6. TypeOK'
  <2>1. status' \in [Notifications -> {"NONE", "PENDING", "CLAIMED"} \cup Settled]
    BY <1>0, <1>2 DEF TypeOK, AfterFailure, Settled
  <2>2. /\ claim' \in [Notifications -> Nat] /\ expired' \in [Notifications -> BOOLEAN]
        /\ due' \in [Notifications -> BOOLEAN]
    BY <1>0, <1>2 DEF TypeOK, NoToken
  <2> QED
    BY <1>0, <2>1, <2>2, LeaveFacts DEF TypeOK
<1>7. ASSUME NEW m \in Notifications PROVE RowShape(m)'
  <2>1. RowShape(m) /\ issued \in Nat
    BY <1>0 DEF IInv, TypeOK
  <2>2. CASE m = n
    BY <1>0, <1>3, <1>5, <2>1, <2>2 DEF RowShape, NoToken
  <2>3. CASE m # n
    BY <1>0, <1>4, <2>1, <2>3 DEF RowShape
  <2> QED
    BY <2>2, <2>3
<1>8. ASSUME NEW e \in Dispatchers PROVE DispatcherShape(e)'
  <2>1. CASE e = d
    BY <1>0, <2>1, LeaveFacts DEF DispatcherShape
  <2>2. CASE e # d
    <3>1. /\ pc'[e] = pc[e] /\ job'[e] = job[e] /\ token'[e] = token[e]
          /\ attempt'[e] = attempt[e] /\ outcome'[e] = outcome[e]
          /\ inTime'[e] = inTime[e]
      BY <1>0, <2>2, LeaveFacts
    <3> SUFFICES ASSUME pc[e] # "idle" PROVE DispatcherShape(e)'
      BY <3>1 DEF DispatcherShape, IInv
    <3>2. DispatcherShape(e) /\ job[e] \in Notifications
      BY DEF IInv, DispatcherShape
    <3>3. CASE job[e] = n
      <4>1. attempt[e] # attempts[n]
        BY <1>0, <1>1, <2>2, <3>3 DEF IInv, AttemptsDiffer
      <4>2. token[e] # claim'[n] /\ token'[e] # claim'[n]
        BY <1>5, <3>1, <3>2 DEF DispatcherShape
      <4> QED
        BY <1>0, <3>1, <3>2, <3>3, <4>1, <4>2 DEF DispatcherShape
    <3>4. CASE job[e] # n
      <4>1. /\ status'[job[e]] = status[job[e]] /\ claim'[job[e]] = claim[job[e]]
            /\ expired'[job[e]] = expired[job[e]]
        BY <1>4, <3>2, <3>4
      <4> QED
        BY <1>0, <3>1, <3>2, <4>1 DEF DispatcherShape
    <3> QED
      BY <3>3, <3>4
  <2> QED
    BY <2>1, <2>2
<1>9. AttemptsDiffer'
  BY <1>0, LeaveFacts DEF IInv, AttemptsDiffer
<1>10. SettledByTheLastAttempt'
  BY <1>0, <1>1, <1>3, <1>4 DEF IInv, SettledByTheLastAttempt
<1> QED
  BY <1>6, <1>7, <1>8, <1>9, <1>10 DEF IInv

\* Inserting an intent and the passing of time keep the invariant.
LEMMA ClockStep ==
  ASSUME IInv, NEW n \in Notifications,
         CreateIntent(n) \/ LeaseExpires(n) \/ BecomesDue(n)
  PROVE  IInv'
<1>0. /\ TypeOK
      /\ UNCHANGED <<attempts, claim, pc, job, token, attempt, outcome, inTime,
                     issued, called, accepted>>
  BY DEF IInv, CreateIntent, LeaseExpires, BecomesDue, dispatcher, provider
<1>1. /\ \A m \in Notifications :
           \/ status[m] = "NONE" /\ status'[m] = "PENDING"
           \/ status'[m] = status[m]
      /\ \A m \in Notifications :
           \/ status[m] = "CLAIMED" /\ status'[m] = "CLAIMED" /\ expired'[m] = TRUE
           \/ expired'[m] = expired[m]
  BY <1>0 DEF TypeOK, CreateIntent, LeaseExpires, BecomesDue
<1>2. TypeOK'
  <2>1. /\ status' \in [Notifications -> {"NONE", "PENDING", "CLAIMED"} \cup Settled]
        /\ expired' \in [Notifications -> BOOLEAN]
        /\ due' \in [Notifications -> BOOLEAN]
    BY <1>0 DEF TypeOK, CreateIntent, LeaseExpires, BecomesDue
  <2> QED
    BY <1>0, <2>1 DEF TypeOK
<1>3. ASSUME NEW m \in Notifications PROVE RowShape(m)'
  <2>1. RowShape(m) /\ expired[m] \in BOOLEAN
    BY <1>0 DEF IInv, TypeOK
  <2> QED
    BY <1>0, <1>1, <2>1 DEF RowShape
<1>4. ASSUME NEW e \in Dispatchers PROVE DispatcherShape(e)'
  <2> SUFFICES ASSUME pc[e] # "idle" PROVE DispatcherShape(e)'
    BY <1>0 DEF DispatcherShape, IInv
  <2>1. /\ job[e] \in Notifications /\ DispatcherShape(e) /\ RowShape(job[e])
        /\ called[job[e]] \in SUBSET Attempts
        /\ token[e] \in Nat \ {0}
    BY <1>0 DEF IInv, DispatcherShape, TypeOK
  <2>2. ~expired'[job[e]] => ~expired[job[e]]
    BY <1>1, <2>1
  <2>3. token[e] = claim[job[e]] => status'[job[e]] = "CLAIMED"
    BY <1>1, <2>1 DEF DispatcherShape
  <2>4. status'[job[e]] = "CLAIMED" => status[job[e]] = "CLAIMED"
    BY <1>1, <2>1
  <2>5. attempt[e] = attempts[job[e]] => status'[job[e]] \in {"CLAIMED", "FAILED_FINAL"}
    BY <1>1, <2>1 DEF DispatcherShape
  <2> QED
    BY <1>0, <2>1, <2>2, <2>3, <2>4, <2>5 DEF DispatcherShape
<1>5. AttemptsDiffer'
  BY <1>0 DEF IInv, AttemptsDiffer
<1>6. SettledByTheLastAttempt'
  BY <1>0, <1>1 DEF IInv, SettledByTheLastAttempt
<1> QED
  BY <1>2, <1>3, <1>4, <1>5, <1>6 DEF IInv

\* No step of any dispatcher, of the clock or of the business breaks the
\* invariant.
LEMMA NextStep == IInv /\ [Next]_vars => IInv'
<1> SUFFICES ASSUME IInv, [Next]_vars PROVE IInv'
  OBVIOUS
<1>1. CASE UNCHANGED vars
  BY <1>1 DEF vars, intent, dispatcher, provider, IInv, TypeOK, RowShape,
              DispatcherShape, AttemptsDiffer, SettledByTheLastAttempt
<1>2. ASSUME NEW d \in Dispatchers, Dispatch(d) PROVE IInv'
  <2>1. ASSUME NEW n \in Notifications, Claim(d, n) PROVE IInv'
    BY <2>1, ClaimStep
  <2>2. CASE NoWork(d)
    BY <2>2, NoWorkStep
  <2>3. CASE Call(d)
    BY <2>3, CallStep
  <2>4. CASE StartReport(d)
    BY <2>4, StartReportStep
  <2>5. CASE Report(d)
    BY <2>5, ReportStep
  <2>6. CASE ReportStale(d)
    BY <2>6, LeaveStep DEF ReportStale
  <2>7. CASE Vanish(d)
    BY <2>7, LeaveStep DEF Vanish
  <2> QED
    BY <1>2, <2>1, <2>2, <2>3, <2>4, <2>5, <2>6, <2>7 DEF Dispatch
<1>3. ASSUME NEW n \in Notifications, CreateIntent(n) \/ LeaseExpires(n) \/ BecomesDue(n)
      PROVE  IInv'
  BY <1>3, ClockStep
<1> QED
  BY <1>1, <1>2, <1>3 DEF Next

\* The invariant holds in every reachable state, for any number of intents,
\* dispatchers and attempts.
THEOREM Invariance == Spec => []IInv
BY InitIInv, NextStep, PTL DEF Spec

\* Every reachable state is well typed.
THEOREM TypeCorrect == Spec => []TypeOK
<1>1. IInv => TypeOK
  BY DEF IInv
<1> QED
  BY <1>1, Invariance, PTL

\* No attempt is made twice at the provider, so no notification costs more than
\* MaxAttempts calls (the attempt counter of claim_next_notification).
THEOREM CallsAreNeverRepeated == Spec => []EachAttemptIsCalledOnce
<1>1. IInv => EachAttemptIsCalledOnce
  BY DEF IInv, EachAttemptIsCalledOnce, DispatcherShape, AttemptsDiffer
<1> QED
  BY <1>1, Invariance, PTL

\* What is recorded is the outcome of the last attempt (the token check of
\* record_notification_outcome).
THEOREM LastAttemptSettles == Spec => []SettledByTheLastAttempt
<1>1. IInv => SettledByTheLastAttempt
  BY DEF IInv
<1> QED
  BY <1>1, Invariance, PTL

\* A dispatcher that reports while its lease runs is not refused as stale.
THEOREM LiveReportsCount == Spec => []LiveReportIsRecorded
<1>1. IInv => LiveReportIsRecorded
  <2> SUFFICES ASSUME IInv, NEW d \in Dispatchers, pc[d] = "reporting",
                      attempt[d] = attempts[job[d]], ~expired[job[d]],
                      status[job[d]] # "FAILED_FINAL"
               PROVE  IsCurrent(d)
    BY DEF LiveReportIsRecorded
  <2> QED
    BY DEF IInv, DispatcherShape, IsCurrent
<1> QED
  BY <1>1, Invariance, PTL

\* Neither a late report nor another claim ever changes what is settled.
THEOREM SettlementIsFinal == Spec => SettledForGood
<1> DEFINE Same(n) == status[n] \in Settled =>
                        /\ status'[n] = status[n]
                        /\ attempts'[n] = attempts[n]
<1>1. ASSUME IInv, [Next]_vars, NEW n \in Notifications PROVE Same(n)
  <2> SUFFICES ASSUME status[n] \in Settled
               PROVE  status'[n] = status[n] /\ attempts'[n] = attempts[n]
    OBVIOUS
  <2>0. TypeOK /\ status[n] \notin {"NONE", "PENDING", "CLAIMED"}
    BY <1>1 DEF Settled, IInv
  <2>1. CASE UNCHANGED vars
    BY <2>1 DEF vars, intent
  <2>2. ASSUME NEW picked, FinalizeAndClaim(picked), n \in picked => Eligible(n)
        PROVE  status'[n] = status[n] /\ attempts'[n] = attempts[n]
    <3>1. ~Eligible(n) /\ ~Exhausted(n)
      BY <2>0 DEF Eligible, Exhausted
    <3> QED
      BY <2>2, <3>1 DEF FinalizeAndClaim
  <2>3. ASSUME NEW d \in Dispatchers, Dispatch(d)
        PROVE  status'[n] = status[n] /\ attempts'[n] = attempts[n]
    <3>1. ASSUME NEW m \in Notifications, Claim(d, m)
          PROVE  status'[n] = status[n] /\ attempts'[n] = attempts[n]
      <4>1. FinalizeAndClaim({m}) /\ (n \in {m} => Eligible(n))
        BY <3>1 DEF Claim
      <4> QED
        BY <4>1, <2>2
    <3>2. CASE NoWork(d)
      BY <2>2, <3>2 DEF NoWork
    <3>3. CASE Report(d)
      <4>1. job[d] # n
        BY <2>0, <3>3 DEF Report, IsCurrent
      <4> QED
        BY <2>0, <3>3, <4>1 DEF Report, TypeOK
    <3>4. CASE Call(d) \/ StartReport(d) \/ ReportStale(d) \/ Vanish(d)
      BY <3>4 DEF Call, StartReport, ReportStale, Vanish, intent
    <3> QED
      BY <2>3, <3>1, <3>2, <3>3, <3>4 DEF Dispatch
  <2>4. ASSUME NEW m \in Notifications,
               CreateIntent(m) \/ LeaseExpires(m) \/ BecomesDue(m)
        PROVE  status'[n] = status[n] /\ attempts'[n] = attempts[n]
    <3>1. CASE CreateIntent(m)
      <4>1. m # n
        BY <2>0, <3>1 DEF CreateIntent
      <4> QED
        BY <2>0, <3>1, <4>1 DEF CreateIntent, TypeOK
    <3> QED
      BY <2>4, <3>1 DEF LeaseExpires, BecomesDue
  <2> QED
    BY <1>1, <2>1, <2>3, <2>4 DEF Next
<1>2. IInv /\ [Next]_vars => \A n \in Notifications : Same(n)
  BY <1>1
<1> QED
  BY <1>2, Invariance, PTL DEF Spec, SettledForGood
==============================================================================
