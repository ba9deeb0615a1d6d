--------------------------- MODULE OrderSyncProofs ---------------------------
(***************************************************************************)
(* Proofs about OrderSync for any number of orders, workers and tokens, any*)
(* attempt limit and any provider behaviour.                               *)
(***************************************************************************)
EXTENDS OrderSync, TLAPS

(***************************************************************************)
(* Facts about the operators the actions are built from.                   *)
(***************************************************************************)

\* The aggregate after a transition that synchronization makes.
LEMMA MoveFacts ==
  ASSUME order \in [Orders -> Order],
         NEW o \in Orders,
         NEW target \in {"SYNCING", "COMPLETED", "FAILED_RETRYABLE", "FAILED_FINAL"},
         MoveTo(o, target)
  PROVE  /\ order' \in [Orders -> Order]
         /\ order'[o].state = target
         /\ target = "SYNCING" => order[o].state = "APPROVED"
         /\ target = "COMPLETED" => order[o].state = "SYNCING"
         /\ target \in FailureStates =>
              order[o].state \in {"PROCESSING", "EXTRACTED", "SYNCING"}
         /\ order'[o].origin =
              IF target \in FailureStates THEN order[o].state ELSE NoOrigin
         /\ \A p \in Orders \ {o} : order'[p] = order[p]
<1>1. order[o] \in Order
  OBVIOUS
<1>2. order[o].state \in OrderStates
  BY <1>1 DEF Order, FailureStates, OrderStates
<1>3. target \in NormalTransitions[order[o].state]
  BY DEF MoveTo, CanTransition
<1>4. /\ target = "SYNCING" => order[o].state = "APPROVED"
      /\ target = "COMPLETED" => order[o].state = "SYNCING"
      /\ target \in FailureStates =>
           order[o].state \in {"PROCESSING", "EXTRACTED", "SYNCING"}
  BY <1>2, <1>3 DEF NormalTransitions, OrderStates, FailureStates
<1>5. TransitionTo(order[o], target) \in Order
  BY <1>4 DEF TransitionTo, Order, FailureStates, OrderStates, FailureOrigins,
              NoOrigin
<1>6. order' = [order EXCEPT ![o] = TransitionTo(order[o], target)]
  BY DEF MoveTo
<1>7. order'[o] = TransitionTo(order[o], target)
  BY <1>6
<1>. QED
  BY <1>4, <1>5, <1>6, <1>7 DEF TransitionTo

\* The human Retry restores the state the failure came from.
LEMMA RetryFacts ==
  ASSUME order \in [Orders -> Order],
         NEW o \in Orders,
         CanRetry(order[o]),
         order' = [order EXCEPT ![o] = Retry(@)]
  PROVE  /\ order' \in [Orders -> Order]
         /\ order'[o] = [state |-> order[o].origin, origin |-> NoOrigin]
         /\ order[o].state = "FAILED_RETRYABLE"
         /\ \A p \in Orders \ {o} : order'[p] = order[p]
<1>1. order[o] \in Order /\ order[o].origin # NoOrigin
  BY DEF CanRetry
<1>2. order[o].origin \in FailureOrigins
  BY <1>1 DEF Order
<1>3. Retry(order[o]) \in Order
  BY <1>2 DEF Retry, Order, FailureOrigins, OrderStates, FailureStates
<1>. QED
  BY <1>3 DEF Retry, CanRetry

\* The coordinator chooses one of the steps, or none (next_order_sync_step).
LEMMA NextStepType ==
  ASSUME NEW seen \in View, NEW looked \in BOOLEAN
  PROVE  NextStep(seen, looked) \in Steps \cup {NoStep}
BY DEF NextStep, Steps, ReceiptSteps

\* Re-sorting a row keeps the sort relation well typed.
LEMMA PlaceType ==
  ASSUME ahead \in [Orders -> SUBSET Orders], NEW o \in Orders,
         NEW before \in SUBSET Orders, PlaceAfter(o, before)
  PROVE  ahead' \in [Orders -> SUBSET Orders]
BY DEF PlaceAfter

\* Making a row due at once keeps the queue order well typed.
LEMMA ScheduleNowType ==
  ASSUME ahead \in [Orders -> SUBSET Orders], due \in [Orders -> BOOLEAN],
         NEW o \in Orders, ScheduleNow(o)
  PROVE  ahead' \in [Orders -> SUBSET Orders] /\ due' \in [Orders -> BOOLEAN]
<1>1. {p \in Orders \ {o} : due[p]} \in SUBSET Orders
  OBVIOUS
<1>. QED
  BY <1>1, PlaceType DEF ScheduleNow

\* Making a row due later keeps the queue order well typed.
LEMMA ScheduleLaterType ==
  ASSUME ahead \in [Orders -> SUBSET Orders], due \in [Orders -> BOOLEAN],
         NEW o \in Orders, ScheduleLater(o)
  PROVE  ahead' \in [Orders -> SUBSET Orders] /\ due' \in [Orders -> BOOLEAN]
<1>1. PICK before \in SUBSET (Orders \ {o}) : PlaceAfter(o, before)
  BY DEF ScheduleLater
<1>2. before \in SUBSET Orders
  OBVIOUS
<1>. QED
  BY <1>1, <1>2, PlaceType DEF ScheduleLater

\* A new claim token is held by no row and no worker (uuid4).
LEMMA FreshTokenFacts ==
  ASSUME FreshTokens # {}
  PROVE  /\ NewToken \in Tokens
         /\ NewToken # NoToken
         /\ \A o \in Orders : claim[o] # NewToken
         /\ \A w \in Workers : token[w] # NewToken
<1>1. NewToken \in FreshTokens
  BY DEF NewToken
<1>. QED
  BY <1>1, NamesAssumption DEF FreshTokens

\* What a worker that leaves looks like, and that the others are untouched.
LEMMA LeaveFacts ==
  ASSUME TypeOK, NEW w \in Workers, Leave(w)
  PROVE  /\ pc' \in [Workers -> {"idle", "read", "decide", "begun", "call"}]
         /\ job' \in [Workers -> Orders \cup {NoOrder}]
         /\ token' \in [Workers -> Tokens \cup {NoToken}]
         /\ view' \in [Workers -> View]
         /\ lookedUp' \in [Workers -> BOOLEAN]
         /\ step' \in [Workers -> Steps \cup {NoStep}]
         /\ pc'[w] = "idle" /\ job'[w] = NoOrder /\ token'[w] = NoToken
         /\ \A v \in Workers \ {w} :
              /\ pc'[v] = pc[v] /\ job'[v] = job[v] /\ token'[v] = token[v]
              /\ view'[v] = view[v] /\ lookedUp'[v] = lookedUp[v]
              /\ step'[v] = step[v]
<1>1. NoView \in View
  BY DEF NoView, View
<1>. QED
  BY <1>1 DEF Leave, TypeOK

\* A recorded failure ends in one of three ways.
LEMMA FailureFacts ==
  ASSUME IInv, NEW w \in Workers, NEW code \in FailureCodes, RecordFailure(w, code)
  PROVE  /\ job[w] \in Orders
         /\ order[job[w]].state = "SYNCING"
         /\ order' \in [Orders -> Order]
         /\ attempts' \in [Orders -> 0..MaxAttempts]
         /\ ahead' \in [Orders -> SUBSET Orders] /\ due' \in [Orders -> BOOLEAN]
         /\ \/ order'[job[w]].state \in FailureStates /\ order'[job[w]].origin = "SYNCING"
            \/ order'[job[w]] = order[job[w]] /\ attempts'[job[w]] < MaxAttempts
         /\ \A p \in Orders \ {job[w]} : order'[p] = order[p] /\ attempts'[p] = attempts[p]
<1>. DEFINE o == job[w]
<1>1. o \in Orders /\ order[o].state = "SYNCING"
  BY DEF IInv, WorkerShape, WorkerOK, RecordFailure, IsCurrent
<1>2. attempts[o] < MaxAttempts /\ attempts[o] \in Nat /\ MaxAttempts \in Nat
  BY <1>1, BoundAssumption DEF IInv, NoStrandedRow, TypeOK
<1>3. CASE code \in FinalFailureCodes /\ MoveTo(o, "FAILED_FINAL")
           /\ UNCHANGED <<attempts, schedule>>
  BY <1>1, <1>3, MoveFacts DEF IInv, TypeOK, schedule, FailureStates
<1>4. CASE /\ code \in AutoRetryCodes
           /\ attempts' = [attempts EXCEPT ![o] = @ + 1]
           /\ attempts[o] + 1 >= MaxAttempts
           /\ MoveTo(o, "FAILED_RETRYABLE")
           /\ ScheduleNow(o)
  <2>1. attempts' \in [Orders -> 0..MaxAttempts]
    BY <1>1, <1>2, <1>4 DEF IInv, TypeOK
  <2>. QED
    BY <1>1, <1>4, <2>1, MoveFacts, ScheduleNowType DEF IInv, TypeOK, FailureStates
<1>5. CASE /\ code \in AutoRetryCodes
           /\ attempts' = [attempts EXCEPT ![o] = @ + 1]
           /\ attempts[o] + 1 < MaxAttempts
           /\ order' = order
           /\ ScheduleLater(o)
  <2>1. attempts' \in [Orders -> 0..MaxAttempts] /\ attempts'[o] < MaxAttempts
    BY <1>1, <1>2, <1>5 DEF IInv, TypeOK
  <2>. QED
    BY <1>1, <1>5, <2>1, ScheduleLaterType DEF IInv, TypeOK
<1>6. CASE /\ code \in OperatorCodes
           /\ MoveTo(o, "FAILED_RETRYABLE")
           /\ ScheduleNow(o)
           /\ UNCHANGED attempts
  BY <1>1, <1>6, MoveFacts, ScheduleNowType DEF IInv, TypeOK, FailureStates
<1>. QED
  BY <1>1, <1>3, <1>4, <1>5, <1>6 DEF RecordFailure

\* The two actions that record a failure.
LEMMA FailureActions ==
  ASSUME NEW w \in Workers, StepFails(w) \/ ReceiptCollides(w)
  PROVE  \E code \in FailureCodes : RecordFailure(w, code)
BY ProviderCodesAssumption DEF StepFails, ReceiptCollides, FailureCodes, FinalFailureCodes

(***************************************************************************)
(* Type correctness is preserved.  It needs the rest of the invariant: the *)
(* attempt counter stays within its limit only because no synchronizing row*)
(* has reached it.                                                         *)
(***************************************************************************)
\* Every step keeps the variables well typed.
LEMMA TypeStep == IInv /\ [Next]_vars => TypeOK'
<1> SUFFICES ASSUME IInv, [Next]_vars PROVE TypeOK'
  OBVIOUS
<1> USE BoundAssumption
<1>0. TypeOK
  BY DEF IInv
<1>1. ASSUME NEW w \in Workers, NEW o \in Orders, Claim(w, o) PROVE TypeOK'
  <2>1. order' \in [Orders -> Order]
    BY <1>0, <1>1, MoveFacts DEF Claim, TypeOK
  <2>2. TakeoverAttempts(o) \in 0..MaxAttempts
    BY <1>0, <1>1 DEF Claim, TakeoverAttempts, TypeOK
  <2>3. lastAudit' \in [Orders -> AuditTypes]
    BY <1>0, <1>1 DEF Claim, TypeOK, Audit, AuditTypes
  <2>4. /\ claim' \in [Orders -> Tokens \cup {NoToken}]
        /\ token' \in [Workers -> Tokens \cup {NoToken}]
    BY <1>0, <1>1, FreshTokenFacts DEF Claim, TypeOK
  <2>5. /\ expired' \in [Orders -> BOOLEAN]
        /\ attempts' \in [Orders -> 0..MaxAttempts]
        /\ pc' \in [Workers -> {"idle", "read", "decide", "begun", "call"}]
        /\ job' \in [Workers -> Orders \cup {NoOrder}]
    BY <1>0, <1>1, <2>2 DEF Claim, TypeOK
  <2>. QED
    BY <1>0, <1>1, <2>1, <2>3, <2>4, <2>5 DEF Claim, TypeOK, schedule
<1>2. ASSUME NEW w \in Workers, NEW o \in Orders, ExhaustLease(w, o) PROVE TypeOK'
  <2>1. order' \in [Orders -> Order] /\ order[o].state \in {"PROCESSING", "EXTRACTED", "SYNCING"}
    BY <1>0, <1>2, MoveFacts DEF ExhaustLease, TypeOK, FailureStates
  <2>2. order[o].state = "SYNCING"
    BY <2>1 DEF IInv, RowShape, FailureStates
  <2>3. TakeoverAttempts(o) \in 0..MaxAttempts
    BY <1>0, <2>2 DEF IInv, NoStrandedRow, TakeoverAttempts, TypeOK
  <2>. QED
    BY <1>0, <1>2, <2>1, <2>3
    DEF ExhaustLease, TypeOK, Audit, AuditTypes, schedule, worker, ReleaseClaim, Codes,
        FailureCodes, OperatorCodes
<1>3. ASSUME NEW w \in Workers, ReadRow(w) PROVE TypeOK'
  <2>1. job[w] \in Orders
    BY <1>3 DEF IInv, WorkerShape, WorkerOK, ReadRow
  <2>2. RowView(job[w]) \in View
    BY <1>0, <2>1 DEF RowView, View, TypeOK
  <2>. QED
    BY <1>0, <1>3, <2>2 DEF ReadRow, TypeOK, schedule, row
<1>4. ASSUME NEW w \in Workers, Begin(w) PROVE TypeOK'
  <2>1. job[w] \in Orders /\ NextStep(view[w], lookedUp[w]) \in Steps \cup {NoStep}
    BY <1>0, <1>4, NextStepType DEF IInv, WorkerShape, WorkerOK, Begin, TypeOK
  <2>. QED
    BY <1>0, <1>4, <2>1 DEF Begin, TypeOK, schedule
<1>5. ASSUME NEW w \in Workers, CallProvider(w) PROVE TypeOK'
  <2>1. job[w] \in Orders
    BY <1>5 DEF IInv, WorkerShape, WorkerOK, CallProvider
  <2>. QED
    BY <1>0, <1>5, <2>1 DEF CallProvider, TypeOK, schedule, row
<1>6. ASSUME NEW w \in Workers, LookupSucceeds(w) PROVE TypeOK'
  BY <1>0, <1>6 DEF LookupSucceeds, TypeOK, schedule, row
<1>7. ASSUME NEW w \in Workers, PersistReceipt(w) PROVE TypeOK'
  <2>1. job[w] \in Orders
    BY <1>7 DEF IInv, WorkerShape, WorkerOK, PersistReceipt
  <2>2. receipts[job[w]] \cup {step[w]} \in SUBSET ReceiptSteps
    BY <1>0, <1>7, <2>1 DEF PersistReceipt, TypeOK
  <2>3. [receipts |-> receipts[job[w]] \cup {step[w]}, inFlight |-> NoStep] \in View
    BY <2>2 DEF View
  <2>. QED
    BY <1>0, <1>7, <2>1, <2>2, <2>3 DEF PersistReceipt, ClearFailure, TypeOK, schedule, Codes
<1>8. ASSUME NEW w \in Workers, NEW code \in FailureCodes, RecordFailure(w, code)
      PROVE TypeOK'
  <2>1. /\ job[w] \in Orders
        /\ order' \in [Orders -> Order] /\ attempts' \in [Orders -> 0..MaxAttempts]
        /\ ahead' \in [Orders -> SUBSET Orders] /\ due' \in [Orders -> BOOLEAN]
    BY <1>8, FailureFacts
  <2>2. /\ Leave(w) /\ ReleaseClaim(job[w]) /\ Audit(job[w], "ORDER_SYNC_FAILED")
        /\ lastFailure' = [lastFailure EXCEPT ![job[w]] = code]
        /\ UNCHANGED <<generation, receipts, inFlight, sent>>
    BY <1>8 DEF RecordFailure
  <2>. QED
    BY <1>0, <2>1, <2>2, LeaveFacts
    DEF TypeOK, ReleaseClaim, Audit, AuditTypes, Codes
<1>9. ASSUME NEW w \in Workers, Yield(w) PROVE TypeOK'
  <2>1. job[w] \in Orders
    BY <1>9 DEF IInv, WorkerShape, WorkerOK, Yield
  <2>. QED
    BY <1>0, <1>9, <2>1, LeaveFacts, ScheduleNowType DEF Yield, TypeOK, ReleaseClaim
<1>10. ASSUME NEW w \in Workers, Complete(w) PROVE TypeOK'
  <2>1. job[w] \in Orders
    BY <1>10 DEF IInv, WorkerShape, WorkerOK, Complete
  <2>2. order' \in [Orders -> Order]
    BY <1>0, <1>10, <2>1, MoveFacts DEF Complete, TypeOK
  <2>. QED
    BY <1>0, <1>10, <2>1, <2>2, LeaveFacts
    DEF Complete, TypeOK, ReleaseClaim, Audit, AuditTypes, schedule
<1>11. ASSUME NEW w \in Workers, RefusedAsStale(w) \/ Abandon(w) PROVE TypeOK'
  BY <1>0, <1>11, LeaveFacts DEF RefusedAsStale, Abandon, TypeOK, schedule, row
<1>12. ASSUME NEW o \in Orders, HumanRetry(o) PROVE TypeOK'
  <2>1. order' \in [Orders -> Order]
    BY <1>0, <1>12, RetryFacts DEF HumanRetry, TypeOK
  <2>2. ahead' \in [Orders -> SUBSET Orders] /\ due' \in [Orders -> BOOLEAN]
    BY <1>0, <1>12, ScheduleNowType DEF HumanRetry, TypeOK
  <2>. QED
    BY <1>0, <1>12, <2>1, <2>2 DEF HumanRetry, TypeOK, ReleaseClaim, Audit, AuditTypes, worker
<1>13. ASSUME NEW o \in Orders, LeaseExpires(o) \/ BecomesDue(o) PROVE TypeOK'
  BY <1>0, <1>13 DEF LeaseExpires, BecomesDue, TypeOK, schedule, row, worker
<1>14. CASE UNCHANGED vars
  BY <1>0, <1>14 DEF TypeOK, vars, schedule, row, worker
<1>. QED
  BY <1>1, <1>2, <1>3, <1>4, <1>5, <1>6, <1>7, <1>8, <1>9, <1>10, <1>11, <1>12, <1>13,
     <1>14, FailureActions DEF Next, WorkerStep, Settled

(***************************************************************************)
(* Receipts stay a prefix of the provider order.                           *)
(***************************************************************************)
\* What a live worker that decides knows about the row.
LEMMA BeginFacts ==
  ASSUME IInv, NEW w \in Workers, Begin(w)
  PROVE  LET o == job[w]
             s == NextStep(view[w], lookedUp[w])
         IN  /\ o \in Orders
             /\ claim[o] = token[w]
             /\ view[w].receipts = receipts[o]
             /\ s \in Steps /\ s # NoStep /\ s \notin receipts[o]
             /\ StepPreconditions(receipts[o], s)
             /\ inFlight' = [inFlight EXCEPT ![o] = s]
             /\ inFlight[o] \in {NoStep, s} \/ (inFlight[o] = "ODOO_LOOKUP" /\ s = "ODOO_BRIDGE")
<1>1. /\ job[w] \in Orders /\ claim[job[w]] = token[w]
      /\ view[w].receipts = receipts[job[w]]
  BY DEF IInv, WorkerShape, WorkerOK, Begin, IsCurrent
<1>2. view[w] \in View /\ lookedUp[w] \in BOOLEAN
  BY DEF IInv, TypeOK
<1>3. /\ NextStep(view[w], lookedUp[w]) \in Steps
      /\ NextStep(view[w], lookedUp[w]) \notin view[w].receipts
  BY <1>2 DEF NextStep, Begin, Steps, ReceiptSteps, View, NoStep
<1>. QED
  BY <1>1, <1>3 DEF Begin, MayReplace

\* What persisting a receipt relies on: a live claim, the checkpoint, and the
\* receipt that it adds.
LEMMA PersistFacts ==
  ASSUME IInv, NEW w \in Workers, PersistReceipt(w)
  PROVE  LET o == job[w] IN
         /\ o \in Orders
         /\ claim[o] = token[w] /\ token[w] # NoToken
         /\ order[o].state = "SYNCING"
         /\ inFlight[o] = step[w] /\ step[w] \in ReceiptSteps
         /\ receipts' = [receipts EXCEPT ![o] = @ \cup {step[w]}]
         /\ inFlight' = [inFlight EXCEPT ![o] = NoStep]
         /\ StepPreconditions(receipts[o], step[w])
         /\ step[w] \notin receipts[o]
<1>1. job[w] \in Orders /\ token[w] # NoToken
  BY DEF IInv, WorkerShape, WorkerOK, PersistReceipt
<1>2. inFlight[job[w]] = step[w] /\ step[w] \in ReceiptSteps
  BY DEF PersistReceipt
<1>3. step[w] \notin receipts[job[w]]
  BY <1>1, <1>2 DEF IInv, RowShape, ReceiptSteps, NoStep
<1>. QED
  BY <1>1, <1>2, <1>3 DEF PersistReceipt, IsCurrent

\* Every step leaves the receipts a prefix of the provider order and the
\* checkpoint behind them.
LEMMA RowStep == IInv /\ [Next]_vars => RowShape'
<1> SUFFICES ASSUME IInv, [Next]_vars PROVE RowShape'
  OBVIOUS
<1>0. TypeOK /\ RowShape
  BY DEF IInv
<1>1. ASSUME NEW w \in Workers, NEW o \in Orders, Claim(w, o) PROVE RowShape'
  <2>1. UNCHANGED <<receipts, inFlight>>
    BY <1>1 DEF Claim
  <2>2. CASE order' = order
    BY <1>0, <2>1, <2>2 DEF RowShape
  <2>3. CASE MoveTo(o, "SYNCING")
    BY <1>0, <2>1, <2>3, MoveFacts DEF RowShape, TypeOK, FailureStates
  <2>. QED
    BY <1>1, <2>2, <2>3 DEF Claim
<1>2. ASSUME NEW w \in Workers, NEW o \in Orders, ExhaustLease(w, o) PROVE RowShape'
  <2>1. UNCHANGED <<receipts, inFlight>> /\ MoveTo(o, "FAILED_RETRYABLE")
    BY <1>2 DEF ExhaustLease
  <2>. QED
    BY <1>0, <2>1, MoveFacts DEF RowShape, TypeOK, FailureStates
<1>3. ASSUME NEW w \in Workers, Begin(w) PROVE RowShape'
  <2>1. UNCHANGED <<receipts, order>>
    BY <1>3 DEF Begin
  <2>2. \A o \in Orders \ {job[w]} : inFlight'[o] = inFlight[o]
    BY <1>0, <1>3, BeginFacts DEF TypeOK
  <2>3. inFlight'[job[w]] = NextStep(view[w], lookedUp[w])
    BY <1>0, <1>3, BeginFacts DEF TypeOK
  <2>. QED
    BY <1>0, <1>3, <2>1, <2>2, <2>3, BeginFacts DEF RowShape
<1>4. ASSUME NEW w \in Workers, PersistReceipt(w) PROVE RowShape'
  <2> DEFINE o == job[w]
  <2>1. order' = order
    BY <1>4 DEF PersistReceipt
  <2>2. \A p \in Orders \ {o} : receipts'[p] = receipts[p] /\ inFlight'[p] = inFlight[p]
    BY <1>0, <1>4, PersistFacts DEF TypeOK
  <2>3. receipts'[o] = receipts[o] \cup {step[w]} /\ inFlight'[o] = NoStep /\ o \in Orders
    BY <1>0, <1>4, PersistFacts DEF TypeOK
  <2>4. Predecessors[step[w]] \subseteq receipts[o] /\ step[w] \in ReceiptSteps
    BY <1>4, PersistFacts DEF StepPreconditions
  <2>5. /\ step[w] = "HUBSPOT_COMPANY" => "ODOO_BRIDGE" \in receipts[o]
        /\ step[w] = "HUBSPOT_DEAL" => "HUBSPOT_COMPANY" \in receipts[o]
        /\ step[w] = "HUBSPOT_ASSOCIATION" => "HUBSPOT_DEAL" \in receipts[o]
    BY <2>4 DEF Predecessors
  <2>. QED
    BY <1>0, <2>1, <2>2, <2>3, <2>5 DEF RowShape
<1>5. ASSUME NEW w \in Workers, NEW code \in FailureCodes, RecordFailure(w, code)
      PROVE RowShape'
  <2>1. UNCHANGED <<receipts, inFlight>>
    BY <1>5 DEF RecordFailure
  <2>. QED
    BY <1>0, <1>5, <2>1, FailureFacts DEF RowShape
<1>6. ASSUME NEW w \in Workers, Complete(w) PROVE RowShape'
  <2>1. UNCHANGED <<receipts, inFlight>> /\ MoveTo(job[w], "COMPLETED") /\ job[w] \in Orders
    BY <1>6 DEF Complete, IInv, WorkerShape, WorkerOK
  <2>. QED
    BY <1>0, <2>1, MoveFacts DEF RowShape, TypeOK, FailureStates
<1>7. ASSUME NEW o \in Orders, HumanRetry(o) PROVE RowShape'
  <2>1. UNCHANGED <<receipts, inFlight>>
    BY <1>7 DEF HumanRetry
  <2>2. /\ CanRetry(order[o]) /\ order' = [order EXCEPT ![o] = Retry(@)]
        /\ order \in [Orders -> Order]
    BY <1>0, <1>7 DEF HumanRetry, TypeOK
  <2>3. /\ order'[o] = [state |-> order[o].origin, origin |-> NoOrigin]
        /\ order[o].state = "FAILED_RETRYABLE"
        /\ \A p \in Orders \ {o} : order'[p] = order[p]
    BY <2>2, RetryFacts
  <2>4. order'[o].state = "SYNCING"
    BY <1>0, <2>3 DEF RowShape, FailureStates
  <2>. QED
    BY <1>0, <2>1, <2>3, <2>4 DEF RowShape, FailureStates
<1>8. ASSUME UNCHANGED <<order, receipts, inFlight>> PROVE RowShape'
  BY <1>0, <1>8 DEF RowShape
<1>9. ASSUME NEW w \in Workers,
             \/ ReadRow(w) \/ CallProvider(w) \/ LookupSucceeds(w)
             \/ Yield(w) \/ RefusedAsStale(w) \/ Abandon(w)
      PROVE RowShape'
  BY <1>8, <1>9 DEF ReadRow, CallProvider, LookupSucceeds, Yield, RefusedAsStale, Abandon, row
<1>10. ASSUME NEW o \in Orders, LeaseExpires(o) \/ BecomesDue(o) PROVE RowShape'
  BY <1>8, <1>10 DEF LeaseExpires, BecomesDue, row
<1>11. CASE UNCHANGED vars
  BY <1>8, <1>11 DEF vars, row
<1>. QED
  BY <1>1, <1>2, <1>3, <1>4, <1>5, <1>6, <1>7, <1>9, <1>10, <1>11, FailureActions
  DEF Next, WorkerStep, Settled

(***************************************************************************)
(* No row is stranded.                                                     *)
(***************************************************************************)
\* No step leaves a synchronizing row without attempts.
LEMMA StrandedStep == IInv /\ [Next]_vars => NoStrandedRow'
<1> SUFFICES ASSUME IInv, [Next]_vars PROVE NoStrandedRow'
  OBVIOUS
<1> USE BoundAssumption
<1>0. TypeOK /\ RowShape /\ NoStrandedRow
  BY DEF IInv
<1>1. ASSUME NEW w \in Workers, NEW o \in Orders, Claim(w, o) PROVE NoStrandedRow'
  <2>1. /\ TakeoverAttempts(o) < MaxAttempts
        /\ attempts' = [attempts EXCEPT ![o] = TakeoverAttempts(o)]
        /\ claim' = [claim EXCEPT ![o] = NewToken]
    BY <1>1 DEF Claim
  <2>2. order'[o].state = "SYNCING" /\ \A p \in Orders \ {o} : order'[p] = order[p]
    <3>1. CASE MoveTo(o, "SYNCING")
      BY <1>0, <3>1, MoveFacts DEF TypeOK
    <3>2. CASE order[o].state # "APPROVED" /\ order' = order
      BY <1>1, <3>2 DEF Claim, Selectable, Eligible
    <3>. QED
      BY <1>1, <3>1, <3>2 DEF Claim
  <2>. QED
    BY <1>0, <2>1, <2>2 DEF NoStrandedRow, TypeOK
<1>2. ASSUME NEW w \in Workers, NEW o \in Orders, ExhaustLease(w, o) PROVE NoStrandedRow'
  <2>1. /\ order'[o].state = "FAILED_RETRYABLE"
        /\ \A p \in Orders \ {o} : order'[p] = order[p]
    BY <1>0, <1>2, MoveFacts DEF ExhaustLease, TypeOK
  <2>2. /\ claim' = [claim EXCEPT ![o] = NoToken]
        /\ attempts' = [attempts EXCEPT ![o] = TakeoverAttempts(o)]
    BY <1>2 DEF ExhaustLease, ReleaseClaim
  <2>. QED
    BY <1>0, <2>1, <2>2 DEF NoStrandedRow, TypeOK
<1>3. ASSUME NEW w \in Workers, NEW code \in FailureCodes, RecordFailure(w, code)
      PROVE NoStrandedRow'
  <2>1. claim' = [claim EXCEPT ![job[w]] = NoToken]
    BY <1>3 DEF RecordFailure, ReleaseClaim
  <2>. QED
    BY <1>0, <1>3, <2>1, FailureFacts DEF NoStrandedRow, TypeOK, FailureStates
<1>4. ASSUME NEW w \in Workers, Yield(w) PROVE NoStrandedRow'
  <2>1. claim' = [claim EXCEPT ![job[w]] = NoToken] /\ UNCHANGED <<order, attempts>>
    BY <1>4 DEF Yield, ReleaseClaim
  <2>. QED
    BY <1>0, <2>1 DEF NoStrandedRow, TypeOK
<1>5. ASSUME NEW w \in Workers, Complete(w) PROVE NoStrandedRow'
  <2>1. job[w] \in Orders /\ MoveTo(job[w], "COMPLETED")
    BY <1>5 DEF Complete, IInv, WorkerShape, WorkerOK
  <2>2. /\ order'[job[w]].state = "COMPLETED"
        /\ \A p \in Orders \ {job[w]} : order'[p] = order[p]
    BY <1>0, <2>1, MoveFacts DEF TypeOK
  <2>3. claim' = [claim EXCEPT ![job[w]] = NoToken] /\ attempts' = attempts
    BY <1>5 DEF Complete, ReleaseClaim
  <2>. QED
    BY <1>0, <2>2, <2>3 DEF NoStrandedRow, TypeOK
<1>6. ASSUME NEW o \in Orders, HumanRetry(o) PROVE NoStrandedRow'
  <2>1. /\ claim' = [claim EXCEPT ![o] = NoToken]
        /\ attempts' = [attempts EXCEPT ![o] = 0]
    BY <1>6 DEF HumanRetry, ReleaseClaim
  <2>2. \A p \in Orders \ {o} : order'[p] = order[p]
    BY <1>0, <1>6, RetryFacts DEF HumanRetry, TypeOK
  <2>. QED
    BY <1>0, <2>1, <2>2 DEF NoStrandedRow, TypeOK
<1>7. ASSUME UNCHANGED <<order, claim, attempts>> PROVE NoStrandedRow'
  BY <1>0, <1>7 DEF NoStrandedRow
<1>8. ASSUME NEW w \in Workers,
             \/ ReadRow(w) \/ Begin(w) \/ CallProvider(w) \/ LookupSucceeds(w)
             \/ PersistReceipt(w) \/ RefusedAsStale(w) \/ Abandon(w)
      PROVE NoStrandedRow'
  BY <1>7, <1>8
  DEF ReadRow, Begin, CallProvider, LookupSucceeds, PersistReceipt, RefusedAsStale, Abandon, row
<1>9. ASSUME NEW o \in Orders, LeaseExpires(o) \/ BecomesDue(o) PROVE NoStrandedRow'
  BY <1>7, <1>9 DEF LeaseExpires, BecomesDue, row
<1>10. CASE UNCHANGED vars
  BY <1>7, <1>10 DEF vars, row
<1>. QED
  BY <1>1, <1>2, <1>3, <1>4, <1>5, <1>6, <1>8, <1>9, <1>10, FailureActions
  DEF Next, WorkerStep, Settled

(***************************************************************************)
(* No requested provider write is orphaned.                                *)
(***************************************************************************)
\* No step forgets a requested write.
LEMMA OrphanStep == IInv /\ [Next]_vars => NoOrphanedWrite'
<1> SUFFICES ASSUME IInv, [Next]_vars PROVE NoOrphanedWrite'
  OBVIOUS
<1>0. TypeOK /\ NoOrphanedWrite
  BY DEF IInv
<1>1. ASSUME NEW w \in Workers, Begin(w) PROVE NoOrphanedWrite'
  <2>1. UNCHANGED <<sent, receipts>>
    BY <1>1 DEF Begin
  <2>2. \A p \in Orders \ {job[w]} : inFlight'[p] = inFlight[p]
    BY <1>0, <1>1, BeginFacts DEF TypeOK
  <2>3. /\ job[w] \in Orders
        /\ \/ inFlight[job[w]] \in {NoStep, "ODOO_LOOKUP"}
           \/ inFlight'[job[w]] = inFlight[job[w]]
    BY <1>0, <1>1, BeginFacts DEF TypeOK
  <2>4. NoStep \notin sent[job[w]] /\ "ODOO_LOOKUP" \notin sent[job[w]]
    BY <1>0, <2>3 DEF TypeOK, ReceiptSteps, NoStep
  <2>. QED
    BY <1>0, <2>1, <2>2, <2>3, <2>4 DEF NoOrphanedWrite
<1>2. ASSUME NEW w \in Workers, CallProvider(w) PROVE NoOrphanedWrite'
  <2>1. /\ job[w] \in Orders
        /\ step[w] \in receipts[job[w]] \cup {inFlight[job[w]], "ODOO_LOOKUP"}
    BY <1>2 DEF IInv, WorkerShape, WorkerOK, CallProvider
  <2>2. /\ sent' = [sent EXCEPT ![job[w]] = @ \cup ({step[w]} \cap ReceiptSteps)]
        /\ UNCHANGED <<receipts, inFlight>>
    BY <1>2 DEF CallProvider, row
  <2>3. {step[w]} \cap ReceiptSteps \subseteq receipts[job[w]] \cup {inFlight[job[w]]}
    BY <2>1 DEF ReceiptSteps
  <2>. QED
    BY <1>0, <2>1, <2>2, <2>3 DEF NoOrphanedWrite, TypeOK
<1>3. ASSUME NEW w \in Workers, PersistReceipt(w) PROVE NoOrphanedWrite'
  <2>1. /\ job[w] \in Orders /\ inFlight[job[w]] = step[w]
        /\ receipts' = [receipts EXCEPT ![job[w]] = @ \cup {step[w]}]
        /\ inFlight' = [inFlight EXCEPT ![job[w]] = NoStep]
    BY <1>3, PersistFacts
  <2>2. sent' = sent
    BY <1>3 DEF PersistReceipt
  <2>. QED
    BY <1>0, <2>1, <2>2 DEF NoOrphanedWrite, TypeOK
<1>4. ASSUME UNCHANGED <<sent, receipts, inFlight>> PROVE NoOrphanedWrite'
  BY <1>0, <1>4 DEF NoOrphanedWrite
<1>5. ASSUME NEW w \in Workers, NEW o \in Orders, Claim(w, o) \/ ExhaustLease(w, o)
      PROVE NoOrphanedWrite'
  BY <1>4, <1>5 DEF Claim, ExhaustLease
<1>6. ASSUME NEW w \in Workers,
             \/ ReadRow(w) \/ LookupSucceeds(w) \/ Yield(w) \/ Complete(w)
             \/ RefusedAsStale(w) \/ Abandon(w)
      PROVE NoOrphanedWrite'
  BY <1>4, <1>6 DEF ReadRow, LookupSucceeds, Yield, Complete, RefusedAsStale, Abandon, row
<1>7. ASSUME NEW w \in Workers, NEW code \in FailureCodes, RecordFailure(w, code)
      PROVE NoOrphanedWrite'
  BY <1>4, <1>7 DEF RecordFailure
<1>8. ASSUME NEW o \in Orders, HumanRetry(o) \/ LeaseExpires(o) \/ BecomesDue(o)
      PROVE NoOrphanedWrite'
  BY <1>4, <1>8 DEF HumanRetry, LeaseExpires, BecomesDue, row
<1>9. CASE UNCHANGED vars
  BY <1>4, <1>9 DEF vars, row
<1>. QED
  BY <1>1, <1>2, <1>3, <1>5, <1>6, <1>7, <1>8, <1>9, FailureActions
  DEF Next, WorkerStep, Settled
(***************************************************************************)
(* What workers know stays true.                                           *)
(***************************************************************************)
SameLocals(u) ==
  /\ pc'[u] = pc[u] /\ job'[u] = job[u] /\ token'[u] = token[u]
  /\ view'[u] = view[u] /\ step'[u] = step[u]

\* A worker is undisturbed by whoever neither takes its token nor touches the
\* receipts and the checkpoint of its order.
LEMMA Undisturbed ==
  ASSUME NEW u \in Workers, WorkerOK(u), SameLocals(u),
         pc[u] # "idle" =>
           /\ \A v \in Workers \ {u} : token'[v] # token[u]
           /\ \A o \in Orders : claim'[o] = claim[o] \/ claim'[o] # token[u]
           /\ receipts'[job[u]] = receipts[job[u]]
           /\ inFlight'[job[u]] = inFlight[job[u]]
  PROVE  WorkerOK(u)'
<1>1. CASE pc[u] = "idle"
  BY <1>1 DEF WorkerOK, SameLocals
<1>2. CASE pc[u] # "idle"
  <2>1. /\ job[u] \in Orders /\ token[u] # NoToken
        /\ claim'[job[u]] = token[u] => claim[job[u]] = token[u]
    BY <1>2 DEF WorkerOK
  <2>2. \A o \in Orders : claim'[o] = token[u] => o = job[u]
    BY <1>2 DEF WorkerOK
  <2>. QED
    BY <1>2, <2>1, <2>2 DEF WorkerOK, SameLocals
<1>. QED
  BY <1>1, <1>2

\* A worker that leaves is in order, and so are the others if the row it worked
\* on at most lost its claim.
LEMMA LeavingStep ==
  ASSUME IInv, NEW w \in Workers, Leave(w),
         UNCHANGED <<receipts, inFlight>>,
         claim' = claim \/ claim' = [claim EXCEPT ![job[w]] = NoToken]
  PROVE  WorkerShape'
<1>0. TypeOK /\ WorkerShape
  BY DEF IInv
<1>1. WorkerOK(w)'
  BY <1>0, LeaveFacts DEF WorkerOK
<1>2. ASSUME NEW u \in Workers \ {w} PROVE WorkerOK(u)'
  <2>1. SameLocals(u)
    BY <1>0, LeaveFacts DEF SameLocals
  <2>2. WorkerOK(u) /\ (pc[u] # "idle" => token[u] # NoToken)
    BY <1>0 DEF WorkerShape, WorkerOK
  <2>3. pc[u] # "idle" => \A v \in Workers \ {u} : token'[v] # token[u]
    BY <1>0, <2>2, LeaveFacts DEF WorkerOK
  <2>4. pc[u] # "idle" => \A o \in Orders : claim'[o] = claim[o] \/ claim'[o] # token[u]
    BY <1>0, <2>2 DEF TypeOK
  <2>. QED
    BY <2>1, <2>2, <2>3, <2>4, Undisturbed
<1>. QED
  BY <1>1, <1>2 DEF WorkerShape

\* After every step the holder of a claim still knows its row.
LEMMA WorkerShapeStep == IInv /\ [Next]_vars => WorkerShape'
<1> SUFFICES ASSUME IInv, [Next]_vars PROVE WorkerShape'
  OBVIOUS
<1>0. /\ TypeOK /\ RowShape /\ \A u \in Workers : WorkerOK(u)
      /\ \A u \in Workers : pc[u] # "idle" =>
           token[u] # NoToken /\ \A v \in Workers \ {u} : token[v] # token[u]
  BY DEF IInv, WorkerShape, WorkerOK
<1>1. ASSUME NEW w \in Workers, NEW o \in Orders, Claim(w, o) PROVE WorkerShape'
  <2>1. /\ NewToken # NoToken
        /\ \A p \in Orders : claim[p] # NewToken
        /\ \A v \in Workers : token[v] # NewToken
    BY <1>1, FreshTokenFacts DEF Claim
  <2>2. /\ claim' = [claim EXCEPT ![o] = NewToken]
        /\ token' = [token EXCEPT ![w] = NewToken]
        /\ pc' = [pc EXCEPT ![w] = "read"] /\ job' = [job EXCEPT ![w] = o]
        /\ UNCHANGED <<receipts, inFlight, view, step>>
    BY <1>1 DEF Claim
  <2>3. WorkerOK(w)'
    BY <1>0, <2>1, <2>2 DEF WorkerOK, TypeOK
  <2>4. ASSUME NEW u \in Workers \ {w} PROVE WorkerOK(u)'
    <3>1. SameLocals(u)
      BY <1>0, <2>2 DEF SameLocals, TypeOK
    <3>2. pc[u] # "idle" => /\ \A v \in Workers \ {u} : token'[v] # token[u]
                            /\ \A p \in Orders : claim'[p] = claim[p] \/ claim'[p] # token[u]
      BY <1>0, <2>1, <2>2 DEF TypeOK
    <3>. QED
      BY <1>0, <2>2, <3>1, <3>2, Undisturbed
  <2>. QED
    BY <2>3, <2>4 DEF WorkerShape
<1>2. ASSUME NEW o \in Orders, claim' = [claim EXCEPT ![o] = NoToken],
             UNCHANGED <<receipts, inFlight, worker>>
      PROVE WorkerShape'
  <2>1. ASSUME NEW u \in Workers PROVE WorkerOK(u)'
    <3>1. SameLocals(u)
      BY <1>2 DEF SameLocals, worker
    <3>2. pc[u] # "idle" => /\ \A v \in Workers \ {u} : token'[v] # token[u]
                            /\ \A p \in Orders : claim'[p] = claim[p] \/ claim'[p] # token[u]
      BY <1>0, <1>2 DEF TypeOK, worker
    <3>. QED
      BY <1>0, <1>2, <3>1, <3>2, Undisturbed
  <2>. QED
    BY <2>1 DEF WorkerShape
<1>3. ASSUME NEW w \in Workers, UNCHANGED <<claim, receipts, inFlight, token, job>>,
             \A u \in Workers \ {w} :
               pc'[u] = pc[u] /\ view'[u] = view[u] /\ step'[u] = step[u],
             WorkerOK(w)'
      PROVE WorkerShape'
  <2>1. ASSUME NEW u \in Workers \ {w} PROVE WorkerOK(u)'
    <3>1. SameLocals(u)
      BY <1>3 DEF SameLocals
    <3>. QED
      BY <1>0, <1>3, <3>1, Undisturbed
  <2>. QED
    BY <1>3, <2>1 DEF WorkerShape
<1>4. ASSUME NEW w \in Workers, ReadRow(w) PROVE WorkerShape'
  <2>1. /\ view'[w] = RowView(job[w]) /\ pc'[w] = "decide" /\ pc[w] = "read"
        /\ UNCHANGED <<claim, receipts, inFlight, token, job>>
    BY <1>0, <1>4 DEF ReadRow, TypeOK, row
  <2>2. WorkerOK(w)'
    BY <1>0, <2>1 DEF WorkerOK, RowView
  <2>3. \A u \in Workers \ {w} : pc'[u] = pc[u] /\ view'[u] = view[u] /\ step'[u] = step[u]
    BY <1>0, <1>4 DEF ReadRow, TypeOK
  <2>. QED
    BY <1>3, <2>1, <2>2, <2>3
<1>5. ASSUME NEW w \in Workers, CallProvider(w) PROVE WorkerShape'
  <2>1. /\ pc'[w] = "call" /\ pc[w] = "begun"
        /\ UNCHANGED <<claim, receipts, inFlight, token, job, view, step>>
    BY <1>0, <1>5 DEF CallProvider, TypeOK, row
  <2>2. WorkerOK(w)'
    BY <1>0, <2>1 DEF WorkerOK
  <2>3. \A u \in Workers \ {w} : pc'[u] = pc[u] /\ view'[u] = view[u] /\ step'[u] = step[u]
    BY <1>0, <1>5 DEF CallProvider, TypeOK
  <2>. QED
    BY <1>3, <2>1, <2>2, <2>3
<1>6. ASSUME NEW w \in Workers, LookupSucceeds(w) PROVE WorkerShape'
  <2>1. /\ pc'[w] = "decide" /\ pc[w] = "call" /\ step[w] = "ODOO_LOOKUP"
        /\ UNCHANGED <<claim, receipts, inFlight, token, job, view>>
    BY <1>0, <1>6 DEF LookupSucceeds, TypeOK, row
  <2>2. WorkerOK(w)'
    BY <1>0, <2>1 DEF WorkerOK
  <2>3. \A u \in Workers \ {w} : pc'[u] = pc[u] /\ view'[u] = view[u] /\ step'[u] = step[u]
    BY <1>0, <1>6 DEF LookupSucceeds, TypeOK
  <2>. QED
    BY <1>3, <2>1, <2>2, <2>3
<1>7. ASSUME NEW w \in Workers, Begin(w) PROVE WorkerShape'
  <2> DEFINE o == job[w]
             s == NextStep(view[w], lookedUp[w])
  <2>1. /\ o \in Orders /\ claim[o] = token[w] /\ token[w] # NoToken
        /\ view[w].receipts = receipts[o] /\ s # NoStep
        /\ inFlight'[o] = s
        /\ inFlight[o] \in {NoStep, "ODOO_LOOKUP"} \/ inFlight'[o] = inFlight[o]
        /\ \A p \in Orders \ {o} : inFlight'[p] = inFlight[p]
    BY <1>0, <1>7, BeginFacts DEF TypeOK, Begin
  <2>2. /\ pc[w] = "decide" /\ pc'[w] = "begun" /\ step'[w] = s
        /\ UNCHANGED <<claim, receipts, token, job, view>>
        /\ \A u \in Workers \ {w} : pc'[u] = pc[u] /\ step'[u] = step[u]
    BY <1>0, <1>7 DEF Begin, TypeOK
  <2>3. WorkerOK(w)'
    BY <1>0, <2>1, <2>2 DEF WorkerOK
  <2>4. ASSUME NEW u \in Workers \ {w} PROVE WorkerOK(u)'
    <3>1. SameLocals(u)
      BY <2>2 DEF SameLocals
    <3>2. CASE job[u] # o \/ pc[u] = "idle"
      BY <1>0, <2>1, <2>2, <3>1, <3>2, Undisturbed DEF WorkerOK
    <3>3. CASE job[u] = o /\ pc[u] # "idle"
      <4>1. claim[o] # token[u]
        BY <1>0, <2>1, <3>3
      <4>2. pc[u] \in {"begun", "call"} =>
              step[u] \in receipts[o] \cup {inFlight'[o], "ODOO_LOOKUP"}
        BY <1>0, <2>1, <3>3 DEF WorkerOK
      <4>. QED
        BY <1>0, <2>2, <3>1, <3>3, <4>1, <4>2 DEF WorkerOK, SameLocals
    <3>. QED
      BY <3>2, <3>3
  <2>. QED
    BY <2>3, <2>4 DEF WorkerShape
<1>8. ASSUME NEW w \in Workers, PersistReceipt(w) PROVE WorkerShape'
  <2> DEFINE o == job[w]
  <2>1. /\ o \in Orders /\ claim[o] = token[w] /\ token[w] # NoToken
        /\ inFlight[o] = step[w]
        /\ receipts'[o] = receipts[o] \cup {step[w]} /\ inFlight'[o] = NoStep
        /\ \A p \in Orders \ {o} : receipts'[p] = receipts[p] /\ inFlight'[p] = inFlight[p]
    BY <1>0, <1>8, PersistFacts DEF TypeOK
  <2>2. /\ pc[w] = "call" /\ pc'[w] = "decide"
        /\ view'[w].receipts = receipts'[o]
        /\ UNCHANGED <<claim, token, job>>
        /\ \A u \in Workers \ {w} : pc'[u] = pc[u] /\ step'[u] = step[u] /\ view'[u] = view[u]
    BY <1>0, <1>8, <2>1 DEF PersistReceipt, TypeOK
  <2>3. WorkerOK(w)'
    BY <1>0, <2>1, <2>2 DEF WorkerOK, NoStep
  <2>4. ASSUME NEW u \in Workers \ {w} PROVE WorkerOK(u)'
    <3>1. SameLocals(u)
      BY <2>2 DEF SameLocals
    <3>2. CASE job[u] # o \/ pc[u] = "idle"
      BY <1>0, <2>1, <2>2, <3>1, <3>2, Undisturbed DEF WorkerOK
    <3>3. CASE job[u] = o /\ pc[u] # "idle"
      <4>1. claim[o] # token[u]
        BY <1>0, <2>1, <3>3
      <4>2. pc[u] \in {"begun", "call"} =>
              step[u] \in receipts'[o] \cup {inFlight'[o], "ODOO_LOOKUP"}
        BY <1>0, <2>1, <3>3 DEF WorkerOK
      <4>. QED
        BY <1>0, <2>2, <3>1, <3>3, <4>1, <4>2 DEF WorkerOK, SameLocals
    <3>. QED
      BY <3>2, <3>3
  <2>. QED
    BY <2>3, <2>4 DEF WorkerShape
<1>9. ASSUME NEW w \in Workers, NEW code \in FailureCodes, RecordFailure(w, code)
      PROVE WorkerShape'
  BY <1>9, LeavingStep DEF RecordFailure, ReleaseClaim
<1>10. ASSUME NEW w \in Workers, Yield(w) \/ Complete(w) \/ RefusedAsStale(w) \/ Abandon(w)
       PROVE WorkerShape'
  BY <1>10, LeavingStep
  DEF Yield, Complete, RefusedAsStale, Abandon, ReleaseClaim, row
<1>11. ASSUME NEW w \in Workers, NEW o \in Orders, ExhaustLease(w, o) PROVE WorkerShape'
  BY <1>2, <1>11 DEF ExhaustLease, ReleaseClaim
<1>12. ASSUME NEW o \in Orders, HumanRetry(o) PROVE WorkerShape'
  BY <1>2, <1>12 DEF HumanRetry, ReleaseClaim
<1>13. ASSUME UNCHANGED <<claim, receipts, inFlight, worker>> PROVE WorkerShape'
  BY <1>13 DEF IInv, WorkerShape, WorkerOK, worker
<1>14. ASSUME NEW o \in Orders, LeaseExpires(o) \/ BecomesDue(o) PROVE WorkerShape'
  BY <1>13, <1>14 DEF LeaseExpires, BecomesDue, row
<1>15. CASE UNCHANGED vars
  BY <1>13, <1>15 DEF vars, row
<1>. QED
  BY <1>1, <1>4, <1>5, <1>6, <1>7, <1>8, <1>9, <1>10, <1>11, <1>12, <1>14, <1>15,
     FailureActions DEF Next, WorkerStep, Settled
(***************************************************************************)
(* The theorems.                                                           *)
(***************************************************************************)
\* The initial states satisfy the strengthened invariant.
LEMMA InitIInv == Init => IInv
<1> SUFFICES ASSUME Init PROVE IInv
  OBVIOUS
<1>1. TypeOK
  BY BoundAssumption
  DEF Init, TypeOK, Order, OrderStates, FailureStates, Codes, AuditTypes, View, NoView
<1>2. RowShape
  BY DEF Init, RowShape, FailureStates
<1>3. WorkerShape
  BY DEF Init, WorkerShape, WorkerOK
<1>4. NoStrandedRow /\ NoOrphanedWrite
  BY DEF Init, NoStrandedRow, NoOrphanedWrite
<1>. QED
  BY <1>1, <1>2, <1>3, <1>4 DEF IInv

\* The strengthened invariant holds in every reachable state.
THEOREM InductiveInvariant == Spec => []IInv
<1>1. IInv /\ [Next]_vars => IInv'
  BY TypeStep, RowStep, WorkerShapeStep, StrandedStep, OrphanStep DEF IInv
<1>. QED
  BY InitIInv, <1>1, PTL DEF Spec

\* Every variable keeps its type; in particular no row spends more attempts
\* than the limit.
THEOREM TypeCorrect == Spec => []TypeOK
<1>1. IInv => TypeOK
  BY DEF IInv
<1>. QED
  BY <1>1, InductiveInvariant, PTL

\* Every requested provider write is acknowledged by a receipt or named by the
\* checkpoint.
THEOREM WritesAreNeverOrphaned == Spec => []NoOrphanedWrite
<1>1. IInv => NoOrphanedWrite
  BY DEF IInv
<1>. QED
  BY <1>1, InductiveInvariant, PTL

\* No approved or syncing order is out of attempts, and no other order is
\* claimed.
THEOREM RowsAreNeverStranded == Spec => []NoStrandedRow
<1>1. IInv => NoStrandedRow
  BY DEF IInv
<1>. QED
  BY <1>1, InductiveInvariant, PTL

\* No provider write is requested before the receipt it builds on is durable.
THEOREM WritesComeInOrder == Spec => []WritesFollowReceipts
<1>1. ASSUME IInv PROVE WritesFollowReceipts
  <2> SUFFICES ASSUME NEW o \in Orders, NEW s \in sent[o]
               PROVE  Predecessors[s] \subseteq receipts[o]
    BY DEF WritesFollowReceipts
  <2>1. s \in ReceiptSteps /\ s # NoStep
    BY <1>1 DEF IInv, TypeOK, ReceiptSteps, NoStep
  <2>2. s \in receipts[o] \/ s = inFlight[o]
    BY <1>1 DEF IInv, NoOrphanedWrite
  <2>3. CASE s \in receipts[o]
    BY <1>1, <2>1, <2>3 DEF IInv, RowShape, ReceiptSteps, Predecessors
  <2>4. CASE s = inFlight[o]
    BY <1>1, <2>1, <2>4 DEF IInv, RowShape, StepPreconditions
  <2>. QED
    BY <2>2, <2>3, <2>4
<1>. QED
  BY <1>1, InductiveInvariant, PTL

\* Of the requests that work on an order, at most one may still write its row.
THEOREM OneWriter == Spec => []AtMostOneWriter
<1>1. IInv => AtMostOneWriter
  BY DEF IInv, WorkerShape, WorkerOK, AtMostOneWriter, IsCurrent
<1>. QED
  BY <1>1, InductiveInvariant, PTL

\* The live worker never fails a precondition it does not handle.
THEOREM LiveWorkerProceeds == Spec => []LiveWorkerIsNeverRefused
<1>1. ASSUME IInv PROVE LiveWorkerIsNeverRefused
  <2> SUFFICES ASSUME NEW w \in Workers, IsCurrent(w), pc[w] \in {"decide", "call"}
               PROVE  LET o == job[w]
                          s == NextStep(view[w], lookedUp[w])
                      IN  /\ pc[w] = "decide" =>
                               IF s = NoStep THEN HasAllReceipts(o)
                               ELSE StepPreconditions(receipts[o], s)
                                    /\ MayReplace(inFlight[o], s)
                          /\ pc[w] = "call" =>
                               inFlight[o] = step[w]
                               /\ StepPreconditions(receipts[o], step[w])
    BY DEF LiveWorkerIsNeverRefused
  <2> DEFINE o == job[w]
             s == NextStep(view[w], lookedUp[w])
  <2>1. /\ o \in Orders /\ claim[o] = token[w]
        /\ view[w].receipts = receipts[o] /\ receipts[o] \subseteq ReceiptSteps
    BY <1>1 DEF IInv, WorkerShape, WorkerOK, IsCurrent, TypeOK
  <2>2. CASE pc[w] = "call"
    <3>1. inFlight[o] = step[w] /\ step[w] # NoStep
      BY <1>1, <2>1, <2>2 DEF IInv, WorkerShape, WorkerOK
    <3>. QED
      BY <1>1, <2>1, <2>2, <3>1 DEF IInv, RowShape
  <2>3. CASE pc[w] = "decide"
    <3>1. inFlight[o] = "ODOO_BRIDGE" => view[w].inFlight = "ODOO_BRIDGE"
      BY <1>1, <2>1, <2>3 DEF IInv, WorkerShape, WorkerOK
    <3>2. inFlight[o] \in Steps \cup {NoStep}
          /\ (inFlight[o] # NoStep =>
                StepPreconditions(receipts[o], inFlight[o]) /\ inFlight[o] \notin receipts[o])
      BY <1>1, <2>1 DEF IInv, RowShape, TypeOK
    <3>3. s = NoStep => HasAllReceipts(o)
      BY <2>1 DEF NextStep, HasAllReceipts, ReceiptSteps, NoStep
    <3>4. s # NoStep => StepPreconditions(receipts[o], s)
      BY <2>1 DEF NextStep, StepPreconditions, Predecessors, NoStep
    <3>5. ASSUME s # NoStep PROVE MayReplace(inFlight[o], s)
      <4>1. CASE "ODOO_BRIDGE" \notin receipts[o]
        <5>1. inFlight[o] \in {NoStep, "ODOO_LOOKUP", "ODOO_BRIDGE"}
          BY <1>1, <2>1, <3>2, <4>1
          DEF StepPreconditions, Predecessors, Steps, ReceiptSteps, IInv, RowShape
        <5>2. s \in {"ODOO_LOOKUP", "ODOO_BRIDGE"}
              /\ (inFlight[o] = "ODOO_BRIDGE" => s = "ODOO_BRIDGE")
          BY <2>1, <3>1, <4>1 DEF NextStep
        <5>. QED
          BY <5>1, <5>2 DEF MayReplace
      <4>2. CASE "ODOO_BRIDGE" \in receipts[o]
        <5>1. inFlight[o] # NoStep => inFlight[o] \in ReceiptSteps \ receipts[o]
                                      /\ Predecessors[inFlight[o]] \subseteq receipts[o]
          BY <3>2, <4>2 DEF StepPreconditions, Steps
        <5>2. inFlight[o] # NoStep => inFlight[o] = s
          BY <1>1, <2>1, <3>5, <4>2, <5>1
          DEF IInv, RowShape, NextStep, Predecessors, ReceiptSteps
        <5>. QED
          BY <5>2 DEF MayReplace
      <4>. QED
        BY <4>1, <4>2
    <3>. QED
      BY <2>3, <3>3, <3>4, <3>5
  <2>. QED
    BY <2>2, <2>3
<1>. QED
  BY <1>1, InductiveInvariant, PTL

(***************************************************************************)
(* What a step may never do to a row.                                      *)
(***************************************************************************)
\* A claim that is taken over had expired, and unless only the completion was
\* left it costs an attempt.
LEMMA TakeoverFacts ==
  ASSUME IInv, NEW w \in Workers, NEW o \in Orders, Claim(w, o)
  PROVE  /\ claim' = [claim EXCEPT ![o] = NewToken]
         /\ attempts' = [attempts EXCEPT ![o] = TakeoverAttempts(o)]
         /\ attempts[o] \in Nat /\ TakeoverAttempts(o) >= attempts[o]
         /\ claim[o] # NoToken /\ ~HasAllReceipts(o)
              => TakeoverAttempts(o) = attempts[o] + 1
<1>1. attempts[o] \in Nat
  BY BoundAssumption DEF IInv, TypeOK
<1>2. claim[o] # NoToken => expired[o]
  BY DEF Claim, Selectable, Eligible
<1>. QED
  BY <1>1, <1>2 DEF Claim, TakeoverAttempts

\* The attempts of a row only grow within a generation, and a takeover spends one.
LEMMA AttemptStep ==
  ASSUME IInv, [Next]_vars, NEW o \in Orders
  PROVE  /\ generation'[o] = generation[o] => attempts'[o] >= attempts[o]
         /\ /\ claim[o] # NoToken
            /\ claim'[o] \notin {NoToken, claim[o]}
            /\ ~HasAllReceipts(o)
            => attempts'[o] = attempts[o] + 1
<1>. DEFINE Spent ==
       /\ generation'[o] = generation[o] => attempts'[o] >= attempts[o]
       /\ /\ claim[o] # NoToken
          /\ claim'[o] \notin {NoToken, claim[o]}
          /\ ~HasAllReceipts(o)
          => attempts'[o] = attempts[o] + 1
<1>0. /\ TypeOK /\ attempts[o] \in Nat
      /\ claim \in [Orders -> Tokens \cup {NoToken}]
      /\ attempts \in [Orders -> 0..MaxAttempts]
      /\ generation \in [Orders -> 0..MaxGeneration]
      /\ MaxAttempts \in Nat /\ MaxGeneration \in Nat
  BY BoundAssumption DEF IInv, TypeOK
<1>1. ASSUME NEW w \in Workers, NEW p \in Orders, Claim(w, p) PROVE Spent
  BY <1>0, <1>1, TakeoverFacts
<1>2. ASSUME NEW w \in Workers, NEW p \in Orders, ExhaustLease(w, p) PROVE Spent
  <2>1. /\ attempts' = [attempts EXCEPT ![p] = TakeoverAttempts(p)]
        /\ claim' = [claim EXCEPT ![p] = NoToken]
    BY <1>2 DEF ExhaustLease, ReleaseClaim
  <2>2. attempts[p] \in Nat /\ TakeoverAttempts(p) >= attempts[p]
    BY <1>0 DEF TakeoverAttempts
  <2>. QED
    BY <1>0, <2>1, <2>2
<1>3. ASSUME NEW w \in Workers, NEW code \in FailureCodes, RecordFailure(w, code)
      PROVE  Spent
  <2>1. claim' = [claim EXCEPT ![job[w]] = NoToken]
    BY <1>3 DEF RecordFailure, ReleaseClaim
  <2>2. attempts' = attempts \/ attempts' = [attempts EXCEPT ![job[w]] = @ + 1]
    BY <1>3 DEF RecordFailure
  <2>. QED
    BY <1>0, <2>1, <2>2
<1>4. ASSUME NEW w \in Workers, Yield(w) \/ Complete(w) PROVE Spent
  <2>1. claim' = [claim EXCEPT ![job[w]] = NoToken] /\ attempts' = attempts
    BY <1>4 DEF Yield, Complete, ReleaseClaim
  <2>. QED
    BY <1>0, <2>1
<1>5. ASSUME NEW p \in Orders, HumanRetry(p) PROVE Spent
  <2>1. /\ generation' = [generation EXCEPT ![p] = @ + 1]
        /\ attempts' = [attempts EXCEPT ![p] = 0]
        /\ claim' = [claim EXCEPT ![p] = NoToken]
    BY <1>5 DEF HumanRetry, ReleaseClaim
  <2>2. generation'[o] = generation[o] => o # p
    BY <1>0, <2>1
  <2>. QED
    BY <1>0, <2>1, <2>2
<1>6. ASSUME UNCHANGED <<claim, attempts>> PROVE Spent
  BY <1>0, <1>6
<1>7. ASSUME NEW w \in Workers,
             \/ ReadRow(w) \/ Begin(w) \/ CallProvider(w) \/ LookupSucceeds(w)
             \/ PersistReceipt(w) \/ RefusedAsStale(w) \/ Abandon(w)
      PROVE  Spent
  BY <1>6, <1>7
  DEF ReadRow, Begin, CallProvider, LookupSucceeds, PersistReceipt, RefusedAsStale,
      Abandon, row
<1>8. ASSUME NEW p \in Orders, LeaseExpires(p) \/ BecomesDue(p) PROVE Spent
  BY <1>6, <1>8 DEF LeaseExpires, BecomesDue, row
<1>9. CASE UNCHANGED vars
  BY <1>6, <1>9 DEF vars, row
<1>. QED
  BY <1>1, <1>2, <1>3, <1>4, <1>5, <1>7, <1>8, <1>9, FailureActions
  DEF Next, WorkerStep, Settled

\* Only losing a call or a lease costs an attempt, only the operator gives
\* attempts back, and no row that has something to ask a provider changes hands
\* for nothing: the limit on automatic attempts cannot be circumvented.
THEOREM AttemptsAreAccounted == Spec => AttemptsAreSpent
<1>1. IInv /\ [Next]_vars =>
        [\A o \in Orders :
           /\ generation'[o] = generation[o] => attempts'[o] >= attempts[o]
           /\ /\ claim[o] # NoToken
              /\ claim'[o] \notin {NoToken, claim[o]}
              /\ ~HasAllReceipts(o)
              => attempts'[o] = attempts[o] + 1]_vars
  BY AttemptStep
<1>. QED
  BY <1>1, InductiveInvariant, PTL DEF Spec, AttemptsAreSpent

\* The checkpoint of a bridge call is left only with the receipt.
LEMMA CheckpointStep ==
  ASSUME IInv, [Next]_vars, NEW o \in Orders,
         inFlight[o] = "ODOO_BRIDGE", inFlight'[o] # "ODOO_BRIDGE"
  PROVE  "ODOO_BRIDGE" \in receipts'[o]
<1>0. TypeOK
  BY DEF IInv
<1>1. ASSUME NEW w \in Workers, Begin(w) PROVE FALSE
  <2>1. /\ o = job[w]
        /\ inFlight'[o] = NextStep(view[w], lookedUp[w])
    BY <1>0, <1>1, BeginFacts DEF TypeOK
  <2>. QED
    BY <1>1, <2>1, BeginFacts DEF NoStep
<1>2. ASSUME NEW w \in Workers, PersistReceipt(w) PROVE "ODOO_BRIDGE" \in receipts'[o]
  <2>1. o = job[w] /\ step[w] = "ODOO_BRIDGE"
    BY <1>0, <1>2, PersistFacts DEF TypeOK
  <2>. QED
    BY <1>0, <1>2, <2>1, PersistFacts DEF TypeOK
<1>3. ASSUME UNCHANGED inFlight PROVE FALSE
  BY <1>3
<1>4. ASSUME NEW w \in Workers, NEW p \in Orders, Claim(w, p) \/ ExhaustLease(w, p)
      PROVE  FALSE
  BY <1>3, <1>4 DEF Claim, ExhaustLease
<1>5. ASSUME NEW w \in Workers, NEW code \in FailureCodes, RecordFailure(w, code)
      PROVE  FALSE
  BY <1>3, <1>5 DEF RecordFailure
<1>6. ASSUME NEW w \in Workers,
             \/ ReadRow(w) \/ CallProvider(w) \/ LookupSucceeds(w)
             \/ Yield(w) \/ Complete(w) \/ RefusedAsStale(w) \/ Abandon(w)
      PROVE  FALSE
  BY <1>3, <1>6
  DEF ReadRow, CallProvider, LookupSucceeds, Yield, Complete, RefusedAsStale, Abandon, row
<1>7. ASSUME NEW p \in Orders, HumanRetry(p) \/ LeaseExpires(p) \/ BecomesDue(p)
      PROVE  FALSE
  BY <1>3, <1>7 DEF HumanRetry, LeaseExpires, BecomesDue, row
<1>8. CASE UNCHANGED vars
  BY <1>3, <1>8 DEF vars, row
<1>. QED
  BY <1>1, <1>2, <1>4, <1>5, <1>6, <1>7, <1>8, FailureActions DEF Next, WorkerStep, Settled

\* Once a bridge call may have created the sale order, the row never goes back to
\* the preflight, whoever takes it over, retries it or gives it up.
THEOREM UncertainBridgeIsResumed == Spec => BridgeIsResumed
<1>1. IInv /\ [Next]_vars =>
        [\A o \in Orders :
           inFlight[o] = "ODOO_BRIDGE" /\ inFlight'[o] # "ODOO_BRIDGE"
             => "ODOO_BRIDGE" \in receipts'[o]]_vars
  BY CheckpointStep
<1>. QED
  BY <1>1, InductiveInvariant, PTL DEF Spec, BridgeIsResumed

(***************************************************************************)
(* Synchronization implements its contract.                                *)
(***************************************************************************)
\* One worker, operator or clock step is one step of the contract or none.
LEMMA ContractStep ==
  ASSUME IInv, [Next]_vars
  PROVE  Contract!Next \/ UNCHANGED <<order, receipts>>
<1>0. TypeOK /\ RowShape /\ NoStrandedRow
  BY DEF IInv
<1>1. ASSUME NEW w \in Workers, NEW o \in Orders, Claim(w, o)
      PROVE  Contract!Start(o) \/ UNCHANGED <<order, receipts>>
  BY <1>0, <1>1, MoveFacts 
  DEF Claim, Contract!Start, MoveTo, TypeOK, TransitionTo, FailureStates, NoOrigin, Contract!TransitionTo,
      Contract!FailureStates, Contract!NoOrigin
<1>2. ASSUME NEW o \in Orders, MoveTo(o, "FAILED_RETRYABLE") \/ MoveTo(o, "FAILED_FINAL"),
             receipts' = receipts
      PROVE  Contract!Fail(o)
  <2>1. order[o].state = "SYNCING"
    BY <1>0, <1>2, MoveFacts DEF RowShape, TypeOK, FailureStates
  <2>. QED
    BY <1>2, <2>1
    DEF Contract!Fail, MoveTo, TransitionTo, FailureStates, NoOrigin, Contract!TransitionTo,
        Contract!FailureStates, Contract!NoOrigin
<1>3. ASSUME NEW w \in Workers, PersistReceipt(w)
      PROVE  Contract!Next
  <2> DEFINE o == job[w]
  <2>1. /\ o \in Orders /\ order[o].state = "SYNCING" /\ step[w] \in ReceiptSteps
        /\ receipts' = [receipts EXCEPT ![o] = @ \cup {step[w]}]
        /\ StepPreconditions(receipts[o], step[w]) /\ step[w] \notin receipts[o]
        /\ order' = order
    BY <1>3, PersistFacts DEF PersistReceipt
  <2>2. receipts[o] \subseteq ReceiptSteps
    BY <1>0, <2>1 DEF TypeOK
  <2>3. Predecessors[step[w]] \subseteq receipts[o]
    BY <2>1 DEF StepPreconditions
  <2>4. receipts[o] = Contract!Before[step[w]]
    <3>1. CASE step[w] = "ODOO_BRIDGE"
      BY <1>0, <2>1, <2>2, <3>1 DEF RowShape, ReceiptSteps, Contract!Before
    <3>2. CASE step[w] = "HUBSPOT_COMPANY"
      BY <1>0, <2>1, <2>2, <2>3, <3>2 DEF RowShape, ReceiptSteps, Predecessors, Contract!Before
    <3>3. CASE step[w] = "HUBSPOT_DEAL"
      BY <1>0, <2>1, <2>2, <2>3, <3>3 DEF RowShape, ReceiptSteps, Predecessors, Contract!Before
    <3>4. CASE step[w] = "HUBSPOT_ASSOCIATION"
      BY <1>0, <2>1, <2>2, <2>3, <3>4 DEF RowShape, ReceiptSteps, Predecessors, Contract!Before
    <3>. QED
      BY <2>1, <3>1, <3>2, <3>3, <3>4 DEF ReceiptSteps
  <2>5. step[w] \in Contract!AllSteps
    BY <2>1 DEF Contract!AllSteps, Contract!Before, ReceiptSteps
  <2>6. Contract!Acknowledge(o, step[w])
    BY <2>1, <2>4 DEF Contract!Acknowledge
  <2>. QED
    BY <2>1, <2>5, <2>6 DEF Contract!Next
<1>4. ASSUME NEW w \in Workers, NEW code \in FailureCodes, RecordFailure(w, code)
      PROVE  Contract!Next \/ UNCHANGED <<order, receipts>>
  <2>1. job[w] \in Orders
    BY <1>4, FailureFacts
  <2>2. /\ receipts' = receipts
        /\ \/ MoveTo(job[w], "FAILED_FINAL") \/ MoveTo(job[w], "FAILED_RETRYABLE")
           \/ order' = order
    BY <1>4 DEF RecordFailure
  <2>. QED
    BY <1>2, <2>1, <2>2 DEF Contract!Next
<1>5. ASSUME NEW w \in Workers, Complete(w)
      PROVE  Contract!Next
  <2>1. /\ job[w] \in Orders
        /\ order[job[w]].state = "SYNCING" /\ receipts[job[w]] = ReceiptSteps
        /\ MoveTo(job[w], "COMPLETED") /\ receipts' = receipts
    BY <1>5 DEF Complete, IInv, WorkerShape, WorkerOK, IsCurrent, HasAllReceipts
  <2>2. ReceiptSteps = Contract!AllSteps
    BY DEF ReceiptSteps, Contract!AllSteps, Contract!Before
  <2>3. Contract!Complete(job[w])
    BY <2>1, <2>2
    DEF Contract!Complete, MoveTo, TransitionTo, FailureStates, NoOrigin,
        Contract!TransitionTo, Contract!FailureStates, Contract!NoOrigin
  <2>. QED
    BY <2>1, <2>3 DEF Contract!Next
<1>6. ASSUME NEW o \in Orders, HumanRetry(o)
      PROVE  Contract!Resume(o)
  BY <1>6
  DEF HumanRetry, Contract!Resume, CanRetry, Retry, NoOrigin, Contract!CanRetry,
      Contract!Retry, Contract!NoOrigin
<1>7. ASSUME NEW w \in Workers, NEW o \in Orders, ExhaustLease(w, o)
      PROVE  Contract!Fail(o)
  BY <1>2, <1>7 DEF ExhaustLease
<1>8. ASSUME NEW w \in Workers,
             \/ ReadRow(w) \/ Begin(w) \/ CallProvider(w) \/ LookupSucceeds(w)
             \/ Yield(w) \/ RefusedAsStale(w) \/ Abandon(w)
      PROVE  UNCHANGED <<order, receipts>>
  BY <1>8 DEF ReadRow, Begin, CallProvider, LookupSucceeds, Yield, RefusedAsStale, Abandon, row
<1>9. ASSUME NEW o \in Orders, LeaseExpires(o) \/ BecomesDue(o)
      PROVE  UNCHANGED <<order, receipts>>
  BY <1>9 DEF LeaseExpires, BecomesDue, row
<1>10. CASE UNCHANGED vars
  BY <1>10 DEF vars, row
<1>. QED
  BY <1>1, <1>3, <1>4, <1>5, <1>6, <1>7, <1>8, <1>9, <1>10, FailureActions
  DEF Next, WorkerStep, Settled, Contract!Next

\* Whatever the workers, leases and retries do, each order's confirmations are
\* acknowledged in order, are never lost, and completion needs all of them.
THEOREM Refinement == Spec => ImplementsContract
<1>1. Init => Contract!Init
  BY DEF Init, Contract!Init, NoOrigin, Contract!NoOrigin
<1>2. IInv /\ [Next]_vars => [Contract!Next]_(Contract!vars)
  BY ContractStep DEF Contract!vars
<1>. QED
  BY <1>1, <1>2, InductiveInvariant, PTL DEF Spec, ImplementsContract, Contract!Spec
==============================================================================
