------------------------------ MODULE OrderSync ------------------------------
(***************************************************************************)
(* Synchronization of approved orders to Odoo and HubSpot                  *)
(* (application/order_sync.py, persistence/order_sync_repository.py).      *)
(*                                                                         *)
(* Every approved order has one durable row: a fencing claim, an attempt   *)
(* counter, a retry generation, a due time, the receipts confirmed so far  *)
(* and the step in flight.  A worker is one execute-next request: it claims*)
(* a row, reads it, and then alternates between persisting the next step   *)
(* as in flight, calling the provider, and persisting the receipt or the   *)
(* failure.  Each of those is one database transaction and so one action;  *)
(* anything may happen in between.                                         *)
(*                                                                         *)
(* Time is kept as what the queries compare: whether a lease has expired,  *)
(* whether a row is due, and which rows sort before which.                 *)
(***************************************************************************)
EXTENDS Naturals, FiniteSets, OrderDomain

CONSTANTS
  Orders,          \* the approved orders
  Workers,         \* execute-next requests that may run at the same time
  Tokens,          \* claim tokens (uuid4)
  ProviderCodes,   \* failure codes a provider adapter may return
  MaxAttempts,     \* automatic attempts per generation (3 in the code)
  MaxGeneration    \* bound: human retries of one order

AutoRetryCodes == {"PROVIDER_UNAVAILABLE", "PROVIDER_RATE_LIMIT",
                   "PROVIDER_INVALID_RESPONSE", "PROVIDER_PENDING"}
FinalFailureCodes == {"IDEMPOTENCY_CONFLICT", "RECONCILIATION_REQUIRED"}
OperatorCodes == {"INTEGRATION_CONFIG", "PROVIDER_REJECTED",
                  "TRUSTED_CUSTOMER_MISSING", "TRUSTED_CUSTOMER_AMBIGUOUS",
                  "TRUSTED_PRODUCT_MISSING", "TRUSTED_PRODUCT_CHANGED",
                  "INVENTORY_INSUFFICIENT", "WORKER_LEASE_EXHAUSTED"}
FailureCodes == AutoRetryCodes \cup FinalFailureCodes \cup OperatorCodes

NoToken == "NO_TOKEN"
NoOrder == "NO_ORDER"
NoCode  == "NO_CODE"
NoStep  == "NO_STEP"

ASSUME ProviderCodesAssumption ==
  /\ ProviderCodes \subseteq FailureCodes \ {"WORKER_LEASE_EXHAUSTED"}
  /\ "PROVIDER_UNAVAILABLE" \in ProviderCodes
ASSUME NamesAssumption ==
  /\ NoToken \notin Tokens
  /\ NoOrder \notin Orders
ASSUME BoundAssumption ==
  /\ MaxAttempts \in Nat \ {0}
  /\ MaxGeneration \in Nat

\* The steps that leave a durable receipt, in the order they must happen;
\* ODOO_LOOKUP, the preflight, leaves none.
ReceiptSteps == {"ODOO_BRIDGE", "HUBSPOT_COMPANY", "HUBSPOT_DEAL",
                 "HUBSPOT_ASSOCIATION"}
Steps == ReceiptSteps \cup {"ODOO_LOOKUP"}

\* The receipt each step needs before it may begin.
Predecessors ==
  [ ODOO_LOOKUP         |-> {},
    ODOO_BRIDGE         |-> {},
    HUBSPOT_COMPANY     |-> {"ODOO_BRIDGE"},
    HUBSPOT_DEAL        |-> {"HUBSPOT_COMPANY"},
    HUBSPOT_ASSOCIATION |-> {"HUBSPOT_COMPANY", "HUBSPOT_DEAL"} ]

StepPreconditions(receipts, step) ==
  /\ Predecessors[step] \subseteq receipts
  /\ step \in {"ODOO_LOOKUP", "ODOO_BRIDGE"} => "ODOO_BRIDGE" \notin receipts

\* begin_order_sync_step accepts a step over the one already in flight.
MayReplace(current, step) ==
  \/ current \in {NoStep, step}
  \/ current = "ODOO_LOOKUP" /\ step = "ODOO_BRIDGE"

\* Mutant: the checkpoint of an uncertain bridge call is not resumed.
NextStepFromStart(seen, looked) ==
  IF "ODOO_BRIDGE" \in seen.receipts THEN "HUBSPOT_COMPANY"
  ELSE IF looked THEN "ODOO_BRIDGE" ELSE "ODOO_LOOKUP"

\* next_order_sync_step: the first missing durable step; an uncertain bridge
\* call is resumed without a second preflight.
NextStep(seen, looked) ==
  IF "ODOO_BRIDGE" \notin seen.receipts
    THEN IF seen.inFlight = "ODOO_BRIDGE" \/ looked THEN "ODOO_BRIDGE"
                                                      ELSE "ODOO_LOOKUP"
  ELSE IF "HUBSPOT_COMPANY" \notin seen.receipts THEN "HUBSPOT_COMPANY"
  ELSE IF "HUBSPOT_DEAL" \notin seen.receipts THEN "HUBSPOT_DEAL"
  ELSE IF "HUBSPOT_ASSOCIATION" \notin seen.receipts
    THEN "HUBSPOT_ASSOCIATION"
  ELSE NoStep

View == [receipts : SUBSET ReceiptSteps, inFlight : Steps \cup {NoStep}]
NoView == [receipts |-> {}, inFlight |-> NoStep]

AuditTypes == {"ORDER_APPROVED", "ORDER_SYNC_STARTED", "ORDER_SYNC_RESUMED",
               "ORDER_SYNC_FAILED", "ORDER_SYNC_COMPLETED",
               "ORDER_RETRY_RESTORED"}
------------------------------------------------------------------------------
VARIABLES
  order,        \* the aggregate [state, origin] of each order
  claim,        \* claim_token of the row
  expired,      \* claim_expires_at <= now
  attempts,     \* attempt_count
  generation,   \* retry_generation
  due,          \* next_attempt_at <= now
  ahead,        \* rows that sort before: next_attempt_at, created_at, order_id
  receipts,     \* steps whose receipt columns are set
  inFlight,     \* in_flight_step
  lastFailure,  \* last_failure_code
  lastAudit     \* event type of the latest sync audit event of the order

VARIABLES
  pc,           \* where each worker is in execute_next_order_sync
  job,          \* order of its claim
  token,        \* token of its claim
  view,         \* the row as it last read it (sync_row)
  lookedUp,     \* lookup_succeeded
  step          \* the step it began

VARIABLES
  sent          \* provider writes requested so far, per order: each of them may
                \* take effect at any later time, even after its caller gave up
                \* (the order's stable identity makes a repetition the same write)

schedule  == <<due, ahead>>
row       == <<order, claim, expired, attempts, generation, receipts, inFlight,
               lastFailure, lastAudit>>
worker    == <<pc, job, token, view, lookedUp, step>>
vars      == <<schedule, row, worker, sent>>

RowView(o) == [receipts |-> receipts[o], inFlight |-> inFlight[o]]

HasAllReceipts(o) == receipts[o] = ReceiptSteps

\* Mutant: any lease on the row counts, not only the worker's own.
IsCurrentForAnyToken(w) ==
  /\ order[job[w]].state = "SYNCING"
  /\ claim[job[w]] # NoToken
  /\ ~expired[job[w]]

\* _require_current_claim, evaluated under the row locks.
IsCurrent(w) ==
  /\ order[job[w]].state = "SYNCING"
  /\ claim[job[w]] = token[w]
  /\ ~expired[job[w]]

Eligible(o) ==
  \/ order[o].state = "APPROVED" /\ claim[o] = NoToken /\ due[o]
  \/ /\ order[o].state = "SYNCING"
     /\ attempts[o] < MaxAttempts
     /\ IF claim[o] = NoToken THEN due[o] ELSE expired[o]

\* SKIP LOCKED passes over a row that another transaction holds: one that works
\* on that order, or another request that is claiming it at the same time.
MayBeLocked(o, w) ==
  \E v \in Workers \ {w} : pc[v] = "idle" \/ job[v] = o

\* FOR UPDATE SKIP LOCKED LIMIT 1 in ORDER BY next_attempt_at order.
Selectable(o, w) ==
  /\ Eligible(o)
  /\ \A p \in ahead[o] : Eligible(p) => MayBeLocked(p, w)

\* uuid4 returns a token nobody holds; which one is immaterial.
FreshTokens == Tokens \ ({claim[o] : o \in Orders} \cup {token[w] : w \in Workers})
NewToken == CHOOSE t \in FreshTokens : TRUE

\* Re-sort the row of o directly after the rows in before.
PlaceAfter(o, before) ==
  ahead' = [p \in Orders |->
              IF p = o THEN before
              ELSE IF p \in before THEN ahead[p] \ {o} ELSE ahead[p] \cup {o}]

\* Mutant: the row sorts before all others.
ScheduleFirst(o) ==
  /\ due' = [due EXCEPT ![o] = TRUE]
  /\ PlaceAfter(o, {})

\* next_attempt_at := now()
ScheduleNow(o) ==
  /\ due' = [due EXCEPT ![o] = TRUE]
  /\ PlaceAfter(o, {p \in Orders \ {o} : due[p]})

\* next_attempt_at := now() + delay, for some delay
ScheduleLater(o) ==
  /\ due' = [due EXCEPT ![o] = FALSE]
  /\ \E before \in SUBSET (Orders \ {o}) :
        /\ {p \in Orders \ {o} : due[p]} \subseteq before
        /\ \A p \in before : ahead[p] \ {o} \subseteq before
        /\ PlaceAfter(o, before)

\* Mutant: the claim columns are left alone.
KeepClaim(o) == UNCHANGED <<claim, expired>>

ReleaseClaim(o) ==
  /\ claim' = [claim EXCEPT ![o] = NoToken]
  /\ expired' = [expired EXCEPT ![o] = FALSE]

Leave(w) ==
  /\ pc' = [pc EXCEPT ![w] = "idle"]
  /\ job' = [job EXCEPT ![w] = NoOrder]
  /\ token' = [token EXCEPT ![w] = NoToken]
  /\ view' = [view EXCEPT ![w] = NoView]
  /\ lookedUp' = [lookedUp EXCEPT ![w] = FALSE]
  /\ step' = [step EXCEPT ![w] = NoStep]

MoveTo(o, target) ==
  /\ CanTransition(order[o], target)
  /\ order' = [order EXCEPT ![o] = TransitionTo(@, target)]

ClearFailure(o) == lastFailure' = [lastFailure EXCEPT ![o] = NoCode]

Audit(o, type) == lastAudit' = [lastAudit EXCEPT ![o] = type]
------------------------------------------------------------------------------
\* Every order has just been approved: approve_order inserted its row in the
\* approval transaction, due immediately; the rows sort in some order.
Init ==
  /\ order = [o \in Orders |-> [state |-> "APPROVED", origin |-> NoOrigin]]
  /\ claim = [o \in Orders |-> NoToken]
  /\ expired = [o \in Orders |-> FALSE]
  /\ attempts = [o \in Orders |-> 0]
  /\ generation = [o \in Orders |-> 0]
  /\ due = [o \in Orders |-> TRUE]
  /\ ahead \in [Orders -> SUBSET Orders]
  /\ \A o, p \in Orders :
        /\ o \notin ahead[o]
        /\ o # p => (o \in ahead[p] <=> p \notin ahead[o])
        /\ p \in ahead[o] => ahead[p] \subseteq ahead[o]
  /\ receipts = [o \in Orders |-> {}]
  /\ inFlight = [o \in Orders |-> NoStep]
  /\ lastFailure = [o \in Orders |-> NoCode]
  /\ lastAudit = [o \in Orders |-> "ORDER_APPROVED"]
  /\ pc = [w \in Workers |-> "idle"]
  /\ job = [w \in Workers |-> NoOrder]
  /\ token = [w \in Workers |-> NoToken]
  /\ view = [w \in Workers |-> NoView]
  /\ lookedUp = [w \in Workers |-> FALSE]
  /\ step = [w \in Workers |-> NoStep]
  /\ sent = [o \in Orders |-> {}]

\* Mutant: a takeover is free.
TakeoverForFree(o) == attempts[o]

\* An expired lease over missing receipts spends an attempt when it is taken
\* over.
TakeoverAttempts(o) ==
  IF expired[o] /\ ~HasAllReceipts(o) THEN attempts[o] + 1 ELSE attempts[o]

\* claim_next_order_sync: the selected row is leased under a new token.
Claim(w, o) ==
  /\ pc[w] = "idle"
  /\ Selectable(o, w)
  /\ TakeoverAttempts(o) < MaxAttempts
  /\ FreshTokens # {}
  /\ claim' = [claim EXCEPT ![o] = NewToken]
  /\ token' = [token EXCEPT ![w] = NewToken]
  /\ expired' = [expired EXCEPT ![o] = FALSE]
  /\ attempts' = [attempts EXCEPT ![o] = TakeoverAttempts(o)]
  /\ \/ /\ order[o].state = "APPROVED"
        /\ MoveTo(o, "SYNCING")
        /\ Audit(o, "ORDER_SYNC_STARTED")
     \/ /\ order[o].state # "APPROVED"
        /\ order' = order
        /\ Audit(o, "ORDER_SYNC_RESUMED")
  /\ pc' = [pc EXCEPT ![w] = "read"]
  /\ job' = [job EXCEPT ![w] = o]
  /\ UNCHANGED <<schedule, generation, receipts, inFlight, lastFailure, view,
                 lookedUp, step, sent>>

\* claim_next_order_sync: the third expired lease ends the generation instead.
ExhaustLease(w, o) ==
  /\ pc[w] = "idle"
  /\ Selectable(o, w)
  /\ TakeoverAttempts(o) >= MaxAttempts
  /\ attempts' = [attempts EXCEPT ![o] = TakeoverAttempts(o)]
  /\ lastFailure' = [lastFailure EXCEPT ![o] = "WORKER_LEASE_EXHAUSTED"]
  /\ ReleaseClaim(o)
  /\ MoveTo(o, "FAILED_RETRYABLE")
  /\ Audit(o, "ORDER_SYNC_FAILED")
  /\ UNCHANGED <<schedule, generation, receipts, inFlight, worker, sent>>

\* _get_order_sync: a separate transaction after the claim, without the fence.
ReadRow(w) ==
  /\ pc[w] = "read"
  /\ view' = [view EXCEPT ![w] = RowView(job[w])]
  /\ pc' = [pc EXCEPT ![w] = "decide"]
  /\ UNCHANGED <<schedule, row, job, token, lookedUp, step, sent>>

\* begin_order_sync_step with the live claim: the step becomes the durable
\* in-flight checkpoint before any provider is called.
Begin(w) ==
  LET o == job[w]
      s == NextStep(view[w], lookedUp[w])
  IN  /\ pc[w] = "decide"
      /\ s # NoStep
      /\ IsCurrent(w)
      /\ StepPreconditions(receipts[o], s)
      /\ MayReplace(inFlight[o], s)
      /\ inFlight' = [inFlight EXCEPT ![o] = s]
      /\ step' = [step EXCEPT ![w] = s]
      /\ pc' = [pc EXCEPT ![w] = "begun"]
      /\ UNCHANGED <<schedule, order, claim, expired, attempts, generation,
                     receipts, lastFailure, lastAudit, job, token, view,
                     lookedUp, sent>>

\* executor.execute: the request leaves for the provider; the claim is not
\* looked at again.
CallProvider(w) ==
  /\ pc[w] = "begun"
  /\ sent' = [sent EXCEPT ![job[w]] = @ \cup ({step[w]} \cap ReceiptSteps)]
  /\ pc' = [pc EXCEPT ![w] = "call"]
  /\ UNCHANGED <<schedule, row, job, token, view, lookedUp, step>>

\* The preflight found nothing wrong; nothing is persisted.
LookupSucceeds(w) ==
  /\ pc[w] = "call"
  /\ step[w] = "ODOO_LOOKUP"
  /\ lookedUp' = [lookedUp EXCEPT ![w] = TRUE]
  /\ step' = [step EXCEPT ![w] = NoStep]
  /\ pc' = [pc EXCEPT ![w] = "decide"]
  /\ UNCHANGED <<schedule, row, job, token, view, sent>>

\* persist_order_sync_receipt: the provider confirmed the step.
PersistReceipt(w) ==
  LET o == job[w] IN
  /\ pc[w] = "call"
  /\ step[w] \in ReceiptSteps
  /\ IsCurrent(w)
  /\ inFlight[o] = step[w]
  /\ StepPreconditions(receipts[o], step[w])
  /\ receipts' = [receipts EXCEPT ![o] = @ \cup {step[w]}]
  /\ inFlight' = [inFlight EXCEPT ![o] = NoStep]
  /\ ClearFailure(o)
  /\ view' = [view EXCEPT ![w] = [receipts |-> receipts[o] \cup {step[w]},
                                  inFlight |-> NoStep]]
  /\ lookedUp' = [lookedUp EXCEPT ![w] = FALSE]
  /\ step' = [step EXCEPT ![w] = NoStep]
  /\ pc' = [pc EXCEPT ![w] = "decide"]
  /\ UNCHANGED <<schedule, order, claim, expired, attempts, generation,
                 lastAudit, job, token, sent>>

\* record_order_sync_failure with the live claim: the claim is given up, the
\* checkpoint stays, and the code decides between waiting, the operator and the
\* end.
RecordFailure(w, code) ==
  LET o == job[w] IN
  /\ pc[w] = "call"
  /\ IsCurrent(w)
  /\ inFlight[o] = step[w]
  /\ lastFailure' = [lastFailure EXCEPT ![o] = code]
  /\ ReleaseClaim(o)
  /\ Audit(o, "ORDER_SYNC_FAILED")
  /\ \/ /\ code \in FinalFailureCodes
        /\ MoveTo(o, "FAILED_FINAL")
        /\ UNCHANGED <<attempts, schedule>>
     \/ /\ code \in AutoRetryCodes
        /\ attempts' = [attempts EXCEPT ![o] = @ + 1]
        /\ \/ /\ attempts[o] + 1 >= MaxAttempts
              /\ MoveTo(o, "FAILED_RETRYABLE")
              /\ ScheduleNow(o)
           \/ /\ attempts[o] + 1 < MaxAttempts
              /\ order' = order
              /\ ScheduleLater(o)
     \/ /\ code \in OperatorCodes
        /\ MoveTo(o, "FAILED_RETRYABLE")
        /\ ScheduleNow(o)
        /\ UNCHANGED attempts
  /\ Leave(w)
  /\ UNCHANGED <<generation, receipts, inFlight, sent>>

\* The adapter answered with a failure, raised, or ran into the step timeout,
\* whether or not the provider applied the write.
StepFails(w) == \E code \in ProviderCodes : RecordFailure(w, code)

\* Two orders were answered with the same external identity: the unique index
\* refuses the receipt and the conflict is recorded as final.
ReceiptCollides(w) ==
  /\ step[w] \in {"ODOO_BRIDGE", "HUBSPOT_DEAL"}
  /\ \E p \in Orders \ {job[w]} : step[w] \in receipts[p]
  /\ RecordFailure(w, "IDEMPOTENCY_CONFLICT")

\* yield_order_sync_claim: too little of the execution budget is left for
\* another step; no attempt is spent.
Yield(w) ==
  LET o == job[w] IN
  /\ \/ pc[w] \in {"read", "begun"}
     \/ pc[w] = "decide" /\ NextStep(view[w], lookedUp[w]) # NoStep
  /\ IsCurrent(w)
  /\ ReleaseClaim(o)
  /\ ScheduleNow(o)
  /\ Leave(w)
  /\ UNCHANGED <<order, attempts, generation, receipts, inFlight, lastFailure,
                 lastAudit, sent>>

\* complete_order_sync with the live claim.
Complete(w) ==
  LET o == job[w] IN
  /\ pc[w] = "decide"
  /\ NextStep(view[w], lookedUp[w]) = NoStep
  /\ IsCurrent(w)
  /\ HasAllReceipts(o)
  /\ MoveTo(o, "COMPLETED")
  /\ ReleaseClaim(o)
  /\ Audit(o, "ORDER_SYNC_COMPLETED")
  /\ Leave(w)
  /\ UNCHANGED <<schedule, attempts, generation, receipts, inFlight,
                 lastFailure, sent>>

\* StaleOrderSyncClaimError: the fence refuses whatever the worker was about to
\* write, and the request ends with the order's current state.
RefusedAsStale(w) ==
  /\ pc[w] \in {"decide", "begun", "call"}
  /\ ~IsCurrent(w)
  /\ Leave(w)
  /\ UNCHANGED <<schedule, row, sent>>

\* The request dies or runs out of its deadline inside a transaction: the claim
\* stays behind until its lease expires.
Abandon(w) ==
  /\ pc[w] # "idle"
  /\ Leave(w)
  /\ UNCHANGED <<schedule, row, sent>>

\* Mutants: a new generation starts over, without the receipts or without the
\* checkpoint.
RetryWithout(o, kept, checkpoint) ==
  /\ generation[o] < MaxGeneration
  /\ CanRetry(order[o])
  /\ order' = [order EXCEPT ![o] = Retry(@)]
  /\ generation' = [generation EXCEPT ![o] = @ + 1]
  /\ attempts' = [attempts EXCEPT ![o] = 0]
  /\ receipts' = [receipts EXCEPT ![o] = kept]
  /\ inFlight' = [inFlight EXCEPT ![o] = checkpoint]
  /\ UNCHANGED <<claim, expired, schedule, lastAudit, lastFailure, worker, sent>>
RetryWithoutReceipts(o) == RetryWithout(o, {}, inFlight[o])
RetryWithoutCheckpoint(o) == RetryWithout(o, receipts[o], NoStep)

\* retry_order for a failed synchronization: the lifecycle goes back to SYNCING
\* and reset_order_sync_for_human_retry starts a new generation, keeping the
\* receipts and the checkpoint.
HumanRetry(o) ==
  /\ generation[o] < MaxGeneration
  /\ CanRetry(order[o])
  /\ order' = [order EXCEPT ![o] = Retry(@)]
  /\ generation' = [generation EXCEPT ![o] = @ + 1]
  /\ attempts' = [attempts EXCEPT ![o] = 0]
  /\ ReleaseClaim(o)
  /\ ScheduleNow(o)
  /\ Audit(o, "ORDER_RETRY_RESTORED")
  /\ UNCHANGED <<receipts, inFlight, lastFailure, worker, sent>>

\* Five minutes pass since the claim.
LeaseExpires(o) ==
  /\ claim[o] # NoToken
  /\ ~expired[o]
  /\ expired' = [expired EXCEPT ![o] = TRUE]
  /\ UNCHANGED <<schedule, order, claim, attempts, generation, receipts,
                 inFlight, lastFailure, lastAudit, worker, sent>>

\* The next attempt's time arrives, in the order of those times.
BecomesDue(o) ==
  /\ ~due[o]
  /\ \A p \in ahead[o] : due[p]
  /\ due' = [due EXCEPT ![o] = TRUE]
  /\ UNCHANGED <<ahead, row, worker, sent>>

\* Nothing is left to do for any order; requests find no work.
Settled ==
  /\ \A o \in Orders :
        \/ order[o].state \in {"COMPLETED", "FAILED_FINAL"}
        \/ order[o].state = "FAILED_RETRYABLE" /\ generation[o] = MaxGeneration
  /\ \A w \in Workers : pc[w] = "idle"
  /\ UNCHANGED vars

WorkerStep(w) ==
  \/ \E o \in Orders : Claim(w, o) \/ ExhaustLease(w, o)
  \/ ReadRow(w) \/ Begin(w) \/ CallProvider(w)
  \/ LookupSucceeds(w) \/ PersistReceipt(w)
  \/ StepFails(w) \/ ReceiptCollides(w)
  \/ Yield(w) \/ Complete(w) \/ RefusedAsStale(w) \/ Abandon(w)

Next ==
  \/ \E w \in Workers : WorkerStep(w)
  \/ \E o \in Orders : HumanRetry(o) \/ LeaseExpires(o) \/ BecomesDue(o)
  \/ Settled

Spec == Init /\ [][Next]_vars
------------------------------------------------------------------------------
Codes == FailureCodes \cup {NoCode}

TypeOK ==
  /\ order \in [Orders -> Order]
  /\ claim \in [Orders -> Tokens \cup {NoToken}]
  /\ expired \in [Orders -> BOOLEAN]
  /\ attempts \in [Orders -> 0..MaxAttempts]
  /\ generation \in [Orders -> 0..MaxGeneration]
  /\ due \in [Orders -> BOOLEAN]
  /\ ahead \in [Orders -> SUBSET Orders]
  /\ receipts \in [Orders -> SUBSET ReceiptSteps]
  /\ inFlight \in [Orders -> Steps \cup {NoStep}]
  /\ lastFailure \in [Orders -> Codes]
  /\ lastAudit \in [Orders -> AuditTypes]
  /\ pc \in [Workers -> {"idle", "read", "decide", "begun", "call"}]
  /\ job \in [Workers -> Orders \cup {NoOrder}]
  /\ token \in [Workers -> Tokens \cup {NoToken}]
  /\ view \in [Workers -> View]
  /\ lookedUp \in [Workers -> BOOLEAN]
  /\ step \in [Workers -> Steps \cup {NoStep}]
  /\ sent \in [Orders -> SUBSET ReceiptSteps]

\* Safety properties

\* Every provider write that was ever requested for an order is either
\* acknowledged by a durable receipt or named by the durable checkpoint, so
\* whoever takes the order next, after any crash, late answer, takeover or human
\* retry, repeats exactly that write and none is orphaned
\* (order_sync.py: the checkpoint committed before executor.execute; the
\* checkpoint kept by record_order_sync_failure and by human retry).
NoOrphanedWrite ==
  \A o \in Orders : sent[o] \subseteq receipts[o] \cup {inFlight[o]}

\* The providers are written in the fixed order: no write is requested, by a
\* live or an outrun worker, before the receipt it builds on is durable.
WritesFollowReceipts ==
  \A o \in Orders : \A s \in sent[o] : Predecessors[s] \subseteq receipts[o]

\* The worker that holds the live claim never runs into
\* OrderSyncStepPreconditionError or OrderSyncCompletionError, which the
\* coordinator does not catch: what it last read still is what the row says,
\* although it read the row outside the fence and after the claim.
LiveWorkerIsNeverRefused ==
  \A w \in Workers :
    LET o == job[w]
        s == NextStep(view[w], lookedUp[w])
    IN  /\ pc[w] = "decide" /\ IsCurrent(w) =>
             IF s = NoStep THEN HasAllReceipts(o)
             ELSE StepPreconditions(receipts[o], s) /\ MayReplace(inFlight[o], s)
        /\ pc[w] = "call" /\ IsCurrent(w) =>
             inFlight[o] = step[w] /\ StepPreconditions(receipts[o], step[w])

\* A row is never stranded: an order that is still approved or syncing is
\* claimed, or is waiting with attempts left, so that the claim query can
\* select it once time passes; an order that left synchronization holds no claim.
NoStrandedRow ==
  \A o \in Orders :
    /\ order[o].state = "SYNCING" => attempts[o] < MaxAttempts
    /\ order[o].state # "SYNCING" => claim[o] = NoToken

\* Mutual exclusion of the fence: of the requests that work on an order, at most
\* one may still write its row.
AtMostOneWriter ==
  \A v, w \in Workers :
    /\ pc[v] # "idle" /\ pc[w] # "idle"
    /\ job[v] = job[w]
    /\ IsCurrent(v) /\ IsCurrent(w)
    => v = w

\* Inductive strengthening (proved in OrderSyncProofs)

\* Receipts form a prefix of the provider order and the checkpoint, if any, is
\* the step right after it.
RowShape ==
  \A o \in Orders :
    /\ "HUBSPOT_COMPANY" \in receipts[o] => "ODOO_BRIDGE" \in receipts[o]
    /\ "HUBSPOT_DEAL" \in receipts[o] => "HUBSPOT_COMPANY" \in receipts[o]
    /\ "HUBSPOT_ASSOCIATION" \in receipts[o] => "HUBSPOT_DEAL" \in receipts[o]
    /\ inFlight[o] # NoStep =>
         StepPreconditions(receipts[o], inFlight[o]) /\ inFlight[o] \notin receipts[o]
    /\ order[o].state \in {"APPROVED", "SYNCING", "COMPLETED"} \cup FailureStates
    /\ order[o].state \in FailureStates => order[o].origin = "SYNCING"

\* Busy workers hold pairwise different tokens; whoever still holds the row's
\* token knows the receipts and the checkpoint it holds them for.
WorkerOK(w) ==
  /\ pc[w] = "idle" => job[w] = NoOrder
  /\ pc[w] # "idle" =>
       /\ job[w] \in Orders
       /\ token[w] # NoToken
       /\ \A v \in Workers \ {w} : token[v] # token[w]
       /\ \A o \in Orders : claim[o] = token[w] => o = job[w]
  /\ pc[w] \in {"begun", "call"} =>
       /\ step[w] # NoStep
       /\ step[w] \in receipts[job[w]] \cup {inFlight[job[w]], "ODOO_LOOKUP"}
  /\ pc[w] \in {"decide", "begun", "call"} /\ claim[job[w]] = token[w] =>
       view[w].receipts = receipts[job[w]]
  /\ pc[w] = "decide" /\ claim[job[w]] = token[w] =>
       (inFlight[job[w]] = "ODOO_BRIDGE" => view[w].inFlight = "ODOO_BRIDGE")
  /\ pc[w] \in {"begun", "call"} /\ claim[job[w]] = token[w] =>
       inFlight[job[w]] = step[w]

WorkerShape == \A w \in Workers : WorkerOK(w)

\* The inductive invariant behind the safety theorems.
IInv == TypeOK /\ RowShape /\ WorkerShape /\ NoStrandedRow /\ NoOrphanedWrite

\* Action properties

\* Once a bridge call may have created the sale order, no later claim goes back
\* to the preflight: the checkpoint leaves ODOO_BRIDGE only with the receipt.
BridgeIsResumed ==
  [][\A o \in Orders :
       inFlight[o] = "ODOO_BRIDGE" /\ inFlight'[o] # "ODOO_BRIDGE"
         => "ODOO_BRIDGE" \in receipts'[o]]_vars

\* Only losing a call or a lease costs an attempt, and only the operator gives
\* attempts back: within a generation the count never falls, and a row changes
\* hands without spending one only after a clean release or with nothing left
\* to ask a provider.
AttemptsAreSpent ==
  [][\A o \in Orders :
       /\ generation'[o] = generation[o] => attempts'[o] >= attempts[o]
       /\ /\ claim[o] # NoToken
          /\ claim'[o] \notin {NoToken, claim[o]}
          /\ ~HasAllReceipts(o)
          => attempts'[o] = attempts[o] + 1]_vars

\* Refinement

Contract == INSTANCE SyncContract WITH acked <- receipts

\* The workers, claims and retries together do what the contract promises:
\* acknowledgements come in order and only for a synchronizing order, none is
\* lost by a crash, a takeover or a retry, and completion needs them all.
ImplementsContract == Contract!Spec

\* Liveness

\* A crash that costs a claim; without a claim it is like a stale request.
Crash(w) == pc[w] # "idle" /\ IsCurrent(w) /\ Abandon(w)

\* The lease ends before the completion that is all that is left to do: the one
\* takeover that spends no attempt.
OutlivesLease(w) ==
  /\ pc[w] # "idle" /\ IsCurrent(w)
  /\ HasAllReceipts(job[w])
  /\ LeaseExpires(job[w])

\* The scheduler keeps sending execute-next requests, requests run, time passes
\* and step timeouts fire (weak fairness).  Crashes end at some time, and so do
\* completions that take longer than a lease.
Fairness ==
  /\ \A o \in Orders : WF_vars(LeaseExpires(o)) /\ WF_vars(BecomesDue(o))
  /\ \A w \in Workers :
       /\ WF_vars(\E o \in Orders : Claim(w, o) \/ ExhaustLease(w, o))
       /\ WF_vars(pc[w] # "idle" /\ WorkerStep(w))
  /\ <>[][~\E w \in Workers : Crash(w) \/ OutlivesLease(w)]_vars

FairSpec == Spec /\ Fairness

\* Every order in synchronization eventually completes or fails, unless budgets
\* cut requests short for ever: no crash, late answer or other order's retries
\* leave it in between (order_sync.py, execute_next_order_sync).  A preflight
\* that is repeated for ever and a completion that always outlasts its lease are
\* assumed away, here and in Fairness.
EveryOrderSettles ==
  <>[][~\E w \in Workers : Yield(w)]_vars => \A o \in Orders :
    order[o].state \in {"APPROVED", "SYNCING"}
      ~> order[o].state \in {"COMPLETED"} \cup FailureStates

\* No starvation in the claim queue: an order that may be claimed is claimed
\* even if other orders yield their claims again and again, because a yielded
\* row sorts behind every row that was already due
\* (order_sync_repository.py: ORDER BY next_attempt_at).
EveryEligibleRowIsClaimed ==
  \A o \in Orders : Eligible(o) ~> ~Eligible(o)
==============================================================================
