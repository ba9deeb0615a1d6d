------------------------------- MODULE Intake -------------------------------
(***************************************************************************)
(* Intake of one purchase-order document (application/orchestration.py,    *)
(* orchestration/claims.py, ownership.py, failures.py, and the part of     *)
(* application/orders.py and validation.py it runs).                       *)
(*                                                                         *)
(* A request is one delivery of the document under one idempotency key.    *)
(* Deliveries are repeated and overlap.  Each creates the order or replays *)
(* it, tries to claim the execution from the locked row and the audit      *)
(* history, and if it owns the execution works through processing,         *)
(* extraction and validation, fenced by a lease at every write.  Every     *)
(* action is one database transaction, or the work between two.            *)
(*                                                                         *)
(* Every audit event is stamped with the time its request ARRIVED plus a   *)
(* few microseconds (recorded_at), not with the time it is committed, and  *)
(* claims read the history in the order of the stamps.                     *)
(***************************************************************************)
EXTENDS IntakeHistory

CONSTANTS
  Requests,     \* deliveries under one idempotency key
  Contents,     \* what a delivery may carry (its request fingerprint)
  Budget,       \* execution budget of a request (180 s)
  Lease,        \* lease of a claim (210 s)
  MaxRetries    \* bound: human retries

ASSUME LeaseAssumption ==
  /\ Budget \in Nat \ {0}
  /\ Lease \in Nat \ {0}
  /\ Budget < Lease
ASSUME RetriesAssumption == MaxRetries \in Nat

NoBody  == "NO_BODY"
Nobody  == "NOBODY"

ASSUME NamesAssumption == Nobody \notin Requests

Late    == -1
Missing == [state |-> "MISSING", origin |-> NoOrigin]

VARIABLES
  order,       \* the aggregate, or Missing
  body,        \* fingerprint in the idempotency record
  log,         \* audit events in the order they were committed
  fence,       \* intake_claim_token: the request that holds it
  fenceLeft,   \* time until intake_claim_expires_at
  snapshot     \* whether the extraction snapshot exists

VARIABLES
  pc,          \* where each request is
  content,     \* what it carries
  arrived,     \* its rank among all arrivals (recorded_at)
  left,        \* what is left of its budget, or Late
  kind,        \* the claim it was granted
  answer       \* what its caller was told

VARIABLES
  clock,       \* arrivals so far, of requests and retries
  retries      \* human retries so far

row     == <<order, body, log, fence, fenceLeft, snapshot>>
request == <<pc, content, arrived, left, kind, answer>>
vars    == <<row, request, clock, retries>>

Working == {"work", "validate", "route"}
Running == {"create", "claim"} \cup Working

\* A request stamps its k-th event with its arrival plus k microseconds; two
\* arrivals are assumed further apart than the events of one request.
Gap == 8
Event(rank, k, type) == [type |-> type, at |-> Gap * rank + k]

\* _normalized_audit_event_types: the types in the order of the stamps.
Rank(events, i) == Cardinality({j \in DOMAIN events : events[j].at < events[i].at})

HistoryOf(events) ==
  [n \in DOMAIN events |->
     events[CHOOSE i \in DOMAIN events : Rank(events, i) = n - 1].type]

ProcessingKinds == {"INITIAL", "RESUME_PROCESSING", "RECOVER_PROCESSING"}

\* Mutant: a recovered processing goes straight to validation.
ProcessingKindsWithoutRecovery == {"INITIAL", "RESUME_PROCESSING"}

\* The kinds of claim whose execution starts from PROCESSING.
FromProcessing == ProcessingKinds

StageOf(claimed) == IF claimed \in FromProcessing THEN "PROCESSING" ELSE "EXTRACTED"

\* Mutant: the lease ends with the budget of its owner.
ShortLease == Budget

FullLease == Lease

HoldsFence(r) == fence = r /\ fenceLeft > 0

\* Mutant: a claim that another request still holds is recovered.
RecoverLive(state, history) ==
  IF Recoverable(state, history) /\ fence # Nobody
  THEN IF state = "PROCESSING" THEN "RECOVER_PROCESSING" ELSE "RECOVER_EXTRACTED"
  ELSE "STAND_DOWN"

\* _recover_stale_ownership, tried when the history grants no claim.
RecoverStale(state, history) ==
  IF Recoverable(state, history) /\ fence # Nobody /\ fenceLeft = 0
  THEN IF state = "PROCESSING" THEN "RECOVER_PROCESSING" ELSE "RECOVER_EXTRACTED"
  ELSE "STAND_DOWN"

ClaimKind(history) ==
  IF DecideClaimKind(order.state, history) = "STAND_DOWN"
  THEN RecoverStale(order.state, history)
  ELSE DecideClaimKind(order.state, history)

\* Whether a delivery that stands down is told when to come back
\* (retry_after_seconds).
RetryAfterKnown(history) ==
  Recoverable(order.state, history) /\ fence # Nobody /\ fenceLeft > 0

ClaimEvent ==
  [ INITIAL            |-> "ORDER_PROCESSING_STARTED",
    RESUME_PROCESSING  |-> "ORDER_PROCESSING_RESUMED",
    RESUME_EXTRACTED   |-> "ORDER_EXTRACTION_RESUMED",
    RECOVER_PROCESSING |-> "ORDER_PROCESSING_RECOVERED",
    RECOVER_EXTRACTED  |-> "ORDER_EXTRACTION_RECOVERED" ]

FailureEvent(origin) ==
  IF origin = "PROCESSING" THEN "ORDER_PROCESSING_FAILED" ELSE "ORDER_VALIDATION_FAILED"

\* Mutant: a delivery of anything is taken for a replay.
AnyContent(r) == TRUE

SameContent(r) == content[r] = body

Finish(r, told) ==
  /\ pc' = [pc EXCEPT ![r] = "done"]
  /\ answer' = [answer EXCEPT ![r] = told]
  /\ UNCHANGED <<content, arrived, left, kind>>

GoTo(r, place) ==
  /\ pc' = [pc EXCEPT ![r] = place]
  /\ UNCHANGED <<content, arrived, left, answer>>

ClearFence == fence' = Nobody /\ fenceLeft' = 0
------------------------------------------------------------------------------
Init ==
  /\ order = Missing /\ body = NoBody /\ log = <<>> /\ snapshot = FALSE
  /\ fence = Nobody /\ fenceLeft = 0
  /\ pc = [r \in Requests |-> "new"]
  /\ content \in [Requests -> Contents]
  /\ arrived = [r \in Requests |-> 0]
  /\ left = [r \in Requests |-> 0]
  /\ kind = [r \in Requests |-> "STAND_DOWN"]
  /\ answer = [r \in Requests |-> "none"]
  /\ clock = 0 /\ retries = 0

\* The endpoint takes the request's time and starts its budget.
Arrive(r) ==
  /\ pc[r] = "new"
  /\ clock' = clock + 1
  /\ arrived' = [arrived EXCEPT ![r] = clock + 1]
  /\ left' = [left EXCEPT ![r] = Budget]
  /\ pc' = [pc EXCEPT ![r] = "create"]
  /\ UNCHANGED <<row, content, kind, answer, retries>>

\* create_order_with_disposition: the key's primary key decides who creates.
CreateOrder(r) ==
  /\ pc[r] = "create"
  /\ order = Missing
  /\ order' = [state |-> "RECEIVED", origin |-> NoOrigin]
  /\ body' = content[r]
  /\ log' = Append(log, Event(arrived[r], 0, "ORDER_RECEIVED"))
  /\ GoTo(r, "claim")
  /\ UNCHANGED <<fence, fenceLeft, snapshot, kind, clock, retries>>

\* _resolve_idempotency_race: a replay, or a different request under the key.
ReplayOrder(r) ==
  /\ pc[r] = "create"
  /\ order # Missing
  /\ \/ SameContent(r) /\ GoTo(r, "claim") /\ UNCHANGED kind
     \/ ~SameContent(r) /\ Finish(r, "conflict")
  /\ UNCHANGED <<row, clock, retries>>

\* claim_intake_execution grants the execution.
Claim(r) ==
  LET granted == ClaimKind(HistoryOf(log)) IN
  /\ pc[r] = "claim"
  /\ granted # "STAND_DOWN"
  /\ order' = IF granted = "INITIAL" THEN TransitionTo(order, "PROCESSING") ELSE order
  /\ log' = Append(log, Event(arrived[r], 1, ClaimEvent[granted]))
  /\ fence' = r
  /\ fenceLeft' = FullLease
  /\ kind' = [kind EXCEPT ![r] = granted]
  /\ GoTo(r, "work")
  /\ UNCHANGED <<body, snapshot, clock, retries>>

\* claim_intake_execution stands down.
StandDown(r) ==
  LET history == HistoryOf(log) IN
  /\ pc[r] = "claim"
  /\ ClaimKind(history) = "STAND_DOWN"
  /\ Finish(r, IF RetryAfterKnown(history) THEN "come back" ELSE "stand down")
  /\ UNCHANGED <<row, clock, retries>>

\* The draft is there: _persist_extraction_completed, for a claim of the
\* processing stage.
CompleteExtraction(r) ==
  /\ pc[r] = "work"
  /\ \/ /\ kind[r] \in FromProcessing
        /\ order.state = "PROCESSING"
        /\ HoldsFence(r)
        /\ order' = TransitionTo(order, "EXTRACTED")
        /\ log' = Append(log, Event(arrived[r], 2, "ORDER_EXTRACTION_COMPLETED"))
     \/ /\ kind[r] \notin FromProcessing
        /\ UNCHANGED <<order, log>>
  /\ GoTo(r, "validate")
  /\ UNCHANGED <<body, fence, fenceLeft, snapshot, kind, clock, retries>>

\* validate_order up to the facts: an unlocked look at state and snapshot.
GatherFacts(r) ==
  /\ pc[r] = "validate"
  /\ order.state = "EXTRACTED" /\ ~snapshot
  /\ GoTo(r, "route")
  /\ UNCHANGED <<row, kind, clock, retries>>

\* validate_order under the lock, the facts being unchanged: the snapshot, the
\* two transitions, the three audit events.
Route(r) ==
  /\ pc[r] = "route"
  /\ HoldsFence(r)
  /\ order.state = "EXTRACTED" /\ ~snapshot
  /\ snapshot' = TRUE
  /\ \E target \in NormalTransitions["VALIDATED"] :
        /\ order' = TransitionTo(TransitionTo(order, "VALIDATED"), target)
        /\ log' = log \o
             << Event(arrived[r], 3, "EXTRACTION_SNAPSHOT_RECORDED"),
                Event(arrived[r], 4, "ORDER_VALIDATED"),
                Event(arrived[r], 5, IF target = "NEEDS_REVIEW" THEN "ORDER_NEEDS_REVIEW"
                                     ELSE "ORDER_READY_FOR_APPROVAL") >>
  /\ ClearFence
  /\ Finish(r, "completed")
  /\ UNCHANGED <<body, clock, retries>>

\* persist_orchestration_failure for a failure classified at the given stage.
PersistFailure(r, origin, k) ==
  /\ order.state = origin
  /\ HoldsFence(r)
  /\ \E target \in FailureStates : order' = TransitionTo(order, target)
  /\ log' = Append(log, Event(arrived[r], k, FailureEvent(origin)))
  /\ ClearFence
  /\ Finish(r, "completed")
  /\ UNCHANGED <<body, snapshot, clock, retries>>

\* Document processing or the extraction provider fails.
ExtractionFails(r) ==
  /\ pc[r] = "work"
  /\ PersistFailure(r, StageOf(kind[r]), 2)

\* Trusted data is unavailable or invalid, or the facts have changed.
ValidationFails(r) ==
  /\ pc[r] = "route"
  /\ PersistFailure(r, "EXTRACTED", 3)

\* A request that is no longer the owner gets nowhere; so does one that crashes
\* or answers with a draft of another document.
GiveUp(r) ==
  /\ pc[r] \in Running
  /\ Finish(r, "unavailable")
  /\ UNCHANGED <<row, clock, retries>>

\* retry_order for a failed intake.  The operator has seen the failure, so the
\* request arrives after it.
HumanRetry ==
  /\ retries < MaxRetries
  /\ CanRetry(order)
  /\ order' = Retry(order)
  /\ log' = log \o << Event(clock + 1, 0, "ORDER_RETRY_REQUESTED"),
                      Event(clock + 1, 1, "ORDER_RETRY_RESTORED") >>
  /\ clock' = clock + 1
  /\ retries' = retries + 1
  /\ UNCHANGED <<body, fence, fenceLeft, snapshot, request>>

CountDown(n) == IF n = 0 THEN 0 ELSE n - 1

\* A request that does not stop when its budget is over is late: it is stuck in
\* a blocking call and may wake up at any time.
RunDown(n) == IF n = Late THEN Late ELSE n - 1

\* Time passes.
Tick ==
  /\ fenceLeft' = CountDown(fenceLeft)
  /\ left' = [r \in Requests |-> IF pc[r] \in Running THEN RunDown(left[r]) ELSE 0]
  /\ UNCHANGED <<order, body, log, fence, snapshot, pc, content, arrived, kind, answer,
                 clock, retries>>

Next ==
  \/ \E r \in Requests :
        \/ Arrive(r) \/ CreateOrder(r) \/ ReplayOrder(r)
        \/ Claim(r) \/ StandDown(r)
        \/ CompleteExtraction(r) \/ ExtractionFails(r)
        \/ GatherFacts(r) \/ Route(r) \/ ValidationFails(r)
        \/ GiveUp(r)
  \/ HumanRetry
  \/ Tick

Spec == Init /\ [][Next]_vars
------------------------------------------------------------------------------
\* The events were committed in the order of their stamps.
InOrder == \A i, j \in DOMAIN log : i < j => log[i].at < log[j].at

InProgress == order.state \in {"PROCESSING", "EXTRACTED"}

\* Whatever redelivery comes next for an order in progress is served: while its
\* owner is live it is told when to come back, and once the owner is gone it is
\* granted the execution (claims.py, _recover_stale_ownership), as long as
\* nothing has been recorded out of order.
RedeliveryIsServed ==
  InProgress /\ InOrder =>
    IF fence # Nobody /\ fenceLeft > 0
    THEN ClaimKind(HistoryOf(log)) = "STAND_DOWN" /\ RetryAfterKnown(HistoryOf(log))
    ELSE ClaimKind(HistoryOf(log)) # "STAND_DOWN"

\* docs: "later identical delivery can recover only the known stale owner": once
\* the owner's lease has expired, an identical delivery recovers the order.
IdenticalDeliveryRecovers ==
  InProgress /\ fence # Nobody /\ fenceLeft = 0 =>
    ClaimKind(HistoryOf(log)) \in {"RECOVER_PROCESSING", "RECOVER_EXTRACTED"}

\* The request that holds the fence never runs into InvalidStateTransitionError,
\* OrderValidationStateError or a snapshot error, which the service does not
\* handle: the order is in the stage that its claim kind says.
LiveOwnerIsNeverRefused ==
  \A r \in Requests :
    HoldsFence(r) =>
      /\ pc[r] = "work" => order.state = StageOf(kind[r])
      /\ pc[r] \in {"validate", "route"} => order.state = "EXTRACTED" /\ ~snapshot

\* Requests that stop in time never work on the order at the same time: the
\* lease outlives every budget that could still be running.
OneExecution ==
  \A r, s \in Requests :
    /\ pc[r] \in Working /\ left[r] # Late
    /\ pc[s] \in Working /\ left[s] # Late
    => r = s

Occurrences(type) == Cardinality({i \in DOMAIN log : log[i].type = type})

\* A human retry authorizes one execution, however many deliveries of the
\* document are waiting for it or come back after a crash.
RetryGrantsOneExecution ==
  Occurrences("ORDER_PROCESSING_RESUMED") + Occurrences("ORDER_EXTRACTION_RESUMED")
    <= Occurrences("ORDER_RETRY_RESTORED")

\* A delivery of another document under the same key is never worked on.
ForeignContentIsNeverWorkedOn ==
  \A r \in Requests : pc[r] \in Working => content[r] = body

\* Nobody takes the fence from a request whose lease still runs, on a human
\* retry neither.
TakeoverOnlyAfterExpiry ==
  [][fence # Nobody /\ fence' \notin {fence, Nobody} => fenceLeft = 0]_vars
==============================================================================
