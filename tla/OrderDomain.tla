----------------------------- MODULE OrderDomain -----------------------------
(***************************************************************************)
(* The order aggregate of domain/order.py as constant operators: the       *)
(* lifecycle states, the table of normal transitions, the failure origin   *)
(* that a failure records and the two ways the application moves an order: *)
(* a normal transition and the human Retry.  (Order.reopen has no caller.) *)
(*                                                                         *)
(* An order is the record [state, origin].  Business data (customer, lines,*)
(* prices) never decides a transition and is left out.                     *)
(***************************************************************************)

OrderStates == {"RECEIVED", "PROCESSING", "EXTRACTED", "VALIDATED",
                "NEEDS_REVIEW", "READY_FOR_APPROVAL", "APPROVED", "SYNCING",
                "COMPLETED", "REJECTED", "FAILED_RETRYABLE", "FAILED_FINAL"}

FailureStates == {"FAILED_RETRYABLE", "FAILED_FINAL"}

NoOrigin == "NO_ORIGIN"

\* The states a failure may be recorded from.
FailureOrigins == {"PROCESSING", "EXTRACTED", "SYNCING"}

NormalTransitions ==
  [ RECEIVED           |-> {"PROCESSING"},
    PROCESSING         |-> {"EXTRACTED"} \cup FailureStates,
    EXTRACTED          |-> {"VALIDATED"} \cup FailureStates,
    VALIDATED          |-> {"NEEDS_REVIEW", "READY_FOR_APPROVAL"},
    NEEDS_REVIEW       |-> {"VALIDATED", "REJECTED"},
    READY_FOR_APPROVAL |-> {"APPROVED", "REJECTED"},
    APPROVED           |-> {"SYNCING"},
    SYNCING            |-> {"COMPLETED"} \cup FailureStates,
    COMPLETED          |-> {},
    REJECTED           |-> {},
    FAILED_RETRYABLE   |-> {},
    FAILED_FINAL       |-> {} ]

\* The aggregates the constructor accepts: exactly the failed orders carry an
\* origin.
Order == [state : OrderStates \ FailureStates, origin : {NoOrigin}]
           \cup [state : FailureStates, origin : FailureOrigins]

CanTransition(order, target) == target \in NormalTransitions[order.state]

\* Order.transition_to, for a target CanTransition allows (it raises otherwise).
TransitionTo(order, target) ==
  [ state  |-> target,
    origin |-> IF target \in FailureStates THEN order.state ELSE NoOrigin ]

CanRetry(order) == order.state = "FAILED_RETRYABLE" /\ order.origin # NoOrigin

\* Order.retry, for an order CanRetry allows.
Retry(order) == [state |-> order.origin, origin |-> NoOrigin]
==============================================================================
