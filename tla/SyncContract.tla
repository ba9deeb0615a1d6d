---------------------------- MODULE SyncContract ----------------------------
(***************************************************************************)
(* What synchronization promises for each approved order, without workers, *)
(* claims, leases, attempts or retry schedules: the provider confirmations *)
(* are acknowledged one by one in the fixed order and only while the order *)
(* is synchronizing, none is ever forgotten, and the order completes only  *)
(* when all of them are there.  It may fail at any time before that, for   *)
(* good or until an operator resumes it.                                   *)
(***************************************************************************)
EXTENDS OrderDomain

CONSTANTS Orders

VARIABLES
  order,   \* the aggregate [state, origin] of each order
  acked    \* the provider steps acknowledged for each order

vars == <<order, acked>>

\* What must have been acknowledged before a step.
Before ==
  [ ODOO_BRIDGE         |-> {},
    HUBSPOT_COMPANY     |-> {"ODOO_BRIDGE"},
    HUBSPOT_DEAL        |-> {"ODOO_BRIDGE", "HUBSPOT_COMPANY"},
    HUBSPOT_ASSOCIATION |-> {"ODOO_BRIDGE", "HUBSPOT_COMPANY", "HUBSPOT_DEAL"} ]

AllSteps == DOMAIN Before

Init ==
  /\ order = [o \in Orders |-> [state |-> "APPROVED", origin |-> NoOrigin]]
  /\ acked = [o \in Orders |-> {}]

Start(o) ==
  /\ order[o].state = "APPROVED"
  /\ order' = [order EXCEPT ![o] = TransitionTo(@, "SYNCING")]
  /\ UNCHANGED acked

Acknowledge(o, s) ==
  /\ order[o].state = "SYNCING"
  /\ acked[o] = Before[s]
  /\ acked' = [acked EXCEPT ![o] = @ \cup {s}]
  /\ UNCHANGED order

Fail(o) ==
  /\ order[o].state = "SYNCING"
  /\ \E failure \in FailureStates :
        order' = [order EXCEPT ![o] = TransitionTo(@, failure)]
  /\ UNCHANGED acked

Resume(o) ==
  /\ CanRetry(order[o])
  /\ order' = [order EXCEPT ![o] = Retry(@)]
  /\ UNCHANGED acked

Complete(o) ==
  /\ order[o].state = "SYNCING"
  /\ acked[o] = AllSteps
  /\ order' = [order EXCEPT ![o] = TransitionTo(@, "COMPLETED")]
  /\ UNCHANGED acked

Next ==
  \E o \in Orders :
    \/ Start(o) \/ Fail(o) \/ Resume(o) \/ Complete(o)
    \/ \E s \in AllSteps : Acknowledge(o, s)

Spec == Init /\ [][Next]_vars
==============================================================================
