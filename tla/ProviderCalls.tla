---------------------------- MODULE ProviderCalls ----------------------------
(***************************************************************************)
(* The calls that synchronization of one order makes to its providers      *)
(* (order_sync/executor.py, application/order_sync.py), as the adapters    *)
(* see them.                                                               *)
(*                                                                         *)
(* OrderSync decides which step comes next and fences the receipts; here   *)
(* the latest call is the one whose claim is current.  A call may be       *)
(* outrun or given up at any time, and the request it sent to a provider   *)
(* lives on by itself.                                                     *)
(***************************************************************************)
EXTENDS Naturals, Sequences

CONSTANT MaxCalls   \* bound: calls

ASSUME MaxCallsAssumption == MaxCalls \in Nat \ {0}

Calls == 1..MaxCalls

StepOrder == <<"ODOO_BRIDGE", "HUBSPOT_COMPANY", "HUBSPOT_DEAL", "HUBSPOT_ASSOCIATION">>

VARIABLES
  receipts,   \* how many of the steps have their receipt
  begun,      \* calls begun so far
  step,       \* the step of each call
  pc,         \* where it is in the adapter
  exists,     \* it found that the provider has the order already
  request,    \* what it sent, while the provider has not dealt with it
  answer,     \* the provider's answer
  outcome     \* how the call ended

callVars == <<receipts, begun, step, pc, exists, request, answer, outcome>>

\* The first receipts may be there already.
CallInit ==
  /\ receipts \in 0..2
  /\ begun = 0
  /\ step = [c \in Calls |-> "none"]
  /\ pc = [c \in Calls |-> "not begun"]
  /\ exists = [c \in Calls |-> FALSE]
  /\ request = [c \in Calls |-> "none"]
  /\ answer = [c \in Calls |-> "none"]
  /\ outcome = [c \in Calls |-> "none"]

At(c, s, place) == step[c] = s /\ pc[c] = place

GoTo(c, place) == pc' = [pc EXCEPT ![c] = place]

\* The step executor routes the step; the call before may still be running.
BeginCall ==
  /\ begun < MaxCalls
  /\ receipts < Len(StepOrder)
  /\ begun' = begun + 1
  /\ step' = [step EXCEPT ![begun + 1] = StepOrder[receipts + 1]]
  /\ GoTo(begun + 1, "begun")
  /\ UNCHANGED <<receipts, exists, request, answer, outcome>>

\* The call ends; what it knew is gone.
End(c, result) ==
  /\ outcome' = [outcome EXCEPT ![c] = result]
  /\ GoTo(c, "ended")
  /\ exists' = [exists EXCEPT ![c] = FALSE]
  /\ answer' = [answer EXCEPT ![c] = "none"]

Send(c, kind) ==
  /\ request' = [request EXCEPT ![c] = kind]
  /\ GoTo(c, "waiting")

\* A provider deals with a request; the answer may find nobody waiting.
Reply(c, text) ==
  /\ request' = [request EXCEPT ![c] = "none"]
  /\ answer' = IF pc[c] = "waiting" /\ answer[c] = "none"
               THEN [answer EXCEPT ![c] = text] ELSE answer
  /\ UNCHANGED <<receipts, begun, step, pc, exists, outcome>>

\* The adapter reads the answer: a receipt, a failure, or one more question.
Confirms(c) == answer[c] = "receipt"

TakeAnswer(c, verify) ==
  /\ pc[c] = "waiting"
  /\ answer[c] # "none"
  /\ IF Confirms(c)
     THEN /\ GoTo(c, IF verify THEN "verifying" ELSE "confirmed")
          /\ answer' = [answer EXCEPT ![c] = "none"]
          /\ UNCHANGED <<exists, outcome>>
     ELSE End(c, answer[c])
  /\ UNCHANGED <<receipts, begun, step, request>>

OutcomeOfTimeout(c) == "PROVIDER_UNAVAILABLE"

\* A transport error, an outage, a timeout of the request or of the step.
GiveUp(c) ==
  /\ pc[c] \in {"begun", "identity", "partner", "products", "waiting", "verifying"}
  /\ IF OutcomeOfTimeout(c) = "receipt"
     THEN GoTo(c, "confirmed") /\ UNCHANGED <<exists, answer, outcome>>
     ELSE End(c, OutcomeOfTimeout(c))
  /\ UNCHANGED <<receipts, begun, step, request>>

\* The receipt is persisted if the claim is still current.
Persist(c) ==
  /\ pc[c] = "confirmed"
  /\ IF c = begun THEN receipts' = receipts + 1 /\ End(c, "receipt")
                  ELSE UNCHANGED receipts /\ End(c, "STALE")
  /\ UNCHANGED <<begun, step, request>>
==============================================================================
