---------------------------- MODULE Notifications ----------------------------
(***************************************************************************)
(* Delivery of notifications (notifications/service.py, persistence/       *)
(* notification_repository.py and the n8n dispatch workflow).              *)
(*                                                                         *)
(* A business transaction inserts an intent.  Every minute a dispatcher (an*)
(* n8n execution) claims one intent under a lease, has the provider send   *)
(* it once, and reports the outcome under its claim token.  Nothing on this*)
(* path is retried by the dispatcher: whatever it does not report is left  *)
(* to the lease.                                                           *)
(*                                                                         *)
(* The time of a report is read when its transaction starts (now() in      *)
(* PostgreSQL), before it waits for the row lock, so a report is checked   *)
(* against a clock that may be behind: StartReport and Report are two      *)
(* steps.  The order in which due intents are claimed is left open.        *)
(***************************************************************************)
EXTENDS Naturals

CONSTANTS
  Notifications,   \* notification intents
  Dispatchers,     \* dispatch executions that may overlap
  MaxAttempts      \* provider calls per notification (3 in the code)

ASSUME AttemptsAssumption == MaxAttempts \in Nat \ {0}

NoToken == 0
Nothing == "NOTHING"

VARIABLES
  status,     \* of each intent; "NONE" before it is inserted
  attempts,   \* attempt_count
  claim,      \* claim_token
  expired,    \* claim_expires_at is over
  due         \* next_attempt_at is reached

VARIABLES
  pc,         \* where each dispatcher is
  job,        \* the notification it claimed
  token,      \* its claim token
  attempt,    \* attempt_number of its claim
  outcome,    \* what it has to report
  inTime      \* whether its report started before the lease was over

VARIABLES
  issued,     \* claim tokens issued so far: uuid4 never repeats
  called,     \* attempts for which the provider was called
  accepted    \* attempts for which the provider delivered the message

intent     == <<status, attempts, claim, expired, due>>
dispatcher == <<pc, job, token, attempt, outcome, inTime>>
provider   == <<called, accepted>>
vars       == <<intent, dispatcher, issued, provider>>

Settled == {"DELIVERED", "FAILED_FINAL"}

Attempts == 1..MaxAttempts

\* finalize_expired_last_attempts
Exhausted(n) ==
  status[n] = "CLAIMED" /\ attempts[n] = MaxAttempts /\ expired[n]

\* claim_one_eligible_notification
Eligible(n) ==
  /\ attempts[n] < MaxAttempts
  /\ \/ status[n] = "PENDING" /\ due[n]
     \/ status[n] = "CLAIMED" /\ expired[n]

\* Mutant: the token is not compared.
IsCurrentForAnyToken(d) == status[job[d]] = "CLAIMED" /\ inTime[d]

\* Mutant: only the clock is checked.
IsCurrentByClock(d) == inTime[d]

\* The check of record_notification_outcome.
IsCurrent(d) ==
  /\ status[job[d]] = "CLAIMED"
  /\ claim[job[d]] = token[d]
  /\ inTime[d]

\* Mutant: a failure is always tried again.
AlwaysPending(n) == "PENDING"

AfterFailure(n) == IF attempts[n] >= MaxAttempts THEN "FAILED_FINAL" ELSE "PENDING"

\* Mutant: taking over an expired claim is not a new attempt.
TakeoverForFree(n) == IF status[n] = "CLAIMED" THEN attempts[n] ELSE attempts[n] + 1

NextAttempt(n) == attempts[n] + 1

Leave(d) ==
  /\ pc' = [pc EXCEPT ![d] = "idle"]
  /\ job' = [job EXCEPT ![d] = Nothing]
  /\ token' = [token EXCEPT ![d] = NoToken]
  /\ attempt' = [attempt EXCEPT ![d] = 0]
  /\ outcome' = [outcome EXCEPT ![d] = Nothing]
  /\ inTime' = [inTime EXCEPT ![d] = FALSE]

\* The exhausted claims become FAILED_FINAL, and the picked intents (one or
\* none) are claimed under a new token.
FinalizeAndClaim(picked) ==
  /\ status' = [n \in Notifications |->
       IF Exhausted(n) THEN "FAILED_FINAL"
       ELSE IF n \in picked THEN "CLAIMED" ELSE status[n]]
  /\ claim' = [n \in Notifications |->
       IF Exhausted(n) THEN NoToken
       ELSE IF n \in picked THEN issued + 1 ELSE claim[n]]
  /\ expired' = [n \in Notifications |->
       IF Exhausted(n) \/ n \in picked THEN FALSE ELSE expired[n]]
  /\ attempts' = [n \in Notifications |->
       IF n \in picked THEN NextAttempt(n) ELSE attempts[n]]
  /\ UNCHANGED due
------------------------------------------------------------------------------
Init ==
  /\ status = [n \in Notifications |-> "NONE"]
  /\ attempts = [n \in Notifications |-> 0]
  /\ claim = [n \in Notifications |-> NoToken]
  /\ expired = [n \in Notifications |-> FALSE]
  /\ due = [n \in Notifications |-> FALSE]
  /\ pc = [d \in Dispatchers |-> "idle"]
  /\ job = [d \in Dispatchers |-> Nothing]
  /\ token = [d \in Dispatchers |-> NoToken]
  /\ attempt = [d \in Dispatchers |-> 0]
  /\ outcome = [d \in Dispatchers |-> Nothing]
  /\ inTime = [d \in Dispatchers |-> FALSE]
  /\ issued = 0
  /\ called = [n \in Notifications |-> {}]
  /\ accepted = [n \in Notifications |-> {}]

\* create_notification_intent, in the transaction of the business event.
CreateIntent(n) ==
  /\ status[n] = "NONE"
  /\ status' = [status EXCEPT ![n] = "PENDING"]
  /\ due' = [due EXCEPT ![n] = TRUE]
  /\ UNCHANGED <<attempts, claim, expired, dispatcher, issued, provider>>

\* claim_next_notification grants a claim.
Claim(d, n) ==
  /\ pc[d] = "idle"
  /\ Eligible(n)
  /\ FinalizeAndClaim({n})
  /\ issued' = issued + 1
  /\ pc' = [pc EXCEPT ![d] = "claimed"]
  /\ job' = [job EXCEPT ![d] = n]
  /\ token' = [token EXCEPT ![d] = issued + 1]
  /\ attempt' = [attempt EXCEPT ![d] = NextAttempt(n)]
  /\ UNCHANGED <<outcome, inTime, provider>>

\* claim_next_notification finds nothing to grant; exhausted claims are
\* finalized all the same.
NoWork(d) ==
  /\ pc[d] = "idle"
  /\ \A n \in Notifications : ~Eligible(n)
  /\ \E n \in Notifications : Exhausted(n)
  /\ FinalizeAndClaim({})
  /\ UNCHANGED <<dispatcher, issued, provider>>

\* One call of Slack or Gmail.  A call that fails may have delivered.
Call(d) ==
  LET n == job[d] IN
  /\ pc[d] = "claimed"
  /\ called' = [called EXCEPT ![n] = @ \cup {attempt[d]}]
  /\ \/ /\ outcome' = [outcome EXCEPT ![d] = "DELIVERED"]
        /\ accepted' = [accepted EXCEPT ![n] = @ \cup {attempt[d]}]
     \/ /\ outcome' = [outcome EXCEPT ![d] = "FAILED"]
        /\ \/ accepted' = [accepted EXCEPT ![n] = @ \cup {attempt[d]}]
           \/ UNCHANGED accepted
  /\ pc' = [pc EXCEPT ![d] = "called"]
  /\ UNCHANGED <<intent, job, token, attempt, inTime, issued>>

\* The transaction of the report starts and fixes its now().
StartReport(d) ==
  /\ pc[d] = "called"
  /\ pc' = [pc EXCEPT ![d] = "reporting"]
  /\ inTime' = [inTime EXCEPT ![d] = ~expired[job[d]]]
  /\ UNCHANGED <<intent, job, token, attempt, outcome, issued, provider>>

\* record_notification_outcome for the current claim.
Report(d) ==
  LET n == job[d] IN
  /\ pc[d] = "reporting"
  /\ IsCurrent(d)
  /\ status' = [status EXCEPT ![n] =
       IF outcome[d] = "DELIVERED" THEN "DELIVERED" ELSE AfterFailure(n)]
  /\ due' = [due EXCEPT ![n] = IF status'[n] = "PENDING" THEN FALSE ELSE @]
  /\ claim' = [claim EXCEPT ![n] = NoToken]
  /\ expired' = [expired EXCEPT ![n] = FALSE]
  /\ Leave(d)
  /\ UNCHANGED <<attempts, issued, provider>>

\* StaleNotificationClaimError
ReportStale(d) ==
  /\ pc[d] = "reporting"
  /\ ~IsCurrent(d)
  /\ Leave(d)
  /\ UNCHANGED <<intent, issued, provider>>

\* The claim response or the report is lost, or the dispatcher crashes.
Vanish(d) ==
  /\ pc[d] # "idle"
  /\ Leave(d)
  /\ UNCHANGED <<intent, issued, provider>>

\* The five minutes of a claim are over.
LeaseExpires(n) ==
  /\ status[n] = "CLAIMED"
  /\ ~expired[n]
  /\ expired' = [expired EXCEPT ![n] = TRUE]
  /\ UNCHANGED <<status, attempts, claim, due, dispatcher, issued, provider>>

\* The retry delay is over.
BecomesDue(n) ==
  /\ status[n] = "PENDING"
  /\ ~due[n]
  /\ due' = [due EXCEPT ![n] = TRUE]
  /\ UNCHANGED <<status, attempts, claim, expired, dispatcher, issued, provider>>

Dispatch(d) ==
  \/ \E n \in Notifications : Claim(d, n)
  \/ NoWork(d)
  \/ Call(d) \/ StartReport(d) \/ Report(d) \/ ReportStale(d)
  \/ Vanish(d)

Next ==
  \/ \E d \in Dispatchers : Dispatch(d)
  \/ \E n \in Notifications : CreateIntent(n) \/ LeaseExpires(n) \/ BecomesDue(n)

Spec == Init /\ [][Next]_vars
------------------------------------------------------------------------------
Places == {"idle", "claimed", "called", "reporting"}

TypeOK ==
  /\ status \in [Notifications -> {"NONE", "PENDING", "CLAIMED"} \cup Settled]
  /\ attempts \in [Notifications -> 0..MaxAttempts]
  /\ claim \in [Notifications -> Nat]
  /\ expired \in [Notifications -> BOOLEAN]
  /\ due \in [Notifications -> BOOLEAN]
  /\ pc \in [Dispatchers -> Places]
  /\ job \in [Dispatchers -> Notifications \cup {Nothing}]
  /\ token \in [Dispatchers -> Nat]
  /\ attempt \in [Dispatchers -> 0..MaxAttempts]
  /\ outcome \in [Dispatchers -> {"DELIVERED", "FAILED", Nothing}]
  /\ inTime \in [Dispatchers -> BOOLEAN]
  /\ issued \in Nat
  /\ called \in [Notifications -> SUBSET Attempts]
  /\ accepted \in [Notifications -> SUBSET Attempts]

\* The provider is called at most once for each attempt, and so at most
\* MaxAttempts times for a notification, whatever crashes, expires or comes
\* back late: nobody is about to make a call that was already made.
EachAttemptIsCalledOnce ==
  \A d \in Dispatchers :
    pc[d] = "claimed" =>
      /\ attempt[d] \notin called[job[d]]
      /\ \A e \in Dispatchers \ {d} :
            pc[e] = "claimed" /\ job[e] = job[d] => attempt[e] # attempt[d]

\* What is recorded is the outcome of the last attempt: a delivery the provider
\* made, or a failure of the last attempt there is (service.py, the token check;
\* a late report of an earlier attempt never settles the notification).
SettledByTheLastAttempt ==
  \A n \in Notifications :
    /\ status[n] = "DELIVERED" => attempts[n] \in accepted[n]
    /\ status[n] = "FAILED_FINAL" => attempts[n] = MaxAttempts

\* A dispatcher that reports the last attempt while its lease runs is never
\* refused as stale, whatever late reports of earlier attempts do to the row.
LiveReportIsRecorded ==
  \A d \in Dispatchers :
    /\ pc[d] = "reporting"
    /\ attempt[d] = attempts[job[d]]
    /\ ~expired[job[d]]
    /\ status[job[d]] # "FAILED_FINAL"
    => IsCurrent(d)

\* What is settled stays settled, and no attempt follows it.
SettledForGood ==
  [][\A n \in Notifications : status[n] \in Settled =>
        /\ status'[n] = status[n]
        /\ attempts'[n] = attempts[n]]_vars

\* The strengthening of the properties above that is inductive.
RowShape(n) ==
  /\ status[n] = "CLAIMED" <=> claim[n] # NoToken
  /\ claim[n] <= issued
  /\ expired[n] => status[n] = "CLAIMED"
  /\ accepted[n] \subseteq called[n]
  /\ called[n] \subseteq 1..attempts[n]

DispatcherShape(d) ==
  LET n == job[d] IN
  IF pc[d] = "idle" THEN outcome[d] = Nothing ELSE
    /\ n \in Notifications
    /\ token[d] \in 1..issued
    /\ attempt[d] \in 1..attempts[n]
    /\ token[d] = claim[n] <=> attempt[d] = attempts[n] /\ status[n] = "CLAIMED"
    /\ attempt[d] = attempts[n] => status[n] \in {"CLAIMED", "FAILED_FINAL"}
    /\ pc[d] = "claimed" => attempt[d] \notin called[n]
    /\ outcome[d] = "DELIVERED" => attempt[d] \in accepted[n]
    /\ pc[d] = "reporting" /\ token[d] = claim[n] /\ ~expired[n] => inTime[d]

AttemptsDiffer ==
  \A d, e \in Dispatchers :
    pc[d] # "idle" /\ pc[e] # "idle" /\ job[d] = job[e] /\ attempt[d] = attempt[e]
    => d = e

IInv ==
  /\ TypeOK
  /\ \A n \in Notifications : RowShape(n)
  /\ \A d \in Dispatchers : DispatcherShape(d)
  /\ AttemptsDiffer
  /\ SettledByTheLastAttempt
------------------------------------------------------------------------------
\* n8n starts an execution every minute and every execution ends; leases and
\* delays run out.
Fairness ==
  /\ WF_vars(\E d \in Dispatchers, n \in Notifications : Claim(d, n))
  /\ \A d \in Dispatchers :
        /\ WF_vars(NoWork(d))
        /\ WF_vars(Call(d) \/ StartReport(d) \/ Report(d) \/ ReportStale(d) \/ Vanish(d))
  /\ \A n \in Notifications : WF_vars(LeaseExpires(n)) /\ WF_vars(BecomesDue(n))

FairSpec == Spec /\ Fairness

\* Every intent is delivered or given up for good, none is forgotten in between
\* (docs: "a lost successful outcome may duplicate delivery", never lose it).
EveryIntentSettles ==
  \A n \in Notifications : status[n] = "PENDING" ~> status[n] \in Settled
==============================================================================
