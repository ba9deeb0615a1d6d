---------------------------- MODULE EvaluatedApp ----------------------------
(***************************************************************************)
(* The application as the benchmark meets it: for every call the runner    *)
(* makes, the right outcome and the wrong ones the benchmark is there to   *)
(* notice.  OrderSync, Intake, CaseData and Notifications model the real   *)
(* application; here it may be any broken version of itself, and `wrong`   *)
(* names what it did wrong ("none" for the right outcome).                 *)
(*                                                                         *)
(* A row is one order with what the runner reads of it: state, failure     *)
(* origin, the bag of issue facts, whether an audit event names the        *)
(* evaluator, who approved and who retried, the number of audit events,    *)
(* the notification-worthy transitions, the intents linked to one of them, *)
(* the intents linked to none, and the synchronization row.                *)
(***************************************************************************)
EXTENDS EvaluationScoring

Approver == "m11c-approver"
Retrier  == "m11c-retry-reviewer"
Intruder == "m11c-unauthorized-probe"

Bridge   == "ODOO_BRIDGE"
Lookup   == "ODOO_LOOKUP"
CrmSteps == <<"HUBSPOT_COMPANY", "HUBSPOT_DEAL", "HUBSPOT_ASSOCIATION">>

NewRow(state, origin, issues) ==
    [ state |-> state, origin |-> origin, issues |-> issues, bound |-> TRUE,
      approvers |-> {}, retrier |-> None, audit |-> 1,
      transitions |-> 1, linked |-> 1, stray |-> 0, sync |-> None ]

Queued(row) == [row EXCEPT !.sync = [gen |-> 0, receipt |-> <<>>]]

Announced(row) ==
    [row EXCEPT !.audit = @ + 1, !.transitions = @ + 1, !.linked = @ + 1]

Outcome(row, wrong) == [row |-> row, wrong |-> wrong]

OtherRoute(state) ==
    IF state = "NEEDS_REVIEW" THEN "READY_FOR_APPROVAL" ELSE "NEEDS_REVIEW"

\* Where a case without declared validation truth ends is not judged.
TruthState(c)  == IF c.expected = None THEN "READY_FOR_APPROVAL" ELSE c.expected.state
TruthIssues(c) == IF c.expected = None THEN <<>> ELSE c.expected.issues

FailsFirst(c) ==
    c.recovery # None /\ c.recovery.stage \in {"PROCESSING", "EXTRACTED"}

(***************************************************************************)
(* One intake that does the work: the order it leaves.  A right row is     *)
(* turned into the wrong ones by changing one thing about it.              *)
(***************************************************************************)
Spoiled(c, row) ==
    { Outcome([row EXCEPT !.state = "APPROVED", !.approvers = {"document"}], "executed"),
      Outcome([Queued(row) EXCEPT !.approvers = {"document"}], "queued"),
      Outcome([row EXCEPT !.linked = @ - 1], "unnoticed"),
      Outcome([row EXCEPT !.stray = @ + 1], "strayNotice") }
    \cup (IF c.expected = None THEN {}
          ELSE { Outcome([row EXCEPT !.state = OtherRoute(@)], "misrouted"),
                 Outcome([row EXCEPT !.issues = [code \in {"OTHER"} |-> 1] ++ @], "wrongIssues") })

RightRow(c) == NewRow(TruthState(c), None, TruthIssues(c))

FailedRow(c) == NewRow("FAILED_RETRYABLE", c.recovery.stage, <<>>)

\* The first intake of a case's message: the database holds nothing of it.
FirstIntake(c) ==
    IF FailsFirst(c)
    THEN { Outcome(FailedRow(c), "none"),
           Outcome(RightRow(c), "neverFailed"),
           Outcome([FailedRow(c) EXCEPT !.state = "FAILED_FINAL"], "failedForGood"),
           Outcome([FailedRow(c) EXCEPT !.origin = "SYNCING"], "wrongOrigin"),
           Outcome(Queued(FailedRow(c)), "queued"),
           Outcome([FailedRow(c) EXCEPT !.linked = 0], "unnoticed") }
    ELSE { Outcome(RightRow(c), "none"),
           Outcome([RightRow(c) EXCEPT !.bound = FALSE], "unbound") }
         \cup Spoiled(c, RightRow(c))

\* The intake after a human retry: it resumes the same order.
ResumedIntake(c, row) ==
    LET right == [Announced(row) EXCEPT !.state = TruthState(c), !.origin = None,
                                        !.issues = TruthIssues(c)]
    IN  { Outcome(right, "none"), Outcome(row, "notResumed") }
        \cup Spoiled(c, right)

\* A live provider call that fails leaves the order to be retried.
ProviderFailed == NewRow("FAILED_RETRYABLE", "PROCESSING", <<>>)

\* A redelivery of a settled message stands down; `calls` counts provider
\* work, `created` the orders it made.
ReplayedIntake(row) ==
    LET Replay(new, calls, created, wrong) ==
            [row |-> new, calls |-> calls, created |-> created, wrong |-> wrong]
    IN  { Replay(row, 0, 0, "none"),
          Replay(row, 1, 0, "reworked"),
          Replay(row, 0, 1, "duplicated"),
          Replay(Announced(row), 0, 0, "renotified"),
          Replay(Queued(row), 0, 0, "queued"),
          Replay([row EXCEPT !.state = OtherRoute(@)], 0, 0, "misrouted") }

(***************************************************************************)
(* Commands of operators.                                                  *)
(***************************************************************************)

\* A REVIEWER approves, or an APPROVER retries: it must be refused, and the
\* refusal must leave nothing behind.
Approved(row, actor) ==
    [Queued(Announced(row)) EXCEPT !.state = "APPROVED", !.approvers = @ \cup {actor}]

Unauthorized(row, granted) ==
    { [row |-> row, answer |-> "forbidden", wrong |-> "none"],
      [row |-> [row EXCEPT !.audit = @ + 1], answer |-> "forbidden",
       wrong |-> "traced"],
      [row |-> granted, answer |-> "forbidden", wrong |-> "refusedButDone"],
      [row |-> granted, answer |-> "granted", wrong |-> "granted"],
      [row |-> row, answer |-> "error", wrong |-> "probeBroke"] }

Approve(row) ==
    { Outcome(Approved(row, Approver), "none"),
      Outcome(Approved(row, "document"), "approvedByOther"),
      Outcome([Approved(row, Approver) EXCEPT !.sync = None], "noIntent"),
      Outcome([Approved(row, Approver) EXCEPT !.linked = @ - 1], "unnoticed") }

Retried(row, actor) ==
    [row EXCEPT !.state = row.origin, !.origin = None, !.retrier = actor,
                !.audit = @ + 1,
                !.sync = IF row.origin = "SYNCING" /\ row.sync # None
                         THEN [row.sync EXCEPT !.gen = @ + 1] ELSE row.sync]

Retry(row) ==
    { Outcome(Retried(row, Retrier), "none"),
      Outcome(Retried(row, "document"), "retriedByOther"),
      Outcome([Retried(row, Retrier) EXCEPT !.state = "RECEIVED"], "wrongResume") }
    \cup (IF row.sync = None THEN {}
          ELSE { Outcome([Retried(row, Retrier) EXCEPT !.sync.gen = row.sync.gen],
                         "sameGeneration"),
                 Outcome([Retried(row, Retrier) EXCEPT !.sync.receipt = <<>>],
                         "receiptLost") })

(***************************************************************************)
(* Synchronization, driven through the fenced steps with the double.       *)
(***************************************************************************)
Claimable(row) == row # None /\ row.sync # None /\ row.state \in {"APPROVED", "SYNCING"}

Bridged(row) ==
    { Outcome([row EXCEPT !.state = "SYNCING", !.sync.receipt = <<"r1">>], "none"),
      Outcome([row EXCEPT !.state = "SYNCING"], "receiptDropped") }

Exhausted(row) ==
    { Outcome([row EXCEPT !.state = "FAILED_RETRYABLE", !.origin = "SYNCING",
                          !.audit = @ + 1], "none"),
      Outcome([row EXCEPT !.state = "FAILED_RETRYABLE", !.origin = "EXTRACTED",
                          !.audit = @ + 1], "wrongOrigin"),
      Outcome(row, "notExhausted") }

\* The steps the application executes once the retry was granted, and the row.
Synchronized(row) ==
    LET done == [row EXCEPT !.state = "COMPLETED"]
        Work(new, steps, wrong) == [row |-> new, steps |-> steps, wrong |-> wrong]
        right == IF row.sync.receipt = <<>>
                 THEN <<Lookup, Bridge>> \o CrmSteps ELSE CrmSteps
    IN  { Work([done EXCEPT !.sync.receipt = IF @ = <<>> THEN <<"r1">> ELSE @],
               right, "none"),
          Work(done, <<Bridge>> \o CrmSteps, "reran"),
          Work([done EXCEPT !.sync.receipt = <<"r2">>], <<Bridge>> \o CrmSteps,
               "rebridged"),
          Work([row EXCEPT !.audit = @ + 1], right, "unfinished"),
          Work(done, <<>>, "skippedAll"),
          Work(done, Tail(CrmSteps), "skippedOne") }
=============================================================================
