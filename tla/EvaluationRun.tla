---------------------------- MODULE EvaluationRun ----------------------------
(***************************************************************************)
(* One evaluation run (evaluation/commands.py and runner.py): the guarded  *)
(* reset of the evaluation database, the corpus cases one after the other, *)
(* each driven through its scenario against an application that may do     *)
(* wrong (EvaluatedApp), the verdict (EvaluationScoring), the published    *)
(* artifacts and the exit code.  Up to MaxRuns runs are made; the runs     *)
(* that were published are what EvaluationComparison compares.             *)
(*                                                                         *)
(* `wrong` is history: what the application did wrong in the current run,  *)
(* as <<case, what, step of the scenario>>.  MaxWrong bounds how much it   *)
(* does wrong in all runs together.                                        *)
(***************************************************************************)
EXTENDS EvaluatedApp, EvaluationModels

CONSTANTS Cases,        \* the case names in corpus order, a sequence
          Corpus,       \* the case of each name
          Modes,        \* "provider_free", "live_gemini"
          Setups,       \* database configurations the command may be started with
          MaxRuns, MaxWrong

ASSUME CorpusAssumption ==
    /\ Cases \in Seq(STRING) /\ Cases # <<>>
    /\ DOMAIN Corpus = Range1(Cases)
    /\ Cardinality(DOMAIN Corpus) = Len(Cases)
    /\ \A n \in DOMAIN Corpus : ValidCase(Corpus[n])
    /\ MaxRuns \in Nat \ {0} /\ MaxWrong \in Nat

\* What the runner writes into a result are strings (the provers do not know this
\* of a literal).
ASSUME TextsAreStrings ==
    {"EVALUATION_EXECUTION_ERROR", "NOT_RUN", "COMPLETED", "gemini", "r1", "r2",
     "REPLAYED_EXISTING", "STANDING_DOWN", "NO_PRIOR_RECEIPTS", "PRESERVED",
     Evaluator, Bridge, Lookup} \cup Range1(CrmSteps) \cup Range1(InjectedCode)
        \cup Domain!OrderStates \subseteq STRING

\* Missing evidence is told from evidence, and a missing synchronization from one.
ASSUME NoneIsNoEvidence ==
    /\ None \notin AuthorityEvidences /\ None \notin LogicalObjects
    /\ None \notin ReplayEvidences /\ None \notin RecoveryEvidences
    /\ None \notin [duplicates : Nat, extra : BOOLEAN, rerun : BOOLEAN, reached : BOOLEAN]
    /\ None \notin [gen : Nat, receipt : Seq(STRING)]

VARIABLES phase,        \* where the command is
          setup,        \* the databases, provider key and schema it was started with
          mode,
          wiped,        \* databases whose application rows were deleted
          rows,         \* the evaluation database: the order of each case, or None
          at,           \* index of the current case in Cases
          step,         \* where its scenario is
          seen,         \* what the scenario has observed so far
          results,      \* the finished cases: name -> result
          samples,      \* how often each intake stage was measured
          report,       \* the result under publication
          exit,         \* the process's exit code
          published,    \* the results on disk, oldest first, each with its `wrong`
          wrong, faults \* history; faults counts over all runs

command  == <<phase, setup, mode, wiped, report, exit, published>>
scenario == <<rows, at, step, seen, results, samples, wrong, faults>>
vars     == <<command, scenario>>

------------------------------------------------------------------------------
(* Evidence of one case.                                                   *)

Name == Cases[at]
Case == Corpus[Name]
Row  == rows[Name]

RouteForState(state) ==
    CASE state = "NEEDS_REVIEW" -> "NEEDS_REVIEW"
      [] state \in {"READY_FOR_APPROVAL", "APPROVED", "SYNCING"} -> "READY_FOR_APPROVAL"
      [] OTHER -> None

ApprovalLevel(row) ==
    IF RouteForState(row.state) = None THEN None
    ELSE IF "HIGH_VALUE_APPROVAL_REQUIRED" \in DOMAIN row.issues THEN "ELEVATED"
    ELSE "STANDARD"

\* LogicalObjectTracker.evidence
Objects(original, resulting, before, after) ==
    [ reached    |-> resulting # {} \/ before # <<>> \/ after # <<>>,
      original   |-> original, resulting |-> resulting,
      duplicates |-> Doubled(resulting),
      extra      |-> Doubled(resulting) > Doubled(original),
      rerun      |-> \E k \in DOMAIN after : after[k] \in Range1(before),
      before     |-> before, after |-> after ]

NoScores == [validation |-> None, reliability |-> None, replay |-> None, safety |-> None]

\* _error_result: an ERROR case carries a failure code (which one is left out)
\* and no observation.
ErrorResult(provider) ==
    [ status |-> "ERROR", code |-> "EVALUATION_EXECUTION_ERROR", route |-> None, level |-> None, state |-> None,
      order |-> None, issues |-> <<>>, idempotent |-> None, execution |-> None,
      external |-> None, eligible |-> None, logical |-> None, replay |-> None,
      recovery |-> None, authority |-> None, scores |-> NoScores,
      provider |-> provider,
      orderSync |-> [status |-> None, count |-> None],
      objects   |-> [status |-> None, count |-> None] ]

\* _result_from_intake: the result's execution boundary is a fresh tracker's;
\* eligibility comes from the durable state.
ResultFromIntake(c, row, order, idempotent, execution, provider) ==
    LET bare == [ErrorResult(provider) EXCEPT
                    !.status = "PASS", !.code = None,
                    !.route = RouteForState(row.state), !.level = ApprovalLevel(row),
                    !.state = row.state, !.order = order, !.issues = row.issues,
                    !.idempotent = idempotent, !.execution = execution,
                    !.external = "NOT_RUN",
                    !.eligible = row.state \in {"APPROVED", "SYNCING", "COMPLETED"},
                    !.logical = Objects({}, {}, <<>>, <<>>),
                    !.orderSync = NothingRun, !.objects = NothingRun]
        validation == ScoreValidation(c, bare)
        safety     == ScoreExecutionSafety(c, bare)
    IN  [bare EXCEPT
            !.status = IF FALSE \in {validation, safety} THEN "FAIL" ELSE "PASS",
            !.scores = [NoScores EXCEPT !.validation = validation, !.safety = safety]]

\* Mutant: every mismatch makes the case a FAIL.
AlwaysFails(r, scores) ==
    [r EXCEPT !.status = "FAIL",
              !.scores = [s \in DOMAIN @ |-> IF s \in scores THEN FALSE ELSE @[s]]]

\* _benchmark_failure: a mismatch the runner itself saw; ERROR stays ERROR.
BenchmarkFailure(r, scores) ==
    [r EXCEPT !.status = IF @ = "ERROR" THEN "ERROR" ELSE "FAIL",
              !.scores = [s \in DOMAIN @ |-> IF s \in scores THEN FALSE ELSE @[s]]]

\* _security_content_observation: applies, observed, probe
ContentObservation(c) ==
    LET tagged == "prompt_injection" \in c.tags
        marked == c.content = "marked"
    IN  IF tagged /\ ~marked THEN <<TRUE, FALSE, "ERROR">>
        ELSE <<marked, marked, IF marked THEN "PASS" ELSE "NOT_APPLICABLE">>

\* _notification_authority_observation: `order` is None when no order is known
NoticeObservation(order, row) ==
    IF order = None
    THEN [noticeProbe |-> "NOT_APPLICABLE", noticeSeen |-> TRUE,
          transitions |-> 0, intents |-> 0]
    ELSE [noticeProbe |-> IF row.stray = 0 /\ row.linked = row.transitions
                          THEN "PASS" ELSE "FAIL",
          noticeSeen  |-> TRUE, transitions |-> row.transitions,
          intents     |-> row.linked + row.stray]

\* _external_execution_authority_observation
ExternalObservation(r, row) ==
    LET reached == r.logical # None /\ r.logical.reached
        Seen(probe, intents, was, allowed) ==
            [externalProbe |-> probe, syncSeen |-> TRUE, syncIntents |-> intents,
             syncReached |-> was, authorized |-> allowed]
    IN  IF r.order = None
        THEN LET idle == r.logical # None /\ ~r.logical.reached
             IN  IF idle /\ r.external = "NOT_RUN"
                 THEN Seen("PASS", 0, FALSE, None)
                 ELSE Seen("ERROR", 0, ~idle, None)
        ELSE IF row.sync = None /\ ~reached /\ r.external = "NOT_RUN"
        THEN Seen("PASS", 0, FALSE, None)
        ELSE IF row.sync # None /\ Approver \in row.approvers
        THEN Seen("PASS", 1, reached, TRUE)
        ELSE Seen("FAIL", IF row.sync = None THEN 0 ELSE 1, reached, FALSE)

\* Mutant: the audit trail is not compared.
UnchangedState(before, after) == after.state = before.state

\* An authority probe: refused with nothing left behind.
Unchanged(before, after) ==
    /\ after.state = before.state
    /\ after.audit = before.audit

SameGeneration(before, after) ==
    (before.sync = None /\ after.sync = None)
    \/ (before.sync # None /\ after.sync # None /\ before.sync.gen = after.sync.gen)

ProbeVerdict(answer, unchanged) ==
    CASE answer = "error" -> "ERROR"
      [] answer = "forbidden" /\ unchanged -> "PASS"
      [] OTHER -> "FAIL"

Generation(row) == IF row.sync = None THEN None ELSE row.sync.gen

\* What _probe_unauthorized_retry returns.
RetryProbe(before, after, answer) ==
    LET unchanged == Unchanged(before, after) /\ SameGeneration(before, after)
    IN  [ retryProbe     |-> ProbeVerdict(answer, unchanged),
          genBefore      |-> Generation(before),
          genAfter       |-> IF answer = "error" THEN None ELSE Generation(after),
          retryUnchanged |-> IF answer = "error" THEN None ELSE unchanged ]

NoRetryProbe == [retryProbe |-> "NOT_APPLICABLE", genBefore |-> None,
                 genAfter |-> None, retryUnchanged |-> None]

\* The count at the end of _authority_evidence: None while evidence is missing.
FirstViolations(a) ==
    LET complete == /\ a.bound = TRUE /\ a.noticeSeen /\ a.syncSeen
                    /\ "ERROR" \notin Probes(a)
    IN  IF ~complete THEN None ELSE IF "FAIL" \in Probes(a) THEN 1 ELSE 0

\* _authority_violation_count, for evidence updated by a scenario
Violations(a) ==
    IF \/ None \in {a.bound, a.noticeSeen, a.syncSeen, a.syncReached,
                    a.contentApplies, a.contentSeen, a.contentIgnored}
       \/ a.source = None
       \/ None \in {a.transitions, a.intents, a.syncIntents}
       \/ Probes(a) \cap {None, "ERROR"} # {}
    THEN None
    ELSE IF \/ a.bound = FALSE
            \/ a.source # "EVALUATOR_CONFIGURATION"
            \/ "FAIL" \in Probes(a)
            \/ a.approvalProbe = "NOT_APPLICABLE" /\ a.approvalApplies # FALSE
            \/ a.retryProbe = "NOT_APPLICABLE" /\ a.retryApplies # FALSE
            \/ /\ a.noticeProbe = "NOT_APPLICABLE"
               /\ a.transitions # 0 \/ a.intents # 0
            \/ /\ a.externalProbe = "NOT_APPLICABLE"
               /\ a.syncIntents # 0 \/ a.syncReached # FALSE
            \/ a.contentApplies /\ ~(a.contentSeen /\ a.contentIgnored)
            \/ a.retryApplies = TRUE /\ a.retryUnchanged # TRUE
         THEN 1 ELSE 0

\* _authority_evidence of result `r` once the probes were made: `approval` is
\* the verdict of the approval probe, `retry` the record of the retry probe.
AuthorityEvidence(c, r, row, approval, retry) ==
    LET known   == r.order # None
        bound   == known /\ row.bound
        content == ContentObservation(c)
        roles   == (IF approval = "NOT_APPLICABLE" THEN {} ELSE {"REVIEWER"})
                   \cup (IF retry = NoRetryProbe THEN {} ELSE {"APPROVER"})
        applies(state) == r.state = state
        evidence ==
            [ bound |-> IF known THEN bound ELSE None,
              source |-> IF bound THEN "EVALUATOR_CONFIGURATION" ELSE "UNKNOWN",
              actor |-> IF bound THEN Evaluator ELSE None,
              roles |-> roles,
              approvalApplies |-> applies("READY_FOR_APPROVAL"),
              approvalProbe |-> approval,
              approvalSeen |-> IF applies("READY_FOR_APPROVAL") THEN FALSE ELSE None,
              retryApplies |-> applies("FAILED_RETRYABLE"),
              retrySeen |-> IF applies("FAILED_RETRYABLE") THEN FALSE ELSE None,
              contentApplies |-> content[1], contentSeen |-> content[2],
              contentProbe |-> content[3] ]
            ++ retry ++ NoticeObservation(r.order, row) ++ ExternalObservation(r, row)
        complete == /\ bound /\ "ERROR" \notin Probes(evidence)
        ignored  == complete /\ content[2] /\ "FAIL" \notin Probes(evidence)
        judged   == [evidence EXCEPT
                        !.contentProbe = IF ~content[1] THEN @
                                         ELSE IF ignored THEN "PASS"
                                         ELSE IF complete THEN "FAIL" ELSE "ERROR"]
    IN  judged ++ [contentIgnored |-> ignored, violations |-> FirstViolations(judged)]

------------------------------------------------------------------------------
(* One case after the other.                                               *)

Live(c) == mode = "live_gemini" /\ c.recovery = None

Intents(row) == row.linked + row.stray
Syncs(row)   == IF row.sync = None THEN 0 ELSE 1
Receipt(row) == IF row.sync = None THEN <<>> ELSE row.sync.receipt
ETag(row)    == <<row.state, row.origin, row.audit>>

\* What was measured of the provider; a replay that works again calls again.
Provider(calls, failed) ==
    IF calls = 0 THEN [name |-> None, calls |-> 0, failed |-> 0]
    ELSE IF Live(Case) THEN [name |-> "gemini", calls |-> calls, failed |-> failed]
    ELSE [name |-> "fake", calls |-> calls, failed |-> 0]

IntakeStage ==
    IF Case.replay # None THEN "replay"
    ELSE IF FailsFirst(Case) THEN "recovery" ELSE "intake"

Measured ==
    samples' = IF Live(Case) /\ IntakeStage # "replay" THEN samples
               ELSE [samples EXCEPT ![IntakeStage] = @ + 1]

Scenario ==
    CASE Case.recovery = None /\ Case.replay = None -> "plain"
      [] Case.recovery = None /\ Case.replay # None -> "duplicate"
      [] Case.recovery # None /\ Case.approval = None -> "recovery"
      [] Case.recovery # None /\ Case.approval # None -> "sync"

At(s) == phase = "cases" /\ step = s /\ UNCHANGED <<setup, mode, wiped, report, exit,
                                                   published>>

Happens(w) ==
    IF w = "none" THEN UNCHANGED <<wrong, faults>>
    ELSE /\ faults < MaxWrong
         /\ faults' = faults + 1
         /\ wrong' = wrong \cup {<<Name, w, step>>}

Stored(row) == rows' = [rows EXCEPT ![Name] = row]

Continue(s, news) ==
    /\ step' = s /\ seen' = news ++ seen
    /\ UNCHANGED <<phase, at, results>>

Finish(r) ==
    /\ results' = [n \in {Name} |-> r] ++ results
    /\ at' = at + 1 /\ step' = "intake" /\ seen' = <<>>
    /\ phase' = IF at = Len(Cases) THEN "judge" ELSE "cases"

\* The first intake of the case; a failed live call leaves a retryable order.
Intake ==
    /\ At("intake")
    /\ \E o \in FirstIntake(Case)
               \cup (IF Live(Case) THEN {Outcome(ProviderFailed, "providerDown")} ELSE {}) :
          /\ Happens(o.wrong)
          /\ Stored(o.row)
          /\ Continue("probe",
                [first |-> ResultFromIntake(Case, o.row, Name, FALSE, "COMPLETED",
                               Provider(1, IF o.wrong = "providerDown" THEN 1 ELSE 0))])
    /\ Measured

\* The intake raises a known error, before or after the provider was called:
\* the transaction left no order.  The provider of a recovery is its own, and
\* what it counted is lost.
IntakeRaises ==
    /\ At("intake")
    /\ Happens("raised")
    /\ \E calls \in {0, 1} :
       LET r == ErrorResult(Provider(calls, 0))
       IN  /\ Scenario = "recovery" => calls = 0
           /\ Finish(IF Scenario = "plain"
                     THEN [r EXCEPT !.authority =
                              AuthorityEvidence(Case, r, None, "NOT_APPLICABLE", NoRetryProbe)]
                     ELSE r)
    /\ Measured
    /\ UNCHANGED rows

\* The probes of one run_case, against the state that the intake left.
Probing(r, row) ==
    CASE r.state = "READY_FOR_APPROVAL" -> Unauthorized(row, Approved(row, Intruder))
      [] r.state = "FAILED_RETRYABLE" /\ row.state = r.state ->
             Unauthorized(row, Retried(row, Intruder))
      [] OTHER -> {[row |-> row, answer |-> "none", wrong |-> "none"]}

Probed(r, row, p) ==
    [r EXCEPT !.authority = AuthorityEvidence(Case, r, p.row,
        IF r.state = "READY_FOR_APPROVAL" THEN ProbeVerdict(p.answer, Unchanged(row, p.row))
        ELSE "NOT_APPLICABLE",
        IF r.state = "FAILED_RETRYABLE" THEN RetryProbe(row, p.row, p.answer)
        ELSE NoRetryProbe)]

Probe ==
    /\ At("probe")
    /\ \E p \in Probing(seen.first, Row) :
          /\ Happens(p.wrong)
          /\ Stored(p.row)
          /\ seen' = [seen EXCEPT !.first = Probed(@, Row, p)]
    /\ step' = [plain |-> "close", duplicate |-> "replay", recovery |-> "retry",
                sync |-> "approve"][Scenario]
    /\ UNCHANGED <<phase, at, results, samples>>

\* A plain case ends by delivering what notifications are pending.
Close ==
    /\ At("close")
    /\ Finish(seen.first)
    /\ UNCHANGED <<rows, samples, wrong, faults>>

------------------------------------------------------------------------------
(* run_duplicate_scenario: the same message again.  The result of the      *)
(* first intake is dropped; the case is judged by the replay.              *)

Replay ==
    /\ At("replay")
    /\ \E o \in ReplayedIntake(Row) :
          /\ Happens(o.wrong)
          /\ Stored(o.row)
          /\ Continue("close replay",
                [ second |-> ResultFromIntake(Case, o.row, Name, TRUE, "STANDING_DOWN",
                                              Provider(1 + o.calls, seen.first.provider.failed)),
                  before |-> Row, calls |-> o.calls, created |-> 1 + o.created ])
    /\ Measured

WithReplay(r, row) ==
    LET evidence ==
            [ disposition |-> "REPLAYED_EXISTING", execution |-> r.execution,
              seedOrder |-> seen.first.order, replayOrder |-> r.order,
              ordersCreated |-> seen.created,
              callsBefore |-> 1, callsAfter |-> 1 + seen.calls,
              intentsBefore |-> Intents(seen.before), intentsAfter |-> Intents(row),
              syncsBefore |-> Syncs(seen.before), syncsAfter |-> Syncs(row),
              objects |-> Cardinality(r.logical.resulting),
              stoodDown |-> seen.calls = 0 ]
        told  == [r EXCEPT !.replay = evidence]
        match == ScoreReplay(Case, told)
    IN  IF match = None THEN ErrorResult(r.provider)
        ELSE [told EXCEPT !.status = IF ~match /\ @ # "ERROR" THEN "FAIL" ELSE @,
                          !.scores.replay = match]

CloseReplay ==
    /\ At("close replay")
    /\ \E p \in Probing(seen.second, Row) :
          /\ Happens(p.wrong)
          /\ Stored(p.row)
          /\ Finish(WithReplay(Probed(seen.second, Row, p), p.row))
    /\ UNCHANGED samples

------------------------------------------------------------------------------
(* run_recovery_scenario: the intake fails, a human retries, the message   *)
(* comes again.                                                            *)

NotFailed ==
    /\ At("retry")
    /\ Row.state # "FAILED_RETRYABLE"
    /\ Finish(BenchmarkFailure(seen.first, {"reliability"}))
    /\ UNCHANGED <<rows, samples, wrong, faults>>

RetryFailed ==
    /\ At("retry")
    /\ Row.state = "FAILED_RETRYABLE"
    /\ \E o \in Retry(Row) :
          /\ Happens(o.wrong)
          /\ Stored(o.row)
          /\ Continue("resume",
                [ origin |-> Row.origin, prior |-> Receipt(Row),
                  retrier |-> o.row.retrier, retryState |-> o.row.state ])
    /\ UNCHANGED samples

Resume ==
    /\ At("resume")
    /\ \E o \in ResumedIntake(Case, Row) :
          /\ Happens(o.wrong)
          /\ Stored(o.row)
          /\ Continue("close recovery",
                [second |-> ResultFromIntake(Case, o.row, Name, TRUE, "COMPLETED",
                                             Provider(2, 0))])
    /\ Measured

\* The intake raises a known error: what it left is read all the same.
ResumeRaises ==
    /\ At("resume")
    /\ Happens("raised")
    /\ Continue("close recovery", [second |-> ErrorResult(Provider(1, 0))])
    /\ Measured
    /\ UNCHANGED rows

ReceiptStatus(prior, final) ==
    CASE prior = <<>> /\ final = <<>> -> [receipts |-> "NO_PRIOR_RECEIPTS", preserved |-> None]
      [] prior = <<>> /\ final # <<>> -> [receipts |-> "UNEXPECTED_RECEIPTS", preserved |-> FALSE]
      [] prior # <<>> /\ final = <<>> -> [receipts |-> "LOST", preserved |-> FALSE]
      [] prior # <<>> /\ final = prior -> [receipts |-> "PRESERVED", preserved |-> TRUE]
      [] OTHER -> [receipts |-> "REPLACED", preserved |-> FALSE]

\* The retry boundary was probed on the failed order, the others on the final.
MergedAuthority(a, first, row) ==
    LET merged == NoticeObservation(seen.first.order, row) ++
            [a EXCEPT !.roles = @ \cup first.roles \cup {"REVIEWER"},
                      !.retryApplies = first.retryApplies,
                      !.retryProbe = first.retryProbe,
                      !.retrySeen = seen.retrier = Retrier,
                      !.genBefore = first.genBefore, !.genAfter = first.genAfter,
                      !.retryUnchanged = first.retryUnchanged]
    IN  [merged EXCEPT !.violations = Violations(merged)]

\* Mutant: a reliable recovery makes the case pass.
ReliablePasses(r, match, scores) ==
    IF match THEN [r EXCEPT !.status = "PASS",
                            !.scores = [s \in DOMAIN @ |-> IF s \in scores THEN TRUE ELSE @[s]]]
    ELSE BenchmarkFailure(r, scores)

\* The verdict of a recovery scenario on top of what its intake was given.
Reliable(r, match, scores) ==
    IF match THEN [r EXCEPT !.scores = [s \in DOMAIN @ |-> IF s \in scores THEN TRUE ELSE @[s]]]
    ELSE BenchmarkFailure(r, scores)

WithRecovery(r, row) ==
    LET final    == Receipt(row)
        status   == ReceiptStatus(seen.prior, final)
        recovery ==
            [ stage |-> Case.recovery.stage, code |-> Case.recovery.code,
              failedState |-> "FAILED_RETRYABLE", origin |-> seen.origin,
              retryUsed |-> TRUE, genBefore |-> None, gen |-> None,
              finalState |-> row.state, prior |-> seen.prior, atRetry |-> final,
              final |-> final, resumed |-> <<>> ] ++ status
        match == /\ seen.origin = Case.recovery.stage
                 /\ seen.retryState = Case.recovery.stage
                 /\ row.state = Case.recovery.final
                 /\ status.receipts = (IF seen.prior = <<>> THEN "NO_PRIOR_RECEIPTS"
                                       ELSE "PRESERVED")
    IN  Reliable([r EXCEPT !.recovery = recovery,
                           !.authority = MergedAuthority(@, seen.first.authority, row)],
                 match, {"reliability"})

CloseRecovery ==
    /\ At("close recovery")
    /\ \E p \in Probing(seen.second, Row) :
          /\ Happens(p.wrong)
          /\ Stored(p.row)
          /\ Finish(WithRecovery(Probed(seen.second, Row, p), p.row))
    /\ UNCHANGED samples

------------------------------------------------------------------------------
(* run_approval_sync_scenario: approve, claim, stop after the bridge,      *)
(* exhaust the lease, probe, retry, synchronize.                           *)

\* A command refused where the scenario needs it raises: the case is an ERROR.
Raised == Finish(ErrorResult(seen.first.provider)) /\ UNCHANGED <<rows, wrong, faults>>

ApproveOrder ==
    /\ At("approve")
    /\ IF Row.state # "READY_FOR_APPROVAL" \/ Row.sync # None THEN Raised
       ELSE \E o \in Approve(Row) :
              Happens(o.wrong) /\ Stored(o.row) /\ Continue("claim", <<>>)
    /\ UNCHANGED samples

Claims == {n \in DOMAIN rows : Claimable(rows[n])}

\* The claim may return another order that became eligible: the fence then
\* refuses the step.  Otherwise the bridge runs and the worker stops.
ClaimAndBridge ==
    /\ At("claim")
    /\ \/ /\ Claims = {}
          /\ Finish(BenchmarkFailure(seen.first, {"reliability", "safety"}))
          /\ UNCHANGED <<rows, wrong, faults>>
       \/ Claims \ {Name} # {} /\ Raised
       \/ /\ Name \in Claims
          /\ \E o \in Bridged(Row) :
                /\ Happens(o.wrong) /\ Stored(o.row)
                /\ Continue("exhaust", [prior |-> Receipt(o.row), gen |-> Generation(o.row)])
    /\ UNCHANGED samples

\* The lease is forced to expire on its last attempt: the next claim settles it.
Exhaust ==
    /\ At("exhaust")
    /\ \/ /\ Claims \ {Name} # {}
          /\ Finish(BenchmarkFailure(seen.first, {"reliability"}))
          /\ UNCHANGED <<rows, wrong, faults>>
       \/ \E o \in Exhausted(Row) :
             /\ Happens(o.wrong) /\ Stored(o.row)
             /\ IF o.row.state # "FAILED_RETRYABLE"
                THEN Finish(BenchmarkFailure(seen.first, {"reliability"}))
                ELSE Continue("probe retry", [etag |-> ETag(o.row)])
    /\ UNCHANGED samples

ProbeRetry ==
    /\ At("probe retry")
    /\ \E p \in Unauthorized(Row, Retried(Row, Intruder)) :
          /\ Happens(p.wrong) /\ Stored(p.row)
          /\ Continue("retry sync", [probe |-> RetryProbe(Row, p.row, p.answer)])
    /\ UNCHANGED samples

\* A probe that left a trace changed the ETag: the retry is then refused.
RetrySync ==
    /\ At("retry sync")
    /\ IF seen.etag # ETag(Row) THEN Raised
       ELSE \E o \in Retry(Row) :
              /\ Happens(o.wrong) /\ Stored(o.row)
              /\ IF o.row.state # "SYNCING"
                 THEN Finish(BenchmarkFailure(seen.first, {"reliability"}))
                 ELSE Continue("execute", [retrier |-> o.row.retrier,
                                           atRetry |-> Receipt(o.row)])
    /\ UNCHANGED samples

SyncReceiptStatus(prior, atRetry, final) ==
    CASE prior = <<>> -> "NO_PRIOR_RECEIPTS"
      [] prior # <<>> /\ <<>> \in {atRetry, final} -> "LOST"
      [] prior # <<>> /\ atRetry = prior /\ final = prior -> "PRESERVED"
      [] OTHER -> "REPLACED"

\* The double's object for a step is a function of the order and customer.
ObjectsOf(steps) ==
    {[stable |-> s, id |-> s] : s \in Range1(steps) \ {Lookup}}

SyncAuthority(a, r, row) ==
    LET external == ExternalObservation(r, row)
        merged   == NoticeObservation(r.order, row) ++ external ++ seen.probe ++
            [a EXCEPT !.roles = @ \cup {Case.approval, "APPROVER", "REVIEWER"},
                      !.retryApplies = TRUE,
                      !.retrySeen = seen.retrier = Retrier,
                      !.approvalSeen = external.authorized]
    IN  [merged EXCEPT !.violations = Violations(merged)]

\* The verdict of the scenario: completion and eligibility are what the
\* scenario set out to do, the rest is read back from the database.
WithSync(r, row, completed, steps) ==
    LET before   == <<Lookup, Bridge>>
        original == ObjectsOf(before)
        logical  == Objects(original, original \cup ObjectsOf(steps), before, steps)
        final    == Receipt(row)
        receipts == SyncReceiptStatus(seen.prior, seen.atRetry, final)
        recovery ==
            [ stage |-> Case.recovery.stage, code |-> Case.recovery.code,
              failedState |-> "FAILED_RETRYABLE", origin |-> "SYNCING",
              retryUsed |-> TRUE, genBefore |-> seen.gen, gen |-> Generation(row),
              finalState |-> row.state, prior |-> seen.prior,
              atRetry |-> seen.atRetry, final |-> final, resumed |-> steps,
              receipts |-> receipts, preserved |-> receipts = "PRESERVED" ]
        ran   == [r EXCEPT !.external = "COMPLETED", !.logical = logical]
        match == /\ completed
                 /\ row.state = Case.recovery.final
                 /\ recovery.preserved
                 /\ seen.gen # None /\ Generation(row) = seen.gen + 1
                 /\ logical.duplicates = 0 /\ ~logical.extra /\ ~logical.rerun
    IN  Reliable([ran EXCEPT
                    !.eligible = TRUE, !.recovery = recovery,
                    !.authority = SyncAuthority(@, ran, row),
                    !.orderSync = [status |-> "COMPLETED", count |-> Len(before \o steps)],
                    !.objects = [status |-> "COMPLETED",
                                 count |-> Cardinality(logical.resulting)]],
                 match, {"reliability", "safety"})

\* execute_next_order_sync claims whatever order is eligible.
Synchronize ==
    /\ At("execute")
    /\ \/ \E o \in Synchronized(Row) :
             /\ Happens(o.wrong) /\ Stored(o.row)
             /\ Finish(WithSync(seen.first, o.row, o.row.state = "COMPLETED", o.steps))
       \/ \E n \in Claims \ {Name} :
             /\ rows' = [rows EXCEPT ![n].state = "COMPLETED"]
             /\ Finish(WithSync(seen.first, Row, TRUE, <<Lookup, Bridge>> \o CrmSteps))
             /\ UNCHANGED <<wrong, faults>>
    /\ UNCHANGED samples

\* What the provider of a broken case had counted: a recovery has a provider of
\* its own, a replay may have called once more, and a plain live case that finds
\* no order is not told what was measured.
OwnProvider ==
    LET first == seen.first.provider
    IN  IF Scenario = "recovery" THEN {Provider(0, 0)}
        ELSE IF step = "close replay" THEN {seen.second.provider}
        ELSE {first}
             \cup (IF step = "replay" THEN {Provider(2, first.failed)} ELSE {})
             \cup (IF step = "close" /\ Live(Case) THEN {Provider(0, 0)} ELSE {})

\* run_corpus: whatever else a scenario raises makes the case an ERROR.  An
\* intake that raises is timed too.
Breaks ==
    /\ phase = "cases" /\ step # "intake" /\ At(step)
    /\ Happens("broke")
    /\ \E provider \in OwnProvider : Finish(ErrorResult(provider))
    /\ UNCHANGED samples \/ (step \in {"replay", "resume"} /\ Measured)
    /\ UNCHANGED rows

------------------------------------------------------------------------------
(* The command around the cases.                                           *)

Evaluation == "opsflow_evaluation"

\* Mutant: only the name of the target is looked at.
IsolatedByName(s) == s.local /\ s.target = Evaluation

\* The name in the URL is the approved one, at the approved endpoint, and
\* neither the application's nor the migration tests' database.
Isolated(s) ==
    /\ s.local
    /\ s.target = Evaluation
    /\ s.target \notin {s.normal, s.migration}

Preflight(m, s) == m = "live_gemini" => s.key

End(code) == phase' = "ended" /\ exit' = code

Start(m, s) ==
    /\ phase \in {"idle", "ended"} /\ Len(published) < MaxRuns
    /\ mode' = m /\ setup' = s
    /\ report' = None
    /\ IF Preflight(m, s) /\ Isolated(s)
       THEN phase' = "reset" /\ exit' = None
       ELSE End(2)
    /\ at' = 1 /\ step' = "intake" /\ seen' = <<>> /\ results' = <<>> /\ wrong' = {}
    /\ samples' = [intake |-> 0, replay |-> 0, recovery |-> 0]
    /\ UNCHANGED <<wiped, published, rows, faults>>

\* reset_evaluation_application_data: the server says which database it is
\* before anything is deleted.
Reset ==
    /\ phase = "reset"
    /\ IF setup.connected = setup.target
       THEN /\ wiped' = wiped \cup {setup.connected}
            /\ rows' = [n \in DOMAIN Corpus |-> None]
            /\ phase' = "schema"
            /\ UNCHANGED exit
       ELSE End(2) /\ UNCHANGED <<wiped, rows>>
    /\ UNCHANGED <<setup, mode, report, published,
                   at, step, seen, results, samples, wrong, faults>>

\* confirm_current_migration_head
ConfirmSchema ==
    /\ phase = "schema"
    /\ IF setup.migrated THEN phase' = "cases" /\ UNCHANGED exit ELSE End(2)
    /\ UNCHANGED <<setup, mode, wiped, report, published, scenario>>

Total(field) ==
    LET calls == {n \in DOMAIN results : results[n].provider.name = "gemini"}
        sum[S \in SUBSET calls] ==
            IF S = {} THEN 0
            ELSE LET n == CHOOSE x \in S : TRUE
                 IN  results[n].provider[field] + sum[S \ {n}]
    IN  sum[calls]

\* The end of run_corpus: gates, rates and timings of the finished cases.
Judge ==
    /\ phase = "judge"
    /\ LET gates == ReleaseGates(Corpus, results)
       IN  \E p50 \in (IF samples.replay = 0 THEN {None} ELSE {1, 2}) :
             report' = [ mode |-> mode, results |-> results, gates |-> gates,
                         routing |-> RoutingMetrics(Corpus, results, gates),
                         samples |-> samples, p50 |-> p50,
                         calls |-> Total("calls"), failed |-> Total("failed") ]
    /\ phase' = "json"
    /\ UNCHANGED <<setup, mode, wiped, exit, published, scenario>>

\* The result was put together by updates that validate nothing; run_corpus
\* validates it when it is complete, and write_result_json once more.  The
\* command ends alike, so one check stands for both.  Then the file is replaced
\* at once: from here the result is on disk, whatever becomes of the process.
WriteJson ==
    /\ phase = "json"
    /\ IF ValidRunResult(report)
       THEN /\ published' = Append(published, [report |-> report, wrong |-> wrong])
            /\ phase' = "markdown"
            /\ UNCHANGED exit
       ELSE End(1) /\ UNCHANGED published
    /\ UNCHANGED <<setup, mode, wiped, report, scenario>>

\* write_markdown_from_json reads the file back.
WriteMarkdown ==
    /\ phase = "markdown"
    /\ phase' = "exit"
    /\ UNCHANGED <<setup, mode, wiped, report, exit, published, scenario>>

Successful(r) ==
    /\ DOMAIN r.results = DOMAIN Corpus
    /\ \A n \in DOMAIN r.results : r.results[n].status = "PASS"
    /\ AllPassed(r.gates)
    /\ IF r.mode = "provider_free" THEN r.calls = 0
       ELSE r.calls > 0 /\ r.failed = 0

Exit ==
    /\ phase = "exit"
    /\ End(IF Successful(report) THEN 0 ELSE 1)
    /\ UNCHANGED <<setup, mode, wiped, report, published, scenario>>

\* The process is killed between two steps of the command (SIGKILL).
Killed ==
    /\ phase \in {"reset", "schema", "judge", "json", "markdown", "exit"}
    /\ End(137)
    /\ UNCHANGED <<setup, mode, wiped, report, published, scenario>>

------------------------------------------------------------------------------
Init ==
    /\ phase = "idle" /\ setup = None /\ mode = None /\ wiped = {}
    /\ report = None /\ exit = None /\ published = <<>>
    /\ rows = [n \in DOMAIN Corpus |-> None]
    /\ at = 1 /\ step = "intake" /\ seen = <<>> /\ results = <<>>
    /\ samples = [intake |-> 0, replay |-> 0, recovery |-> 0]
    /\ wrong = {} /\ faults = 0

RunCase ==
    \/ Intake \/ IntakeRaises \/ Probe \/ Close
    \/ Replay \/ CloseReplay
    \/ NotFailed \/ RetryFailed \/ Resume \/ ResumeRaises \/ CloseRecovery
    \/ ApproveOrder \/ ClaimAndBridge \/ Exhaust \/ ProbeRetry
    \/ RetrySync \/ Synchronize \/ Breaks

Next ==
    \/ \E m \in Modes, s \in Setups : Start(m, s)
    \/ Reset \/ ConfirmSchema \/ RunCase
    \/ Judge \/ WriteJson \/ WriteMarkdown \/ Exit \/ Killed

Spec == Init /\ [][Next]_vars
==============================================================================
