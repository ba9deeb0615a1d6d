------------------------- MODULE EvaluationComparison -------------------------
(***************************************************************************)
(* The comparison of two published runs (evaluation/comparison.py): each   *)
(* result file is judged again from the observations it carries, and an    *)
(* optimization may be claimed only for two sound, passing, comparable     *)
(* runs.  Runs are made on one machine from one commit, so that platform,  *)
(* lock file, versions and model are equal; no pricing is configured.      *)
(***************************************************************************)
EXTENDS EvaluationRun

------------------------------------------------------------------------------
(* Is the evidence of a case complete?                                     *)

SideEffectsObserved(r) ==
    None \notin {r.orderSync.status, r.orderSync.count, r.objects.status, r.objects.count}

ReplayComplete(r) ==
    /\ r.replay # None /\ r.order # None
    /\ \A f \in DOMAIN r.replay : r.replay[f] # None
    /\ LogicalFacts(r.logical) # None
    /\ SideEffectsObserved(r)

InSync(c) == c.recovery # None /\ c.recovery.stage = "SYNCING"

RecoveryComplete(c, r) ==
    LET v == r.recovery
    IN  /\ v # None /\ c.recovery # None
        /\ None \notin {v.stage, v.code, v.failedState, v.origin, v.retryUsed,
                        v.finalState, v.receipts}
        /\ IF InSync(c)
           THEN /\ None \notin {v.genBefore, v.gen}
                /\ None \notin {r.external, r.eligible, v.preserved}
                /\ LogicalFacts(r.logical) # None
                /\ SideEffectsObserved(r)
           ELSE /\ None \notin {r.idempotent, r.state}
                /\ \/ v.preserved # None
                   \/ v.prior = <<>> /\ v.receipts = "NO_PRIOR_RECEIPTS"

ExecutionComplete(c, r) ==
    IF InSync(c) THEN RecoveryComplete(c, r)
    ELSE /\ None \notin {r.state, r.external, r.eligible}
         /\ LogicalFacts(r.logical) # None
         /\ SideEffectsObserved(r)

ValidationComplete(c, r) == c.expected = None \/ None \notin {r.route, r.state}

------------------------------------------------------------------------------
(* Does a case agree with its own evidence?  Each operator returns the     *)
(* names of the issues it finds.                                           *)

If(condition, issue) == IF condition THEN {<<issue>>} ELSE {}

ReplayIssues(c, r) ==
    IF r.replay = None THEN {}
    ELSE If(r.replay.stoodDown # (r.replay.callsBefore = r.replay.callsAfter),
            "replay_provider_work_flag")
         \cup If(c.replay # None /\ r.status # "ERROR" /\ ~ReplayComplete(r),
                 "replay_observations_incomplete")

\* What the receipt snapshots say of themselves.
DerivedReceipts(c, v) ==
    IF InSync(c)
    THEN LET status == SyncReceiptStatus(v.prior, v.atRetry, v.final)
         IN  [receipts |-> status, preserved |-> status = "PRESERVED"]
    ELSE ReceiptStatus(v.prior, v.final)

RecoveryIssues(c, r) ==
    LET v == r.recovery
    IN  IF v = None \/ c.recovery = None THEN {}
        ELSE If(~InSync(c) /\ v.atRetry # v.final, "recovery_receipt_snapshots")
             \cup If(v.receipts # DerivedReceipts(c, v).receipts, "recovery_receipt_status")
             \cup If(/\ v.preserved # None
                     /\ v.preserved # DerivedReceipts(c, v).preserved,
                     "recovery_receipt_flag")
             \cup If(r.status # "ERROR" /\ ~RecoveryComplete(c, r),
                     "recovery_observations_incomplete")

EligibilityIssues(c, r) ==
    If(/\ ~InSync(c) /\ None \notin {r.state, r.eligible}
       /\ r.eligible # (r.state \in {"APPROVED", "SYNCING", "COMPLETED"}),
       "execution_eligibility")

\* The scores that the observations call for.
ExpectedScores(c, r) ==
    [ validation  |-> IF ValidationComplete(c, r) THEN ScoreValidation(c, r) ELSE None,
      replay      |-> IF c.replay = None \/ ReplayComplete(r)
                      THEN ScoreReplay(c, r) ELSE None,
      reliability |-> IF c.recovery = None \/ RecoveryComplete(c, r)
                      THEN ScoreReliability(c, r) ELSE None,
      safety      |-> IF ExecutionComplete(c, r) THEN ScoreExecutionSafety(c, r) ELSE None ]

ScoreIssues(c, r) ==
    LET expected == ExpectedScores(c, r)
        required == [ validation |-> c.expected # None, replay |-> c.replay # None,
                      reliability |-> c.recovery # None, safety |-> TRUE ]
        failed   == \E s \in DOMAIN expected : expected[s] = FALSE
    IN  {<<s, "disagrees_with_observation">> :
            s \in {x \in DOMAIN expected : r.scores[x] # expected[x]}}
        \cup {<<s, "evidence_unavailable">> :
            s \in {x \in DOMAIN expected :
                      required[x] /\ expected[x] = None /\ r.status # "ERROR"}}
        \cup If(r.status = "PASS" /\ failed, "pass_case_has_failed_score")
        \cup If(r.status = "FAIL" /\ ~failed, "failed_case_has_no_failed_score")

LogicalIssues(r) ==
    LET l == r.logical
        f == LogicalFacts(l)
    IN  IF l = None THEN {}
        ELSE IF f = None THEN {<<"logical_object_observations_incomplete">>}
        ELSE If(<<l.extra, l.rerun, l.reached>> # <<f.extra, f.rerun, f.reached>>,
                "logical_object_flags")

CaseIssues(c, r) ==
    If(~ValidationComplete(c, r) /\ r.status # "ERROR", "validation_observations_incomplete")
    \cup If(~ExecutionComplete(c, r) /\ r.status # "ERROR",
            "execution_safety_observations_incomplete")
    \cup ReplayIssues(c, r) \cup RecoveryIssues(c, r) \cup EligibilityIssues(c, r)
    \cup ScoreIssues(c, r) \cup LogicalIssues(r)

\* _case_evidence_issues of a result file
EvidenceIssues(run) ==
    LET gates == ReleaseGates(Corpus, run.results)
    IN  If(~ValidRunResult(run), "result_contract")
        \cup If(run.mode = "provider_free"
              /\ \E n \in DOMAIN run.results : run.results[n].provider.name = "gemini",
           "provider_free_run_contains_live_evidence")
        \cup If(DOMAIN run.results # DOMAIN Corpus, "case_identities")
        \cup (UNION {CaseIssues(Corpus[n], run.results[n]) :
                        n \in DOMAIN run.results \cap DOMAIN Corpus})
        \cup If(gates # run.gates, "release_gates")
        \cup If(run.routing # RoutingMetrics(Corpus, run.results, gates), "routing_metrics")

\* _PROVIDER_FREE_SAMPLES and _LIVE_SAMPLES: what a complete corpus measures.
ExpectedSamples(m) ==
    LET count(S) == Cardinality(S)
        doubles  == {n \in DOMAIN Corpus : Corpus[n].replay # None}
        failing  == {n \in DOMAIN Corpus : FailsFirst(Corpus[n])}
    IN  [ intake   |-> IF m = "live_gemini" THEN 0
                       ELSE count(DOMAIN Corpus \ (doubles \cup failing)),
          replay   |-> 2 * count(doubles),
          recovery |-> 2 * count(failing) ]

TimingIssues(run) ==
    {<<stage, "incomplete_timing_population">> :
        stage \in {x \in DOMAIN run.samples : run.samples[x] # ExpectedSamples(run.mode)[x]}}

------------------------------------------------------------------------------
(* compare_runs and require_optimization_claim                             *)

\* Mutant: a run passes by its gates alone.
GatesPassed(run) == EvidenceIssues(run) = {} /\ AllPassed(run.gates)

CorrectnessPassed(run) ==
    /\ EvidenceIssues(run) = {}
    /\ AllPassed(run.gates)
    /\ \A n \in DOMAIN run.results : run.results[n].status = "PASS"

CorrectnessComparable(baseline, candidate) ==
    /\ EvidenceIssues(baseline) = {} /\ EvidenceIssues(candidate) = {}
    /\ baseline.mode = candidate.mode
    /\ DOMAIN baseline.results = DOMAIN candidate.results

LatencyComparable(baseline, candidate) ==
    /\ CorrectnessComparable(baseline, candidate)
    /\ TimingIssues(baseline) = {} /\ TimingIssues(candidate) = {}
    /\ baseline.samples = candidate.samples

Improved(baseline, candidate) ==
    candidate.samples.replay > 0 /\ candidate.p50 < baseline.p50

ClaimSupported(baseline, candidate) ==
    /\ Improved(baseline, candidate)
    /\ CorrectnessPassed(baseline) /\ CorrectnessPassed(candidate)
    /\ LatencyComparable(baseline, candidate)

------------------------------------------------------------------------------
(* Properties.                                                             *)

\* What a passing run may hide.  The runner compares no single step that the
\* retried synchronization took (runner.py:1795): an application that
\* completes the order having skipped some or all of the missing steps passes.
Unseen == {"skippedAll", "skippedOne"}

\* A retried synchronization starts where it failed (every case of
\* evals/corpus/v1/manifest.json with an approval and a recovery).
ResumesSync ==
    \A n \in DOMAIN Corpus :
        Corpus[n].recovery # None /\ Corpus[n].approval # None
            => Corpus[n].recovery.stage = "SYNCING"

\* A case expects the state its route stands for, and a redelivered document is
\* expected in review (every case of that manifest).
Telling ==
    \A n \in DOMAIN Corpus :
        /\ Corpus[n].expected # None => Corpus[n].expected.state = Corpus[n].expected.route
        /\ Corpus[n].replay # None =>
               Corpus[n].expected # None /\ Corpus[n].expected.state = "NEEDS_REVIEW"

\* At most one thing goes wrong in each case: of two in one case, the later one
\* may undo what the earlier one left to see.
OneFaultPerCase(faulty) == \A v, w \in faulty : v[1] = w[1] => v = w

\* Exit code 0 is earned: nothing that the application did wrong in this run,
\* in whatever cases and order, escaped both the scores and the five gates.
PassIsEarned ==
    exit = 0 /\ OneFaultPerCase(wrong) => {w[2] : w \in wrong} \subseteq Unseen

\* A result whose run ended with 0 stands up to its own evidence: the
\* comparison, judging the file again, finds nothing in it to doubt.  It does
\* doubt one that resumed no step at all, and the timings of every live run
\* (LiveRunIsComparable).
PassIsConsistent ==
    exit = 0 /\ (\A w \in wrong : w[2] # "skippedAll")
        => /\ EvidenceIssues(report) = {}
           /\ mode = "provider_free" => TimingIssues(report) = {}

\* Whatever the application does, the result of a finished run, put together by
\* dozens of unchecked updates, keeps its own contract: its validation at the
\* end never fails after the (paid) calls were made.
EveryRunCanBePublished == phase = "json" => ValidRunResult(report)

\* A complete live run in which nothing went wrong has the stage populations
\* that the comparison asks of it (comparison.py:44-57), so that two of them
\* can be compared.
LiveRunIsComparable ==
    exit = 0 /\ mode = "live_gemini" /\ wrong = {} => TimingIssues(report) = {}

\* An optimization claim never rests on a run in which the application did
\* wrong, whichever two result files are put side by side (a run that was
\* killed after its file was written is among them).
ClaimIsEarned ==
    \A i, j \in DOMAIN published :
        /\ ClaimSupported(published[i].report, published[j].report)
        /\ OneFaultPerCase(published[i].wrong) /\ OneFaultPerCase(published[j].wrong)
        => {w[2] : w \in published[i].wrong \cup published[j].wrong}
               \subseteq {"skippedOne", "providerDown"}

\* Application rows are deleted in the evaluation database only, also where
\* the evaluation URL names, or its server turns out to be, another one.
OnlyEvaluationDataIsWiped ==
    [][\A d \in wiped' \ wiped : d = Evaluation /\ d \notin {setup.normal, setup.migration}]_vars
==============================================================================
