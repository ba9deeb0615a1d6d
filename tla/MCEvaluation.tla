----------------------------- MODULE MCEvaluation -----------------------------
(* Instances of EvaluationComparison for TLC: one case of each scenario.   *)
EXTENDS EvaluationComparison, TLC

Plain(category, tags, content, expected) ==
    [ category |-> category, tags |-> tags, content |-> content, expected |-> expected,
      approval |-> None, replay |-> None, recovery |-> None ]

Expected(state, level, issues, eligible) ==
    [ route |-> state, level |-> level, state |-> state, issues |-> issues,
      eligible |-> eligible ]

Recovery(stage, code, final) == [stage |-> stage, code |-> code, final |-> final]

MCCases == <<"invalid", "hostile", "double", "resume", "sync">>

MCCorpus ==
    [ invalid |-> Plain("DETERMINISTIC_VIOLATION", {}, "plain",
                        Expected("NEEDS_REVIEW", "STANDARD", "UNKNOWN_SKU" :> 1, FALSE)),
      hostile |-> Plain("SECURITY", {"prompt_injection"}, "marked", None),
      double  |-> [Plain("DUPLICATE", {}, "plain",
                         Expected("NEEDS_REVIEW", "STANDARD",
                                  "DOCUMENT_ALREADY_PROCESSED" :> 1, FALSE))
                   EXCEPT !.replay = [disposition |-> "REPLAYED_EXISTING",
                                      execution |-> "STANDING_DOWN"]],
      resume  |-> [Plain("RETRY_RECOVERY", {}, "plain",
                         Expected("READY_FOR_APPROVAL", "STANDARD", <<>>, FALSE))
                   EXCEPT !.recovery = Recovery("EXTRACTED", "BUSINESS_DATA_PROVIDER_ERROR",
                                                "READY_FOR_APPROVAL")],
      sync    |-> [Plain("RETRY_RECOVERY", {"approval"}, "plain",
                         Expected("READY_FOR_APPROVAL", "STANDARD", <<>>, TRUE))
                   EXCEPT !.approval = "APPROVER",
                          !.recovery = Recovery("SYNCING", "WORKER_LEASE_EXHAUSTED",
                                                "COMPLETED")] ]

Setup(key, local, target, normal, migration, connected, migrated) ==
    [ key |-> key, local |-> local, target |-> target, normal |-> normal,
      migration |-> migration, connected |-> connected, migrated |-> migrated ]

MCSetups ==
    { Setup(TRUE,  TRUE, Evaluation, "opsflow", "opsflow_test", Evaluation, TRUE),
      Setup(FALSE, TRUE, Evaluation, "opsflow", None, Evaluation, FALSE),
      Setup(TRUE,  TRUE, Evaluation, "opsflow", None, "opsflow", TRUE),
      Setup(TRUE,  TRUE, "opsflow", "opsflow", None, "opsflow", TRUE),
      Setup(TRUE,  TRUE, Evaluation, Evaluation, None, Evaluation, TRUE),
      Setup(TRUE,  TRUE, Evaluation, "opsflow", Evaluation, Evaluation, TRUE),
      Setup(TRUE,  FALSE, Evaluation, "opsflow", None, Evaluation, TRUE) }

\* The corpus says what the theorems about the verdict ask of it.
ASSUME CorpusIsTelling == ResumesSync /\ Telling
===============================================================================
