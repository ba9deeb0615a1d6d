SPECIFICATION Spec
CONSTANTS
    None = None
    Cases <- MCCases
    Corpus <- MCCorpus
    Setups <- MCSetups
    Modes = {"provider_free", "live_gemini"}
    MaxRuns = 2
    MaxWrong = 1
INVARIANT PassIsConsistent
INVARIANT PassIsEarned
INVARIANT ClaimIsEarned
INVARIANT EveryRunCanBePublished
PROPERTY OnlyEvaluationDataIsWiped
CHECK_DEADLOCK FALSE
