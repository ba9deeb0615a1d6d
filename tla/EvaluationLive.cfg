SPECIFICATION Spec
CONSTANTS
    None = None
    Cases <- MCCases
    Corpus <- MCCorpus
    Setups <- MCSetups
    Modes = {"provider_free", "live_gemini"}
    MaxRuns = 1
    MaxWrong = 1
INVARIANT LiveRunIsComparable
CHECK_DEADLOCK FALSE
