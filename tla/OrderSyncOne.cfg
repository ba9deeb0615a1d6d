SPECIFICATION Spec
CONSTANTS
  Orders = {o1}
  Workers = {w1, w2}
  Tokens = {t1, t2, t3}
  ProviderCodes <- MCProviderCodes
  MaxAttempts = 3
  MaxGeneration = 1
SYMMETRY Symmetry
INVARIANTS NoOrphanedWrite WritesFollowReceipts
  LiveWorkerIsNeverRefused NoStrandedRow AtMostOneWriter
PROPERTIES ImplementsContract BridgeIsResumed AttemptsAreSpent
