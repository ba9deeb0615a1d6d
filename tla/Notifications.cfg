SPECIFICATION FairSpec
CONSTANTS
  Notifications = {n1, n2}
  Dispatchers = {d1, d2}
  MaxAttempts = 2
INVARIANTS EachAttemptIsCalledOnce SettledByTheLastAttempt LiveReportIsRecorded
PROPERTIES SettledForGood EveryIntentSettles
CHECK_DEADLOCK FALSE
