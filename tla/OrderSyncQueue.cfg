SPECIFICATION FairSpec
CONSTANTS
  Orders = {o1, o2}
  Workers = {w1}
  Tokens = {t1, t2, t3}
  ProviderCodes = {"PROVIDER_UNAVAILABLE"}
  MaxAttempts = 2
  MaxGeneration = 0
PROPERTIES EveryOrderSettles EveryEligibleRowIsClaimed
