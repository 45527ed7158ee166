SPECIFICATION FFairSpec
CONSTANTS
  Callers = {c1, c2}
  c1 = c1
  c2 = c2
  Nobody = Nobody
  FailureThreshold = 2
  SuccessThreshold = 1
  Cooldown = 1
  MaxFailures = 2
  MaxResets = 0
INVARIANTS
  FallbackTypeOK
  DivertsOnlyAfterThreshold
  ResetClearsBoth
PROPERTIES
  ReturnsToPrimary
  EveryRequestReturns
