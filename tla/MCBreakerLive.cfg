SPECIFICATION FairSpec
CONSTANTS
  Callers = {c1, c2}
  c1 = c1
  c2 = c2
  Nobody = Nobody
  FailureThreshold = 2
  SuccessThreshold = 2
  Cooldown = 2
  MaxFailures = 3
  MaxResets = 1
PROPERTIES
  Recovery
  EveryCallReturns
