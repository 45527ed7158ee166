SPECIFICATION Spec
CONSTANTS
  Callers = {c1, c2}
  c1 = c1
  c2 = c2
  Nobody = Nobody
  FailureThreshold = 1
  SuccessThreshold = 1
  Cooldown = 2
  MaxFailures = 3
  MaxResets = 0
PROPERTIES
  HalfOpenAfterCooldown
