SPECIFICATION Spec
CONSTANTS
  Callers = {c1, c2, c3}
  c1 = c1
  c2 = c2
  c3 = c3
  Nobody = Nobody
  FailureThreshold = 2
  SuccessThreshold = 2
  Cooldown = 1
  MaxFailures = 4
  MaxResets = 1
SYMMETRY CallerSymmetry
INVARIANTS
  TypeOK
  NoLostTrip
  NoLostClose
  OpenHasDeadline
PROPERTIES
  FollowsDiagram
  CooldownNeverShortened
