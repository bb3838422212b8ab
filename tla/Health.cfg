\* Two providers; a cooldown of three units checked every two.
SPECIFICATION Spec
CONSTANTS
  Provider = {p1, p2}
  UnhealthyThreshold = 2
  HealthyThreshold = 2
  Cooldown = 3
  CheckEvery = 2
  MaxTime = 10
  MaxReports = 4
INVARIANTS
  StatusAgreesWithBreaker
  ProbedOnTime
  BreakerFollowsReports
SYMMETRY Symmetry
