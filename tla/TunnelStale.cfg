SPECIFICATION Spec
CONSTANTS
  Warmup = TRUE
  MaxProcs = 2
  MaxProbes = 3
CHECK_DEADLOCK FALSE
INVARIANT HealthyServesItsURL
