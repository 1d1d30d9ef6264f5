SPECIFICATION Spec
CONSTANTS
  c1 = c1
  c2 = c2
  Clients = {c1, c2}
  MaxUpgrades = 0
  MaxCrashes = 0
  Impatient = FALSE
CHECK_DEADLOCK FALSE
INVARIANT CompatibleDaemonIsReused
