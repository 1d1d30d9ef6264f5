SPECIFICATION Spec
CONSTANTS
  c1 = c1
  c2 = c2
  Clients = {c1, c2}
  MaxUpgrades = 1
  MaxCrashes = 1
  Impatient = FALSE
SYMMETRY ClientSymmetry
CHECK_DEADLOCK FALSE
INVARIANTS
  TypeOK
  OneServer
  ServingOwnsBoth
