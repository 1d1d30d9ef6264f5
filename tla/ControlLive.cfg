SPECIFICATION FairSpec
CONSTANTS
  c1 = c1
  c2 = c2
  Clients = {c1, c2}
  MaxUpgrades = 0
  MaxCrashes = 1
  Impatient = TRUE
CHECK_DEADLOCK FALSE
INVARIANT RecoverableUnlessKilled
PROPERTY ClientsFinish
PROPERTY DownEndsDaemon
