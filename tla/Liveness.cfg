SPECIFICATION FairSpec
CONSTANTS
  Services <- PairServices
  Deps <- PairDeps
  MaxRestarts = 1
  MaxProcs = 3
  MaxCommands = 1
  StopMayFail = TRUE
PROPERTIES
  CommandsReturn
  ExitIsNoticed
  RecoverySettles
CHECK_DEADLOCK FALSE
