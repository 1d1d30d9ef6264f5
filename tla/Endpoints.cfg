SPECIFICATION FairSpec
CONSTANTS
  NumTunnels = 2
  MaxRestarts = 1
  LateURLs = {1, 3}
  MaxURLs = 3
  MaxCommands = 1
  StoreMayFail = TRUE
CHECK_DEADLOCK FALSE
INVARIANTS
  TypeOK
  DivergenceIsReported
  NoMissedRecovery
PROPERTIES
  RecoveryIsPublished
  DownIsLastToSave
  CommandsReturn
