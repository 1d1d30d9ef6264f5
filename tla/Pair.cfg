SPECIFICATION Spec
CONSTANTS
  Services <- PairServices
  Deps <- PairDeps
  MaxRestarts = 1
  MaxProcs = 5
  MaxCommands = 1
  StopMayFail = TRUE
INVARIANTS
  TypeOK
  OneLiveProcess
  NoOrphan
  OneSupervisor
  ActiveIsSupervised
  LaunchesWithinBudget
  StopsDependentsFirst
  DownStopsEverything
PROPERTIES
  StoppedStaysStopped
  ImplementsLifecycle
CHECK_DEADLOCK FALSE
