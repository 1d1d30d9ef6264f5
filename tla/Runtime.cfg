SPECIFICATION Spec
CONSTANTS
  Services <- MCServices
  PortServices <- MCServices
  Repos = {"one", "fork", "two"}
  Roots = {"dir1", "dir2"}
  Branches = {"main", "dev"}
  Tags = {"v1"}
  Main = "main"
  Versions = {1, 2}
  Root <- MCRoot
  Requests <- MCRequests
  MaxCommands = 3
  MaxCrashes = 1
  MaxUserActs = 1
CHECK_DEADLOCK FALSE
INVARIANTS
  TypeOK
  NothingRunsUnmanaged
  CredentialsMatch
  LaunchedIsPinned
  
  
PROPERTIES
  UpFailsForCause
  ShellSurvives
  
  DownLeavesNothing
