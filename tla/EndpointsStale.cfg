SPECIFICATION Spec
CONSTANTS
  NumTunnels = 2
  MaxRestarts = 1
  LateURLs = {}
  MaxURLs = 3
  MaxCommands = 0
  StoreMayFail = FALSE
INVARIANTS
  EndpointIsCurrent
CHECK_DEADLOCK FALSE
