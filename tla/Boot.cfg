SPECIFICATION BootSpec
CONSTANTS
  Machines <- MCMachines
  MaxDepth = 3
INVARIANTS HandlersReady MasksNest FoundIsThere
CHECK_DEADLOCK FALSE
