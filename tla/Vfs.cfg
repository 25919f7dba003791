SPECIFICATION Spec
CONSTANTS
  NSlots = 2
  NDesc = 2
  NInodes = 4
  MaxPos = 0
  Paths <- MCPaths
  DevPaths <- MCDevPaths
  FsNames <- MCFsNames
  Offsets <- MCOffsets
INVARIANTS RefCounts TreeSound
PROPERTY FailureLeavesNoTrace
CHECK_DEADLOCK FALSE
