SPECIFICATION Spec
CONSTANTS
  NPages = 4
  MaxLive = 3
  PerPage = 3
  Blocks <- MCBlocks
INVARIANTS HeapSound BlocksAccounted StrayNeedsRace
CHECK_DEADLOCK FALSE
