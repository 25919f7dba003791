SPECIFICATION Spec
CONSTANTS
  NPages = 4
  MaxLive = 3
  PerPage = 3
  Blocks <- MCBlocks
INVARIANTS KfreeFinds
CHECK_DEADLOCK FALSE
