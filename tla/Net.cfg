SPECIFICATION FairSpec
CONSTANTS
  HostNames <- MCHostNames
  AskedFirst <- MCAskedFirst
  AskedNext <- MCAskedNext
  Macs = {1, 2}
  DataSizes <- MCDataSizes
  NBlocks = 7
  MaxChanges = 2
  Base = 3
  Data <- MCData
INVARIANTS CacheTruth SentWhereTold MemoryAccounted FragmentsLose VerdictIsChecksum
PROPERTIES Resolved
CHECK_DEADLOCK FALSE
