SPECIFICATION FairSpec
CONSTANTS
  Count = 3
  MaxSends = 4
INVARIANTS WireIsAccepted
PROPERTIES AcceptedIsSent CardBufferStable
CHECK_DEADLOCK FALSE
