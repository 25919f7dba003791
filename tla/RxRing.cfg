CONSTANTS
  Count = 3
  MaxFrames = 6
SPECIFICATION Spec
INVARIANTS
  ReceivedInOrder
  StrandedHasCause
