CONSTANTS
  Skb = {s1, s2, s3}
  NULL = NULL
  MaxFrames = 4
SPECIFICATION FairSpec
INVARIANTS
  QueueSound
  LossNeedsRace
PROPERTIES
  TickHeals
  QueuedIsDelivered
  DeafnessEnds
  RefinesFifo
