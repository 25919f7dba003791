SPECIFICATION FairSpec
CONSTANTS
  Count = 2
  MaxFrames = 3
  Skb = {s1, s2, s3, s4}
  NULL = NULL
INVARIANTS LossIsLeak QuietMeansDelivered
PROPERTIES RefinesFifo FrameArrives
CHECK_DEADLOCK FALSE
