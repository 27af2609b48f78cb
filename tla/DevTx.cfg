SPECIFICATION FairSpec
CONSTANTS
  Skb <- MCSkb
  Unwanted <- MCUnwanted
  QueueLens = {0, 1}
  RingSize = 1
  MaxEvents = 3
INVARIANTS OneOwner
PROPERTY EverySkbGoesOut
CHECK_DEADLOCK FALSE
