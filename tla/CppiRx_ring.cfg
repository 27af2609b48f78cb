CONSTANTS
  RxNumBuffers = 3
  MaxFrags = 2
  RxServiceMax = 2
  MaxNeeds = 1
  Buf = {b1, b2, b3, b4}
  Tagged = TRUE
  MaxPkt = 4
  MallocFails = TRUE
  Teardowns = {}
  ClosingTraffic = FALSE
  MaxOpens = 1
SPECIFICATION Spec
INVARIANTS RcbsConserved QueueNeverEmpty BuffersIsolated BuffersConserved NoHostError
  NoHiddenStall DeliveredIntact
SYMMETRY BufSymmetry
CHECK_DEADLOCK FALSE
