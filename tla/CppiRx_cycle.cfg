CONSTANTS
  RxNumBuffers = 2
  MaxFrags = 1
  RxServiceMax = 1
  MaxNeeds = 1
  Buf = {b1, b2, b3, b4}
  Tagged = FALSE
  MaxPkt = 2
  MallocFails = FALSE
  Teardowns = {"full", "partial"}
  ClosingTraffic = FALSE
  MaxOpens = 3
SPECIFICATION FairSpec
INVARIANTS BuffersConserved OpenCanReceive
PROPERTIES TeardownCompletes EveryPacketServiced
CHECK_DEADLOCK FALSE
