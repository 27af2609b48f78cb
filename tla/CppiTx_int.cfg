CONSTANTS
  TxNumBuffers = 3
  MaxFrags = 2
  TxServiceMax = 2
  TxIntDisable = FALSE
  MaxSend = 4
SPECIFICATION FairSpec
INVARIANTS NoHostError NoHiddenStall
PROPERTIES EveryPacketOnWire EveryPacketReturned
CHECK_DEADLOCK FALSE
