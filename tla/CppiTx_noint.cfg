CONSTANTS
  TxNumBuffers = 3
  MaxFrags = 2
  TxServiceMax = 2
  TxIntDisable = TRUE
  MaxSend = 4
SPECIFICATION Spec
INVARIANTS IInv
PROPERTIES ImplementsFifo
CHECK_DEADLOCK FALSE
