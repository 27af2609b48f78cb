SPECIFICATION FairSpec
CONSTANTS
  RxRestarts = TRUE
  MaxTx = 2
INVARIANTS CleanDown NoStaleTasklet NoNestedIsr LineNotDead
PROPERTIES CloseReturns
CHECK_DEADLOCK FALSE
