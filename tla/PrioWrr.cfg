SPECIFICATION FairSpec
CONSTANTS
  Flow <- TwoFlows
  FlowPriority <- Plain
  FlowClass <- ByFilter
  MaxSeq = 2
  MaxRefusals = 1
  MaxTunes = 1
  Options <- TunedOptions
  tx_queue_len = 6
  MaxGrafts = 1
INVARIANTS QlenExact TunedAsShown
PROPERTIES FlowOrder StrictPriority BacklogServed
CHECK_DEADLOCK FALSE
