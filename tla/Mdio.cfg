SPECIFICATION FairSpec
CONSTANTS
  ModeChoices <- MCModeChoices
  Partners <- MCPartners
  FIND_TO = 1
  RECK_TO = 1
  LINK_TO = 1
  NWST_TO = 1
  NWDN_TO = 1
  MDIX_TO = 1
  Crossed = {FALSE, TRUE}
  MaxEvents = 2
INVARIANTS Reported LinkedIsAgreed
PROPERTIES LossStopsQueue LinkComesUp
