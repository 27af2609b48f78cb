CONSTANTS
  TxServiceMax = 3
  MaxNeeds = 3
SPECIFICATION CSSpec
INVARIANTS SectionsMasked
