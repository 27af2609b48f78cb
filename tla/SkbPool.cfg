SPECIFICATION Spec
CONSTANTS
  Buf = {b1, b2}
  Dyn = {d1, d2}
  Skb = {s1, s2, s3}
  NULL = NULL
SYMMETRY Symmetry
INVARIANTS MarkTellsPool SharersCounted PoolConserved
CHECK_DEADLOCK FALSE
