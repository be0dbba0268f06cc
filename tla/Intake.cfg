SPECIFICATION Spec
CONSTANTS
  Cases <- AllCases
  BlockLen = 2
  PayloadLen = 8
  MAX_ENTROPY = 5
  MaxAsk = 3
  NULL = NULL
INVARIANTS TypeOK IntactFound Genuine
PROPERTY PoolIsFlat
CHECK_DEADLOCK FALSE
