\* Two clients that pipeline, vanish and compete for the pool.
SPECIFICATION Spec
CONSTANTS
  c1 = c1  c2 = c2
  Clients = {c1, c2}
  Scripts <- MixedScripts
  BlockLen = 2
  MAX_ENTROPY = 12
  MaxAsk = 5
  Labels = 14
  Wrap = FALSE
  MayClose <- Second
  Pipelining = TRUE
INVARIANTS TypeOK PoolCounted NoByteTwice AnswersMatch WaitingIsJustified
CHECK_DEADLOCK FALSE
