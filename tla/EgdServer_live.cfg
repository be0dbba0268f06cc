\* Request after request, with a second client that may vanish.
SPECIFICATION FairSpec
CONSTANTS
  c1 = c1  c2 = c2
  Clients = {c1, c2}
  Scripts <- Questions
  BlockLen = 2
  MAX_ENTROPY = 10
  MaxAsk = 4
  Labels = 1
  Wrap = TRUE
  MayClose <- Second
  Pipelining = FALSE
PROPERTY AllAnswered
