\* Batches of three blocks, abandoned connections, ekeyd restarting.
SPECIFICATION FairLinuxSpec
CONSTANTS
  l1 = l1  l2 = l2  
  Clients = {l1, l2}
  Slots = {l1, l2}
  Scripts <- NoScripts
  BlockLen = 2
  MAX_ENTROPY = 6
  MaxAsk = 2
  Labels = 1
  Wrap = TRUE
  MayClose <- Nobody
  Pipelining = TRUE
  Blocks = 3
  READ = 2
  Retry = TRUE
  MaxFaults = 2
  NoConn = NoConn
INVARIANTS LinuxTypeOK Accounted
PROPERTY KernelFed
CHECK_DEADLOCK FALSE
