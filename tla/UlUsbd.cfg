\* Two clients in turn, a device that comes and goes, both modes.
SPECIFICATION FairSpec
CONSTANTS
  c1 = c1  c2 = c2
  Clients = {c1, c2}
  StreamMod = 3
  Chunk = 2
  SockCap = 2
  CmdCap = 1
  Modes <- BothModes
  NULL = NULL
INVARIANTS TypeOK Contiguous NeverDeaf
PROPERTIES Delivered LetIn VanishEnds
