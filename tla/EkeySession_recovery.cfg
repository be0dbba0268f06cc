\* Frames and commands are lost, and a wrong keyring is corrected.
SPECIFICATION FairSpec
CONSTANTS
  s1 = s1  s2 = s2  good = good  wrong = wrong
  Serials = {s1, s2}
  LTKeys = {good, wrong}
  NULL = NULL  BadMac = BadMac  Garbage = Garbage
  DevSerial = s1
  DevLTKey = good
  MaxSeq = 2
  NonceMod = 3
  LinkCap = 3
  CmdCap = 5
  MAX_PACKETS_BEFORE_RESET = 5
  MAX_REKEYS_BEFORE_RESET = 50
  Prompt = TRUE
  WrapNonces = TRUE
  InfoModes <- HealthInfo
  GoesBad = FALSE
  Configured <- Unset
  Keyrings <- GoodOrWrong
  OldKeys <- BusyDevice
  MaxFaults = 3
  MaxReloads = 1
  Damage = FALSE
  NonceResults <- AlwaysOk
  Unplugged = FALSE
INVARIANT NoFalseBadKey
PROPERTIES EntropyFlows CorrectedKeyAdopted
