\* Safety under loss, damage, reloads, failing nonces and unplugging.
SPECIFICATION Spec
CONSTANTS
  s1 = s1  s2 = s2  good = good  wrong = wrong
  Serials = {s1, s2}
  LTKeys = {good, wrong}
  MaxSeq = 1
  NonceMod = 4
  LinkCap = 2
  CmdCap = 2
  NULL = NULL  BadMac = BadMac  Garbage = Garbage
  MAX_PACKETS_BEFORE_RESET = 1
  MAX_REKEYS_BEFORE_RESET = 1
  DevSerial = s1
  DevLTKey = good
  Prompt = FALSE
  WrapNonces = FALSE
  InfoModes <- AnyInfo
  GoesBad = TRUE
  Configured <- AnySerial
  Keyrings <- AnyRing
  OldKeys <- BusyDevice
  MaxFaults = 1
  MaxReloads = 1
  Damage = TRUE
  NonceResults <- SomeFail
  Unplugged = TRUE
INVARIANTS TypeOK EntropyIntact KeyedMeansTrusted
PROPERTY EntropyInOrder
CHECK_DEADLOCK FALSE
