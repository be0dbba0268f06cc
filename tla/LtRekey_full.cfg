\* The disk is full when the keyring is written.
SPECIFICATION Spec
CONSTANTS
  d1 = d1  d2 = d2  p1 = p1  p2 = p2
  Devices = {d1, d2}
  Procs = {p1, p2}
  Rings <- SomeRings
  Retries = 2
  Fresh = 3
  LinkCap <- Caps
  MaxFaults = 1
  DiskFull = TRUE
  Absent = Absent
  NULL = NULL
INVARIANT Saved
CHECK_DEADLOCK FALSE
