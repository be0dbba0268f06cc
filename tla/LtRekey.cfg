\* Kills, losses, wrong master keys and overlapping processes.
SPECIFICATION FairSpec
CONSTANTS
  d1 = d1  d2 = d2  p1 = p1  p2 = p2
  Devices = {d1, d2}
  Procs = {p1, p2}
  Rings <- SomeRings
  Retries = 2
  Fresh = 3
  LinkCap <- Caps
  MaxFaults = 3
  DiskFull = FALSE
  Absent = Absent
  NULL = NULL
INVARIANTS TypeOK Saved NeverTorn
PROPERTIES OthersKept Recovers
CHECK_DEADLOCK FALSE
