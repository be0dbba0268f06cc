\* Three starts, one after the other, with good and bad configuration files.
SPECIFICATION Spec
CONSTANTS
  i1 = i1  i2 = i2  i3 = i3  ctl = ctl  egd = egd  tcp = tcp  k1 = k1  k2 = k2
  Instances = {i1, i2, i3}
  Confs <- Files
  Paths = {ctl, egd}
  Ports = {tcp}
  Devices = {k1, k2}
  Working = {k1}
  Serial = TRUE
  empty = empty
  none = none
INVARIANTS TypeOK Undisturbed PidFileTrue
PROPERTY RefusedRightly
CHECK_DEADLOCK FALSE
