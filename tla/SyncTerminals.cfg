\* A commit from another terminal while a cycle is under way.
SPECIFICATION SpecTerminals
CONSTANTS
  x = x
  y = y
  z = z
  home = home
  me = a
  Blob = {x, y, z}
  Machine = {a, b}
  Bucket = {home}
  Tree <- ThreeKinds
  MaxHistory = 3
  MaxMerged = 3
  MaxLogKey = 3
PROPERTY NoSnapshotDropped
CHECK_DEADLOCK FALSE
