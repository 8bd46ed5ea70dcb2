\* A folder that has only a part of the history moves to another bucket.
SPECIFICATION SpecMoving
CONSTANTS
  x = x
  y = y
  z = z
  home = home
  me = a
  Blob = {x, y}
  Machine = {a}
  Bucket = {home, away}
  Tree <- OneFile
  MaxHistory = 2
  MaxMerged = 2
  MaxLogKey = 2
INVARIANT HeadComplete
