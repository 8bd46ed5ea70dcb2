SPECIFICATION SpecSteady
CONSTANTS
  x = x
  y = y
  z = z
  home = home
  me = me
  Blob = {x, y}
  Machine = {a, b}
  Bucket = {home}
  Tree <- OneFile
  MaxHistory = 2
  MaxMerged = 9
  MaxLogKey = 4
PROPERTY Converges
CHECK_DEADLOCK FALSE
