\* Two machines run watch; requests fail and processes die anywhere.
SPECIFICATION SpecWatch
CONSTANTS
  x = x
  y = y
  z = z
  home = home
  me = me
  Blob = {x, y}
  Machine = {a, b}
  Bucket = {home}
  Tree <- OneFile
  MaxHistory = 3
  MaxMerged = 3
  MaxLogKey = 3
SYMMETRY MachinesAndBlobs
INVARIANTS
  TypeOK
  HeadComplete
  NoDanglingParent
  HistoryKept
  LogHonest
