\* One machine that moves between two buckets and migrates; local files get lost.
SPECIFICATION SpecMigrating
CONSTANTS
  x = x
  y = y
  z = z
  home = home
  me = a
  Blob = {x, y}
  Machine = {a}
  Bucket = {home, away}
  Tree <- OneFile
  MaxHistory = 2
  MaxMerged = 2
  MaxLogKey = 2
SYMMETRY Blobs
INVARIANTS
  HeadUsable
  KnownManifestsThere
