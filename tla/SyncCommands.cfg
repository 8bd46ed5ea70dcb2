\* One machine, every command and gc; the bucket may hold what others pushed.
SPECIFICATION SpecCommands
CONSTANTS
  x = x
  y = y
  z = z
  home = home
  me = a
  Blob = {x, y, z}
  Machine = {a, b}
  Bucket = {home}
  Tree <- ThreeKinds
  MaxHistory = 2
  MaxMerged = 2
  MaxLogKey = 2
SYMMETRY Blobs
INVARIANTS
  VersionsRecoverable
PROPERTIES
  ImplementsArchive
  NoSnapshotDropped
