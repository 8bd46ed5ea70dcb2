\* A file of the folder is a copy of one of its manifests.
SPECIFICATION Spec
CONSTANTS
  x = x
  y = y
  z = z
  home = home
  me = a
  Blob <- FileAndCopy
  Machine = {a}
  Bucket = {home}
  Tree <- WithCopy
  MaxHistory = 2
  MaxMerged = 2
  MaxLogKey = 2
INVARIANT HeadUsable
