CONSTANTS
  dir = dir
  file = file
  Path = {file}
  Extension = {}
  Inside <- Flat
  MaxEdits = 2
  MaxMoves = 2
  MaxPulls = 0
  MaxKills = 1
SPECIFICATION Spec
INVARIANT ConflictsKeepBoth
