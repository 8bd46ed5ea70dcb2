CONSTANTS
  dir = dir
  file = file
  Path = {file}
  Extension = {file}
  Inside <- Flat
  MaxEdits = 2
  MaxMoves = 2
  MaxPulls = 1
  MaxKills = 1
SPECIFICATION Spec
INVARIANTS TypeOK SavedKept
PROPERTIES StopsOnlyForEdits Settles
