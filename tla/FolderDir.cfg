CONSTANTS
  dir = dir
  file = file
  Path = {file, dir}
  Extension = {file}
  Inside <- Nested
  MaxEdits = 0
  MaxMoves = 1
  MaxPulls = 0
  MaxKills = 0
SPECIFICATION Spec
PROPERTY StopsOnlyForEdits
