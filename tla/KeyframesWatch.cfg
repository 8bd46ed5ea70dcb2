\* Two machines run watch; requests fail and processes die.
SPECIFICATION SteadySpec
CONSTANTS
  a = a
  b = b
  x = x
  y = y
  Machine = {a, b}
  Blob = {x, y}
  Tree <- TwoTrees
  MaxWalk = 2
  MaxHistory = 3
  MaxKills = 1
SYMMETRY Alike
INVARIANTS
  TypeOK
  BasesThere
  NoDeltaOnDelta
  KeyframesFull
CHECK_DEADLOCK FALSE
