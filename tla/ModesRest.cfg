CONSTANTS
  a = a
  b = b
  x = x
  y = y
  Device = {a, b}
  Sha = {x, y}
  Mode = {420, 436}
  MaxChanges = 1
SPECIFICATION Spec
PROPERTY Rests
