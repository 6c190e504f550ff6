SPECIFICATION Spec
CONSTANTS
  w1 = w1
  w2 = w2
  a = a
  b = b
  Workers = {w1, w2}
  Names = {a, b}
  Old = {b}
  MaxBlocks = 2
  None = None
  Hole = Hole
INVARIANT AckedStays
CHECK_DEADLOCK FALSE
SYMMETRY WorkerSymmetry
