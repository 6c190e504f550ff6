SPECIFICATION Spec
CONSTANTS
  w1 = w1
  w2 = w2
  w3 = w3
  a = a
  b = b
  Workers = {w1, w2, w3}
  Names = {a, b}
  Old = {b}
  MaxBlocks = 2
  None = None
  Hole = Hole
INVARIANTS TypeOK AloneKeepsItsFile GoneByARival PartsExplained
PROPERTIES SettledUntouched
CHECK_DEADLOCK FALSE
SYMMETRY WorkerSymmetry
