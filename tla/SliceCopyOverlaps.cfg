SPECIFICATION Spec
SYMMETRY MCSymmetry
CONSTANTS
  x = x
  y = y
  Var = {x, y}
  Elem = {0, 1}
  Zero = 0
  InitCap = 1
  Kinds <- MCOverlap
  MaxHeaders = 3
  MaxCap = 3
PROPERTIES
  CopyMovesAll
CHECK_DEADLOCK FALSE
