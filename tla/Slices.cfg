SPECIFICATION Spec
SYMMETRY MCSymmetry
CONSTANTS
  x = x
  y = y
  Var = {x, y}
  Elem = {0, 1}
  Zero = 0
  InitCap = 1
  Kinds <- MCKinds
  MaxHeaders = 3
  MaxCap = 3
INVARIANTS
  TypeOK
  SlicesInArrays
PROPERTIES
  ImplementsGo
  AppendKeepsElements
CHECK_DEADLOCK FALSE
