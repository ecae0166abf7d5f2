SPECIFICATION Spec
CONSTANTS
  MaxWord = 7
  Consts = {1}
  BinOps = {}
  UnOps = {"NEG"}
  DivOps = {}
  ShiftOps = {}
  Alu <- MCAlu
  Un <- MCUn
  NLocals = 3
  Stale = {0}
  Funcs <- MCFuncsIface
  Arity <- MCArityIface
  Main = "main"
  Method <- MCMethod
  IntToString = "itoa"
  Stringer <- MCStringer
  TagLimit = 4
  Low = 3
  MemSize = 4
  MaxDepth = 3
  MaxFrames = 2
  Ops = {"CONST", "IFACE_BOX", "IFACE_CALL", "TOSTRING", "HEADER", "POINTER", "GLOBAL", "SYSCALL"}
  Junk = Junk
INVARIANTS
  MachineStackBalanced
  PendingIsOperand
PROPERTIES
  ImplementsIR
CHECK_DEADLOCK FALSE
