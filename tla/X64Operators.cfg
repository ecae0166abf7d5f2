SPECIFICATION Spec
CONSTANTS
  MaxWord = 2
  Consts = {1}
  BinOps = {"SUB", "DIV", "SHR"}
  UnOps = {"NEG"}
  DivOps = {"DIV"}
  ShiftOps = {"SHR"}
  Alu <- MCAlu
  Un <- MCUn
  NLocals = 1
  Stale = {0}
  Funcs <- MCFuncs
  Arity <- MCArity
  Main = "main"
  Method <- MCNone
  IntToString = "itoa"
  Stringer <- MCNone
  TagLimit = 4
  Low = 0
  MemSize = 2
  MaxDepth = 2
  MaxFrames = 2
  Ops = {"CONST", "LOCAL", "DUP", "JMP_IF", "SUB", "DIV", "SHR", "LOAD", "STORE", "LEN", "INDEX", "COMPOSITE", "CALL", "RETURN", "NEG", "DROP", "PANIC"}
  Junk = Junk
INVARIANTS
  TypeOK
PROPERTIES
  ImplementsIR
CHECK_DEADLOCK FALSE
