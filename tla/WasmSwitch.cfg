CONSTANTS
  Sources <- MCSources
  WasmNames = {"negative"}
  Programs <- MCPrograms
  ByteMod = 16
  BitAnd <- AndOf
  BitOr <- OrOf
  BitXor <- XorOf
  GlobalsBase = 300
  HeapBase = 400
  FrameBase = 2340
  FrameTop = 2400
SPECIFICATION Spec
INVARIANTS
  RepushIsDiscriminant
