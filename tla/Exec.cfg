SPECIFICATION Spec
CONSTANTS
  MaxFd = 5
  Chunk = 2
  PipeSize = 3
  Codes <- MCCodes
  SysFails = TRUE
  MaxWrites = 4
INVARIANTS
  TypeOK
  RedirectedAsAsked
  OutputComplete
  DescriptorsRestored
  NilMeansSuccess
PROPERTIES
  Returns
CHECK_DEADLOCK FALSE
