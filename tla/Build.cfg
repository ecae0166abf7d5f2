SPECIFICATION Spec
CONSTANTS
  HostOS = "linux"
  HostArch = "amd64"
  Worlds <- MCWorlds
  Runnable <- MCRunnable
  MaxFrames = 6
INVARIANTS
  InitsInOrder
  OnlyUndefinedIsLost
  Linkable
  EveryTargetBuilds
  TempFilesRemoved
PROPERTIES
  Finishes
