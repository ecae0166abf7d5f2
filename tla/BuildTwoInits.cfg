SPECIFICATION Spec
CONSTANTS
  HostOS = "linux"
  HostArch = "amd64"
  Worlds <- MCTwoInits
  Runnable <- MCRunnable
  MaxFrames = 6
INVARIANTS
  OnlyUndefinedIsLost
