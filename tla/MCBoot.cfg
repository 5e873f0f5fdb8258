SPECIFICATION FairSpec
CONSTANTS
  CmdLines <- SomeLines
  Fstab <- DataDisks
  BuiltIn = {"disk"}
  Deferred = {"net"}
  TstrSize = 255
  NoFile = NoFile
  HostFile <- Name
  HostSize = 100
  NameMax = 64
  MayFail <- Unreliable
  MaxRunning = 2
INVARIANTS
  TypeOK
  NothingHidden
  ApplicationsFindAllReady
  RunLevelSOnce
PROPERTIES
  InitIsReached
