SPECIFICATION Spec
CONSTANTS
  CmdLines <- NoWords
  Fstab <- VarDisk
  BuiltIn = {"disk"}
  Deferred = {"net"}
  TstrSize = 255
  NoFile = NoFile
  HostFile <- Name
  HostSize = 100
  NameMax = 64
  MayFail = {}
  MaxRunning = 5
INVARIANTS
  ApplicationsFindAllReady
