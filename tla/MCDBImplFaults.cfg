SPECIFICATION Spec
CONSTANTS
  w1 = w1
  w2 = w2
  w3 = w3
  f1 = f1
  r1 = r1
  Writer <- Three
  Sync <- SyncOnes
  Forcing <- None
  Reader <- OneReader
  MemLimit = 0
  MaxGroup = 2
  Trigger = 1
  Slowdown = 2
  Stop = 2
  Faults <- AllFaults
  MaxFaults = 1
  MaxOpens = 1
  Crashes <- ProcessCrash
CHECK_DEADLOCK FALSE
INVARIANTS
  ReadsSettled
  FilesKept
  CrashSafe
