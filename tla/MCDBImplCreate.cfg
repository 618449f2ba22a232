SPECIFICATION Spec
CONSTANTS
  w1 = w1
  w2 = w2
  w3 = w3
  f1 = f1
  r1 = r1
  Writer <- Two
  Sync <- SyncOnes
  Forcing <- None
  Reader <- None
  MemLimit = 0
  MaxGroup = 2
  Trigger = 1
  Slowdown = 1
  Stop = 2
  Faults <- NoFaults
  MaxFaults = 0
  MaxOpens = 2
  Crashes <- BothCrashes
CHECK_DEADLOCK FALSE
INVARIANTS
  CreationRepeatable
