SPECIFICATION Spec
CONSTANTS
  w1 = w1
  w2 = w2
  w3 = w3
  f1 = f1
  r1 = r1
  Writer <- All
  Sync <- SyncOnes
  Forcing <- ForceOnes
  Reader <- None
  MemLimit = 1
  MaxGroup = 2
  Trigger = 1
  Slowdown = 1
  Stop = 2
  Faults <- NoFaults
  MaxFaults = 0
  MaxOpens = 1
  Crashes <- BothCrashes
CHECK_DEADLOCK FALSE
PROPERTIES
  ForcesMemtable
