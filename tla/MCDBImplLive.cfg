SPECIFICATION FairSpec
CONSTANTS
  w1 = w1
  w2 = w2
  w3 = w3
  f1 = f1
  r1 = r1
  Writer <- TwoAndForce
  Sync <- SyncOnes
  Forcing <- ForceOnes
  Reader <- None
  MemLimit = 0
  MaxGroup = 2
  Trigger = 1
  Slowdown = 1
  Stop = 1
  Faults <- AllFaults
  MaxFaults = 1
  MaxOpens = 1
  Crashes <- BothCrashes
CHECK_DEADLOCK FALSE
PROPERTIES
  WritesReturn
  CloseReturns
