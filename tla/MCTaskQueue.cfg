SPECIFICATION FairSpec
CONSTANTS
  w1 = w1  w2 = w2  w3 = w3  gate = gate  other = other
  None = None
  Workers <- ThreeWorkers
  Slots <- TwoSlots
  MaxTasks = 2
  MaxFence = 4
INVARIANT ExclusiveClaim
PROPERTIES StaleWorkerIsHarmless ImplementsLease QueuedIsServed
CHECK_DEADLOCK FALSE
