SPECIFICATION AgentSpec
CONSTANTS
  w1 = w1  w2 = w2  run1 = run1  run2 = run2
  None = None  NoTree = NoTree  Seed = Seed  Wiped = Wiped
  Workers <- TwoWorkers
  Slots <- TwoRuns
  MaxTasks = 2
  MaxFence = 3
  LoseAt <- BeforeTheCheck
  Relaunch = FALSE
PROPERTIES UndisturbedWorkIsInTheTree OnlyTheOwnerSyncs
CHECK_DEADLOCK FALSE
