SPECIFICATION Spec
CONSTANTS
  w1 = w1  w2 = w2  c1 = c1  c2 = c2  run1 = run1
  None = None
  Workers <- TwoWorkers
  Clients <- TwoClients
  Runs <- OneRun
  Flow <- DesignFlow
  Ops = {"start", "approve", "reject", "answer", "cancel"}
  RetryFrom = {}
  RerunFrom = {"DONE"}
  RerunAt <- Phase
  CrashAt <- AllPCs
  Infra = TRUE
  Retention = FALSE
  MaxCalls = 4
  MaxFaults = 1
  MaxAnswers = 1
INVARIANTS AdvanceOnce SerialSteps EndedRunIsQuiet LoopBudget
PROPERTIES UsesTheQueue
SYMMETRY Symmetry
CHECK_DEADLOCK FALSE
