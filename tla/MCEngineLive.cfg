SPECIFICATION LiveSpec
CONSTANTS
  w1 = w1  w2 = w2  c1 = c1  c2 = c2  run1 = run1
  None = None
  Workers <- TwoWorkers
  Clients <- OneClient
  Runs <- OneRun
  Flow <- ReviewFlow
  Ops = {"approve", "reject", "answer", "cancel"}
  RetryFrom = {}
  RerunFrom = {"DONE"}
  RerunAt <- Phase
  CrashAt <- WhileRunning
  Infra = FALSE
  Retention = TRUE
  MaxCalls = 2
  MaxFaults = 1
  MaxAnswers = 1
INVARIANT DoneMeansAllStepsDone
PROPERTY RunSettles
CHECK_DEADLOCK FALSE
