SPECIFICATION SpecEither
CONSTANTS
  w1 = w1  w2 = w2  c1 = c1  c2 = c2  run1 = run1
  None = None
  Workers <- TwoWorkers
  Clients <- OneClient
  Runs <- OneRun
  Flow <- RetryFlow
  Ops = {"approve", "cancel", "retry", "rerun"}
  RetryFrom = {"FAILED"}
  RerunFrom = {"DONE"}
  RerunAt <- Phase
  CrashAt <- WhileRunning
  Infra = FALSE
  Retention = FALSE
  MaxCalls = 3
  MaxFaults = 1
  MaxAnswers = 1
INVARIANT FailedMeansExhausted
PROPERTY RerunStopsAtItsGate
SYMMETRY Symmetry
CHECK_DEADLOCK FALSE
