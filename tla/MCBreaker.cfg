SPECIFICATION FairSpec
CONSTANTS
  w1 = w1  w2 = w2  o1 = o1  o2 = o2  control = control
  Procs <- OneProc
  Workers <- TwoWorkers
  Home <- InProcess
  Operators <- TwoOperators
  Control = control
  Backoffs = {1, 3}
  MaxTime = 5
  MaxCalls = 3
INVARIANTS NoStepInTheWindow PauseAdmitsOneStep
PROPERTY BreakerResumes
CHECK_DEADLOCK FALSE
