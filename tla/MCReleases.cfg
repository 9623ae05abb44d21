SPECIFICATION Spec
CONSTANTS
  Workers = {w1, w2}
  Runs = {r1, r2, r3}
  Keep = 1
  Calm = TRUE
  MaxClock = 5
INVARIANTS TypeOK DiskBound GcKeepsNewest
CONSTRAINT Bounded
CHECK_DEADLOCK FALSE
