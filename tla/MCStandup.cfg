SPECIFICATION Spec
CONSTANTS
  Stories = {s1}
  Runs = {r1}
  NoRun = NoRun
  Due = {1, 3, 5}
  MaxClock = 6
INVARIANTS TypeOK ToldOnce
CONSTRAINT Bounded
CHECK_DEADLOCK FALSE
