\* Two runs, one client with a queue of one event, one chat channel.
SPECIFICATION Spec
CONSTANTS
  Runs = {r1, r2}
  AllRuns = "all"
  Clients = {c1}
  Targets = {t1}
  Cap = 1
  MaxEvents = 2
  MaxRestarts = 1
INVARIANTS TypeOK StreamInOrder NothingSkipped ToldOnce
CHECK_DEADLOCK FALSE
