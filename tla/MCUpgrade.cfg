SPECIFICATION MCSpec
CONSTANTS
  Ids = {"i1", "i2"}
  Projects = {"default", "q"}
  Default = "default"
  Blank = "blank"
INVARIANTS OpenIsComplete NeverRefused
PROPERTY NothingIsLost
CONSTRAINT MCRows
CHECK_DEADLOCK FALSE
