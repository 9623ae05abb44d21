\* Two sprints, the second built on the first, and all three ceremonies.
CONSTANTS
  Sprints = {1, 2}
  Ceremony = {"planning", "review", "retro"}
  MaxFaults = 1
  MaxLive = 2
SPECIFICATION LiveSpec
INVARIANT OneLiveCeremony
PROPERTIES NothingFiresUnapproved ProjectAdvances
