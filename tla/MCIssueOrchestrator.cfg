SPECIFICATION Spec
CONSTANTS
    Issues = {1, 2}
    Deps <- Chain
    MaxRuns = 3
    MaxFaults = 2
INVARIANTS DependentsWait FiredOnce
CHECK_DEADLOCK FALSE
