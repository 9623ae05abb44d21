CONSTANTS
  Ids = {1, 2, 3, 4}
  Sprints = {8, 9, 10}
  Editors <- OneEditor
  Requests <- AllRequests
  Plans <- AllPlans
  Publications <- AllPublications
  MaxRequests = 2
  FirstStories <- Start
  FirstDeps <- StartDeps
  FirstSprints <- StartSprints
SPECIFICATION BacklogSpec
PROPERTIES NoNewCycle WaitIsKept WorkStaysInItsSprint PlannedMeansApplied
CHECK_DEADLOCK FALSE
