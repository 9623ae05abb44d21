SPECIFICATION FairSpec
CONSTANTS
  k1 = k1  k2 = k2
  Stories <- TwoStories
  Runs = {1, 2, 3}
  Deps <- Chain
  Schedulers <- OneScheduler
  Boards <- PlainBoards
  MaxMergeFails = 2
  Limit <- OneOfEach
  MaxSpent = 2
INVARIANTS DoneMeansMerged DependentsWaitForTheMerge NoDoubleFire
PROPERTIES EndedStoryStays NobodyIsStranded ReviewSettles
