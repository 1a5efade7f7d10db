CONSTANTS
  s1 = s1
  s2 = s2
  task = task
  None = None
  Trader = trader
  Symbols = {s1, s2}
  Tasks = {task}
  Scores <- MCScores
  ChunkSize = 1
  Listings <- MCListings
  Requested = 2
  MaxLeverages <- MCMaxLeverages
  FirstLeverages <- MCFirstLeverages
SPECIFICATION FairSpec
INVARIANTS QuietPoolsAgree LeverageAllowed
PROPERTIES TraderFollows DelistedSymbolLeaves
CHECK_DEADLOCK FALSE
