CONSTANTS
  manager = manager
  assistant = assistant
  selector = selector
  task = task
  Symbols = {1, 2, 3}
  Managers = {manager, assistant}
  About <- MCAbout
  Selectors = {selector}
  Task = task
  Lists <- MCLists
  Watchlists <- MCWatchlists
  BatchSize = 2
  Interval = 1
SPECIFICATION FairSpec
INVARIANT RotationLeavesActiveOut
PROPERTY EverySymbolScanned
