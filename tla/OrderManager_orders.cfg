CONSTANTS
  o1 = o1
  o2 = o2
  Orders <- TwoOrders
  Volume = 2
  Lifetime = 1
SPECIFICATION FairSpec
INVARIANTS TypeOK NoOpenOrderForgotten FillsSound CaughtUp
PROPERTY OverOrdersLeave
