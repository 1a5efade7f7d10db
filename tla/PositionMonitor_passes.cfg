CONSTANTS
  p1 = p1
  p2 = p2
  Ids <- TwoPositions
  Spreads <- Widths
  EntrySpreads <- EntryWidth
  TpRatio = 1
  SlRatio = 1
  MaxHolding = 2
  GtcTimeout = 1
SPECIFICATION FairMonitorSpec
INVARIANTS MonitorTypeOK ExitStrategyAgrees
PROPERTIES ExitsEscalate OverdueEntryLeaves GtcExitEnds
