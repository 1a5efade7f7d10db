SPECIFICATION Spec
CONSTANTS
  Prices <- MCPrices
  Sizes <- MCSizes
  Answers <- MCAnswers
  Symbol = symbol
  NoName = noname
  EntryBps = 2000
  MinBps = 20
  MinDepth = 2
  CooldownSecs = 1
  MaxWire = 1
  None = None
INVARIANT FollowerShowsAnswer
PROPERTIES SpreadOfOneMoment SignalPays
