CONSTANTS
  t1 = t1
  t2 = t2
  s1 = s1
  s2 = s2
  s3 = s3
  s4 = s4
  NoPosition = NoPosition
  NoSymbol = NoSymbol
  NoConfig = NoConfig
  NoInstant = NoInstant
  NoThread = NoThread
  Traders <- MCTraders
  Symbols <- MCSymbols
  Sizes = {1}
  Prices = {1}
  Configs <- MCConfigs
  Threshold = 1
  Pause = 1
SPECIFICATION Spec
SYMMETRY Symmetry
INVARIANTS Overshoot NoEntryAgainstStandingLimit
