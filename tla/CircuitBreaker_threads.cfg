CONSTANTS
  t1 = t1
  t2 = t2
  NoInstant = NoInstant
  NoThread = NoThread
  Traders <- TwoTraders
  Threshold = 4
  Pause = 2
SPECIFICATION FairBreakerSpec
INVARIANTS BreakerTypeOK TripHolds
PROPERTIES HalfOpenOnElapsedStamp CallsReturn StampedPauseEnds
