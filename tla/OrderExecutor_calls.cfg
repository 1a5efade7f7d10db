CONSTANTS
  c1 = c1
  c2 = c2
  Opener = Opener
  Closers <- TwoClosers
  Volume = 2
  GtcPolls = 2
  Side = "Long"
  CloseDirections <- AnyDirection
SPECIFICATION FairSpec
INVARIANTS TypeOK CloseReportSound NoForgottenGtc FailureExplained
PROPERTY CallsEnd
CHECK_DEADLOCK FALSE
