CONSTANTS
  book = book
  deals = deals
  Streams <- MCStreams
  Topic <- MCTopic
  BookStream = book
  Unnamed = Unnamed
  CommandCap = 1
  EventCap = 2
  MarketCap = 1
  MaxAttempts = 1
  MaxItems = 2
  MaxVersion = 2
SPECIFICATION FairSpec
INVARIANTS GivesUpLate
PROPERTIES ReadsAsFeed NewsInBrackets CallsReturn
CHECK_DEADLOCK FALSE
