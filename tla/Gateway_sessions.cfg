CONSTANTS
  trades = trades
  ticker = ticker
  Topics <- MCTopics
  Configured <- MCConfigured
  Auth = TRUE
  CommandCap = 1
  EventCap = 2
  MaxAttempts = 1
  MaxVersion = 3
SPECIFICATION Spec
INVARIANT SessionAsTold
PROPERTY ReadsAsFeed
CHECK_DEADLOCK FALSE
