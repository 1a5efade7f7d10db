SPECIFICATION FeedSpec
CONSTANTS
  Prices <- MCPrices
  Sizes <- MCSizes
  MaxWire = 2
INVARIANT BookFollowsExchange
