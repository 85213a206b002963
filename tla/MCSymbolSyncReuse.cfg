CONSTANTS
  Name <- MCName
  MarketId <- MCMarketId
  Listings <- TwoListings
  MaxRelists = 1
  MaxEnds = 1
SPECIFICATION Spec
INVARIANTS EveryListedMarketIsUpserted
CHECK_DEADLOCK FALSE
