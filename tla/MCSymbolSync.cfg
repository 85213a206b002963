CONSTANTS
  Name <- MCName
  MarketId <- MCMarketId
  Listings <- MCListings
  MaxRelists = 2
  MaxEnds = 1
SPECIFICATION Spec
INVARIANTS TypeOK SymbolsUnique RowsKeepTheirMarket TableHoldsOneListing EveryListedMarketIsServed
CHECK_DEADLOCK FALSE
