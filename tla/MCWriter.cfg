CONSTANTS
  BookRow <- MCBookRow
  TradeRow <- MCTradeRow
  KeyOf <- MCKeyOf
  ChannelCapacity = 2
  BatchCapacity = 2
  MaxSent = 3
  MaxExits = 1
SPECIFICATION FairSpec
INVARIANTS TypeOK TradesUnique BookNeverAheadOfTrades NoTradeDropped
PROPERTIES ImplementsRowLog EveryRowIsFlushed
CHECK_DEADLOCK FALSE
