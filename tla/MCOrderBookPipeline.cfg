CONSTANTS
  Text <- MCText
  ValueOf <- MCValueOf
  NotADecimal = NotADecimal
  Market = {m1}
  MaxNonce = 1
  SnapAt <- MCSnapAt
  DeltaAt <- MCDeltaAt
  TimeAt <- MCTimeAt
  Instant <- MCInstant
  BadTime <- MCBadTime
  BadLevels <- MCBadLevels
  NoBook = NoBook
  Fault = {"repeated", "silent", "refused", "disconnect", "crash"}
  MaxFaults = 2
  MaxWire = 2
  MaxAsked = 2
  MaxRows = 2
  t1 = t1
  Trade <- MCTrade
  ChannelCapacity = 1
  BatchCapacity = 2
SPECIFICATION FairSpec
PROPERTIES ImplementsOrderBookFeed EveryUpdateReachesTheTable
CHECK_DEADLOCK FALSE
