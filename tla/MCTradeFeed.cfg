CONSTANTS
  m1 = m1
  m2 = m2
  Market = {m1, m2}
  TradesOf <- MCTradesOf
  Replay = 1
  MaxWire = 2
  Fault = {"garbled", "disconnect", "silent", "exit"}
  MaxFaults = 2
  ChannelCapacity = 1
  BatchCapacity = 2
  Kinds <- MCKinds
SPECIFICATION FairSpec
INVARIANTS TypeOK NoTradeLeftOut
PROPERTIES EveryTradeIsStored
CHECK_DEADLOCK FALSE
