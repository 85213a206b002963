CONSTANTS
  Markets <- MCMarkets
  Settlements <- MCSettlements
  Hour = 2
  BackfillStart = 1
  MaxPage = 2
  Milliseconds = 100
  Fault = {"short", "garbled", "clock", "exit"}
  MaxFaults = 2
  MaxTime = 8
SPECIFICATION FairSpec
INVARIANTS TypeOK OnlySettlements NoGapBelowNewest
PROPERTIES RequestsAdvance EverySettlementIsStored
