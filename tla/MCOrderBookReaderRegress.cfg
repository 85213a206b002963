CONSTANTS
  Text <- MCText
  ValueOf <- MCValueOf
  NotADecimal = NotADecimal
  Market = {m1}
  MaxNonce = 2
  SnapAt <- MCSnapAt
  DeltaAt <- MCDeltaAt
  TimeAt <- MCRegressingTimeAt
  Instant <- MCInstant
  BadTime <- MCBadTime
  BadLevels <- MCBadLevels
  NoBook = NoBook
  Fault = {}
  MaxFaults = 0
  MaxWire = 2
  MaxAsked = 2
  MaxRows = 3
SPECIFICATION Spec
INVARIANTS ReaderRebuildsTheBook
CHECK_DEADLOCK FALSE
