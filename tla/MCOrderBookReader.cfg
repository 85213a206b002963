CONSTANTS
  Text <- MCText
  ValueOf <- MCValueOf
  NotADecimal = NotADecimal
  Market = {m1}
  MaxNonce = 2
  SnapAt <- MCSnapAt
  DeltaAt <- MCDeltaAt
  TimeAt <- MCTimeAt
  Instant <- MCInstant
  BadTime <- MCBadTime
  BadLevels <- MCBadLevels
  NoBook = NoBook
  Fault = {"lost", "repeated", "garbled", "silent", "disconnect", "crash"}
  MaxFaults = 2
  MaxWire = 2
  MaxAsked = 2
  MaxRows = 3
SPECIFICATION Spec
INVARIANTS TypeOK BooksFollowTheExchange ChainUnbroken RowsTruthful ReaderRebuildsTheBook ReplayRebuildsTheBook
CHECK_DEADLOCK FALSE
