CONSTANTS
  Text <- MCText
  ValueOf <- MCValueOf
  NotADecimal = NotADecimal
  Message <- MCMessage
  MaxMentions = 3
SPECIFICATION Spec
INVARIANTS TypeOK LastMentionWins SnapshotRowFaithful BestPriceFirst
