CONSTANTS
  Minute = 10
  Limit = 9
  Spacing = 3
  MaxStarts = 3
SPECIFICATION RequestsSpec
CONSTRAINT FewStarts
INVARIANTS LimitKept
