CONSTANTS
  ReadDeadline = 16
  KeepaliveInterval = 4
  FlushTime = 2
  MaxFrameRows = 3
  ChannelRoom = 2
  BatchRoom = 3
  MaxOvertakes = 1
  Minute = 8
  Limit = 5
  Spacing = 3
  MaxStarts = 2
SPECIFICATION ClockSpec
CONSTRAINT FewStarts
INVARIANTS KeepaliveTypeOK NeverSilentTooLong PacedBetweenStarts
