SPECIFICATION FairSpec
CONSTANTS
  BufferSize = 3
  Word = 16
  Allowed <- LogsAndCounters
  OriginSet = TRUE
  MaxInput = 8
INVARIANTS
  TypeOK
  NoticesCountedWhenFull
  RoomAfterOverflow
  ExactUnlessRaced
PROPERTY
  ShutsDown
CHECK_DEADLOCK FALSE
