SPECIFICATION MCSpec
CONSTANTS
  a = a
  b = b
  None = None
  Window = 2
  Jump = 2
  LowRange = 4
  MaxSequence = 5
  AllowZero = FALSE
INVARIANT TakenOnce
INVARIANT NewIsGuessed
INVARIANT EndsAgree
PROPERTY NothingStaleEnds
PROPERTY BothStreams
CHECK_DEADLOCK FALSE
