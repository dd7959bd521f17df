SPECIFICATION Spec
CONSTANTS
  Kinds = {"spdy", "quic"}
  MaxData = 3
  MaxFrame = 2
  BufLen = 1
  MaxWrites = 2
INVARIANTS
  OneAnswerEach
  DchecksHold
  RefusalIsSilent
  NothingLost
PROPERTIES
  ReadsAnswered
  RefusalReachesUser
