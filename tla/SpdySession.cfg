SPECIFICATION Spec
CONSTANTS
  Streams = {1, 2}
  MaxWindow = 2
  SessionWindow = 2
  StreamWindow = 1
  SettingValues = {0, 2}
  FrameSize = 2
  RstThreshold = 2
  RstPaddings = {1}
  SessionMaxRecv = 3
  StreamMaxRecv = 2
  MaxLen = 2
  MaxEvents = 2
CHECK_DEADLOCK FALSE
INVARIANTS
  SendWindowsExact
  FlowControlKept
  EveryWriteHasWaker
  ReceiveWindowReturned
  ResetIsLast
PROPERTY
  WritesEnd
