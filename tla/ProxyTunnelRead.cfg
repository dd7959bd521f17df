SPECIFICATION Spec
CONSTANTS
  Kinds = {"spdy", "quic"}
  MaxData = 1
  MaxFrame = 1
  BufLen = 1
  MaxWrites = 1
PROPERTY
  ReadGetsResult
