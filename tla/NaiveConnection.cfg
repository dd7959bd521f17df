SPECIFICATION Spec
CONSTANTS
  kFirstPaddings = 1
  ByteBase = 3
  Protocols = {"kSocks5", "kHttp", "kRedir"}
  ProxyKinds = {"tunnel", "direct"}
  SourceData <- SmallData
  PeerPadding = 1
  PeerFrame = 1
  PaddingSizes = {1}
INVARIANTS
  TypeOK
  NoOverlappingOperations
  NoStalledDirection
  SocketsUsable
  PaddingKnown
  PushBufferValid
  EndOfStreamFlushes
PROPERTIES
  StablePaddingDirection
  RelaysBytes
  FailureIsFinal
