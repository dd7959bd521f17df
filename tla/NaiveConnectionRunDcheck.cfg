SPECIFICATION Spec
CONSTANTS
  kFirstPaddings = 1
  ByteBase = 3
  Protocols = {"kSocks5"}
  ProxyKinds = {"tunnel", "direct"}
  SourceData <- ClientData
  PeerPadding = 0
  PeerFrame = 1
  PaddingSizes = {0}
INVARIANT
  RunHasClient
