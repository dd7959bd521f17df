SPECIFICATION Spec
CONSTANTS
  Clients <- AllClients
  kBufferSize = 20
  kMaxHeaderSize = 20
  ResponseSizes <- OneTwo
  ReadBufferSize = 2
INVARIANTS
  RequestUnderstood
  PayloadIntact
