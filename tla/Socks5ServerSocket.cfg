SPECIFICATION Spec
CONSTANTS
  Clients <- AllClients
  CharIsSigned = TRUE
  ReadBufferSize = 2
INVARIANTS
  DchecksHold
  HandshakeExact
