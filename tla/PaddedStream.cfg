SPECIFICATION Spec
CONSTANTS
  kFirstPaddings = 2
  ByteBase = 3
  PayloadSizes = {1, 4}
  PaddingSizes = {0, 1, 2}
  MaxPushes = 4
INVARIANTS
  PayloadDelivered
  EndsAgree
CHECK_DEADLOCK FALSE
