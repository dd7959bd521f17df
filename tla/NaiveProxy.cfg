SPECIFICATION Spec
CONSTANTS
  Conns = {c1, c2, c3}
  IdSpace = 3
INVARIANT TypeOK
INVARIANT NoUseAfterFree
INVARIANT OneOwner
INVARIANT CallbackFindsCaller
PROPERTY DestroyedAfterClose
CHECK_DEADLOCK FALSE
