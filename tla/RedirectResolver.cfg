SPECIFICATION Spec
CONSTANTS
  Names = {a, b, c, d}
  AddrSpace = 8
  range = 6
  RangeSize = 4
  kResolutionTtl = 1
  kResolutionRecycleTime = 2
SYMMETRY NameSymmetry
INVARIANT TypeOK
INVARIANT MapsAgree
INVARIANT OneOperation
INVARIANT AnswersTranslate
PROPERTY CollectsAll
