CONSTANTS
  FDEPTH = 4
  FMOD = 8
  Data = {d1}
  X = X
SPECIFICATION CheckSpec
INVARIANT EmptyN_MeansCountIsZero
