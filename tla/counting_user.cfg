CONSTANTS
  FDEPTH = 4
  FMOD = 10
  Data = {d1, d2}
  X = X
SPECIFICATION CountingSpec
INVARIANT ImplementsModel
