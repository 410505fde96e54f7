\* The depth of the code and registers of 8 values, all traffic.
CONSTANTS
  FDEPTH = 4
  FMOD = 8
  Data = {d1}
  X = X
  MaxKinds = 8
SPECIFICATION CheckSpec
INVARIANTS
  TypeOK
  FlagsShowOccupancy
  UpperFlagsShowOccupancy
  FullIsPastEnd
  FlagsConsistent
PROPERTY
  UpsetIsReported
