CONSTANTS
  FDEPTH = 4
  FMOD = 16
  Data = {1, 2, 3, 4, 5, 6, 7, 8, 9, 10, 11, 12, 13, 14}
  X = X
  Null = Null
  NoName = NoName
  Tests <- DirectedTests
  TESTNAMES <- Names
SPECIFICATION BenchSpec
INVARIANT NamedTestIsRun
CHECK_DEADLOCK FALSE
