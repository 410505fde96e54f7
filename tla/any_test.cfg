CONSTANTS
  FDEPTH = 4
  FMOD = 16
  Data = {1, 2, 3, 4, 5, 6, 7, 8, 9, 10, 11, 12, 13, 14}
  X = X
  Null = Null
  NoName = NoName
  MaxTrans = 3
  FewWords = {1, 2}
  Tests <- AllTests
  TESTNAMES <- AllNames
SPECIFICATION BenchSpec
INVARIANTS
  BenchTypeOK
  MonitorSeesWhatIsSent
  SummaryComplete
  VerdictOfTests
  PassingTestsNeverRead
PROPERTIES
  ErrorsHaveACause
  ChecksEveryCycle
  RunsTheTest
  TakesItsSteps
  Terminates
CHECK_DEADLOCK FALSE
