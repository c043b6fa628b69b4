SPECIFICATION FairSpec
CONSTANTS
  NoTest = NoTest
  Test <- NineTests
  SerialSuite <- Suites
  SetupSuite <- Setups
  Retries <- TwoThenOne
  Setting <- AnyOfFour
INVARIANTS
  TypeOK
  NoTestTooOften
  SerialSuitesRunAsOne
  PassedMeansRanIfIsolated
  ResultsAddUp
PROPERTIES
  NoFailureAfterMax
  RunEnds
