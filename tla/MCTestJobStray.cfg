SPECIFICATION Spec
CONSTANTS
  NoTest = NoTest
  Test <- TwoTests
  SerialSuite <- NoSuite
  SetupSuite <- NoSuite
  Retries <- OneRetry
  Setting <- OnlyStraying
INVARIANTS
  PassedMeansRan
