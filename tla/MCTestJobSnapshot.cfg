SPECIFICATION Spec
CONSTANTS
  NoTest = NoTest
  Test <- TwoTests
  SerialSuite <- Both
  SetupSuite <- NoSuite
  Retries <- OneRetry
  Setting <- OnlySnapping
INVARIANTS
  SerialSuiteStops
