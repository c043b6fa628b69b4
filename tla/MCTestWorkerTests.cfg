SPECIFICATION Spec
CONSTANTS
  file = file  group = group
  openAll = openAll  seedAll = seedAll  openEach = openEach  closeEach = closeEach  closeAll = closeAll
  server = server  browser = browser  page = page  session = session
  None = None
  LastTest = 5
  Expect <- FiveTests
  Suite = {file, group}
  SuitesOf <- FileAndGroup
  Hook = {openAll, seedAll, openEach, closeEach, closeAll}
  BeforeAll <- GroupSetUp
  AfterAll <- GroupTearDown
  BeforeEach <- EachSetUp
  AfterEach <- EachTearDown
  Fixture = {server, browser, page, session}
  Scope <- Scopes
  Deps <- SessionInPage
  OwnSlot = {server, browser, session}
  Automatic = {server}
  Params <- HooksUsePages
INVARIANTS
  TypeOK
  FixturesAreCleaned
  HooksSurroundTests
  FailingTestIsLast
PROPERTY WorkerFixtureOnce WorkerCloses
CHECK_DEADLOCK FALSE
