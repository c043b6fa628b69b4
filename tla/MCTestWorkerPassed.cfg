SPECIFICATION Spec
CONSTANTS
  file = file  group = group
  openAll = openAll  seedAll = seedAll  openEach = openEach  closeEach = closeEach  closeAll = closeAll
  server = server  browser = browser  page = page  session = session
  None = None
  LastTest = 2
  Expect <- FirstFails
  Suite = {file, group}
  SuitesOf <- FileAndGroup
  Hook = {openAll, seedAll, openEach, closeEach, closeAll}
  BeforeAll <- GroupSetUp
  AfterAll <- GroupTearDown
  BeforeEach <- EachSetUp
  AfterEach <- EachTearDown
  Fixture = {server, browser, page, session}
  Scope <- Scopes
  Deps <- SessionInPage
  OwnSlot = {server, browser, session}
  Automatic = {server}
  Params <- HooksUsePages
INVARIANT PassedMeansTestRan
CHECK_DEADLOCK FALSE
