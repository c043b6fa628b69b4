SPECIFICATION FairSpec
CONSTANTS
  context = context
  page = page
  frame = frame
  h1 = h1
  h2 = h2
  Object <- Objects
  Root = context
  Scopes <- PageScopes
  Adopted <- PageAdopts
  Below <- PageBelow
  Published = {page, frame}
  Closable = {page}
  Disposable <- Handles
  Returned <- PageReturns
  Bucket <- Kinds
  BucketOf <- KindOf
  MaxDispatchers = 1
  DisposeCount = 1
  Call = {1, 2}
  MaxWire = 1
INVARIANTS
  TypeOK
  TreeIsWhole
  ClientKeepsUp
  OneAnswerPerCall
PROPERTIES
  CallsAreAnswered
CHECK_DEADLOCK FALSE
