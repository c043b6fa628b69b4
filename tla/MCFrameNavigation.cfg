SPECIFICATION MCSpec
CONSTANTS
  child = child
  d1 = d1
  d2 = d2
  inner = inner
  main = main
  r1 = r1
  r2 = r2
  c1 = c1
  c2 = c2
  None = None
  MainFrame = main
  Frame = {main, child, inner}
  LateFrame = {inner}
  Request = {r1, r2}
  LateRequest = {r2}
  ExcludedRequest = {}
  Document = {d1, d2}
  TreeDocument = {d1}
  RegularEvent = {"load"}
  OutOfProcessFrames = TRUE
  Call = {c1, c2}
  LateCall = {c2}
  Until = {"load"}
INVARIANTS
  StateAgrees
  NetworkIdleCoversSubtree
  CallsOK
  CallsMissNothing
PROPERTIES
  NetworkIdleIsSound
  ArmedFramesGetIdle
  RedirectedGotoFollows
CHECK_DEADLOCK FALSE
