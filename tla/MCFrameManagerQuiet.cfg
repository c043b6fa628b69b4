SPECIFICATION Spec
CONSTANTS
  child = child
  d1 = d1
  main = main
  r1 = r1
  None = None
  MainFrame = main
  Frame = {main, child}
  Request = {r1}
  ExcludedRequest = {}
  Document = {d1}
  RegularEvent = {"load"}
  OutOfProcessFrames = FALSE
PROPERTIES
  QuietPageGetsIdle
CHECK_DEADLOCK FALSE
