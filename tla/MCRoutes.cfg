SPECIFICATION MCSpec
CONSTANTS
  once = once
  twice = twice
  shared = shared
  first = first
  second = second
  None = None
  Handler = {once, twice, shared}
  Request = {first, second}
  Predicate = {once}
  MaxMessages = 2
  ScopeOf <- MCScopeOf
  Times <- MCTimes
  Matched <- MCMatched
INVARIANTS
  TypeOK
  RoutedMeansIntercepted
PROPERTIES
  HandlerContract
  RoutesGoOn
CHECK_DEADLOCK FALSE
