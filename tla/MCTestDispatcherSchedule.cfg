SPECIFICATION Spec
CONSTANTS
  s1 = s1  s2 = s2
  g1 = g1  g2 = g2  g3 = g3
  h1 = h1  h2 = h2
  p1 = p1  p2 = p2
  lock = lock
  NoJob = NoJob
  Slot = {s1, s2}
  Group = {g1, g2, g3}
  Hash = {h1, h2}
  Project = {p1, p2}
  Lock = {lock}
  HashOf <- TwoHashes
  ProjectOf <- TwoProjects
  LocksOf <- SharedLock
  LimitOf <- OneWorker
  Skipped = {}
  Budget <- SecondTwice
  Isolated = TRUE
  Interruptible = TRUE
INVARIANTS
  TypeOK
  NotEveryoneWaits
  WorkersServeJobs
PROPERTY NothingStartsAfterStop RunFinishes ActsAsPool
