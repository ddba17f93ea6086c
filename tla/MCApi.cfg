CONSTANTS
  Threads = {t1, t2}
  Runs = {r1, r2}
  NoRun = NoRun
  Used <- McFunctions
SPECIFICATION FairSpec
INVARIANTS
  LockingIsRight
  WorkIsAllowed
  ReturnCodeCovers
PROPERTIES
  CallsReturn
