SPECIFICATION Spec
CONSTANTS
  t1 = t1
  t2 = t2
  Threads <- OneThread
  CACHE_TTL = 2
  LINK_TTL = 3
  ErrorTtl = 1
  Sub = 2
  MaxTime = 2
  MaxPublished = 2
  MaxRestarts = 0
INVARIANTS
  LinkIsItsRelease
