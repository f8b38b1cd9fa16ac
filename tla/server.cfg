SPECIFICATION Spec
CONSTANTS
  t1 = t1
  t2 = t2
  Threads <- TwoThreads
  CACHE_TTL = 2
  LINK_TTL = 3
  ErrorTtl = 1
  Sub = 2
  MaxTime = 7
  MaxPublished = 1
  MaxRestarts = 1
SYMMETRY Symmetry
INVARIANTS
  LinksLast
  AnswerIsRecent
  RefusedForAReason
