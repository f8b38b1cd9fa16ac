SPECIFICATION Spec
CONSTANTS
  Backends <- JustProxy
  Answers <- UnknownLength
  RecvBuf = 2
  HdrBuf = 6
  Kinds <- AllKinds
  Full = 0
  MaxJobs = 1
INVARIANTS
  ShortIsError
