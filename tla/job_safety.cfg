SPECIFICATION Spec
CONSTANTS
  p1 = p1
  p2 = p2
  r1 = r1
  r2 = r2
  NoTask = NoTask
  NoRepo = NoRepo
  Procs <- TwoProcs
  Repos <- TwoRepos
  Backends <- Both
  MaxBlocks = 1
  ProgressStep = 1
SYMMETRY Symmetry
INVARIANTS
  WorkerMemoryAlive
  OneTaskPerBase
  AbortedOnlyIfAsked
  IInv
  IdleShowsList
  GaugeOfThisJob
  StopAvailable
  ErrorIsOfThisJob
PROPERTIES
  DownloadsWhatIsShown
  PromiseSafety
