SPECIFICATION Spec
CONSTANTS
  p1 = p1
  p2 = p2
  r1 = r1
  r2 = r2
  NoTask = NoTask
  NoRepo = NoRepo
  Procs <- OneProc
  Repos <- TwoRepos
  Backends <- JustProxy
  MaxBlocks = 1
  ProgressStep = 1
INVARIANTS
  FilesOfRowsShown
