SPECIFICATION Spec
CONSTANTS
  MaxReleases = 2
  MaxAssets = 2
  Archives <- MCArchives
  SourceName <- MCSourceName
  Inputs <- MCInputs
  Answers <- MCAnswers
  Errors <- MCErrors
  LongPaths <- MCLongPaths
INVARIANTS
  WithinArrays
  
  OkIsWhole
  FilesBelong
  ErrorExplained
