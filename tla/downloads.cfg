SPECIFICATION Spec
CONSTANTS
  Backends <- AllBackends
  Answers <- AllAnswers
  RecvBuf = 3
  HdrBuf = 6
  Kinds <- AllKinds
  Full = 2
  MaxJobs = 2
INVARIANTS
  FileIsBody
  StopIsPrompt
  NothingLeftOpen
  UsesOnlyOpen
PROPERTIES
  KeepsDownload
  DownloadEnds
