SPECIFICATION Spec
CONSTANTS
  Pages <- MCPages
  Lowered <- MCLowered
  LongWords = {"long"}
  Home <- MCHome
  MaxBookmarks = 2
  Saved <- MCSaved
  Torn <- MCTorn
INVARIANTS
  NoDuplicates
  SavesWhatWasPasted
PROPERTIES
  KeptOverRestart
