SPECIFICATION Spec
CONSTANTS
  Icons   <- MCIcons
  Entries <- MCEntries
  Edits   <- MCEdits
  Screens <- MCScreens
  Places  <- MCPlaces
  Picks   <- MCPicks
  MaxStarts = 2
  MaxPresses = 2
  MaxTroubles = 1
INVARIANTS
  SavedComesBack
  UncheckedOnlyIfAsked
PROPERTIES
  ReopensInReach
