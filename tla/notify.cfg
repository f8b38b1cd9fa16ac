SPECIFICATION Spec
CONSTANTS
  Servers <- MCServers
  Polls = 2
  MaxNotes = 2
INVARIANTS
  LateReplyIsSafe
  AnswerIsOurs
  LeftBehind
PROPERTIES
  NotifyReturns
