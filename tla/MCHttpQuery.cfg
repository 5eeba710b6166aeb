SPECIFICATION Spec
CONSTANTS
  Rows <- MCRows
  Target = 2
  ChannelSize = 1
  WaitTypes = {"Async", "Sync", "Deadline"}
  Requests = {r1, r2}
  CanFail = TRUE
  MaxEvents <- MCMaxEvents
  None = None
CHECK_DEADLOCK FALSE
INVARIANTS HttpInv PagesInOrder LastPageTellsOutcome OnlyTheseAreMissing
PROPERTIES HandlersReturn SilentQueriesEnd KilledQueriesEnd
