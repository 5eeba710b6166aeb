SPECIFICATION Spec
CONSTANTS
  Edges <- MCEdges
  Kind <- MCKind
  Content <- MCContent
  Empty = Empty
  NoBlock = NoBlock
  None = None
  Threads = 2
  CanFail = {2}
  Capacity = 1
CHECK_DEADLOCK FALSE
INVARIANTS BlockedForWantOfTasks
