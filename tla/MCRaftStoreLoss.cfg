SPECIFICATION Spec
CONSTANTS
  Keys = {"a", "b"}
  Entries <- MCEntries
  MaxTree = 2
  Faults = TRUE
  NoTree = NoTree
  NoSnapshot = NoSnapshot
INVARIANTS PurgedIsApplied
