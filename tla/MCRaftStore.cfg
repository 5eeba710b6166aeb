SPECIFICATION Spec
CONSTANTS
  Keys = {"a", "b"}
  Entries <- MCEntries
  MaxTree = 2
  Faults = FALSE
  NoTree = NoTree
  NoSnapshot = NoSnapshot
INVARIANTS IInv DurableStateIsPrefix PurgedIsApplied NoHole SnapshotMatchesMeta CoreKnowsApplied
