SPECIFICATION FairPopulatedSpec
CONSTANTS
  Clients = {c1, c2}
  d1 = d1
  d2 = d2
  d3 = d3
  t1 = t1
  t2 = t2
  k1 = k1
  k2 = k2
  v1 = v1
  NoOpt = NoOpt
  Names = {d1, d2, d3}
  TNames = {t1, t2}
  OptKeys = {k1, k2}
  OptVals = {v1}
  MaxSeq = 22
  MaxOps = 3
  Requests <- TableRequests
  Resent <- AllButCreateDatabase
INVARIANTS TableNamesMatchMetas NoResurrection ExecutedOnce
PROPERTIES TableChangesTouchDb CatalogSteps EveryCallReturns
CHECK_DEADLOCK FALSE
