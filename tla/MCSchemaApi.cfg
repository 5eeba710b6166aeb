SPECIFICATION Spec
CONSTANTS
  Clients = {c1, c2}
  d1 = d1
  d2 = d2
  d3 = d3
  t1 = t1
  t2 = t2
  k1 = k1
  k2 = k2
  v1 = v1
  NoOpt = NoOpt
  Names = {d1, d2}
  TNames = {t1}
  OptKeys = {k1, k2}
  OptVals = {v1}
  MaxSeq = 14
  MaxOps = 4
  Requests <- MCRequests
  Resent <- AllButCreateDatabase
INVARIANTS Inv DatabaseNamesMatchMetas
PROPERTY ImplementsCatalog
CHECK_DEADLOCK FALSE
