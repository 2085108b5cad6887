SPECIFICATION Spec
CONSTANTS
  Inputs = {i1, i2}
  Incomplete = {i1}
  Materials = {m1, m2}
  Changes = {x1}
  Calls = {c1, c2}
  Execs = {e1, e2, e3}
  MaxRequests = 2
  MaxRevisions = 1
  MaxAsks = 2
  MaxPersist = 2
  MaxConfirms = 1
  MaxActs = 4
  MaxTroubles = 2
  None = None
CHECK_DEADLOCK FALSE
SYMMETRY TaskSymmetry
INVARIANTS ExecutionsHold MaterialHolds
PROPERTIES RecordIsKept
