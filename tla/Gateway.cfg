SPECIFICATION Spec
CONSTANTS
  q1 = q1
  q2 = q2
  q3 = q3
  p1 = p1
  Requests = {q1, q2}
  Principals = {p1}
  PrincipalOf <- OneCaller
  OperationOf <- Mixed
  Burst = 1
  Rate = 1
  GCEvery = 1
  Unseen = 0
  Window = 1
  MaxTime = 1
  MaxFaults = 1
  MaxStops = 1
  None = None
INVARIANTS FlagsAreHonest RecordsAreComplete
PROPERTIES CountersContinue RequestsEnd
