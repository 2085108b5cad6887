SPECIFICATION OutcomesSpec
CONSTANTS
  o1 = o1
  o2 = o2
  k1 = k1
  k2 = k2
  Nil = Nil
  Orgs = {o1, o2}
  Commits = {k1, k2}
  Changes = {1, 2, 3}
  OrgOf <- Owners
  Seed <- Start
  Pipelines <- SomePipelines
  Signals <- SomeSignals
  Requests = {c1, c2}
  WebhookAge = 1
  SignalAge = 2
  Skew = 0
  Windows = {1, 3}
  MaxTime = 3
  MaxArrivals = 3
  MaxOther = 1
CHECK_DEADLOCK FALSE
SYMMETRY CallSymmetry
INVARIANTS RecordsHold FiguresHold BundlesBind
