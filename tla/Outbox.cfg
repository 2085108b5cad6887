SPECIFICATION FairSpec
CONSTANTS
  Artifacts = {s1, s2}
  Events = {e1, e2}
  Workers = {w1, w2}
  Requests = {q1}
  MaxAttempts = 2
  MaxLapses = 1
  MaxErrors = 1
  MaxRestarts = 1
  MaxRetries = 1
  MaxEdits = 1
  MaxSpent = 2
  None = None
CHECK_DEADLOCK FALSE
INVARIANTS OutboxInv
PROPERTIES FencedReports WorkSettles
