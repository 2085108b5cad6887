SPECIFICATION FairSpec
CONSTANTS
  c1 = c1
  c2 = c2
  c3 = c3
  b1 = b1
  b2 = b2
  Calls = {c1, c2, c3}
  Bodies = {b1, b2}
  body <- TwoAndOne
  MaxErrors = 2
  MaxLostAcks = 1
  MaxCrashes = 2
  MaxSlow = 2
  None = None
INVARIANTS CreatedOnce SameAnswers
PROPERTIES StoredIsReplayed
