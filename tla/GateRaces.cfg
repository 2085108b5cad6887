SPECIFICATION Spec
CONSTANTS
  Artifacts = {a1}
  SQLArtifacts = {}
  Rules = {r1, r2}
  Users = {sub, rev}
  Submitter = sub
  Reviewers = {sub, rev}
  Leads = {rev}
  Consumers = {ci1, ci2}
  PassportIds = {p1, p2}
  Calls = {c1, c2}
  Jobs = {j1}
  Outcomes <- PassOnly
  TTL = 1
  MaxTime = 2
  MaxChecks = 2
  None = None
SYMMETRY Symmetry
INVARIANTS OneActivePassport LedgerAgrees
PROPERTIES PassportIsFinal CompletionIsConsume OneTimePassSpec
