SPECIFICATION Spec
CONSTANTS
  Artifacts = {a1, s1}
  SQLArtifacts = {s1}
  Rules = {r1}
  Users = {sub, rev}
  Submitter = sub
  Reviewers = {sub, rev}
  Leads = {rev}
  Consumers = {ci1}
  PassportIds = {p1}
  Calls = {c1, c2}
  Jobs = {j1}
  Outcomes <- PassOrBlock
  TTL = 1
  MaxTime = 0
  MaxChecks = 2
  None = None
SYMMETRY Symmetry
INVARIANTS SeparationOfDuties PassportEvidence
