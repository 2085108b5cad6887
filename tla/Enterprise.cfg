SPECIFICATION Spec
CONSTANTS
  u1 = u1
  u2 = u2
  u3 = u3
  u4 = u4
  u5 = u5
  o1 = o1
  o2 = o2
  o3 = o3
  i1 = i1
  i2 = i2
  i3 = i3
  p1 = p1
  p2 = p2
  p3 = p3
  p4 = p4
  e1 = e1
  e2 = e2
  e3 = e3
  e4 = e4
  d1 = d1
  s1 = s1
  s3 = s3
  t1 = t1
  t2 = t2
  t3 = t3
  n1 = n1
  n2 = n2
  None = None
  Users = {u1, u2, u3, u4, u5}
  Orgs = {o1, o2, o3}
  Invites = {i1, i2, i3}
  Apps = {p1, p2, p3, p4}
  Emails = {e1, e2, e3, e4}
  Subjects = {s1, s3}
  Domains = {d1}
  DomainOf <- OneDomain
  AppNames = {n1, n2}
  Calls = {c1, c2}
  Flows = {f1}
  Tokens = {t1, t2, t3, c1, c2}
  EmailsOf <- Addresses
  Seed <- TwoOrgs
  AppSets <- SomeApps
  Limit = 1
  Window = 0
  SessionTTL = 0
  FlowTTL = 0
  InviteTTL = 1
  MaxTime = 1
  MaxReloads = 1
CHECK_DEADLOCK FALSE
INVARIANTS KeysHold ChecksHold LoginsAreLimited
PROPERTIES JoinsAreFinal
