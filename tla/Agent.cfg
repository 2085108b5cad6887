SPECIFICATION RuntimeSpec
CONSTANTS
  a1 = a1
  a2 = a2
  a3 = a3
  u1 = u1
  u2 = u2
  o1 = o1
  Analyses = {a1, a2}
  Users = {u1, u2}
  Orgs = {o1}
  UserOf <- SameUser
  OrgOf <- SameOrg
  Changes <- TwoChanges
  Verdicts <- SomeVerdicts
  Settings <- TwoSettings
  DailyLimit = 2
  OrgLimit = 1
  GlobalLimit = 2
  MaxSlots = 1
  MaxRounds = 2
  MaxRetries = 1
  Cooldown = 1
  MaxClock = 1
  DayLength = 1
  Unset = Unset
CHECK_DEADLOCK FALSE
INVARIANTS GuardsHold AcceptedIsGrounded
PROPERTIES AnalysesEnd
