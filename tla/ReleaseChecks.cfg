SPECIFICATION ChecksSpec
CONSTANTS
  Nothing = Nothing
  web = web
  api = api
  Codes = {"CONFIG_SECRET_EXPOSURE", "K8S_RUN_AS_ROOT", "MISSING_LOCK_TIMEOUT", "CHANGE_WINDOW_CONFLICT", "DEPENDENCY_WINDOW_OVERLAP"}
  Changes = {1, 2}
  Apps = {web, api}
  Dependencies <- SomeDependencies
  Inputs <- SomeInputs
  Clients = {k1, k2}
  PolicyEdits <- SomePolicyEdits
  MaxEdits = 1
  MaxSubmits = 2
CHECK_DEADLOCK FALSE
SYMMETRY CallSymmetry
INVARIANTS ConflictsAreSeen RulesAreVersioned ContentIsBound
