--------------------------- MODULE MCReleaseChecks ---------------------------
(* Instances of ReleaseChecks for TLC. *)
EXTENDS ReleaseChecks

CONSTANTS web, api

CallSymmetry == Permutations(Clients)

\* The web application depends on the api.
SomeDependencies == [a \in Apps |-> IF a = web THEN {api} ELSE {}]

Config(lines) == [kind |-> "CONFIG", name |-> Nothing, content |-> lines]

Workload ==
  [is |-> "Deployment", name |-> "web", flags |-> {"K8S_RUN_AS_ROOT"}, containers |-> {{"resources"}},
   replicas |-> 1, data |-> Nothing]
ClusterSecret ==
  [is |-> "Secret", name |-> "keys", flags |-> {}, containers |-> {}, replicas |-> 0, data |-> "plain"]
Manifest == [kind |-> "KUBERNETES", name |-> "k8s", content |-> {Workload, ClusterSecret}]

Update == [is |-> "UPDATE", table |-> "t", where |-> TRUE, bounded |-> TRUE, flags |-> {}]

Release(app, env, artifacts, sql, planned, minutes) ==
  [app |-> app, env |-> env, type |-> Nothing, artifacts |-> artifacts, sql |-> sql, rollback |-> sql,
   plan |-> "revert", full |-> env = "prod", metrics |-> TRUE, planned |-> planned, minutes |-> minutes]

Debug == [is |-> "debug", value |-> "on"]

\* Two configurations that are stored alike, the second observed for longer than the
\* radar looks; SQL of the api without an environment; a manifest for the test
\* environment without a time.
SomeInputs ==
  {Release(web, "prod", <<Config({[is |-> "secret", value |-> "plain"], Debug})>>, {}, 0, 2),
   Release(web, "prod", <<Config({[is |-> "secret", value |-> "credential"], Debug})>>, {}, 1, 17),
   Release(api, Nothing, <<>>, {Update}, 0, 0),
   [Release(api, "test", <<Manifest>>, {}, Nothing, 60) EXCEPT !.plan = Nothing]}

Policy(blocking, severity, pattern, kinds) ==
  [enabled |-> TRUE, blocking |-> blocking, severity |-> severity, pattern |-> pattern,
   kinds |-> kinds, envs |-> {}, version |-> 0]

\* A policy of the organisation's own for configurations that is saved disabled, and
\* the secret rule as a warning.
SomePolicyEdits ==
  {[code |-> "OWN", policy |-> [Policy(TRUE, "HIGH", "debug", {"CONFIG"}) EXCEPT !.enabled = FALSE]],
   [code |-> "CONFIG_SECRET_EXPOSURE", policy |-> Policy(FALSE, "MEDIUM", Nothing, {"CONFIG"})]}
=============================================================================
