----------------------------- MODULE RuleCheckers -----------------------------
(***************************************************************************)
(* What is computed from the content of a change: redaction and digests    *)
(* (internal/changegate/integrity.go), the same digest as CI computes it   *)
(* from a checkout (cmd/changeguard-gate), and the deterministic rules     *)
(* (internal/changegate/checker.go, internal/checker) under the policies   *)
(* of the organisation (internal/model/policy.go).                         *)
(*                                                                         *)
(* A text is the set of what the rules tell apart in it:                   *)
(*   a configuration of lines        [is, value],                          *)
(*   a manifest of documents         [is, name, flags, containers,         *)
(*                                    replicas, data],                     *)
(*   SQL of statements               [is, table, where, bounded, flags];   *)
(* "is" is the class of the key, the kind of the object, the verb.         *)
(* Splitting a text into these is not modelled.  A digest is what it is    *)
(* taken of.                                                               *)
(***************************************************************************)
EXTENDS Integers, Sequences, FiniteSets, SequencesExt

CONSTANTS
  Nothing,
  Codes   \* the builtin rules of the instance: a rule that is not there does not apply

Kinds == {"DATABASE", "CONFIG", "KUBERNETES"}

Line == [is : STRING, value : STRING]
Document ==
  [is : STRING \cup {Nothing}, name : STRING \cup {Nothing}, flags : SUBSET STRING,
   containers : SUBSET SUBSET STRING, replicas : Nat, data : STRING \cup {Nothing}]
Statement ==
  [is : STRING, table : STRING \cup {Nothing}, where : BOOLEAN, bounded : BOOLEAN, flags : SUBSET STRING]

ItemsOf(kind) ==
  CASE kind = "CONFIG" -> Line [] kind = "KUBERNETES" -> Document [] kind = "DATABASE" -> Statement

-----------------------------------------------------------------------------
(* Redaction *)

IsSecretReference(v) == v \in {"", "reference", "[REDACTED]"}

\* Redact: the value of a key that names a secret, unless it is a reference, and
\* a credential inside any value (a URI, a bearer token, a private key).
RedactLine(l) ==
  IF l.value = "credential" \/ (l.is = "secret" /\ ~IsSecretReference(l.value))
  THEN [l EXCEPT !.value = "[REDACTED]"] ELSE l

\* redactKubernetesSecrets: the data of Secret objects.
RedactDocument(d) == IF d.is = "Secret" /\ d.data # Nothing THEN [d EXCEPT !.data = "[REDACTED]"] ELSE d

RedactStatement(s) == [s EXCEPT !.flags = {IF f = "credential" THEN "[REDACTED]" ELSE f : f \in s.flags}]

Redact(kind, content) ==
  CASE kind = "CONFIG" -> {RedactLine(l) : l \in content}
    [] kind = "KUBERNETES" -> {RedactDocument(d) : d \in content}
    [] kind = "DATABASE" -> {RedactStatement(s) : s \in content}

-----------------------------------------------------------------------------
(* Digests *)

\* Mutant of PrepareArtifact: the digest is that of what is stored.
PrepareArtifactOfStored(a) ==
  [kind |-> a.kind, name |-> a.name, content |-> Redact(a.kind, a.content),
   sha |-> Redact(a.kind, a.content)]

\* The digest is that of the content before redaction.
PrepareArtifact(a) ==
  [kind |-> a.kind, name |-> a.name, content |-> Redact(a.kind, a.content), sha |-> a.content]

\* When a state is loaded: redacted again, the digest stays.
PrepareStoredArtifact(a) == [PrepareArtifact(a) EXCEPT !.sha = a.sha]

DefaultName(a) == IF a.name = Nothing THEN [a EXCEPT !.name = "default"] ELSE a
SQLArtifact(sql) == [kind |-> "DATABASE", name |-> "SQL", content |-> sql]
HasKind(items, kind) == \E i \in 1 .. Len(items) : items[i].kind = kind

\* normalizeArtifacts of the service: SQL without an artifact of its own gets one.
NormalizeArtifacts(items, sql) ==
  [i \in 1 .. Len(items) |-> PrepareArtifact(DefaultName(items[i]))]
    \o IF sql # {} /\ ~HasKind(items, "DATABASE") THEN <<PrepareArtifact(SQLArtifact(sql))>> ELSE <<>>

DeriveChangeType(artifacts) ==
  LET kinds == {artifacts[i].kind : i \in 1 .. Len(artifacts)}
  IN  IF Cardinality(kinds) > 1 THEN "joint" ELSE IF kinds = {} THEN "release" ELSE CHOOSE k \in kinds : TRUE

ChangeDigest(env, type, artifacts, sql, rollback, plan) ==
  <<env, type, [i \in 1 .. Len(artifacts) |-> <<artifacts[i].kind, artifacts[i].name, artifacts[i].sha>>],
    sql, rollback, plan>>

\* digestFromManifest of changeguard-gate; Nothing when it refuses the manifest.
DigestFromManifest(m) ==
  LET implied == m.sql # {} /\ ~HasKind(m.artifacts, "DATABASE")
      artifacts == [i \in 1 .. Len(m.artifacts) |-> PrepareArtifact(DefaultName(m.artifacts[i]))]
                     \o IF implied THEN <<PrepareArtifact(SQLArtifact(m.sql))>> ELSE <<>>
  IN  IF \/ m.env = Nothing \/ m.type = Nothing
         \/ \E i \in 1 .. Len(m.artifacts) : m.artifacts[i].kind \notin Kinds
         \/ HasKind(m.artifacts, "DATABASE") /\ m.sql = {}
         \/ artifacts = <<>>
      THEN Nothing
      ELSE ChangeDigest(m.env, m.type, artifacts, m.sql, m.rollback, m.plan)

-----------------------------------------------------------------------------
(* What the checkers find in a text: codes of rules *)

\* The check runs on stored text: what was redacted was a secret.
SecretExposed(l) == l.is = "secret" /\ (l.value = "[REDACTED]" \/ ~IsSecretReference(l.value))

CheckConfig(lines, production) ==
  LET found(code, S) == IF S = {} THEN {} ELSE {code}
      are(keys, value) == {l \in lines : production /\ l.is \in keys /\ l.value = value}
  IN  found("CONFIG_SECRET_EXPOSURE", {l \in lines : SecretExposed(l)})
        \cup found("CONFIG_DEBUG_ENABLED", are({"debug"}, "on"))
        \cup found("CONFIG_AUTH_DISABLED", are({"auth"}, "off") \cup are({"anonymous"}, "on"))
        \cup found("CONFIG_TLS_VERIFY_DISABLED", are({"skip_verify"}, "on") \cup are({"verify"}, "off"))

\* A document without a kind is taken for a fragment of a pod specification.
PodSpecKinds == {"Deployment", "StatefulSet", "ReplicaSet", "DaemonSet", "Job", "CronJob", "Pod"}
HealthProbeKinds == PodSpecKinds \ {"Job", "CronJob"}
ReplicaKinds == {"Deployment", "StatefulSet", "ReplicaSet"}

\* d.flags: the settings that are each a rule of their own (K8S_LATEST_IMAGE,
\* K8S_PRIVILEGED, K8S_HOST_NAMESPACE, ...); a container has "resources", "probes".
CheckKubernetes(documents, production) ==
  UNION {d.flags
           \cup (IF d.containers = {} \/ \E b \in d.containers : "resources" \notin b
                 THEN {"K8S_RESOURCE_LIMITS"} ELSE {})
           \cup (IF d.is \in HealthProbeKinds /\ \E b \in d.containers : "probes" \notin b
                 THEN {"K8S_HEALTH_PROBES"} ELSE {})
           \cup (IF production /\ d.is \in ReplicaKinds /\ d.replicas <= 1
                 THEN {"K8S_SINGLE_REPLICA"} ELSE {}) :
         d \in {d \in documents : d.is = Nothing \/ d.is \in PodSpecKinds}}

\* Rules about single statements that one flag decides.
StatementRules == {"ADD_NOT_NULL_WITHOUT_DEFAULT", "INDEX_NOT_CONCURRENT", "FK_WITHOUT_NOT_VALID",
                   "SELECT_FOR_UPDATE_UNBOUNDED", "HEAVY_DDL_REWRITE"}
MaxStatements == 8

DDLVerbs == {"CREATE", "CREATE_INDEX", "ALTER_TABLE", "DROP_TABLE", "DROP_INDEX", "TRUNCATE", "REWRITE"}
LockingVerbs == {"CREATE_INDEX", "ALTER_TABLE", "DROP_INDEX"}

CheckSQL(sql, rollback) ==
  LET found(code, yes) == IF yes THEN {code} ELSE {}
      dml == {s \in sql : s.is \in {"UPDATE", "DELETE"}}
      bulk == \E s \in dml : s.where \/ s.bounded
      ddl == \E s \in sql : s.is \in DDLVerbs
                            \/ s.flags \cap {"INDEX_NOT_CONCURRENT", "FK_WITHOUT_NOT_VALID", "HEAVY_DDL_REWRITE"} # {}
      locks == bulk \/ \E s \in sql : s.is \in LockingVerbs \/ s.flags \cap StatementRules # {}
      timeout == \E s \in sql \cup rollback : s.is = "SET_TIMEOUT"
  IN  found("EMPTY_SQL", sql = {}) \cup found("MISSING_ROLLBACK", rollback = {})
        \cup found("TOO_MANY_STATEMENTS", Cardinality(sql) > MaxStatements)
        \cup found("UPDATE_WITHOUT_WHERE", \E s \in dml : s.is = "UPDATE" /\ ~s.where)
        \cup found("DELETE_WITHOUT_WHERE", \E s \in dml : s.is = "DELETE" /\ ~s.where)
        \cup found("UNBATCHED_LARGE_DML", \E s \in dml : s.where /\ ~s.bounded)
        \cup (StatementRules \cap UNION {s.flags : s \in sql})
        \cup found("MIXED_DDL_DML_TRANSACTION", ddl /\ bulk)
        \cup found("MISSING_LOCK_TIMEOUT", locks /\ ~timeout)

-----------------------------------------------------------------------------
(* Policies: which of the codes count.  A policy is                        *)
(* [enabled, blocking, severity, pattern, kinds, envs, version]; kinds and *)
(* envs are its scope, all when empty (so are the types of changes).       *)

BlockingCodes ==
  {"EMPTY_SQL", "MISSING_ROLLBACK", "UPDATE_WITHOUT_WHERE", "DELETE_WITHOUT_WHERE", "ADD_NOT_NULL_WITHOUT_DEFAULT",
   "FK_WITHOUT_NOT_VALID", "HEAVY_DDL_REWRITE", "TRANSACTION_CONTROL", "PSQL_META_COMMAND", "DROP_TABLE", "DROP_COLUMN",
   "ALTER_COLUMN_TYPE", "TRUNCATE", "MISSING_RELEASE_ROLLBACK", "K8S_LATEST_IMAGE", "K8S_PRIVILEGED",
   "K8S_HOST_NAMESPACE", "K8S_PRIVILEGE_ESCALATION", "K8S_RUN_AS_ROOT", "K8S_HEALTH_PROBES", "K8S_SINGLE_REPLICA",
   "K8S_HOST_PATH", "CONFIG_SECRET_EXPOSURE", "CONFIG_DEBUG_ENABLED", "CONFIG_AUTH_DISABLED",
   "CONFIG_TLS_VERIFY_DISABLED", "CHANGE_WINDOW_CONFLICT"}
WarningCodes ==
  {"TOO_MANY_STATEMENTS", "INDEX_NOT_CONCURRENT", "UNBATCHED_LARGE_DML", "SELECT_FOR_UPDATE_UNBOUNDED",
   "MISSING_LOCK_TIMEOUT", "MIXED_DDL_DML_TRANSACTION", "UNIQUE_INDEX", "SET_NOT_NULL", "K8S_RESOURCE_LIMITS",
   "PRODUCTION_FULL_RELEASE", "MISSING_OBSERVATION_METRICS", "DEPENDENCY_WINDOW_OVERLAP"}
PatternCodes ==
  {"TRANSACTION_CONTROL", "PSQL_META_COMMAND", "DROP_TABLE", "DROP_COLUMN", "ALTER_COLUMN_TYPE", "UNIQUE_INDEX",
   "SET_NOT_NULL", "TRUNCATE"}
KubernetesCodes ==
  {"K8S_LATEST_IMAGE", "K8S_PRIVILEGED", "K8S_RESOURCE_LIMITS", "K8S_HOST_NAMESPACE", "K8S_PRIVILEGE_ESCALATION",
   "K8S_RUN_AS_ROOT", "K8S_HEALTH_PROBES", "K8S_SINGLE_REPLICA", "K8S_HOST_PATH"}
ConfigCodes ==
  {"CONFIG_SECRET_EXPOSURE", "CONFIG_DEBUG_ENABLED", "CONFIG_AUTH_DISABLED", "CONFIG_TLS_VERIFY_DISABLED"}

\* The builtin policies of a new organisation.
DefaultRiskPolicies ==
  [code \in (BlockingCodes \cup WarningCodes) \cap Codes |->
     [enabled |-> TRUE, blocking |-> code \in BlockingCodes,
      severity |-> IF code \in BlockingCodes \ {"MISSING_ROLLBACK", "K8S_HEALTH_PROBES"} THEN "HIGH" ELSE "MEDIUM",
      pattern |-> IF code \in PatternCodes THEN code ELSE Nothing,
      kinds |-> IF code \in KubernetesCodes THEN {"KUBERNETES"} ELSE IF code \in ConfigCodes THEN {"CONFIG"} ELSE {},
      envs |-> {}, version |-> 1]]

PolicyApplies(p, env, kind) == (p.kinds = {} \/ kind \in p.kinds) /\ (p.envs = {} \/ env \in p.envs)

ApplicablePolicies(policies, codes, env, kind) ==
  {code \in codes \cap DOMAIN policies : policies[code].enabled /\ PolicyApplies(policies[code], env, kind)}

\* A regular expression stands for the class of things it matches.
Matches(p, content) ==
  p.pattern # Nothing /\ \E x \in content : p.pattern \in {x.is} \cup IF "flags" \in DOMAIN x THEN x.flags ELSE {}

CheckWithPolicies(sql, rollback, env, policies) ==
  ApplicablePolicies(policies, CheckSQL(sql, rollback), env, "DATABASE")
    \cup {code \in ApplicablePolicies(policies, DOMAIN policies, env, "DATABASE") : Matches(policies[code], sql)}

\* Policies with a pattern and a scope of kinds are also tried on the artifacts;
\* this loop does not ask whether they are enabled.
ScopedMatches(artifacts, env, policies) ==
  UNION {{code \in DOMAIN policies : /\ policies[code].kinds # {} /\ PolicyApplies(policies[code], env, artifacts[i].kind)
                                     /\ Matches(policies[code], artifacts[i].content)} : i \in 1 .. Len(artifacts)}

IsProduction(env) == env = "prod"

ArtifactCodes(a, env) ==
  CASE a.kind = "CONFIG" -> CheckConfig(a.content, IsProduction(env))
    [] a.kind = "KUBERNETES" -> CheckKubernetes(a.content, IsProduction(env))
    [] OTHER -> {}

PlanCodes(c) ==
  (IF c.plan = Nothing /\ c.rollback = {} THEN {"MISSING_RELEASE_ROLLBACK"} ELSE {})
    \cup (IF IsProduction(c.env) /\ c.full THEN {"PRODUCTION_FULL_RELEASE"} ELSE {})
    \cup (IF c.metrics THEN {} ELSE {"MISSING_OBSERVATION_METRICS"})

\* CheckReleaseWithPolicies: the codes of the findings of a change.
CheckRelease(c, policies) ==
  (IF c.sql = {} THEN {} ELSE CheckWithPolicies(c.sql, c.rollback, c.env, policies))
    \cup (UNION {ApplicablePolicies(policies, ArtifactCodes(c.artifacts[i], c.env), c.env, c.artifacts[i].kind) :
                   i \in 1 .. Len(c.artifacts)})
    \cup ScopedMatches(c.artifacts, c.env, policies)
    \cup ApplicablePolicies(policies, PlanCodes(c), c.env, Nothing)

FindingFromPolicy(policies, code, other) ==
  [code |-> code, blocking |-> policies[code].blocking, severity |-> policies[code].severity, other |-> other]

\* Mutant of RuleSetVersion: the codes that are enabled.
RuleSetVersionOfCodes(policies) == {code \in DOMAIN policies : policies[code].enabled}

RuleSetVersion(policies) ==
  {<<code, policies[code].version, policies[code].blocking, policies[code].pattern,
     policies[code].envs, policies[code].kinds>> : code \in {d \in DOMAIN policies : policies[d].enabled}}
=============================================================================
