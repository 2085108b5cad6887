----------------------------- MODULE ReleaseChecks -----------------------------
(***************************************************************************)
(* The check of a change among other changes and under policies that move: *)
(* Create, Update and Submit of internal/service with releaseWindowFindings*)
(* and the policy operations, and the conflict radar (internal/conflict).  *)
(*                                                                         *)
(* Update and Submit decide on a copy and then write under the store's     *)
(* lock.  The later steps of the workflow (module ChangeWorkflow) appear   *)
(* here by what they do to the status.  Time is counted in half hours.     *)
(***************************************************************************)
EXTENDS RuleCheckers

CONSTANTS
  Changes,       \* identifiers, numbers: the radar orders by them
  Apps,
  Dependencies,  \* the applications that each application depends on
  Inputs,        \* what a submitter may hand in: content, planned time, observation time
  Clients,
  PolicyEdits,   \* [code, policy]: what a lead may save
  MaxEdits,      \* bound: edits of changes and saved policies together
  MaxSubmits     \* bound: submissions

\* What a policy is; validatePolicyInput admits no other severities.
Policies ==
  [enabled : BOOLEAN, blocking : BOOLEAN, severity : {"LOW", "MEDIUM", "HIGH"}, pattern : STRING \cup {Nothing},
   kinds : SUBSET STRING, envs : SUBSET STRING, version : Nat]

\* An artifact of a kind that is not supported may hold anything.
ASSUME ChecksAssumption ==
  /\ Changes \subseteq Nat /\ Dependencies \in [Apps -> SUBSET Apps]
  /\ Nothing \notin Nat
  /\ Nothing \notin Kinds \cup {"prod", "joint", "release", "Secret", "CHANGE_WINDOW_CONFLICT", "DEPENDENCY_WINDOW_OVERLAP"}
  /\ \A in \in Inputs :
       /\ in.planned \in Nat \cup {Nothing} /\ in.minutes \in Nat
       /\ in.sql \subseteq Statement /\ in.rollback \subseteq Statement
       /\ in.artifacts \in Seq(ToSet(in.artifacts))
       /\ \A i \in 1 .. Len(in.artifacts) : LET a == in.artifacts[i] IN
            /\ a = [kind |-> a.kind, name |-> a.name, content |-> a.content]
            /\ a.kind \in Kinds => a.content \subseteq ItemsOf(a.kind)
  /\ \A e \in PolicyEdits : e.policy \in Policies
  /\ MaxEdits \in Nat /\ MaxSubmits \in Nat

VARIABLES
  changes,   \* content, plan, status, findings, or NoChange
  policies,
  call,      \* [pc, id, copy, rules, next]: an Update or Submit in flight;
             \* stale is history: the change was written since it was read
  count      \* of edits and submissions

checksVars == <<changes, policies, call, count>>

NoChange == [status |-> "NONE"]
Existing == {c \in Changes : changes[c].status # "NONE"}

WindowCodes == {"CHANGE_WINDOW_CONFLICT", "DEPENDENCY_WINDOW_OVERLAP"}
Severities == <<"UNKNOWN", "LOW", "MEDIUM", "HIGH">>
Rank(r) == CHOOSE i \in 1 .. 4 : Severities[i] = r
HighestRisk(findings) ==
  Severities[CHOOSE i \in 2 .. 4 :
    /\ i = 2 \/ \E f \in findings : Rank(f.severity) = i
    /\ \A f \in findings : Rank(f.severity) <= i]

-----------------------------------------------------------------------------
(* Create and Update *)

Accepted(in) ==
  /\ Redact("DATABASE", in.sql \cup in.rollback) = in.sql \cup in.rollback
  /\ \A i \in 1 .. Len(in.artifacts) : in.artifacts[i].kind \in Kinds /\ in.artifacts[i].content # {}
  /\ HasKind(in.artifacts, "DATABASE") => in.sql # {}
  /\ in.sql # {} \/ in.artifacts # <<>>

\* normalizeReleasePlan: 15 minutes, here one tick, to a day.
ObservationTime(m) == IF m = 0 THEN 1 ELSE IF m > 48 THEN 48 ELSE m

Tomorrow == 48     \* the planned time of a new change that names none

\* A draft with the content of an input; env0 and planned0 when the input names none.
Draft(in, env0, planned0) ==
  LET artifacts == NormalizeArtifacts(in.artifacts, in.sql)
      env == IF in.env = Nothing THEN env0 ELSE in.env
      type == IF in.type = Nothing THEN DeriveChangeType(artifacts) ELSE in.type
  IN  [app |-> in.app, env |-> env, type |-> type, artifacts |-> artifacts, sql |-> in.sql,
       rollback |-> in.rollback, plan |-> in.plan, full |-> in.full, metrics |-> in.metrics,
       digest |-> ChangeDigest(env, type, artifacts, in.sql, in.rollback, in.plan),
       planned |-> IF in.planned = Nothing THEN planned0 ELSE in.planned,
       minutes |-> ObservationTime(in.minutes),
       status |-> "DRAFT", risk |-> "UNKNOWN", findings |-> {}, rules |-> Nothing,
       overtaken |-> FALSE]

Create(c, in) ==
  /\ c \notin Existing /\ Accepted(in)
  /\ changes' = [changes EXCEPT ![c] = Draft(in, "prod", Tomorrow)]
  /\ UNCHANGED <<policies, call, count>>

NoCall == [pc |-> "idle", id |-> Nothing, copy |-> Nothing, rules |-> Nothing, next |-> Nothing, stale |-> FALSE]

\* The calls when change c has been written.
Written(c) == [k \in Clients |-> IF call[k].id = c THEN [call[k] EXCEPT !.stale = TRUE] ELSE call[k]]

UpdateReads(k, c, in) ==
  /\ call[k].pc = "idle" /\ count.edits < MaxEdits
  /\ Accepted(in) /\ changes[c].status \in {"DRAFT", "CHECK_FAILED", "REJECTED", "APPROVED"}
  /\ call' = [call EXCEPT ![k] = [NoCall EXCEPT !.pc = "update", !.id = c,
                                  !.next = Draft(in, changes[c].env, changes[c].planned)]]
  /\ count' = [count EXCEPT !.edits = @ + 1]
  /\ UNCHANGED <<changes, policies>>

UpdateWrites(k) ==
  LET c == call[k].id IN
  /\ call[k].pc = "update"
  /\ changes' = [changes EXCEPT ![c] = call[k].next]
  /\ call' = [Written(c) EXCEPT ![k] = NoCall]
  /\ UNCHANGED <<policies, count>>

-----------------------------------------------------------------------------
(* Release windows *)

Protection == 3    \* releaseWindowProtection: 90 minutes

Distance(a, b) == IF a > b THEN a - b ELSE b - a

WindowCode(app, other) ==
  IF app = other THEN "CHANGE_WINDOW_CONFLICT"
  ELSE IF other \in Dependencies[app] \/ app \in Dependencies[other] THEN "DEPENDENCY_WINDOW_OVERLAP"
  ELSE Nothing

\* Mutant of WindowOthers: only changes that have passed their check.
WindowOthersChecked(c, copy) ==
  {d \in Existing \ {c} : /\ changes[d].status \in {"READY_FOR_EXPERIMENT", "WAITING_APPROVAL", "APPROVED"}
                          /\ Distance(copy.planned, changes[d].planned) <= Protection}

\* Drafts and blocked changes count, whatever their environment.
WindowOthers(c, copy) ==
  {d \in Existing \ {c} : /\ changes[d].status \notin {"REJECTED", "COMPLETED"}
                          /\ Distance(copy.planned, changes[d].planned) <= Protection}

WindowFindings(c, copy, rules) ==
  LET enabled == {code \in WindowCodes \cap DOMAIN rules : rules[code].enabled}
  IN  {FindingFromPolicy(rules, WindowCode(copy.app, changes[d].app), d) :
         d \in {d \in WindowOthers(c, copy) : WindowCode(copy.app, changes[d].app) \in enabled}}

-----------------------------------------------------------------------------
(* Submit *)

\* isBlockingFinding: some codes block whatever the policy says.
LegacyBlocking == {"EMPTY_SQL", "MISSING_ROLLBACK", "UPDATE_WITHOUT_WHERE", "DELETE_WITHOUT_WHERE",
                   "DROP_TABLE", "TRUNCATE", "ADD_NOT_NULL_WITHOUT_DEFAULT", "FK_WITHOUT_NOT_VALID",
                   "HEAVY_DDL_REWRITE"}
Blocked(findings) == \E f \in findings : f.blocking \/ f.code \in LegacyBlocking

AfterCheck(sql) == IF sql = {} THEN "WAITING_APPROVAL" ELSE "READY_FOR_EXPERIMENT"

SubmitReads(k, c) ==
  /\ call[k].pc = "idle" /\ count.submits < MaxSubmits
  /\ changes[c].status \in {"DRAFT", "CHECK_FAILED"}
  /\ call' = [call EXCEPT ![k] = [NoCall EXCEPT !.pc = "submit", !.id = c, !.copy = changes[c]]]
  /\ count' = [count EXCEPT !.submits = @ + 1]
  /\ UNCHANGED <<changes, policies>>

ReadPolicies(k) ==
  /\ call[k].pc = "submit"
  /\ call' = [call EXCEPT ![k] = [call[k] EXCEPT !.pc = "check", !.rules = policies]]
  /\ UNCHANGED <<changes, policies, count>>

\* The other changes are read; the finding that stands for no findings and the hit
\* counters of the policies are left out.
Check(k) ==
  LET c == call[k].id
      copy == call[k].copy
      rules == call[k].rules
      findings == {FindingFromPolicy(rules, code, Nothing) : code \in CheckRelease(copy, rules)}
                    \cup WindowFindings(c, copy, rules)
  IN  /\ call[k].pc = "check"
      /\ call' = [call EXCEPT ![k] = [call[k] EXCEPT !.pc = "checked", !.rules = Nothing,
           !.next = [findings |-> findings, rules |-> RuleSetVersion(rules),
                     risk |-> HighestRisk(findings),
                     status |-> IF Blocked(findings) THEN "CHECK_FAILED" ELSE AfterCheck(copy.sql)]]]
      /\ UNCHANGED <<changes, policies, count>>

\* What was computed from the copy is written to whatever the change is by now;
\* overtaken is history: it had been written in between.
SubmitWrites(k) ==
  LET c == call[k].id
      r == call[k].next
  IN  /\ call[k].pc = "checked"
      /\ changes' = [changes EXCEPT ![c] =
           [changes[c] EXCEPT !.findings = r.findings, !.rules = r.rules, !.risk = r.risk, !.status = r.status,
                              !.overtaken = changes[c].overtaken \/ call[k].stale]]
      /\ call' = [Written(c) EXCEPT ![k] = NoCall]
      /\ UNCHANGED <<policies, count>>

-----------------------------------------------------------------------------
(* The other steps of the workflow, as status changes *)

Step(c, from, to) ==
  /\ changes[c].status = from
  /\ changes' = [changes EXCEPT ![c] = [changes[c] EXCEPT !.status = to]]
  /\ call' = Written(c)
  /\ UNCHANGED <<policies, count>>

VerifyLastFinding(c) == c \in Existing /\ Step(c, "CHECK_FAILED", AfterCheck(changes[c].sql))
PassExperiment(c) == Step(c, "READY_FOR_EXPERIMENT", "WAITING_APPROVAL")
Approve(c) == Step(c, "WAITING_APPROVAL", "APPROVED")
Reject(c) == Step(c, "WAITING_APPROVAL", "REJECTED")
Complete(c) == Step(c, "APPROVED", "COMPLETED")

-----------------------------------------------------------------------------
(* Policies *)

SavePolicy(code, p) ==
  /\ count.edits < MaxEdits
  /\ policies' = [d \in DOMAIN policies \cup {code} |-> IF d = code THEN p ELSE policies[d]]
  /\ count' = [count EXCEPT !.edits = @ + 1]
  /\ UNCHANGED <<changes, call>>

\* validatePolicyInput: a policy that is not builtin has a pattern.
CreatePolicy(e) ==
  /\ e.code \notin DOMAIN policies /\ e.policy.pattern # Nothing
  /\ SavePolicy(e.code, [e.policy EXCEPT !.version = 1])

UpdatePolicy(e) ==
  LET builtin == e.code \in Codes IN
  /\ e.code \in DOMAIN policies /\ (builtin \/ e.policy.pattern # Nothing)
  /\ SavePolicy(e.code, [e.policy EXCEPT !.version = policies[e.code].version + 1,
                                         !.pattern = IF builtin THEN policies[e.code].pattern ELSE e.policy.pattern])

TogglePolicy(code) ==
  LET p == policies[code] IN
  SavePolicy(code, [p EXCEPT !.enabled = ~p.enabled, !.version = p.version + 1])

ChecksInit ==
  /\ changes = [c \in Changes |-> NoChange]
  /\ policies = DefaultRiskPolicies
  /\ call = [k \in Clients |-> NoCall]
  /\ count = [edits |-> 0, submits |-> 0]

ChecksNext ==
  \/ \E c \in Changes :
       \/ \E in \in Inputs : Create(c, in) \/ \E k \in Clients : UpdateReads(k, c, in)
       \/ \E k \in Clients : SubmitReads(k, c)
       \/ VerifyLastFinding(c) \/ PassExperiment(c) \/ Approve(c) \/ Reject(c) \/ Complete(c)
  \/ \E k \in Clients : UpdateWrites(k) \/ ReadPolicies(k) \/ Check(k) \/ SubmitWrites(k)
  \/ \E e \in PolicyEdits : CreatePolicy(e) \/ UpdatePolicy(e)
  \/ \E code \in {e.code : e \in PolicyEdits} \cap DOMAIN policies : TogglePolicy(code)

ChecksSpec == ChecksInit /\ [][ChecksNext]_checksVars

-----------------------------------------------------------------------------
(* The conflict radar *)

DefaultWindow == 1   \* defaultWindowMinutes: 30
MaxWindow == 16      \* maxWindowMinutes: eight hours

WindowEnd(c) ==
  c.planned + IF c.minutes < DefaultWindow THEN DefaultWindow
              ELSE IF c.minutes > MaxWindow THEN MaxWindow ELSE c.minutes

\* What a change writes: tables, objects of the cluster, keys of a configuration.
Resources(c) ==
  {<<"DATABASE", <<s.table>>>> : s \in {s \in c.sql : s.table # Nothing}}
    \cup UNION {CASE c.artifacts[i].kind = "DATABASE" ->
                       {<<"DATABASE", <<s.table>>>> : s \in {s \in c.artifacts[i].content : s.table # Nothing}}
                  [] c.artifacts[i].kind = "CONFIG" ->
                       {<<"CONFIG", <<c.artifacts[i].name, l.is>>>> : l \in c.artifacts[i].content}
                  [] c.artifacts[i].kind = "KUBERNETES" ->
                       {<<"KUBERNETES", <<d.is, d.name>>>> :
                          d \in {d \in c.artifacts[i].content : d.is # Nothing /\ d.name # Nothing}} :
                i \in 1 .. Len(c.artifacts)}

Weight(kind) == CASE kind = "DATABASE" -> 88 [] kind = "KUBERNETES" -> 82 [] kind = "CONFIG" -> 76

DependencyRelation(a, b) == b \in Dependencies[a] \/ a \in Dependencies[b]

\* reasonsFor: each reason has a weight, the score is the largest.
Reasons(a, b) ==
  (IF a.app = b.app THEN {<<"SAME_APPLICATION", <<>>, 90>>} ELSE {})
    \cup {<<r[1], r[2], Weight(r[1])>> : r \in Resources(a) \cap Resources(b)}
    \cup (IF DependencyRelation(a.app, b.app) THEN {<<"APPLICATION_DEPENDENCY", <<>>, 65>>} ELSE {})

Overlap(a, b) ==
  LET start == IF a.planned > b.planned THEN a.planned ELSE b.planned
      end == IF WindowEnd(a) < WindowEnd(b) THEN WindowEnd(a) ELSE WindowEnd(b)
  IN  end - start

Score(a, b) ==
  LET base == CHOOSE w \in {r[3] : r \in Reasons(a, b)} : \A r \in Reasons(a, b) : r[3] <= w
      sum == base + (IF a.risk = "HIGH" THEN 5 ELSE 0) + (IF b.risk = "HIGH" THEN 5 ELSE 0)
                  + (IF Overlap(a, b) >= 2 THEN 5 ELSE 0)
  IN  IF sum > 100 THEN 100 ELSE sum

Severity(score) == IF score >= 80 THEN "HIGH" ELSE IF score >= 60 THEN "MEDIUM" ELSE "LOW"

Terminal == {"CHECK_FAILED", "REJECTED", "COMPLETED"}

InConflict(a, b) == a.env = b.env /\ Overlap(a, b) > 0 /\ Reasons(a, b) # {}

\* Detect over the changes planned in from .. to; the pair in the order of the list.
Detect(list, from, to) ==
  LET active == {c \in Existing : list[c].status \notin Terminal /\ list[c].planned \in from .. to}
      first(c, d) == list[c].planned < list[d].planned \/ (list[c].planned = list[d].planned /\ c < d)
      pairs == {p \in active \X active : first(p[1], p[2]) /\ InConflict(list[p[1]], list[p[2]])}
  IN  {LET score == Score(list[p[1]], list[p[2]])
       IN  [pair |-> p, score |-> score, severity |-> Severity(score)] : p \in pairs}

-----------------------------------------------------------------------------
(* Properties *)

\* A draft carries no result of a check, and everything else carries one, of rules
\* that there are and about changes that there are.
ChecksTypeOK ==
  /\ \A c \in Existing : LET r == changes[c] IN
       /\ IF r.status = "DRAFT" THEN r.rules = Nothing /\ r.risk = "UNKNOWN" /\ r.findings = {}
          ELSE r.risk \in {"LOW", "MEDIUM", "HIGH"} /\ \A v \in r.rules : v[1] \in DOMAIN policies
       /\ \A f \in r.findings : f.code \in DOMAIN policies /\ (f.other # Nothing => f.other \in Existing)
  /\ \A k \in Clients : call[k].pc \in {"idle", "update", "submit", "check", "checked"}

Passed == {"READY_FOR_EXPERIMENT", "WAITING_APPROVAL", "APPROVED"}

\* Of two changes that both came through their checks, the check of at least one
\* has named the other, when their windows conflict and the rule was enabled for
\* both: however the submissions and edits interleave (changes whose check was
\* overtaken by an edit apart).
WindowConflictsSeen ==
  \A c, d \in Existing :
    LET a == changes[c]
        b == changes[d]
        code == WindowCode(a.app, b.app)
        had(r) == \E v \in r.rules : v[1] = code
    IN  c # d /\ {a.status, b.status} \subseteq Passed /\ ~a.overtaken /\ ~b.overtaken
          /\ Distance(a.planned, b.planned) <= Protection /\ code # Nothing /\ had(a) /\ had(b)
        => \/ \E f \in a.findings : f.other = d
           \/ \E f \in b.findings : f.other = c

\* The radar and the check do not contradict each other: two changes of one
\* environment that start within half an hour and that one check would hold against
\* the other are a conflict of the radar, as long as neither is blocked or closed and
\* both are in the days that the radar is asked for;
\* and a radar conflict of related applications within the protected time is one
\* the checks of both would report.
RadarAgrees ==
  LET radar == Detect(changes, 0, Tomorrow)
      listed(c, d) == \E x \in radar : {x.pair[1], x.pair[2]} = {c, d}
      near(c, d) == Distance(changes[c].planned, changes[d].planned)
      related(c, d) == WindowCode(changes[c].app, changes[d].app) # Nothing
      asked(c, d) == {changes[c].planned, changes[d].planned} \subseteq 0 .. Tomorrow
  IN  \A c, d \in Existing : c # d /\ {changes[c].status, changes[d].status} \cap Terminal = {} =>
        /\ related(c, d) /\ changes[c].env = changes[d].env /\ near(c, d) < DefaultWindow /\ asked(c, d) =>
             listed(c, d)
        /\ listed(c, d) /\ related(c, d) /\ near(c, d) <= Protection =>
             d \in WindowOthers(c, changes[c]) /\ c \in WindowOthers(d, changes[d])

\* A longer observation or a higher risk of one change never takes a conflict off
\* the radar and never lowers its score.
RadarMonotone ==
  \A c \in Existing : \A in \in {in \in Inputs : ObservationTime(in.minutes) >= changes[c].minutes} :
    LET worse == [changes EXCEPT ![c] = [changes[c] EXCEPT !.minutes = ObservationTime(in.minutes), !.risk = "HIGH"]]
    IN  \A x \in Detect(changes, 0, Tomorrow) :
          \E y \in Detect(worse, 0, Tomorrow) : y.pair = x.pair /\ y.score >= x.score

\* The same content under the same version of the rules has the same findings of
\* enabled policies, now as when it was checked; and policies that are disabled take
\* part only if they have a pattern and a scope of kinds, although the version does
\* not tell them.
RulesAreVersioned ==
  \A c \in Existing :
    LET r == changes[c]
        enabled == {code \in DOMAIN policies : policies[code].enabled}
        hidden == {code \in DOMAIN policies \ enabled : policies[code].pattern # Nothing /\ policies[code].kinds # {}}
        now == {FindingFromPolicy(policies, code, Nothing) : code \in CheckRelease(r, policies)}
    IN  /\ r.status # "DRAFT" /\ r.rules = RuleSetVersion(policies) /\ ~r.overtaken =>
             {f \in now : f.code \in enabled} = {f \in r.findings : f.other = Nothing /\ f.code \in enabled}
        /\ \A f \in now : f.code \in enabled \cup hidden

\* The digest that CI computes from a checkout is the one of the change exactly if
\* the files are the ones that were handed in, credentials included.
DigestBinds ==
  \A c \in Existing : \A in \in Inputs :
    LET r == changes[c]
        files == [artifacts |-> in.artifacts, sql |-> in.sql, rollback |-> in.rollback, plan |-> in.plan,
                  env |-> r.env, type |-> r.type]
        implied == in.sql # {} /\ ~HasKind(in.artifacts, "DATABASE")
        now == [i \in 1 .. Len(in.artifacts) |-> DefaultName(in.artifacts[i])]
                 \o IF implied THEN <<SQLArtifact(in.sql)>> ELSE <<>>
        handedIn == [i \in 1 .. Len(r.artifacts) |->
                       [kind |-> r.artifacts[i].kind, name |-> r.artifacts[i].name, content |-> r.artifacts[i].sha]]
        same == now = handedIn /\ <<in.sql, in.rollback, in.plan>> = <<r.sql, r.rollback, r.plan>>
    IN  Accepted(in) => (DigestFromManifest(files) = r.digest <=> same)

\* The rules find in the stored, redacted text what they would have found in the
\* text that was handed in, and loading a state changes neither text nor digest.
StoredIsFlagged ==
  \A c \in Existing : \A i \in 1 .. Len(changes[c].artifacts) :
    LET a == changes[c].artifacts[i] IN
    /\ ArtifactCodes(a, changes[c].env) = ArtifactCodes([a EXCEPT !.content = a.sha], changes[c].env)
    /\ PrepareStoredArtifact(a) = a

\* Conflicting release windows are found, by the check and by the radar alike.
ConflictsAreSeen == ChecksTypeOK /\ WindowConflictsSeen /\ RadarAgrees /\ RadarMonotone

\* The digest and the findings are about the content that was handed in, although
\* only its redacted text is stored.
ContentIsBound == DigestBinds /\ StoredIsFlagged
=============================================================================
