---------------------------- MODULE AgentRuntime ----------------------------
(***************************************************************************)
(* The Go agent runtime (internal/agent): Runtime.Analyze asks a model for *)
(* an opinion on a change and falls back on the local rules when it may    *)
(* not, or does not get a usable answer.  Analyses run concurrently: Submit *)
(* calls Analyze once per check, the experiment worker once per report.    *)
(*                                                                         *)
(* What they share is the circuit breaker (circuitMu), the daily quotas    *)
(* (usageMu, or a Redis script) and the call slots (a channel).  Each use  *)
(* of one of them is an action, so is each answer of the model.  Prompts,  *)
(* texts, token counts and traces are left out; the model's answers are    *)
(* any of the kinds that the code tells apart.                             *)
(***************************************************************************)
EXTENDS Naturals, FiniteSets

CONSTANTS
  Analyses,      \* calls of Analyze
  Users, Orgs,
  UserOf, OrgOf, \* the submitter and the organisation of each analysed change
  Changes,       \* what analysed changes are like, see ChangeType
  Verdicts,      \* what the model may conclude, see VerdictType
  Settings,      \* configurations of the process, see SettingType
  DailyLimit, OrgLimit, GlobalLimit,
  MaxSlots,      \* CHANGEGUARD_LLM_MAX_CONCURRENCY
  MaxRounds,     \* CHANGEGUARD_AGENT_MAX_ROUNDS
  MaxRetries,    \* CHANGEGUARD_LLM_MAX_RETRIES
  Cooldown,      \* ticks the circuit stays open
  MaxClock,      \* bound on the clock
  DayLength,     \* ticks of a day
  Unset          \* no value yet

Risks == {"LOW", "MEDIUM", "HIGH"}

\* What the analysis looks at: rule findings (known: their evidence ids), an
\* experiment that failed, SQL that scan_sql finds something in, and text that
\* looks like instructions to the model.
ChangeType == [blocking : BOOLEAN, risk : Risks, known : SUBSET {"finding"},
               failed : BOOLEAN, sql : BOOLEAN, injected : BOOLEAN]

\* Ids of evidence: a rule finding of the change, one scan_sql returned, neither.
EvidenceIds == {"finding", "scan", "invented"}

\* An answer is valid when parseAnalysis finds a risk and a summary in it.
VerdictType == [valid : BOOLEAN, risk : Risks, cites : SUBSET EvidenceIds]

\* CHANGEGUARD_AGENT_MODE, where quotas are kept, and
\* CHANGEGUARD_LLM_CIRCUIT_FAILURES (0 switches the circuit breaker off).
SettingType == [mode : {"loop", "oneshot"}, backend : {"memory", "redis"},
                threshold : Nat]

ASSUME RuntimeAssumption ==
  /\ IsFiniteSet(Analyses)
  /\ UserOf \in [Analyses -> Users] /\ OrgOf \in [Analyses -> Orgs]
  /\ Changes \subseteq ChangeType /\ Verdicts \subseteq VerdictType
  /\ Settings \subseteq SettingType
  /\ DailyLimit \in Nat \ {0} /\ OrgLimit \in Nat \ {0} /\ GlobalLimit \in Nat \ {0}
  /\ MaxSlots \in Nat \ {0} /\ MaxRounds \in Nat \ {0} /\ MaxRetries \in Nat
  /\ Cooldown \in Nat \ {0}
  /\ MaxClock \in Nat /\ DayLength \in Nat \ {0} /\ Unset \notin Nat

VARIABLES
  setting,       \* the configuration, fixed at start
  clock,
  an,            \* the analyses, see Fresh
  usage,         \* reservations counted per key and day
  slots,         \* call slots taken
  circuit,       \* [failures, until]; until = 0 is the zero time: closed
  streak,        \* history: failures recorded since the last success
  slipped        \* history: a reservation of a past day met a later one's count

runtimeVars == <<setting, clock, an, usage, slots, circuit, streak, slipped>>

RequiredTools == {"get_rule_findings", "get_experiment_report", "get_change_context"}
\* scan_sql stands for the tools that are not required: its findings are the
\* only evidence that is not the change's own.
Tools == RequiredTools \cup {"scan_sql"}

Days == 0..(MaxClock \div DayLength)
Today == clock \div DayLength
Keys == Users \cup Orgs \cup {"global"}

NoResult == [by |-> "none", risk |-> "LOW", cites |-> {}]
Fresh == [pc |-> "idle", change |-> Unset, day |-> Unset, admitted |-> Unset,
          round |-> 1, attempt |-> 0, called |-> {}, extra |-> {}, calls |-> 0,
          cancelled |-> FALSE, result |-> NoResult]
Running == {"circuit", "day", "reserve", "slot", "calling", "failed", "accepted"}

-----------------------------------------------------------------------------
(* Verdicts *)

\* fallback: the risk of the rule check, raised by a failed experiment and by
\* suspicious text.
FallbackRisk(c) ==
  IF c.failed THEN "HIGH"
  ELSE IF c.injected /\ c.risk = "LOW" THEN "MEDIUM"
  ELSE c.risk

Fallback(c) == [by |-> "rules", risk |-> FallbackRisk(c), cites |-> c.known]

\* allowedEvidenceReferences: the change's own ids and those a tool returned.
Allowed(a) == an[a].change.known \cup an[a].extra

\* Mutant of LoopAccepts: evidence ids are not checked against the allowed ones.
LoopAcceptsAnyId(a, v) ==
  /\ RequiredTools \subseteq an[a].called
  /\ v.valid /\ v.cites # {}

\* analyzeAgentLoop accepts a verdict: the three tools were called, the JSON has
\* a risk and a summary, and every cited id is known (validateEvidenceReferencesStrict).
LoopAccepts(a, v) ==
  /\ RequiredTools \subseteq an[a].called
  /\ v.valid
  /\ v.cites # {} /\ v.cites \subseteq Allowed(a)

\* Blocking findings keep the risk high.
LoopRisk(a, v) == IF an[a].change.blocking THEN "HIGH" ELSE v.risk

\* analyzeOneShot drops unknown ids and, if none is left, cites everything
\* known (normalizeEvidenceReferences); it raises the risk only of changes with
\* suspicious text.
OneShotAccepts(a, v) == v.valid /\ Allowed(a) # {}
OneShotCites(a, v) ==
  IF v.cites \cap Allowed(a) = {} THEN Allowed(a) ELSE v.cites \cap Allowed(a)
OneShotRisk(a, v) ==
  IF an[a].change.injected /\ an[a].change.blocking THEN "HIGH" ELSE v.risk

-----------------------------------------------------------------------------
(* Admission: configuration, circuit, quota *)

\* Analyze returns; its local variables are gone.
Finish(a, result) ==
  an' = [an EXCEPT ![a] = [Fresh EXCEPT !.pc = "done", !.admitted = an[a].admitted,
                                        !.result = result]]
Step(a, pc) == an' = [an EXCEPT ![a].pc = pc]

\* Analyze starts; resolveConfig finds a model service for the organisation or not.
Begin(a, c) ==
  /\ an[a].pc = "idle"
  /\ \E configured \in BOOLEAN :
       IF configured THEN an' = [an EXCEPT ![a] = [@ EXCEPT !.pc = "circuit", !.change = c]]
       ELSE Finish(a, Fallback(c))
  /\ UNCHANGED <<setting, clock, usage, slots, circuit, streak, slipped>>

\* allowModelCall: refused while the circuit is open; the first call after the
\* cool-down closes it.
AllowModelCall(a) ==
  /\ an[a].pc = "circuit"
  /\ IF setting.threshold > 0 /\ circuit.until # 0 /\ clock < circuit.until
     THEN Finish(a, Fallback(an[a].change)) /\ UNCHANGED circuit
     ELSE /\ Step(a, "day")
          /\ circuit' = IF setting.threshold > 0 /\ circuit.until # 0
                        THEN [failures |-> 0, until |-> 0] ELSE circuit
  /\ UNCHANGED <<setting, clock, usage, slots, streak, slipped>>

\* reserveContext reads the date before it takes usageMu or calls Redis.
ReadDay(a) ==
  /\ an[a].pc = "day"
  /\ an' = [an EXCEPT ![a] = [@ EXCEPT !.pc = "reserve", !.day = Today]]
  /\ UNCHANGED <<setting, clock, usage, slots, circuit, streak, slipped>>

KeysOf(a) == {UserOf[a], OrgOf[a], "global"}
LimitOf(k) == CASE k \in Users -> DailyLimit
                [] k \in Orgs -> OrgLimit
                [] OTHER -> GlobalLimit

\* The counts of all three keys are below their limits on day d.
HasQuota(a, d) == \A k \in KeysOf(a) : usage[k][d] < LimitOf(k)

\* Redis has a key per day; the map in memory has one day per key, and a count
\* for another day starts from zero and replaces it.
Counted(a, d) ==
  [k \in Keys |->
     IF k \notin KeysOf(a) THEN usage[k]
     ELSE [x \in Days |-> IF x = d THEN usage[k][d] + 1
                          ELSE IF setting.backend = "redis" THEN usage[k][x] ELSE 0]]

\* Mutant of Reserve: only the submitter's own count is compared.
ReserveUserOnly(a) ==
  LET d == an[a].day
  IN  /\ an[a].pc = "reserve"
      /\ IF usage[UserOf[a]][d] < DailyLimit
         THEN /\ usage' = Counted(a, d)
              /\ an' = [an EXCEPT ![a] = [@ EXCEPT !.pc = "slot", !.admitted = d]]
              /\ slipped' = (slipped \/ d < Today)
         ELSE Finish(a, Fallback(an[a].change)) /\ UNCHANGED <<usage, slipped>>
      /\ UNCHANGED <<setting, clock, slots, circuit, streak>>

\* reserveContext: all three or none, under one lock or in one script.
Reserve(a) ==
  LET d == an[a].day
  IN  /\ an[a].pc = "reserve"
      /\ \/ /\ HasQuota(a, d)
            /\ usage' = Counted(a, d)
            /\ an' = [an EXCEPT ![a] = [@ EXCEPT !.pc = "slot", !.admitted = d]]
            /\ slipped' = (slipped \/ \E k \in KeysOf(a), x \in Days :
                                        x > d /\ usage[k][x] > 0)
         \/ /\ ~HasQuota(a, d)
            /\ Finish(a, Fallback(an[a].change)) /\ UNCHANGED <<usage, slipped>>
         \/ \* Redis does not answer: refused, whether the script ran or not.
            /\ setting.backend = "redis"
            /\ usage' \in {usage} \cup (IF HasQuota(a, d) THEN {Counted(a, d)} ELSE {})
            /\ Finish(a, Fallback(an[a].change)) /\ UNCHANGED slipped
      /\ UNCHANGED <<setting, clock, slots, circuit, streak>>

-----------------------------------------------------------------------------
(* The conversation with the model *)

\* A call of the model is counted and made; pc is where the analysis goes on.
CallModel(a, pc) ==
  an' = [an EXCEPT ![a] = [@ EXCEPT !.pc = pc, !.calls = an[a].calls + 1]]

\* complete and completeOnce: wait for a slot or for the context.  When both are ready
\* either may be taken; a call with a context that is done fails at once, for good, and
\* gives its slot back.
TakeSlot(a) ==
  /\ an[a].pc = "slot"
  /\ \/ an[a].cancelled /\ Step(a, "failed") /\ UNCHANGED slots
     \/ an[a].cancelled /\ slots < MaxSlots /\ CallModel(a, "failed") /\ UNCHANGED slots
     \/ ~an[a].cancelled /\ slots < MaxSlots /\ CallModel(a, "calling") /\ slots' = slots + 1
  /\ UNCHANGED <<setting, clock, usage, circuit, streak, slipped>>

\* Mutant of ModelFails: the slot of a failed call is not given back.
ModelFailsKeepsSlot(a, retryable) ==
  /\ an[a].pc = "calling"
  /\ UNCHANGED slots
  /\ IF retryable /\ ~an[a].cancelled /\ an[a].attempt < MaxRetries
     THEN an' = [an EXCEPT ![a] = [@ EXCEPT !.pc = "slot", !.attempt = an[a].attempt + 1]]
     ELSE Step(a, "failed")
  /\ UNCHANGED <<setting, clock, usage, circuit, streak, slipped>>

\* The call fails: a network error, 429 or 5xx is repeated after a pause, another
\* status or an unreadable body is not, nor is anything once the context is done.
ModelFails(a, retryable) ==
  /\ an[a].pc = "calling"
  /\ slots' = slots - 1
  /\ IF retryable /\ ~an[a].cancelled /\ an[a].attempt < MaxRetries
     THEN an' = [an EXCEPT ![a] = [@ EXCEPT !.pc = "slot", !.attempt = an[a].attempt + 1]]
     ELSE Step(a, "failed")
  /\ UNCHANGED <<setting, clock, usage, circuit, streak, slipped>>

\* The model asks for tools; those that ran count as called, and scan_sql adds
\* its evidence.  The last round ends the loop.
ModelCallsTools(a, ran) ==
  /\ an[a].pc = "calling" /\ setting.mode = "loop"
  /\ slots' = slots - 1
  /\ an' = [an EXCEPT ![a] = [@ EXCEPT
              !.called = an[a].called \cup ran,
              !.extra = an[a].extra \cup (IF "scan_sql" \in ran /\ an[a].change.sql
                                THEN {"scan"} ELSE {}),
              !.round = an[a].round + 1, !.attempt = 0,
              !.pc = IF an[a].round < MaxRounds /\ ~an[a].cancelled
                     THEN "slot" ELSE "failed"]]
  /\ UNCHANGED <<setting, clock, usage, circuit, streak, slipped>>

\* The model gives its verdict.
ModelConcludes(a, v) ==
  /\ an[a].pc = "calling"
  /\ slots' = slots - 1
  /\ LET verdict(risk, cites) ==
           an' = [an EXCEPT ![a] = [@ EXCEPT !.pc = "accepted",
                    !.result = [by |-> "model", risk |-> risk, cites |-> cites]]]
     IN  \/ setting.mode = "loop" /\ LoopAccepts(a, v) /\ verdict(LoopRisk(a, v), v.cites)
         \/ setting.mode = "loop" /\ ~LoopAccepts(a, v) /\ Step(a, "failed")
         \/ setting.mode = "oneshot" /\ OneShotAccepts(a, v)
              /\ verdict(OneShotRisk(a, v), OneShotCites(a, v))
         \/ setting.mode = "oneshot" /\ ~OneShotAccepts(a, v) /\ Step(a, "failed")
  /\ UNCHANGED <<setting, clock, usage, circuit, streak, slipped>>

\* recordModelFailure, whatever the failure was, and the fallback.
RecordModelFailure(a) ==
  /\ an[a].pc = "failed"
  /\ circuit' = IF setting.threshold = 0 THEN circuit
                ELSE [failures |-> circuit.failures + 1,
                      until |-> IF circuit.failures + 1 >= setting.threshold
                                THEN clock + Cooldown ELSE circuit.until]
  /\ streak' = streak + 1
  /\ Finish(a, Fallback(an[a].change))
  /\ UNCHANGED <<setting, clock, usage, slots, slipped>>

\* recordModelSuccess closes the circuit, also one that others opened meanwhile.
RecordModelSuccess(a) ==
  /\ an[a].pc = "accepted"
  /\ circuit' = [failures |-> 0, until |-> 0]
  /\ streak' = 0
  /\ Finish(a, an[a].result)
  /\ UNCHANGED <<setting, clock, usage, slots, slipped>>

\* The lease of the experiment that asked for the analysis is lost.
Cancel(a) ==
  /\ an[a].pc \in {"slot", "calling"} /\ ~an[a].cancelled
  /\ an' = [an EXCEPT ![a].cancelled = TRUE]
  /\ UNCHANGED <<setting, clock, usage, slots, circuit, streak, slipped>>

ClockTick ==
  /\ clock < MaxClock
  /\ clock' = clock + 1
  /\ UNCHANGED <<setting, an, usage, slots, circuit, streak, slipped>>

-----------------------------------------------------------------------------
RuntimeInit ==
  /\ setting \in Settings
  /\ clock = 0
  /\ an = [a \in Analyses |-> Fresh]
  /\ usage = [k \in Keys |-> [d \in Days |-> 0]]
  /\ slots = 0
  /\ circuit = [failures |-> 0, until |-> 0]
  /\ streak = 0 /\ slipped = FALSE

\* A verdict's ids matter only through what is known of them; the model calls
\* either all the required tools or leaves one out.
Answer(a) ==
  \/ \E retryable \in BOOLEAN : ModelFails(a, retryable)
  \/ \E ran \in {{}, {"scan_sql"}, RequiredTools, Tools} : ModelCallsTools(a, ran)
  \/ \E v \in Verdicts : ModelConcludes(a, v)

Work(a) ==
  \/ AllowModelCall(a) \/ ReadDay(a) \/ Reserve(a) \/ TakeSlot(a)
  \/ Answer(a) \/ RecordModelFailure(a) \/ RecordModelSuccess(a)

RuntimeNext ==
  \/ \E a \in Analyses, c \in Changes : Begin(a, c)
  \/ \E a \in Analyses : Work(a) \/ Cancel(a)
  \/ ClockTick

\* A goroutine that can run does; the model's client has a timeout.
RuntimeSpec ==
  RuntimeInit /\ [][RuntimeNext]_runtimeVars /\ \A a \in Analyses : WF_runtimeVars(Work(a))

-----------------------------------------------------------------------------
(* Properties *)

ResultType == [by : {"none", "rules", "model"}, risk : Risks, cites : SUBSET EvidenceIds]
AnalysisType ==
  [pc : Running \cup {"idle", "done"}, change : Changes \cup {Unset},
   day : Days \cup {Unset}, admitted : Days \cup {Unset},
   round : 1..(MaxRounds + 1), attempt : 0..MaxRetries, called : SUBSET Tools,
   extra : SUBSET {"scan"}, calls : Nat, cancelled : BOOLEAN, result : ResultType]

RuntimeTypeOK ==
  /\ setting \in Settings /\ clock \in 0..MaxClock
  /\ an \in [Analyses -> AnalysisType]
  /\ \A a \in Analyses :
       /\ an[a].pc \in Running => an[a].change \in Changes
       /\ an[a].pc = "reserve" => an[a].day \in Days
  /\ usage \in [Keys -> [Days -> Nat]]
  /\ circuit \in [failures : Nat, until : Nat]
  /\ streak \in Nat /\ slipped \in BOOLEAN
  /\ slots = Cardinality({a \in Analyses : an[a].pc = "calling"})
  /\ slots <= MaxSlots

\* The analyses that were let through on account of key k on day d.
Admitted(k, d) == {a \in Analyses : an[a].admitted = d /\ k \in KeysOf(a)}

\* On no day are more analyses of a user, of an organisation or of all together
\* let through to the paid model than their limit: always with Redis, and with
\* counts in memory unless a reservation that read the date before midnight is
\* counted after one that read it later (reserveContext replaces the later day).
QuotaHolds ==
  setting.backend = "redis" \/ ~slipped =>
    \A d \in Days, k \in Keys : Cardinality(Admitted(k, d)) <= LimitOf(k)

\* Why: a count never lags behind the analyses that were let through, except that
\* of a day that a later one has replaced.
QuotaIsCounted ==
  setting.backend = "redis" \/ ~slipped =>
    \A d \in Days, k \in Keys :
      \/ Cardinality(Admitted(k, d)) <= usage[k][d]
      \/ setting.backend = "memory" /\ \E y \in Days : y > d /\ usage[k][y] > 0

Rounds == IF setting.mode = "loop" THEN MaxRounds ELSE 1

\* An analysis costs at most MaxRounds * (MaxRetries + 1) calls of the model, and
\* none before its quota was reserved.
CallsAreBudgeted ==
  \A a \in Analyses :
    /\ an[a].calls <= Rounds * (MaxRetries + 1)
    /\ an[a].calls > 0 => an[a].admitted # Unset

\* Why: the calls of a conversation are counted by its rounds and attempts.
CallsAreCounted ==
  \A a \in Analyses :
    /\ an[a].pc \in {"idle", "circuit", "day", "reserve"} =>
         an[a].calls = 0 /\ an[a].round = 1 /\ an[a].attempt = 0
    /\ an[a].pc \in {"slot", "calling"} =>
         /\ an[a].admitted # Unset /\ an[a].round <= Rounds
         /\ an[a].calls <= (an[a].round - 1) * (MaxRetries + 1) + an[a].attempt
                             + (IF an[a].pc = "calling" THEN 1 ELSE 0)

\* An accepted verdict cites evidence, and only evidence that exists; the loop
\* has called its three tools, and never rates a blocked change below HIGH.
AcceptedIsGrounded ==
  \A a \in Analyses :
    /\ an[a].pc = "accepted" =>
         LET r == an[a].result IN
         /\ r.cites # {} /\ "invented" \notin r.cites
         /\ "scan" \in r.cites => "scan_sql" \in an[a].called
         /\ setting.mode = "loop" => RequiredTools \subseteq an[a].called
         /\ setting.mode = "loop" /\ an[a].change.blocking => r.risk = "HIGH"
    /\ "scan" \in an[a].extra => "scan_sql" \in an[a].called

\* The circuit is only ever open after as many failures as the threshold says
\* without a success in between, and a success recorded late closes it.
CircuitIsEarned ==
  /\ circuit.failures <= streak
  /\ circuit.until # 0 => setting.threshold > 0 /\ streak >= setting.threshold

\* Every analysis that starts comes back with a result: no waiting for a slot
\* that nobody gives back.
AnalysesEnd ==
  \A a \in Analyses :
    an[a].pc \in Running ~> an[a].pc = "done" /\ an[a].result.by # "none"

\* The guards of the paid model hold together, however analyses interleave: daily
\* quotas, calls per analysis, call slots (in TypeOK) and the circuit breaker.
GuardsHold ==
  /\ RuntimeTypeOK /\ QuotaHolds /\ QuotaIsCounted /\ CallsAreBudgeted /\ CallsAreCounted
  /\ CircuitIsEarned
=============================================================================
