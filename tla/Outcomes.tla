------------------------------- MODULE Outcomes -------------------------------
(***************************************************************************)
(* What happens after a release: pipeline events from GitLab and Jenkins,  *)
(* incidents, rollbacks and business metrics from the operations systems   *)
(* (internal/integration, the webhook handlers of internal/httpapi,        *)
(* RecordIntegrationEvent and RecordOutcomeSignal of internal/service and  *)
(* internal/store), with the two views computed from them: the governance  *)
(* figures and the summary of one change.                                  *)
(*                                                                         *)
(* A message is what a sender has to say; it may arrive late, in any       *)
(* order, several times and at two handlers at once.  A handler verifies   *)
(* and parses it, looks its change up, and then the store records it under *)
(* its lock, unless it has it already.  Credentials are right or wrong,    *)
(* texts are model values, times are ticks of one clock.                   *)
(***************************************************************************)
EXTENDS Integers, Sequences, FiniteSets, SequencesExt

CONSTANTS
  Orgs, Commits,
  Changes,     \* identifiers of changes, numbers: the store orders them
  OrgOf,       \* the organisation of each change
  Seed,        \* the time, the changes and the audit events of older releases at start
  Pipelines,   \* messages of GitLab and Jenkins
  Signals,     \* messages of the operations systems
  Requests,    \* calls of the handlers
  WebhookAge,  \* MaxWebhookAge
  SignalAge,   \* operationsEventMaxAge
  Skew,        \* tolerated difference of clocks, five minutes
  Windows,     \* numbers of ticks that figures are asked for
  MaxTime, MaxArrivals, MaxOther,
  Nil

ChangeRecord == [commit : Commits, created : Int, version : Nat]

\* What older releases left: audit events of other kinds, of changes there are.
ASSUME OutcomesAssumption ==
  /\ Changes \subseteq Nat /\ IsFiniteSet(Changes) /\ OrgOf \in [Changes -> Orgs]
  /\ WebhookAge \in Nat /\ SignalAge \in Nat /\ Skew \in Nat
  /\ MaxTime \in Nat /\ MaxArrivals \in Nat /\ MaxOther \in Nat
  /\ Nil \notin ChangeRecord /\ Pipelines \cap Signals = {}
  /\ Seed.now \in 0 .. MaxTime /\ Seed.changes \in [Changes -> ChangeRecord \cup {Nil}]
  /\ Seed.audits \in Seq(ToSet(Seed.audits))
  /\ \A i \in 1 .. Len(Seed.audits) : LET e == Seed.audits[i] IN
       /\ e.of[1] \notin {"event", "signal"}
       /\ e.change # Nil => /\ e.change \in Changes /\ Seed.changes[e.change] # Nil
                            /\ OrgOf[e.change] = e.org

VARIABLES
  now,
  changeOf,  \* [commit, created, version], or Nil
  events,    \* the recorded pipeline events, in the order of the store
  signals,   \* the recorded outcome signals
  audits,    \* the audit events of all organisations
  call,      \* requests: pc, and the record that is to be stored
  arrivals,  \* requests so far: ReceivedAt
  acked,     \* history: messages that were answered "accepted"
  others     \* edits of changes and failed saves so far, at most MaxOther

records == <<changeOf, events, signals, audits>>
outcomesVars == <<now, changeOf, events, signals, audits, call, arrivals, acked, others>>

Existing == {c \in Changes : changeOf[c] # Nil}

-----------------------------------------------------------------------------
(* The audit chain: one for each organisation *)

NoHash == <<>>

\* audit.Digest covers every field but the hash; different events differ in it.
Digest(e) == <<e.org, e.of, e.change, e.prev>>

\* The hash of an event, or the digest of one that an older release wrote.
Anchor(e) == IF e.hash = NoHash THEN Digest(e) ELSE e.hash

\* appendAuditsLocked and audit.Link: after the organisation's last event.
AppendAudit(chain, org, of, c) ==
  LET own == SelectSeq(chain, LAMBDA a : a.org = org)
      e == [org |-> org, of |-> of, change |-> c, hash |-> NoHash,
            prev |-> IF own = <<>> THEN NoHash ELSE Anchor(Last(own))]
  IN  Append(chain, [e EXCEPT !.hash = Digest(e)])

-----------------------------------------------------------------------------
(* Changes, as far as messages name them *)

CreateChange(c, commit) ==
  /\ changeOf[c] = Nil /\ others < MaxOther
  /\ changeOf' = [changeOf EXCEPT ![c] = [commit |-> commit, created |-> now, version |-> 1]]
  /\ audits' = AppendAudit(audits, OrgOf[c], <<"change", c, 1>>, c)
  /\ others' = others + 1
  /\ UNCHANGED <<now, events, signals, call, arrivals, acked>>

\* ResubmitChange may name another commit.
ResubmitChange(c, commit) ==
  /\ changeOf[c] # Nil /\ changeOf[c].commit # commit /\ others < MaxOther
  /\ changeOf' = [changeOf EXCEPT ![c].commit = commit, ![c].version = changeOf[c].version + 1]
  /\ audits' = AppendAudit(audits, OrgOf[c], <<"change", c, changeOf[c].version + 1>>, c)
  /\ others' = others + 1
  /\ UNCHANGED <<now, events, signals, call, arrivals, acked>>

-----------------------------------------------------------------------------
(* Messages: verification and parsing *)

\* A signed message (sent # None) is good for WebhookAge around its time stamp;
\* m.auth: the signature, or the secret token, is right.
VerifyGitLab(m) ==
  /\ m.auth
  /\ m.sent # Nil => now - m.sent \in -WebhookAge .. WebhookAge

VerifyJenkins(m) == m.auth

Occurred(m) == IF m.occurred = Nil THEN now ELSE m.occurred

\* The event of a message: identity is the sender's, or comes from the whole body.
ParseGitLab(m) ==
  [org |-> m.org, status |-> m.status, change |-> m.change, commit |-> m.commit,
   occurred |-> Occurred(m),
   key |-> IF m.id # Nil THEN <<m.provider, m.id>>
           ELSE <<m.provider, m.build, m.status, m.change, m.commit, m.occurred>>]

\* Without one from the sender, job, build and status are the identity.
ParseJenkins(m) ==
  [org |-> m.org, status |-> m.status, change |-> m.change, commit |-> m.commit,
   occurred |-> Occurred(m),
   key |-> IF m.id # Nil THEN <<m.provider, m.id>> ELSE <<m.provider, m.build, m.status>>]

VerifyOperations(m) == m.auth

IsWindow(v, occurred) == v[1] < v[2] /\ v[2] <= occurred + Skew

ValidSignal(m) ==
  CASE m.kind = "INCIDENT" -> m.status \in {"OPEN", "TRIGGERED", "ACKNOWLEDGED", "RESOLVED", "CLOSED"}
    [] m.kind = "ROLLBACK" -> m.status \in {"STARTED", "SUCCEEDED", "FAILED", "CANCELED"}
    [] m.kind = "BUSINESS_SLI" ->
         /\ m.status = "OBSERVED"
         /\ IsWindow(m.baseline, m.occurred) /\ IsWindow(m.observation, m.occurred)
         /\ m.baseline[2] <= m.observation[1]
    [] OTHER -> FALSE

\* ParseOperations asks the same as validOutcomeSignal, and for a time that is
\* neither ahead nor too far back.
ParseOperations(m) ==
  /\ ValidSignal(m)
  /\ m.occurred <= now + Skew /\ m.occurred >= now - SignalAge

-----------------------------------------------------------------------------
(* The service *)

\* ChangesByOrganization lists the newest first.
NewestChange(S) ==
  CHOOSE c \in S : \A d \in S \ {c} :
    \/ changeOf[c].created > changeOf[d].created
    \/ changeOf[c].created = changeOf[d].created /\ c > d

WithCommit(org, commit) ==
  {c \in Existing : OrgOf[c] = org /\ commit # Nil /\ changeOf[c].commit = commit}

\* The change the event names, if the organisation has it, otherwise the newest
\* with the commit.
LinkedChange(e) ==
  IF e.change \in Existing /\ OrgOf[e.change] = e.org THEN e.change
  ELSE IF WithCommit(e.org, e.commit) # {} THEN NewestChange(WithCommit(e.org, e.commit))
  ELSE Nil

\* RecordIntegrationEvent up to the store.
IntegrationEvent(e) ==
  [org |-> e.org, key |-> e.key, status |-> e.status, change |-> LinkedChange(e),
   occurred |-> e.occurred, received |-> arrivals + 1]

\* RecordOutcomeSignal up to the store: the change must be the organisation's.
SignalAccepted(m) == ValidSignal(m) /\ m.change \in Existing /\ OrgOf[m.change] = m.org

OutcomeSignal(m) ==
  [org |-> m.org, key |-> <<m.source, m.id>>, source |-> m.source, kind |-> m.kind,
   status |-> m.status, change |-> m.change, entity |-> m.entity,
   sli |-> m.sli, baseline |-> m.baseline, observation |-> m.observation,
   occurred |-> m.occurred, received |-> arrivals + 1]

-----------------------------------------------------------------------------
(* The handlers *)

NoCall == [pc |-> "idle", msg |-> Nil, record |-> Nil]

Reply(c) == call' = [call EXCEPT ![c] = NoCall]

\* A request arrives; what is stored afterwards is decided here.
Arrive(c, k) ==
  /\ call[c].pc = "idle" /\ arrivals < MaxArrivals
  /\ arrivals' = arrivals + 1
  /\ call' = [call EXCEPT ![c] = k]
  /\ UNCHANGED <<now, records, acked, others>>

HandleGitLabWebhook(c, m) ==
  /\ m.provider = "GITLAB"
  /\ Arrive(c, IF VerifyGitLab(m) THEN [pc |-> "event", msg |-> m, record |-> IntegrationEvent(ParseGitLab(m))]
               ELSE NoCall)

HandleJenkinsEvent(c, m) ==
  /\ m.provider = "JENKINS"
  /\ Arrive(c, IF VerifyJenkins(m) THEN [pc |-> "event", msg |-> m, record |-> IntegrationEvent(ParseJenkins(m))]
               ELSE NoCall)

HandleOperationsWebhook(c, m) ==
  Arrive(c, IF VerifyOperations(m) /\ ParseOperations(m) /\ SignalAccepted(m)
            THEN [pc |-> "signal", msg |-> m, record |-> OutcomeSignal(m)]
            ELSE NoCall)

-----------------------------------------------------------------------------
(* The store *)

\* Mutant of Known: a record that is linked otherwise is another one.
KnownWithChange(list, r) ==
  \E i \in 1 .. Len(list) :
    list[i].org = r.org /\ list[i].key = r.key /\ list[i].change = r.change

\* There is a record of that organisation, provider (source) and identity.
Known(list, r) ==
  \E i \in 1 .. Len(list) : list[i].org = r.org /\ list[i].key = r.key

Acknowledge(c) ==
  /\ acked' = acked \cup {call[c].msg}
  /\ Reply(c)
  /\ UNCHANGED <<now, changeOf, arrivals, others>>

RecordIntegrationEvent(c) ==
  LET r == call[c].record IN
  /\ call[c].pc = "event"
  /\ IF Known(events, r) THEN UNCHANGED <<events, audits>>
     ELSE /\ events' = Append(events, r)
          /\ audits' = AppendAudit(audits, r.org, <<"event", r.key>>, r.change)
  /\ Acknowledge(c)
  /\ UNCHANGED signals

RecordOutcomeSignal(c) ==
  LET r == call[c].record IN
  /\ call[c].pc = "signal"
  /\ IF Known(signals, r) THEN UNCHANGED <<signals, audits>>
     ELSE /\ signals' = Append(signals, r)
          /\ audits' = AppendAudit(audits, r.org, <<"signal", r.key>>, r.change)
  /\ Acknowledge(c)
  /\ UNCHANGED events

\* The save fails, restoreLocked takes back what was appended; the sender sees 5xx.
RecordFails(c) ==
  /\ call[c].pc \in {"event", "signal"} /\ others < MaxOther
  /\ ~Known(IF call[c].pc = "event" THEN events ELSE signals, call[c].record)
  /\ others' = others + 1
  /\ Reply(c)
  /\ UNCHANGED <<now, records, arrivals, acked>>

Tick ==
  /\ now < MaxTime
  /\ now' = now + 1
  /\ UNCHANGED <<records, call, arrivals, acked, others>>

OutcomesInit ==
  /\ now = Seed.now
  /\ changeOf = Seed.changes /\ audits = Seed.audits
  /\ events = <<>> /\ signals = <<>>
  /\ call = [c \in Requests |-> NoCall]
  /\ arrivals = 0 /\ acked = {} /\ others = 0

OutcomesNext ==
  \/ \E c \in Changes, commit \in Commits : CreateChange(c, commit) \/ ResubmitChange(c, commit)
  \/ \E c \in Requests :
       \/ \E m \in Pipelines : HandleGitLabWebhook(c, m) \/ HandleJenkinsEvent(c, m)
       \/ \E m \in Signals : HandleOperationsWebhook(c, m)
       \/ RecordIntegrationEvent(c) \/ RecordOutcomeSignal(c) \/ RecordFails(c)
  \/ Tick

OutcomesSpec == OutcomesInit /\ [][OutcomesNext]_outcomesVars

-----------------------------------------------------------------------------
(* The governance figures: governanceOutcomesForEvidence over the records of *)
(* the last w ticks at time n.  A figure is the set of the samples it counts. *)

InWindow(t, n, w) == n - w <= t /\ t <= n

EligibleChanges(n, w) == {c \in Existing : InWindow(changeOf[c].created, n, w)}

\* deploymentOutcome, rollbackOutcome, isResolvedIncident
DeploymentFailed == {"FAILED", "UNSTABLE"}
DeploymentTerminal == DeploymentFailed \cup {"SUCCESS"}
RollbackFailed == {"FAILED", "CANCELED"}
RollbackTerminal == RollbackFailed \cup {"SUCCEEDED"}
Resolved == {"RESOLVED", "CLOSED"}

\* Mutant of Newest: what arrived last.
NewestByArrival(S) == CHOOSE r \in S : \A q \in S : q.received <= r.received

\* The record that is kept of several: the latest, of equally late ones the one
\* received last.  (The lists are read newest first and a later one must be later.)
Newest(S) ==
  CHOOSE r \in S : \A q \in S :
    \/ q.occurred < r.occurred
    \/ q.occurred = r.occurred /\ q.received <= r.received

\* One record for each of the things that Of tells apart.
NewestOf(S, Of(_)) == {Newest({q \in S : Of(q) = Of(r)}) : r \in S}

\* latestDeploymentOutcomes
LatestDeployments(evts, n, w) ==
  LET eligible == EligibleChanges(n, w)
  IN  NewestOf({e \in evts : /\ e.change \in eligible /\ InWindow(e.occurred, n, w)
                             /\ e.status \in DeploymentTerminal},
               LAMBDA e : e.change)

\* The signals of changes in the window, up to now.
SignalsOf(sigs, kind, n, w) ==
  LET eligible == EligibleChanges(n, w)
  IN  {s \in sigs : s.change \in eligible /\ s.kind = kind /\ s.occurred <= n}

Entity(s) == <<s.source, s.change, s.entity>>

LatestRollbacks(sigs, n, w) ==
  NewestOf({s \in SignalsOf(sigs, "ROLLBACK", n, w) :
              s.occurred >= n - w /\ s.status \in RollbackTerminal}, Entity)

\* One step through the signals of an incident in the order of their time.
IncidentStep(state, s, start) ==
  [observed |-> state.observed \/ s.occurred >= start,
   latest |-> s.status,
   openAt |-> CASE s.status \in Resolved -> Nil
                [] state.openAt = Nil -> s.occurred
                [] OTHER -> state.openAt,
   samples |-> IF s.status \in Resolved /\ state.openAt # Nil /\ s.occurred >= start
               THEN Append(state.samples, s.occurred - state.openAt) ELSE state.samples]

\* sort.Slice on a list that is newest first: of signals with one time, the one
\* received last comes first.
IncidentOrder(S) ==
  SetToSortSeq(S, LAMBDA r, q : \/ r.occurred < q.occurred
                                \/ r.occurred = q.occurred /\ r.received > q.received)

Incident(S, start) ==
  FoldLeft(LAMBDA state, s : IncidentStep(state, s, start),
           [observed |-> FALSE, latest |-> Nil, openAt |-> Nil, samples |-> <<>>],
           IncidentOrder(S))

\* Linked incidents: of those seen in the window, who is open, and the times
\* that resolutions took.
Incidents(sigs, n, w) ==
  LET all == SignalsOf(sigs, "INCIDENT", n, w)
      of(k) == [key |-> k, end |-> Incident({s \in all : Entity(s) = k}, n - w)]
  IN  {[key |-> i.key, open |-> i.end.latest \notin Resolved, linked |-> i.end.observed,
        samples |-> i.end.samples] : i \in {of(Entity(s)) : s \in all}}

\* businessSLIBracketsDeployment
Brackets(s, at) == s.baseline[2] <= at + Skew /\ s.observation[1] >= at - Skew

\* businessSLIOutcome: 1 better, -1 worse, 0 within the tolerance
BusinessOutcome(v) ==
  LET gain == IF v.lower THEN v.base - v.seen ELSE v.seen - v.base
  IN  CASE -v.tolerance <= gain /\ gain <= v.tolerance -> 0
        [] gain > v.tolerance -> 1
        [] OTHER -> -1

ObjectiveMet(v) ==
  v.objective # Nil /\ IF v.lower THEN v.seen <= v.objective ELSE v.seen >= v.objective

LatestSLIComparisons(evts, sigs, n, w) ==
  LET deployments == LatestDeployments(evts, n, w)
  IN  NewestOf({s \in SignalsOf(sigs, "BUSINESS_SLI", n, w) :
                  /\ s.occurred >= n - w
                  /\ \E d \in deployments : /\ d.change = s.change /\ d.status \notin DeploymentFailed
                                            /\ Brackets(s, d.occurred)},
               Entity)

Remedies(sigs, c, n, w) ==
  {s \in SignalsOf(sigs, "INCIDENT", n, w) \cup SignalsOf(sigs, "ROLLBACK", n, w) :
     s.change = c /\ s.occurred >= n - w}

\* remediationAt keeps the earliest incident or rollback of a change
\* (rememberEarliest); it is compared with the latest deployment.
RemediationRequired(sigs, d, n, w) ==
  /\ Remedies(sigs, d.change, n, w) # {}
  /\ \A s \in Remedies(sigs, d.change, n, w) : s.occurred >= d.occurred - Skew

GovernanceOutcomes(evts, sigs, n, w) ==
  LET latest == LatestDeployments(evts, n, w)
      good == {d \in latest : d.status \notin DeploymentFailed}
  IN  [deployments |-> {<<d.change, d.status>> : d \in latest},
       rollbacks |-> {<<Entity(s), s.status \in RollbackFailed>> : s \in LatestRollbacks(sigs, n, w)},
       incidents |-> {i \in Incidents(sigs, n, w) : i.linked},
       slis |-> {<<Entity(s), BusinessOutcome(s.sli), ObjectiveMet(s.sli)>> :
                   s \in LatestSLIComparisons(evts, sigs, n, w)},
       remediated |-> {d.change : d \in {d \in good : RemediationRequired(sigs, d, n, w)}}]

-----------------------------------------------------------------------------
(* The summary of one change: summarizeOutcomeSignals *)

\* latestOutcomeSignals: the comparisons of a metric over different windows are
\* different evidence.
LatestSignals(sigs, c) ==
  NewestOf({s \in sigs : s.change = c}, LAMBDA s : <<s.kind, s.observation>> \o Entity(s))

SignalStatus(s) ==
  CASE s.kind = "INCIDENT" -> IF s.status \in Resolved THEN "PASS" ELSE "BLOCK"
    [] s.kind = "ROLLBACK" /\ s.status = "FAILED" -> "BLOCK"
    [] s.kind = "ROLLBACK" /\ s.status = "SUCCEEDED" -> "PASS"
    [] s.kind = "BUSINESS_SLI" ->
         IF BusinessOutcome(s.sli) = -1 \/ (s.sli.objective # Nil /\ ~ObjectiveMet(s.sli))
         THEN "BLOCK" ELSE "PASS"
    [] OTHER -> "WARN"

OutcomeSummary(sigs, c) ==
  LET found == {SignalStatus(s) : s \in LatestSignals(sigs, c)}
  IN  CASE found = {} -> "NOT_RUN"
        [] "BLOCK" \in found -> "BLOCK"
        [] "WARN" \in found -> "WARN"
        [] OTHER -> "PASS"

-----------------------------------------------------------------------------
(* Properties *)

Keyed(list, org, key) == {i \in 1 .. Len(list) : list[i].org = org /\ list[i].key = key}
AuditsOf(org, of) == {i \in 1 .. Len(audits) : audits[i].org = org /\ audits[i].of = of}

\* Requests, records and audit events name changes that exist, of their own
\* organisation.
OutcomesTypeOK ==
  LET inside(r) == r.change # Nil => r.change \in Existing /\ OrgOf[r.change] = r.org
  IN  /\ now \in 0 .. MaxTime /\ arrivals \in 0 .. MaxArrivals
      /\ \A i \in 1 .. Len(events) : inside(events[i])
      /\ \A i \in 1 .. Len(signals) : inside(signals[i])
      /\ \A i \in 1 .. Len(audits) : inside(audits[i])
      /\ \A c \in Requests : call[c].pc # "idle" => inside(call[c].record)

\* A message that was answered "accepted" is recorded once and audited once,
\* however often and to however many handlers it was sent, with failed saves in
\* between; and whatever is recorded is audited.
AcknowledgedIsKept ==
  /\ \A m \in acked :
       LET pipeline == m \in Pipelines
           key == IF ~pipeline THEN <<m.source, m.id>>
                  ELSE IF m.provider = "GITLAB" THEN ParseGitLab(m).key ELSE ParseJenkins(m).key
       IN  /\ Cardinality(Keyed(IF pipeline THEN events ELSE signals, m.org, key)) = 1
           /\ Cardinality(AuditsOf(m.org, <<IF pipeline THEN "event" ELSE "signal", key>>)) = 1
  /\ Cardinality({i \in 1 .. Len(audits) : audits[i].of[1] \in {"event", "signal"}})
       = Len(events) + Len(signals)

\* Two records that speak of the same thing at the same time: the order of their
\* arrival decides between them.
Contested(S, Of(_)) ==
  \E r, q \in S : r # q /\ r.occurred = q.occurred /\ Of(r) = Of(q)

SignalThing(s) == <<s.kind>> \o Entity(s)

Uncontested ==
  /\ ~Contested(ToSet(events), LAMBDA e : e.change)
  /\ ~Contested(ToSet(signals), SignalThing)

\* As if everything had arrived in the opposite order.
Flipped(S) == {[r EXCEPT !.received = arrivals + 1 - @] : r \in S}

\* Figures and summaries depend on what happened and when, not on the order the
\* messages came in, unless two of them contest one thing at one time.
ArrivalOrderFree ==
  Uncontested =>
    LET evts == ToSet(events)
        sigs == ToSet(signals)
    IN  /\ \A w \in Windows :
             GovernanceOutcomes(evts, sigs, now, w)
               = GovernanceOutcomes(Flipped(evts), Flipped(sigs), now, w)
        /\ \A c \in Existing : OutcomeSummary(sigs, c) = OutcomeSummary(Flipped(sigs), c)

\* The ticks at which an incident with signals S was open and that a resolution
\* since start has ended.
TicksToResolution(S, start) ==
  {t \in 0 .. now :
     /\ \E s \in S : s.occurred <= t
     /\ Newest({s \in S : s.occurred <= t}).status \notin Resolved
     /\ \E s \in S : /\ s.status \in Resolved /\ s.occurred > t /\ s.occurred >= start
                     /\ \A q \in S : q.status \in Resolved /\ q.occurred > t
                                       => q.occurred >= s.occurred}

\* The resolution times of an incident add up to the time it really was open,
\* whatever came late, twice or not at all.
ResolutionTime ==
  Uncontested =>
    \A w \in Windows : \A i \in Incidents(ToSet(signals), now, w) :
      LET S == {s \in SignalsOf(ToSet(signals), "INCIDENT", now, w) : Entity(s) = i.key}
      IN  FoldLeft(LAMBDA a, b : a + b, 0, i.samples) = Cardinality(TicksToResolution(S, now - w))

\* The two views do not contradict each other: a change with an open incident is
\* BLOCK, and one that is summarised PASS has no open incident, failed rollback or
\* counted degradation (signals ahead of the clock and contested ones apart).
ViewsAgree ==
  LET evts == ToSet(events)
      sigs == ToSet(signals)
  IN  Uncontested /\ (\A s \in sigs : s.occurred <= now) =>
        \A w \in Windows :
          LET g == GovernanceOutcomes(evts, sigs, now, w) IN
          \A c \in Existing :
            LET summary == OutcomeSummary(sigs, c)
                open == \E i \in g.incidents : i.key[2] = c /\ i.open
            IN  /\ open => summary = "BLOCK"
                /\ summary = "PASS" =>
                     /\ \A r \in g.rollbacks : r[1][2] = c => ~r[2]
                     /\ \A r \in g.slis : r[1][2] = c => r[2] # -1

\* A successful deployment that was followed by an incident or a rollback counts
\* as remediated, except where an earlier one of the same change hides it; one
\* that was followed by nothing does not count.
RemediationCounted ==
  \A w \in Windows :
    LET counted == GovernanceOutcomes(ToSet(events), ToSet(signals), now, w).remediated IN
    \A d \in {d \in LatestDeployments(ToSet(events), now, w) : d.status \notin DeploymentFailed} :
      LET all == Remedies(ToSet(signals), d.change, now, w)
          after == {s \in all : s.occurred >= d.occurred - Skew}
      IN  /\ d.change \in counted => after # {}
          /\ after # {} /\ d.change \notin counted => after # all

\* The figures are what the signals say, not how they came in: independent of the
\* order of arrival, with the right times and remedies, and the same in both views.
FiguresHold == ArrivalOrderFree /\ ResolutionTime /\ ViewsAgree /\ RemediationCounted

\* Nothing accepted is lost, stored twice or stored under another organisation.
RecordsHold == OutcomesTypeOK /\ AcknowledgedIsKept
=============================================================================
