# ChangeGuard in TLA+

A verification project for ChangeGuard, the release-governance service in this
repository. The modules model its control: who may move a change request where,
what a handler has read when it writes, which store call is atomic, what a crash
leaves behind. TLC checks them on small instances; TLAPS proves the central
properties for every value of the constants.

## 1. The system

A user describes a release as a *change request*: SQL, Kubernetes manifests,
configuration, a rollback plan. Deterministic rules check it; SQL is rehearsed
on a shadow database; another person reviews it; the reviewer issues a
short-lived *passport* bound to the digest of the content and of the rule set;
the CI job presents the passport to the *gate*, which consumes it once and
completes the change.

| Component | State | Operations | Talks to |
|---|---|---|---|
| Change workflow (`internal/service/service.go`) | `ChangeRequest`: status, content digest, check, findings, experiment, reviewer | Create, Update, Submit, Assign/Resolve/VerifyFinding, Approve, Reject, QueueExperiment, policies | store, checker, analyser |
| Passports and gate (`service/passport.go`, `store/passport.go`) | passports, consume audits | Issue, Verify, Consume, Revoke, expiry | store; CI jobs over HTTP |
| Experiment outbox (`store/outbox.go`, the worker in `service.go`) | events with lease, generation, attempt, stage, digest | queue, claim, renew, checkpoint, finalize, complete, fail, retry | store, shadow runner |
| Idempotent requests (`service/idempotency.go`, `store/idempotency.go`) | one record per (organization, actor, operation, key) | begin, complete, abort, takeover, reconcile | store |
| Store (`internal/store`) | the whole state in memory, saved to a file or to PostgreSQL on every mutation | one critical section per mutation, roll-back when the save fails, recovery in `New` | disk, PostgreSQL |
| Audit chain (`internal/audit`) | hash-chained events | append, verify | store |
| Organization (`store/organization.go`, `auth/enterprise.go`) | organisations, users, invitations, applications, grants | register, invite, accept, update member, save application | auth |
| Authentication (`internal/auth`) | sessions, login flows, attempt windows | login, callback, limit, logout | Redis or memory |
| Agent gateway (`internal/agentgateway`) | append-only signed log, metrics file, token buckets | proxy with audit before and after, probes | upstream |
| Go agent runtime (`internal/agent`) | circuit breaker, quotas, call slots | one-shot call or bounded tool loop | model provider |
| Integrations and outcomes (`internal/integration`, `service/outcome_signals.go`) | pipeline events, outcome signals | webhooks, record, governance figures, summary of a change | store; CI, operations systems |
| Python agent (`agent-app/app`) | tasks, executions, checkpoints, budget ledger | create, clarify, resume, cancel, confirm, edit, link, archive, restore, delete | model provider, Go API |
| Rule checkers, release windows (`internal/checker`, `internal/changegate`, `internal/conflict`) | policies with versions | check, window findings, radar, digests | workflow, CI gate client |
| Evidence bundle (`internal/evidence`) | none | export from a snapshot, offline verify | state file |
| Reports | none | pure functions | - |
| HTTP API, CLIs, deployment scripts, web client | none a gate reads | - | - |

What is hard about it:

* **Read, unlock, decide, lock, write.** Every handler reads the change under the
  store's read lock, decides on that copy, and calls a store mutation whose
  closure is applied to whatever the change has become. Each closure tests again
  only some of what its handler tested.
* **Two writers for one status.** Users, CI jobs and the experiment worker all
  move the change's status.
* **Leases and fencing.** A worker may go on after its lease was taken over.
* **Crashes between two saves**, for instance between an edit and the revocation
  of the old passports, or between creating a change and recording its answer.
* **Several instances.** Over PostgreSQL each process has the whole state in memory
  and saves it as a whole; what it remembers may be stale.
* **Acknowledgements.** A commit that PostgreSQL stored may come back as an error.
* **Two files for one state.** The file backend writes a witness, a marker and the
  state one after the other; a crash leaves any prefix, and an older release may run
  in between.
* **Writes that fail half-way.** The gateway's log is appended to and verified as a
  whole at the next start.
* **Senders that repeat, delay and reorder.** Webhooks are delivered any number of
  times, in any order, to several handlers.
* **One event loop.** The Python agent has no locks; every await is a point where a record
  that was read can go stale and an execution can lose its task.
* **Two computations of one thing.** The digest is computed by the server and by CI,
  conflicts by the check and by the radar, outcomes by two views.

What makes each modelled component correct:

* workflow: nobody releases his own change; a passport rests on a check and, for
  SQL, on a rehearsal of exactly the content it is bound to;
* passports: at most one live passport per change, used at most once and by one
  consumer, final once consumed, revoked or expired; a change completes exactly
  when a passport of it is consumed;
* outbox: only the latest lease stores a report, one report per attempt, a waiting
  change has an event that will serve it, every event is settled in the end;
* idempotency: one change per key, the same answer to every repetition, and a
  stored change becomes the recorded answer;
* shared state: an instance never overwrites what another one saved, the passport
  table never goes back, the audit chain verifies and forgets nothing;
* file store: it opens again, with what was acknowledged and the digests recorded for
  it; a refused operation leaves no trace;
* organisations: keys are unique and grants stay inside, an administrator remains,
  an invitation admits one member, a login flow one callback;
* gateway: nothing is forwarded without a record, flags and readiness tell the truth
  about the files, counters go on;
* agent runtime: quotas, call budgets and the circuit hold for concurrent analyses, an
  accepted verdict is grounded in evidence;
* outcomes and evidence: accepted messages are kept once, figures do not depend on the
  order of arrival, a bundle verifies and only as it was exported;
* release checks: conflicting windows are seen, findings follow from content and rule
  version, the digest binds the content;
* agent tasks: a task under way has one execution that will end it, draft, scan, confirmation
  and input belong together, every request sent is counted, and no writer takes back what
  another one wrote.

## 2. Modules

| Module | Models | Role |
|---|---|---|
| `ChangeWorkflow` | one change, its passports, its experiments, handlers in flight | the core specification |
| `OneTimePass` | what a passport promises | abstract specification |
| `MCChangeWorkflow` | - | constants and symmetry for TLC |
| `ChangeWorkflowProofs` | - | types, separation of duties, evidence; the gate's invariants and the refinement; conflicts, rule versions and digests of several changes |
| `ExperimentOutbox` | leases, attempts, recovery of the outbox | detailed view of what `ChangeWorkflow` calls jobs |
| `OutboxProofs` | - | the invariant of the outbox, fencing |
| `IdempotentCreate` | requests with one idempotency key | own component |
| `MCIdempotentCreate` | - | the bodies of the requests for TLC |
| `IdempotencyProofs` | - | types, one change per key, equal answers; webhooks recorded and audited once |
| `SharedState` | several instances over one PostgreSQL database | own component |
| `MCSharedState` | - | symmetry for TLC |
| `SharedStateProofs` | - | payload and tables agree, one consumer, what no step undoes |
| `FileStore`, `MCFileStore` | state file, witness, marker, instance lock | own component |
| `FileStoreProofs` | - | the store opens as it was left, refusals leave no trace |
| `Accounts` | the enterprise tables and the store methods on them | what the handlers call |
| `Enterprise`, `MCEnterprise` | the handlers of `auth` and of applications over `Accounts`, sessions, flows, attempt windows | composition |
| `EnterpriseProofs` | - | keys of the tables, checks of the handlers, limits of logins, what is final |
| `AgentGateway`, `MCAgentGateway` | limiter, audit log, counters, proxy, restart | own component |
| `AgentGatewayProofs` | - | what the flags, the audit log and the counters of the gateway promise; quotas, budgets, circuit and grounding of the runtime |
| `AgentRuntime`, `MCAgentRuntime` | `Analyze` with circuit, quotas, slots and tool loop | own component |
| `Outcomes` | webhooks, recorded events and signals, figures and summaries | own component |
| `EvidenceBundle`, `MCEvidence` | export and verification of a bundle over `Outcomes` | composition |
| `RuleCheckers` | redaction, digests, rules, policy versions | operators |
| `ReleaseChecks`, `MCReleaseChecks` | several changes, their checks, windows and policies over `RuleCheckers`; the radar | composition |
| `AgentTasks`, `MCAgentTasks` | one task of the Python agent: record, executions, graph and checkpoint, requests in flight, ledger | own component |
| `AgentTaskProofs` | - | executions, material and records of a task |

### ChangeWorkflow

A handler is a `Begin...` action (the reads and the tests on the copy) and a
`Commit...` action (the closure under the store's lock). What it remembers in
between is a record in `calls`. `Abandon` is a handler that ends without its next
store call (a failed save is rolled back), `Restart` a process that stops anywhere
and starts again (`store.New` materialises expired passports,
`EnsureExperimentOutbox` replaces a lost event).

`Submit` is three actions: the read; revocation and rule check; the commit.
`Update` is read, commit and the revocation sweep. `IssuePassport` is the decision
on the copy, the comparison with the current rules, and `CreatePassport`.
`VerifyGate` with `consume` is the reads and then `UsePassport`, one critical
section with three outcomes. Without `consume` it writes only when it meets an
expired passport.

Abstractions: an artifact is the digest of everything the passport is bound to,
the environment included. The findings of a check are one finding, the last
blocking one to be verified; its id is new, or, as that of a release window, the one
the next check gives again (`FindingIds`), so that a late remediation may meet the
finding of a later check. The rule check returns any member of `Outcomes`; the
experiment is trusted or not. `AddComment`, application grants, the deactivation
of users and the trusted-source test are left out: they only refuse, or touch
nothing a decision reads. The gate's three reads (passport, change, policies) are
one step, and so are Submit's revocation and its read of the policies. A token is the
passport it names. The variables `evaluated`, `passed` and `rehearsed` are history.

### ExperimentOutbox

One action per store call of a worker, with a program counter. Deadlines are
flags: `leased` is "now is before LockedUntil", `due` is "NextAttemptAt has
passed". The claim takes any eligible event where the code takes the one due
longest. Events stored by old versions without an input digest, and events for
changes without SQL, are left out. `Revise` is an edit and resubmission, which
`ChangeWorkflow` has in detail.

### IdempotentCreate

One key, several requests, each with a body. The store calls are `Claim`,
`TakeoverIdempotency`, `Execute` (the creation of the change),
`CompleteIdempotency` and `AbortIdempotency`. The claim token is random and known
to one request, which stands for it. `GraceEnds` is the recovery grace that
passes after the owner is gone, `GraceEndsEarly` one that passes under a slow
owner. The operations queue, approve and issue go through the same
`executeIdempotent` with reconcilers of their own and are not modelled yet.

### SharedState

`db` is the row `dbguard_state`, `rows` and `auditRows` the tables of passports and
audit events, `mem` what each instance has in memory. An operation of the store is one
action: the instance's lock is held throughout, a refused save stays refused whatever
commits before the reload, and a transaction under `FOR UPDATE` is atomic. `Saved` and
`NotSaved` are the outcomes of `saveLocked`; the latter takes what the operation puts
back afterwards (`Undo`). `Refresh` is one round of the refresh loop: it reads before it
takes the lock, but what commits in between might as well commit after it. `Restart` is
`NewPostgres`.
Left out: the tables of changes, outbox events and idempotency records and the
transactions that work on them. One change, which is APPROVED or COMPLETED, stands for
all; `ChangeWorkflow` has its life cycle.

### FileStore

One action per file that a save replaces: `WriteWitness`, `WriteMarker`, `WriteState`;
`Start` is `newFileStore` and `New` up to the save it ends with, `Crash` stops a
process between any two files, `Fail` is a write that fails and the restore that
follows, `OldRelease` a release from before the witness that rewrites the state
without digests. A change is its redacted body, its digest and a revision; `Redact` maps
two originals to one body, which is why a digest cannot be computed again. The
replacement of one file is atomic (temporary file, sync, rename), and the state file is the
last of the three, so that an operation has succeeded when it is replaced: `acked` remembers
what that left. Power loss between a rename and the sync of the directory is left out.

### Accounts and Enterprise

`Accounts` has one action per store method with the tests it makes under the lock (`May...`).
`Enterprise` has the handlers: `Start` reads and decides, `Check` is a further read
that the decision uses, `Change` calls the store. `overtaken` records that what a
handler checked had changed before the store changed it. The session repository is the
one in memory or Redis; `Restart` loses the former. What the identity platform answers
is any subject with an address `EmailsOf` allows; verification of its tokens is
external. An attempt window is numbered, so that attempts let in before a reset are
still counted to their window.

### AgentGateway

A request takes limiter, log and counters one after another, each an action. A write
fails before any byte, inside the record, before its newline or after all bytes; a stop may
cut it short in the same places. So the file is a sequence of pieces: a record that a newline
follows or not (`nl`), or a `Fragment`. Two records without a newline between them are on
one line. The next start verifies the log (`IsChain`) and the checkpoint or refuses; like
`bufio.Scanner` it takes a last line without its newline. A record's MAC is its identity. What
the log held when it was opened (`loaded`) and what its state promised a request that was
forwarded (`sealed`) are history. The injection flags and durations, which are copied, are
left out.

### AgentRuntime

One action per use of shared state (circuit, quota, slot) and per answer of the model,
which is any of the kinds the code tells apart. The date of a reservation is read before
the lock, as in the code. A request that waits for a slot with a context that is done may
still be given one, for a call that fails at once. `streak` and `slipped` are history. The result never
reaches a gate; what matters is spending, grounding and that it comes back.

### Outcomes and EvidenceBundle

A message may arrive at any handler any number of times; a handler verifies, parses and
looks the change up, and the store then records it unless it is known. `GovernanceOutcomes`
(the outcome part of the governance figures) and `OutcomeSummary` are operators on what is recorded, and
the properties compare them with definitions by sets of ticks, with each other and
with themselves under another order of arrival. The audit chain is one list for all
organisations with links per organisation. `Export` and `Verify` are operators; a digest
of a section is the section, and `ProofIsRigid` lets the manifest be made anew, because it
is not signed.

### RuleCheckers and ReleaseChecks

A text is the set of lines, documents or statements in it, each with the attributes the
rules tell apart; splitting text is left out, redaction and the tests on redacted values
are not. A digest is what it is taken of. In `ReleaseChecks`, `Update` and `Submit` are split
as in `ChangeWorkflow`; the later steps of a change appear as what they do to its status.
Dependencies of applications are constant there (`Enterprise` changes them). Time is
in half hours. Counters of policy hits are left out.

### AgentTasks

One process, one event loop, and an instance lock: the code between two awaits is one
action. A task's record is `rec` (`TaskRepository.save` writes the file and then the
memory, so both agree); an execution in `exec` is the asyncio task that runs the graph of
`workflow/graph.py` node by node (`ScreenInput`, `CheckInfo`, `RetrieveEvidence`, `Post` and
`Respond` for a model request, `RunCheck`, `Finalize`), leaves a checkpoint `cp` after each
node and stores its result (`PersistTerminal`). `live` is the table `_executions`,
`problem` the report `_problems`. A request that awaits something is two or three actions
(`ClarifyBegin`/`ClarifyCommit`, `ResumeBegin`/`ResumeInspect`/`ResumeCommit`,
`LinkBegin`/`LinkCommit`); the others are one. `Dispatch` is `_dispatch_or_fail` with its
three outcomes: started, marked FAILED, or neither save succeeded. An execution told to
stop is `ending`: it meets `CancelledError` at its await and writes nothing more.
Requirement, slots and snapshot are one input, a draft is one content; what retrieval, the
model and the scan answer is arbitrary. The ledger counts requests; its token and cost
limits refuse in the same place for the same reason. The audit events of a task are left
out except for those `delete_preview` looks for (`worked`).

## 3. What TLC checks

| Run | Question | Result |
|---|---|---|
| `gate_races` | issue, consume, expiry, revocation, edits and restarts interleaved | `OneActivePassport`, `LedgerAgrees`, `PassportIsFinal`, `CompletionIsConsume`, `OneTimePassSpec` hold |
| `revisions` | edits, checks, remediation, experiments and review interleaved, content with and without SQL | `SeparationOfDuties`, `PassportEvidence` hold |
| `outbox` | two workers, lost leases, failing calls, restart, retry, edit, under fairness | `OutboxInv`, `FencedReports`, `WorkSettles` hold |
| `idempotency` | three requests, two bodies, crashes, failures, takeovers, a lost acknowledgement, under fairness | `CreatedOnce`, `SameAnswers`, `StoredIsReplayed` hold |
| `instances` | two instances that lose races, put stale copies back, and meet an outage or a lost acknowledgement | `PayloadAgrees`, `OneConsumer`, `PassportsAreFinal`, `EditsAreKeptWhenReachable` hold |
| `file_store` | crashes between files, a failing write, two processes, an older release, under fairness | `OpensAsLeft`, `RefusedLeavesNoTrace`, `OpensAgain` hold |
| `enterprise` | two requests in flight over the tables of two organisations, a reload | `KeysHold`, `ChecksHold`, `LoginsAreLimited`, `JoinsAreFinal` hold |
| `gateway` | two requests, a failing write, a stop and a start, under fairness | `FlagsAreHonest`, `RecordsAreComplete`, `CountersContinue`, `RequestsEnd` hold |
| `agent_runtime` | two analyses, two configurations, a cancel, midnight, under fairness | `GuardsHold`, `AcceptedIsGrounded`, `AnalysesEnd` hold |
| `evidence` | messages of three kinds, late, repeated, reordered, a failing save | `RecordsHold`, `FiguresHold`, `BundlesBind` hold |
| `release_checks` | two changes edited and submitted while policies change | `ConflictsAreSeen`, `RulesAreVersioned`, `ContentIsBound` hold |
| `agent_tasks` | a task that is clarified, resumed, cancelled, edited, linked and shelved while executions run, saves fail, callers leave and the process restarts | `ExecutionsHold`, `MaterialHolds`, `RecordIsKept` hold |

A name that stands for several is the conjunction of properties that are stated and
explained one by one in the module, together with what makes it inductive: `OutboxInv` has
`NobodyWaitsInVain`, `OneReportPerAttempt`, `Generations`, `Current` and `CompletedIsServed`,
`WorkSettles` has `EventsSettle` and `ExperimentAnswered`;
`PayloadAgrees` has `ChainVerifies`, `RowsLead`, `CopiesAgree`,
`OnePlace`, `AnswersHold` and `InStep`; `OpensAsLeft` has `ReopensAsLeft`, `EvidenceKept`,
`OneHolder`, `FileIsLast` and `WitnessCovers`; `KeysHold`, `ChecksHold`,
`LoginsAreLimited`, `JoinsAreFinal` group the properties of the enterprise tables by who keeps
them, with `References` and `SubjectsUnique` (of `KeysHold`), `ChecksCarried` (of `ChecksHold`),
`FlowsAreTaken` and `CountersCover` (of `LoginsAreLimited`) making them inductive; `ExecutionsHold` has `Supervised`, `OneRunner`, `WaitingAndShelved`,
`RequestsAreCounted`, `RunnerIsAlone` and `ResumesAreSafe`, `MaterialHolds` has
`DraftMatchesInput`, `ReadyIsScanned` and `ConfirmedIsCurrent` of the record, of what
executions and requests carry and of the checkpoint; the other modules likewise. The type invariant of a module is one of the parts,
or proved (`ChangeWorkflow`, `IdempotentCreate`).

### Known divergences

Found with the same modules; the definitions named here state the promise and TLC refutes
them when they are put into the cfg that is named (with larger bounds where said).

1. `ReleasedOnce` (`ChangeWorkflow`, GateRaces.cfg). `Approve` tests
   `WAITING_APPROVAL` before the lock and its closure does not (service.go:1249). Two
   approvals of the same reviewer are in flight; the first commits, a passport is issued
   and consumed, the second commits and the completed change is APPROVED again, can be
   given another passport and released again. docs/architecture.md:112 says that a
   COMPLETED change can neither be issued nor consume a passport again. Each passport is
   still used once: `OneTimePassSpec` holds.
2. `ReleasedWasEvaluated` (`ChangeWorkflow`; two artifacts, two passports). `Submit`
   checks a copy and stores its verdict over content an `Update` replaced meanwhile
   (service.go:763). On its own that is caught, since the `CheckRun` names the checked
   digest; but if the check had blocked, `VerifyFinding` rewrites the `CheckRun` to the
   digest the change has now (1187). docs/api.md:302 says that changed content must be
   checked again.
3. `OneChangePerKey` (`IdempotentCreate`, Idempotency.cfg). `executeIdempotent` aborts its
   claim on every error, also when the change was stored (service/idempotency.go:174).
   The comment at 34-35 promises one change per key for retries after a timeout.
4. `ConsumptionIsAudited` (`SharedState`, Instances.cfg). A refused save reloads the state
   with its version; `RevokePassport`, `CreatePassport` and `RevokePassportsByChange` then
   assign the lists they copied before the call (store/passport.go:61, 246, 275). The next
   save passes the version check and drops what another instance had committed, here the
   audit of a consumption (docs/enterprise-operations.md:191). The tables are not affected,
   and the shortened chain still verifies, so that nothing reports the loss.
5. `EditsAreKept` (`SharedState`, Instances.cfg). The refresh loop advances data and version
   and not `persisted` (backend.go:250). A save that fails while the database is out of
   reach falls back to `persisted` and keeps the version; the next save overwrites the
   edits in between, against backend.go:54 and the test backend_test.go:52.
6. `VerifiedReopens` (`AgentGateway`, Gateway.cfg). `verifyExisting` takes a last record whose
   newline is missing (audit.go:114-149), which a write one byte short or a stop at that byte
   leaves. The next `Append` continues on the same line (178) and succeeds; the log is called
   verified, requests are forwarded and `/health/ready` answers ok, while the next start
   refuses the file as not valid JSON. deploy/agent-gateway/OPERATIONS.md:44 says that
   readiness fails closed if the chain cannot be verified. Only a read of the recent events
   notices it before, as long as the line is in the tail it reads (`ReadEvents`).

Exceptions that properties state, each the exact shape of a gap in the code:

* `KeepsAnAdmin`, `NoDependencyCycle`: the count of administrators (enterprise.go:332) and
  the cycle test (service.go:1859) are made before the store's lock. Two administrators
  can demote each other; two edits can close a cycle.
* `EmailsUnique`: single sign-on changes an address without comparing it (organization.go:636).
* `QuotaHolds`: with counts in memory, a reservation that read the date before midnight and
  is counted after a later one resets the later day (runtime.go:1066). With Redis it holds.
* `VerifiedIsAChain`, `ReadyIsHonest`, `ForwardedIsRecorded`: the line that divergence 6 joins.
  The records on it are there, complete and linked; what is lost is that they can be read as
  lines. The request forwarded right after such a start has its record on that line, and those
  after it have theirs behind it in a file that no longer opens.
* `EvidenceKept`: an older release that rewrites a state after a save was cut short between
  witness and state is given the digests of the interrupted operation
  (migration_witness.go:124). `OpensAgain`: a first save cut short after its witness leaves
  a store that never opens (109).
* `RulesAreVersioned`: the loop over scoped patterns (checker.go:77) does not ask whether a
  policy is enabled, the rule version does; docs/architecture.md:7 says that the same content
  and rule version have the same findings.
* `RemediationCounted`: only the earliest incident or rollback of a change is remembered
  (service.go:2304), which hides a later one after a second deployment.
* `ProofIsRigid`: the last event and events of older releases can be cut out of a proof
  whose manifest is made anew (bundle.go:329).
* `WindowConflictsSeen`: a check that an edit of the change overtook is excepted.
* `DraftMatchesInput`, `ReadyIsScanned`: `resume` compares the version of the checkpoint with the
  copy of the record it read before its awaits (service.py:491) and afterwards only execution
  and status. A clarification in between changes the execution, unless the save of its dispatch
  fails: then the old checkpoint is continued, and its draft stored, under the new input.
* `Supervised`: when both saves of a dispatch fail, the record says that the task is under way
  and nothing reports it until the next start (service.py:1526).

Some things a reader of the code should know besides. The late commit of `Submit` can
also put content with SQL into WAITING_APPROVAL that was never rehearsed;
`IssuePassport` refuses it (`PassportEvidence`). And a claim whose owner crashed before
it created anything stays PENDING for good: no branch of `claimIdempotency` executes
again (service/idempotency.go:238), so the client has to choose another key. In the
Python agent `check_info` does not look at the answer to its last question
(workflow/graph.py:333), and the versions of drafts start at 1 in every run, so that the
`expected_version` of an edit cannot tell the drafts of two runs apart.

### Bounds

* Two handlers in flight (`Calls`): every race above is between two handlers, and a
  third one's effect between a read and a commit can be had by one that begins and
  commits there. Workers and the clock run besides.
* `gate_races`: one artifact (the digest comparison is exercised by `revisions`), two
  rule versions, two passports, two consumers, three clock values around a lifetime of
  one: a passport can be live, expire and be followed by another.
* `revisions`: one artifact with SQL and one without, and two checks, so that a verdict on
  one check can meet the findings of the next, with another id or the same; the submitter is
  also a reviewer.
* `outbox`: two workers, two events, two attempts, and any two of a lapse under a running
  worker, a failing call, a restart, a retry and an edit (`MaxSpent`). One `QueueExperiment`
  at a time: two at once are too many states together with liveness.
* `idempotency`: two requests with the same body and one with another; a request that
  ended may be sent again, so that retries are not bounded by the number of requests.
* `instances`: two instances, two passports, two consumers and five versions: create,
  consume or revoke, a save of stale state, and an attempt to use it. One save, consume or
  acknowledgement may fail.
* `file_store`: two processes, two changes, three originals of which two have one redacted
  body, three operations, two crashes, one failing write, one run of the older release.
* `enterprise`: two requests in flight over two organisations with two administrators,
  one member with single sign-on, an open and an accepted invitation and three applications,
  two of which can be made to depend on each other; windows of one attempt and one tick.
* `gateway`: two requests of one principal that compete for one token, one failing write
  (before the record, inside it, before its newline, after it) and one stop, which may cut a
  write short as well; two counter windows. A joined line takes a stop, a start and two
  records.
* `agent_runtime`: two analyses of one user, a limit of one per organisation, one slot, two
  rounds, one retry; the tool loop with counts in memory, and the one-shot call with Redis;
  two days.
* `evidence`: seven signals and four pipeline events, of which any three arrive, a repetition
  being an arrival; incident opened, resolved and opened again, contradictory ends of a
  rollback, a wrong organisation, a message without identity or change. Three arrivals are
  enough for every pair in either order with a third between or repeated.
* `release_checks`: two changes, four inputs (two configurations that are stored alike, SQL, a
  manifest), five rules, one edit of a change or of a policy, two submissions.
* `agent_tasks`: two waiting requests, three executions that can be told apart, four acts of the
  user (the creation, and three that meet each other and the execution), two failing saves or
  restarts, two inputs of which one is incomplete, two contents, two model requests, one revision,
  two questions. Two failures are what a dispatch or a result can lose; three acts are enough for
  a clarification, a resume and a cancellation, or a run, a confirmation and another run.

Symmetry is declared for interchangeable identifiers and only in runs without
liveness. The deadlock check is off where the system may rest: every event settled, every
analysis answered, the users' bounds used up.

### Fairness

`outbox`: a worker claims whenever something is due (it polls on a ticker
and is woken by the queue), its store calls return (the runner works under a
deadline), back-off and abandoned leases run out. Users, operators and failures owe
nothing, and failures are bounded: nothing settles under an endless series.
`idempotency`: requests in flight go on, time passes, and clients retry; without the last
one a client may give up and the record stays PENDING by right.
`gateway`: the goroutine of a request goes on (every step has a deadline or is local);
callers, probes, failures and starts owe nothing. `agent_runtime`: an analysis goes on (the
HTTP client has a timeout); time and cancellation owe nothing. `file_store`: a
process that ended is started again (`Restart=on-failure` in
deploy/production/changeguard.service after a crash or a refused start, the upgrade that
stopped it after an orderly stop), and a save that has begun goes on or fails.

## 4. What is proved

All for arbitrary constants that satisfy the named assumptions.

| Theorem | Statement |
|---|---|
| `ChangeWorkflowProofs!TypeCorrect` | `Spec => []TypeOK` |
| `ChangeWorkflowProofs!FourEyes` | `Spec => []SeparationOfDuties` |
| `ChangeWorkflowProofs!EvidenceBehindPassports` | `Spec => []PassportEvidence` |
| `ChangeWorkflowProofs!AtMostOneActive` | `Spec => []OneActivePassport` |
| `ChangeWorkflowProofs!LedgerTheorem` | `Spec => []LedgerAgrees` |
| `ChangeWorkflowProofs!FinalPassports` | `Spec => PassportIsFinal` |
| `ChangeWorkflowProofs!CompletionTheorem` | `Spec => CompletionIsConsume` |
| `ChangeWorkflowProofs!Refinement` | `Spec => OneTimePassSpec` |
| `IdempotencyProofs!TypeCorrect` | `Spec => []TypeOK` |
| `IdempotencyProofs!CreateOnce` | `Spec => []CreatedOnce` |
| `IdempotencyProofs!SameAnswer` | `Spec => []SameAnswers` |
| `IdempotencyProofs!ClaimsExclude` | `Spec => []ClaimsHold` |
| `OutboxProofs!OutboxCorrect` | `Spec => []OutboxInv` |
| `OutboxProofs!Fenced` | `Spec => FencedReports` |
| `SharedStateProofs!PayloadAlwaysAgrees` | `Spec => []PayloadAgrees` |
| `SharedStateProofs!ConsumedByOne` | `Spec => []OneConsumer` |
| `SharedStateProofs!PassportsStayFinal` | `Spec => PassportsAreFinal` |
| `SharedStateProofs!EditsStay` | `Spec => EditsAreKeptWhenReachable` |
| `FileStoreProofs!StoreOpensAsLeft` | `Spec => []OpensAsLeft` |
| `FileStoreProofs!RefusalLeavesNoTrace` | `Spec => []RefusedLeavesNoTrace` |
| `EnterpriseProofs!KeysAlwaysHold` | `Spec => []KeysHold` |
| `EnterpriseProofs!ChecksAlwaysHold` | `Spec => []ChecksHold` |
| `EnterpriseProofs!LoginsStayLimited` | `Spec => []LoginsAreLimited` |
| `EnterpriseProofs!JoinsStayFinal` | `Spec => JoinsAreFinal` |
| `AgentTaskProofs!ExecutionsAlwaysHold` | `Spec => []ExecutionsHold` |
| `AgentTaskProofs!MaterialAlwaysHolds` | `Spec => []MaterialHolds` |
| `AgentTaskProofs!RecordsAreKept` | `Spec => RecordIsKept` |
| `AgentGatewayProofs!FlagsAreAlwaysHonest` | `Spec => []FlagsAreHonest` |
| `AgentGatewayProofs!RecordsStayComplete` | `Spec => []RecordsAreComplete` |
| `AgentGatewayProofs!CountersOnlyGrow` | `Spec => CountersContinue` |
| `AgentGatewayProofs!RuntimeGuardsHold` | `RuntimeSpec => []GuardsHold` |
| `AgentGatewayProofs!AcceptedStaysGrounded` | `RuntimeSpec => []AcceptedIsGrounded` |
| `IdempotencyProofs!RecordsAlwaysHold` | `OutcomesSpec => []RecordsHold` |
| `ChangeWorkflowProofs!ConflictsAlwaysSeen` | `ChecksSpec => []ConflictsAreSeen` |
| `ChangeWorkflowProofs!RulesStayVersioned` | `ChecksSpec => []RulesAreVersioned` |
| `ChangeWorkflowProofs!ContentStaysBound` | `ChecksSpec => []ContentIsBound` |

The arguments:

* **Evidence.** `PassportEvidence` alone is not inductive: between the decision of
  `IssuePassport` and `CreatePassport` the evidence is in the handler's memory, and a
  check or report on its way to the store is in another's. `ReleaseInv` adds
  `CarriedEvidence`: what a handler in flight carries was passed and rehearsed. The
  history sets only grow, so what was true at the read is true at the commit; the
  proof needs nothing about the change not having moved.
* **Gate.** `GateInv` is `OneActivePassport`, `LedgerAgrees` and `ConsumeCarries`
  (a consuming handler carries the content of the passport it names). Uniqueness
  comes from `CreatePassport`, which tests for a live passport under the same lock.
* **Refinement.** The pass state of a passport is its status with EXPIRED and REVOKED
  both withdrawn; `CommitIssue` maps to `Issue`, `ConsumeFirst` to `Use`, the rest to
  `Withdraw` or a stutter.
* **Idempotency.** `ClaimInv` says who may still create: while no change is stored,
  only the holder of the current generation is between claim and execution, and a
  result on its way to the record is the stored change. The theorems hold
  until an acknowledgement is lost, and not after it (divergence 3).

* **Outbox.** A report is accepted if the worker's generation is the event's, which gives
  `FencedReports`. `Generations`: no worker is ahead of its event, no attempt is ahead of the
  generation that drew it, and an event that is at the attempt of a stored report knows that
  it has reported, so no attempt reports twice. `CompletedIsServed`: a worker of the
  current generation that is about to complete the event queued last knows that the change
  waits no more, so nobody waits in vain.
* **Shared state.** Every list of passports anyone holds (the row, a memory, a
  `persisted`) has each passport in one place (`OnePlace`) and agrees with the table
  wherever the table is final (`CopiesAgree`). Whatever stale list is saved, `SyncRows`
  then only lets rows grow (lemma `Growing`), so that nothing ever returns from used or
  revoked. `InStep` (equal versions, equal data) is what `EditsAreKeptWhenReachable`
  rests on.
* **File store.** `OneHolder`: who saves has the lock, and memory is the last state plus the
  operation under way. `FileIsLast`: the file is the last acknowledged state, with or
  without its digests. `WitnessCovers`: the witness's current or previous snapshot is that of
  the file; operations are numbered, so that the two cannot be confused.
* **Enterprise.** The tables only grow (`Grown`), and members and applications stay in their
  organisation, so what a call looked up still exists however much later it goes on
  (`Fits`, in `References`); everything else in `KeysHold` is tested by the store's method in
  the same step. `ChecksHold`: a call that is about to change a member or an application carries
  what its handler found (`Carries`): another administrator, no new cycle. If nothing has
  changed since, that is still so; if something has, the step marks it as overtaken. For an
  application that does not exist yet the handler looks for no cycle, and the lemma
  `NoNewCycle` says why it need not. `CountersCover`: the counter of a key has counted every
  call it let in, and windows are numbered, so that a reset cannot lend a place to a call of
  an earlier window. `SeedAssumption` says what tables the process may start with; it is what
  registration, invitations and settings leave.
* **Agent tasks.** `RunnerIsAlone`: while an execution runs, the record is the one it works on
  and nobody else's dispatch is under way. `ResumesAreSafe`: the execution that a
  resume under way remembers runs no more, and as long as the record still names it the
  graph can be continued from where it waits.
* **Gateway.** The log in memory may fall behind its file (a record that was written and not
  synced) but never ahead of it (`CountsItsRecords`), so a log that is verified, or was never
  failed (`FaultlessIsAChain`), is continued by the next record. A piece that lacks its newline
  makes the log unverified, unless the process found it as the last when it opened the file
  (`loaded`); hence at most that one line is joined while the log is called verified, and only
  a failed write makes a start refuse. A record is written only when its
  request has none of the kind (`RecordsOfRequests`), which gives the order, and a piece
  more leaves the records and newlines before it as they were. Counters that are not marked as
  unsaved are those in the file, and these add up (`FileIsSaved`); a window that has passed is
  another window, so within one the counters only grow.
* **Agent runtime.** `RuntimeInv` says of every analysis, wherever it is: `Budgeted`, the calls
  it has made are covered by the rounds and retries it is at, and it was admitted before the
  first; `Grounded`, what it may cite it has called. Of what they share: the slots taken are the
  analyses that are calling, a reservation counted is one an analysis carries (`QuotaIsCounted`,
  with its exception), and an open circuit was earned by failures in a row
  (`CircuitIsEarned`). A step moves one analysis (`Moves`), so the proof has one lemma per
  step of an analysis and one for the shared counts.
* **Recorded outcomes.** `RecordsInv`: the list of events, the list of signals and the audit
  chain are tied record by record (`Recorded`: every record has its one audit event and no two
  have the same identity), so that a message that is known is not recorded again and one that
  is recorded is audited in the same step. A request in flight carries the record of its
  message (`CallOK`), so that it does not matter when it is stored. The lists only grow, and
  so do the changes there are, so that a link stays a link.
  `OutcomesAssumption` says what may be stored before: audit events of other kinds.
* **Several changes.** `ChecksInv` has three parts. `Current`: a submission whose change nobody
  wrote since holds the change as it is. `AllNamed`: of two results of checks that count,
  stored or still on their way, one names the other's change when the windows conflict. Only
  `Check` adds a result, and it names every change that has one; everything else that writes a
  change makes the calls that read it stale, or keeps its result and its plan. `FromRules`: the
  findings are those of some earlier policies under the version stored with them. Policies
  only gain codes and versions (`Older`), so an equal version means equal enabled policies
  (`SameVersion`), and equal policies fire alike (`FindingsFire`). For the digest: every stored
  artifact is the redaction of what it was made of (`StoredArtifact`), redaction is idempotent
  (`RedactTwice`) and hides nothing from the rules (`ConfigFlagged`, `ManifestFlagged`), and two
  lists of artifacts have the same sums exactly if they were made of the same files
  (`DigestsTell`). For the radar: a change that gets riskier or is observed longer keeps its
  reasons and overlaps at least as much (`ConflictKept`). `ChecksAssumption` says what an input
  and a saved policy look like, and that identifiers are numbers.

A proof module may take in two components that have nothing to do with each other
(`AgentGatewayProofs` the gateway and the runtime of the agent, `IdempotencyProofs` the two
ways in which a repeated request is recognised, `ChangeWorkflowProofs` one change with its
passports and several changes with their checks); for that the constants, variables and
actions of `AgentRuntime`, `Outcomes` and `ReleaseChecks` have names of their own
(`RuntimeSpec`, `Unset`, `OutcomesSpec`, `Nil`, `ChecksSpec`, `Nothing`).

Only model-checked: `WorkSettles`, `StoredIsReplayed`, `OpensAgain`, `RequestsEnd`
and `AnalysesEnd`, which are liveness and out of the prover's reach as fairness and ENABLED
are; and `FiguresHold` and `BundlesBind`, whose operators filter and fold sequences, about which
nothing can be proved without induction over data.

## 5. Plan

What is left is more of the system: the outbox and idempotency transactions of PostgreSQL,
the reconcilers of queue, approve and issue.

## 6. Not modelled

* Of the Python agent (`agent-app`): prompts, tools, retrieval, knowledge, the evaluation
  centre, token and cost limits, views and routes. What they return to the modelled graph
  is arbitrary; the answers are advisory and read by no gate.
* Splitting of text into SQL statements, YAML documents and configuration lines: parsing,
  whose result the rule models take as given.
* The shadow database and the model provider: external, their results are arbitrary.
* HTTP decoding other than the webhooks, the monthly report and spreadsheet, configuration,
  probes, encryption of model keys, metrics text, command-line wiring, the web client, the
  deployment scripts: input and output without a state that a decision reads.
* The verification of identity tokens: cryptography and I/O; hash collisions, forged
  signatures and guessed tokens are excluded.
* Data races on sub-objects shared by `Store.Change`'s shallow copies: listed under the
  hazards; they would need a model of Go's slices and pointers.
* `AddComment`: touches nothing that a decision reads.
