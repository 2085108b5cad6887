---------------------------- MODULE ChangeWorkflow ----------------------------
(***************************************************************************)
(* The life of one change request of ChangeGuard: submission and rule      *)
(* check, remediation of findings, shadow experiment, review, the one-time *)
(* passport, and the CI gate that consumes it (internal/service and        *)
(* internal/store).                                                        *)
(*                                                                         *)
(* Every HTTP handler of the service reads the change under the store's    *)
(* read lock, releases it, decides, and then calls a store mutation that   *)
(* takes the write lock.  A handler is therefore two or more actions: a    *)
(* "Begin" that reads and decides, and a "Commit" that applies the closure *)
(* to whatever the change has become.  Calls holds what each in-flight     *)
(* handler remembers between the two.  Each store mutation is one action:  *)
(* it runs under Store.mu and is saved before the lock is released.        *)
(***************************************************************************)
EXTENDS Naturals, FiniteSets, Sequences

CONSTANTS
  Artifacts,      \* digests of the bound content: files, SQL, environment, rollback
  SQLArtifacts,   \* those that carry SQL and so need a shadow experiment
  Rules,          \* rule-set versions, the digests of the enabled policies
  Users,
  Submitter,      \* the user who created the change
  Reviewers,      \* users with the role reviewer or technical lead
  Leads,          \* users with the role technical lead
  Consumers,      \* names CI jobs pass to the gate
  PassportIds,    \* bound: passports that can be issued
  Calls,          \* bound: handlers in flight at once
  Jobs,           \* bound: outbox events that can be created
  Outcomes,       \* what a rule check may report: [blocking, high]
  TTL,            \* passport lifetime in ticks
  MaxTime,        \* bound: the last tick of the clock
  MaxChecks,      \* bound: completed submissions
  None

ASSUME ConstantAssumption ==
  /\ SQLArtifacts \subseteq Artifacts
  /\ Submitter \in Users
  /\ Reviewers \subseteq Users
  /\ Leads \subseteq Reviewers
  /\ Outcomes \subseteq [blocking : BOOLEAN, high : BOOLEAN]
  /\ TTL \in Nat \ {0}
  /\ MaxTime \in Nat
  /\ MaxChecks \in Nat
  /\ None \notin Artifacts \cup Rules \cup Users \cup Consumers \cup PassportIds

VARIABLES
  change,     \* the stored ChangeRequest
  rules,      \* digest of the organisation's current policies
  passports,  \* the stored passports, by id
  jobs,       \* the outbox events "experiment.requested" of this change
  calls,      \* handlers in flight
  now,        \* the clock passports expire by
  checks,     \* completed submissions; identifies the fresh findings of a check
  ledger,     \* consume audits, in the order they were appended
  evaluated,  \* history: <<artifact, rules>> the rule checker was run on
  passed,     \* history: <<artifact, rules>> some CheckRun reported PASSED
  rehearsed   \* history: <<artifact, rules>> a trusted experiment was stored for

vars == <<change, rules, passports, jobs, calls, now, checks, ledger,
          evaluated, passed, rehearsed>>

history == <<evaluated, passed, rehearsed>>

-----------------------------------------------------------------------------
(* Records. *)

Statuses == {"DRAFT", "CHECK_FAILED", "READY_FOR_EXPERIMENT",
             "EXPERIMENT_QUEUED", "EXPERIMENT_RUNNING", "WAITING_APPROVAL",
             "APPROVED", "REJECTED", "COMPLETED"}

NoCheck == [status |-> "NONE", artifact |-> None, rules |-> None]
NoReport == [status |-> "NONE", artifact |-> None, rules |-> None]
NoFinding == [id |-> 0, status |-> "NONE", owner |-> None]
NoPassport == [status |-> "NONE", artifact |-> None, rules |-> None,
               approver |-> None, expires |-> 0, consumedBy |-> None]
NoJob == [state |-> "NONE", input |-> None, rules |-> None]

\* A slot no handler occupies.  A handler's record overrides the fields it
\* carries from its reads to its commit.
Idle == [op |-> "idle", actor |-> None, artifact |-> None, rules |-> None,
         blocking |-> FALSE, high |-> FALSE, finding |-> 0, ok |-> FALSE,
         passport |-> None, time |-> 0]

Ops == {"idle", "Update", "Sweep", "SubmitRead", "Submit", "Queue", "Assign",
        "Resolve", "Verify", "Approve", "Reject", "IssueRead", "Issue", "Consume"}

HasSQL(a) == a \in SQLArtifacts

\* A blocked check leaves blocking findings; "finding" stands for the last of
\* them to be verified.
Unverified == change.finding.status \notin {"NONE", "VERIFIED"}

\* Of the passports of a change, the one(s) a gate could still accept.
Live(p) == passports[p].status = "ACTIVE" /\ now < passports[p].expires

TrustedSQLExperiment == change.experiment = [status |-> "TRUSTED",
                                             artifact |-> change.artifact,
                                             rules |-> change.ruleSet]

-----------------------------------------------------------------------------
(* Store mutations shared by several handlers. *)

\* Mutant: revocation that does not look at the status.
RevokedAllMutant == [p \in PassportIds |->
                       IF passports[p].status # "NONE"
                       THEN [passports[p] EXCEPT !.status = "REVOKED"]
                       ELSE passports[p]]

\* RevokePassportsByChange: every ACTIVE passport of the change, expired or not.
RevokedAll == [p \in PassportIds |->
                 IF passports[p].status = "ACTIVE"
                 THEN [passports[p] EXCEPT !.status = "REVOKED"]
                 ELSE passports[p]]

\* CreatePassport and a restart both materialise natural expiry.
ExpiredMaterialised == [p \in PassportIds |->
                          IF passports[p].status = "ACTIVE" /\ ~Live(p)
                          THEN [passports[p] EXCEPT !.status = "EXPIRED"]
                          ELSE passports[p]]

Return(c) == calls' = [calls EXCEPT ![c] = Idle]
Proceed(c, rec) == calls' = [calls EXCEPT ![c] = rec]
Begin(c, rec) == calls[c] = Idle /\ Proceed(c, rec)

-----------------------------------------------------------------------------
Init ==
  \* Create has stored a DRAFT; nothing has been checked.
  /\ change \in [status : {"DRAFT"}, artifact : Artifacts, ruleSet : {None},
                 check : {NoCheck}, finding : {NoFinding}, high : {FALSE},
                 experiment : {NoReport}, reviewer : {None}]
  /\ rules \in Rules
  /\ passports = [p \in PassportIds |-> NoPassport]
  /\ jobs = [j \in Jobs |-> NoJob]
  /\ calls = [c \in Calls |-> Idle]
  /\ now = 0
  /\ checks = 0
  /\ ledger = << >>
  /\ evaluated = {}
  /\ passed = {}
  /\ rehearsed = {}

-----------------------------------------------------------------------------
(* Editing. *)

BeginUpdate(c, a) ==
  /\ change.status \in {"DRAFT", "CHECK_FAILED", "REJECTED", "APPROVED"}
  /\ Begin(c, [Idle EXCEPT !.op = "Update", !.artifact = a])
  /\ UNCHANGED <<change, rules, passports, jobs, now, checks, ledger, history>>

\* The closure replaces the content and resets every result; passports are
\* revoked by a second store call, after this one has been saved.
CommitUpdate(c) ==
  /\ calls[c].op = "Update"
  /\ change' = [status |-> "DRAFT", artifact |-> calls[c].artifact,
                ruleSet |-> None, check |-> NoCheck, finding |-> NoFinding,
                high |-> FALSE, experiment |-> NoReport, reviewer |-> None]
  /\ Proceed(c, [Idle EXCEPT !.op = "Sweep"])
  /\ UNCHANGED <<rules, passports, jobs, now, checks, ledger, history>>

\* The RevokePassportsByChange that ends Update and Reject.
Sweep(c) ==
  /\ calls[c].op = "Sweep"
  /\ passports' = RevokedAll
  /\ Return(c)
  /\ UNCHANGED <<change, rules, jobs, now, checks, ledger, history>>

-----------------------------------------------------------------------------
(* Submission: read, revoke, check against the current policies, ask the   *)
(* analyser (an LLM call that may take long), then store what was found    *)
(* for the content that was read.                                          *)

BeginSubmit(c) ==
  /\ change.status \in {"DRAFT", "CHECK_FAILED"}
  /\ Begin(c, [Idle EXCEPT !.op = "SubmitRead", !.artifact = change.artifact])
  /\ UNCHANGED <<change, rules, passports, jobs, now, checks, ledger, history>>

\* A revocation that cannot be saved does not stop the submission.
SubmitCheck(c, outcome) ==
  /\ calls[c].op = "SubmitRead"
  /\ passports' = RevokedAll \/ UNCHANGED passports
  /\ Proceed(c, [calls[c] EXCEPT !.op = "Submit", !.rules = rules,
                                 !.blocking = outcome.blocking, !.high = outcome.high])
  /\ evaluated' = evaluated \cup {<<calls[c].artifact, rules>>}
  /\ UNCHANGED <<change, rules, jobs, now, checks, ledger, passed, rehearsed>>

\* The id a blocking finding gets: a fresh one, or, for a release window, one made of the
\* policy and the other change, which the next check gives again.
FindingIds == {checks + 1, MaxChecks + 1}

CommitSubmit(c) ==
  LET k == calls[c] IN
  /\ k.op = "Submit"
  /\ checks < MaxChecks
  /\ checks' = checks + 1
  /\ \E id \in FindingIds :
       change' = [change EXCEPT
         !.check = [status |-> IF k.blocking THEN "BLOCKED" ELSE "PASSED",
                    artifact |-> k.artifact, rules |-> k.rules],
         !.finding = IF k.blocking THEN [id |-> id, status |-> "OPEN", owner |-> None]
                                   ELSE NoFinding,
         !.high = k.high,
         !.ruleSet = k.rules,
         !.experiment = NoReport,
         !.status = IF k.blocking THEN "CHECK_FAILED"
                    ELSE IF HasSQL(k.artifact) THEN "READY_FOR_EXPERIMENT"
                    ELSE "WAITING_APPROVAL"]
  /\ passed' = IF k.blocking THEN passed ELSE passed \cup {<<k.artifact, k.rules>>}
  /\ Return(c)
  /\ UNCHANGED <<rules, passports, jobs, now, ledger, evaluated, rehearsed>>

-----------------------------------------------------------------------------
(* Remediation of the blocking finding.  A commit that finds another id    *)
(* returns an error; one that finds the same id acts, also when a later    *)
(* check has found the same window conflict again.                         *)

Remediable == change.status \notin {"APPROVED", "COMPLETED"} /\ change.finding.status # "NONE"

\* In an Assign call "actor" is the owner being assigned.
BeginAssign(c, u, owner) ==
  /\ u \in Reviewers
  /\ Remediable
  /\ Begin(c, [Idle EXCEPT !.op = "Assign", !.actor = owner, !.finding = change.finding.id])
  /\ UNCHANGED <<change, rules, passports, jobs, now, checks, ledger, history>>

BeginResolve(c, u) ==
  /\ Remediable
  /\ u \in {Submitter, change.finding.owner} \cup Leads
  /\ change.finding.status # "VERIFIED"
  /\ Begin(c, [Idle EXCEPT !.op = "Resolve", !.actor = u, !.finding = change.finding.id])
  /\ UNCHANGED <<change, rules, passports, jobs, now, checks, ledger, history>>

BeginVerify(c, u, approved) ==
  /\ u \in Reviewers
  /\ Remediable
  /\ change.finding.status = "RESOLVED"
  /\ change.finding.owner # u
  /\ Begin(c, [Idle EXCEPT !.op = "Verify", !.actor = u, !.ok = approved,
                           !.finding = change.finding.id])
  /\ UNCHANGED <<change, rules, passports, jobs, now, checks, ledger, history>>

SameFinding(c) == change.finding.id = calls[c].finding
FindingIs(status, owner) == [change.finding EXCEPT !.status = status, !.owner = owner]

CommitAssign(c) ==
  /\ calls[c].op = "Assign"
  /\ change' = IF SameFinding(c)
               THEN [change EXCEPT !.finding = FindingIs("ASSIGNED", calls[c].actor)]
               ELSE change
  /\ Return(c)
  /\ UNCHANGED <<rules, passports, jobs, now, checks, ledger, history>>

CommitResolve(c) ==
  /\ calls[c].op = "Resolve"
  /\ change' = IF SameFinding(c)
               THEN [change EXCEPT !.finding = FindingIs("RESOLVED",
                       IF @.owner = None THEN calls[c].actor ELSE @.owner)]
               ELSE change
  /\ Return(c)
  /\ UNCHANGED <<rules, passports, jobs, now, checks, ledger, history>>

\* When the last blocking finding of a CHECK_FAILED change is verified, the
\* CheckRun is rewritten to PASSED for the content the change has now.
Unblock ==
  /\ change' = [change EXCEPT
       !.finding = FindingIs("VERIFIED", @.owner),
       !.check = [status |-> "PASSED", artifact |-> change.artifact,
                  rules |-> change.ruleSet],
       !.status = IF HasSQL(change.artifact) THEN "READY_FOR_EXPERIMENT"
                                             ELSE "WAITING_APPROVAL"]
  /\ passed' = passed \cup {<<change.artifact, change.ruleSet>>}

CommitVerify(c) ==
  LET unblocks == calls[c].ok /\ change.status = "CHECK_FAILED" IN
  /\ calls[c].op = "Verify"
  /\ \/ ~SameFinding(c) /\ UNCHANGED <<change, passed>>
     \/ SameFinding(c) /\ unblocks /\ Unblock
     \/ /\ SameFinding(c) /\ ~unblocks
        /\ change' = [change EXCEPT !.finding =
                        FindingIs(IF calls[c].ok THEN "VERIFIED" ELSE "ASSIGNED", @.owner)]
        /\ UNCHANGED passed
  /\ Return(c)
  /\ UNCHANGED <<rules, passports, jobs, now, checks, ledger, evaluated, rehearsed>>

-----------------------------------------------------------------------------
(* Review. *)

\* Mutant: approval without the four-eyes test.
BeginApproveMutant(c, u) ==
  /\ change.status = "WAITING_APPROVAL"
  /\ u \in Reviewers
  /\ IF HasSQL(change.artifact) THEN TrustedSQLExperiment
                                ELSE change.check.status = "PASSED"
  /\ ~Unverified
  /\ change.high => u \in Leads
  /\ Begin(c, [Idle EXCEPT !.op = "Approve", !.actor = u, !.artifact = change.artifact])
  /\ UNCHANGED <<change, rules, passports, jobs, now, checks, ledger, history>>

BeginApprove(c, u) ==
  /\ change.status = "WAITING_APPROVAL"
  /\ u \in Reviewers \ {Submitter}
  /\ IF HasSQL(change.artifact) THEN TrustedSQLExperiment
                                ELSE change.check.status = "PASSED"
  /\ ~Unverified
  /\ change.high => u \in Leads
  /\ Begin(c, [Idle EXCEPT !.op = "Approve", !.actor = u, !.artifact = change.artifact])
  /\ UNCHANGED <<change, rules, passports, jobs, now, checks, ledger, history>>

CommitApprove(c) ==
  /\ calls[c].op = "Approve"
  /\ change' = [change EXCEPT !.status = "APPROVED", !.reviewer = calls[c].actor]
  /\ Return(c)
  /\ UNCHANGED <<rules, passports, jobs, now, checks, ledger, history>>

BeginReject(c, u) ==
  /\ change.status = "WAITING_APPROVAL"
  /\ u \in Reviewers \ {Submitter}
  /\ Begin(c, [Idle EXCEPT !.op = "Reject", !.actor = u])
  /\ UNCHANGED <<change, rules, passports, jobs, now, checks, ledger, history>>

CommitReject(c) ==
  /\ calls[c].op = "Reject"
  /\ change' = [change EXCEPT !.status = "REJECTED", !.reviewer = calls[c].actor]
  /\ Proceed(c, [Idle EXCEPT !.op = "Sweep"])
  /\ UNCHANGED <<rules, passports, jobs, now, checks, ledger, history>>

-----------------------------------------------------------------------------
(* Passports. *)

\* Mutant: APPROVED is taken to imply the shadow experiment.
BeginIssueNoExperiment(c, u) ==
  /\ u # Submitter
  /\ u = change.reviewer
  /\ change.status = "APPROVED"
  /\ change.check = [status |-> "PASSED", artifact |-> change.artifact,
                     rules |-> change.ruleSet]
  /\ change.ruleSet # None
  /\ Begin(c, [Idle EXCEPT !.op = "IssueRead", !.actor = u, !.artifact = change.artifact,
                           !.rules = change.ruleSet])
  /\ UNCHANGED <<change, rules, passports, jobs, now, checks, ledger, history>>

BeginIssue(c, u) ==
  /\ u # Submitter
  /\ u = change.reviewer
  /\ change.status = "APPROVED"
  /\ change.check = [status |-> "PASSED", artifact |-> change.artifact,
                     rules |-> change.ruleSet]
  /\ change.ruleSet # None
  /\ HasSQL(change.artifact) => TrustedSQLExperiment
  /\ Begin(c, [Idle EXCEPT !.op = "IssueRead", !.actor = u, !.artifact = change.artifact,
                           !.rules = change.ruleSet])
  /\ UNCHANGED <<change, rules, passports, jobs, now, checks, ledger, history>>

\* The policies are read after the change.
IssueCheckRules(c) ==
  /\ calls[c].op = "IssueRead"
  /\ calls[c].rules = rules
  /\ Proceed(c, [calls[c] EXCEPT !.op = "Issue", !.time = now + TTL])
  /\ UNCHANGED <<change, rules, passports, jobs, now, checks, ledger, history>>

\* Mutant: the live passports were looked at before the lock was taken.
CommitIssueMutant(c, p) ==
  /\ calls[c].op = "Issue"
  /\ passports[p].status = "NONE"
  /\ passports' = [ExpiredMaterialised EXCEPT ![p] =
       [status |-> "ACTIVE", artifact |-> calls[c].artifact, rules |-> calls[c].rules,
        approver |-> calls[c].actor, expires |-> calls[c].time, consumedBy |-> None]]
  /\ Return(c)
  /\ UNCHANGED <<change, rules, jobs, now, checks, ledger, history>>

\* CreatePassport looks at the stored passports only, never at the change.
CommitIssue(c, p) ==
  /\ calls[c].op = "Issue"
  /\ passports[p].status = "NONE"
  /\ ~ \E q \in PassportIds : Live(q)
  /\ passports' = [ExpiredMaterialised EXCEPT ![p] =
       [status |-> "ACTIVE", artifact |-> calls[c].artifact, rules |-> calls[c].rules,
        approver |-> calls[c].actor, expires |-> calls[c].time, consumedBy |-> None]]
  /\ Return(c)
  /\ UNCHANGED <<change, rules, jobs, now, checks, ledger, history>>

RevokePassport(u, p) ==
  /\ u # Submitter
  /\ passports[p].status = "ACTIVE"
  /\ passports' = [passports EXCEPT ![p] = [@ EXCEPT !.status = "REVOKED"]]
  /\ UNCHANGED <<change, rules, jobs, calls, now, checks, ledger, history>>

-----------------------------------------------------------------------------
(* The gate. *)

\* What both VerifyGate and UsePassport require of the change a passport is
\* bound to, for a change in the given status.
Bound(p, status) ==
  /\ change.status = status
  /\ change.artifact = passports[p].artifact
  /\ change.ruleSet = passports[p].rules
  /\ rules = passports[p].rules

\* VerifyGate(consume) before UsePassport, for a token of passport p and the
\* digest of the files the CI job is about to deploy.  The clock is read here.
BeginConsume(c, p, job, files) ==
  /\ files = passports[p].artifact
  /\ \/ passports[p].status = "ACTIVE" /\ Bound(p, "APPROVED")
     \/ passports[p].status = "CONSUMED" /\ Bound(p, "COMPLETED")
  /\ Begin(c, [Idle EXCEPT !.op = "Consume", !.actor = job, !.artifact = files,
                           !.passport = p, !.time = now])
  /\ UNCHANGED <<change, rules, passports, jobs, now, checks, ledger, history>>

InTime(c, p) == calls[c].time < passports[p].expires

\* Passport, change and consume audit are written together.
ConsumeRecorded(c, p, status) ==
  /\ passports' = [passports EXCEPT ![p] = [@ EXCEPT !.status = "CONSUMED",
                                                    !.consumedBy = calls[c].actor]]
  /\ change' = [change EXCEPT !.status = status]
  /\ ledger' = Append(ledger, [passport |-> p, consumer |-> calls[c].actor,
                               artifact |-> calls[c].artifact])

\* Mutant: the status VerifyGate read is not tested again under the lock.
ConsumeFirstUnlocked(c, p) ==
  /\ Bound(p, "APPROVED") \/ Bound(p, "COMPLETED")
  /\ ConsumeRecorded(c, p, "COMPLETED")

\* Mutant: the change is completed by a later call.
ConsumeFirstSplit(c, p) ==
  /\ passports[p].status = "ACTIVE" /\ InTime(c, p) /\ Bound(p, "APPROVED")
  /\ ConsumeRecorded(c, p, change.status)

\* Mutant: only CONSUMED is refused under the lock.
ConsumeFirstRevoked(c, p) ==
  /\ passports[p].status # "CONSUMED" /\ InTime(c, p) /\ Bound(p, "APPROVED")
  /\ ConsumeRecorded(c, p, "COMPLETED")

\* UsePassport(consume = true) is one critical section with three outcomes.
ConsumeFirst(c, p) ==
  /\ passports[p].status = "ACTIVE" /\ InTime(c, p) /\ Bound(p, "APPROVED")
  /\ ConsumeRecorded(c, p, "COMPLETED")

\* The passport was past its expiry: that is stored, and the call refused.
ConsumeLapsed(c, p) ==
  /\ passports[p].status = "ACTIVE" /\ ~InTime(c, p)
  /\ passports' = [passports EXCEPT ![p] = [@ EXCEPT !.status = "EXPIRED"]]
  /\ UNCHANGED <<change, ledger>>

\* A replay to the first consumer, or a refusal: nothing is written.
ConsumeAnswered(c, p) ==
  /\ passports[p].status = "ACTIVE" => InTime(c, p) /\ ~Bound(p, "APPROVED")
  /\ UNCHANGED <<change, passports, ledger>>

CommitConsume(c) ==
  LET p == calls[c].passport IN
  /\ calls[c].op = "Consume"
  /\ ConsumeFirst(c, p) \/ ConsumeLapsed(c, p) \/ ConsumeAnswered(c, p)
  /\ Return(c)
  /\ UNCHANGED <<rules, jobs, now, checks, history>>

\* VerifyGate(verify) writes only when it meets a passport past its expiry.
GateVerify(p) ==
  /\ passports[p].status = "ACTIVE" /\ ~Live(p)
  /\ Bound(p, "APPROVED")
  /\ passports' = [passports EXCEPT ![p] = [@ EXCEPT !.status = "EXPIRED"]]
  /\ UNCHANGED <<change, rules, jobs, calls, now, checks, ledger, history>>

-----------------------------------------------------------------------------
(* The shadow experiment.  ExperimentOutbox has the leases; here an event  *)
(* is PENDING, CLAIMED by a worker that has read the change, RUNNING,      *)
(* FINALIZED (report stored, envelope not yet completed), COMPLETED, DEAD. *)

Enqueue(j, a) == jobs' = [jobs EXCEPT ![j] = [NoJob EXCEPT !.state = "PENDING", !.input = a]]

BeginQueue(c, u) ==
  /\ change.status = "READY_FOR_EXPERIMENT"
  /\ HasSQL(change.artifact)
  /\ u \in {Submitter} \cup Leads
  /\ Begin(c, [Idle EXCEPT !.op = "Queue", !.artifact = change.artifact])
  /\ UNCHANGED <<change, rules, passports, jobs, now, checks, ledger, history>>

CommitQueue(c, j) ==
  /\ calls[c].op = "Queue"
  /\ jobs[j] = NoJob
  /\ change' = [change EXCEPT !.status = "EXPERIMENT_QUEUED"]
  /\ Enqueue(j, calls[c].artifact)
  /\ Return(c)
  /\ UNCHANGED <<rules, passports, now, checks, ledger, history>>

InExperiment == change.status \in {"EXPERIMENT_QUEUED", "EXPERIMENT_RUNNING"}

SetJob(j, state) == jobs' = [jobs EXCEPT ![j] = [@ EXCEPT !.state = state]]

\* An attempt that ended in an error, or whose worker was lost.
FailJob(j) ==
  /\ jobs[j].state \in {"CLAIMED", "RUNNING"}
  /\ SetJob(j, "PENDING") \/ SetJob(j, "DEAD")
  /\ UNCHANGED <<change, rules, passports, calls, now, checks, ledger, history>>

\* The first reads of runExperiment.
ClaimJob(j) ==
  /\ jobs[j].state \in {"PENDING", "FINALIZED"}
  /\ \/ jobs[j].input # change.artifact /\ (SetJob(j, "PENDING") \/ SetJob(j, "DEAD"))
     \/ /\ jobs[j].input = change.artifact
        /\ jobs[j].state = "FINALIZED" \/ ~InExperiment
        /\ SetJob(j, "COMPLETED")
     \/ /\ jobs[j].input = change.artifact
        /\ jobs[j].state = "PENDING" /\ InExperiment
        /\ jobs' = [jobs EXCEPT ![j] = [@ EXCEPT !.state = "CLAIMED",
                                                !.rules = change.ruleSet]]
  /\ UNCHANGED <<change, rules, passports, calls, now, checks, ledger, history>>

StartJob(j) ==
  /\ jobs[j].state = "CLAIMED"
  /\ jobs[j].input = change.artifact
  /\ InExperiment
  /\ change' = [change EXCEPT !.status = "EXPERIMENT_RUNNING"]
  /\ SetJob(j, "RUNNING")
  /\ UNCHANGED <<rules, passports, calls, now, checks, ledger, history>>

\* FinalizeExperimentOutbox: its closure compares the content, not the status.
FinishJob(j, trusted) ==
  LET report == [status |-> IF trusted THEN "TRUSTED" ELSE "UNTRUSTED",
                 artifact |-> jobs[j].input, rules |-> jobs[j].rules] IN
  /\ jobs[j].state = "RUNNING"
  /\ HasSQL(jobs[j].input)
  /\ jobs[j].input = change.artifact
  /\ change' = [change EXCEPT !.experiment = report,
                              !.status = IF trusted THEN "WAITING_APPROVAL" ELSE "CHECK_FAILED"]
  /\ rehearsed' = IF trusted THEN rehearsed \cup {<<report.artifact, report.rules>>}
                             ELSE rehearsed
  /\ SetJob(j, "FINALIZED")
  /\ UNCHANGED <<rules, passports, calls, now, checks, ledger, evaluated, passed>>

RetryJob(j) ==
  /\ jobs[j].state = "DEAD"
  /\ SetJob(j, "PENDING")
  /\ UNCHANGED <<change, rules, passports, calls, now, checks, ledger, history>>

-----------------------------------------------------------------------------
(* Policies, time, failures. *)

\* CreatePolicy, UpdatePolicy, TogglePolicy: the digest of the enabled
\* policies becomes another one, possibly one it was before.
ChangePolicies(r) ==
  /\ r # rules
  /\ rules' = r
  /\ UNCHANGED <<change, passports, jobs, calls, now, checks, ledger, history>>

Tick ==
  /\ now < MaxTime
  /\ now' = now + 1
  /\ UNCHANGED <<change, rules, passports, jobs, calls, checks, ledger, history>>

\* A handler ends without its next store call: the save failed and was rolled
\* back, IssuePassport met other rules or a live passport, the client left.
Abandon(c) ==
  /\ calls[c] # Idle
  /\ Return(c)
  /\ UNCHANGED <<change, rules, passports, jobs, now, checks, ledger, history>>

\* The process stops between two store calls and starts again: New
\* materialises expiry, EnsureExperimentOutbox replaces a lost event.
Restart ==
  /\ calls' = [c \in Calls |-> Idle]
  /\ passports' = ExpiredMaterialised
  /\ IF InExperiment /\ \A j \in Jobs : jobs[j].state \in {"NONE", "COMPLETED", "DEAD"}
     THEN \E j \in Jobs : jobs[j] = NoJob /\ Enqueue(j, change.artifact)
     ELSE UNCHANGED jobs
  /\ UNCHANGED <<change, rules, now, checks, ledger, history>>

-----------------------------------------------------------------------------
Edit(c) ==
  \/ \E a \in Artifacts : BeginUpdate(c, a)
  \/ CommitUpdate(c)
  \/ Sweep(c)
  \/ BeginSubmit(c)
  \/ \E o \in Outcomes : SubmitCheck(c, o)
  \/ CommitSubmit(c)

Remediate(c) ==
  \/ \E u, owner \in Users : BeginAssign(c, u, owner)
  \/ \E u \in Users : BeginResolve(c, u)
  \/ \E u \in Users, ok \in BOOLEAN : BeginVerify(c, u, ok)
  \/ CommitAssign(c)
  \/ CommitResolve(c)
  \/ CommitVerify(c)

Review(c) ==
  \/ \E u \in Users : BeginApprove(c, u) \/ BeginReject(c, u)
  \/ CommitApprove(c)
  \/ CommitReject(c)

Release(c) ==
  \/ \E u \in Users : BeginIssue(c, u)
  \/ IssueCheckRules(c)
  \/ \E p \in PassportIds : CommitIssue(c, p)
  \/ \E p \in PassportIds, job \in Consumers, files \in Artifacts :
       BeginConsume(c, p, job, files)
  \/ CommitConsume(c)

Experiment ==
  \/ \E c \in Calls, u \in Users : BeginQueue(c, u)
  \/ \E c \in Calls, j \in Jobs : CommitQueue(c, j)
  \/ \E j \in Jobs : ClaimJob(j) \/ StartJob(j) \/ FailJob(j) \/ RetryJob(j)
  \/ \E j \in Jobs, trusted \in BOOLEAN : FinishJob(j, trusted)

Environment ==
  \/ \E u \in Users, p \in PassportIds : RevokePassport(u, p)
  \/ \E p \in PassportIds : GateVerify(p)
  \/ \E r \in Rules : ChangePolicies(r)
  \/ Tick
  \/ \E c \in Calls : Abandon(c)
  \/ Restart

Next ==
  \/ \E c \in Calls : Edit(c) \/ Remediate(c) \/ Review(c) \/ Release(c)
  \/ Experiment
  \/ Environment

Spec == Init /\ [][Next]_vars

-----------------------------------------------------------------------------
(* Properties. *)

CheckRec ==
  [status : {"NONE", "PASSED", "BLOCKED"},
   artifact : Artifacts \cup {None}, rules : Rules \cup {None}]

FindingRec ==
  [id : Nat, status : {"NONE", "OPEN", "ASSIGNED", "RESOLVED", "VERIFIED"},
   owner : Users \cup {None}]

ReportRec ==
  [status : {"NONE", "TRUSTED", "UNTRUSTED"},
   artifact : Artifacts \cup {None}, rules : Rules \cup {None}]

ChangeRec ==
  [status : Statuses, artifact : Artifacts, ruleSet : Rules \cup {None},
   check : CheckRec, finding : FindingRec, high : BOOLEAN, experiment : ReportRec,
   reviewer : Users \cup {None}]

PassportRec ==
  [status : {"NONE", "ACTIVE", "CONSUMED", "REVOKED", "EXPIRED"},
   artifact : Artifacts \cup {None}, rules : Rules \cup {None},
   approver : Users \cup {None}, expires : Nat, consumedBy : Consumers \cup {None}]

JobRec ==
  [state : {"NONE", "PENDING", "CLAIMED", "RUNNING", "FINALIZED", "COMPLETED", "DEAD"},
   input : Artifacts \cup {None}, rules : Rules \cup {None}]

CallRec ==
  [op : Ops, actor : Users \cup Consumers \cup {None},
   artifact : Artifacts \cup {None}, rules : Rules \cup {None},
   blocking : BOOLEAN, high : BOOLEAN, finding : Nat, ok : BOOLEAN,
   passport : PassportIds \cup {None}, time : Nat]

LedgerEntry == [passport : PassportIds, consumer : Consumers, artifact : Artifacts]

\* What a handler holds between its reads and its commit, by operation: the
\* operands its commit writes are there, and are not None.
CallOperands(k) ==
  /\ k.op \in {"Update", "SubmitRead", "Submit", "Queue", "IssueRead", "Issue", "Consume"} =>
       k.artifact \in Artifacts
  /\ k.op \in {"Submit", "IssueRead", "Issue"} => k.rules \in Rules
  /\ k.op \in {"Assign", "Resolve", "Verify", "Approve", "Reject", "IssueRead", "Issue"} =>
       k.actor \in Users
  /\ k.op = "Consume" => k.actor \in Consumers /\ k.passport \in PassportIds

\* The shapes of the stored change, passports and outbox events, and what every
\* handler in flight remembers of its reads.
TypeOK ==
  /\ change \in ChangeRec
  /\ rules \in Rules
  /\ passports \in [PassportIds -> PassportRec]
  /\ jobs \in [Jobs -> JobRec]
  /\ calls \in [Calls -> CallRec]
  /\ \A c \in Calls : CallOperands(calls[c])
  /\ \A j \in Jobs : jobs[j].state # "NONE" => jobs[j].input \in Artifacts
  /\ now \in Nat
  /\ checks \in Nat
  /\ ledger \in Seq(LedgerEntry)
  /\ evaluated \subseteq Artifacts \X Rules
  /\ passed \subseteq Artifacts \X (Rules \cup {None})
  /\ rehearsed \subseteq Artifacts \X (Rules \cup {None})

\* However reviews, edits and submissions interleave, a decided change names a
\* reviewer who is not its submitter, and so does every passport (Approve,
\* Reject and IssuePassport test this on what they read, not when they write).
SeparationOfDuties ==
  /\ change.status \in {"APPROVED", "REJECTED", "COMPLETED"} =>
       change.reviewer \in Reviewers \ {Submitter}
  /\ \A p \in PassportIds : passports[p].status # "NONE" =>
       passports[p].approver \in Reviewers \ {Submitter}

\* At most one passport of a change is stored as ACTIVE, although IssuePassport
\* decides before CreatePassport takes the lock and expiry is stored lazily.
OneActivePassport ==
  \A p, q \in PassportIds :
    passports[p].status = "ACTIVE" /\ passports[q].status = "ACTIVE" => p = q

\* The consume audits are exactly the consumed passports, each once, with the
\* consumer and the digest the gate was given (ADR 0001, invariants 1 and 5).
LedgerAgrees ==
  /\ \A i, k \in DOMAIN ledger : ledger[i].passport = ledger[k].passport => i = k
  /\ \A i \in DOMAIN ledger :
       LET p == ledger[i].passport IN
       /\ passports[p].status = "CONSUMED"
       /\ passports[p].consumedBy = ledger[i].consumer
       /\ passports[p].artifact = ledger[i].artifact
  /\ \A p \in PassportIds : passports[p].status = "CONSUMED" =>
       \E i \in DOMAIN ledger : ledger[i].passport = p
  /\ \A p \in PassportIds : passports[p].status # "CONSUMED" => passports[p].consumedBy = None

\* Every passport ever issued is for content and rules that a CheckRun reported
\* PASSED and, for SQL, that a trusted shadow experiment was stored for: the
\* reads of IssuePassport may be stale when the passport is created, its
\* evidence may not be missing.
PassportEvidence ==
  \A p \in PassportIds : passports[p].status # "NONE" =>
    LET e == <<passports[p].artifact, passports[p].rules>> IN
    /\ e \in passed
    /\ HasSQL(passports[p].artifact) => e \in rehearsed

\* What a handler in flight carries from its reads: an eligible reviewer, and for
\* IssuePassport the evidence it found.
Carried(k) ==
  /\ k.op \in {"Approve", "Reject", "IssueRead", "Issue"} => k.actor \in Reviewers \ {Submitter}
  /\ k.op \in {"IssueRead", "Issue"} =>
       /\ <<k.artifact, k.rules>> \in passed
       /\ HasSQL(k.artifact) => <<k.artifact, k.rules>> \in rehearsed

\* Why the two above hold although handlers act on stale reads: the stored
\* CheckRun and report are evidence, so is what a handler read of them, and
\* evidence is never withdrawn.
CarriedEvidence ==
  /\ change.check.status = "PASSED" =>
       <<change.check.artifact, change.check.rules>> \in passed
  /\ change.experiment.status = "TRUSTED" =>
       <<change.experiment.artifact, change.experiment.rules>> \in rehearsed
  /\ \A c \in Calls : Carried(calls[c])

ReleaseInv == SeparationOfDuties /\ PassportEvidence /\ CarriedEvidence

\* Why the ledger agrees: the digest a consume carries from VerifyGate is that of
\* an issued passport, whose binding no step changes.
ConsumeCarries ==
  \A c \in Calls : calls[c].op = "Consume" =>
    LET p == calls[c].passport IN
    /\ passports[p].status # "NONE"
    /\ calls[c].artifact = passports[p].artifact

GateInv == OneActivePassport /\ LedgerAgrees /\ ConsumeCarries

\* A passport that was consumed, revoked or found expired stays as it is, and
\* what an issued passport is bound to never changes (ADR 0001, invariant 3).
PassportIsFinal ==
  [][\A p \in PassportIds :
       /\ passports[p].status \in {"CONSUMED", "REVOKED", "EXPIRED"} =>
            passports'[p] = passports[p]
       /\ passports[p].status = "ACTIVE" =>
            /\ passports'[p].status # "NONE"
            /\ passports'[p].artifact = passports[p].artifact
            /\ passports'[p].rules = passports[p].rules
            /\ passports'[p].approver = passports[p].approver]_vars

\* A change becomes COMPLETED in the step that appends a consume audit, and in
\* no other: consume, completion and audit are one unit (ADR 0001, invariant 5).
CompletionIsConsume ==
  [][Len(ledger') # Len(ledger) <=>
       change.status # "COMPLETED" /\ change'.status = "COMPLETED"]_vars

\* The passes of OneTimePass.  A passport past its expiry stays usable until
\* that is stored: a gate that looked at the clock earlier may still consume it.
PassState == [p \in PassportIds |->
  CASE passports[p].status = "NONE" -> "unissued"
    [] passports[p].status = "ACTIVE" -> "usable"
    [] passports[p].status = "CONSUMED" -> "used"
    [] OTHER -> "void"]

Pass == INSTANCE OneTimePass WITH
  state <- PassState,
  holder <- [p \in PassportIds |-> passports[p].consumedBy],
  uses <- [i \in DOMAIN ledger |-> ledger[i].passport]

\* The stored passports, with all handlers, restarts and expiry around them,
\* are one-time passes as ADR 0001 describes them.
OneTimePassSpec == Pass!Spec

\* docs/architecture.md: a COMPLETED change cannot be issued a passport or
\* consume one again.  So a change is released at most once.  It does not hold for
\* an approval that commits late (README, known divergences).
ReleasedOnce == Len(ledger) <= 1

\* api.md: any change of content or rules voids the old check.  So what a gate
\* let through was put through the rule checker.  It does not hold for a submission
\* that commits late (README, known divergences).
ReleasedWasEvaluated ==
  \A i \in DOMAIN ledger :
    LET p == ledger[i].passport IN <<passports[p].artifact, passports[p].rules>> \in evaluated
=============================================================================
