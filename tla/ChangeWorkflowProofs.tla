------------------------- MODULE ChangeWorkflowProofs -------------------------
(***************************************************************************)
(* Theorems about ChangeWorkflow and ReleaseChecks, for every value of     *)
(* their constants: any number of handlers in flight, passports, outbox    *)
(* events, users, artifact digests and rule-set versions, and with no      *)
(* bound on time; any changes, applications, inputs, policies and callers, *)
(* and with no bound on edits and submissions.                             *)
(***************************************************************************)
EXTENDS ChangeWorkflow, ReleaseChecks, SequenceTheorems, TLAPS

-----------------------------------------------------------------------------
(* Type correctness. *)

\* The record of a free slot is a call record.
LEMMA IdleIsCall == Idle \in CallRec /\ CallOperands(Idle)
BY DEF Idle, CallRec, Ops, CallOperands

\* Storing a well-formed record in a slot keeps all slots well-formed.
LEMMA CallStored ==
  ASSUME TypeOK, NEW c \in Calls, NEW k \in CallRec, CallOperands(k), Proceed(c, k)
  PROVE  calls' \in [Calls -> CallRec] /\ \A d \in Calls : CallOperands(calls'[d])
BY DEF TypeOK, Proceed

\* So does freeing a slot.
LEMMA CallReturned ==
  ASSUME TypeOK, NEW c \in Calls, Return(c)
  PROVE  calls' \in [Calls -> CallRec] /\ \A d \in Calls : CallOperands(calls'[d])
BY CallStored, IdleIsCall DEF Return, Proceed

\* A handler that has only read keeps the types.
LEMMA ReadOnlyType ==
  ASSUME TypeOK, NEW c \in Calls, NEW k \in CallRec, CallOperands(k), Proceed(c, k),
         UNCHANGED <<change, rules, passports, jobs, now, checks, ledger, history>>
  PROVE  TypeOK'
<1>1. calls' \in [Calls -> CallRec] /\ \A d \in Calls : CallOperands(calls'[d])
  BY CallStored
<1>2. QED
  BY <1>1 DEF TypeOK, history

\* Revocation and the materialisation of expiry keep the stored passports' type.
LEMMA PassportSweeps ==
  ASSUME TypeOK
  PROVE  /\ RevokedAll \in [PassportIds -> PassportRec]
         /\ ExpiredMaterialised \in [PassportIds -> PassportRec]
<1>1. \A p \in PassportIds : passports[p] \in PassportRec
  BY DEF TypeOK
<1>2. QED
  BY <1>1, SMTT(30) DEF RevokedAll, ExpiredMaterialised, PassportRec

\* So does setting the status of one passport.
LEMMA PassportStatusSet ==
  ASSUME TypeOK, NEW p \in PassportIds, NEW s \in {"REVOKED", "EXPIRED"},
         passports' = [passports EXCEPT ![p] = [@ EXCEPT !.status = s]]
  PROVE  passports' \in [PassportIds -> PassportRec]
<1>1. passports \in [PassportIds -> PassportRec]
  BY DEF TypeOK
<1>2. QED
  BY <1>1, SMTT(30) DEF PassportRec

\* Editing and submission keep the types.
LEMMA EditType ==
  ASSUME TypeOK, NEW c \in Calls, Edit(c)
  PROVE  TypeOK'
<1>1. ASSUME NEW a \in Artifacts, BeginUpdate(c, a)
      PROVE  TypeOK'
  <2> DEFINE k == [Idle EXCEPT !.op = "Update", !.artifact = a]
  <2>1. k \in CallRec /\ CallOperands(k)
    BY DEF Idle, CallRec, CallOperands, Ops
  <2>2. QED
    BY <1>1, <2>1, ReadOnlyType DEF BeginUpdate, Begin
<1>2. CASE CommitUpdate(c)
  <2> DEFINE k == [Idle EXCEPT !.op = "Sweep"]
  <2>1. k \in CallRec /\ CallOperands(k)
    BY DEF Idle, CallRec, CallOperands, Ops
  <2>2. calls' \in [Calls -> CallRec] /\ \A d \in Calls : CallOperands(calls'[d])
    BY <1>2, <2>1, CallStored DEF CommitUpdate
  <2>3. NoCheck \in CheckRec /\ NoFinding \in FindingRec /\ NoReport \in ReportRec
    BY DEF NoCheck, CheckRec, NoFinding, FindingRec, NoReport, ReportRec
  <2>4. calls[c].artifact \in Artifacts
    BY <1>2 DEF TypeOK, CommitUpdate, CallOperands
  <2>5. change' \in ChangeRec
    BY <1>2, <2>3, <2>4 DEF CommitUpdate, ChangeRec, Statuses
  <2>6. QED
    BY <1>2, <2>2, <2>5 DEF TypeOK, CommitUpdate, history
<1>3. CASE Sweep(c)
  BY <1>3, CallReturned, PassportSweeps DEF TypeOK, Sweep, history
<1>4. CASE BeginSubmit(c)
  <2> DEFINE k == [Idle EXCEPT !.op = "SubmitRead", !.artifact = change.artifact]
  <2>1. change.artifact \in Artifacts
    BY DEF TypeOK, ChangeRec
  <2>2. k \in CallRec /\ CallOperands(k)
    BY <2>1 DEF Idle, CallRec, CallOperands, Ops
  <2>3. QED
    BY <1>4, <2>2, ReadOnlyType DEF BeginSubmit, Begin
<1>5. ASSUME NEW o \in Outcomes, SubmitCheck(c, o)
      PROVE  TypeOK'
  <2> DEFINE k == [calls[c] EXCEPT !.op = "Submit", !.rules = rules,
                                   !.blocking = o.blocking, !.high = o.high]
  <2>1. calls[c] \in CallRec /\ calls[c].artifact \in Artifacts /\ rules \in Rules
    BY <1>5 DEF TypeOK, SubmitCheck, CallOperands
  <2>2. o.blocking \in BOOLEAN /\ o.high \in BOOLEAN
    BY ConstantAssumption
  <2>3. k \in CallRec /\ CallOperands(k)
    BY <2>1, <2>2 DEF CallRec, CallOperands, Ops
  <2>4. calls' \in [Calls -> CallRec] /\ \A d \in Calls : CallOperands(calls'[d])
    BY <1>5, <2>3, CallStored DEF SubmitCheck
  <2>5. evaluated' \subseteq Artifacts \X Rules
    BY <1>5, <2>1 DEF TypeOK, SubmitCheck
  <2>6. QED
    BY <1>5, <2>4, <2>5, PassportSweeps DEF TypeOK, SubmitCheck
<1>6. CASE CommitSubmit(c)
  <2>1. /\ calls[c].artifact \in Artifacts /\ calls[c].rules \in Rules
        /\ calls[c].blocking \in BOOLEAN /\ calls[c].high \in BOOLEAN
    BY <1>6 DEF TypeOK, CommitSubmit, CallRec, CallOperands
  <2>2. change'.check \in CheckRec
    BY <1>6, <2>1 DEF TypeOK, CommitSubmit, ChangeRec, CheckRec
  <2>3. change'.finding \in FindingRec
    <3>1. change \in ChangeRec
      BY DEF TypeOK
    <3>2. PICK id \in FindingIds :
            change'.finding = IF calls[c].blocking
                              THEN [id |-> id, status |-> "OPEN", owner |-> None]
                              ELSE NoFinding
      BY <1>6, <3>1 DEF CommitSubmit, ChangeRec
    <3>3. id \in Nat
      BY ConstantAssumption DEF TypeOK, FindingIds
    <3>4. QED
      BY <3>2, <3>3 DEF FindingRec, NoFinding
  <2>4. NoReport \in ReportRec
    BY DEF NoReport, ReportRec
  <2>5. change' \in ChangeRec
    BY <1>6, <2>1, <2>2, <2>3, <2>4 DEF TypeOK, CommitSubmit, ChangeRec, Statuses
  <2>6. passed' \subseteq Artifacts \X (Rules \cup {None})
    BY <1>6, <2>1 DEF TypeOK, CommitSubmit
  <2>7. QED
    BY <1>6, <2>5, <2>6, CallReturned DEF TypeOK, CommitSubmit
<1>7. QED
  BY <1>1, <1>2, <1>3, <1>4, <1>5, <1>6 DEF Edit

\* Remediation keeps the types.
LEMMA RemediateType ==
  ASSUME TypeOK, NEW c \in Calls, Remediate(c)
  PROVE  TypeOK'
<1>1. change.finding \in FindingRec /\ change.finding.id \in Nat
  BY DEF TypeOK, ChangeRec, FindingRec
<1>2. ASSUME NEW u \in Users, NEW owner \in Users, BeginAssign(c, u, owner)
      PROVE  TypeOK'
  <2> DEFINE k == [Idle EXCEPT !.op = "Assign", !.actor = owner, !.finding = change.finding.id]
  <2>1. k \in CallRec /\ CallOperands(k)
    BY <1>1 DEF Idle, CallRec, CallOperands, Ops
  <2>2. QED
    BY <1>2, <2>1, ReadOnlyType DEF BeginAssign, Begin
<1>3. ASSUME NEW u \in Users, BeginResolve(c, u)
      PROVE  TypeOK'
  <2> DEFINE k == [Idle EXCEPT !.op = "Resolve", !.actor = u, !.finding = change.finding.id]
  <2>1. k \in CallRec /\ CallOperands(k)
    BY <1>1 DEF Idle, CallRec, CallOperands, Ops
  <2>2. QED
    BY <1>3, <2>1, ReadOnlyType DEF BeginResolve, Begin
<1>4. ASSUME NEW u \in Users, NEW ok \in BOOLEAN, BeginVerify(c, u, ok)
      PROVE  TypeOK'
  <2> DEFINE k == [Idle EXCEPT !.op = "Verify", !.actor = u, !.ok = ok,
                               !.finding = change.finding.id]
  <2>1. k \in CallRec /\ CallOperands(k)
    BY <1>1 DEF Idle, CallRec, CallOperands, Ops
  <2>2. QED
    BY <1>4, <2>1, ReadOnlyType DEF BeginVerify, Begin
<1>5. ASSUME NEW s \in {"OPEN", "ASSIGNED", "RESOLVED", "VERIFIED"},
             NEW o \in Users \cup {None}
      PROVE  FindingIs(s, o) \in FindingRec
  BY <1>1 DEF FindingIs, FindingRec
<1>6. change.finding.owner \in Users \cup {None}
  BY <1>1 DEF FindingRec
<1>7. CASE CommitAssign(c)
  <2>1. calls[c].actor \in Users
    BY <1>7 DEF TypeOK, CommitAssign, CallOperands
  <2>2. change' \in ChangeRec
    BY <1>5, <1>7, <2>1 DEF TypeOK, CommitAssign, ChangeRec
  <2>3. QED
    BY <1>7, <2>2, CallReturned DEF TypeOK, CommitAssign, history
<1>8. CASE CommitResolve(c)
  <2>1. calls[c].actor \in Users
    BY <1>8 DEF TypeOK, CommitResolve, CallOperands
  <2>2. change' \in ChangeRec
    BY <1>5, <1>6, <1>8, <2>1 DEF TypeOK, CommitResolve, ChangeRec
  <2>3. QED
    BY <1>8, <2>2, CallReturned DEF TypeOK, CommitResolve, history
<1>9. CASE CommitVerify(c)
  <2>1. change' \in ChangeRec /\ passed' \subseteq Artifacts \X (Rules \cup {None})
    <3>1. CASE UNCHANGED <<change, passed>>
      BY <3>1 DEF TypeOK
    <3>2. CASE Unblock
      <4>1. [status |-> "PASSED", artifact |-> change.artifact, rules |-> change.ruleSet]
              \in CheckRec
        BY DEF TypeOK, ChangeRec, CheckRec
      <4>2. change' \in ChangeRec
        BY <1>5, <1>6, <3>2, <4>1 DEF TypeOK, Unblock, ChangeRec, Statuses
      <4>3. QED
        BY <3>2, <4>2 DEF TypeOK, Unblock, ChangeRec
    <3>3. CASE /\ change' = [change EXCEPT !.finding =
                    FindingIs(IF calls[c].ok THEN "VERIFIED" ELSE "ASSIGNED", @.owner)]
               /\ UNCHANGED passed
      BY <1>5, <1>6, <3>3 DEF TypeOK, ChangeRec
    <3>4. QED
      BY <1>9, <3>1, <3>2, <3>3 DEF CommitVerify
  <2>2. QED
    BY <1>9, <2>1, CallReturned DEF TypeOK, CommitVerify
<1>10. QED
  BY <1>2, <1>3, <1>4, <1>7, <1>8, <1>9 DEF Remediate

\* Review keeps the types.
LEMMA ReviewType ==
  ASSUME TypeOK, NEW c \in Calls, Review(c)
  PROVE  TypeOK'
<1>1. ASSUME NEW u \in Users, BeginApprove(c, u)
      PROVE  TypeOK'
  <2> DEFINE k == [Idle EXCEPT !.op = "Approve", !.actor = u, !.artifact = change.artifact]
  <2>1. change.artifact \in Artifacts
    BY DEF TypeOK, ChangeRec
  <2>2. k \in CallRec /\ CallOperands(k)
    BY <2>1 DEF Idle, CallRec, CallOperands, Ops
  <2>3. QED
    BY <1>1, <2>2, ReadOnlyType DEF BeginApprove, Begin
<1>2. ASSUME NEW u \in Users, BeginReject(c, u)
      PROVE  TypeOK'
  <2> DEFINE k == [Idle EXCEPT !.op = "Reject", !.actor = u]
  <2>1. k \in CallRec /\ CallOperands(k)
    BY DEF Idle, CallRec, CallOperands, Ops
  <2>2. QED
    BY <1>2, <2>1, ReadOnlyType DEF BeginReject, Begin
<1>3. CASE CommitApprove(c)
  <2>1. change' \in ChangeRec
    BY <1>3 DEF TypeOK, CommitApprove, ChangeRec, CallOperands, Statuses
  <2>2. QED
    BY <1>3, <2>1, CallReturned DEF TypeOK, CommitApprove, history
<1>4. CASE CommitReject(c)
  <2> DEFINE k == [Idle EXCEPT !.op = "Sweep"]
  <2>1. k \in CallRec /\ CallOperands(k)
    BY DEF Idle, CallRec, CallOperands, Ops
  <2>2. calls' \in [Calls -> CallRec] /\ \A d \in Calls : CallOperands(calls'[d])
    BY <1>4, <2>1, CallStored DEF CommitReject
  <2>3. change' \in ChangeRec
    BY <1>4 DEF TypeOK, CommitReject, ChangeRec, CallOperands, Statuses
  <2>4. QED
    BY <1>4, <2>2, <2>3 DEF TypeOK, CommitReject, history
<1>5. QED
  BY <1>1, <1>2, <1>3, <1>4 DEF Review

\* Issuing and consuming passports keep the types.
LEMMA ReleaseType ==
  ASSUME TypeOK, NEW c \in Calls, Release(c)
  PROVE  TypeOK'
<1>1. ASSUME NEW u \in Users, BeginIssue(c, u)
      PROVE  TypeOK'
  <2> DEFINE k == [Idle EXCEPT !.op = "IssueRead", !.actor = u, !.artifact = change.artifact,
                               !.rules = change.ruleSet]
  <2>1. change.artifact \in Artifacts /\ change.ruleSet \in Rules
    BY <1>1 DEF TypeOK, ChangeRec, BeginIssue
  <2>2. k \in CallRec /\ CallOperands(k)
    BY <2>1 DEF Idle, CallRec, CallOperands, Ops
  <2>3. QED
    BY <1>1, <2>2, ReadOnlyType DEF BeginIssue, Begin
<1>2. CASE IssueCheckRules(c)
  <2> DEFINE k == [calls[c] EXCEPT !.op = "Issue", !.time = now + TTL]
  <2>1. calls[c] \in CallRec /\ CallOperands(calls[c]) /\ calls[c].op = "IssueRead"
    BY <1>2 DEF TypeOK, IssueCheckRules
  <2>2. now + TTL \in Nat
    BY ConstantAssumption DEF TypeOK
  <2>3. k \in CallRec /\ CallOperands(k)
    BY <2>1, <2>2 DEF CallRec, CallOperands, Ops
  <2>4. QED
    BY <1>2, <2>3, ReadOnlyType DEF IssueCheckRules
<1>3. ASSUME NEW p \in PassportIds, CommitIssue(c, p)
      PROVE  TypeOK'
  <2>1. /\ calls[c].artifact \in Artifacts /\ calls[c].rules \in Rules
        /\ calls[c].actor \in Users /\ calls[c].time \in Nat
    BY <1>3 DEF TypeOK, CommitIssue, CallRec, CallOperands
  <2>2. passports' \in [PassportIds -> PassportRec]
    BY <1>3, <2>1, PassportSweeps DEF CommitIssue, PassportRec
  <2>3. QED
    BY <1>3, <2>2, CallReturned DEF TypeOK, CommitIssue, history
<1>4. ASSUME NEW p \in PassportIds, NEW job \in Consumers, NEW files \in Artifacts,
             BeginConsume(c, p, job, files)
      PROVE  TypeOK'
  <2> DEFINE k == [Idle EXCEPT !.op = "Consume", !.actor = job, !.artifact = files,
                               !.passport = p, !.time = now]
  <2>1. k \in CallRec /\ CallOperands(k)
    BY DEF TypeOK, Idle, CallRec, CallOperands, Ops
  <2>2. QED
    BY <1>4, <2>1, ReadOnlyType DEF BeginConsume, Begin
<1>5. CASE CommitConsume(c)
  <2> DEFINE p == calls[c].passport
             entry == [passport |-> p, consumer |-> calls[c].actor,
                       artifact |-> calls[c].artifact]
  <2>1. calls[c].artifact \in Artifacts /\ calls[c].actor \in Consumers /\ p \in PassportIds
    BY <1>5 DEF TypeOK, CommitConsume, CallOperands
  <2>2. CASE ConsumeFirst(c, p)
    <3>1. passports' \in [PassportIds -> PassportRec]
      <4>1. \A r \in PassportRec, k \in Consumers :
              [r EXCEPT !.status = "CONSUMED", !.consumedBy = k] \in PassportRec
        BY DEF PassportRec
      <4>2. QED
        BY <2>1, <2>2, <4>1 DEF TypeOK, ConsumeFirst, ConsumeRecorded
    <3>2. change' \in ChangeRec
      BY <2>2 DEF TypeOK, ConsumeFirst, ConsumeRecorded, ChangeRec, Statuses
    <3>3. entry \in LedgerEntry
      BY <2>1 DEF LedgerEntry
    <3>4. ledger' \in Seq(LedgerEntry)
      BY <2>2, <3>3 DEF TypeOK, ConsumeFirst, ConsumeRecorded
    <3>5. calls' \in [Calls -> CallRec] /\ \A d \in Calls : CallOperands(calls'[d])
      BY <1>5, CallReturned DEF CommitConsume
    <3>6. QED
      BY <1>5, <3>1, <3>2, <3>4, <3>5 DEF TypeOK, CommitConsume, history
  <2>3. CASE ConsumeLapsed(c, p)
    <3>1. passports' \in [PassportIds -> PassportRec]
      BY <2>1, <2>3, PassportStatusSet DEF ConsumeLapsed
    <3>2. QED
      BY <1>5, <2>3, <3>1, CallReturned DEF TypeOK, CommitConsume, ConsumeLapsed, history
  <2>4. CASE ConsumeAnswered(c, p)
    BY <1>5, <2>4, CallReturned DEF TypeOK, CommitConsume, ConsumeAnswered, history
  <2>5. QED
    BY <1>5, <2>2, <2>3, <2>4 DEF CommitConsume
<1>6. QED
  BY <1>1, <1>2, <1>3, <1>4, <1>5 DEF Release

\* The experiment keeps the types.
LEMMA ExperimentType ==
  ASSUME TypeOK, Experiment
  PROVE  TypeOK'
<1> DEFINE JobsOK == /\ jobs \in [Jobs -> JobRec]
                     /\ \A j \in Jobs : jobs[j].state # "NONE" => jobs[j].input \in Artifacts
<1>1. change.artifact \in Artifacts /\ change.ruleSet \in Rules \cup {None}
  BY DEF TypeOK, ChangeRec
<1>2. ASSUME NEW c \in Calls, NEW u \in Users, BeginQueue(c, u)
      PROVE  TypeOK'
  <2> DEFINE k == [Idle EXCEPT !.op = "Queue", !.artifact = change.artifact]
  <2>1. k \in CallRec /\ CallOperands(k)
    BY <1>1 DEF Idle, CallRec, CallOperands, Ops
  <2>2. QED
    BY <1>2, <2>1, ReadOnlyType DEF BeginQueue, Begin
<1>3. ASSUME NEW c \in Calls, NEW j \in Jobs, CommitQueue(c, j)
      PROVE  TypeOK'
  <2>1. calls[c].artifact \in Artifacts
    BY <1>3 DEF TypeOK, CommitQueue, CallOperands
  <2>2. JobsOK'
    BY <1>3, <2>1 DEF TypeOK, CommitQueue, Enqueue, NoJob, JobRec
  <2>3. change' \in ChangeRec
    BY <1>3 DEF TypeOK, CommitQueue, ChangeRec, Statuses
  <2>4. QED
    BY <1>3, <2>2, <2>3, CallReturned DEF TypeOK, CommitQueue, history
<1>4. ASSUME NEW j \in Jobs, jobs[j].state # "NONE",
             NEW s \in {"PENDING", "CLAIMED", "RUNNING", "FINALIZED", "COMPLETED", "DEAD"},
             SetJob(j, s)
      PROVE  JobsOK'
  BY <1>4 DEF TypeOK, SetJob, JobRec
<1>5. ASSUME NEW j \in Jobs, ClaimJob(j)
      PROVE  TypeOK'
  <2>1. JobsOK'
    <3>1. CASE jobs' = [jobs EXCEPT ![j] = [@ EXCEPT !.state = "CLAIMED",
                                                     !.rules = change.ruleSet]]
      BY <1>1, <1>5, <3>1 DEF TypeOK, ClaimJob, JobRec
    <3>2. QED
      BY <1>4, <1>5, <3>1 DEF ClaimJob
  <2>2. QED
    BY <1>5, <2>1 DEF TypeOK, ClaimJob, history
<1>6. ASSUME NEW j \in Jobs, StartJob(j)
      PROVE  TypeOK'
  <2>1. JobsOK'
    BY <1>4, <1>6 DEF StartJob
  <2>2. change' \in ChangeRec
    BY <1>6 DEF TypeOK, StartJob, ChangeRec, Statuses
  <2>3. QED
    BY <1>6, <2>1, <2>2 DEF TypeOK, StartJob, history
<1>7. ASSUME NEW j \in Jobs, FailJob(j) \/ RetryJob(j)
      PROVE  TypeOK'
  <2>1. JobsOK'
    BY <1>4, <1>7 DEF FailJob, RetryJob
  <2>2. QED
    BY <1>7, <2>1 DEF TypeOK, FailJob, RetryJob, history
<1>8. ASSUME NEW j \in Jobs, NEW trusted \in BOOLEAN, FinishJob(j, trusted)
      PROVE  TypeOK'
  <2> DEFINE report == [status |-> IF trusted THEN "TRUSTED" ELSE "UNTRUSTED",
                        artifact |-> jobs[j].input, rules |-> jobs[j].rules]
  <2>1. JobsOK'
    BY <1>4, <1>8 DEF FinishJob
  <2>2. jobs[j].input \in Artifacts /\ jobs[j].rules \in Rules \cup {None}
    BY <1>8 DEF TypeOK, FinishJob, JobRec
  <2>3. report \in ReportRec
    BY <2>2 DEF ReportRec
  <2>4. change' \in ChangeRec
    BY <1>8, <2>3 DEF TypeOK, FinishJob, ChangeRec, Statuses
  <2>5. rehearsed' \subseteq Artifacts \X (Rules \cup {None})
    BY <1>8, <2>2 DEF TypeOK, FinishJob
  <2>6. QED
    BY <1>8, <2>1, <2>4, <2>5 DEF TypeOK, FinishJob
<1>9. QED
  BY <1>2, <1>3, <1>5, <1>6, <1>7, <1>8 DEF Experiment

\* Policies, time and failures keep the types.
LEMMA EnvironmentType ==
  ASSUME TypeOK, Environment
  PROVE  TypeOK'
<1>1. ASSUME NEW u \in Users, NEW p \in PassportIds, RevokePassport(u, p)
      PROVE  TypeOK'
  <2>1. passports' \in [PassportIds -> PassportRec]
    BY <1>1, PassportStatusSet DEF RevokePassport
  <2>2. QED
    BY <1>1, <2>1 DEF TypeOK, RevokePassport, history
<1>2. ASSUME NEW p \in PassportIds, GateVerify(p)
      PROVE  TypeOK'
  <2>1. passports' \in [PassportIds -> PassportRec]
    BY <1>2, PassportStatusSet DEF GateVerify
  <2>2. QED
    BY <1>2, <2>1 DEF TypeOK, GateVerify, history
<1>3. ASSUME NEW r \in Rules, ChangePolicies(r)
      PROVE  TypeOK'
  BY <1>3 DEF TypeOK, ChangePolicies, history
<1>4. CASE Tick
  BY <1>4 DEF TypeOK, Tick, history
<1>5. ASSUME NEW c \in Calls, Abandon(c)
      PROVE  TypeOK'
  BY <1>5, CallReturned DEF TypeOK, Abandon, history
<1>6. CASE Restart
  <2>1. calls' \in [Calls -> CallRec] /\ \A c \in Calls : CallOperands(calls'[c])
    BY <1>6, IdleIsCall DEF Restart
  <2>2. change.artifact \in Artifacts
    BY DEF TypeOK, ChangeRec
  <2>3. /\ jobs' \in [Jobs -> JobRec]
        /\ \A j \in Jobs : jobs'[j].state # "NONE" => jobs'[j].input \in Artifacts
    <3>1. CASE UNCHANGED jobs
      BY <3>1 DEF TypeOK
    <3>2. ASSUME NEW j \in Jobs, Enqueue(j, change.artifact)
          PROVE  <2>3!1 /\ <2>3!2
      BY <2>2, <3>2 DEF TypeOK, Enqueue, NoJob, JobRec
    <3>3. QED
      BY <1>6, <3>1, <3>2 DEF Restart
  <2>4. QED
    BY <1>6, <2>1, <2>3, PassportSweeps DEF TypeOK, Restart, history
<1>7. QED
  BY <1>1, <1>2, <1>3, <1>4, <1>5, <1>6 DEF Environment

\* The workflow never stores a malformed change, passport or outbox event, and
\* no handler commits an operand it did not read (all of internal/service).
THEOREM TypeCorrect == Spec => []TypeOK
<1>1. Init => TypeOK
  <2> SUFFICES ASSUME Init PROVE TypeOK
    OBVIOUS
  <2>1. change \in ChangeRec
    <3>1. NoCheck \in CheckRec /\ NoFinding \in FindingRec /\ NoReport \in ReportRec
      BY DEF NoCheck, CheckRec, NoFinding, FindingRec, NoReport, ReportRec
    <3>2. QED
      BY <3>1 DEF Init, ChangeRec, Statuses
  <2>2. NoPassport \in PassportRec /\ NoJob \in JobRec
    BY DEF NoPassport, PassportRec, NoJob, JobRec
  <2>3. jobs \in [Jobs -> JobRec] /\ \A j \in Jobs : jobs[j].state = "NONE"
    BY <2>2 DEF Init, NoJob
  <2>4. calls \in [Calls -> CallRec] /\ \A c \in Calls : CallOperands(calls[c])
    BY IdleIsCall DEF Init
  <2>5. QED
    BY <2>1, <2>2, <2>3, <2>4 DEF Init, TypeOK
<1>2. TypeOK /\ [Next]_vars => TypeOK'
  <2> SUFFICES ASSUME TypeOK, [Next]_vars PROVE TypeOK'
    OBVIOUS
  <2>1. CASE Next
    BY <2>1, EditType, RemediateType, ReviewType, ReleaseType, ExperimentType,
       EnvironmentType DEF Next
  <2>2. CASE UNCHANGED vars
    BY <2>2 DEF TypeOK, vars
  <2>3. QED
    BY <2>1, <2>2
<1>3. QED
  BY <1>1, <1>2, PTL DEF Spec

-----------------------------------------------------------------------------
(* What a passport rests on.  The invariant ReleaseInv adds to the two      *)
(* properties what handlers in flight carry, and that the stored results    *)
(* are evidence; the histories passed and rehearsed only grow.              *)

\* ReleaseInv depends on the change, the passports and the handlers only through
\* these parts, so a step that leaves the first two alone and moves one handler
\* has one thing to show.
LEMMA CarriedMove ==
  ASSUME TypeOK, ReleaseInv, NEW c \in Calls, NEW k,
         Proceed(c, k), Carried(k),
         UNCHANGED <<change, passports, passed, rehearsed>>
  PROVE  ReleaseInv'
BY DEF TypeOK, ReleaseInv, SeparationOfDuties, PassportEvidence, CarriedEvidence, Carried, Proceed

\* A step issues nothing for q and leaves alone what q is bound to.
BindingKept(q) ==
  /\ passports'[q].status # "NONE" => passports[q].status # "NONE"
  /\ passports'[q].artifact = passports[q].artifact
  /\ passports'[q].rules = passports[q].rules
  /\ passports'[q].approver = passports[q].approver

\* Revoking a passport, or marking it expired, keeps all bindings.
LEMMA StatusSetKeeps ==
  ASSUME TypeOK, NEW p \in PassportIds, NEW s \in {"REVOKED", "EXPIRED"},
         passports[p].status # "NONE",
         passports' = [passports EXCEPT ![p] = [@ EXCEPT !.status = s]]
  PROVE  \A q \in PassportIds : BindingKept(q)
BY DEF TypeOK, PassportRec, BindingKept

\* Editing and submission keep ReleaseInv: a stored CheckRun enters passed as it is
\* written.
LEMMA EditRelease ==
  ASSUME TypeOK, ReleaseInv, NEW c \in Calls, Edit(c)
  PROVE  ReleaseInv'
<1>0. calls \in [Calls -> CallRec] /\ Carried(Idle)
  BY DEF TypeOK, Carried, Idle
<1>1. ASSUME NEW a \in Artifacts, BeginUpdate(c, a)
      PROVE  ReleaseInv'
  <2> DEFINE k == [Idle EXCEPT !.op = "Update", !.artifact = a]
  <2>1. Carried(k)
    BY DEF Carried, Idle
  <2>2. QED
    BY <1>1, <2>1, CarriedMove DEF BeginUpdate, Begin, history
<1>2. CASE CommitUpdate(c)
  BY <1>0, <1>2 DEF CommitUpdate, Proceed, Idle, ReleaseInv, SeparationOfDuties,
     PassportEvidence, CarriedEvidence, Carried, NoCheck, NoReport, history
<1>3. CASE Sweep(c)
  BY <1>0, <1>3 DEF Sweep, Return, Idle, ReleaseInv, SeparationOfDuties,
     PassportEvidence, CarriedEvidence, Carried, RevokedAll, history, TypeOK, PassportRec
<1>4. CASE BeginSubmit(c)
  <2> DEFINE k == [Idle EXCEPT !.op = "SubmitRead", !.artifact = change.artifact]
  <2>1. Carried(k)
    BY DEF Carried, Idle
  <2>2. QED
    BY <1>4, <2>1, CarriedMove DEF BeginSubmit, Begin, history
<1>5. ASSUME NEW o \in Outcomes, SubmitCheck(c, o)
      PROVE  ReleaseInv'
  <2>1. \A q \in PassportIds : BindingKept(q)
    BY <1>5 DEF SubmitCheck, BindingKept, RevokedAll, TypeOK, PassportRec
  <2>2. \A d \in Calls : calls'[d].op \in {"Approve", "Reject", "IssueRead", "Issue"} =>
                           calls'[d] = calls[d]
    BY <1>0, <1>5 DEF SubmitCheck, Proceed, CallRec
  <2>3. /\ change' = change /\ passed' = passed /\ rehearsed' = rehearsed
    BY <1>5 DEF SubmitCheck
  <2>4. QED
    BY <2>1, <2>2, <2>3 DEF ReleaseInv, SeparationOfDuties, PassportEvidence,
       CarriedEvidence, Carried, BindingKept
<1>6. CASE CommitSubmit(c)
  BY <1>0, <1>6 DEF CommitSubmit, Return, Idle, ReleaseInv, SeparationOfDuties,
     PassportEvidence, CarriedEvidence, Carried, TypeOK, ChangeRec, CallRec, NoReport
<1>7. QED
  BY <1>1, <1>2, <1>3, <1>4, <1>5, <1>6 DEF Edit

\* So does remediation: the rewritten CheckRun enters passed as well.
LEMMA RemediateRelease ==
  ASSUME TypeOK, ReleaseInv, NEW c \in Calls, Remediate(c)
  PROVE  ReleaseInv'
<1>0. calls \in [Calls -> CallRec] /\ Carried(Idle)
  BY DEF TypeOK, Carried, Idle
<1>1. ASSUME NEW u \in Users, NEW owner \in Users, BeginAssign(c, u, owner)
      PROVE  ReleaseInv'
  <2> DEFINE k == [Idle EXCEPT !.op = "Assign", !.actor = owner, !.finding = change.finding.id]
  <2>1. Carried(k)
    BY DEF Carried, Idle
  <2>2. QED
    BY <1>1, <2>1, CarriedMove DEF BeginAssign, Begin, history
<1>2. ASSUME NEW u \in Users, BeginResolve(c, u)
      PROVE  ReleaseInv'
  <2> DEFINE k == [Idle EXCEPT !.op = "Resolve", !.actor = u, !.finding = change.finding.id]
  <2>1. Carried(k)
    BY DEF Carried, Idle
  <2>2. QED
    BY <1>2, <2>1, CarriedMove DEF BeginResolve, Begin, history
<1>3. ASSUME NEW u \in Users, NEW ok \in BOOLEAN, BeginVerify(c, u, ok)
      PROVE  ReleaseInv'
  <2> DEFINE k == [Idle EXCEPT !.op = "Verify", !.actor = u, !.ok = ok,
                               !.finding = change.finding.id]
  <2>1. Carried(k)
    BY DEF Carried, Idle
  <2>2. QED
    BY <1>3, <2>1, CarriedMove DEF BeginVerify, Begin, history
<1>4. ASSUME UNCHANGED <<passports, passed, rehearsed>>, Return(c),
             \/ change' = change
             \/ \E f : change' = [change EXCEPT !.finding = f]
      PROVE  ReleaseInv'
  <2>1. /\ change'.status = change.status /\ change'.reviewer = change.reviewer
        /\ change'.check = change.check /\ change'.experiment = change.experiment
    BY <1>4 DEF TypeOK, ChangeRec
  <2>2. QED
    BY <1>0, <1>4, <2>1 DEF Return, ReleaseInv, SeparationOfDuties, PassportEvidence,
       CarriedEvidence, Carried
<1>5. CASE CommitAssign(c)
  BY <1>4, <1>5 DEF CommitAssign, history
<1>6. CASE CommitResolve(c)
  BY <1>4, <1>6 DEF CommitResolve, history
<1>7. CASE CommitVerify(c)
  <2>1. CASE Unblock
    BY <1>0, <1>7, <2>1 DEF CommitVerify, Unblock, Return, ReleaseInv, SeparationOfDuties,
       PassportEvidence, CarriedEvidence, Carried, TypeOK, ChangeRec
  <2>2. CASE ~Unblock
    BY <1>4, <1>7, <2>2 DEF CommitVerify
  <2>3. QED
    BY <2>1, <2>2
<1>8. QED
  BY <1>1, <1>2, <1>3, <1>5, <1>6, <1>7 DEF Remediate

\* So does review: the reviewer committed is the one the handler carries.
LEMMA ReviewRelease ==
  ASSUME TypeOK, ReleaseInv, NEW c \in Calls, Review(c)
  PROVE  ReleaseInv'
<1>0. calls \in [Calls -> CallRec] /\ Carried(Idle) /\ Carried([Idle EXCEPT !.op = "Sweep"])
  BY DEF TypeOK, Carried, Idle
<1>1. ASSUME NEW u \in Users, BeginApprove(c, u)
      PROVE  ReleaseInv'
  <2> DEFINE k == [Idle EXCEPT !.op = "Approve", !.actor = u, !.artifact = change.artifact]
  <2>1. Carried(k)
    BY <1>1 DEF Carried, Idle, BeginApprove
  <2>2. QED
    BY <1>1, <2>1, CarriedMove DEF BeginApprove, Begin, history
<1>2. ASSUME NEW u \in Users, BeginReject(c, u)
      PROVE  ReleaseInv'
  <2> DEFINE k == [Idle EXCEPT !.op = "Reject", !.actor = u]
  <2>1. Carried(k)
    BY <1>2 DEF Carried, Idle, BeginReject
  <2>2. QED
    BY <1>2, <2>1, CarriedMove DEF BeginReject, Begin, history
<1>3. CASE CommitApprove(c) \/ CommitReject(c)
  <2>1. /\ change'.reviewer \in Reviewers \ {Submitter}
        /\ change'.check = change.check /\ change'.experiment = change.experiment
    BY <1>3 DEF CommitApprove, CommitReject, ReleaseInv, CarriedEvidence, Carried,
       TypeOK, ChangeRec
  <2>2. \A d \in Calls : Carried(calls'[d])
    BY <1>0, <1>3 DEF CommitApprove, CommitReject, Return, Proceed, ReleaseInv,
       CarriedEvidence, Carried
  <2>3. QED
    BY <1>3, <2>1, <2>2 DEF CommitApprove, CommitReject, ReleaseInv, SeparationOfDuties,
       PassportEvidence, CarriedEvidence, Carried, history
<1>4. QED
  BY <1>1, <1>2, <1>3 DEF Review

\* So do issue and consume: the passport created is bound to what IssuePassport
\* carries.
LEMMA ReleaseRelease ==
  ASSUME TypeOK, ReleaseInv, NEW c \in Calls, Release(c)
  PROVE  ReleaseInv'
<1>0. calls \in [Calls -> CallRec] /\ Carried(Idle)
  BY DEF TypeOK, Carried, Idle
<1>1. ASSUME NEW u \in Users, BeginIssue(c, u)
      PROVE  ReleaseInv'
  <2> DEFINE k == [Idle EXCEPT !.op = "IssueRead", !.actor = u, !.artifact = change.artifact,
                               !.rules = change.ruleSet]
  <2>1. u \in Reviewers \ {Submitter}
    BY <1>1 DEF BeginIssue, ReleaseInv, SeparationOfDuties
  <2>2. <<change.artifact, change.ruleSet>> \in passed
    BY <1>1 DEF BeginIssue, ReleaseInv, CarriedEvidence
  <2>3. HasSQL(change.artifact) => <<change.artifact, change.ruleSet>> \in rehearsed
    BY <1>1 DEF BeginIssue, ReleaseInv, CarriedEvidence, TrustedSQLExperiment
  <2>4. Carried(k)
    BY <2>1, <2>2, <2>3 DEF Carried, Idle
  <2>5. QED
    BY <1>1, <2>4, CarriedMove DEF BeginIssue, Begin, history
<1>2. CASE IssueCheckRules(c)
  <2> DEFINE k == [calls[c] EXCEPT !.op = "Issue", !.time = now + TTL]
  <2>1. Carried(k)
    BY <1>0, <1>2 DEF IssueCheckRules, ReleaseInv, CarriedEvidence, Carried, CallRec
  <2>2. QED
    BY <1>2, <2>1, CarriedMove DEF IssueCheckRules, history
<1>3. ASSUME NEW p \in PassportIds, CommitIssue(c, p)
      PROVE  ReleaseInv'
  <2>1. Carried(calls[c]) /\ calls[c].op = "Issue"
    BY <1>3 DEF CommitIssue, ReleaseInv, CarriedEvidence
  <2>2. \A q \in PassportIds \ {p} : BindingKept(q)
    BY <1>3 DEF CommitIssue, ExpiredMaterialised, TypeOK, PassportRec, BindingKept
  <2>3. /\ passports'[p].artifact = calls[c].artifact
        /\ passports'[p].rules = calls[c].rules
        /\ passports'[p].approver = calls[c].actor
    BY <1>3 DEF CommitIssue, ExpiredMaterialised
  <2>4. SeparationOfDuties'
    BY <1>3, <2>1, <2>2, <2>3 DEF CommitIssue, Carried, ReleaseInv, SeparationOfDuties,
       BindingKept
  <2>5. PassportEvidence'
    BY <1>3, <2>1, <2>2, <2>3 DEF CommitIssue, Carried, ReleaseInv, PassportEvidence, history,
       BindingKept
  <2>6. CarriedEvidence'
    BY <1>0, <1>3 DEF CommitIssue, Return, ReleaseInv, CarriedEvidence, Carried, history
  <2>7. QED
    BY <2>4, <2>5, <2>6 DEF ReleaseInv
<1>4. ASSUME NEW p \in PassportIds, NEW job \in Consumers, NEW files \in Artifacts,
             BeginConsume(c, p, job, files)
      PROVE  ReleaseInv'
  <2> DEFINE k == [Idle EXCEPT !.op = "Consume", !.actor = job, !.artifact = files,
                               !.passport = p, !.time = now]
  <2>1. Carried(k)
    BY DEF Carried, Idle
  <2>2. QED
    BY <1>4, <2>1, CarriedMove DEF BeginConsume, Begin, history
<1>5. CASE CommitConsume(c)
  <2> DEFINE p == calls[c].passport
  <2>1. /\ change'.check = change.check /\ change'.experiment = change.experiment
        /\ change'.reviewer = change.reviewer
        /\ change'.status # change.status => change.status = "APPROVED"
    BY <1>5 DEF CommitConsume, ConsumeFirst, ConsumeRecorded, ConsumeLapsed, ConsumeAnswered, Bound,
       TypeOK, ChangeRec
  <2>2. p \in PassportIds
    BY <1>5 DEF CommitConsume, TypeOK, CallOperands
  <2>3. \A q \in PassportIds : BindingKept(q)
    <3>1. CASE ConsumeFirst(c, p)
      BY <2>2, <3>1 DEF ConsumeFirst, ConsumeRecorded, TypeOK, PassportRec, BindingKept
    <3>2. CASE ConsumeLapsed(c, p)
      BY <2>2, <3>2, StatusSetKeeps DEF ConsumeLapsed
    <3>3. CASE ConsumeAnswered(c, p)
      BY <3>3 DEF ConsumeAnswered, BindingKept
    <3>4. QED
      BY <1>5, <3>1, <3>2, <3>3 DEF CommitConsume
  <2>4. SeparationOfDuties' /\ PassportEvidence'
    BY <1>5, <2>1, <2>3 DEF CommitConsume, ReleaseInv, SeparationOfDuties, PassportEvidence,
       BindingKept, history
  <2>5. CarriedEvidence'
    BY <1>0, <1>5, <2>1 DEF CommitConsume, Return, ReleaseInv, CarriedEvidence, Carried, history
  <2>6. QED
    BY <2>4, <2>5 DEF ReleaseInv
<1>6. QED
  BY <1>1, <1>2, <1>3, <1>4, <1>5 DEF Release

\* So does the shadow experiment: a trusted report enters rehearsed as it is stored.
LEMMA ExperimentRelease ==
  ASSUME TypeOK, ReleaseInv, Experiment
  PROVE  ReleaseInv'
<1>0. calls \in [Calls -> CallRec] /\ Carried(Idle)
  BY DEF TypeOK, Carried, Idle
<1>1. ASSUME NEW c \in Calls, NEW u \in Users, BeginQueue(c, u)
      PROVE  ReleaseInv'
  <2> DEFINE k == [Idle EXCEPT !.op = "Queue", !.artifact = change.artifact]
  <2>1. Carried(k)
    BY DEF Carried, Idle
  <2>2. QED
    BY <1>1, <2>1, CarriedMove DEF BeginQueue, Begin, history
<1>2. ASSUME NEW c \in Calls, NEW j \in Jobs, CommitQueue(c, j)
      PROVE  ReleaseInv'
  BY <1>0, <1>2 DEF CommitQueue, Return, ReleaseInv, SeparationOfDuties, PassportEvidence,
     CarriedEvidence, Carried, TypeOK, ChangeRec, history
<1>3. ASSUME NEW j \in Jobs, ClaimJob(j) \/ FailJob(j) \/ RetryJob(j)
      PROVE  ReleaseInv'
  BY <1>3 DEF ClaimJob, FailJob, RetryJob, ReleaseInv, SeparationOfDuties, PassportEvidence,
     CarriedEvidence, Carried, history
<1>4. ASSUME NEW j \in Jobs, StartJob(j)
      PROVE  ReleaseInv'
  BY <1>4 DEF StartJob, ReleaseInv, SeparationOfDuties, PassportEvidence,
     CarriedEvidence, Carried, TypeOK, ChangeRec, history
<1>5. ASSUME NEW j \in Jobs, NEW trusted \in BOOLEAN, FinishJob(j, trusted)
      PROVE  ReleaseInv'
  <2>1. /\ change'.status \in {"WAITING_APPROVAL", "CHECK_FAILED"}
        /\ change'.check = change.check
        /\ change'.experiment = [status |-> IF trusted THEN "TRUSTED" ELSE "UNTRUSTED",
                                 artifact |-> jobs[j].input, rules |-> jobs[j].rules]
    BY <1>5 DEF FinishJob, TypeOK, ChangeRec
  <2>2. rehearsed \subseteq rehearsed'
        /\ (trusted => <<jobs[j].input, jobs[j].rules>> \in rehearsed')
    BY <1>5 DEF FinishJob
  <2>3. QED
    BY <1>5, <2>1, <2>2 DEF FinishJob, ReleaseInv, SeparationOfDuties, PassportEvidence,
       CarriedEvidence, Carried
<1>6. QED
  BY <1>1, <1>2, <1>3, <1>4, <1>5 DEF Experiment

\* So do revocation, expiry, policies, time, failures and restarts.
LEMMA EnvironmentRelease ==
  ASSUME TypeOK, ReleaseInv, Environment
  PROVE  ReleaseInv'
<1>0. calls \in [Calls -> CallRec] /\ Carried(Idle)
  BY DEF TypeOK, Carried, Idle
<1>1. ASSUME NEW u \in Users, NEW p \in PassportIds, RevokePassport(u, p) \/ GateVerify(p)
      PROVE  ReleaseInv'
  <2>1. \A q \in PassportIds : BindingKept(q)
    BY <1>1, StatusSetKeeps DEF RevokePassport, GateVerify
  <2>2. QED
    BY <1>1, <2>1 DEF RevokePassport, GateVerify, ReleaseInv, SeparationOfDuties,
       PassportEvidence, CarriedEvidence, Carried, BindingKept, history
<1>2. ASSUME NEW r \in Rules, ChangePolicies(r)
      PROVE  ReleaseInv'
  BY <1>2 DEF ChangePolicies, ReleaseInv, SeparationOfDuties, PassportEvidence,
     CarriedEvidence, Carried, history
<1>3. CASE Tick
  BY <1>3 DEF Tick, ReleaseInv, SeparationOfDuties, PassportEvidence,
     CarriedEvidence, Carried, history
<1>4. ASSUME NEW c \in Calls, Abandon(c)
      PROVE  ReleaseInv'
  BY <1>0, <1>4, CarriedMove DEF Abandon, Return, Proceed, history
<1>5. CASE Restart
  <2>1. \A q \in PassportIds : BindingKept(q)
    BY <1>5 DEF Restart, ExpiredMaterialised, TypeOK, PassportRec, BindingKept
  <2>2. \A c \in Calls : Carried(calls'[c])
    BY <1>0, <1>5 DEF Restart
  <2>3. QED
    BY <1>5, <2>1, <2>2 DEF Restart, ReleaseInv, SeparationOfDuties, PassportEvidence,
       CarriedEvidence, Carried, BindingKept, history
<1>6. QED
  <2>1. ASSUME NEW p \in PassportIds, GateVerify(p)
        PROVE  ReleaseInv'
    BY <1>1, <2>1, ConstantAssumption
  <2>2. QED
    BY <1>1, <1>2, <1>3, <1>4, <1>5, <2>1 DEF Environment

\* The strengthened invariant holds throughout.
LEMMA ReleaseInvariant == Spec => []ReleaseInv
<1>1. Init => ReleaseInv
  BY DEF Init, ReleaseInv, SeparationOfDuties, PassportEvidence, CarriedEvidence, Carried,
     NoPassport, NoCheck, NoReport, Idle
<1>2. TypeOK /\ ReleaseInv /\ [Next]_vars => ReleaseInv'
  <2> SUFFICES ASSUME TypeOK, ReleaseInv, [Next]_vars PROVE ReleaseInv'
    OBVIOUS
  <2>1. CASE Next
    BY <2>1, EditRelease, RemediateRelease, ReviewRelease, ReleaseRelease,
       ExperimentRelease, EnvironmentRelease DEF Next
  <2>2. CASE UNCHANGED vars
    BY <2>2 DEF vars, ReleaseInv, SeparationOfDuties, PassportEvidence, CarriedEvidence, Carried
  <2>3. QED
    BY <2>1, <2>2
<1>3. QED
  BY <1>1, <1>2, TypeCorrect, PTL DEF Spec

\* Four eyes: whatever handlers interleave, a decided change and every passport
\* name a reviewer other than the submitter (Approve, Reject, IssuePassport).
THEOREM FourEyes == Spec => []SeparationOfDuties
<1>1. ReleaseInv => SeparationOfDuties
  BY DEF ReleaseInv
<1>2. QED
  BY <1>1, ReleaseInvariant, PTL

\* No passport without a PASSED check and, for SQL, a trusted shadow experiment of
\* the content and rules it is bound to (IssuePassport, CreatePassport).
THEOREM EvidenceBehindPassports == Spec => []PassportEvidence
<1>1. ReleaseInv => PassportEvidence
  BY DEF ReleaseInv
<1>2. QED
  BY <1>1, ReleaseInvariant, PTL

-----------------------------------------------------------------------------
(***************************************************************************)
(* The one-time passport: at most one ACTIVE passport, a ledger that agrees *)
(* with the passports, final states that are final, consume and completion *)
(* as one unit, and the refinement of OneTimePass.  All of them follow from *)
(* one case distinction, StepEffect: a step withdraws passports, creates   *)
(* one, or consumes one.                                                   *)
(***************************************************************************)

(* What one step can do to the stored passports. *)

\* A passport is left alone, or an ACTIVE one is revoked or found expired.
KeptOrVoided(p) ==
  \/ passports'[p] = passports[p]
  \/ /\ passports[p].status = "ACTIVE"
     /\ \E s \in {"REVOKED", "EXPIRED"} : passports'[p] = [passports[p] EXCEPT !.status = s]

\* The handler in slot c, if it is to consume after the step, already was or has
\* just found the passport and its digest.
ConsumeFound(c) ==
  calls'[c].op = "Consume" =>
    \/ calls'[c] = calls[c]
    \/ LET p == calls'[c].passport IN
       /\ p \in PassportIds
       /\ passports[p].status # "NONE"
       /\ calls'[c].artifact = passports[p].artifact
       /\ passports' = passports

\* Nothing is released: passports are at most withdrawn.
Withdrawing ==
  /\ \A p \in PassportIds : KeptOrVoided(p)
  /\ ledger' = ledger
  /\ change'.status = "COMPLETED" => change.status = "COMPLETED"
  /\ \A c \in Calls : ConsumeFound(c)

\* What a passport that is kept or voided keeps.
LEMMA VoidedFields ==
  ASSUME TypeOK, NEW p \in PassportIds, KeptOrVoided(p)
  PROVE  /\ \/ passports'[p] = passports[p]
            \/ passports[p].status = "ACTIVE" /\ passports'[p].status \in {"REVOKED", "EXPIRED"}
         /\ passports'[p].artifact = passports[p].artifact
         /\ passports'[p].rules = passports[p].rules
         /\ passports'[p].approver = passports[p].approver
         /\ passports'[p].consumedBy = passports[p].consumedBy
<1>1. passports[p] \in PassportRec
  BY DEF TypeOK
<1>2. ASSUME NEW s \in {"REVOKED", "EXPIRED"}, passports'[p] = [passports[p] EXCEPT !.status = s]
      PROVE  /\ passports'[p].status = s
             /\ passports'[p].artifact = passports[p].artifact
             /\ passports'[p].rules = passports[p].rules
             /\ passports'[p].approver = passports[p].approver
             /\ passports'[p].consumedBy = passports[p].consumedBy
  BY <1>1, <1>2 DEF PassportRec
<1>3. QED
  BY <1>2 DEF KeptOrVoided

Issuing == \E c \in Calls, p \in PassportIds : CommitIssue(c, p)

Consuming == \E c \in Calls : CommitConsume(c) /\ ConsumeFirst(c, calls[c].passport)

\* A handler that moves on without consuming has found nothing to consume.
LEMMA MovesOn ==
  ASSUME TypeOK, NEW c \in Calls, NEW k, k.op # "Consume", Proceed(c, k)
  PROVE  \A d \in Calls : ConsumeFound(d)
BY DEF TypeOK, Proceed, ConsumeFound

\* Ending a handler is moving on.
LEMMA Returns ==
  ASSUME TypeOK, NEW c \in Calls, Return(c)
  PROVE  \A d \in Calls : ConsumeFound(d)
BY MovesOn DEF Return, Proceed, Idle

\* Revocation of all passports, and the materialisation of expiry, withdraw.
LEMMA SweepsWithdraw ==
  ASSUME TypeOK, passports' = RevokedAll \/ passports' = ExpiredMaterialised
  PROVE  \A p \in PassportIds : KeptOrVoided(p)
BY DEF TypeOK, RevokedAll, ExpiredMaterialised, KeptOrVoided

\* So does setting the status of one ACTIVE passport.
LEMMA StatusSetWithdraws ==
  ASSUME TypeOK, NEW p \in PassportIds, NEW s \in {"REVOKED", "EXPIRED"},
         passports[p].status = "ACTIVE",
         passports' = [passports EXCEPT ![p] = [@ EXCEPT !.status = s]]
  PROVE  \A q \in PassportIds : KeptOrVoided(q)
BY DEF TypeOK, KeptOrVoided

\* Editing and submission only withdraw passports.
LEMMA EditEffect ==
  ASSUME TypeOK, NEW c \in Calls, Edit(c)
  PROVE  Withdrawing
<1>1. ASSUME NEW a \in Artifacts, BeginUpdate(c, a)
      PROVE  Withdrawing
  BY <1>1, MovesOn DEF BeginUpdate, Begin, Idle, Withdrawing, KeptOrVoided
<1>2. CASE CommitUpdate(c)
  BY <1>2, MovesOn DEF CommitUpdate, Idle, Withdrawing, KeptOrVoided
<1>3. CASE Sweep(c)
  BY <1>3, Returns, SweepsWithdraw DEF Sweep, Withdrawing
<1>4. CASE BeginSubmit(c)
  BY <1>4, MovesOn DEF BeginSubmit, Begin, Idle, Withdrawing, KeptOrVoided
<1>5. ASSUME NEW o \in Outcomes, SubmitCheck(c, o)
      PROVE  Withdrawing
  <2> DEFINE k == [calls[c] EXCEPT !.op = "Submit", !.rules = rules,
                                   !.blocking = o.blocking, !.high = o.high]
  <2>1. k.op # "Consume"
    BY DEF TypeOK, CallRec
  <2>2. \A p \in PassportIds : KeptOrVoided(p)
    <3>1. CASE passports' = RevokedAll
      BY <3>1, SweepsWithdraw
    <3>2. CASE passports' = passports
      BY <3>2 DEF KeptOrVoided
    <3>3. QED
      BY <1>5, <3>1, <3>2 DEF SubmitCheck
  <2>3. QED
    BY <1>5, <2>1, <2>2, MovesOn DEF SubmitCheck, Withdrawing
<1>6. CASE CommitSubmit(c)
  <2>1. change'.status # "COMPLETED"
    BY <1>6 DEF CommitSubmit, TypeOK, ChangeRec
  <2>2. QED
    BY <1>6, <2>1, Returns DEF CommitSubmit, Withdrawing, KeptOrVoided
<1>7. QED
  BY <1>1, <1>2, <1>3, <1>4, <1>5, <1>6 DEF Edit

\* Remediation leaves passports alone.
LEMMA RemediateEffect ==
  ASSUME TypeOK, NEW c \in Calls, Remediate(c)
  PROVE  Withdrawing
<1>1. ASSUME NEW u \in Users, NEW v \in Users, NEW ok \in BOOLEAN,
             BeginAssign(c, u, v) \/ BeginResolve(c, u) \/ BeginVerify(c, u, ok)
      PROVE  Withdrawing
  BY <1>1, MovesOn DEF BeginAssign, BeginResolve, BeginVerify, Begin, Idle, Withdrawing,
     KeptOrVoided
<1>2. CASE CommitAssign(c)
  <2>1. change'.status = change.status
    BY <1>2 DEF CommitAssign, TypeOK, ChangeRec
  <2>2. QED
    BY <1>2, <2>1, Returns DEF CommitAssign, Withdrawing, KeptOrVoided
<1>3. CASE CommitResolve(c)
  <2>1. change'.status = change.status
    BY <1>3 DEF CommitResolve, TypeOK, ChangeRec
  <2>2. QED
    BY <1>3, <2>1, Returns DEF CommitResolve, Withdrawing, KeptOrVoided
<1>4. CASE CommitVerify(c)
  <2>1. change'.status = "COMPLETED" => change.status = "COMPLETED"
    BY <1>4 DEF CommitVerify, Unblock, TypeOK, ChangeRec
  <2>2. QED
    BY <1>4, <2>1, Returns DEF CommitVerify, Withdrawing, KeptOrVoided
<1>5. QED
  BY <1>1, <1>2, <1>3, <1>4 DEF Remediate

\* Review only withdraws passports.
LEMMA ReviewEffect ==
  ASSUME TypeOK, NEW c \in Calls, Review(c)
  PROVE  Withdrawing
<1>1. ASSUME NEW u \in Users, BeginApprove(c, u) \/ BeginReject(c, u)
      PROVE  Withdrawing
  BY <1>1, MovesOn DEF BeginApprove, BeginReject, Begin, Idle, Withdrawing, KeptOrVoided
<1>2. CASE CommitApprove(c)
  <2>1. change'.status # "COMPLETED"
    BY <1>2 DEF CommitApprove, TypeOK, ChangeRec
  <2>2. QED
    BY <1>2, <2>1, Returns DEF CommitApprove, Withdrawing, KeptOrVoided
<1>3. CASE CommitReject(c)
  <2>1. change'.status # "COMPLETED"
    BY <1>3 DEF CommitReject, TypeOK, ChangeRec
  <2>2. QED
    BY <1>3, <2>1, MovesOn DEF CommitReject, Idle, Withdrawing, KeptOrVoided
<1>4. QED
  BY <1>1, <1>2, <1>3 DEF Review

\* Issue and consume do what their names say; the rest of them withdraws.
LEMMA ReleaseEffect ==
  ASSUME TypeOK, NEW c \in Calls, Release(c)
  PROVE  Withdrawing \/ Issuing \/ Consuming
<1>1. ASSUME NEW u \in Users, BeginIssue(c, u)
      PROVE  Withdrawing
  BY <1>1, MovesOn DEF BeginIssue, Begin, Idle, Withdrawing, KeptOrVoided
<1>2. CASE IssueCheckRules(c)
  <2> DEFINE k == [calls[c] EXCEPT !.op = "Issue", !.time = now + TTL]
  <2>1. k.op # "Consume"
    BY DEF TypeOK, CallRec
  <2>2. QED
    BY <1>2, <2>1, MovesOn DEF IssueCheckRules, Withdrawing, KeptOrVoided
<1>3. ASSUME NEW p \in PassportIds, NEW job \in Consumers, NEW files \in Artifacts,
             BeginConsume(c, p, job, files)
      PROVE  Withdrawing
  <2>1. calls'[c].passport = p /\ calls'[c].artifact = files
    BY <1>3 DEF BeginConsume, Begin, Proceed, Idle, TypeOK
  <2>2. \A d \in Calls \ {c} : calls'[d] = calls[d]
    BY <1>3 DEF BeginConsume, Begin, Proceed, TypeOK
  <2>3. \A d \in Calls : ConsumeFound(d)
    BY <1>3, <2>1, <2>2 DEF BeginConsume, ConsumeFound
  <2>4. QED
    BY <1>3, <2>3 DEF BeginConsume, Withdrawing, KeptOrVoided
<1>4. CASE CommitConsume(c)
  <2>1. calls[c].passport \in PassportIds
    BY <1>4 DEF CommitConsume, TypeOK, CallOperands
  <2>2. CASE ConsumeFirst(c, calls[c].passport)
    BY <1>4, <2>2 DEF Consuming
  <2>3. CASE ConsumeLapsed(c, calls[c].passport)
    <3>1. \A p \in PassportIds : KeptOrVoided(p)
      BY <2>1, <2>3, StatusSetWithdraws DEF ConsumeLapsed
    <3>2. QED
      BY <1>4, <2>3, <3>1, Returns DEF CommitConsume, ConsumeLapsed, Withdrawing
  <2>4. CASE ConsumeAnswered(c, calls[c].passport)
    BY <1>4, <2>4, Returns DEF CommitConsume, ConsumeAnswered, Withdrawing, KeptOrVoided
  <2>5. QED
    BY <1>4, <2>2, <2>3, <2>4 DEF CommitConsume
<1>5. QED
  BY <1>1, <1>2, <1>3, <1>4 DEF Release, Issuing

\* The shadow experiment leaves passports alone.
LEMMA ExperimentEffect ==
  ASSUME TypeOK, Experiment
  PROVE  Withdrawing
<1>1. ASSUME NEW c \in Calls, NEW u \in Users, BeginQueue(c, u)
      PROVE  Withdrawing
  BY <1>1, MovesOn DEF BeginQueue, Begin, Idle, Withdrawing, KeptOrVoided
<1>2. ASSUME NEW c \in Calls, NEW j \in Jobs, CommitQueue(c, j)
      PROVE  Withdrawing
  <2>1. change'.status # "COMPLETED"
    BY <1>2 DEF CommitQueue, TypeOK, ChangeRec
  <2>2. QED
    BY <1>2, <2>1, Returns DEF CommitQueue, Withdrawing, KeptOrVoided
<1>3. ASSUME NEW j \in Jobs, ClaimJob(j) \/ FailJob(j) \/ RetryJob(j)
      PROVE  Withdrawing
  BY <1>3 DEF ClaimJob, FailJob, RetryJob, Withdrawing, KeptOrVoided, ConsumeFound
<1>4. ASSUME NEW j \in Jobs, StartJob(j)
      PROVE  Withdrawing
  <2>1. change'.status # "COMPLETED"
    BY <1>4 DEF StartJob, TypeOK, ChangeRec
  <2>2. QED
    BY <1>4, <2>1 DEF StartJob, Withdrawing, KeptOrVoided, ConsumeFound
<1>5. ASSUME NEW j \in Jobs, NEW trusted \in BOOLEAN, FinishJob(j, trusted)
      PROVE  Withdrawing
  <2>1. change'.status # "COMPLETED"
    BY <1>5 DEF FinishJob, TypeOK, ChangeRec
  <2>2. QED
    BY <1>5, <2>1 DEF FinishJob, Withdrawing, KeptOrVoided, ConsumeFound
<1>6. QED
  BY <1>1, <1>2, <1>3, <1>4, <1>5 DEF Experiment

\* Revocation, expiry and restarts withdraw; policies and time change nothing.
LEMMA EnvironmentEffect ==
  ASSUME TypeOK, Environment
  PROVE  Withdrawing
<1>1. ASSUME NEW u \in Users, NEW p \in PassportIds, RevokePassport(u, p)
      PROVE  Withdrawing
  BY <1>1, StatusSetWithdraws DEF RevokePassport, Withdrawing, ConsumeFound
<1>2. ASSUME NEW p \in PassportIds, GateVerify(p)
      PROVE  Withdrawing
  BY <1>2, StatusSetWithdraws DEF GateVerify, Withdrawing, ConsumeFound
<1>3. ASSUME NEW r \in Rules, ChangePolicies(r) \/ Tick
      PROVE  Withdrawing
  BY <1>3 DEF ChangePolicies, Tick, Withdrawing, KeptOrVoided, ConsumeFound
<1>4. CASE Tick
  BY <1>4 DEF Tick, Withdrawing, KeptOrVoided, ConsumeFound
<1>5. ASSUME NEW c \in Calls, Abandon(c)
      PROVE  Withdrawing
  BY <1>5, Returns DEF Abandon, Withdrawing, KeptOrVoided
<1>6. CASE Restart
  <2>1. \A c \in Calls : ConsumeFound(c)
    BY <1>6 DEF Restart, ConsumeFound, Idle
  <2>2. QED
    BY <1>6, <2>1, SweepsWithdraw DEF Restart, Withdrawing
<1>7. QED
  BY <1>1, <1>2, <1>3, <1>4, <1>5, <1>6 DEF Environment

\* Every step withdraws passports, creates one, or consumes one.
LEMMA StepEffect ==
  ASSUME TypeOK, [Next]_vars
  PROVE  Withdrawing \/ Issuing \/ Consuming
<1>1. CASE Next
  BY <1>1, EditEffect, RemediateEffect, ReviewEffect, ReleaseEffect, ExperimentEffect,
     EnvironmentEffect DEF Next
<1>2. CASE UNCHANGED vars
  BY <1>2 DEF vars, Withdrawing, KeptOrVoided, ConsumeFound
<1>3. QED
  BY <1>1, <1>2

-----------------------------------------------------------------------------
(* The invariant of the gate. *)

\* The entries of the ledger.
LEMMA LedgerEntries ==
  ASSUME TypeOK
  PROVE  /\ DOMAIN ledger = 1 .. Len(ledger) /\ Len(ledger) \in Nat
         /\ \A i \in DOMAIN ledger : ledger[i] \in LedgerEntry /\ ledger[i].passport \in PassportIds
<1>1. ledger \in Seq(LedgerEntry)
  BY DEF TypeOK
<1>2. DOMAIN ledger = 1 .. Len(ledger) /\ Len(ledger) \in Nat
  BY <1>1, LenProperties
<1>3. \A i \in 1 .. Len(ledger) : ledger[i] \in LedgerEntry
  BY <1>1, ElementOfSeq
<1>4. QED
  BY <1>2, <1>3 DEF LedgerEntry

\* Withdrawing passports keeps the gate's invariant.
LEMMA WithdrawKeeps ==
  ASSUME TypeOK, GateInv, Withdrawing
  PROVE  GateInv'
<1>1. \A p \in PassportIds :
        /\ passports'[p].status = "ACTIVE" => passports[p].status = "ACTIVE"
        /\ passports'[p].status = "CONSUMED" <=> passports[p].status = "CONSUMED"
        /\ passports[p].status # "NONE" => passports'[p].status # "NONE"
        /\ passports[p].status = "CONSUMED" => passports'[p] = passports[p]
        /\ passports'[p].artifact = passports[p].artifact
        /\ passports'[p].consumedBy = passports[p].consumedBy
  BY VoidedFields DEF Withdrawing
<1>2. OneActivePassport'
  BY <1>1 DEF GateInv, OneActivePassport
<1>3. LedgerAgrees'
  <2>1. \A i \in DOMAIN ledger : ledger[i].passport \in PassportIds
    BY LedgerEntries
  <2>2. QED
    BY <1>1, <2>1 DEF GateInv, LedgerAgrees, Withdrawing
<1>4. ConsumeCarries'
  <2>1. \A c \in Calls : calls[c].op = "Consume" => calls[c].passport \in PassportIds
    BY DEF TypeOK, CallOperands
  <2>2. QED
    BY <1>1, <2>1 DEF GateInv, ConsumeCarries, Withdrawing, ConsumeFound
<1>5. QED
  BY <1>2, <1>3, <1>4 DEF GateInv

\* CreatePassport keeps it: whatever was ACTIVE is expired by then.
LEMMA IssueKeeps ==
  ASSUME TypeOK, GateInv, Issuing
  PROVE  GateInv'
<1> PICK c \in Calls, p \in PassportIds : CommitIssue(c, p)
  BY DEF Issuing
<1>1. \A q \in PassportIds \ {p} :
        /\ passports'[q].status # "ACTIVE"
        /\ passports'[q].status = "CONSUMED" <=> passports[q].status = "CONSUMED"
        /\ passports[q].status # "NONE" => passports'[q].status # "NONE"
        /\ passports[q].status = "CONSUMED" => passports'[q] = passports[q]
        /\ passports'[q].artifact = passports[q].artifact
        /\ passports'[q].consumedBy = passports[q].consumedBy
  BY DEF CommitIssue, ExpiredMaterialised, TypeOK, PassportRec
<1>2. /\ passports[p].status = "NONE" /\ passports'[p].status = "ACTIVE"
      /\ passports'[p].consumedBy = None
  BY DEF CommitIssue, ExpiredMaterialised
<1>3. OneActivePassport'
  BY <1>1 DEF OneActivePassport
<1>4. LedgerAgrees'
  <2>1. \A i \in DOMAIN ledger : ledger[i].passport \in PassportIds \ {p}
    BY <1>2, LedgerEntries DEF GateInv, LedgerAgrees
  <2>2. ledger' = ledger
    BY DEF CommitIssue
  <2>3. QED
    BY <1>1, <1>2, <2>1, <2>2 DEF GateInv, LedgerAgrees
<1>5. ConsumeCarries'
  <2>1. \A d \in Calls : calls'[d].op = "Consume" => calls'[d] = calls[d]
    BY DEF CommitIssue, Return, Idle, TypeOK
  <2>2. \A d \in Calls : calls[d].op = "Consume" => calls[d].passport \in PassportIds \ {p}
    BY <1>2 DEF TypeOK, CallOperands, GateInv, ConsumeCarries
  <2>3. QED
    BY <1>1, <2>1, <2>2 DEF GateInv, ConsumeCarries
<1>6. QED
  BY <1>3, <1>4, <1>5 DEF GateInv

\* What the first consume of a passport writes.
LEMMA ConsumeWrites ==
  ASSUME TypeOK, GateInv, NEW c \in Calls, CommitConsume(c), NEW p, p = calls[c].passport,
         ConsumeFirst(c, p)
  PROVE  /\ p \in PassportIds /\ calls[c].actor \in Consumers
         /\ passports[p].status = "ACTIVE"
         /\ change.status = "APPROVED" /\ change'.status = "COMPLETED"
         /\ passports' \in [PassportIds -> PassportRec]
         /\ passports'[p] = [passports[p] EXCEPT !.status = "CONSUMED",
                                                 !.consumedBy = calls[c].actor]
         /\ \A q \in PassportIds \ {p} : passports'[q] = passports[q]
         /\ Len(ledger') = Len(ledger) + 1
         /\ \A i \in 1 .. Len(ledger) : ledger'[i] = ledger[i]
         /\ ledger'[Len(ledger) + 1] = [passport |-> p, consumer |-> calls[c].actor,
                                        artifact |-> passports[p].artifact]
<1> DEFINE entry == [passport |-> p, consumer |-> calls[c].actor,
                     artifact |-> calls[c].artifact]
<1>1. /\ p \in PassportIds /\ calls[c].actor \in Consumers /\ calls[c].artifact \in Artifacts
      /\ calls[c].artifact = passports[p].artifact
  BY DEF CommitConsume, TypeOK, CallOperands, GateInv, ConsumeCarries
<1>2. entry \in LedgerEntry /\ ledger \in Seq(LedgerEntry)
  BY <1>1 DEF LedgerEntry, TypeOK
<1>3. ledger' = Append(ledger, entry)
  BY DEF ConsumeFirst, ConsumeRecorded
<1>4. /\ Len(ledger') = Len(ledger) + 1
      /\ \A i \in 1 .. Len(ledger) : ledger'[i] = ledger[i]
      /\ ledger'[Len(ledger) + 1] = entry
  BY <1>2, <1>3, AppendProperties
<1>5. \A r \in PassportRec, k \in Consumers :
        [r EXCEPT !.status = "CONSUMED", !.consumedBy = k] \in PassportRec
  BY DEF PassportRec
<1>6. change.status = "APPROVED" /\ change'.status = "COMPLETED" /\ passports[p].status = "ACTIVE"
  BY DEF ConsumeFirst, ConsumeRecorded, Bound, TypeOK, ChangeRec
<1>7. /\ passports' \in [PassportIds -> PassportRec]
      /\ passports'[p] = [passports[p] EXCEPT !.status = "CONSUMED",
                                              !.consumedBy = calls[c].actor]
      /\ \A q \in PassportIds \ {p} : passports'[q] = passports[q]
  BY <1>1, <1>5 DEF ConsumeFirst, ConsumeRecorded, TypeOK
<1>8. QED
  BY <1>1, <1>4, <1>6, <1>7

\* A consume keeps the gate's invariant: the passport was ACTIVE, so the ledger
\* had no entry for it.
LEMMA ConsumeKeeps ==
  ASSUME TypeOK, TypeOK', GateInv, Consuming
  PROVE  GateInv'
<1> PICK c \in Calls : CommitConsume(c) /\ ConsumeFirst(c, calls[c].passport)
  BY DEF Consuming
<1>0. PICK p : p = calls[c].passport
  OBVIOUS
<1>1. /\ p \in PassportIds /\ calls[c].actor \in Consumers
      /\ passports[p].status = "ACTIVE"
      /\ passports'[p] = [passports[p] EXCEPT !.status = "CONSUMED",
                                              !.consumedBy = calls[c].actor]
      /\ \A q \in PassportIds \ {p} : passports'[q] = passports[q]
      /\ Len(ledger') = Len(ledger) + 1
      /\ \A i \in 1 .. Len(ledger) : ledger'[i] = ledger[i]
      /\ ledger'[Len(ledger) + 1] = [passport |-> p, consumer |-> calls[c].actor,
                                     artifact |-> passports[p].artifact]
  BY <1>0, ConsumeWrites
<1>2. /\ passports'[p].status = "CONSUMED" /\ passports'[p].consumedBy = calls[c].actor
      /\ passports'[p].artifact = passports[p].artifact
  BY <1>1 DEF TypeOK, PassportRec
<1>3. OneActivePassport'
  BY <1>1, <1>2 DEF GateInv, OneActivePassport
<1>4. LedgerAgrees'
  <2>1. /\ DOMAIN ledger = 1 .. Len(ledger) /\ Len(ledger) \in Nat
        /\ \A i \in DOMAIN ledger : ledger[i].passport \in PassportIds
    BY LedgerEntries
  <2>2. DOMAIN ledger' = 1 .. Len(ledger')
    BY LenProperties DEF TypeOK
  <2>3. \A i \in 1 .. Len(ledger) : ledger[i].passport # p
    BY <1>1, <2>1 DEF GateInv, LedgerAgrees
  <2>4. \A i \in DOMAIN ledger' : i \in 1 .. Len(ledger) \/ i = Len(ledger) + 1
    BY <1>1, <2>1, <2>2
  <2>5. \A i, k \in DOMAIN ledger' : ledger'[i].passport = ledger'[k].passport => i = k
    BY <1>1, <2>1, <2>3, <2>4 DEF GateInv, LedgerAgrees
  <2>6. \A i \in DOMAIN ledger' :
          LET q == ledger'[i].passport IN
          /\ passports'[q].status = "CONSUMED"
          /\ passports'[q].consumedBy = ledger'[i].consumer
          /\ passports'[q].artifact = ledger'[i].artifact
    <3>1. SUFFICES ASSUME NEW i \in DOMAIN ledger', NEW q, q = ledger'[i].passport
                   PROVE  /\ passports'[q].status = "CONSUMED"
                          /\ passports'[q].consumedBy = ledger'[i].consumer
                          /\ passports'[q].artifact = ledger'[i].artifact
      OBVIOUS
    <3>2. CASE i \in 1 .. Len(ledger)
      <4>1. ledger'[i] = ledger[i] /\ q \in PassportIds \ {p} /\ q = ledger[i].passport
        BY <1>1, <2>1, <2>3, <3>1, <3>2
      <4>2. QED
        BY <1>1, <2>1, <3>2, <4>1 DEF GateInv, LedgerAgrees
    <3>3. CASE i = Len(ledger) + 1
      <4>1. ledger'[i] = [passport |-> p, consumer |-> calls[c].actor,
                          artifact |-> passports[p].artifact]
        BY <1>1, <3>3
      <4>2. /\ q = p /\ ledger'[i].consumer = calls[c].actor
            /\ ledger'[i].artifact = passports[p].artifact
        BY <3>1, <4>1
      <4>3. QED
        BY <1>2, <4>2
    <3>4. QED
      BY <2>4, <3>2, <3>3
  <2>7. \A q \in PassportIds : passports'[q].status = "CONSUMED" =>
          \E i \in DOMAIN ledger' : ledger'[i].passport = q
    <3>1. SUFFICES ASSUME NEW q \in PassportIds, passports'[q].status = "CONSUMED"
                   PROVE  \E i \in DOMAIN ledger' : ledger'[i].passport = q
      OBVIOUS
    <3>2. CASE q = p
      BY <1>1, <2>1, <2>2, <3>2
    <3>3. CASE q # p
      <4>1. PICK i \in DOMAIN ledger : ledger[i].passport = q
        BY <1>1, <3>1, <3>3 DEF GateInv, LedgerAgrees
      <4>2. i \in DOMAIN ledger' /\ ledger'[i].passport = q
        BY <1>1, <2>1, <2>2, <4>1
      <4>3. QED
        BY <4>2
    <3>4. QED
      BY <3>2, <3>3
  <2>8. ASSUME NEW q \in PassportIds, passports'[q].status # "CONSUMED"
        PROVE  passports'[q].consumedBy = None
    <3>1. q # p /\ passports'[q] = passports[q]
      BY <1>1, <1>2, <2>8
    <3>2. QED
      BY <2>8, <3>1 DEF GateInv, LedgerAgrees
  <2>9. QED
    BY <2>5, <2>6, <2>7, <2>8 DEF LedgerAgrees
<1>5. ConsumeCarries'
  <2>1. \A d \in Calls : calls'[d].op = "Consume" =>
          calls'[d] = calls[d] /\ calls[d].passport \in PassportIds
    BY DEF CommitConsume, Return, Idle, TypeOK, CallOperands
  <2>2. \A q \in PassportIds : /\ passports'[q].artifact = passports[q].artifact
                               /\ passports[q].status # "NONE" => passports'[q].status # "NONE"
    BY <1>1, <1>2
  <2>3. QED
    BY <2>1, <2>2 DEF GateInv, ConsumeCarries
<1>6. QED
  BY <1>3, <1>4, <1>5 DEF GateInv

\* The invariant of the gate holds throughout.
LEMMA GateInvariant == Spec => []GateInv
<1>1. Init => GateInv
  BY DEF Init, GateInv, OneActivePassport, LedgerAgrees, ConsumeCarries, NoPassport, Idle
<1>2. TypeOK /\ TypeOK' /\ GateInv /\ [Next]_vars => GateInv'
  BY StepEffect, WithdrawKeeps, IssueKeeps, ConsumeKeeps
<1>3. QED
  BY <1>1, <1>2, TypeCorrect, PTL DEF Spec

-----------------------------------------------------------------------------
(* The theorems. *)

\* However many IssuePassport calls race, no two passports of the change are
\* ACTIVE (CreatePassport).
THEOREM AtMostOneActive == Spec => []OneActivePassport
<1>1. GateInv => OneActivePassport
  BY DEF GateInv
<1>2. QED
  BY <1>1, GateInvariant, PTL

\* The consume audits and the consumed passports agree, one for one
\* (UsePassport and its audit are one critical section).
THEOREM LedgerTheorem == Spec => []LedgerAgrees
<1>1. GateInv => LedgerAgrees
  BY DEF GateInv
<1>2. QED
  BY <1>1, GateInvariant, PTL

\* No handler, sweep or restart touches a passport that is consumed, revoked or
\* expired, or rebinds an active one.
THEOREM FinalPassports == Spec => PassportIsFinal
<1> DEFINE Final ==
      \A p \in PassportIds :
        /\ passports[p].status \in {"CONSUMED", "REVOKED", "EXPIRED"} =>
             passports'[p] = passports[p]
        /\ passports[p].status = "ACTIVE" =>
             /\ passports'[p].status # "NONE"
             /\ passports'[p].artifact = passports[p].artifact
             /\ passports'[p].rules = passports[p].rules
             /\ passports'[p].approver = passports[p].approver
<1>1. ASSUME TypeOK, GateInv, [Next]_vars PROVE Final
  <2>1. CASE Withdrawing
    BY <1>1, <2>1, VoidedFields DEF Withdrawing
  <2>2. CASE Issuing
    <3> PICK c \in Calls, q \in PassportIds : CommitIssue(c, q)
      BY <2>2 DEF Issuing
    <3>1. QED
      BY <1>1 DEF CommitIssue, ExpiredMaterialised, TypeOK, PassportRec
  <2>3. CASE Consuming
    <3> PICK c \in Calls : CommitConsume(c) /\ ConsumeFirst(c, calls[c].passport)
      BY <2>3 DEF Consuming
    <3>1. PICK q : q = calls[c].passport
      OBVIOUS
    <3>2. /\ q \in PassportIds
          /\ passports[q].status = "ACTIVE"
          /\ passports'[q] = [passports[q] EXCEPT !.status = "CONSUMED",
                                                  !.consumedBy = calls[c].actor]
          /\ \A p \in PassportIds \ {q} : passports'[p] = passports[p]
      BY <1>1, <3>1, ConsumeWrites
    <3>3. passports[q] \in PassportRec
      BY <1>1, <3>2 DEF TypeOK
    <3>4. /\ passports'[q].status = "CONSUMED"
          /\ passports'[q].artifact = passports[q].artifact
          /\ passports'[q].rules = passports[q].rules
          /\ passports'[q].approver = passports[q].approver
      BY <3>2, <3>3 DEF PassportRec
    <3>5. QED
      BY <3>2, <3>4
  <2>4. QED
    BY <1>1, <2>1, <2>2, <2>3, StepEffect
<1>2. QED
  BY <1>1, TypeCorrect, GateInvariant, PTL DEF Spec, PassportIsFinal

\* A change is completed by the step that consumes its passport and appends the
\* audit, and by no other (UsePassport).
THEOREM CompletionTheorem == Spec => CompletionIsConsume
<1> DEFINE OneUnit == Len(ledger') # Len(ledger) <=>
                        change.status # "COMPLETED" /\ change'.status = "COMPLETED"
<1>1. ASSUME TypeOK, GateInv, [Next]_vars PROVE OneUnit
  <2>1. CASE Withdrawing
    BY <2>1 DEF Withdrawing
  <2>2. CASE Issuing
    BY <2>2 DEF Issuing, CommitIssue
  <2>3. CASE Consuming
    <3> PICK c \in Calls : CommitConsume(c) /\ ConsumeFirst(c, calls[c].passport)
      BY <2>3 DEF Consuming
    <3>1. PICK q : q = calls[c].passport
      OBVIOUS
    <3>2. /\ change.status = "APPROVED" /\ change'.status = "COMPLETED"
          /\ Len(ledger') = Len(ledger) + 1
      BY <1>1, <3>1, ConsumeWrites
    <3>3. Len(ledger) \in Nat
      BY <1>1, LedgerEntries
    <3>4. QED
      BY <3>2, <3>3
  <2>4. QED
    BY <1>1, <2>1, <2>2, <2>3, StepEffect
<1>2. QED
  BY <1>1, TypeCorrect, GateInvariant, PTL DEF Spec, CompletionIsConsume

-----------------------------------------------------------------------------
(* The refinement. *)

Holder == [p \in PassportIds |-> passports[p].consumedBy]
Uses == [i \in DOMAIN ledger |-> ledger[i].passport]

\* Withdrawing is a Withdraw of the one ACTIVE passport, or changes no pass.
LEMMA WithdrawRefines ==
  ASSUME TypeOK, TypeOK', GateInv, Withdrawing
  PROVE  Pass!Next \/ UNCHANGED <<PassState, Holder, Uses>>
<1>1. UNCHANGED <<Holder, Uses>>
  <2>1. \A p \in PassportIds : passports'[p].consumedBy = passports[p].consumedBy
    BY VoidedFields DEF Withdrawing
  <2>2. QED
    BY <2>1 DEF Withdrawing, Holder, Uses
<1>2. CASE \E p \in PassportIds : passports[p].status = "ACTIVE" /\ passports'[p] # passports[p]
  <2> PICK p \in PassportIds : passports[p].status = "ACTIVE" /\ passports'[p] # passports[p]
    BY <1>2
  <2>1. passports'[p].status \in {"REVOKED", "EXPIRED"}
    BY VoidedFields DEF Withdrawing
  <2>2. \A q \in PassportIds \ {p} : passports'[q] = passports[q]
    BY DEF Withdrawing, KeptOrVoided, GateInv, OneActivePassport
  <2>3. PassState[p] = "usable" /\ PassState' = [PassState EXCEPT ![p] = "void"]
    BY <2>1, <2>2 DEF PassState
  <2>4. Pass!Withdraw(p)
    BY <1>1, <2>3 DEF Pass!Withdraw, Holder, Uses
  <2>5. QED
    BY <2>4 DEF Pass!Next
<1>3. CASE ~ \E p \in PassportIds : passports[p].status = "ACTIVE" /\ passports'[p] # passports[p]
  <2>1. \A p \in PassportIds : passports'[p] = passports[p]
    BY <1>3 DEF Withdrawing, KeptOrVoided
  <2>2. QED
    BY <1>1, <2>1 DEF PassState
<1>4. QED
  BY <1>2, <1>3

\* CreatePassport is an Issue.
LEMMA IssueRefines ==
  ASSUME TypeOK, TypeOK', GateInv, Issuing
  PROVE  Pass!Next
<1> PICK c \in Calls, p \in PassportIds : CommitIssue(c, p)
  BY DEF Issuing
<1>1. passports[p].status = "NONE" /\ ledger' = ledger
  BY DEF CommitIssue
<1>2. /\ passports'[p].status = "ACTIVE" /\ passports'[p].consumedBy = None
      /\ \A q \in PassportIds \ {p} :
           /\ passports'[q].consumedBy = passports[q].consumedBy
           /\ passports'[q].status = IF passports[q].status = "ACTIVE" THEN "EXPIRED"
                                                                      ELSE passports[q].status
  BY DEF CommitIssue, ExpiredMaterialised, TypeOK, PassportRec
<1>3. UNCHANGED <<Holder, Uses>>
  <2>1. passports[p].consumedBy = None
    BY <1>1 DEF GateInv, LedgerAgrees
  <2>2. QED
    BY <1>1, <1>2, <2>1 DEF Holder, Uses
<1>4. PassState' = [q \in PassportIds |-> IF q = p THEN "usable"
                                         ELSE IF PassState[q] = "usable" THEN "void"
                                         ELSE PassState[q]]
  <2>1. PassState'[p] = "usable"
    BY <1>2 DEF PassState
  <2>2. ASSUME NEW q \in PassportIds \ {p}
        PROVE  PassState'[q] = IF PassState[q] = "usable" THEN "void" ELSE PassState[q]
    BY <1>2 DEF PassState, TypeOK, PassportRec
  <2>3. QED
    BY <2>1, <2>2 DEF PassState
<1>5. PassState[p] = "unissued"
  BY <1>1 DEF PassState
<1>6. Pass!Issue(p)
  BY <1>3, <1>4, <1>5 DEF Pass!Issue, Holder, Uses
<1>7. QED
  BY <1>6 DEF Pass!Next

\* The first consume is a Use by the consumer it names.
LEMMA ConsumeRefines ==
  ASSUME TypeOK, TypeOK', GateInv, Consuming
  PROVE  Pass!Next
<1> PICK c \in Calls : CommitConsume(c) /\ ConsumeFirst(c, calls[c].passport)
  BY DEF Consuming
<1>0. PICK p : p = calls[c].passport
  OBVIOUS
<1>1. /\ p \in PassportIds /\ calls[c].actor \in Consumers
      /\ passports[p].status = "ACTIVE"
      /\ passports'[p] = [passports[p] EXCEPT !.status = "CONSUMED",
                                              !.consumedBy = calls[c].actor]
      /\ \A q \in PassportIds \ {p} : passports'[q] = passports[q]
      /\ Len(ledger') = Len(ledger) + 1
      /\ \A i \in 1 .. Len(ledger) : ledger'[i] = ledger[i]
      /\ ledger'[Len(ledger) + 1] = [passport |-> p, consumer |-> calls[c].actor,
                                     artifact |-> passports[p].artifact]
  BY <1>0, ConsumeWrites
<1>2. /\ passports'[p].status = "CONSUMED" /\ passports'[p].consumedBy = calls[c].actor
      /\ ledger'[Len(ledger) + 1].passport = p
  BY <1>1 DEF TypeOK, PassportRec
<1>3. /\ p \in PassportIds /\ calls[c].actor \in Consumers /\ passports[p].status = "ACTIVE"
      /\ \A q \in PassportIds \ {p} : passports'[q] = passports[q]
  BY <1>1
<1>4. PassState[p] = "usable" /\ PassState' = [PassState EXCEPT ![p] = "used"]
  BY <1>3, <1>2 DEF PassState
<1>5. Holder' = [Holder EXCEPT ![p] = calls[c].actor]
  BY <1>1, <1>2 DEF Holder
<1>6. Uses' = Append(Uses, p)
  <2>1. /\ DOMAIN ledger = 1 .. Len(ledger) /\ Len(ledger) \in Nat
        /\ \A i \in DOMAIN ledger : ledger[i].passport \in PassportIds
    BY LedgerEntries
  <2>2. DOMAIN ledger' = 1 .. Len(ledger) + 1
    BY <1>1, LenProperties DEF TypeOK
  <2>3. Uses \in Seq(PassportIds) /\ Len(Uses) = Len(ledger)
    BY <2>1 DEF Uses
  <2>4. Uses' \in Seq(PassportIds) /\ Len(Uses') = Len(ledger) + 1
    BY <1>1, <1>2, <2>1, <2>2 DEF Uses
  <2>5. /\ Append(Uses, p) \in Seq(PassportIds) /\ Len(Append(Uses, p)) = Len(ledger) + 1
        /\ \A i \in 1 .. Len(ledger) : Append(Uses, p)[i] = Uses[i]
        /\ Append(Uses, p)[Len(ledger) + 1] = p
    BY <1>1, <2>3, AppendProperties
  <2>6. \A i \in 1 .. Len(ledger) + 1 : Uses'[i] = Append(Uses, p)[i]
    BY <1>1, <1>2, <2>1, <2>2, <2>5 DEF Uses
  <2>7. QED
    BY <2>4, <2>5, <2>6, SeqEqual
<1>7. PICK k \in Consumers : k = calls[c].actor
  BY <1>3
<1>8. Pass!Use(p, k)
  BY <1>4, <1>5, <1>6, <1>7 DEF Pass!Use, Holder, Uses
<1>9. QED
  BY <1>3, <1>8 DEF Pass!Next

\* The stored passports, with every handler, sweep, expiry and restart around
\* them, implement the one-time pass of ADR 0001.
THEOREM Refinement == Spec => OneTimePassSpec
<1>1. Init => Pass!Init
  <2> SUFFICES ASSUME Init PROVE Pass!Init
    OBVIOUS
  <2>1. PassState = [p \in PassportIds |-> "unissued"]
    BY DEF Init, PassState, NoPassport
  <2>2. QED
    BY <2>1 DEF Init, Pass!Init, NoPassport
<1>2. ASSUME TypeOK, TypeOK', GateInv, [Next]_vars
      PROVE  [Pass!Next]_(Pass!passVars)
  <2>1. Pass!Next \/ UNCHANGED <<PassState, Holder, Uses>>
    BY <1>2, StepEffect, WithdrawRefines, IssueRefines, ConsumeRefines
  <2>2. QED
    BY <2>1 DEF Pass!passVars, Holder, Uses
<1>3. QED
  BY <1>1, <1>2, TypeCorrect, GateInvariant, PTL DEF Spec, OneTimePassSpec, Pass!Spec

-----------------------------------------------------------------------------
(* What the rules find in the content of a change under given policies. *)

\* A rule fires on a change under its policy.
Fires(c, code, p) ==
  \/ /\ c.sql # {} /\ p.enabled /\ PolicyApplies(p, c.env, "DATABASE")
     /\ code \in CheckSQL(c.sql, c.rollback) \/ Matches(p, c.sql)
  \/ \E i \in 1 .. Len(c.artifacts) :
       /\ p.enabled /\ PolicyApplies(p, c.env, c.artifacts[i].kind)
       /\ code \in ArtifactCodes(c.artifacts[i], c.env)
  \/ \E i \in 1 .. Len(c.artifacts) :
       /\ p.kinds # {} /\ PolicyApplies(p, c.env, c.artifacts[i].kind)
       /\ Matches(p, c.artifacts[i].content)
  \/ p.enabled /\ PolicyApplies(p, c.env, Nothing) /\ code \in PlanCodes(c)

LEMMA ApplicableOnes ==
  ASSUME NEW Q, NEW S, NEW env, NEW kind, NEW code
  PROVE  code \in ApplicablePolicies(Q, S, env, kind)
           <=> code \in S /\ code \in DOMAIN Q /\ Q[code].enabled /\ PolicyApplies(Q[code], env, kind)
BY DEF ApplicablePolicies

\* The findings are those of the rules that fire.
LEMMA FindingsFire ==
  ASSUME NEW c, NEW Q, NEW code
  PROVE  code \in CheckRelease(c, Q) <=> code \in DOMAIN Q /\ Fires(c, code, Q[code])
<1> DEFINE sql == IF c.sql = {} THEN {} ELSE CheckWithPolicies(c.sql, c.rollback, c.env, Q)
           arts == UNION {ApplicablePolicies(Q, ArtifactCodes(c.artifacts[i], c.env), c.env, c.artifacts[i].kind) :
                  i \in 1 .. Len(c.artifacts)}
           scoped == ScopedMatches(c.artifacts, c.env, Q)
           plan == ApplicablePolicies(Q, PlanCodes(c), c.env, Nothing)
<1>1. code \in sql <=> /\ code \in DOMAIN Q /\ c.sql # {} /\ Q[code].enabled /\ PolicyApplies(Q[code], c.env, "DATABASE")
                       /\ code \in CheckSQL(c.sql, c.rollback) \/ Matches(Q[code], c.sql)
  BY DEF CheckWithPolicies, ApplicablePolicies
<1>2. code \in arts <=> \E i \in 1 .. Len(c.artifacts) :
        code \in ApplicablePolicies(Q, ArtifactCodes(c.artifacts[i], c.env), c.env, c.artifacts[i].kind)
  OBVIOUS
<1>3. code \in arts <=> \E i \in 1 .. Len(c.artifacts) :
        /\ code \in DOMAIN Q /\ Q[code].enabled /\ PolicyApplies(Q[code], c.env, c.artifacts[i].kind)
        /\ code \in ArtifactCodes(c.artifacts[i], c.env)
  BY <1>2, ApplicableOnes
<1>4. code \in scoped <=> \E i \in 1 .. Len(c.artifacts) :
        /\ code \in DOMAIN Q /\ Q[code].kinds # {} /\ PolicyApplies(Q[code], c.env, c.artifacts[i].kind)
        /\ Matches(Q[code], c.artifacts[i].content)
  BY DEF ScopedMatches
<1>5. code \in plan <=> /\ code \in DOMAIN Q /\ Q[code].enabled /\ PolicyApplies(Q[code], c.env, Nothing)
                        /\ code \in PlanCodes(c)
  BY ApplicableOnes
<1>6. code \in CheckRelease(c, Q) <=> code \in sql \/ code \in arts \/ code \in scoped \/ code \in plan
  BY Zenon DEF CheckRelease
<1> HIDE DEF sql, arts, scoped, plan
<1>7. QED
  BY <1>1, <1>3, <1>4, <1>5, <1>6 DEF Fires

\* The content of a change: everything that a check, an edit of the status or the
\* course of time leaves as it is.
SameContent(r, q) ==
  /\ r.app = q.app /\ r.env = q.env /\ r.type = q.type /\ r.artifacts = q.artifacts
  /\ r.sql = q.sql /\ r.rollback = q.rollback /\ r.plan = q.plan
  /\ r.full = q.full /\ r.metrics = q.metrics /\ r.digest = q.digest
  /\ r.planned = q.planned /\ r.minutes = q.minutes

LEMMA FiresTheSame ==
  ASSUME NEW r, NEW q, SameContent(r, q), NEW code, NEW p
  PROVE  Fires(r, code, p) <=> Fires(q, code, p)
BY DEF Fires, SameContent, PlanCodes

RuleFindings(r, Q) == {FindingFromPolicy(Q, code, Nothing) : code \in CheckRelease(r, Q)}

LEMMA FindingsTheSame ==
  ASSUME NEW r, NEW q, SameContent(r, q), NEW Q
  PROVE  RuleFindings(r, Q) = RuleFindings(q, Q)
<1>1. \A code : code \in CheckRelease(r, Q) <=> code \in CheckRelease(q, Q)
  BY FindingsFire, FiresTheSame
<1>2. CheckRelease(r, Q) = CheckRelease(q, Q)
  BY <1>1
<1>3. QED
  BY <1>2 DEF RuleFindings

-----------------------------------------------------------------------------
(* Policies and versions of the rules. *)

IsPolicy(p) ==
  /\ DOMAIN p = {"enabled", "blocking", "severity", "pattern", "kinds", "envs", "version"}
  /\ p.severity \in {"LOW", "MEDIUM", "HIGH"} /\ p.version \in Nat /\ p.enabled \in BOOLEAN

ArePolicies(Q) == \A code \in DOMAIN Q : IsPolicy(Q[code])

\* Policies are never deleted, and a policy that was saved since has another version.
Older(R, Q) ==
  /\ DOMAIN R \subseteq DOMAIN Q
  /\ \A code \in DOMAIN R : /\ R[code].version <= Q[code].version
                            /\ R[code].version = Q[code].version => R[code] = Q[code]

LEMMA OlderItself ==
  ASSUME NEW Q, ArePolicies(Q)
  PROVE  Older(Q, Q)
BY DEF Older, ArePolicies, IsPolicy

LEMMA OlderStill ==
  ASSUME NEW R, NEW Q, NEW P, ArePolicies(R), ArePolicies(Q), ArePolicies(P), Older(R, Q), Older(Q, P)
  PROVE  Older(R, P)
<1>1. DOMAIN R \subseteq DOMAIN P
  BY DEF Older
<1>2. ASSUME NEW code \in DOMAIN R
      PROVE  /\ R[code].version <= P[code].version
             /\ R[code].version = P[code].version => R[code] = P[code]
  <2>1. code \in DOMAIN Q /\ code \in DOMAIN P
    BY DEF Older
  <2>2. R[code].version \in Nat /\ Q[code].version \in Nat /\ P[code].version \in Nat
    BY <2>1 DEF ArePolicies, IsPolicy
  <2>3. /\ R[code].version <= Q[code].version
        /\ R[code].version = Q[code].version => R[code] = Q[code]
    BY DEF Older
  <2>4. /\ Q[code].version <= P[code].version
        /\ Q[code].version = P[code].version => Q[code] = P[code]
    BY <2>1 DEF Older
  <2>5. QED
    BY <2>2, <2>3, <2>4
<1>3. QED
  BY <1>1, <1>2 DEF Older

\* A version names the enabled policies.
LEMMA VersionNames ==
  ASSUME NEW Q, NEW v \in RuleSetVersion(Q)
  PROVE  v[1] \in DOMAIN Q /\ Q[v[1]].enabled
BY DEF RuleSetVersion

LEMMA VersionHas ==
  ASSUME NEW Q, NEW code \in DOMAIN Q, Q[code].enabled
  PROVE  \E v \in RuleSetVersion(Q) : v[1] = code /\ v[2] = Q[code].version
<1> DEFINE v == <<code, Q[code].version, Q[code].blocking, Q[code].pattern, Q[code].envs, Q[code].kinds>>
<1>1. v \in RuleSetVersion(Q)
  BY DEF RuleSetVersion
<1>2. v[1] = code /\ v[2] = Q[code].version
  OBVIOUS
<1>3. QED
  BY <1>1, <1>2

LEMMA VersionOf ==
  ASSUME NEW Q, NEW v \in RuleSetVersion(Q)
  PROVE  v[2] = Q[v[1]].version
BY DEF RuleSetVersion

\* Under the same version, what is enabled is the same, down to the policy.
LEMMA SameVersion ==
  ASSUME NEW R, NEW Q, Older(R, Q), RuleSetVersion(R) = RuleSetVersion(Q), NEW code
  PROVE  /\ code \in DOMAIN R /\ R[code].enabled <=> code \in DOMAIN Q /\ Q[code].enabled
         /\ code \in DOMAIN R /\ R[code].enabled => R[code] = Q[code]
<1>1. ASSUME code \in DOMAIN R, R[code].enabled
      PROVE  code \in DOMAIN Q /\ Q[code].enabled /\ R[code] = Q[code]
  <2>1. PICK v \in RuleSetVersion(R) : v[1] = code /\ v[2] = R[code].version
    BY <1>1, VersionHas
  <2>2. code \in DOMAIN Q /\ Q[code].enabled /\ Q[code].version = R[code].version
    BY <2>1, VersionNames, VersionOf
  <2>3. QED
    BY <1>1, <2>2 DEF Older
<1>2. ASSUME code \in DOMAIN Q, Q[code].enabled
      PROVE  code \in DOMAIN R /\ R[code].enabled
  BY <1>2, VersionHas, VersionNames
<1>3. QED
  BY <1>1, <1>2

\* The same content has, under the same version, the same findings of enabled policies.
LEMMA SameVersionSameFindings ==
  ASSUME NEW r, NEW R, NEW Q, Older(R, Q), RuleSetVersion(R) = RuleSetVersion(Q), NEW f,
         f.code \in DOMAIN Q, Q[f.code].enabled
  PROVE  f \in RuleFindings(r, R) <=> f \in RuleFindings(r, Q)
<1>1. f \in RuleFindings(r, R) => f \in RuleFindings(r, Q)
  <2> SUFFICES ASSUME f \in RuleFindings(r, R)
               PROVE  f \in RuleFindings(r, Q)
    OBVIOUS
  <2>1. PICK code \in CheckRelease(r, R) : f = FindingFromPolicy(R, code, Nothing)
    BY DEF RuleFindings
  <2>2. f.code = code
    BY <2>1 DEF FindingFromPolicy
  <2>3. R[code] = Q[code]
    BY <2>2, SameVersion
  <2>4. code \in CheckRelease(r, Q)
    BY <2>1, <2>2, <2>3, FindingsFire
  <2>5. f = FindingFromPolicy(Q, code, Nothing)
    BY <2>1, <2>3 DEF FindingFromPolicy
  <2>6. QED
    BY <2>4, <2>5 DEF RuleFindings
<1>2. f \in RuleFindings(r, Q) => f \in RuleFindings(r, R)
  <2> SUFFICES ASSUME f \in RuleFindings(r, Q)
               PROVE  f \in RuleFindings(r, R)
    OBVIOUS
  <2>1. PICK code \in CheckRelease(r, Q) : f = FindingFromPolicy(Q, code, Nothing)
    BY DEF RuleFindings
  <2>2. f.code = code
    BY <2>1 DEF FindingFromPolicy
  <2>3. code \in DOMAIN R /\ R[code] = Q[code]
    BY <2>2, SameVersion
  <2>4. code \in CheckRelease(r, R)
    BY <2>1, <2>2, <2>3, FindingsFire
  <2>5. f = FindingFromPolicy(R, code, Nothing)
    BY <2>1, <2>3 DEF FindingFromPolicy
  <2>6. QED
    BY <2>4, <2>5 DEF RuleFindings
<1>3. QED
  BY <1>1, <1>2

\* A policy that is disabled takes part only by a pattern and a scope of kinds.
LEMMA OnlyHidden ==
  ASSUME NEW r, NEW Q, NEW code \in CheckRelease(r, Q), ~Q[code].enabled
  PROVE  code \in DOMAIN Q /\ Q[code].pattern # Nothing /\ Q[code].kinds # {}
<1>1. code \in DOMAIN Q /\ Fires(r, code, Q[code])
  BY FindingsFire
<1>2. PICK i \in 1 .. Len(r.artifacts) : Q[code].kinds # {} /\ Matches(Q[code], r.artifacts[i].content)
  BY <1>1 DEF Fires
<1>3. QED
  BY <1>1, <1>2 DEF Matches

LEMMA RankOf ==
  Rank("UNKNOWN") = 1 /\ Rank("LOW") = 2 /\ Rank("MEDIUM") = 3 /\ Rank("HIGH") = 4
BY DEF Rank, Severities

\* Whatever was found, the risk is known.
LEMMA RiskIsKnown ==
  ASSUME NEW F, \A f \in F : f.severity \in {"LOW", "MEDIUM", "HIGH"}
  PROVE  HighestRisk(F) \in {"LOW", "MEDIUM", "HIGH"}
<1> DEFINE is(i) == /\ i = 2 \/ \E f \in F : Rank(f.severity) = i
                    /\ \A f \in F : Rank(f.severity) <= i
<1>1. \A f \in F : Rank(f.severity) \in {2, 3, 4}
  BY RankOf
<1>2. \E i \in 2 .. 4 : is(i)
  <2>1. CASE \E f \in F : Rank(f.severity) = 4
    <3>1. is(4)
      BY <1>1, <2>1
    <3>2. QED
      BY <3>1
  <2>2. CASE (~\E f \in F : Rank(f.severity) = 4) /\ (\E f \in F : Rank(f.severity) = 3)
    <3>1. is(3)
      BY <1>1, <2>2
    <3>2. QED
      BY <3>1
  <2>3. CASE ~(\E f \in F : Rank(f.severity) = 4) /\ ~(\E f \in F : Rank(f.severity) = 3)
    <3>1. is(2)
      BY <1>1, <2>3
    <3>2. QED
      BY <3>1
  <2>4. QED
    BY <2>1, <2>2, <2>3
<1>3. HighestRisk(F) = Severities[CHOOSE i \in 2 .. 4 : is(i)]
  BY DEF HighestRisk
<1> DEFINE top == CHOOSE i \in 2 .. 4 : is(i)
<1>4. top \in 2 .. 4
  BY <1>2
<1> HIDE DEF is, top
<1>5. Severities[2] = "LOW" /\ Severities[3] = "MEDIUM" /\ Severities[4] = "HIGH"
  BY DEF Severities
<1>6. top = 2 \/ top = 3 \/ top = 4
  BY <1>4
<1>7. HighestRisk(F) = Severities[top]
  BY <1>3 DEF top
<1>8. QED
  BY <1>5, <1>6, <1>7

-----------------------------------------------------------------------------
(* Redaction. *)

LEMMA LineRedacted ==
  ASSUME NEW l \in Line
  PROVE  /\ RedactLine(RedactLine(l)) = RedactLine(l)
         /\ RedactLine(l).is = l.is
         /\ SecretExposed(RedactLine(l)) <=> SecretExposed(l)
         /\ l.is # "secret" => \A v : v \in {"on", "off"} => (RedactLine(l).value = v <=> l.value = v)
<1> DEFINE secret == l.value = "credential" \/ (l.is = "secret" /\ ~IsSecretReference(l.value))
<1>1. CASE secret
  <2>1. RedactLine(l) = [l EXCEPT !.value = "[REDACTED]"]
    BY <1>1 DEF RedactLine
  <2>2. RedactLine(l).is = l.is /\ RedactLine(l).value = "[REDACTED]"
    BY <2>1 DEF Line
  <2>3. RedactLine(RedactLine(l)) = RedactLine(l)
    BY <2>2 DEF RedactLine, IsSecretReference
  <2>4. SecretExposed(RedactLine(l)) <=> SecretExposed(l)
    BY <2>2, <1>1 DEF SecretExposed, IsSecretReference
  <2>5. l.is # "secret" => l.value = "credential"
    BY <1>1
  <2>6. QED
    BY <2>2, <2>3, <2>4, <2>5
<1>2. CASE ~secret
  <2>1. RedactLine(l) = l
    BY <1>2 DEF RedactLine
  <2>2. QED
    BY <2>1
<1>3. QED
  BY <1>1, <1>2

LEMMA DocumentRedacted ==
  ASSUME NEW d \in Document
  PROVE  /\ RedactDocument(RedactDocument(d)) = RedactDocument(d)
         /\ RedactDocument(d).is = d.is
         /\ d.is # "Secret" => RedactDocument(d) = d
<1>1. CASE d.is = "Secret" /\ d.data # Nothing
  <2>1. RedactDocument(d) = [d EXCEPT !.data = "[REDACTED]"]
    BY <1>1 DEF RedactDocument
  <2>2. RedactDocument(d).is = d.is /\ RedactDocument(d).data = "[REDACTED]"
    BY <2>1 DEF Document
  <2>3. DOMAIN RedactDocument(d) = DOMAIN d
    BY <2>1
  <2>4. RedactDocument(RedactDocument(d)) = RedactDocument(d)
    <3> DEFINE e == RedactDocument(d)
    <3>1. [e EXCEPT !.data = "[REDACTED]"] = e
      BY <2>1
    <3> HIDE DEF e
    <3>2. QED
      BY <3>1, <2>2 DEF e, RedactDocument
  <2>5. QED
    BY <1>1, <2>2, <2>4
<1>2. CASE ~(d.is = "Secret" /\ d.data # Nothing)
  BY <1>2 DEF RedactDocument
<1>3. QED
  BY <1>1, <1>2

LEMMA StatementRedacted ==
  ASSUME NEW s \in Statement
  PROVE  RedactStatement(RedactStatement(s)) = RedactStatement(s)
<1> DEFINE clean(S) == {IF f = "credential" THEN "[REDACTED]" ELSE f : f \in S}
           t == RedactStatement(s)
<1>1. t = [s EXCEPT !.flags = clean(s.flags)]
  BY DEF RedactStatement
<1>2. t.flags = clean(s.flags)
  BY <1>1 DEF Statement
<1>3. clean(clean(s.flags)) = clean(s.flags)
  OBVIOUS
<1>4. [t EXCEPT !.flags = clean(t.flags)] = t
  BY <1>1, <1>2, <1>3
<1> HIDE DEF t
<1>5. RedactStatement(t) = t
  BY <1>4 DEF RedactStatement
<1>6. QED
  BY <1>5 DEF t

\* Redacting again changes nothing.
LEMMA RedactTwice ==
  ASSUME NEW kind \in Kinds, NEW S \in SUBSET ItemsOf(kind)
  PROVE  Redact(kind, Redact(kind, S)) = Redact(kind, S)
<1>1. CASE kind = "CONFIG"
  <2>1. S \subseteq Line
    BY <1>1 DEF ItemsOf
  <2>2. \A T : Redact(kind, T) = {RedactLine(l) : l \in T}
    BY <1>1 DEF Redact
  <2>3. \A l \in S : RedactLine(RedactLine(l)) = RedactLine(l)
    BY <2>1, LineRedacted
  <2>4. {RedactLine(l) : l \in {RedactLine(l) : l \in S}} = {RedactLine(l) : l \in S}
    BY <2>3
  <2>5. QED
    BY <2>2, <2>4
<1>2. CASE kind = "KUBERNETES"
  <2>1. S \subseteq Document
    BY <1>2 DEF ItemsOf
  <2>2. \A T : Redact(kind, T) = {RedactDocument(l) : l \in T}
    BY <1>2 DEF Redact
  <2>3. \A l \in S : RedactDocument(RedactDocument(l)) = RedactDocument(l)
    BY <2>1, DocumentRedacted
  <2>4. {RedactDocument(l) : l \in {RedactDocument(l) : l \in S}} = {RedactDocument(l) : l \in S}
    BY <2>3
  <2>5. QED
    BY <2>2, <2>4
<1>3. CASE kind = "DATABASE"
  <2>1. S \subseteq Statement
    BY <1>3 DEF ItemsOf
  <2>2. \A T : Redact(kind, T) = {RedactStatement(l) : l \in T}
    BY <1>3 DEF Redact
  <2>3. \A l \in S : RedactStatement(RedactStatement(l)) = RedactStatement(l)
    BY <2>1, StatementRedacted
  <2>4. {RedactStatement(l) : l \in {RedactStatement(l) : l \in S}} = {RedactStatement(l) : l \in S}
    BY <2>3
  <2>5. QED
    BY <2>2, <2>4
<1>4. QED
  BY <1>1, <1>2, <1>3 DEF Kinds

\* The rules find in a redacted configuration what they find in the original.
LEMMA ConfigFlagged ==
  ASSUME NEW S \in SUBSET Line, NEW production
  PROVE  CheckConfig(Redact("CONFIG", S), production) = CheckConfig(S, production)
<1> DEFINE T == Redact("CONFIG", S)
           exposed(X) == {l \in X : SecretExposed(l)}
           are(X, keys, value) == {l \in X : production /\ l.is \in keys /\ l.value = value}
<1>1. T = {RedactLine(l) : l \in S}
  BY DEF Redact
<1>2. exposed(T) = {} <=> exposed(S) = {}
  BY <1>1, LineRedacted
<1>3. ASSUME NEW keys, "secret" \notin keys, NEW value \in {"on", "off"}
      PROVE  are(T, keys, value) = {} <=> are(S, keys, value) = {}
  BY <1>1, <1>3, LineRedacted
<1>4. /\ are(T, {"debug"}, "on") = {} <=> are(S, {"debug"}, "on") = {}
      /\ are(T, {"auth"}, "off") = {} <=> are(S, {"auth"}, "off") = {}
      /\ are(T, {"anonymous"}, "on") = {} <=> are(S, {"anonymous"}, "on") = {}
      /\ are(T, {"skip_verify"}, "on") = {} <=> are(S, {"skip_verify"}, "on") = {}
      /\ are(T, {"verify"}, "off") = {} <=> are(S, {"verify"}, "off") = {}
  BY <1>3
<1> DEFINE found(code, X) == IF X = {} THEN {} ELSE {code}
           codes(X) == found("CONFIG_SECRET_EXPOSURE", exposed(X))
             \cup found("CONFIG_DEBUG_ENABLED", are(X, {"debug"}, "on"))
             \cup found("CONFIG_AUTH_DISABLED", are(X, {"auth"}, "off") \cup are(X, {"anonymous"}, "on"))
             \cup found("CONFIG_TLS_VERIFY_DISABLED", are(X, {"skip_verify"}, "on") \cup are(X, {"verify"}, "off"))
<1>5. CheckConfig(T, production) = codes(T) /\ CheckConfig(S, production) = codes(S)
  BY DEF CheckConfig
<1> HIDE DEF exposed, are, T
<1>6. codes(T) = codes(S)
  BY <1>2, <1>4
<1>7. QED
  BY <1>5, <1>6 DEF T

\* So they do in a redacted manifest: what is redacted there is in Secret objects,
\* which the rules do not look at.
LEMMA ManifestFlagged ==
  ASSUME NEW S \in SUBSET Document, NEW production
  PROVE  CheckKubernetes(Redact("KUBERNETES", S), production) = CheckKubernetes(S, production)
<1> DEFINE T == Redact("KUBERNETES", S)
           pods(X) == {d \in X : d.is = Nothing \/ d.is \in PodSpecKinds}
<1>1. T = {RedactDocument(d) : d \in S}
  BY DEF Redact
<1>2. \A d : d.is = Nothing \/ d.is \in PodSpecKinds => d.is # "Secret"
  BY ChecksAssumption DEF PodSpecKinds
<1>3. \A d : d \in pods(T) <=> d \in pods(S)
  <2>1. ASSUME NEW d, d \in pods(S)
        PROVE  d \in pods(T)
    <3>1. RedactDocument(d) = d
      BY <2>1, <1>2, DocumentRedacted
    <3>2. QED
      BY <2>1, <3>1, <1>1
  <2>2. ASSUME NEW d, d \in pods(T)
        PROVE  d \in pods(S)
    <3>1. PICK e \in S : d = RedactDocument(e)
      BY <2>2, <1>1
    <3>2. e.is = d.is /\ (e.is # "Secret" => d = e)
      BY <3>1, DocumentRedacted
    <3>3. QED
      BY <2>2, <3>1, <3>2, <1>2
  <2>3. QED
    BY <2>1, <2>2
<1>4. pods(T) = pods(S)
  BY <1>3
<1> HIDE DEF T
<1>5. QED
  BY <1>4 DEF CheckKubernetes, T

-----------------------------------------------------------------------------
(* Artifacts and digests. *)

\* What is stored of an artifact that was handed in.
StoredArtifact(a) ==
  /\ a = [kind |-> a.kind, name |-> a.name, content |-> a.content, sha |-> a.sha]
  /\ a.kind \in Kinds /\ a.sha \in SUBSET ItemsOf(a.kind)
  /\ a.content = Redact(a.kind, a.sha)

LEMMA ArtifactIsFlagged ==
  ASSUME NEW a, StoredArtifact(a), NEW env
  PROVE  /\ ArtifactCodes(a, env) = ArtifactCodes([a EXCEPT !.content = a.sha], env)
         /\ PrepareStoredArtifact(a) = a
<1> DEFINE b == [a EXCEPT !.content = a.sha]
<1>1. b.kind = a.kind /\ b.content = a.sha
  BY DEF StoredArtifact
<1>2. ArtifactCodes(a, env) = ArtifactCodes(b, env)
  <2>1. CASE a.kind = "CONFIG"
    <3>1. a.sha \in SUBSET Line /\ a.content = Redact("CONFIG", a.sha)
      BY <2>1 DEF StoredArtifact, ItemsOf
    <3> HIDE DEF b
    <3>2. QED
      BY <2>1, <3>1, <1>1, ConfigFlagged DEF ArtifactCodes
  <2>2. CASE a.kind = "KUBERNETES"
    <3>1. a.sha \in SUBSET Document /\ a.content = Redact("KUBERNETES", a.sha)
      BY <2>2 DEF StoredArtifact, ItemsOf
    <3> HIDE DEF b
    <3>2. QED
      BY <2>2, <3>1, <1>1, ManifestFlagged DEF ArtifactCodes
  <2>3. CASE a.kind \notin {"CONFIG", "KUBERNETES"}
    <3> HIDE DEF b
    <3>2. QED
      BY <2>3, <1>1 DEF ArtifactCodes
  <2>4. QED
    BY <2>1, <2>2, <2>3
<1>3. Redact(a.kind, a.content) = a.content
  BY RedactTwice DEF StoredArtifact
<1>4. PrepareArtifact(a) = [kind |-> a.kind, name |-> a.name, content |-> a.content, sha |-> a.content]
  BY <1>3 DEF PrepareArtifact
<1>5. [PrepareArtifact(a) EXCEPT !.sha = a.sha]
        = [kind |-> a.kind, name |-> a.name, content |-> a.content, sha |-> a.sha]
  BY <1>4
<1>6. PrepareStoredArtifact(a) = a
  BY <1>5 DEF PrepareStoredArtifact, StoredArtifact
<1>7. QED
  BY <1>2, <1>6

\* An artifact as it may be handed in.
HandedIn(a) ==
  /\ a = [kind |-> a.kind, name |-> a.name, content |-> a.content]
  /\ a.kind \in Kinds /\ a.content \in SUBSET ItemsOf(a.kind)

LEMMA Named ==
  ASSUME NEW a, HandedIn(a)
  PROVE  HandedIn(DefaultName(a)) /\ DefaultName(a).kind = a.kind
<1>1. CASE a.name = Nothing
  <2>1. DefaultName(a) = [kind |-> a.kind, name |-> "default", content |-> a.content]
    <3>1. [a EXCEPT !.name = "default"] = [kind |-> a.kind, name |-> "default", content |-> a.content]
      BY DEF HandedIn
    <3>2. QED
      BY <3>1, <1>1 DEF DefaultName
  <2>2. QED
    BY <2>1 DEF HandedIn
<1>2. CASE a.name # Nothing
  BY <1>2 DEF DefaultName
<1>3. QED
  BY <1>1, <1>2

LEMMA Prepared ==
  ASSUME NEW a, HandedIn(a)
  PROVE  /\ StoredArtifact(PrepareArtifact(a))
         /\ PrepareArtifact(a).kind = a.kind /\ PrepareArtifact(a).name = a.name
         /\ PrepareArtifact(a).sha = a.content
BY DEF HandedIn, StoredArtifact, PrepareArtifact

\* Lists of artifacts.
ListOf(s) == \E S : s \in Seq(S)

LEMMA Mapped ==
  ASSUME NEW n \in Nat, NEW f, f = [i \in 1 .. n |-> f[i]]
  PROVE  ListOf(f) /\ Len(f) = n
<1> DEFINE S == {f[i] : i \in 1 .. n}
<1>1. f \in [1 .. n -> S]
  OBVIOUS
<1>2. f \in Seq(S) /\ Len(f) = n
  BY <1>1, SeqDef
<1>3. QED
  BY <1>2 DEF ListOf

LEMMA Joined ==
  ASSUME NEW s, NEW t, ListOf(s), ListOf(t)
  PROVE  /\ ListOf(s \o t) /\ Len(s) \in Nat /\ Len(t) \in Nat
         /\ Len(s \o t) = Len(s) + Len(t)
         /\ \A i \in 1 .. Len(s) : (s \o t)[i] = s[i]
         /\ \A i \in 1 .. Len(t) : (s \o t)[Len(s) + i] = t[i]
         /\ s \o t = [i \in 1 .. Len(s \o t) |-> (s \o t)[i]]
<1>1. PICK S, T : s \in Seq(S) /\ t \in Seq(T)
  BY DEF ListOf
<1>2. s \in Seq(S \cup T) /\ t \in Seq(S \cup T)
  BY <1>1
<1>3. s \o t \in Seq(S \cup T)
  BY <1>2
<1>4. Len(s) \in Nat /\ Len(t) \in Nat /\ Len(s \o t) = Len(s) + Len(t)
  BY <1>2
<1>5. \A i \in 1 .. Len(s) : (s \o t)[i] = s[i]
  BY <1>2
<1>6. \A i \in 1 .. Len(t) : (s \o t)[Len(s) + i] = t[i]
  BY <1>2
<1>7. s \o t = [i \in 1 .. Len(s \o t) |-> (s \o t)[i]]
  <2> DEFINE u == s \o t
  <2>1. u \in [1 .. Len(u) -> S \cup T]
    BY <1>3, LenProperties
  <2> HIDE DEF u
  <2>2. u = [i \in 1 .. Len(u) |-> u[i]]
    BY <2>1
  <2>3. QED
    BY <2>2 DEF u
<1>8. QED
  BY <1>3, <1>4, <1>5, <1>6, <1>7 DEF ListOf

LEMMA OneOf ==
  ASSUME NEW a
  PROVE  <<a>> \in Seq({a}) /\ Len(<<a>>) = 1 /\ <<a>>[1] = a
OBVIOUS

\* The artifacts that are stored for a list that was handed in, and the files they
\* stand for.
Files(items, sql) ==
  [i \in 1 .. Len(items) |-> DefaultName(items[i])]
    \o IF sql # {} /\ ~HasKind(items, "DATABASE") THEN <<SQLArtifact(sql)>> ELSE <<>>

Originals(L) == [i \in 1 .. Len(L) |-> [kind |-> L[i].kind, name |-> L[i].name, content |-> L[i].sha]]
Digests(L) == [i \in 1 .. Len(L) |-> <<L[i].kind, L[i].name, L[i].sha>>]

LEMMA SQLHandedIn ==
  ASSUME NEW sql \in SUBSET Statement
  PROVE  HandedIn(SQLArtifact(sql))
BY DEF HandedIn, SQLArtifact, Kinds, ItemsOf

LEMMA Normalized ==
  ASSUME NEW items, ListOf(items), \A i \in 1 .. Len(items) : HandedIn(items[i]), NEW sql \in SUBSET Statement
  PROVE  LET L == NormalizeArtifacts(items, sql) IN
         /\ ListOf(L) /\ Len(L) \in Nat /\ \A i \in 1 .. Len(L) : StoredArtifact(L[i])
         /\ Originals(L) = Files(items, sql)
         /\ sql # {} \/ items # <<>> => L # <<>>
<1> DEFINE implied == sql # {} /\ ~HasKind(items, "DATABASE")
           n == Len(items)
           s == [i \in 1 .. n |-> PrepareArtifact(DefaultName(items[i]))]
           t == IF implied THEN <<PrepareArtifact(SQLArtifact(sql))>> ELSE <<>>
           p == [i \in 1 .. n |-> DefaultName(items[i])]
           q == IF implied THEN <<SQLArtifact(sql)>> ELSE <<>>
           L == s \o t
           M == p \o q
<1>1. NormalizeArtifacts(items, sql) = L /\ Files(items, sql) = M
  BY DEF NormalizeArtifacts, Files
<1>2. n \in Nat
  BY DEF ListOf
<1>3. /\ ListOf(s) /\ Len(s) = n /\ ListOf(p) /\ Len(p) = n
  BY <1>2, Mapped
<1>4. /\ ListOf(t) /\ ListOf(q) /\ Len(t) = Len(q) /\ Len(t) = IF implied THEN 1 ELSE 0
  <2>1. CASE implied
    <3>1. t = <<PrepareArtifact(SQLArtifact(sql))>> /\ q = <<SQLArtifact(sql)>>
      BY <2>1
    <3>2. t \in Seq({PrepareArtifact(SQLArtifact(sql))}) /\ Len(t) = 1
      BY <3>1, OneOf
    <3>3. q \in Seq({SQLArtifact(sql)}) /\ Len(q) = 1
      BY <3>1, OneOf
    <3>4. QED
      BY <2>1, <3>2, <3>3 DEF ListOf
  <2>2. CASE ~implied
    <3>1. t = <<>> /\ q = <<>>
      BY <2>2
    <3>2. <<>> \in Seq({}) /\ Len(<<>>) = 0
      OBVIOUS
    <3>3. QED
      BY <2>2, <3>1, <3>2 DEF ListOf
  <2>3. QED
    BY <2>1, <2>2
<1>5. \A i \in 1 .. n : /\ s[i] = PrepareArtifact(p[i]) /\ HandedIn(p[i])
  BY Named
<1>6. \A i \in 1 .. Len(t) : t[i] = PrepareArtifact(q[i]) /\ HandedIn(q[i])
  <2>1. CASE implied
    BY <2>1, SQLHandedIn
  <2>2. CASE ~implied
    BY <2>2, <1>4
  <2>3. QED
    BY <2>1, <2>2
<1> HIDE DEF s, t, p, q
<1>7. /\ ListOf(L) /\ Len(L) = n + Len(t)
      /\ \A i \in 1 .. n : L[i] = s[i]
      /\ \A i \in 1 .. Len(t) : L[n + i] = t[i]
      /\ ListOf(M) /\ Len(M) = n + Len(t)
      /\ \A i \in 1 .. n : M[i] = p[i]
      /\ \A i \in 1 .. Len(t) : M[n + i] = q[i]
      /\ M = [i \in 1 .. Len(M) |-> M[i]]
      /\ Len(t) \in Nat
  <2> HIDE DEF n
  <2>1. /\ ListOf(L) /\ Len(t) \in Nat /\ Len(L) = Len(s) + Len(t)
        /\ \A i \in 1 .. Len(s) : L[i] = s[i]
        /\ \A i \in 1 .. Len(t) : L[Len(s) + i] = t[i]
    <3>1. ListOf(s) /\ ListOf(t)
      BY <1>3, <1>4
    <3>2. QED
      BY ONLY <3>1, Joined
  <2>2. /\ ListOf(M) /\ Len(M) = Len(p) + Len(q)
        /\ \A i \in 1 .. Len(p) : M[i] = p[i]
        /\ \A i \in 1 .. Len(q) : M[Len(p) + i] = q[i]
        /\ M = [i \in 1 .. Len(M) |-> M[i]]
    <3>1. ListOf(p) /\ ListOf(q)
      BY <1>3, <1>4
    <3>2. QED
      BY ONLY <3>1, Joined
  <2> HIDE DEF L, M
  <2>3. Len(s) = n /\ Len(p) = n /\ Len(q) = Len(t)
    BY <1>3, <1>4
  <2>4. QED
    BY <2>1, <2>2, <2>3
<1> HIDE DEF L, M
<1>8. ASSUME NEW i \in 1 .. Len(L)
      PROVE  L[i] = PrepareArtifact(M[i]) /\ HandedIn(M[i])
  <2>1. CASE i <= n
    <3>1. i \in 1 .. n
      BY <2>1, <1>2, <1>7
    <3>2. QED
      BY <3>1, <1>5, <1>7
  <2>2. CASE ~(i <= n)
    <3>1. PICK j \in 1 .. Len(t) : i = n + j
      <4>1. i - n \in 1 .. Len(t) /\ i = n + (i - n)
        BY <2>2, <1>2, <1>7
      <4>2. QED
        BY <4>1
    <3>2. QED
      BY <3>1, <1>6, <1>7
  <2>3. QED
    BY <2>1, <2>2
<1>9. \A i \in 1 .. Len(L) : StoredArtifact(L[i])
  BY <1>8, Prepared
<1>10. ASSUME NEW i \in 1 .. Len(L)
       PROVE  [kind |-> L[i].kind, name |-> L[i].name, content |-> L[i].sha] = M[i]
  <2>1. L[i].kind = M[i].kind /\ L[i].name = M[i].name /\ L[i].sha = M[i].content
    BY <1>8, Prepared
  <2>2. QED
    BY <2>1, <1>8 DEF HandedIn
<1>11. Len(L) = Len(M) /\ Len(L) \in Nat
  BY <1>2, <1>7
<1>12. Originals(L) = M
  BY <1>7, <1>10, <1>11 DEF Originals
<1>13. ASSUME sql # {} \/ items # <<>>
       PROVE  L # <<>>
  <2>1. n > 0 \/ implied
    <3>1. CASE n = 0
      <4>1. items = <<>>
        <5>1. PICK S : items \in Seq(S)
          BY DEF ListOf
        <5>2. QED
          BY <5>1, <3>1, EmptySeq
      <4>2. ~HasKind(items, "DATABASE")
        BY <3>1 DEF HasKind
      <4>3. QED
        BY <4>1, <4>2, <1>13
    <3>2. QED
      BY <3>1, <1>2
  <2>2. Len(L) > 0
    BY <2>1, <1>2, <1>4, <1>7
  <2>3. QED
    BY <2>2
<1>14. QED
  BY <1>1, <1>7, <1>9, <1>11, <1>12, <1>13

\* A digest tells as much as the files.
LEMMA DigestsTell ==
  ASSUME NEW L, NEW M, Len(L) \in Nat, Len(M) \in Nat
  PROVE  Digests(L) = Digests(M) <=> Originals(L) = Originals(M)
<1>1. ASSUME Digests(L) = Digests(M)
      PROVE  Originals(L) = Originals(M)
  <2>1. DOMAIN Digests(L) = 1 .. Len(L) /\ DOMAIN Digests(M) = 1 .. Len(M)
    BY DEF Digests
  <2>2. Len(L) = Len(M)
    BY <1>1, <2>1
  <2>3. ASSUME NEW i \in 1 .. Len(L)
        PROVE  L[i].kind = M[i].kind /\ L[i].name = M[i].name /\ L[i].sha = M[i].sha
    <3>1. Digests(L)[i] = <<L[i].kind, L[i].name, L[i].sha>>
      BY DEF Digests
    <3>2. Digests(M)[i] = <<M[i].kind, M[i].name, M[i].sha>>
      BY <2>2 DEF Digests
    <3>3. QED
      BY <1>1, <3>1, <3>2
  <2>4. QED
    BY <2>2, <2>3 DEF Originals
<1>2. ASSUME Originals(L) = Originals(M)
      PROVE  Digests(L) = Digests(M)
  <2>1. DOMAIN Originals(L) = 1 .. Len(L) /\ DOMAIN Originals(M) = 1 .. Len(M)
    BY DEF Originals
  <2>2. Len(L) = Len(M)
    BY <1>2, <2>1
  <2>3. ASSUME NEW i \in 1 .. Len(L)
        PROVE  L[i].kind = M[i].kind /\ L[i].name = M[i].name /\ L[i].sha = M[i].sha
    <3>1. Originals(L)[i] = [kind |-> L[i].kind, name |-> L[i].name, content |-> L[i].sha]
      BY DEF Originals
    <3>2. Originals(M)[i] = [kind |-> M[i].kind, name |-> M[i].name, content |-> M[i].sha]
      BY <2>2 DEF Originals
    <3>3. QED
      BY <1>2, <3>1, <3>2
  <2>4. QED
    BY <2>2, <2>3 DEF Digests
<1>3. QED
  BY <1>1, <1>2

\* Inputs that are accepted have artifacts as they may be handed in.
LEMMA InputArtifacts ==
  ASSUME NEW in \in Inputs, Accepted(in)
  PROVE  /\ ListOf(in.artifacts) /\ \A i \in 1 .. Len(in.artifacts) : HandedIn(in.artifacts[i])
         /\ in.sql \in SUBSET Statement
         /\ in.sql # {} \/ in.artifacts # <<>>
         /\ HasKind(in.artifacts, "DATABASE") => in.sql # {}
<1>1. ListOf(in.artifacts) /\ in.sql \in SUBSET Statement
  BY ChecksAssumption DEF ListOf
<1>2. ASSUME NEW i \in 1 .. Len(in.artifacts)
      PROVE  HandedIn(in.artifacts[i])
  <2>1. in.artifacts[i].kind \in Kinds
    BY DEF Accepted
  <2>2. QED
    BY <2>1, ChecksAssumption DEF HandedIn
<1>3. QED
  BY <1>1, <1>2 DEF Accepted

\* What a change carries of its content.
ContentOK(r) ==
  /\ r.planned \in Nat /\ r.minutes \in Nat \ {0} /\ r.env # Nothing /\ r.type # Nothing
  /\ ListOf(r.artifacts) /\ Len(r.artifacts) \in Nat
  /\ \A i \in 1 .. Len(r.artifacts) : StoredArtifact(r.artifacts[i])
  /\ r.digest = ChangeDigest(r.env, r.type, r.artifacts, r.sql, r.rollback, r.plan)

LEMMA DigestsBind ==
  ASSUME NEW r, ContentOK(r), NEW in \in Inputs, Accepted(in)
  PROVE  LET files == [artifacts |-> in.artifacts, sql |-> in.sql, rollback |-> in.rollback, plan |-> in.plan,
                       env |-> r.env, type |-> r.type]
         IN  DigestFromManifest(files) = r.digest
               <=> /\ Files(in.artifacts, in.sql) = Originals(r.artifacts)
                   /\ <<in.sql, in.rollback, in.plan>> = <<r.sql, r.rollback, r.plan>>
<1> DEFINE files == [artifacts |-> in.artifacts, sql |-> in.sql, rollback |-> in.rollback, plan |-> in.plan,
                     env |-> r.env, type |-> r.type]
           L == NormalizeArtifacts(in.artifacts, in.sql)
<1>1. /\ ListOf(L) /\ Len(L) \in Nat /\ Originals(L) = Files(in.artifacts, in.sql) /\ L # <<>>
  BY InputArtifacts, Normalized
<1>2. ~HasKind(in.artifacts, "DATABASE") \/ in.sql # {}
  BY InputArtifacts
<1>3. \A i \in 1 .. Len(in.artifacts) : in.artifacts[i].kind \in Kinds
  BY InputArtifacts DEF HandedIn
<1>4. r.env # Nothing /\ r.type # Nothing
  BY DEF ContentOK
<1>5. /\ files.artifacts = in.artifacts /\ files.sql = in.sql /\ files.rollback = in.rollback
      /\ files.plan = in.plan /\ files.env = r.env /\ files.type = r.type
  OBVIOUS
<1> HIDE DEF files
<1>6. DigestFromManifest(files) = ChangeDigest(r.env, r.type, L, in.sql, in.rollback, in.plan)
  <2> DEFINE implied == in.sql # {} /\ ~HasKind(in.artifacts, "DATABASE")
             artifacts == [i \in 1 .. Len(in.artifacts) |-> PrepareArtifact(DefaultName(in.artifacts[i]))]
                     \o IF implied THEN <<PrepareArtifact(SQLArtifact(in.sql))>> ELSE <<>>
  <2>1. L = artifacts
    BY DEF NormalizeArtifacts
  <2> HIDE DEF L
  <2>2. ~(\/ r.env = Nothing \/ r.type = Nothing
          \/ \E i \in 1 .. Len(in.artifacts) : in.artifacts[i].kind \notin Kinds
          \/ HasKind(in.artifacts, "DATABASE") /\ in.sql = {}
          \/ artifacts = <<>>)
    BY <1>1, <1>2, <1>3, <1>4, <2>1
  <2>3. DigestFromManifest(files)
          = IF \/ r.env = Nothing \/ r.type = Nothing
               \/ \E i \in 1 .. Len(in.artifacts) : in.artifacts[i].kind \notin Kinds
               \/ HasKind(in.artifacts, "DATABASE") /\ in.sql = {}
               \/ artifacts = <<>>
            THEN Nothing
            ELSE ChangeDigest(r.env, r.type, artifacts, in.sql, in.rollback, in.plan)
    BY <1>5 DEF DigestFromManifest
  <2> HIDE DEF artifacts
  <2>4. DigestFromManifest(files) = ChangeDigest(r.env, r.type, artifacts, in.sql, in.rollback, in.plan)
    BY <2>2, <2>3
  <2>5. QED
    BY <2>1, <2>4
<1>7. r.digest = ChangeDigest(r.env, r.type, r.artifacts, r.sql, r.rollback, r.plan)
  BY DEF ContentOK
<1>8. Digests(L) = Digests(r.artifacts) <=> Originals(L) = Originals(r.artifacts)
  BY <1>1, DigestsTell DEF ContentOK
<1> HIDE DEF L
<1>9. \A M, sql, rollback, plan : ChangeDigest(r.env, r.type, M, sql, rollback, plan)
                                    = <<r.env, r.type, Digests(M), sql, rollback, plan>>
  BY DEF ChangeDigest, Digests
<1>10. DigestFromManifest(files) = r.digest
         <=> Digests(L) = Digests(r.artifacts) /\ in.sql = r.sql /\ in.rollback = r.rollback /\ in.plan = r.plan
  BY <1>6, <1>7, <1>9
<1>11. QED
  BY <1>1, <1>8, <1>10 DEF files

-----------------------------------------------------------------------------
(* Changes and calls.  Q are the policies, E the changes that there are. *)

ChangeFields ==
  {"app", "env", "type", "artifacts", "sql", "rollback", "plan", "full", "metrics", "digest", "planned",
   "minutes", "status", "risk", "findings", "rules", "overtaken"}

\* What a check may have found.
ResultOK(findings, version, risk, Q, E) ==
  /\ risk \in {"LOW", "MEDIUM", "HIGH"}
  /\ \A v \in version : v[1] \in DOMAIN Q
  /\ \A f \in findings : f.code \in DOMAIN Q /\ (f.other # Nothing => f.other \in E)

\* The findings of rules are those of the content r under policies of that version,
\* which the organisation had.
FromRules(r, findings, version, Q) ==
  \E R : /\ ArePolicies(R) /\ Older(R, Q) /\ version = RuleSetVersion(R)
         /\ RuleFindings(r, R) \subseteq findings
         /\ \A f \in findings : f.other = Nothing => f \in RuleFindings(r, R)

Open == {"CHECK_FAILED", "READY_FOR_EXPERIMENT", "WAITING_APPROVAL", "APPROVED"}
ChangeStatuses == Open \cup {"DRAFT", "REJECTED", "COMPLETED"}

IsDraft(r) ==
  r.status = "DRAFT" /\ r.rules = Nothing /\ r.risk = "UNKNOWN" /\ r.findings = {} /\ r.overtaken = FALSE

IsChange(r, Q, E) ==
  /\ DOMAIN r = ChangeFields /\ ContentOK(r) /\ r.status \in ChangeStatuses /\ r.overtaken \in BOOLEAN
  /\ r.status = "DRAFT" => IsDraft(r)
  /\ r.status # "DRAFT" => /\ ResultOK(r.findings, r.rules, r.risk, Q, E)
                           /\ ~r.overtaken => FromRules(r, r.findings, r.rules, Q)

IsCall(k, Q, E) ==
  /\ DOMAIN k = {"pc", "id", "copy", "rules", "next", "stale"} /\ k.stale \in BOOLEAN
  /\ k.pc \in {"idle", "update", "submit", "check", "checked"}
  /\ IF k.pc = "idle" THEN k.id = Nothing ELSE k.id \in E
  /\ k.pc = "update" => IsChange(k.next, Q, E) /\ IsDraft(k.next)
  /\ k.pc \in {"submit", "check", "checked"} =>
       ContentOK(k.copy) /\ k.copy.status \in {"DRAFT", "CHECK_FAILED"}
  /\ k.pc = "check" => ArePolicies(k.rules) /\ Older(k.rules, Q)
  /\ k.pc = "checked" =>
       /\ ResultOK(k.next.findings, k.next.rules, k.next.risk, Q, E)
       /\ FromRules(k.copy, k.next.findings, k.next.rules, Q)
       /\ k.next.status \in {"CHECK_FAILED", "READY_FOR_EXPERIMENT", "WAITING_APPROVAL"}

LEMMA ResultStill ==
  ASSUME NEW f, NEW v, NEW risk, NEW Q, NEW E, NEW P, NEW F, Older(Q, P), E \subseteq F,
         ResultOK(f, v, risk, Q, E)
  PROVE  ResultOK(f, v, risk, P, F)
BY DEF ResultOK, Older

LEMMA FromRulesStill ==
  ASSUME NEW r, NEW f, NEW v, NEW Q, NEW P, Older(Q, P), ArePolicies(Q), ArePolicies(P),
         FromRules(r, f, v, Q)
  PROVE  FromRules(r, f, v, P)
<1>1. PICK R : /\ ArePolicies(R) /\ Older(R, Q) /\ v = RuleSetVersion(R)
               /\ RuleFindings(r, R) \subseteq f
               /\ \A x \in f : x.other = Nothing => x \in RuleFindings(r, R)
  BY DEF FromRules
<1>2. Older(R, P)
  BY <1>1, OlderStill
<1>3. QED
  BY <1>1, <1>2 DEF FromRules

LEMMA FromRulesSame ==
  ASSUME NEW r, NEW q, SameContent(r, q), NEW f, NEW v, NEW Q, FromRules(r, f, v, Q)
  PROVE  FromRules(q, f, v, Q)
<1>1. \A R : RuleFindings(r, R) = RuleFindings(q, R)
  BY FindingsTheSame
<1>2. QED
  BY <1>1 DEF FromRules

LEMMA ChangeStill ==
  ASSUME NEW r, NEW Q, NEW E, NEW P, NEW F, Older(Q, P), ArePolicies(Q), ArePolicies(P), E \subseteq F,
         IsChange(r, Q, E)
  PROVE  IsChange(r, P, F)
BY ResultStill, FromRulesStill DEF IsChange

LEMMA CallStill ==
  ASSUME NEW k, NEW Q, NEW E, NEW P, NEW F, Older(Q, P), ArePolicies(Q), ArePolicies(P), E \subseteq F,
         IsCall(k, Q, E)
  PROVE  IsCall(k, P, F)
<1>1. IF k.pc = "idle" THEN k.id = Nothing ELSE k.id \in F
  BY DEF IsCall
<1>2. k.pc = "update" => IsChange(k.next, P, F) /\ IsDraft(k.next)
  BY ChangeStill DEF IsCall
<1>3. k.pc = "check" => ArePolicies(k.rules) /\ Older(k.rules, P)
  BY OlderStill DEF IsCall
<1>4. k.pc = "checked" =>
       /\ ResultOK(k.next.findings, k.next.rules, k.next.risk, P, F)
       /\ FromRules(k.copy, k.next.findings, k.next.rules, P)
  BY ResultStill, FromRulesStill DEF IsCall
<1>5. QED
  BY <1>1, <1>2, <1>3, <1>4 DEF IsCall

LEMMA ContentSame ==
  ASSUME NEW r, NEW q, SameContent(r, q), ContentOK(r)
  PROVE  ContentOK(q)
BY DEF SameContent, ContentOK

\* A draft is a change, whatever was handed in.
LEMMA DraftMade ==
  ASSUME NEW in \in Inputs, Accepted(in), NEW env0, env0 # Nothing, NEW planned0 \in Nat, NEW Q, NEW E
  PROVE  IsChange(Draft(in, env0, planned0), Q, E) /\ IsDraft(Draft(in, env0, planned0))
<1> DEFINE r == Draft(in, env0, planned0)
           L == NormalizeArtifacts(in.artifacts, in.sql)
           env == IF in.env = Nothing THEN env0 ELSE in.env
           type == IF in.type = Nothing THEN DeriveChangeType(L) ELSE in.type
<1>1. r = [app |-> in.app, env |-> env, type |-> type, artifacts |-> L, sql |-> in.sql,
       rollback |-> in.rollback, plan |-> in.plan, full |-> in.full, metrics |-> in.metrics,
       digest |-> ChangeDigest(env, type, L, in.sql, in.rollback, in.plan),
       planned |-> IF in.planned = Nothing THEN planned0 ELSE in.planned,
       minutes |-> ObservationTime(in.minutes),
       status |-> "DRAFT", risk |-> "UNKNOWN", findings |-> {}, rules |-> Nothing,
       overtaken |-> FALSE]
  BY DEF Draft
<1>2. ListOf(L) /\ Len(L) \in Nat /\ \A i \in 1 .. Len(L) : StoredArtifact(L[i])
  BY InputArtifacts, Normalized
<1> HIDE DEF L
<1>3. env # Nothing
  OBVIOUS
<1>4. DeriveChangeType(L) # Nothing
  <2> DEFINE kinds == {L[i].kind : i \in 1 .. Len(L)}
  <2>1. kinds \subseteq Kinds
    BY <1>2 DEF StoredArtifact
  <2>2. Nothing \notin Kinds \cup {"joint", "release"}
    BY ChecksAssumption
  <2>3. DeriveChangeType(L)
          = IF Cardinality(kinds) > 1 THEN "joint" ELSE IF kinds = {} THEN "release" ELSE CHOOSE k \in kinds : TRUE
    BY DEF DeriveChangeType
  <2> HIDE DEF kinds
  <2>4. kinds # {} => (CHOOSE k \in kinds : TRUE) \in kinds
    OBVIOUS
  <2>5. QED
    BY <2>1, <2>2, <2>3, <2>4
<1>5. type # Nothing
  BY <1>4
<1>6. in.planned \in Nat \cup {Nothing} /\ in.minutes \in Nat
  BY ChecksAssumption
<1>7. ObservationTime(in.minutes) \in Nat \ {0}
  BY <1>6 DEF ObservationTime
<1> HIDE DEF env, type
<1>8. /\ r.env = env /\ r.type = type /\ r.artifacts = L /\ r.sql = in.sql /\ r.rollback = in.rollback
      /\ r.plan = in.plan /\ r.digest = ChangeDigest(env, type, L, in.sql, in.rollback, in.plan)
      /\ r.planned = (IF in.planned = Nothing THEN planned0 ELSE in.planned)
      /\ r.minutes = ObservationTime(in.minutes)
      /\ r.status = "DRAFT" /\ r.risk = "UNKNOWN" /\ r.findings = {} /\ r.rules = Nothing /\ r.overtaken = FALSE
  BY <1>1
<1>9. DOMAIN r = ChangeFields
  BY <1>1 DEF ChangeFields
<1> HIDE DEF r
<1>10. ContentOK(r)
  BY <1>2, <1>3, <1>5, <1>6, <1>7, <1>8 DEF ContentOK
<1>11. QED
  BY <1>8, <1>9, <1>10 DEF IsChange, IsDraft, ChangeStatuses, r

-----------------------------------------------------------------------------
(* What a check finds. *)

CheckFindings(c, copy, R) == RuleFindings(copy, R) \cup WindowFindings(c, copy, R)

LEMMA WindowFinding ==
  ASSUME NEW c, NEW copy, NEW R, NEW f \in WindowFindings(c, copy, R)
  PROVE  /\ f.code \in DOMAIN R /\ f.severity = R[f.code].severity
         /\ f.other \in Existing /\ f.other # Nothing
<1>1. PICK d \in WindowOthers(c, copy) :
        /\ WindowCode(copy.app, changes[d].app) \in DOMAIN R
        /\ f = FindingFromPolicy(R, WindowCode(copy.app, changes[d].app), d)
  BY DEF WindowFindings
<1>2. d \in Existing /\ d # Nothing
  BY ChecksAssumption DEF WindowOthers, Existing
<1>3. QED
  BY <1>1, <1>2 DEF FindingFromPolicy

LEMMA RuleFinding ==
  ASSUME NEW r, NEW R, NEW f \in RuleFindings(r, R)
  PROVE  f.code \in DOMAIN R /\ f.severity = R[f.code].severity /\ f.other = Nothing
<1>1. PICK code \in CheckRelease(r, R) : f = FindingFromPolicy(R, code, Nothing)
  BY DEF RuleFindings
<1>2. code \in DOMAIN R
  BY FindingsFire
<1>3. QED
  BY <1>1, <1>2 DEF FindingFromPolicy

LEMMA Checked ==
  ASSUME NEW c, NEW copy, NEW R, NEW Q, ArePolicies(R), Older(R, Q)
  PROVE  LET F == CheckFindings(c, copy, R) IN
         /\ ResultOK(F, RuleSetVersion(R), HighestRisk(F), Q, Existing)
         /\ FromRules(copy, F, RuleSetVersion(R), Q)
<1> DEFINE F == CheckFindings(c, copy, R)
<1>1. \A f \in F : f.code \in DOMAIN R /\ f.severity = R[f.code].severity
                   /\ (f.other # Nothing => f.other \in Existing)
                   /\ (f.other = Nothing => f \in RuleFindings(copy, R))
  BY WindowFinding, RuleFinding DEF CheckFindings
<1>2. RuleFindings(copy, R) \subseteq F
  BY DEF CheckFindings
<1> HIDE DEF F
<1>3. \A f \in F : f.severity \in {"LOW", "MEDIUM", "HIGH"}
  BY <1>1 DEF ArePolicies, IsPolicy
<1>4. HighestRisk(F) \in {"LOW", "MEDIUM", "HIGH"}
  BY <1>3, RiskIsKnown
<1>5. \A v \in RuleSetVersion(R) : v[1] \in DOMAIN Q
  BY VersionNames DEF Older
<1>6. ResultOK(F, RuleSetVersion(R), HighestRisk(F), Q, Existing)
  BY <1>1, <1>4, <1>5 DEF ResultOK, Older
<1>7. FromRules(copy, F, RuleSetVersion(R), Q)
  BY <1>1, <1>2 DEF FromRules
<1>8. QED
  BY <1>6, <1>7 DEF F

LEMMA CodesOfWindows ==
  ASSUME NEW a, NEW b
  PROVE  /\ WindowCode(a, b) = WindowCode(b, a)
         /\ WindowCode(a, b) # Nothing => WindowCode(a, b) \in WindowCodes
BY DEF WindowCode, WindowCodes

LEMMA DistanceBothWays ==
  ASSUME NEW m \in Nat, NEW n \in Nat
  PROVE  Distance(m, n) = Distance(n, m)
BY DEF Distance

\* A check names every change there is that is not closed, in a window that conflicts
\* with its own under an enabled rule.
LEMMA ChecksName ==
  ASSUME NEW c, NEW copy, NEW R, NEW d \in Existing, d # c,
         changes[d].status \notin {"REJECTED", "COMPLETED"},
         Distance(copy.planned, changes[d].planned) <= Protection,
         WindowCode(copy.app, changes[d].app) # Nothing,
         \E v \in RuleSetVersion(R) : v[1] = WindowCode(copy.app, changes[d].app)
  PROVE  \E f \in CheckFindings(c, copy, R) : f.other = d
<1> DEFINE code == WindowCode(copy.app, changes[d].app)
           f == FindingFromPolicy(R, code, d)
<1>1. code \in WindowCodes /\ code \in DOMAIN R /\ R[code].enabled
  BY CodesOfWindows, VersionNames
<1>2. d \in WindowOthers(c, copy)
  BY DEF WindowOthers
<1>3. f \in WindowFindings(c, copy, R)
  BY <1>1, <1>2 DEF WindowFindings
<1>4. f.other = d
  BY DEF FindingFromPolicy
<1>5. QED
  BY <1>3, <1>4 DEF CheckFindings

-----------------------------------------------------------------------------
(* The radar. *)

LEMMA ResourceKinds ==
  ASSUME NEW a, ContentOK(a), NEW r \in Resources(a)
  PROVE  r[1] \in Kinds
<1>1. CASE r \in {<<"DATABASE", <<s.table>>>> : s \in {s \in a.sql : s.table # Nothing}}
  BY <1>1 DEF Kinds
<1>2. ASSUME NEW i \in 1 .. Len(a.artifacts),
             r \in CASE a.artifacts[i].kind = "DATABASE" ->
                       {<<"DATABASE", <<s.table>>>> : s \in {s \in a.artifacts[i].content : s.table # Nothing}}
                  [] a.artifacts[i].kind = "CONFIG" ->
                       {<<"CONFIG", <<a.artifacts[i].name, l.is>>>> : l \in a.artifacts[i].content}
                  [] a.artifacts[i].kind = "KUBERNETES" ->
                       {<<"KUBERNETES", <<d.is, d.name>>>> :
                          d \in {d \in a.artifacts[i].content : d.is # Nothing /\ d.name # Nothing}}
      PROVE  r[1] \in Kinds
  <2>1. a.artifacts[i].kind \in Kinds
    BY DEF ContentOK, StoredArtifact
  <2>2. CASE a.artifacts[i].kind = "DATABASE"
    BY <1>2, <2>2 DEF Kinds
  <2>3. CASE a.artifacts[i].kind = "CONFIG"
    BY <1>2, <2>3 DEF Kinds
  <2>4. CASE a.artifacts[i].kind = "KUBERNETES"
    BY <1>2, <2>4 DEF Kinds
  <2>5. QED
    BY <2>1, <2>2, <2>3, <2>4 DEF Kinds
<1>3. QED
  BY <1>1, <1>2 DEF Resources

Weights == {65, 76, 82, 88, 90}

LEMMA ReasonsWeigh ==
  ASSUME NEW a, NEW b, ContentOK(a), NEW r \in Reasons(a, b)
  PROVE  r[3] \in Weights
<1>1. CASE r \in {<<q[1], q[2], Weight(q[1])>> : q \in Resources(a) \cap Resources(b)}
  <2>1. PICK q \in Resources(a) : r = <<q[1], q[2], Weight(q[1])>>
    BY <1>1
  <2>2. q[1] \in Kinds
    BY ResourceKinds
  <2>3. Weight(q[1]) \in Weights
    BY <2>2 DEF Kinds, Weight, Weights
  <2>4. QED
    BY <2>1, <2>3
<1>2. CASE r = <<"SAME_APPLICATION", <<>>, 90>> \/ r = <<"APPLICATION_DEPENDENCY", <<>>, 65>>
  BY <1>2 DEF Weights
<1>3. QED
  BY <1>1, <1>2 DEF Reasons

LEMMA HeaviestWeight ==
  ASSUME NEW W \in SUBSET Weights, W # {}
  PROVE  \E w \in W : \A v \in W : v <= w
<1>1. CASE 90 \in W
  BY <1>1 DEF Weights
<1>2. CASE 90 \notin W /\ 88 \in W
  BY <1>2 DEF Weights
<1>3. CASE 90 \notin W /\ 88 \notin W /\ 82 \in W
  BY <1>3 DEF Weights
<1>4. CASE 90 \notin W /\ 88 \notin W /\ 82 \notin W /\ 76 \in W
  BY <1>4 DEF Weights
<1>5. CASE 90 \notin W /\ 88 \notin W /\ 82 \notin W /\ 76 \notin W
  <2>1. \A w \in W : w = 65
    BY <1>5 DEF Weights
  <2>2. 65 \in W
    BY <2>1
  <2>3. QED
    BY <2>1, <2>2
<1>6. QED
  BY <1>1, <1>2, <1>3, <1>4, <1>5

\* The same release, observed for at least as long and at least as risky.
Harder(a, p) ==
  /\ p.app = a.app /\ p.env = a.env /\ p.artifacts = a.artifacts /\ p.sql = a.sql /\ p.planned = a.planned
  /\ p.minutes \in Nat /\ p.minutes >= a.minutes
  /\ a.risk = "HIGH" => p.risk = "HIGH"

LEMMA ResourcesSame ==
  ASSUME NEW a, NEW p, Harder(a, p)
  PROVE  Resources(p) = Resources(a)
BY DEF Resources, Harder

LEMMA ReasonsSame ==
  ASSUME NEW a, NEW p, Harder(a, p), NEW b, NEW q, Harder(b, q)
  PROVE  Reasons(p, q) = Reasons(a, b)
<1>1. Resources(p) = Resources(a) /\ Resources(q) = Resources(b)
  BY ResourcesSame
<1>2. p.app = a.app /\ q.app = b.app
  BY DEF Harder
<1>3. QED
  BY <1>1, <1>2 DEF Reasons

LEMMA WindowsEnd ==
  ASSUME NEW a, a.planned \in Nat, a.minutes \in Nat
  PROVE  WindowEnd(a) \in Nat /\ WindowEnd(a) > a.planned
BY DEF WindowEnd, DefaultWindow, MaxWindow

LEMMA LaterEnd ==
  ASSUME NEW a, NEW p, Harder(a, p), a.planned \in Nat, a.minutes \in Nat
  PROVE  WindowEnd(a) <= WindowEnd(p)
BY DEF WindowEnd, DefaultWindow, MaxWindow, Harder

LEMMA MoreOverlap ==
  ASSUME NEW a, NEW p, Harder(a, p), NEW b, NEW q, Harder(b, q), ContentOK(a), ContentOK(b)
  PROVE  Overlap(a, b) \in Int /\ Overlap(p, q) \in Int /\ Overlap(a, b) <= Overlap(p, q)
<1>1. /\ a.planned \in Nat /\ b.planned \in Nat /\ p.planned = a.planned /\ q.planned = b.planned
      /\ a.minutes \in Nat /\ b.minutes \in Nat /\ p.minutes \in Nat /\ q.minutes \in Nat
  BY DEF ContentOK, Harder
<1>2. /\ WindowEnd(a) \in Nat /\ WindowEnd(b) \in Nat /\ WindowEnd(p) \in Nat /\ WindowEnd(q) \in Nat
      /\ WindowEnd(a) <= WindowEnd(p) /\ WindowEnd(b) <= WindowEnd(q)
  BY <1>1, WindowsEnd, LaterEnd
<1>3. QED
  BY <1>1, <1>2 DEF Overlap

LEMMA ConflictKept ==
  ASSUME NEW a, NEW p, Harder(a, p), NEW b, NEW q, Harder(b, q), ContentOK(a), ContentOK(b),
         InConflict(a, b)
  PROVE  InConflict(p, q) /\ Score(p, q) >= Score(a, b)
<1>1. Reasons(p, q) = Reasons(a, b) /\ Reasons(a, b) # {}
  BY ReasonsSame DEF InConflict
<1>2. Overlap(a, b) \in Int /\ Overlap(p, q) \in Int /\ Overlap(a, b) <= Overlap(p, q) /\ Overlap(a, b) > 0
  BY MoreOverlap DEF InConflict
<1>3. InConflict(p, q)
  BY <1>1, <1>2 DEF InConflict, Harder
<1> DEFINE W == {r[3] : r \in Reasons(a, b)}
           base == CHOOSE w \in W : \A r \in Reasons(a, b) : r[3] <= w
<1>4. base \in Weights
  <2>1. W # {} /\ W \in SUBSET Weights
    BY <1>1, ReasonsWeigh
  <2>2. \E w \in W : \A v \in W : v <= w
    BY <2>1, HeaviestWeight
  <2>3. \E w \in W : \A r \in Reasons(a, b) : r[3] <= w
    BY <2>2
  <2>4. base \in W
    BY <2>3
  <2>5. QED
    BY <2>1, <2>4
<1> DEFINE plus(yes) == IF yes THEN 5 ELSE 0
           sum == base + plus(a.risk = "HIGH") + plus(b.risk = "HIGH") + plus(Overlap(a, b) >= 2)
           more == base + plus(p.risk = "HIGH") + plus(q.risk = "HIGH") + plus(Overlap(p, q) >= 2)
<1>5. Score(a, b) = (IF sum > 100 THEN 100 ELSE sum) /\ Score(p, q) = (IF more > 100 THEN 100 ELSE more)
  BY <1>1 DEF Score
<1> HIDE DEF base
<1>6. sum \in Nat /\ more \in Nat /\ sum <= more
  BY <1>2, <1>4 DEF Weights, Harder
<1>7. QED
  BY <1>3, <1>5, <1>6

-----------------------------------------------------------------------------
(* The invariant.  f are the changes, g the calls. *)

There(f) == {c \in Changes : f[c].status # "NONE"}

ChangesAre(f, Q) == f = [c \in Changes |-> f[c]] /\ \A c \in There(f) : IsChange(f[c], Q, There(f))

CallsAre(g, Q, E) == g = [k \in Clients |-> g[k]] /\ \A k \in Clients : IsCall(g[k], Q, E)

\* A submission whose change was not written since holds the change as it is.
Current(f, g) ==
  \A k \in Clients : g[k].pc \in {"submit", "check", "checked"} /\ ~g[k].stale => f[g[k].id] = g[k].copy

\* The results of checks that count: those that are stored, and those on their way.
Pending(g, k, c, F, V) ==
  g[k].pc = "checked" /\ ~g[k].stale /\ g[k].id = c /\ F = g[k].next.findings /\ V = g[k].next.rules

Stored(f, c, F, V) ==
  f[c].status \in Open /\ ~f[c].overtaken /\ F = f[c].findings /\ V = f[c].rules

Result(f, g, c, F, V) == Stored(f, c, F, V) \/ \E k \in Clients : Pending(g, k, c, F, V)

\* Two changes conflict, and the rule was enabled in both versions.
Clash(a, V, b, W) ==
  /\ Distance(a.planned, b.planned) <= Protection /\ WindowCode(a.app, b.app) # Nothing
  /\ \E v \in V : v[1] = WindowCode(a.app, b.app)
  /\ \E w \in W : w[1] = WindowCode(a.app, b.app)

Names(F, d) == \E x \in F : x.other = d

\* Of two such results, one names the other's change.
AllNamed(f, g) ==
  \A c, d \in Changes : \A F, V, G, W :
    /\ c # d /\ Result(f, g, c, F, V) /\ Result(f, g, d, G, W)
    /\ Clash(f[c], V, f[d], W)
    => Names(F, d) \/ Names(G, c)

ChecksInv ==
  /\ ArePolicies(policies) /\ ChangesAre(changes, policies) /\ CallsAre(call, policies, There(changes))
  /\ Current(changes, call) /\ AllNamed(changes, call)

LEMMA NoCallIsCall ==
  ASSUME NEW Q, NEW E
  PROVE  IsCall(NoCall, Q, E)
BY DEF IsCall, NoCall

LEMMA PolicyStep ==
  ASSUME ChecksInv, NEW P, ArePolicies(P), Older(policies, P)
  PROVE  ChangesAre(changes, P) /\ CallsAre(call, P, There(changes))
BY ChangeStill, CallStill DEF ChecksInv, ChangesAre, CallsAre

\* If there are no results but those that there were, of the same plans, nothing is
\* left unnamed.
LEMMA NamedStill ==
  ASSUME NEW f, NEW g, NEW f2, NEW g2, AllNamed(f, g),
         \A c \in Changes : \A F, V : Result(f2, g2, c, F, V) =>
           Result(f, g, c, F, V) /\ f2[c].planned = f[c].planned /\ f2[c].app = f[c].app
  PROVE  AllNamed(f2, g2)
<1> SUFFICES ASSUME NEW c \in Changes, NEW d \in Changes, NEW F, NEW V, NEW G, NEW W,
                    c # d, Result(f2, g2, c, F, V), Result(f2, g2, d, G, W), Clash(f2[c], V, f2[d], W)
             PROVE  Names(F, d) \/ Names(G, c)
  BY DEF AllNamed
<1>1. Result(f, g, c, F, V) /\ f2[c].planned = f[c].planned /\ f2[c].app = f[c].app
  OBVIOUS
<1>2. Result(f, g, d, G, W) /\ f2[d].planned = f[d].planned /\ f2[d].app = f[d].app
  OBVIOUS
<1>3. Clash(f[c], V, f[d], W)
  BY <1>1, <1>2 DEF Clash
<1>4. QED
  BY <1>1, <1>2, <1>3 DEF AllNamed

\* A call other than a check moves on.
LEMMA CallStep ==
  ASSUME NEW f, NEW Q, NEW g, CallsAre(g, Q, There(f)), Current(f, g), AllNamed(f, g),
         NEW k \in Clients, NEW q, IsCall(q, Q, There(f)), q.pc # "checked",
         q.pc \in {"submit", "check"} /\ ~q.stale => f[q.id] = q.copy
  PROVE  LET g2 == [g EXCEPT ![k] = q] IN
         CallsAre(g2, Q, There(f)) /\ Current(f, g2) /\ AllNamed(f, g2)
<1> DEFINE g2 == [g EXCEPT ![k] = q]
<1>1. g2 = [j \in Clients |-> g2[j]] /\ \A j \in Clients : g2[j] = IF j = k THEN q ELSE g[j]
  BY DEF CallsAre
<1> HIDE DEF g2
<1>2. CallsAre(g2, Q, There(f))
  BY <1>1 DEF CallsAre
<1>3. Current(f, g2)
  BY <1>1 DEF Current
<1>4. \A c \in Changes : \A F, V : Result(f, g2, c, F, V) => Result(f, g, c, F, V)
  BY <1>1 DEF Result, Pending
<1>5. AllNamed(f, g2)
  BY <1>4, NamedStill
<1>6. QED
  BY <1>2, <1>3, <1>5 DEF g2

\* The calls after change c was written: those that had read it are stale, and the
\* call that wrote it has ended.
Marked(g, g2, c) ==
  /\ g2 = [k \in Clients |-> g2[k]]
  /\ \A k \in Clients : \/ g2[k] = NoCall
                        \/ g[k].id = c /\ g2[k] = [g[k] EXCEPT !.stale = TRUE]
                        \/ g[k].id # c /\ g2[k] = g[k]

LEMMA StaleCall ==
  ASSUME NEW k, NEW Q, NEW E, IsCall(k, Q, E)
  PROVE  LET j == [k EXCEPT !.stale = TRUE] IN IsCall(j, Q, E) /\ j.stale
<1> DEFINE j == [k EXCEPT !.stale = TRUE]
<1>1. /\ DOMAIN j = DOMAIN k /\ j.stale = TRUE /\ j.pc = k.pc /\ j.id = k.id /\ j.copy = k.copy
      /\ j.rules = k.rules /\ j.next = k.next
  BY DEF IsCall
<1> HIDE DEF j
<1>2. IsCall(j, Q, E)
  BY <1>1 DEF IsCall
<1>3. QED
  BY <1>1, <1>2 DEF j

\* A change is written: its results are at most the one that is now stored, if that
\* was a result before and the plan is the same.
LEMMA ChangeStep ==
  ASSUME NEW f, NEW Q, NEW g, ArePolicies(Q), ChangesAre(f, Q), CallsAre(g, Q, There(f)),
         Current(f, g), AllNamed(f, g),
         NEW c \in Changes, NEW r, IsChange(r, Q, There(f) \cup {c}), NEW g2, Marked(g, g2, c),
         r.status \in Open /\ ~r.overtaken =>
           Result(f, g, c, r.findings, r.rules) /\ r.planned = f[c].planned /\ r.app = f[c].app
  PROVE  LET f2 == [f EXCEPT ![c] = r] IN
         /\ ChangesAre(f2, Q) /\ CallsAre(g2, Q, There(f2)) /\ Current(f2, g2) /\ AllNamed(f2, g2)
<1> DEFINE f2 == [f EXCEPT ![c] = r]
<1>1. f2 = [d \in Changes |-> f2[d]] /\ \A d \in Changes : f2[d] = IF d = c THEN r ELSE f[d]
  BY DEF ChangesAre
<1> HIDE DEF f2
<1>2. There(f2) = There(f) \cup {c}
  <2>1. r.status # "NONE"
    BY DEF IsChange, ChangeStatuses, Open
  <2>2. QED
    BY <2>1, <1>1 DEF There
<1>3. ChangesAre(f2, Q)
  <2>1. ASSUME NEW d \in There(f2)
        PROVE  IsChange(f2[d], Q, There(f2))
    <3>1. CASE d = c
      BY <3>1, <1>1, <1>2
    <3>2. CASE d # c
      <4>1. d \in There(f) /\ f2[d] = f[d]
        BY <3>2, <1>1, <1>2 DEF There
      <4>2. QED
        BY <4>1, <1>2, ChangeStill, OlderItself DEF ChangesAre
    <3>3. QED
      BY <3>1, <3>2
  <2>2. QED
    BY <1>1, <2>1 DEF ChangesAre
<1>4. ASSUME NEW k \in Clients
      PROVE  /\ IsCall(g2[k], Q, There(f))
             /\ g2[k].pc \in {"submit", "check", "checked"} /\ ~g2[k].stale => g[k].id # c /\ g2[k] = g[k]
  <2>1. CASE g2[k] = NoCall
    <3>1. IsCall(g2[k], Q, There(f))
      BY <2>1, NoCallIsCall
    <3>2. g2[k].pc = "idle"
      BY <2>1 DEF NoCall
    <3>3. QED
      BY <3>1, <3>2
  <2>2. CASE g[k].id = c /\ g2[k] = [g[k] EXCEPT !.stale = TRUE]
    BY <2>2, StaleCall DEF CallsAre
  <2>3. CASE g[k].id # c /\ g2[k] = g[k]
    BY <2>3 DEF CallsAre
  <2>4. QED
    BY <2>1, <2>2, <2>3 DEF Marked
<1>5. CallsAre(g2, Q, There(f2))
  BY <1>2, <1>4, CallStill, OlderItself DEF CallsAre, Marked
<1>6. Current(f2, g2)
  <2>1. ASSUME NEW k \in Clients, g2[k].pc \in {"submit", "check", "checked"}, ~g2[k].stale
        PROVE  f2[g2[k].id] = g2[k].copy
    <3>1. g[k].id # c /\ g2[k] = g[k]
      BY <2>1, <1>4
    <3>2. g[k].id \in Changes
      BY <2>1, <3>1 DEF CallsAre, IsCall, There
    <3>3. QED
      BY <2>1, <3>1, <3>2, <1>1 DEF Current
  <2>2. QED
    BY <2>1 DEF Current
<1>7. ASSUME NEW d \in Changes, NEW F, NEW V, Result(f2, g2, d, F, V)
      PROVE  Result(f, g, d, F, V) /\ f2[d].planned = f[d].planned /\ f2[d].app = f[d].app
  <2>1. ASSUME NEW k \in Clients, Pending(g2, k, d, F, V)
        PROVE  Pending(g, k, d, F, V) /\ d # c
    BY <2>1, <1>4 DEF Pending
  <2>2. CASE d = c
    <3>1. Stored(f2, c, F, V)
      BY <2>1, <2>2, <1>7 DEF Result
    <3>2. r.status \in Open /\ ~r.overtaken /\ F = r.findings /\ V = r.rules
      BY <3>1, <1>1 DEF Stored
    <3>3. QED
      BY <2>2, <3>2, <1>1
  <2>3. CASE d # c
    <3>1. f2[d] = f[d]
      BY <2>3, <1>1
    <3>2. Result(f, g, d, F, V)
      BY <3>1, <2>1, <1>7 DEF Result, Stored
    <3>3. QED
      BY <3>1, <3>2
  <2>4. QED
    BY <2>2, <2>3
<1>8. AllNamed(f2, g2)
  BY <1>7, NamedStill
<1>9. QED
  BY <1>3, <1>5, <1>6, <1>8 DEF f2

-----------------------------------------------------------------------------
(* The steps. *)

LEMMA PoliciesStep ==
  ASSUME ChecksInv, ArePolicies(policies'), Older(policies, policies'), changes' = changes, call' = call
  PROVE  ChecksInv'
<1>1. ChangesAre(changes, policies') /\ CallsAre(call, policies', There(changes))
  BY PolicyStep
<1>2. QED
  BY <1>1 DEF ChecksInv

LEMMA CallsStep ==
  ASSUME ChecksInv, NEW k \in Clients, NEW q, call' = [call EXCEPT ![k] = q],
         IsCall(q, policies, There(changes)), q.pc # "checked",
         q.pc \in {"submit", "check"} /\ ~q.stale => changes[q.id] = q.copy,
         changes' = changes, policies' = policies
  PROVE  ChecksInv'
<1>1. /\ CallsAre(call, policies, There(changes)) /\ Current(changes, call) /\ AllNamed(changes, call)
  BY DEF ChecksInv
<1>2. /\ CallsAre(call', policies, There(changes)) /\ Current(changes, call') /\ AllNamed(changes, call')
  BY <1>1, CallStep
<1>3. QED
  BY <1>2 DEF ChecksInv

LEMMA ChangesStep ==
  ASSUME ChecksInv, NEW c \in Changes, NEW r, changes' = [changes EXCEPT ![c] = r],
         IsChange(r, policies, There(changes) \cup {c}), Marked(call, call', c), policies' = policies,
         r.status \in Open /\ ~r.overtaken =>
           /\ Result(changes, call, c, r.findings, r.rules)
           /\ r.planned = changes[c].planned /\ r.app = changes[c].app
  PROVE  ChecksInv'
<1>1. /\ ArePolicies(policies) /\ ChangesAre(changes, policies) /\ CallsAre(call, policies, There(changes))
      /\ Current(changes, call) /\ AllNamed(changes, call)
  BY DEF ChecksInv
<1>2. /\ ChangesAre(changes', policies) /\ CallsAre(call', policies, There(changes'))
      /\ Current(changes', call') /\ AllNamed(changes', call')
  BY <1>1, ChangeStep
<1>3. QED
  BY <1>1, <1>2 DEF ChecksInv

LEMMA WrittenMarks ==
  ASSUME ChecksInv, NEW c \in Changes
  PROVE  /\ call' = Written(c) => Marked(call, call', c)
         /\ \A k \in Clients : call' = [Written(c) EXCEPT ![k] = NoCall] => Marked(call, call', c)
<1>1. \A k \in Clients : Written(c)[k] = IF call[k].id = c THEN [call[k] EXCEPT !.stale = TRUE] ELSE call[k]
  BY DEF Written
<1>2. Written(c) = [k \in Clients |-> Written(c)[k]]
  BY DEF Written
<1>3. ASSUME call' = Written(c)
      PROVE  Marked(call, call', c)
  BY <1>1, <1>2, <1>3 DEF Marked
<1>4. ASSUME NEW k \in Clients, call' = [Written(c) EXCEPT ![k] = NoCall]
      PROVE  Marked(call, call', c)
  BY <1>1, <1>2, <1>4 DEF Marked
<1>5. QED
  BY <1>3, <1>4

LEMMA NumbersAndNothing ==
  Nothing \notin Changes /\ Nothing # "prod" /\ Tomorrow \in Nat
BY ChecksAssumption DEF Tomorrow

\* What is known of a change that is there, and of a call that is under way.
LEMMA ChangeKnown ==
  ASSUME ChecksInv, NEW c \in Changes, changes[c].status # "NONE"
  PROVE  c \in There(changes) /\ IsChange(changes[c], policies, There(changes))
BY DEF ChecksInv, ChangesAre, There

LEMMA CallKnown ==
  ASSUME ChecksInv, NEW k \in Clients
  PROVE  /\ IsCall(call[k], policies, There(changes))
         /\ call[k].pc # "idle" => call[k].id \in Changes /\ changes[call[k].id].status # "NONE"
BY DEF ChecksInv, CallsAre, IsCall, There

LEMMA CreateKeeps ==
  ASSUME ChecksInv, NEW c \in Changes, NEW in \in Inputs, Create(c, in)
  PROVE  ChecksInv'
<1> DEFINE r == Draft(in, "prod", Tomorrow)
<1>1. Accepted(in) /\ c \notin There(changes) /\ changes' = [changes EXCEPT ![c] = r]
      /\ call' = call /\ policies' = policies
  BY DEF Create, Existing, There
<1>2. IsChange(r, policies, There(changes) \cup {c}) /\ IsDraft(r)
  BY <1>1, DraftMade, NumbersAndNothing
<1> HIDE DEF r
<1>3. \A k \in Clients : call[k].id # c
  BY <1>1, CallKnown, NumbersAndNothing DEF IsCall
<1>4. Marked(call, call', c)
  BY <1>1, <1>3 DEF Marked, ChecksInv, CallsAre
<1>5. r.status \notin Open
  BY <1>2 DEF IsDraft, Open
<1>6. QED
  BY <1>1, <1>2, <1>4, <1>5, ChangesStep

LEMMA UpdateReadsKeeps ==
  ASSUME ChecksInv, NEW k \in Clients, NEW c \in Changes, NEW in \in Inputs, UpdateReads(k, c, in)
  PROVE  ChecksInv'
<1> DEFINE r == Draft(in, changes[c].env, changes[c].planned)
           q == [NoCall EXCEPT !.pc = "update", !.id = c, !.next = r]
<1>1. /\ Accepted(in) /\ changes[c].status # "NONE" /\ call' = [call EXCEPT ![k] = q]
      /\ changes' = changes /\ policies' = policies
  BY DEF UpdateReads
<1>2. c \in There(changes) /\ changes[c].env # Nothing /\ changes[c].planned \in Nat
  BY <1>1, ChangeKnown DEF IsChange, ContentOK
<1>3. IsChange(r, policies, There(changes)) /\ IsDraft(r)
  BY <1>1, <1>2, DraftMade
<1> HIDE DEF r
<1>4. /\ q.pc = "update" /\ q.id = c /\ q.next = r /\ q.stale = FALSE
      /\ DOMAIN q = {"pc", "id", "copy", "rules", "next", "stale"}
  BY DEF NoCall
<1> HIDE DEF q
<1>5. IsCall(q, policies, There(changes))
  BY <1>2, <1>3, <1>4 DEF IsCall
<1>6. QED
  BY <1>1, <1>4, <1>5, CallsStep

LEMMA SubmitReadsKeeps ==
  ASSUME ChecksInv, NEW k \in Clients, NEW c \in Changes, SubmitReads(k, c)
  PROVE  ChecksInv'
<1> DEFINE q == [NoCall EXCEPT !.pc = "submit", !.id = c, !.copy = changes[c]]
<1>1. /\ changes[c].status \in {"DRAFT", "CHECK_FAILED"} /\ call' = [call EXCEPT ![k] = q]
      /\ changes' = changes /\ policies' = policies
  BY DEF SubmitReads
<1>2. c \in There(changes) /\ ContentOK(changes[c])
  BY <1>1, ChangeKnown DEF IsChange
<1>3. /\ q.pc = "submit" /\ q.id = c /\ q.copy = changes[c] /\ q.stale = FALSE
      /\ DOMAIN q = {"pc", "id", "copy", "rules", "next", "stale"}
  BY DEF NoCall
<1> HIDE DEF q
<1>4. IsCall(q, policies, There(changes))
  BY <1>1, <1>2, <1>3 DEF IsCall
<1>5. QED
  BY <1>1, <1>3, <1>4, CallsStep

LEMMA ReadPoliciesKeeps ==
  ASSUME ChecksInv, NEW k \in Clients, ReadPolicies(k)
  PROVE  ChecksInv'
<1> DEFINE q == [call[k] EXCEPT !.pc = "check", !.rules = policies]
<1>1. /\ call[k].pc = "submit" /\ call' = [call EXCEPT ![k] = q]
      /\ changes' = changes /\ policies' = policies
  BY DEF ReadPolicies
<1>2. IsCall(call[k], policies, There(changes))
  BY CallKnown
<1>3. /\ q.pc = "check" /\ q.rules = policies /\ q.id = call[k].id /\ q.copy = call[k].copy
      /\ q.stale = call[k].stale /\ DOMAIN q = DOMAIN call[k]
  BY <1>2 DEF IsCall
<1> HIDE DEF q
<1>4. IsCall(q, policies, There(changes))
  BY <1>1, <1>2, <1>3, OlderItself DEF IsCall, ChecksInv
<1>5. q.pc \in {"submit", "check"} /\ ~q.stale => changes[q.id] = q.copy
  BY <1>1, <1>3 DEF ChecksInv, Current
<1>6. QED
  BY <1>1, <1>3, <1>4, <1>5, CallsStep

\* A change with a result that counts is there, and not closed.
LEMMA ResultIsOpen ==
  ASSUME ChecksInv, NEW d \in Changes, NEW F, NEW V, Result(changes, call, d, F, V)
  PROVE  d \in There(changes) /\ changes[d].status \notin {"REJECTED", "COMPLETED"}
         /\ changes[d].planned \in Nat
<1>1. changes[d].status \in Open \cup {"DRAFT"}
  <2>1. CASE Stored(changes, d, F, V)
    BY <2>1 DEF Stored
  <2>2. ASSUME NEW k \in Clients, Pending(call, k, d, F, V)
        PROVE  changes[d].status \in Open \cup {"DRAFT"}
    <3>1. changes[d] = call[k].copy
      BY <2>2 DEF Pending, ChecksInv, Current
    <3>2. call[k].copy.status \in {"DRAFT", "CHECK_FAILED"}
      BY <2>2, CallKnown DEF Pending, IsCall
    <3>3. QED
      BY <3>1, <3>2 DEF Open
  <2>3. QED
    BY <2>1, <2>2 DEF Result
<1>2. changes[d].status # "NONE" /\ changes[d].status \notin {"REJECTED", "COMPLETED"}
  BY <1>1 DEF Open
<1>3. QED
  BY <1>2, ChangeKnown DEF IsChange, ContentOK

LEMMA CheckKeeps ==
  ASSUME ChecksInv, NEW k \in Clients, Check(k)
  PROVE  ChecksInv'
<1> DEFINE c == call[k].id
           copy == call[k].copy
           R == call[k].rules
           F == CheckFindings(c, copy, R)
           n == [findings |-> F, rules |-> RuleSetVersion(R), risk |-> HighestRisk(F),
                 status |-> IF Blocked(F) THEN "CHECK_FAILED" ELSE AfterCheck(copy.sql)]
           q == [call[k] EXCEPT !.pc = "checked", !.rules = Nothing, !.next = n]
<1>1. /\ call[k].pc = "check" /\ call' = [call EXCEPT ![k] = q]
      /\ changes' = changes /\ policies' = policies
  BY DEF Check, CheckFindings, RuleFindings
<1>2. /\ IsCall(call[k], policies, There(changes)) /\ c \in Changes /\ c \in There(changes)
      /\ changes[c].planned \in Nat
  BY <1>1, CallKnown, ChangeKnown DEF IsChange, ContentOK
<1>3. Existing = There(changes)
  BY DEF Existing, There
<1>4. ResultOK(F, RuleSetVersion(R), HighestRisk(F), policies, There(changes))
      /\ FromRules(copy, F, RuleSetVersion(R), policies)
  BY <1>1, <1>2, <1>3, Checked DEF IsCall
<1>5. /\ n.findings = F /\ n.rules = RuleSetVersion(R) /\ n.risk = HighestRisk(F)
      /\ n.status \in {"CHECK_FAILED", "READY_FOR_EXPERIMENT", "WAITING_APPROVAL"}
  BY DEF AfterCheck
<1>6. ASSUME NEW d \in There(changes), d # c, changes[d].status \notin {"REJECTED", "COMPLETED"},
             Distance(copy.planned, changes[d].planned) <= Protection,
             WindowCode(copy.app, changes[d].app) # Nothing,
             \E v \in RuleSetVersion(R) : v[1] = WindowCode(copy.app, changes[d].app)
      PROVE  Names(F, d)
  <2> HIDE DEF c, copy, R
  <2>1. d \in Existing \ {c}
    BY <1>3, <1>6
  <2>2. \E x \in CheckFindings(c, copy, R) : x.other = d
    BY <2>1, <1>6, ChecksName
  <2>3. QED
    BY <2>2 DEF Names
<1> HIDE DEF F, n
<1>7. /\ q.pc = "checked" /\ q.rules = Nothing /\ q.id = c /\ q.copy = copy /\ q.next = n
      /\ q.stale = call[k].stale /\ DOMAIN q = DOMAIN call[k]
  BY <1>2 DEF IsCall
<1> HIDE DEF q
<1>8. IsCall(q, policies, There(changes))
  BY <1>1, <1>2, <1>4, <1>5, <1>7 DEF IsCall
<1>9. call' = [j \in Clients |-> call'[j]] /\ \A j \in Clients : call'[j] = IF j = k THEN q ELSE call[j]
  BY <1>1 DEF ChecksInv, CallsAre
<1>10. CallsAre(call', policies, There(changes))
  BY <1>8, <1>9 DEF ChecksInv, CallsAre
<1>11. Current(changes, call')
  BY <1>1, <1>7, <1>9 DEF ChecksInv, Current
<1>12. ASSUME NEW d \in Changes, NEW G, NEW W, Result(changes, call', d, G, W)
       PROVE  \/ Result(changes, call, d, G, W)
              \/ d = c /\ G = F /\ W = RuleSetVersion(R) /\ changes[c] = copy
  <2>1. CASE Stored(changes, d, G, W)
    BY <2>1 DEF Result
  <2>2. ASSUME NEW j \in Clients, j # k, Pending(call', j, d, G, W)
        PROVE  Result(changes, call, d, G, W)
    BY <2>2, <1>9 DEF Pending, Result
  <2>3. ASSUME Pending(call', k, d, G, W)
        PROVE  d = c /\ G = F /\ W = RuleSetVersion(R) /\ changes[c] = copy
    <3>1. d = c /\ G = F /\ W = RuleSetVersion(R) /\ ~call[k].stale
      BY <2>3, <1>5, <1>7, <1>9 DEF Pending
    <3>2. changes[c] = copy
      BY <3>1, <1>1 DEF ChecksInv, Current
    <3>3. QED
      BY <3>1, <3>2
  <2>4. QED
    BY <1>12, <2>1, <2>2, <2>3 DEF Result
<1>13. ASSUME NEW d \in Changes, NEW G, NEW W, d # c, Result(changes, call, d, G, W), changes[c] = copy,
              Clash(changes[c], RuleSetVersion(R), changes[d], W)
       PROVE  Names(F, d)
  <2>1. d \in There(changes) /\ changes[d].status \notin {"REJECTED", "COMPLETED"}
    BY <1>13, ResultIsOpen
  <2>2. /\ Distance(copy.planned, changes[d].planned) <= Protection
        /\ WindowCode(copy.app, changes[d].app) # Nothing
        /\ \E v \in RuleSetVersion(R) : v[1] = WindowCode(copy.app, changes[d].app)
    BY <1>13 DEF Clash
  <2>3. QED
    BY <2>1, <2>2, <1>6, <1>13
<1>14. ASSUME NEW a, NEW b, NEW V, NEW W, Clash(a, V, b, W), a.planned \in Nat, b.planned \in Nat
       PROVE  Clash(b, W, a, V)
  <2>1. Distance(b.planned, a.planned) = Distance(a.planned, b.planned)
    BY <1>14, DistanceBothWays
  <2>2. WindowCode(b.app, a.app) = WindowCode(a.app, b.app)
    BY CodesOfWindows
  <2>3. QED
    BY <1>14, <2>1, <2>2 DEF Clash
<1>15. AllNamed(changes, call')
  <2> SUFFICES ASSUME NEW d \in Changes, NEW e \in Changes, NEW G, NEW V, NEW H, NEW W, d # e,
                      Result(changes, call', d, G, V), Result(changes, call', e, H, W),
                      Clash(changes[d], V, changes[e], W)
               PROVE  Names(G, e) \/ Names(H, d)
    BY DEF AllNamed
  <2>1. CASE Result(changes, call, d, G, V) /\ Result(changes, call, e, H, W)
    BY <2>1 DEF ChecksInv, AllNamed
  <2>2. CASE ~Result(changes, call, d, G, V)
    <3>1. d = c /\ G = F /\ V = RuleSetVersion(R) /\ changes[c] = copy
      BY <2>2, <1>12
    <3>2. Result(changes, call, e, H, W)
      BY <3>1, <1>12
    <3>3. QED
      BY <3>1, <3>2, <1>13
  <2>3. CASE ~Result(changes, call, e, H, W)
    <3>1. e = c /\ H = F /\ W = RuleSetVersion(R) /\ changes[c] = copy
      BY <2>3, <1>12
    <3>2. Result(changes, call, d, G, V)
      BY <3>1, <1>12
    <3>3. changes[d].planned \in Nat
      BY <3>2, ResultIsOpen
    <3>4. Clash(changes[e], W, changes[d], V)
      BY <3>1, <3>3, <1>2, <1>14
    <3>5. QED
      BY <3>1, <3>2, <3>4, <1>13
  <2>4. QED
    BY <2>1, <2>2, <2>3
<1>16. QED
  BY <1>1, <1>10, <1>11, <1>15 DEF ChecksInv

LEMMA UpdateWritesKeeps ==
  ASSUME ChecksInv, NEW k \in Clients, UpdateWrites(k)
  PROVE  ChecksInv'
<1> DEFINE c == call[k].id
           r == call[k].next
<1>1. /\ call[k].pc = "update" /\ changes' = [changes EXCEPT ![c] = r]
      /\ call' = [Written(c) EXCEPT ![k] = NoCall] /\ policies' = policies
  BY DEF UpdateWrites
<1>2. /\ c \in Changes /\ c \in There(changes)
      /\ IsChange(r, policies, There(changes)) /\ IsDraft(r)
  BY <1>1, CallKnown, ChangeKnown DEF IsCall
<1> HIDE DEF c, r
<1>3. There(changes) \cup {c} = There(changes)
  BY <1>2
<1>4. IsChange(r, policies, There(changes) \cup {c})
  BY <1>2, <1>3
<1>5. Marked(call, call', c)
  BY <1>1, <1>2, WrittenMarks
<1>6. r.status \notin Open
  BY <1>2 DEF IsDraft, Open
<1>7. QED
  BY <1>1, <1>2, <1>4, <1>5, <1>6, ChangesStep

LEMMA SubmitWritesKeeps ==
  ASSUME ChecksInv, NEW k \in Clients, SubmitWrites(k)
  PROVE  ChecksInv'
<1> DEFINE c == call[k].id
           n == call[k].next
           old == changes[c]
           r == [old EXCEPT !.findings = n.findings, !.rules = n.rules, !.risk = n.risk, !.status = n.status,
                            !.overtaken = old.overtaken \/ call[k].stale]
<1>1. /\ call[k].pc = "checked" /\ changes' = [changes EXCEPT ![c] = r]
      /\ call' = [Written(c) EXCEPT ![k] = NoCall] /\ policies' = policies
  BY DEF SubmitWrites
<1>2. /\ IsCall(call[k], policies, There(changes))
      /\ c \in Changes /\ c \in There(changes) /\ IsChange(old, policies, There(changes))
  BY <1>1, CallKnown, ChangeKnown
<1>3. /\ DOMAIN r = ChangeFields
      /\ r.findings = n.findings /\ r.rules = n.rules /\ r.risk = n.risk /\ r.status = n.status
      /\ r.overtaken = (old.overtaken \/ call[k].stale)
      /\ SameContent(old, r)
  BY <1>2 DEF IsChange, ChangeFields, SameContent
<1>4. /\ ResultOK(n.findings, n.rules, n.risk, policies, There(changes))
      /\ FromRules(call[k].copy, n.findings, n.rules, policies)
      /\ n.status \in {"CHECK_FAILED", "READY_FOR_EXPERIMENT", "WAITING_APPROVAL"}
  BY <1>1, <1>2 DEF IsCall
<1>5. ~call[k].stale => old = call[k].copy
  BY <1>1 DEF ChecksInv, Current
<1> HIDE DEF c, n, old, r
<1>6. ContentOK(r)
  BY <1>2, <1>3, ContentSame DEF IsChange
<1>7. r.overtaken \in BOOLEAN
  BY <1>2, <1>3 DEF IsChange, IsCall
<1>8. ~r.overtaken => FromRules(r, r.findings, r.rules, policies)
  BY <1>3, <1>4, <1>5, FromRulesSame
<1>9. IsChange(r, policies, There(changes))
  BY <1>3, <1>4, <1>6, <1>7, <1>8 DEF IsChange, ChangeStatuses, Open
<1>10. There(changes) \cup {c} = There(changes)
  BY <1>2
<1>11. Marked(call, call', c)
  BY <1>1, <1>2, WrittenMarks
<1>12. r.status \in Open /\ ~r.overtaken =>
         /\ Result(changes, call, c, r.findings, r.rules)
         /\ r.planned = changes[c].planned /\ r.app = changes[c].app
  <2>1. ASSUME ~r.overtaken
        PROVE  Pending(call, k, c, r.findings, r.rules)
    BY <1>1, <1>3, <2>1 DEF Pending, c, n
  <2>2. r.planned = changes[c].planned /\ r.app = changes[c].app
    BY <1>3 DEF SameContent, old
  <2>3. QED
    BY <2>1, <2>2 DEF Result
<1>13. IsChange(r, policies, There(changes) \cup {c})
  BY <1>9, <1>10
<1>14. QED
  BY <1>1, <1>2, <1>11, <1>12, <1>13, ChangesStep

\* A step of the workflow that moves only the status.
LEMMA StepKeeps ==
  ASSUME ChecksInv, NEW c \in Changes, NEW from \in Open, NEW to \in ChangeStatuses \ {"DRAFT"}, Step(c, from, to)
  PROVE  ChecksInv'
<1> DEFINE old == changes[c]
           r == [old EXCEPT !.status = to]
<1>1. /\ old.status = from /\ changes' = [changes EXCEPT ![c] = r]
      /\ call' = Written(c) /\ policies' = policies
  BY DEF Step
<1>2. c \in There(changes) /\ IsChange(old, policies, There(changes))
  BY <1>1, ChangeKnown DEF Open
<1>3. /\ DOMAIN r = ChangeFields
      /\ r.findings = old.findings /\ r.rules = old.rules /\ r.risk = old.risk /\ r.status = to
      /\ r.overtaken = old.overtaken
      /\ SameContent(old, r)
  BY <1>2 DEF IsChange, ChangeFields, SameContent
<1> HIDE DEF old, r
<1>4. old.status # "DRAFT" /\ to # "DRAFT" /\ to \in ChangeStatuses
  BY <1>1 DEF Open
<1>5. ContentOK(r)
  BY <1>2, <1>3, ContentSame DEF IsChange
<1>6. ~r.overtaken => FromRules(r, r.findings, r.rules, policies)
  BY <1>2, <1>3, <1>4, FromRulesSame DEF IsChange
<1>7. IsChange(r, policies, There(changes))
  BY <1>2, <1>3, <1>4, <1>5, <1>6 DEF IsChange
<1>8. There(changes) \cup {c} = There(changes)
  BY <1>2
<1>9. Marked(call, call', c)
  BY <1>1, WrittenMarks
<1>10. r.status \in Open /\ ~r.overtaken =>
         /\ Result(changes, call, c, r.findings, r.rules)
         /\ r.planned = changes[c].planned /\ r.app = changes[c].app
  <2>1. ASSUME ~r.overtaken
        PROVE  Stored(changes, c, r.findings, r.rules)
    BY <1>1, <1>3, <2>1 DEF Stored, old
  <2>2. r.planned = changes[c].planned /\ r.app = changes[c].app
    BY <1>3 DEF SameContent, old
  <2>3. QED
    BY <2>1, <2>2 DEF Result
<1>11. IsChange(r, policies, There(changes) \cup {c})
  BY <1>7, <1>8
<1>12. QED
  BY <1>1, <1>9, <1>10, <1>11, ChangesStep

LEMMA StatusKeeps ==
  ASSUME ChecksInv, NEW c \in Changes,
         VerifyLastFinding(c) \/ PassExperiment(c) \/ Approve(c) \/ Reject(c) \/ Complete(c)
  PROVE  ChecksInv'
<1>1. AfterCheck(changes[c].sql) \in {"WAITING_APPROVAL", "READY_FOR_EXPERIMENT"}
  BY DEF AfterCheck
<1>2. \E from \in Open, to \in ChangeStatuses \ {"DRAFT"} : Step(c, from, to)
  <2>1. /\ \A s \in Open : s \in ChangeStatuses \ {"DRAFT"}
        /\ {"REJECTED", "COMPLETED"} \subseteq ChangeStatuses \ {"DRAFT"}
        /\ {"CHECK_FAILED", "READY_FOR_EXPERIMENT", "WAITING_APPROVAL", "APPROVED"} \subseteq Open
    BY DEF Open, ChangeStatuses
  <2>2. QED
    BY <1>1, <2>1 DEF VerifyLastFinding, PassExperiment, Approve, Reject, Complete
<1>3. QED
  BY <1>2, StepKeeps

LEMMA SavePolicyKeeps ==
  ASSUME ChecksInv, NEW code, NEW p, IsPolicy(p), SavePolicy(code, p),
         code \in DOMAIN policies => p.version > policies[code].version
  PROVE  ChecksInv'
<1>1. /\ policies' = [d \in DOMAIN policies \cup {code} |-> IF d = code THEN p ELSE policies[d]]
      /\ changes' = changes /\ call' = call
  BY DEF SavePolicy
<1>2. ArePolicies(policies)
  BY DEF ChecksInv
<1>3. ArePolicies(policies')
  BY <1>1, <1>2 DEF ArePolicies
<1>4. Older(policies, policies')
  <2>1. \A d \in DOMAIN policies : policies[d].version \in Nat
    BY <1>2 DEF ArePolicies, IsPolicy
  <2>2. p.version \in Nat
    BY DEF IsPolicy
  <2>3. QED
    BY <1>1, <2>1, <2>2 DEF Older
<1>5. QED
  BY <1>1, <1>3, <1>4, PoliciesStep

LEMMA EditedPolicy ==
  ASSUME NEW e \in PolicyEdits
  PROVE  IsPolicy(e.policy)
BY ChecksAssumption DEF Policies, IsPolicy

LEMMA PolicyKeeps ==
  ASSUME ChecksInv, NEW e \in PolicyEdits, CreatePolicy(e) \/ UpdatePolicy(e)
  PROVE  ChecksInv'
<1>1. CASE CreatePolicy(e)
  <2> DEFINE p == [e.policy EXCEPT !.version = 1]
  <2>1. IsPolicy(p)
    BY EditedPolicy DEF IsPolicy
  <2>2. e.code \notin DOMAIN policies /\ SavePolicy(e.code, p)
    BY <1>1 DEF CreatePolicy
  <2> HIDE DEF p
  <2>3. QED
    BY <2>1, <2>2, SavePolicyKeeps
<1>2. CASE UpdatePolicy(e)
  <2> DEFINE old == policies[e.code]
             p == [e.policy EXCEPT !.version = old.version + 1,
                                   !.pattern = IF e.code \in Codes THEN old.pattern ELSE e.policy.pattern]
  <2>1. e.code \in DOMAIN policies /\ SavePolicy(e.code, p)
    BY <1>2 DEF UpdatePolicy
  <2>2. old.version \in Nat
    BY <2>1 DEF ChecksInv, ArePolicies, IsPolicy
  <2>3. IsPolicy(p) /\ p.version > old.version
    BY <2>2, EditedPolicy DEF IsPolicy
  <2> HIDE DEF p
  <2>4. QED
    BY <2>1, <2>3, SavePolicyKeeps
<1>3. QED
  BY <1>1, <1>2

LEMMA ToggleKeeps ==
  ASSUME ChecksInv, NEW code \in DOMAIN policies, TogglePolicy(code)
  PROVE  ChecksInv'
<1> DEFINE old == policies[code]
           p == [old EXCEPT !.enabled = ~old.enabled, !.version = old.version + 1]
<1>1. SavePolicy(code, p)
  BY DEF TogglePolicy
<1>2. IsPolicy(old)
  BY DEF ChecksInv, ArePolicies
<1>3. IsPolicy(p) /\ p.version > old.version
  BY <1>2 DEF IsPolicy
<1> HIDE DEF p
<1>4. QED
  BY <1>1, <1>3, SavePolicyKeeps

LEMMA DefaultsArePolicies ==
  ArePolicies(DefaultRiskPolicies)
BY DEF ArePolicies, IsPolicy, DefaultRiskPolicies

LEMMA ChecksStart ==
  ASSUME ChecksInit
  PROVE  ChecksInv
<1>1. There(changes) = {}
  BY DEF ChecksInit, There, NoChange
<1>2. \A k \in Clients : call[k] = NoCall
  BY DEF ChecksInit
<1>3. ArePolicies(policies)
  BY DefaultsArePolicies DEF ChecksInit
<1>4. ChangesAre(changes, policies)
  BY <1>1 DEF ChangesAre, ChecksInit
<1>5. CallsAre(call, policies, There(changes))
  BY <1>2, NoCallIsCall DEF CallsAre, ChecksInit
<1>6. Current(changes, call)
  BY <1>2 DEF Current, NoCall
<1>7. \A c \in Changes : \A F, V : ~Result(changes, call, c, F, V)
  BY <1>2 DEF Result, Stored, Pending, NoCall, ChecksInit, NoChange, Open
<1>8. AllNamed(changes, call)
  BY <1>7 DEF AllNamed
<1>9. QED
  BY <1>3, <1>4, <1>5, <1>6, <1>8 DEF ChecksInv

LEMMA ChecksStep ==
  ASSUME ChecksInv, [ChecksNext]_checksVars
  PROVE  ChecksInv'
<1>1. CASE ChecksNext
  <2>1. ASSUME NEW c \in Changes, NEW in \in Inputs, Create(c, in) \/ \E k \in Clients : UpdateReads(k, c, in)
        PROVE  ChecksInv'
    BY <2>1, CreateKeeps, UpdateReadsKeeps
  <2>2. ASSUME NEW c \in Changes, NEW k \in Clients, SubmitReads(k, c)
        PROVE  ChecksInv'
    BY <2>2, SubmitReadsKeeps
  <2>3. ASSUME NEW c \in Changes,
               VerifyLastFinding(c) \/ PassExperiment(c) \/ Approve(c) \/ Reject(c) \/ Complete(c)
        PROVE  ChecksInv'
    BY <2>3, StatusKeeps
  <2>4. ASSUME NEW k \in Clients, UpdateWrites(k) \/ ReadPolicies(k) \/ Check(k) \/ SubmitWrites(k)
        PROVE  ChecksInv'
    BY <2>4, UpdateWritesKeeps, ReadPoliciesKeeps, CheckKeeps, SubmitWritesKeeps
  <2>5. ASSUME NEW e \in PolicyEdits, CreatePolicy(e) \/ UpdatePolicy(e)
        PROVE  ChecksInv'
    BY <2>5, PolicyKeeps
  <2>6. ASSUME NEW code \in DOMAIN policies, TogglePolicy(code)
        PROVE  ChecksInv'
    BY <2>6, ToggleKeeps
  <2>7. QED
    BY <1>1, <2>1, <2>2, <2>3, <2>4, <2>5, <2>6 DEF ChecksNext
<1>2. CASE UNCHANGED checksVars
  BY <1>2 DEF checksVars, ChecksInv, ChangesAre, CallsAre, Current, AllNamed, Result, Stored, Pending,
              Clash
<1>3. QED
  BY <1>1, <1>2

LEMMA ChecksInvHolds == ChecksSpec => []ChecksInv
<1>1. ChecksInit => ChecksInv
  BY ChecksStart
<1>2. ChecksInv /\ [ChecksNext]_checksVars => ChecksInv'
  BY ChecksStep
<1>3. QED
  BY <1>1, <1>2, PTL DEF ChecksSpec

-----------------------------------------------------------------------------
(* What follows from the invariant. *)

LEMMA ExistingKnown ==
  ASSUME ChecksInv, NEW c \in Existing
  PROVE  /\ c \in Changes /\ c \in Nat /\ IsChange(changes[c], policies, Existing) /\ ContentOK(changes[c])
         /\ changes[c].planned \in Nat /\ changes[c].minutes \in Nat /\ changes[c].minutes # 0
<1>1. Existing = There(changes)
  BY DEF Existing, There
<1>2. c \in Changes /\ IsChange(changes[c], policies, Existing)
  BY <1>1, ChangeKnown DEF Existing
<1>3. ContentOK(changes[c])
  BY <1>2 DEF IsChange
<1>4. QED
  BY <1>2, <1>3, ChecksAssumption DEF ContentOK

LEMMA TypesFollow ==
  ASSUME ChecksInv
  PROVE  ChecksTypeOK
<1>1. ASSUME NEW c \in Existing
      PROVE  LET r == changes[c] IN
       /\ IF r.status = "DRAFT" THEN r.rules = Nothing /\ r.risk = "UNKNOWN" /\ r.findings = {}
          ELSE r.risk \in {"LOW", "MEDIUM", "HIGH"} /\ \A v \in r.rules : v[1] \in DOMAIN policies
       /\ \A f \in r.findings : f.code \in DOMAIN policies /\ (f.other # Nothing => f.other \in Existing)
  BY <1>1, ExistingKnown DEF IsChange, IsDraft, ResultOK
<1>2. \A k \in Clients : call[k].pc \in {"idle", "update", "submit", "check", "checked"}
  BY CallKnown DEF IsCall
<1>3. QED
  BY <1>1, <1>2 DEF ChecksTypeOK

LEMMA ConflictsFollow ==
  ASSUME ChecksInv
  PROVE  WindowConflictsSeen
<1> SUFFICES ASSUME NEW c \in Existing, NEW d \in Existing,
                    c # d, {changes[c].status, changes[d].status} \subseteq Passed,
                    ~changes[c].overtaken, ~changes[d].overtaken,
                    Distance(changes[c].planned, changes[d].planned) <= Protection,
                    WindowCode(changes[c].app, changes[d].app) # Nothing,
                    \E v \in changes[c].rules : v[1] = WindowCode(changes[c].app, changes[d].app),
                    \E v \in changes[d].rules : v[1] = WindowCode(changes[c].app, changes[d].app)
             PROVE  \/ \E f \in changes[c].findings : f.other = d
                    \/ \E f \in changes[d].findings : f.other = c
  BY DEF WindowConflictsSeen
<1>1. Passed \subseteq Open
  BY DEF Passed, Open
<1>2. /\ Stored(changes, c, changes[c].findings, changes[c].rules)
      /\ Stored(changes, d, changes[d].findings, changes[d].rules)
  BY <1>1 DEF Stored
<1>3. Clash(changes[c], changes[c].rules, changes[d], changes[d].rules)
  BY DEF Clash
<1>4. c \in Changes /\ d \in Changes
  BY DEF Existing
<1>5. Names(changes[c].findings, d) \/ Names(changes[d].findings, c)
  BY <1>2, <1>3, <1>4 DEF ChecksInv, AllNamed, Result
<1>6. QED
  BY <1>5 DEF Names

LEMMA Listed ==
  ASSUME NEW list, NEW a \in Existing, NEW b \in Existing,
         list[a].status \notin Terminal, list[a].planned \in 0 .. Tomorrow,
         list[b].status \notin Terminal, list[b].planned \in 0 .. Tomorrow,
         list[a].planned < list[b].planned \/ (list[a].planned = list[b].planned /\ a < b),
         InConflict(list[a], list[b])
  PROVE  \E x \in Detect(list, 0, Tomorrow) : x.pair = <<a, b>>
<1> DEFINE active == {e \in Existing : list[e].status \notin Terminal /\ list[e].planned \in 0 .. Tomorrow}
           first(e, f) == list[e].planned < list[f].planned \/ (list[e].planned = list[f].planned /\ e < f)
           pairs == {p \in active \X active : first(p[1], p[2]) /\ InConflict(list[p[1]], list[p[2]])}
           E(p) == [pair |-> p, score |-> Score(list[p[1]], list[p[2]]),
                    severity |-> Severity(Score(list[p[1]], list[p[2]]))]
<1>1. Detect(list, 0, Tomorrow) = {E(p) : p \in pairs}
  BY DEF Detect
<1>2. <<a, b>> \in pairs
  OBVIOUS
<1>3. E(<<a, b>>).pair = <<a, b>>
  OBVIOUS
<1> HIDE DEF pairs, E
<1>4. QED
  BY <1>1, <1>2, <1>3

LEMMA ReasonsBothWays ==
  ASSUME NEW a, NEW b
  PROVE  WindowCode(a.app, b.app) # Nothing => Reasons(a, b) # {}
BY DEF WindowCode, Reasons, DependencyRelation

LEMMA NearOverlap ==
  ASSUME NEW a, NEW b, a.planned \in Nat, b.planned \in Nat, a.minutes \in Nat, b.minutes \in Nat,
         Distance(a.planned, b.planned) < DefaultWindow
  PROVE  Overlap(a, b) > 0
BY DEF Overlap, WindowEnd, DefaultWindow, MaxWindow, Distance

LEMMA RadarFollows ==
  ASSUME ChecksInv
  PROVE  RadarAgrees
<1> DEFINE listed(c, d) == \E x \in Detect(changes, 0, Tomorrow) : {x.pair[1], x.pair[2]} = {c, d}
           near(c, d) == Distance(changes[c].planned, changes[d].planned)
           related(c, d) == WindowCode(changes[c].app, changes[d].app) # Nothing
           asked(c, d) == {changes[c].planned, changes[d].planned} \subseteq 0 .. Tomorrow
<1>1. ASSUME NEW c \in Existing, NEW d \in Existing, c # d,
             {changes[c].status, changes[d].status} \cap Terminal = {},
             related(c, d), changes[c].env = changes[d].env, near(c, d) < DefaultWindow, asked(c, d)
      PROVE  listed(c, d)
  <2>1. \A e \in {c, d} : /\ e \in Nat /\ changes[e].planned \in Nat /\ changes[e].minutes \in Nat
                          /\ changes[e].status \notin Terminal /\ changes[e].planned \in 0 .. Tomorrow
    BY <1>1, ExistingKnown
  <2>2. related(d, c) /\ near(d, c) < DefaultWindow
    BY <1>1, <2>1, CodesOfWindows, DistanceBothWays
  <2>3. InConflict(changes[c], changes[d]) /\ InConflict(changes[d], changes[c])
    BY <1>1, <2>1, <2>2, NearOverlap, ReasonsBothWays DEF InConflict
  <2>4. \/ changes[c].planned < changes[d].planned \/ (changes[c].planned = changes[d].planned /\ c < d)
        \/ changes[d].planned < changes[c].planned \/ (changes[d].planned = changes[c].planned /\ d < c)
    BY <1>1, <2>1
  <2>5. PICK a \in {c, d}, b \in {c, d} :
          /\ {a, b} = {c, d} /\ InConflict(changes[a], changes[b])
          /\ changes[a].planned < changes[b].planned \/ (changes[a].planned = changes[b].planned /\ a < b)
    BY <2>3, <2>4
  <2>6. a \in Existing /\ b \in Existing
    BY <1>1
  <2> HIDE DEF listed
  <2>7. PICK x \in Detect(changes, 0, Tomorrow) : x.pair = <<a, b>>
    <3>1. /\ changes[a].status \notin Terminal /\ changes[a].planned \in 0 .. Tomorrow
          /\ changes[b].status \notin Terminal /\ changes[b].planned \in 0 .. Tomorrow
      BY <2>1
    <3>2. changes[a].planned < changes[b].planned \/ (changes[a].planned = changes[b].planned /\ a < b)
      BY <2>5
    <3>3. InConflict(changes[a], changes[b])
      BY <2>5
    <3>4. QED
      BY ONLY <2>6, <3>1, <3>2, <3>3, Listed
  <2>8. {x.pair[1], x.pair[2]} = {c, d}
    BY <2>5, <2>7
  <2>9. QED
    BY <2>8 DEF listed
<1>2. ASSUME NEW c \in Existing, NEW d \in Existing, c # d,
             {changes[c].status, changes[d].status} \cap Terminal = {}, near(c, d) <= Protection
      PROVE  d \in WindowOthers(c, changes[c]) /\ c \in WindowOthers(d, changes[d])
  <2>1. changes[c].planned \in Nat /\ changes[d].planned \in Nat
    BY <1>2, ExistingKnown
  <2>2. near(d, c) <= Protection
    BY <1>2, <2>1, DistanceBothWays
  <2>3. QED
    BY <1>2, <2>2 DEF WindowOthers, Terminal
<1>3. QED
  BY <1>1, <1>2 DEF RadarAgrees

LEMMA RadarKeeps ==
  ASSUME ChecksInv
  PROVE  RadarMonotone
<1> SUFFICES ASSUME NEW c \in Existing, NEW in \in Inputs, ObservationTime(in.minutes) >= changes[c].minutes,
                    NEW x \in Detect(changes, 0, Tomorrow)
             PROVE  LET worse == [changes EXCEPT ![c] = [changes[c] EXCEPT !.minutes = ObservationTime(in.minutes),
                                                                         !.risk = "HIGH"]]
                    IN  \E y \in Detect(worse, 0, Tomorrow) : y.pair = x.pair /\ y.score >= x.score
  BY DEF RadarMonotone
<1> DEFINE old == changes[c]
           new == [old EXCEPT !.minutes = ObservationTime(in.minutes), !.risk = "HIGH"]
           worse == [changes EXCEPT ![c] = new]
           active(list) == {a \in Existing : list[a].status \notin Terminal /\ list[a].planned \in 0 .. Tomorrow}
           first(list, a, b) == list[a].planned < list[b].planned \/ (list[a].planned = list[b].planned /\ a < b)
           pairs(list) == {p \in active(list) \X active(list) :
                             first(list, p[1], p[2]) /\ InConflict(list[p[1]], list[p[2]])}
           entry(list, p) == [pair |-> p, score |-> Score(list[p[1]], list[p[2]]),
                              severity |-> Severity(Score(list[p[1]], list[p[2]]))]
<1>1. \A list : Detect(list, 0, Tomorrow) = {entry(list, p) : p \in pairs(list)}
  BY DEF Detect
<1>2. IsChange(old, policies, Existing) /\ ContentOK(old) /\ c \in Changes
  BY ExistingKnown
<1>3. /\ new.minutes = ObservationTime(in.minutes) /\ new.risk = "HIGH" /\ new.status = old.status
      /\ new.planned = old.planned /\ new.app = old.app /\ new.env = old.env
      /\ new.artifacts = old.artifacts /\ new.sql = old.sql
  BY <1>2 DEF IsChange, ChangeFields
<1>4. ObservationTime(in.minutes) \in Nat
  BY ChecksAssumption DEF ObservationTime
<1>5. Harder(old, new)
  BY <1>3, <1>4 DEF Harder
<1>6. \A a \in Changes : worse[a] = IF a = c THEN new ELSE changes[a]
  BY <1>2 DEF ChecksInv, ChangesAre
<1> HIDE DEF old, new, worse
<1>7. ASSUME NEW a \in Existing
      PROVE  /\ ContentOK(changes[a]) /\ Harder(changes[a], worse[a])
             /\ worse[a].status = changes[a].status /\ worse[a].planned = changes[a].planned
  <2>1. ContentOK(changes[a]) /\ a \in Changes /\ changes[a].minutes \in Nat
    BY ExistingKnown
  <2>2. Harder(changes[a], changes[a])
    BY <2>1 DEF Harder
  <2>3. QED
    BY <2>1, <2>2, <1>3, <1>5, <1>6 DEF old
<1>8. PICK p \in pairs(changes) : x = entry(changes, p)
  BY <1>1
<1>9. p[1] \in Existing /\ p[2] \in Existing /\ InConflict(changes[p[1]], changes[p[2]])
  BY <1>8
<1>10. InConflict(worse[p[1]], worse[p[2]]) /\ Score(worse[p[1]], worse[p[2]]) >= Score(changes[p[1]], changes[p[2]])
  BY <1>7, <1>9, ConflictKept
<1>11. p \in pairs(worse)
  BY <1>7, <1>8, <1>10
<1>12. entry(worse, p) \in Detect(worse, 0, Tomorrow)
  BY <1>1, <1>11
<1>13. entry(worse, p).pair = x.pair /\ entry(worse, p).score >= x.score
  BY <1>8, <1>10
<1>14. QED
  BY <1>12, <1>13 DEF worse, new, old

LEMMA VersionsFollow ==
  ASSUME ChecksInv
  PROVE  RulesAreVersioned
<1> SUFFICES ASSUME NEW c \in Existing
    PROVE  LET r == changes[c]
               enabled == {code \in DOMAIN policies : policies[code].enabled}
               hidden == {code \in DOMAIN policies \ enabled : policies[code].pattern # Nothing /\ policies[code].kinds # {}}
               found == {FindingFromPolicy(policies, code, Nothing) : code \in CheckRelease(r, policies)}
           IN  /\ r.status # "DRAFT" /\ r.rules = RuleSetVersion(policies) /\ ~r.overtaken =>
                    {f \in found : f.code \in enabled} = {f \in r.findings : f.other = Nothing /\ f.code \in enabled}
               /\ \A f \in found : f.code \in enabled \cup hidden
  BY DEF RulesAreVersioned
<1> DEFINE r == changes[c]
           enabled == {code \in DOMAIN policies : policies[code].enabled}
           hidden == {code \in DOMAIN policies \ enabled : policies[code].pattern # Nothing /\ policies[code].kinds # {}}
           found == RuleFindings(r, policies)
<1>1. found = {FindingFromPolicy(policies, code, Nothing) : code \in CheckRelease(r, policies)}
  BY DEF RuleFindings
<1>2. ASSUME NEW f \in found
      PROVE  f.code \in enabled \cup hidden
  <2>1. PICK code \in CheckRelease(r, policies) : f = FindingFromPolicy(policies, code, Nothing)
    BY <1>2 DEF RuleFindings
  <2>2. f.code = code
    BY <2>1 DEF FindingFromPolicy
  <2>3. f.code \in DOMAIN policies
    BY <1>2, RuleFinding
  <2>4. QED
    BY <2>1, <2>2, <2>3, OnlyHidden
<1>3. ASSUME r.status # "DRAFT", r.rules = RuleSetVersion(policies), ~r.overtaken
      PROVE  {f \in found : f.code \in enabled} = {f \in r.findings : f.other = Nothing /\ f.code \in enabled}
  <2>1. PICK R : /\ ArePolicies(R) /\ Older(R, policies) /\ r.rules = RuleSetVersion(R)
                 /\ RuleFindings(r, R) \subseteq r.findings
                 /\ \A f \in r.findings : f.other = Nothing => f \in RuleFindings(r, R)
    BY <1>3, ExistingKnown DEF IsChange, FromRules
  <2>2. RuleSetVersion(R) = RuleSetVersion(policies)
    BY <1>3, <2>1
  <2>3. \A f : f.code \in enabled => (f \in RuleFindings(r, R) <=> f \in found)
    BY <2>1, <2>2, SameVersionSameFindings
  <2>4. \A f \in found : f.other = Nothing
    BY RuleFinding
  <2> HIDE DEF r, enabled, found
  <2>5. QED
    BY <2>1, <2>3, <2>4
<1>4. QED
  BY <1>1, <1>2, <1>3

LEMMA DigestFollows ==
  ASSUME ChecksInv
  PROVE  DigestBinds
<1> SUFFICES ASSUME NEW c \in Existing, NEW in \in Inputs, Accepted(in)
    PROVE  LET r == changes[c]
               files == [artifacts |-> in.artifacts, sql |-> in.sql, rollback |-> in.rollback, plan |-> in.plan,
                         env |-> r.env, type |-> r.type]
               implied == in.sql # {} /\ ~HasKind(in.artifacts, "DATABASE")
               given == [i \in 1 .. Len(in.artifacts) |-> DefaultName(in.artifacts[i])]
                        \o IF implied THEN <<SQLArtifact(in.sql)>> ELSE <<>>
               handedIn == [i \in 1 .. Len(r.artifacts) |->
                              [kind |-> r.artifacts[i].kind, name |-> r.artifacts[i].name, content |-> r.artifacts[i].sha]]
               same == given = handedIn /\ <<in.sql, in.rollback, in.plan>> = <<r.sql, r.rollback, r.plan>>
           IN  DigestFromManifest(files) = r.digest <=> same
  BY DEF DigestBinds
<1>1. ContentOK(changes[c])
  BY ExistingKnown
<1>2. QED
  BY <1>1, DigestsBind DEF Files, Originals

LEMMA FlagsFollow ==
  ASSUME ChecksInv
  PROVE  StoredIsFlagged
<1>1. \A c \in Existing : \A i \in 1 .. Len(changes[c].artifacts) : StoredArtifact(changes[c].artifacts[i])
  BY ExistingKnown DEF ContentOK
<1>2. QED
  BY <1>1, ArtifactIsFlagged DEF StoredIsFlagged

\* However submissions, edits and changes of policies interleave, of two changes that
\* came through their checks one names the other, when their windows conflict
\* (releaseWindowFindings); the radar (conflict.Detect) agrees with the checks, and
\* it loses no conflict when a change becomes riskier or is observed longer.
THEOREM ConflictsAlwaysSeen == ChecksSpec => []ConflictsAreSeen
<1>1. ChecksInv => ConflictsAreSeen
  BY TypesFollow, ConflictsFollow, RadarFollows, RadarKeeps DEF ConflictsAreSeen
<1>2. QED
  BY <1>1, ChecksInvHolds, PTL

\* The version of the rules (RuleSetVersion) that a checked change carries determines
\* what the enabled policies find in its content (CheckReleaseWithPolicies), however
\* the other policies were created and edited since; a check that an edit of its
\* change overtook is excepted.
THEOREM RulesStayVersioned == ChecksSpec => []RulesAreVersioned
<1>1. ChecksInv => RulesAreVersioned
  BY VersionsFollow
<1>2. QED
  BY <1>1, ChecksInvHolds, PTL

\* The digest of a change (ChangeDigest over the artifacts' sums) is the one that CI
\* computes from a manifest exactly for the files that were handed in, and the rules
\* find in the redacted text what they find in the original.
THEOREM ContentStaysBound == ChecksSpec => []ContentIsBound
<1>1. ChecksInv => ContentIsBound
  BY DigestFollows, FlagsFollow DEF ContentIsBound
<1>2. QED
  BY <1>1, ChecksInvHolds, PTL
=============================================================================
