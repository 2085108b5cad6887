--------------------------- MODULE ExperimentOutbox ---------------------------
(***************************************************************************)
(* The transactional outbox that runs shadow experiments: queueing, lease  *)
(* claims with a generation as fencing token, checkpoints, FINALIZE,       *)
(* retries with back-off, dead letters, takeover of expired leases and     *)
(* recovery after a restart (internal/store/outbox.go and the worker of    *)
(* internal/service).                                                      *)
(*                                                                         *)
(* A worker makes one store call per action and holds no lock between      *)
(* them.  Deadlines are flags: "leased" is now < LockedUntil, "due" is     *)
(* now >= NextAttemptAt.  A successful renewal keeps a flag that is set    *)
(* and so is no step; a lease lapses when the renewal came too late.       *)
(* LockedBy is left out: a generation is claimed by one worker.  A result  *)
(* digest covers the report, which names its generation; the generation    *)
(* stands for it.  An attempt id is the generation that drew it.           *)
(***************************************************************************)
EXTENDS Naturals, Sequences, FiniteSets

CONSTANTS
  Artifacts,     \* digests of SQL content
  Events,        \* bound: outbox events that can be created
  Workers,
  Requests,      \* bound: calls of QueueExperiment at a time
  MaxAttempts,   \* attempts before an event is a dead letter
  MaxLapses,     \* bound: leases lost by a running worker
  MaxErrors,     \* bound: store calls of workers that fail
  MaxRestarts,   \* bound: restarts of the process
  MaxRetries,    \* bound: dead letters retried by an operator
  MaxEdits,      \* bound: edits of the change
  MaxSpent,      \* bound: all of these together
  None

ASSUME OutboxAssumption ==
  /\ MaxAttempts \in Nat \ {0}
  /\ Artifacts # {}
  /\ {MaxLapses, MaxErrors, MaxRestarts, MaxRetries, MaxEdits, MaxSpent} \subseteq Nat
  /\ None \notin Artifacts \cup Events

VARIABLES
  change,    \* status, content and stored report of the change
  events,    \* the outbox
  requests,  \* calls of QueueExperiment: the content each has read
  queued,    \* the events in the order they were appended
  workers,   \* what each worker does and the copy of the event it claimed
  reports,   \* history: every report FINALIZE stored, in order
  spent      \* the bounds used up

vars == <<change, events, requests, queued, workers, reports, spent>>

-----------------------------------------------------------------------------
\* A stage "UNSTAGED" is the empty one.
NoReport == [event |-> None, attempt |-> 0, gen |-> 0, trusted |-> FALSE]

NoEvent == [status |-> "NONE", attempts |-> 0, attempt |-> 0, gen |-> 0, stage |-> "UNSTAGED",
            input |-> None, digest |-> 0, leased |-> FALSE, due |-> FALSE]

Free == [pc |-> "idle", event |-> None, gen |-> 0, attempt |-> 0, input |-> None,
         finalized |-> FALSE, trusted |-> FALSE, cancelled |-> FALSE]

InExperiment == change.status \in {"EXPERIMENT_QUEUED", "EXPERIMENT_RUNNING"}

\* The fields of a new event, and of one whose attempt starts over.
Pending(input) == [NoEvent EXCEPT !.status = "PENDING", !.input = input, !.due = TRUE]

\* An event with a fresh identity: which of the unused ones makes no difference.
AppendEvent(input) ==
  LET e == CHOOSE e \in Events : events[e] = NoEvent IN
  /\ NoEvent \in {events[f] : f \in Events}
  /\ events' = [events EXCEPT ![e] = Pending(input)]
  /\ queued' = Append(queued, e)

StartedOver(ev) == [ev EXCEPT !.status = "PENDING", !.attempt = 0, !.stage = "UNSTAGED", !.digest = 0]

\* validOutboxLease, for the generation worker w claimed.
Holds(w) ==
  LET ev == events[workers[w].event] IN
  ev.status = "PROCESSING" /\ ev.gen = workers[w].gen /\ ev.leased

At(w, pc) == workers[w].pc = pc
Goto(w, pc) == workers' = [workers EXCEPT ![w] = [@ EXCEPT !.pc = pc]]
SetEvent(e, ev) == events' = [events EXCEPT ![e] = ev]
Spend(what) ==
  /\ spent.lapses + spent.errors + spent.restarts + spent.retries + spent.edits < MaxSpent
  /\ spent' = [spent EXCEPT ![what] = @ + 1]

Init ==
  /\ change = [status |-> "READY_FOR_EXPERIMENT", artifact |-> CHOOSE a \in Artifacts : TRUE,
               report |-> NoReport]
  /\ events = [e \in Events |-> NoEvent]
  /\ requests = [r \in Requests |-> None]
  /\ queued = << >>
  /\ workers = [w \in Workers |-> Free]
  /\ reports = << >>
  /\ spent = [lapses |-> 0, errors |-> 0, restarts |-> 0, retries |-> 0, edits |-> 0]

-----------------------------------------------------------------------------
(* Users and operators. *)

\* QueueExperiment reads the change, and later stores its new status and the
\* event together.  The event asks for the content that was read.
ReadForQueue(r) ==
  /\ change.status = "READY_FOR_EXPERIMENT"
  /\ requests[r] = None
  /\ requests' = [requests EXCEPT ![r] = change.artifact]
  /\ UNCHANGED <<change, events, queued, workers, reports, spent>>

Queue(r) ==
  /\ requests[r] \in Artifacts
  /\ change' = [change EXCEPT !.status = "EXPERIMENT_QUEUED"]
  /\ AppendEvent(requests[r])
  /\ requests' = [requests EXCEPT ![r] = None]
  /\ UNCHANGED <<workers, reports, spent>>

\* The change is edited (at any time: Update may commit late), or the same
\* content is submitted again, and passes its rule check: Update and Submit,
\* modelled in ChangeWorkflow.
Revise(a) ==
  /\ spent.edits < MaxEdits
  /\ change' = [status |-> "READY_FOR_EXPERIMENT", artifact |-> a, report |-> NoReport]
  /\ Spend("edits")
  /\ UNCHANGED <<events, queued, workers, reports, requests>>

RetryOutbox(e) ==
  /\ spent.retries < MaxRetries
  /\ events[e].status = "DEAD"
  /\ SetEvent(e, [StartedOver(events[e]) EXCEPT !.attempts = 0, !.due = TRUE])
  /\ Spend("retries")
  /\ UNCHANGED <<change, queued, workers, reports, requests>>

-----------------------------------------------------------------------------
(* A worker. *)

\* Mutant: nobody takes over an expired lease.
ClaimablePending(e) == events[e].status = "PENDING" /\ events[e].due

\* An event is open to a claim when it is pending, or its lease has run out.
Claimable(e) ==
  /\ events[e].status = "PENDING" \/ (events[e].status = "PROCESSING" /\ ~events[e].leased)
  /\ events[e].due

ClaimOutbox(w, e) ==
  LET ev == events[e]
      gen == ev.gen + 1
      attempt == IF ev.attempt = 0 THEN gen ELSE ev.attempt IN
  /\ At(w, "idle")
  /\ Claimable(e)
  /\ SetEvent(e, [ev EXCEPT !.status = "PROCESSING", !.attempts = @ + 1,
                            !.attempt = attempt, !.gen = gen, !.leased = TRUE,
                            !.stage = IF @ = "UNSTAGED" THEN "PREPARE" ELSE @])
  /\ workers' = [workers EXCEPT ![w] =
                   [Free EXCEPT !.pc = "read", !.event = e, !.gen = gen, !.attempt = attempt,
                                !.input = ev.input, !.finalized = ev.digest # 0]]
  /\ UNCHANGED <<change, queued, reports, spent, requests>>

\* Mutant: an event for other content is taken to be superseded.
ReadSuperseded(w) ==
  /\ At(w, "read")
  /\ Goto(w, IF \/ workers[w].input # change.artifact
                \/ workers[w].finalized \/ ~InExperiment THEN "complete"
             ELSE "prepare")
  /\ UNCHANGED <<change, events, queued, reports, spent, requests>>

\* runExperiment reads the change and compares it with the claimed copy.
ReadChange(w) ==
  /\ At(w, "read")
  /\ Goto(w, IF workers[w].input # change.artifact THEN "fail"
             ELSE IF workers[w].finalized \/ ~InExperiment THEN "complete"
             ELSE "prepare")
  /\ UNCHANGED <<change, events, queued, reports, spent, requests>>

\* CheckpointExperimentOutbox, on the way to the next step of the run.
Checkpoint(w, stage, next) ==
  /\ IF Holds(w)
     THEN /\ SetEvent(workers[w].event, [events[workers[w].event] EXCEPT !.stage = stage])
          /\ Goto(w, next)
     ELSE Goto(w, "fail") /\ UNCHANGED events
  /\ UNCHANGED <<change, queued, reports, spent, requests>>

CheckpointPrepare(w) == At(w, "prepare") /\ Checkpoint(w, "PREPARE", "start")

\* The UpdateChange that marks the change as running looks at the change only,
\* not at the lease.
StartRun(w) ==
  /\ At(w, "start")
  /\ IF change.artifact = workers[w].input /\ InExperiment
     THEN change' = [change EXCEPT !.status = "EXPERIMENT_RUNNING"] /\ Goto(w, "apply")
     ELSE UNCHANGED change /\ Goto(w, "fail")
  /\ UNCHANGED <<events, queued, reports, spent, requests>>

CheckpointApply(w) == At(w, "apply") /\ Checkpoint(w, "APPLY", "run")

\* The runner executes migration and rollback, the analyser is asked, and the
\* change is read again.  A lost lease has cancelled the context by then, or not.
Run(w, trusted) ==
  /\ At(w, "run")
  /\ workers' = [workers EXCEPT ![w] =
       IF workers[w].cancelled \/ workers[w].input # change.artifact
       THEN [@ EXCEPT !.pc = "fail"]
       ELSE [@ EXCEPT !.pc = "finalize", !.trusted = trusted]]
  /\ UNCHANGED <<change, events, queued, reports, spent, requests>>

ReportOf(w) == [event |-> workers[w].event, attempt |-> workers[w].attempt,
                gen |-> workers[w].gen, trusted |-> workers[w].trusted]

\* Mutant: FINALIZE without the lease.
FinalizeUnfenced(w) ==
  LET e == workers[w].event IN
  /\ At(w, "finalize")
  /\ IF events[e].digest = 0 /\ change.artifact = workers[w].input
     THEN /\ change' = [change EXCEPT
               !.report = ReportOf(w),
               !.status = IF workers[w].trusted THEN "WAITING_APPROVAL" ELSE "CHECK_FAILED"]
          /\ SetEvent(e, [events[e] EXCEPT !.digest = workers[w].gen, !.stage = "FINALIZE"])
          /\ reports' = Append(reports, ReportOf(w))
          /\ Goto(w, "complete")
     ELSE UNCHANGED <<change, events, reports>> /\ Goto(w, "fail")
  /\ UNCHANGED <<queued, spent, requests>>

\* FinalizeExperimentOutbox: report, status, digest and stage in one save.  No
\* caller repeats it, so the branch for an equal digest is not reached.
Finalize(w) ==
  LET e == workers[w].event IN
  /\ At(w, "finalize")
  /\ IF /\ Holds(w) /\ events[e].attempt = workers[w].attempt
        /\ events[e].input = workers[w].input
        /\ events[e].digest = 0
        /\ change.artifact = workers[w].input
     THEN /\ change' = [change EXCEPT
               !.report = ReportOf(w),
               !.status = IF workers[w].trusted THEN "WAITING_APPROVAL" ELSE "CHECK_FAILED"]
          /\ SetEvent(e, [events[e] EXCEPT !.digest = workers[w].gen, !.stage = "FINALIZE"])
          /\ reports' = Append(reports, ReportOf(w))
          /\ Goto(w, "complete")
     ELSE UNCHANGED <<change, events, reports>> /\ Goto(w, "fail")
  /\ UNCHANGED <<queued, spent, requests>>

Release(w) == workers' = [workers EXCEPT ![w] = Free]

CompleteOutbox(w) ==
  LET e == workers[w].event IN
  /\ At(w, "complete") /\ ~workers[w].cancelled
  /\ IF Holds(w)
     THEN SetEvent(e, [events[e] EXCEPT !.status = "COMPLETED", !.leased = FALSE])
     ELSE UNCHANGED events
  /\ Release(w)
  /\ UNCHANGED <<change, queued, reports, spent, requests>>

\* The run ended in an error, or its lease could not be renewed.
FailOutbox(w) ==
  LET ev == events[workers[w].event] IN
  /\ At(w, "fail") \/ (At(w, "complete") /\ workers[w].cancelled)
  /\ IF Holds(w)
     THEN SetEvent(workers[w].event,
            IF ev.attempts >= MaxAttempts
            THEN [ev EXCEPT !.status = "DEAD", !.leased = FALSE]
            ELSE [StartedOver(ev) EXCEPT !.leased = FALSE, !.due = FALSE])
     ELSE UNCHANGED events
  /\ Release(w)
  /\ UNCHANGED <<change, queued, reports, spent, requests>>

\* RenewOutbox fails because the lease is lost, or because the save failed; the
\* renewing goroutine cancels the run's context.  The run looks at it in these
\* two places only, however early it happened.
RenewFails(w) ==
  /\ workers[w].pc \in {"run", "complete"}
  /\ ~workers[w].cancelled
  /\ workers' = [workers EXCEPT ![w] = [@ EXCEPT !.cancelled = TRUE]]
  /\ UNCHANGED <<change, events, queued, reports, spent, requests>>

\* A store call cannot save and is rolled back.  Nobody looks at the error of the
\* last call.
CallFails(w) ==
  /\ workers[w].pc \notin {"idle", "read"}
  /\ spent.errors < MaxErrors
  /\ workers' = [workers EXCEPT ![w] =
       IF workers[w].pc \in {"complete", "fail"} THEN Free ELSE [@ EXCEPT !.pc = "fail"]]
  /\ Spend("errors")
  /\ UNCHANGED <<change, events, queued, reports, requests>>

-----------------------------------------------------------------------------
(* Time and failures. *)

\* Back-off has passed.
Due(e) ==
  /\ events[e].status = "PENDING" /\ ~events[e].due
  /\ SetEvent(e, [events[e] EXCEPT !.due = TRUE])
  /\ UNCHANGED <<change, queued, workers, reports, spent, requests>>

Held(e) == \E w \in Workers : workers[w].event = e /\ Holds(w)

\* A lease runs out: because nobody is left to renew it, or because its worker
\* was too slow to.
LapseOrphan(e) ==
  /\ events[e].status = "PROCESSING" /\ events[e].leased /\ ~Held(e)
  /\ SetEvent(e, [events[e] EXCEPT !.leased = FALSE])
  /\ UNCHANGED <<change, queued, workers, reports, spent, requests>>

LapseHeld(e) ==
  /\ Held(e)
  /\ spent.lapses < MaxLapses
  /\ SetEvent(e, [events[e] EXCEPT !.leased = FALSE])
  /\ Spend("lapses")
  /\ UNCHANGED <<change, queued, workers, reports, requests>>

\* EnsureExperimentOutbox appends an event only for a change nobody is to run.
Orphaned == InExperiment /\ \A e \in Events : events[e].status \in {"NONE", "COMPLETED", "DEAD"}

\* The process stops anywhere between two store calls and starts again.
Restart ==
  /\ spent.restarts < MaxRestarts
  /\ workers' = [w \in Workers |-> Free]
  /\ IF Orphaned
     THEN AppendEvent(change.artifact)
     ELSE UNCHANGED <<events, queued>>
  /\ Spend("restarts")
  /\ UNCHANGED <<change, reports, requests>>

-----------------------------------------------------------------------------
Step(w) ==
  \/ ReadChange(w)
  \/ CheckpointPrepare(w)
  \/ StartRun(w)
  \/ CheckpointApply(w)
  \/ \E trusted \in BOOLEAN : Run(w, trusted)
  \/ Finalize(w)
  \/ CompleteOutbox(w)
  \/ FailOutbox(w)

Claim(w) == \E e \in Events : ClaimOutbox(w, e)

Next ==
  \/ \E w \in Workers : Claim(w) \/ Step(w) \/ RenewFails(w) \/ CallFails(w)
  \/ \E r \in Requests : ReadForQueue(r) \/ Queue(r)
  \/ \E e \in Events : RetryOutbox(e) \/ Due(e) \/ LapseOrphan(e) \/ LapseHeld(e)
  \/ \E a \in Artifacts : Revise(a)
  \/ Restart

Spec == Init /\ [][Next]_vars

\* A worker loops over claims whenever it is woken or its ticker fires, every
\* store call returns, the runner works under a deadline, and time passes.
\* Users, operators and failures owe nothing.
Fairness ==
  /\ \A w \in Workers : WF_vars(Claim(w)) /\ WF_vars(Step(w))
  /\ \A e \in Events : WF_vars(Due(e)) /\ WF_vars(LapseOrphan(e))

FairSpec == Spec /\ Fairness

-----------------------------------------------------------------------------
(* Properties. *)

ReportRec == [event : Events \cup {None}, attempt : Nat, gen : Nat, trusted : BOOLEAN]

ChangeRec ==
  [status : {"READY_FOR_EXPERIMENT", "EXPERIMENT_QUEUED", "EXPERIMENT_RUNNING",
             "WAITING_APPROVAL", "CHECK_FAILED"},
   artifact : Artifacts, report : ReportRec]

EventRec ==
  [status : {"NONE", "PENDING", "PROCESSING", "COMPLETED", "DEAD"}, attempts : Nat,
   attempt : Nat, gen : Nat, stage : {"UNSTAGED", "PREPARE", "APPLY", "FINALIZE"},
   input : Artifacts \cup {None}, digest : Nat, leased : BOOLEAN, due : BOOLEAN]

WorkerRec ==
  [pc : {"idle", "read", "prepare", "start", "apply", "run", "finalize", "complete", "fail"},
   event : Events \cup {None}, gen : Nat, attempt : Nat, input : Artifacts \cup {None},
   finalized : BOOLEAN, trusted : BOOLEAN, cancelled : BOOLEAN]

\* The shapes of the stored event, of the worker's copy and of the reports; every
\* event says what to run, and a busy worker works on an event.
TypeOK ==
  /\ change \in ChangeRec
  /\ events \in [Events -> EventRec]
  /\ requests \in [Requests -> Artifacts \cup {None}]
  /\ \A e \in Events : events[e].status # "NONE" => events[e].input \in Artifacts
  /\ queued \in Seq(Events)
  /\ workers \in [Workers -> WorkerRec]
  /\ \A w \in Workers : workers[w].pc # "idle" => workers[w].event \in Events
  /\ reports \in Seq(ReportRec)
  /\ spent \in [{"lapses", "errors", "restarts", "retries", "edits"} -> Nat]

\* A change waiting for its experiment never waits in vain: the event queued
\* last is not COMPLETED, so a worker, a retry of the dead letter or a restart
\* will take it up.  Holds although a worker decides that there is nothing to do
\* before it completes the event, and however leases are lost in between.
NobodyWaitsInVain ==
  InExperiment => /\ queued # << >>
                  /\ events[queued[Len(queued)]].status # "COMPLETED"

\* Fencing: a report is stored by the latest generation of its event only,
\* whatever workers with older leases still do (architecture.md, FINALIZE).
FencedReports ==
  [][\A i \in DOMAIN reports' \ DOMAIN reports :
       reports'[i].gen = events[reports'[i].event].gen]_vars

\* One business attempt stores one report: a takeover keeps the attempt id and
\* completes the envelope, a new attempt draws a new id.
OneReportPerAttempt ==
  \A i, k \in DOMAIN reports :
    reports[i].event = reports[k].event /\ reports[i].attempt = reports[k].attempt => i = k

\* Every event is settled, by completion or as a dead letter, whatever leases,
\* runs and processes are lost a bounded number of times.
EventsSettle ==
  \A e \in Events : events[e].status \in {"PENDING", "PROCESSING"} ~>
                      events[e].status \in {"COMPLETED", "DEAD"}

\* A queued experiment gets its answer, unless its event ended as a dead letter.
ExperimentAnswered ==
  InExperiment ~> \/ ~InExperiment
                  \/ events[queued[Len(queued)]].status = "DEAD"

\* Nothing that was queued is forgotten: events settle and experiments are answered.
WorkSettles == EventsSettle /\ ExperimentAnswered

\* Generations and attempts only move forward: a lease's generation is at most that of
\* its event, an attempt is at most the generation that drew it, and the event of a
\* stored report is past that attempt or knows that the attempt has reported.
Generations ==
  /\ \A e \in Events : events[e].attempt <= events[e].gen
  /\ \A w \in Workers : ~At(w, "idle") =>
       /\ 0 < workers[w].gen /\ 0 < workers[w].attempt
       /\ workers[w].gen <= events[workers[w].event].gen
       /\ events[workers[w].event].status # "NONE"
  /\ \A i \in DOMAIN reports :
       LET ev == events[reports[i].event] IN
       /\ reports[i].event \in Events
       /\ 0 < reports[i].attempt /\ reports[i].attempt <= ev.gen
       /\ reports[i].attempt = ev.attempt => ev.digest # 0

\* The generation w claimed is the one that is under way, its lease run out or not.
Current(w) ==
  LET ev == events[workers[w].event] IN
  ev.status = "PROCESSING" /\ ev.gen = workers[w].gen

\* The event that is to serve the change: the one queued last.
Serves(e) == queued # << >> /\ e = queued[Len(queued)]

\* Whoever is about to complete the event that is to serve the change knows that the
\* change waits no more: its report is stored, or it waited no more at the read.
CompletedIsServed ==
  /\ \A e \in Events : Serves(e) /\ events[e].digest # 0 => ~InExperiment
  /\ \A w \in Workers : ~At(w, "idle") /\ Current(w) =>
       /\ workers[w].finalized => events[workers[w].event].digest # 0
       /\ At(w, "complete") /\ Serves(workers[w].event) => ~InExperiment

\* What every step of workers, users and operators keeps: the shapes, an event that
\* serves a waiting change, one report per attempt, and what these two rest on.
OutboxInv ==
  TypeOK /\ NobodyWaitsInVain /\ OneReportPerAttempt /\ Generations /\ CompletedIsServed
=============================================================================
