----------------------------- MODULE OutboxProofs -----------------------------
(***************************************************************************)
(* Proofs about ExperimentOutbox, for any number of workers, events,       *)
(* requests, attempts and failures.                                        *)
(***************************************************************************)
EXTENDS ExperimentOutbox, SequenceTheorems, TLAPS

-----------------------------------------------------------------------------
(* Shapes. *)

Pcs == {"idle", "read", "prepare", "start", "apply", "run", "finalize", "complete", "fail"}

\* What is written to a worker is one.
LEMMA WorkerShapes ==
  /\ Free \in WorkerRec
  /\ \A k \in WorkerRec, pc \in Pcs : [k EXCEPT !.pc = pc] \in WorkerRec
  /\ \A k \in WorkerRec, t \in BOOLEAN :
       [k EXCEPT !.pc = "finalize", !.trusted = t] \in WorkerRec
  /\ \A k \in WorkerRec : [k EXCEPT !.cancelled = TRUE] \in WorkerRec
  /\ \A e \in Events, g \in Nat, a \in Nat, x \in Artifacts, f \in BOOLEAN :
       [Free EXCEPT !.pc = "read", !.event = e, !.gen = g, !.attempt = a,
                    !.input = x, !.finalized = f] \in WorkerRec
BY DEF WorkerRec, Free, Pcs

\* What is written to an event is one.
LEMMA EventShapes ==
  /\ NoEvent \in EventRec
  /\ \A x \in Artifacts : Pending(x) \in EventRec
  /\ \A ev \in EventRec :
       /\ StartedOver(ev) \in EventRec
       /\ [StartedOver(ev) EXCEPT !.attempts = 0, !.due = TRUE] \in EventRec
       /\ [StartedOver(ev) EXCEPT !.leased = FALSE, !.due = FALSE] \in EventRec
       /\ [ev EXCEPT !.status = "COMPLETED", !.leased = FALSE] \in EventRec
       /\ [ev EXCEPT !.status = "DEAD", !.leased = FALSE] \in EventRec
       /\ [ev EXCEPT !.leased = FALSE] \in EventRec
       /\ [ev EXCEPT !.due = TRUE] \in EventRec
       /\ \A g \in Nat : [ev EXCEPT !.digest = g, !.stage = "FINALIZE"] \in EventRec
       /\ \A s \in {"PREPARE", "APPLY"} : [ev EXCEPT !.stage = s] \in EventRec
BY DEF EventRec, NoEvent, Pending, StartedOver

\* The claim of an event, and the report of a worker.
LEMMA ClaimShapes ==
  ASSUME NEW ev \in EventRec, NEW g \in Nat, NEW a \in Nat
  PROVE  [ev EXCEPT !.status = "PROCESSING", !.attempts = @ + 1, !.attempt = a,
                    !.gen = g, !.leased = TRUE,
                    !.stage = IF @ = "UNSTAGED" THEN "PREPARE" ELSE @] \in EventRec
<1>1. ev.attempts + 1 \in Nat
  BY DEF EventRec
<1>2. (IF ev.stage = "UNSTAGED" THEN "PREPARE" ELSE ev.stage) \in {"UNSTAGED", "PREPARE", "APPLY", "FINALIZE"}
  BY DEF EventRec
<1>3. QED
  BY <1>1, <1>2 DEF EventRec

LEMMA ReportShape ==
  ASSUME TypeOK, NEW w \in Workers
  PROVE  ReportOf(w) \in ReportRec
BY DEF TypeOK, WorkerRec, ReportRec, ReportOf

\* The counters of failures stay counters.
LEMMA SpentCounts ==
  ASSUME TypeOK, NEW what \in {"lapses", "errors", "restarts", "retries", "edits"}, Spend(what)
  PROVE  spent' \in [{"lapses", "errors", "restarts", "retries", "edits"} -> Nat]
BY DEF TypeOK, Spend

\* A worker that moves on stays a worker on the same event.
LEMMA WorkerMoves ==
  ASSUME TypeOK, NEW w \in Workers, NEW k \in WorkerRec,
         k.pc # "idle" => k.event \in Events,
         workers' = [workers EXCEPT ![w] = k]
  PROVE  /\ workers' \in [Workers -> WorkerRec]
         /\ \A v \in Workers : workers'[v].pc # "idle" => workers'[v].event \in Events
BY DEF TypeOK

LEMMA WorkerGoes ==
  ASSUME TypeOK, NEW w \in Workers, ~At(w, "idle"), NEW pc \in Pcs, Goto(w, pc)
  PROVE  /\ workers' \in [Workers -> WorkerRec]
         /\ \A v \in Workers : workers'[v].pc # "idle" => workers'[v].event \in Events
<1> DEFINE k == [workers[w] EXCEPT !.pc = pc]
<1>0. workers[w] \in WorkerRec
  BY DEF TypeOK
<1>1. k \in WorkerRec
  BY <1>0, WorkerShapes
<1>e. k.event = workers[w].event
  BY <1>0 DEF WorkerRec
<1>2. workers' = [workers EXCEPT ![w] = k]
  BY DEF Goto, TypeOK
<1> HIDE DEF k
<1>3. QED
  BY <1>1, <1>e, <1>2, WorkerMoves DEF At, TypeOK

LEMMA WorkerReleased ==
  ASSUME TypeOK, NEW w \in Workers, Release(w)
  PROVE  /\ workers' \in [Workers -> WorkerRec]
         /\ \A v \in Workers : workers'[v].pc # "idle" => workers'[v].event \in Events
BY WorkerShapes, WorkerMoves DEF Release, Free

\* An event that is rewritten stays an event with its content.
LEMMA EventSet ==
  ASSUME TypeOK, NEW e \in Events, NEW ev \in EventRec,
         ev.input = events[e].input, events[e].status # "NONE",
         SetEvent(e, ev)
  PROVE  /\ events' \in [Events -> EventRec]
         /\ \A f \in Events : events'[f].status # "NONE" => events'[f].input \in Artifacts
BY DEF TypeOK, SetEvent

\* AppendEvent uses an event that was not used before, and puts it last.
LEMMA Appended ==
  ASSUME TypeOK, NEW x \in Artifacts, AppendEvent(x)
  PROVE  \E e \in Events :
           /\ events[e] = NoEvent
           /\ events' = [events EXCEPT ![e] = Pending(x)]
           /\ queued' = Append(queued, e)
           /\ queued' \in Seq(Events) /\ queued' # << >> /\ queued'[Len(queued')] = e
<1> DEFINE e == CHOOSE e \in Events : events[e] = NoEvent
<1>1. \E f \in Events : events[f] = NoEvent
  BY DEF AppendEvent
<1>2. e \in Events /\ events[e] = NoEvent
  BY <1>1
<1>3. events' = [events EXCEPT ![e] = Pending(x)] /\ queued' = Append(queued, e)
  BY DEF AppendEvent
<1> HIDE DEF e
<1>4. queued \in Seq(Events)
  BY DEF TypeOK
<1>5. queued' \in Seq(Events) /\ queued' # << >> /\ queued'[Len(queued')] = e
  BY <1>2, <1>3, <1>4
<1>6. QED
  BY <1>2, <1>3, <1>5

LEMMA AppendedTypes ==
  ASSUME TypeOK, NEW x \in Artifacts, AppendEvent(x)
  PROVE  /\ events' \in [Events -> EventRec]
         /\ \A f \in Events : events'[f].status # "NONE" => events'[f].input \in Artifacts
         /\ queued' \in Seq(Events)
<1>1. PICK e \in Events : /\ events' = [events EXCEPT ![e] = Pending(x)]
                          /\ queued' \in Seq(Events)
  BY Appended
<1>2. Pending(x) \in EventRec /\ Pending(x).input \in Artifacts
  BY EventShapes DEF Pending, NoEvent
<1>3. QED
  BY <1>1, <1>2 DEF TypeOK

-----------------------------------------------------------------------------
(* Types. *)

\* Whoever holds a lease works on an event that exists.
LEMMA HeldExists ==
  ASSUME TypeOK, NEW w \in Workers, ~At(w, "idle")
  PROVE  /\ workers[w] \in WorkerRec /\ workers[w].event \in Events
         /\ events[workers[w].event] \in EventRec
         /\ Holds(w) => events[workers[w].event].status # "NONE"
BY DEF TypeOK, At, Holds

\* A change that moves on stays one.
LEMMA ChangeShapes ==
  ASSUME TypeOK
  PROVE  /\ \A s \in {"EXPERIMENT_QUEUED", "EXPERIMENT_RUNNING"} :
              [change EXCEPT !.status = s] \in ChangeRec
         /\ \A s \in {"WAITING_APPROVAL", "CHECK_FAILED"}, r \in ReportRec :
              [change EXCEPT !.report = r, !.status = s] \in ChangeRec
         /\ \A a \in Artifacts :
              [status |-> "READY_FOR_EXPERIMENT", artifact |-> a, report |-> NoReport] \in ChangeRec
<1>1. change \in ChangeRec
  BY DEF TypeOK
<1>2. NoReport \in ReportRec
  BY DEF NoReport, ReportRec
<1>3. QED
  BY <1>1, <1>2 DEF ChangeRec

LEMMA InitTypes == Init => TypeOK
<1> SUFFICES ASSUME Init
             PROVE  TypeOK
  OBVIOUS
<1>1. (CHOOSE a \in Artifacts : TRUE) \in Artifacts
  BY OutboxAssumption
<1>2. NoReport \in ReportRec
  BY DEF NoReport, ReportRec
<1>3. change \in ChangeRec
  BY <1>1, <1>2 DEF Init, ChangeRec
<1>4. /\ events \in [Events -> EventRec]
      /\ \A e \in Events : events[e].status = "NONE"
  BY EventShapes DEF Init, NoEvent
<1>5. /\ workers \in [Workers -> WorkerRec]
      /\ \A w \in Workers : workers[w].pc = "idle"
  BY WorkerShapes DEF Init, Free
<1>6. requests \in [Requests -> Artifacts \cup {None}] /\ queued \in Seq(Events)
      /\ reports \in Seq(ReportRec)
  BY DEF Init
<1>7. spent \in [{"lapses", "errors", "restarts", "retries", "edits"} -> Nat]
  BY DEF Init
<1>8. QED
  BY <1>3, <1>4, <1>5, <1>6, <1>7 DEF TypeOK

\* Every step keeps the shapes.
LEMMA TypeStep ==
  ASSUME TypeOK, [Next]_vars
  PROVE  TypeOK'
<1>1. ASSUME NEW w \in Workers, NEW e \in Events, ClaimOutbox(w, e)
      PROVE  TypeOK'
  <2> DEFINE g == events[e].gen + 1
             a == IF events[e].attempt = 0 THEN g ELSE events[e].attempt
             f == events[e].digest # 0
             ev == [events[e] EXCEPT !.status = "PROCESSING", !.attempts = @ + 1,
                            !.attempt = a, !.gen = g, !.leased = TRUE,
                            !.stage = IF @ = "UNSTAGED" THEN "PREPARE" ELSE @]
             k == [Free EXCEPT !.pc = "read", !.event = e, !.gen = g, !.attempt = a,
                               !.input = events[e].input, !.finalized = f]
  <2>1. events[e] \in EventRec /\ events[e].status # "NONE" /\ events[e].input \in Artifacts
    BY <1>1 DEF ClaimOutbox, Claimable, TypeOK
  <2>2. g \in Nat /\ a \in Nat /\ f \in BOOLEAN
    BY <2>1 DEF EventRec
  <2>3. SetEvent(e, ev) /\ workers' = [workers EXCEPT ![w] = k]
    BY <1>1 DEF ClaimOutbox
  <2> HIDE DEF g, a, f
  <2>4. ev \in EventRec
    BY <2>1, <2>2, ClaimShapes
  <2>5. ev.input = events[e].input
    BY <2>1 DEF EventRec
  <2>6. k \in WorkerRec
    BY <2>1, <2>2, WorkerShapes
  <2>7. k.event = e
    BY DEF Free
  <2> HIDE DEF ev, k
  <2>8. QED
    BY <1>1, <2>1, <2>3, <2>4, <2>5, <2>6, <2>7, EventSet, WorkerMoves DEF ClaimOutbox, TypeOK
<1>2. ASSUME NEW w \in Workers, ReadChange(w)
      PROVE  TypeOK'
  BY <1>2, WorkerGoes DEF ReadChange, At, Pcs, TypeOK
<1>3. ASSUME NEW w \in Workers, NEW s \in {"PREPARE", "APPLY"}, NEW n \in {"start", "run"},
             ~At(w, "idle"), Checkpoint(w, s, n)
      PROVE  TypeOK'
  <2>1. /\ workers' \in [Workers -> WorkerRec]
        /\ \A v \in Workers : workers'[v].pc # "idle" => workers'[v].event \in Events
    BY <1>3, WorkerGoes DEF Checkpoint, Pcs
  <2>2. /\ events' \in [Events -> EventRec]
        /\ \A f \in Events : events'[f].status # "NONE" => events'[f].input \in Artifacts
    <3> DEFINE e == workers[w].event
               ev == [events[e] EXCEPT !.stage = s]
    <3>1. CASE Holds(w)
      <4>1. e \in Events /\ events[e] \in EventRec /\ events[e].status # "NONE"
        BY <1>3, <3>1, HeldExists
      <4>2. ev \in EventRec
        BY <4>1, EventShapes
      <4>3. ev.input = events[e].input
        BY <4>1 DEF EventRec
      <4>4. SetEvent(e, ev)
        BY <1>3, <3>1 DEF Checkpoint
      <4> HIDE DEF e, ev
      <4>5. QED
        BY <4>1, <4>2, <4>3, <4>4, EventSet
    <3>2. CASE ~Holds(w)
      BY <1>3, <3>2 DEF Checkpoint, TypeOK
    <3>3. QED
      BY <3>1, <3>2
  <2>3. QED
    BY <1>3, <2>1, <2>2 DEF Checkpoint, TypeOK
<1>4. ASSUME NEW w \in Workers, StartRun(w)
      PROVE  TypeOK'
  <2>1. /\ workers' \in [Workers -> WorkerRec]
        /\ \A v \in Workers : workers'[v].pc # "idle" => workers'[v].event \in Events
    BY <1>4, WorkerGoes DEF StartRun, At, Pcs
  <2>2. change' \in ChangeRec
    BY <1>4, ChangeShapes DEF StartRun, TypeOK
  <2>3. QED
    BY <1>4, <2>1, <2>2 DEF StartRun, TypeOK
<1>5. ASSUME NEW w \in Workers, NEW t \in BOOLEAN, Run(w, t)
      PROVE  TypeOK'
  <2>1. workers[w] \in WorkerRec /\ workers[w].event \in Events
    BY <1>5 DEF Run, At, TypeOK
  <2> DEFINE k == IF workers[w].cancelled \/ workers[w].input # change.artifact
                  THEN [workers[w] EXCEPT !.pc = "fail"]
                  ELSE [workers[w] EXCEPT !.pc = "finalize", !.trusted = t]
  <2>2. k \in WorkerRec
    BY <2>1, WorkerShapes DEF Pcs
  <2>3. k.event = workers[w].event
    BY <2>1 DEF WorkerRec
  <2>4. workers' = [workers EXCEPT ![w] = k]
    BY <1>5 DEF Run, TypeOK
  <2> HIDE DEF k
  <2>5. QED
    BY <1>5, <2>1, <2>2, <2>3, <2>4, WorkerMoves DEF Run, TypeOK
<1>6. ASSUME NEW w \in Workers, Finalize(w)
      PROVE  TypeOK'
  <2>1. ~At(w, "idle")
    BY <1>6 DEF Finalize, At
  <2>2. /\ workers' \in [Workers -> WorkerRec]
        /\ \A v \in Workers : workers'[v].pc # "idle" => workers'[v].event \in Events
    BY <1>6, <2>1, WorkerGoes DEF Finalize, Pcs
  <2>3. CASE UNCHANGED <<change, events, reports>>
    BY <1>6, <2>2, <2>3 DEF Finalize, TypeOK
  <2>4. CASE ~UNCHANGED <<change, events, reports>>
    <3> DEFINE e == workers[w].event
               ev == [events[e] EXCEPT !.digest = workers[w].gen, !.stage = "FINALIZE"]
               s == IF workers[w].trusted THEN "WAITING_APPROVAL" ELSE "CHECK_FAILED"
    <3>1. /\ Holds(w)
          /\ change' = [change EXCEPT !.report = ReportOf(w), !.status = s]
          /\ SetEvent(e, ev)
          /\ reports' = Append(reports, ReportOf(w))
      BY <1>6, <2>4 DEF Finalize
    <3>2. s \in {"WAITING_APPROVAL", "CHECK_FAILED"}
      OBVIOUS
    <3> HIDE DEF s
    <3>3. change' \in ChangeRec
      BY <3>1, <3>2, ReportShape, ChangeShapes
    <3>4. reports' \in Seq(ReportRec)
      BY <3>1, ReportShape DEF TypeOK
    <3>5. e \in Events /\ events[e] \in EventRec /\ events[e].status # "NONE" /\ workers[w].gen \in Nat
      BY <2>1, <3>1, HeldExists DEF WorkerRec
    <3>6. ev \in EventRec
      BY <3>5, EventShapes
    <3>7. ev.input = events[e].input
      BY <3>5 DEF EventRec
    <3> HIDE DEF e, ev
    <3>8. /\ events' \in [Events -> EventRec]
          /\ \A f \in Events : events'[f].status # "NONE" => events'[f].input \in Artifacts
      BY <3>1, <3>5, <3>6, <3>7, EventSet
    <3>9. QED
      BY <1>6, <2>2, <3>3, <3>4, <3>8 DEF Finalize, TypeOK
  <2>5. QED
    BY <2>3, <2>4
<1>7. ASSUME NEW w \in Workers, CompleteOutbox(w) \/ FailOutbox(w)
      PROVE  TypeOK'
  <2> DEFINE e == workers[w].event
  <2>1. ~At(w, "idle")
    BY <1>7 DEF CompleteOutbox, FailOutbox, At
  <2>2. /\ workers' \in [Workers -> WorkerRec]
        /\ \A v \in Workers : workers'[v].pc # "idle" => workers'[v].event \in Events
    BY <1>7, WorkerReleased DEF CompleteOutbox, FailOutbox
  <2>3. /\ events' \in [Events -> EventRec]
        /\ \A f \in Events : events'[f].status # "NONE" => events'[f].input \in Artifacts
    <3>1. CASE ~Holds(w)
      BY <1>7, <3>1 DEF CompleteOutbox, FailOutbox, TypeOK
    <3>2. CASE Holds(w)
      <4>1. e \in Events /\ events[e] \in EventRec /\ events[e].status # "NONE"
        BY <2>1, <3>2, HeldExists
      <4>2. \E ev \in {[events[e] EXCEPT !.status = "COMPLETED", !.leased = FALSE],
                       [events[e] EXCEPT !.status = "DEAD", !.leased = FALSE],
                       [StartedOver(events[e]) EXCEPT !.leased = FALSE, !.due = FALSE]} :
              SetEvent(e, ev)
        BY <1>7, <3>2 DEF CompleteOutbox, FailOutbox
      <4>3. \A ev \in {[events[e] EXCEPT !.status = "COMPLETED", !.leased = FALSE],
                       [events[e] EXCEPT !.status = "DEAD", !.leased = FALSE],
                       [StartedOver(events[e]) EXCEPT !.leased = FALSE, !.due = FALSE]} :
              ev \in EventRec
        BY <4>1, EventShapes
      <4>4. \A ev \in {[events[e] EXCEPT !.status = "COMPLETED", !.leased = FALSE],
                       [events[e] EXCEPT !.status = "DEAD", !.leased = FALSE],
                       [StartedOver(events[e]) EXCEPT !.leased = FALSE, !.due = FALSE]} :
              ev.input = events[e].input
        BY <4>1 DEF EventRec, StartedOver
      <4> HIDE DEF e
      <4>5. QED
        BY <4>1, <4>2, <4>3, <4>4, EventSet
    <3>3. QED
      BY <3>1, <3>2
  <2>4. QED
    BY <1>7, <2>2, <2>3 DEF CompleteOutbox, FailOutbox, TypeOK
<1>8. ASSUME NEW w \in Workers, RenewFails(w)
      PROVE  TypeOK'
  <2>1. workers[w] \in WorkerRec /\ workers[w].event \in Events
    BY <1>8 DEF RenewFails, TypeOK
  <2> DEFINE k == [workers[w] EXCEPT !.cancelled = TRUE]
  <2>2. k \in WorkerRec
    BY <2>1, WorkerShapes
  <2>3. k.event = workers[w].event
    BY <2>1 DEF WorkerRec
  <2>4. workers' = [workers EXCEPT ![w] = k]
    BY <1>8 DEF RenewFails, TypeOK
  <2> HIDE DEF k
  <2>5. QED
    BY <1>8, <2>1, <2>2, <2>3, <2>4, WorkerMoves DEF RenewFails, TypeOK
<1>9. ASSUME NEW w \in Workers, CallFails(w)
      PROVE  TypeOK'
  <2>1. Release(w) \/ Goto(w, "fail")
    BY <1>9 DEF CallFails, Release, Goto, TypeOK
  <2>2. /\ workers' \in [Workers -> WorkerRec]
        /\ \A v \in Workers : workers'[v].pc # "idle" => workers'[v].event \in Events
    BY <1>9, <2>1, WorkerReleased, WorkerGoes DEF CallFails, At, Pcs
  <2>3. QED
    BY <1>9, <2>2, SpentCounts DEF CallFails, TypeOK
<1>10. ASSUME NEW r \in Requests, ReadForQueue(r)
       PROVE  TypeOK'
  <2>1. change.artifact \in Artifacts
    BY DEF TypeOK, ChangeRec
  <2>2. QED
    BY <1>10, <2>1 DEF ReadForQueue, TypeOK
<1>11. ASSUME NEW r \in Requests, Queue(r)
       PROVE  TypeOK'
  <2>1. /\ events' \in [Events -> EventRec]
        /\ \A f \in Events : events'[f].status # "NONE" => events'[f].input \in Artifacts
        /\ queued' \in Seq(Events)
    BY <1>11, AppendedTypes DEF Queue
  <2>2. change' \in ChangeRec
    BY <1>11, ChangeShapes DEF Queue
  <2>3. QED
    BY <1>11, <2>1, <2>2 DEF Queue, TypeOK
<1>12. ASSUME NEW a \in Artifacts, Revise(a)
       PROVE  TypeOK'
  <2>1. change' \in ChangeRec
    BY <1>12, ChangeShapes DEF Revise
  <2>2. QED
    BY <1>12, <2>1, SpentCounts DEF Revise, TypeOK
<1>13. ASSUME NEW e \in Events, RetryOutbox(e) \/ Due(e) \/ LapseOrphan(e) \/ LapseHeld(e)
       PROVE  TypeOK'
  <2> DEFINE Over == [StartedOver(events[e]) EXCEPT !.attempts = 0, !.due = TRUE]
             Evs == {Over, [events[e] EXCEPT !.due = TRUE], [events[e] EXCEPT !.leased = FALSE]}
  <2>1. events[e] \in EventRec
    BY DEF TypeOK
  <2>2. events[e].status # "NONE"
    BY <1>13 DEF RetryOutbox, Due, LapseOrphan, LapseHeld, Held, Holds
  <2>3. \E ev \in Evs : SetEvent(e, ev)
    BY <1>13 DEF RetryOutbox, Due, LapseOrphan, LapseHeld
  <2>4. \A ev \in Evs : ev \in EventRec
    BY <2>1, EventShapes
  <2>5. \A ev \in Evs : ev.input = events[e].input
    BY <2>1 DEF EventRec, StartedOver
  <2> HIDE DEF Evs
  <2>6. /\ events' \in [Events -> EventRec]
        /\ \A f \in Events : events'[f].status # "NONE" => events'[f].input \in Artifacts
    BY <2>2, <2>3, <2>4, <2>5, EventSet
  <2>7. spent' \in [{"lapses", "errors", "restarts", "retries", "edits"} -> Nat]
    BY <1>13, SpentCounts DEF RetryOutbox, Due, LapseOrphan, LapseHeld, TypeOK
  <2>8. QED
    BY <1>13, <2>6, <2>7 DEF RetryOutbox, Due, LapseOrphan, LapseHeld, TypeOK
<1>14. ASSUME Restart
       PROVE  TypeOK'
  <2>1. change.artifact \in Artifacts
    BY DEF TypeOK, ChangeRec
  <2>2. /\ events' \in [Events -> EventRec]
        /\ \A f \in Events : events'[f].status # "NONE" => events'[f].input \in Artifacts
        /\ queued' \in Seq(Events)
    BY <1>14, <2>1, AppendedTypes DEF Restart, TypeOK
  <2>3. /\ workers' \in [Workers -> WorkerRec]
        /\ \A w \in Workers : workers'[w].pc = "idle"
    BY <1>14, WorkerShapes DEF Restart, Free
  <2>4. QED
    BY <1>14, <2>2, <2>3, SpentCounts DEF Restart, TypeOK
<1>15. CASE UNCHANGED vars
  BY <1>15 DEF vars, TypeOK
<1>16. ASSUME NEW w \in Workers, CheckpointPrepare(w) \/ CheckpointApply(w)
       PROVE  TypeOK'
  BY <1>16, <1>3 DEF CheckpointPrepare, CheckpointApply, At
<1>17. QED
  BY <1>1, <1>2, <1>4, <1>5, <1>6, <1>7, <1>8, <1>9, <1>10, <1>11, <1>12, <1>13, <1>14,
     <1>15, <1>16 DEF Next, Claim, Step

-----------------------------------------------------------------------------
(* The safety invariant. *)

\* What most steps do to an event: its generation stays, it is not taken into
\* processing, its attempt and its digest stay or are both given up, and it is only
\* completed when nobody waits for it.
EventKept(f) ==
  /\ events'[f].gen = events[f].gen
  /\ \/ events'[f].attempt = events[f].attempt /\ events'[f].digest = events[f].digest
     \/ events'[f].attempt = 0 /\ events'[f].digest = 0 /\ events'[f].status # "PROCESSING"
  /\ events'[f].status = "PROCESSING" => events[f].status = "PROCESSING"
  /\ events'[f].status = "NONE" => events[f].status = "NONE"
  /\ events'[f].status = "COMPLETED" /\ Serves(f) /\ InExperiment => events[f].status = "COMPLETED"

\* What most steps do to a worker: it is released, or keeps its copy of the event and
\* is only sent to complete the event when nobody waits for it.
WorkerKept(v) ==
  \/ At(v, "idle")'
  \/ /\ ~At(v, "idle")
     /\ workers'[v].event = workers[v].event
     /\ workers'[v].gen = workers[v].gen
     /\ workers'[v].attempt = workers[v].attempt
     /\ workers'[v].finalized = workers[v].finalized
     /\ At(v, "complete")' =>
          At(v, "complete") \/ (Current(v) /\ Serves(workers[v].event) => ~InExperiment)

\* A step that only keeps events and workers keeps the invariant.
LEMMA KeptSteps ==
  ASSUME OutboxInv, TypeOK', queued' = queued, reports' = reports,
         InExperiment' => InExperiment,
         \A f \in Events : EventKept(f), \A v \in Workers : WorkerKept(v)
  PROVE  OutboxInv'
<1>t. TypeOK
  BY DEF OutboxInv
<1>1. NobodyWaitsInVain'
  <2> SUFFICES ASSUME InExperiment'
               PROVE  queued' # << >> /\ events'[queued'[Len(queued')]].status # "COMPLETED"
    BY DEF NobodyWaitsInVain
  <2> DEFINE e == queued[Len(queued)]
  <2>1. queued # << >> /\ events[e].status # "COMPLETED"
    BY DEF OutboxInv, NobodyWaitsInVain
  <2>2. e \in Events
    BY <1>t, <2>1 DEF TypeOK
  <2>3. Serves(e)
    BY <2>1 DEF Serves
  <2> HIDE DEF e
  <2>4. events'[e].status # "COMPLETED"
    BY <2>1, <2>2, <2>3 DEF EventKept
  <2>5. QED
    BY <2>1, <2>4 DEF e
<1>2. OneReportPerAttempt'
  BY DEF OutboxInv, OneReportPerAttempt
<1>3. Generations'
  <2>1. ASSUME NEW e \in Events
        PROVE  events'[e].attempt <= events'[e].gen
    <3>1. events[e] \in EventRec /\ events[e].attempt <= events[e].gen
      BY <1>t DEF OutboxInv, Generations, TypeOK
    <3>2. events[e].gen \in Nat
      BY <3>1 DEF EventRec
    <3>3. QED
      BY <3>1, <3>2 DEF EventKept
  <2>2. ASSUME NEW w \in Workers, ~At(w, "idle")'
        PROVE  /\ 0 < workers'[w].gen /\ 0 < workers'[w].attempt
               /\ workers'[w].gen <= events'[workers'[w].event].gen
               /\ events'[workers'[w].event].status # "NONE"
    BY <1>t, <2>2 DEF OutboxInv, Generations, EventKept, WorkerKept, TypeOK, At
  <2>3. ASSUME NEW i \in DOMAIN reports
        PROVE  /\ reports[i].event \in Events
               /\ 0 < reports[i].attempt /\ reports[i].attempt <= events'[reports[i].event].gen
               /\ reports[i].attempt = events'[reports[i].event].attempt
                    => events'[reports[i].event].digest # 0
    <3>1. /\ reports[i].event \in Events
          /\ 0 < reports[i].attempt /\ reports[i].attempt <= events[reports[i].event].gen
          /\ reports[i].attempt = events[reports[i].event].attempt
                    => events[reports[i].event].digest # 0
      BY <2>3 DEF OutboxInv, Generations
    <3>2. QED
      BY <3>1 DEF EventKept
  <2>4. QED
    BY <2>1, <2>2, <2>3 DEF Generations
<1>4. CompletedIsServed'
  <2>1. ASSUME NEW e \in Events, Serves(e)', events'[e].digest # 0
        PROVE  ~InExperiment'
    <3>1. Serves(e)
      BY <2>1 DEF Serves
    <3>2. QED
      BY <2>1, <3>1 DEF OutboxInv, CompletedIsServed, EventKept
  <2>2. ASSUME NEW w \in Workers, ~At(w, "idle")', Current(w)'
        PROVE  /\ workers'[w].finalized => events'[workers'[w].event].digest # 0
               /\ At(w, "complete")' /\ Serves(workers[w].event)' => ~InExperiment'
    <3> DEFINE e == workers[w].event
    <3>1. ~At(w, "idle") /\ e \in Events
      BY <1>t, <2>2 DEF WorkerKept, TypeOK, At
    <3>2. EventKept(e) /\ WorkerKept(w) /\ workers'[w].event = e
      BY <2>2, <3>1 DEF WorkerKept
    <3>3. Current(w)
      BY <2>2, <3>2 DEF Current, EventKept, WorkerKept
    <3>4. Serves(e)' <=> Serves(e)
      BY <3>2 DEF Serves
    <3>5. workers'[w].finalized => events'[e].digest # 0
      BY <2>2, <3>1, <3>2, <3>3 DEF OutboxInv, CompletedIsServed, EventKept, WorkerKept, Current
    <3>6. At(w, "complete")' /\ Serves(e) => ~InExperiment'
      BY <2>2, <3>1, <3>2, <3>3 DEF OutboxInv, CompletedIsServed, WorkerKept
    <3>7. QED
      BY <3>2, <3>4, <3>5, <3>6
  <2>3. QED
    BY <2>1, <2>2 DEF CompletedIsServed
<1>5. QED
  BY <1>1, <1>2, <1>3, <1>4 DEF OutboxInv

\* A worker that goes on, except to complete its event, keeps its copy.
LEMMA Going ==
  ASSUME TypeOK, NEW w \in Workers, ~At(w, "idle"), NEW pc \in Pcs, Goto(w, pc),
         pc = "complete" => (Current(w) /\ Serves(workers[w].event) => ~InExperiment)
  PROVE  \A v \in Workers : WorkerKept(v)
<1> TAKE v \in Workers
<1>1. workers[w] \in WorkerRec
  BY DEF TypeOK
<1> DEFINE k == [workers[w] EXCEPT !.pc = pc]
<1>2. /\ k.pc = pc /\ k.event = workers[w].event /\ k.gen = workers[w].gen
      /\ k.attempt = workers[w].attempt /\ k.finalized = workers[w].finalized
  BY <1>1 DEF WorkerRec
<1> HIDE DEF k
<1>3. workers' = [workers EXCEPT ![w] = k] /\ workers \in [Workers -> WorkerRec]
  BY DEF Goto, TypeOK, k
<1>4. CASE v = w
  BY <1>2, <1>3, <1>4 DEF WorkerKept, At
<1>5. CASE v # w
  BY <1>3, <1>5 DEF WorkerKept, At
<1>6. QED
  BY <1>4, <1>5

\* A worker that is released, or left alone, is kept.
LEMMA Staying ==
  ASSUME TypeOK, workers' = workers \/ \E w \in Workers : Release(w)
  PROVE  \A v \in Workers : WorkerKept(v)
<1>1. CASE workers' = workers
  BY <1>1 DEF WorkerKept, At
<1>2. CASE \E w \in Workers : Release(w)
  <2> TAKE v \in Workers
  <2>1. PICK w \in Workers : workers' = [workers EXCEPT ![w] = Free]
    BY <1>2 DEF Release
  <2>2. CASE v = w
    <3>1. workers'[v].pc = "idle"
      BY <2>1, <2>2 DEF Free, TypeOK
    <3>2. QED
      BY <3>1 DEF WorkerKept, At
  <2>3. CASE v # w
    BY <2>1, <2>3 DEF WorkerKept, At, TypeOK
  <2>4. QED
    BY <2>2, <2>3
<1>3. QED
  BY <1>1, <1>2

\* An event that is rewritten with these fields is kept, and so are the others.
LEMMA Rewritten ==
  ASSUME TypeOK, NEW e \in Events, NEW ev, SetEvent(e, ev),
         ev.gen = events[e].gen, ev.status # "NONE",
         \/ ev.attempt = events[e].attempt /\ ev.digest = events[e].digest
         \/ ev.attempt = 0 /\ ev.digest = 0 /\ ev.status # "PROCESSING",
         ev.status = "PROCESSING" => events[e].status = "PROCESSING",
         ev.status = "COMPLETED" => events[e].status = "COMPLETED" \/ (Serves(e) => ~InExperiment)
  PROVE  \A f \in Events : EventKept(f)
<1> TAKE f \in Events
<1>1. events' = [events EXCEPT ![e] = ev] /\ events \in [Events -> EventRec]
  BY DEF SetEvent, TypeOK
<1>2. CASE f = e
  BY <1>1, <1>2 DEF EventKept
<1>3. CASE f # e
  BY <1>1, <1>3 DEF EventKept
<1>4. QED
  BY <1>2, <1>3

LEMMA EventsStay ==
  ASSUME events' = events
  PROVE  \A f \in Events : EventKept(f)
BY DEF EventKept

\* Whether the change waits does not turn on with a step that leaves it alone.
LEMMA ChangeStays ==
  ASSUME change' = change
  PROVE  InExperiment' => InExperiment
BY DEF InExperiment

\* ClaimOutbox draws a generation above all others of its event: older claims are no
\* longer current, and an attempt drawn with it has no report yet.
LEMMA ClaimKeeps ==
  ASSUME OutboxInv, TypeOK', NEW w \in Workers, NEW e \in Events, ClaimOutbox(w, e)
  PROVE  OutboxInv'
<1> DEFINE g == events[e].gen + 1
           a == IF events[e].attempt = 0 THEN g ELSE events[e].attempt
           f == events[e].digest # 0
           ev == [events[e] EXCEPT !.status = "PROCESSING", !.attempts = @ + 1,
                            !.attempt = a, !.gen = g, !.leased = TRUE,
                            !.stage = IF @ = "UNSTAGED" THEN "PREPARE" ELSE @]
           k == [Free EXCEPT !.pc = "read", !.event = e, !.gen = g, !.attempt = a,
                             !.input = events[e].input, !.finalized = f]
<1>0. TypeOK /\ events[e] \in EventRec
  BY DEF OutboxInv, TypeOK
<1>1. /\ workers' = [workers EXCEPT ![w] = k]
      /\ events' = [events EXCEPT ![e] = ev]
      /\ events[e].status \in {"PENDING", "PROCESSING"}
      /\ UNCHANGED <<change, queued, reports>>
  BY DEF ClaimOutbox, SetEvent, Claimable
<1>2. /\ events[e].gen \in Nat /\ events[e].attempt \in Nat /\ events[e].digest \in Nat
      /\ events[e].attempt <= events[e].gen
  BY <1>0 DEF EventRec, OutboxInv, Generations
<1>3. /\ g \in Nat /\ a \in Nat /\ 0 < g /\ 0 < a /\ a <= g /\ g = events[e].gen + 1
      /\ events[e].attempt = 0 => a = g
      /\ events[e].attempt # 0 => a = events[e].attempt
  BY <1>2
<1>4. k.pc = "read" /\ k.event = e /\ k.gen = g /\ k.attempt = a /\ k.finalized = f
  BY DEF Free
<1> HIDE DEF g, a
<1>5. /\ ev.status = "PROCESSING" /\ ev.gen = g /\ ev.attempt = a
      /\ ev.digest = events[e].digest
  BY <1>0 DEF EventRec
<1> HIDE DEF k, ev, f
<1>6. /\ events'[e] = ev /\ \A x \in Events : x # e => events'[x] = events[x]
      /\ workers'[w] = k /\ \A v \in Workers : v # w => workers'[v] = workers[v]
  BY <1>0, <1>1 DEF TypeOK
<1>7. NobodyWaitsInVain'
  <2>1. SUFFICES ASSUME InExperiment
                 PROVE  queued # << >> /\ events'[queued[Len(queued)]].status # "COMPLETED"
    BY <1>1 DEF NobodyWaitsInVain, InExperiment
  <2>2. queued # << >> /\ events[queued[Len(queued)]].status # "COMPLETED"
        /\ queued[Len(queued)] \in Events
    BY <1>0, <2>1 DEF OutboxInv, NobodyWaitsInVain, TypeOK
  <2>3. QED
    BY <1>5, <1>6, <2>2
<1>8. OneReportPerAttempt'
  BY <1>1 DEF OutboxInv, OneReportPerAttempt
<1>9. Generations'
  <2>1. \A x \in Events : events'[x].attempt <= events'[x].gen
    BY <1>3, <1>5, <1>6 DEF OutboxInv, Generations
  <2>2. ASSUME NEW v \in Workers, ~At(v, "idle")'
        PROVE  /\ 0 < workers'[v].gen /\ 0 < workers'[v].attempt
               /\ workers'[v].gen <= events'[workers'[v].event].gen
               /\ events'[workers'[v].event].status # "NONE"
    <3>1. CASE v = w
      BY <1>3, <1>4, <1>5, <1>6, <3>1
    <3>2. CASE v # w
      <4>1. /\ workers'[v] = workers[v] /\ ~At(v, "idle") /\ workers[v].event \in Events
            /\ workers[v].gen \in Nat
        BY <1>0, <1>6, <2>2, <3>2 DEF At, TypeOK, WorkerRec
      <4>2. /\ 0 < workers[v].gen /\ 0 < workers[v].attempt
            /\ workers[v].gen <= events[workers[v].event].gen
            /\ events[workers[v].event].status # "NONE"
        BY <4>1 DEF OutboxInv, Generations
      <4>3. CASE workers[v].event = e
        BY <1>2, <1>3, <1>5, <1>6, <4>1, <4>2, <4>3
      <4>4. CASE workers[v].event # e
        BY <1>6, <4>1, <4>2, <4>4
      <4>5. QED
        BY <4>3, <4>4
    <3>3. QED
      BY <3>1, <3>2
  <2>3. ASSUME NEW i \in DOMAIN reports
        PROVE  /\ reports[i].event \in Events
               /\ 0 < reports[i].attempt /\ reports[i].attempt <= events'[reports[i].event].gen
               /\ reports[i].attempt = events'[reports[i].event].attempt
                    => events'[reports[i].event].digest # 0
    <3>1. /\ reports[i].event \in Events
          /\ 0 < reports[i].attempt /\ reports[i].attempt <= events[reports[i].event].gen
          /\ reports[i].attempt = events[reports[i].event].attempt
                    => events[reports[i].event].digest # 0
      BY <2>3 DEF OutboxInv, Generations
    <3>r. reports[i] \in ReportRec
      BY <1>0 DEF TypeOK
    <3>2. reports[i].attempt \in Nat
      BY <3>r DEF ReportRec
    <3>3. QED
      BY <1>2, <1>3, <1>5, <1>6, <3>1, <3>2
  <2>4. QED
    BY <1>1, <2>1, <2>2, <2>3 DEF Generations
<1>10. CompletedIsServed'
  <2>1. ASSUME NEW x \in Events, Serves(x)', events'[x].digest # 0
        PROVE  ~InExperiment'
    <3>1. Serves(x) /\ events[x].digest # 0
      BY <1>1, <1>5, <1>6, <2>1 DEF Serves
    <3>2. QED
      BY <1>1, <3>1 DEF OutboxInv, CompletedIsServed, InExperiment
  <2>2. ASSUME NEW v \in Workers, ~At(v, "idle")', Current(v)'
        PROVE  /\ workers'[v].finalized => events'[workers'[v].event].digest # 0
               /\ At(v, "complete")' /\ Serves(workers[v].event)' => ~InExperiment'
    <3>1. CASE v = w
      BY <1>4, <1>5, <1>6, <3>1 DEF At, f
    <3>2. CASE v # w
      <4>1. /\ workers'[v] = workers[v] /\ ~At(v, "idle") /\ workers[v].event \in Events
            /\ workers[v].gen \in Nat
        BY <1>0, <1>6, <2>2, <3>2 DEF At, TypeOK, WorkerRec
      <4>2. workers[v].gen <= events[workers[v].event].gen
        BY <4>1 DEF OutboxInv, Generations
      <4>3. workers[v].event # e
        BY <1>2, <1>3, <1>5, <1>6, <2>2, <4>1, <4>2 DEF Current
      <4>4. Current(v) /\ events'[workers[v].event] = events[workers[v].event]
        BY <1>6, <2>2, <4>1, <4>3 DEF Current
      <4>5. Serves(workers[v].event)' => Serves(workers[v].event)
        BY <1>1, <4>1 DEF Serves
      <4>6. InExperiment' => InExperiment
        BY <1>1, ChangeStays
      <4>7. QED
        BY <4>1, <4>4, <4>5, <4>6 DEF OutboxInv, CompletedIsServed, At
    <3>3. QED
      BY <3>1, <3>2
  <2>3. QED
    BY <2>1, <2>2 DEF CompletedIsServed
<1>11. QED
  BY <1>7, <1>8, <1>9, <1>10 DEF OutboxInv

\* FINALIZE under the lease: its attempt has no report yet, and from here on the event
\* says so.
LEMMA FinalizeKeeps ==
  ASSUME OutboxInv, TypeOK', NEW w \in Workers, Finalize(w), reports' # reports
  PROVE  OutboxInv'
<1> DEFINE e == workers[w].event
           ev == [events[e] EXCEPT !.digest = workers[w].gen, !.stage = "FINALIZE"]
           r == ReportOf(w)
<1>0. TypeOK
  BY DEF OutboxInv
<1>1. /\ At(w, "finalize") /\ Goto(w, "complete")
      /\ events[e].status = "PROCESSING" /\ events[e].gen = workers[w].gen
      /\ events[e].attempt = workers[w].attempt /\ events[e].digest = 0
      /\ change' = [change EXCEPT !.report = ReportOf(w),
               !.status = IF workers[w].trusted THEN "WAITING_APPROVAL" ELSE "CHECK_FAILED"]
      /\ SetEvent(e, ev)
      /\ reports' = Append(reports, r)
      /\ queued' = queued
  BY DEF Finalize, Holds
<1>2. ~At(w, "idle") /\ workers[w] \in WorkerRec /\ e \in Events /\ events[e] \in EventRec
  BY <1>0, <1>1, HeldExists DEF At
<1>3. /\ r.event = e /\ r.attempt = workers[w].attempt
      /\ workers[w].gen \in Nat /\ workers[w].attempt \in Nat
      /\ 0 < workers[w].gen /\ 0 < workers[w].attempt
      /\ events[e].attempt <= events[e].gen
  BY <1>2 DEF ReportOf, WorkerRec, OutboxInv, Generations
<1>4. /\ ev.status = events[e].status /\ ev.gen = events[e].gen
      /\ ev.attempt = events[e].attempt /\ ev.digest = workers[w].gen
  BY <1>2 DEF EventRec
<1>5. ~InExperiment'
  <2>1. change \in ChangeRec
    BY <1>0 DEF TypeOK
  <2>2. change'.status \in {"WAITING_APPROVAL", "CHECK_FAILED"}
    BY <1>1, <2>1 DEF ChangeRec
  <2>3. QED
    BY <2>2 DEF InExperiment
<1> DEFINE k == [workers[w] EXCEPT !.pc = "complete"]
<1>6. /\ k.pc = "complete" /\ k.event = e /\ k.gen = workers[w].gen
      /\ k.attempt = workers[w].attempt /\ k.finalized = workers[w].finalized
  BY <1>2 DEF WorkerRec
<1>7. /\ events'[e] = ev /\ \A x \in Events : x # e => events'[x] = events[x]
      /\ workers'[w] = k /\ \A v \in Workers : v # w => workers'[v] = workers[v]
  BY <1>0, <1>1, <1>2 DEF TypeOK, SetEvent, Goto
<1> DEFINE n == Len(reports) + 1
<1>8. /\ DOMAIN reports' = DOMAIN reports \cup {n} /\ n \notin DOMAIN reports
      /\ reports'[n] = r /\ \A i \in DOMAIN reports : reports'[i] = reports[i]
  BY <1>0, <1>1 DEF TypeOK
<1> HIDE DEF e, ev, r, k, n
<1>9. NobodyWaitsInVain'
  BY <1>5 DEF NobodyWaitsInVain
<1>10. OneReportPerAttempt'
  <2>1. ASSUME NEW i \in DOMAIN reports, reports[i].event = e, reports[i].attempt = workers[w].attempt
        PROVE  FALSE
    BY <1>1, <2>1 DEF OutboxInv, Generations
  <2>2. QED
    BY <1>3, <1>8, <2>1 DEF OutboxInv, OneReportPerAttempt
<1>11. Generations'
  <2>1. \A x \in Events : events'[x].attempt <= events'[x].gen
    BY <1>4, <1>7 DEF OutboxInv, Generations
  <2>2. ASSUME NEW v \in Workers, ~At(v, "idle")'
        PROVE  /\ 0 < workers'[v].gen /\ 0 < workers'[v].attempt
               /\ workers'[v].gen <= events'[workers'[v].event].gen
               /\ events'[workers'[v].event].status # "NONE"
    <3>1. /\ workers'[v].event = workers[v].event /\ workers'[v].gen = workers[v].gen
          /\ workers'[v].attempt = workers[v].attempt /\ ~At(v, "idle")
          /\ workers[v].event \in Events
      BY <1>0, <1>2, <1>6, <1>7, <2>2 DEF At, TypeOK, e
    <3>2. /\ events'[workers[v].event].gen = events[workers[v].event].gen
          /\ events'[workers[v].event].status = events[workers[v].event].status
      BY <1>4, <1>7, <3>1
    <3>3. QED
      BY <3>1, <3>2 DEF OutboxInv, Generations
  <2>3. ASSUME NEW i \in DOMAIN reports'
        PROVE  /\ reports'[i].event \in Events
               /\ 0 < reports'[i].attempt /\ reports'[i].attempt <= events'[reports'[i].event].gen
               /\ reports'[i].attempt = events'[reports'[i].event].attempt
                    => events'[reports'[i].event].digest # 0
    <3>1. CASE i = n
      BY <1>1, <1>2, <1>3, <1>4, <1>7, <1>8, <3>1
    <3>2. CASE i # n
      <4>1. i \in DOMAIN reports /\ reports'[i] = reports[i]
        BY <1>8, <2>3, <3>2
      <4>2. /\ reports[i].event \in Events
            /\ 0 < reports[i].attempt /\ reports[i].attempt <= events[reports[i].event].gen
            /\ reports[i].attempt = events[reports[i].event].attempt
                    => events[reports[i].event].digest # 0
        BY <4>1 DEF OutboxInv, Generations
      <4>3. QED
        BY <1>3, <1>4, <1>7, <4>1, <4>2
    <3>3. QED
      BY <3>1, <3>2
  <2>4. QED
    BY <2>1, <2>2, <2>3 DEF Generations
<1>12. CompletedIsServed'
  <2>1. ASSUME NEW v \in Workers, ~At(v, "idle")', Current(v)', workers'[v].finalized
        PROVE  events'[workers'[v].event].digest # 0
    <3>1. /\ workers'[v].event = workers[v].event /\ workers'[v].gen = workers[v].gen
          /\ workers'[v].finalized = workers[v].finalized /\ ~At(v, "idle")
          /\ workers[v].event \in Events
      BY <1>0, <1>2, <1>6, <1>7, <2>1 DEF At, TypeOK, e
    <3>2. CASE workers[v].event = e
      BY <1>3, <1>4, <1>7, <3>1, <3>2
    <3>3. CASE workers[v].event # e
      <4>1. events'[workers[v].event] = events[workers[v].event]
        BY <1>7, <3>1, <3>3
      <4>2. Current(v)
        BY <2>1, <3>1, <4>1 DEF Current
      <4>3. QED
        BY <2>1, <3>1, <4>1, <4>2 DEF OutboxInv, CompletedIsServed
    <3>4. QED
      BY <3>2, <3>3
  <2>2. QED
    BY <1>5, <2>1 DEF CompletedIsServed
<1>13. QED
  BY <1>9, <1>10, <1>11, <1>12 DEF OutboxInv

\* A new event has no worker and no report: appending it, for a change that waits or
\* from a restart, keeps the invariant.
LEMMA AppendKeeps ==
  ASSUME OutboxInv, TypeOK', NEW x \in Artifacts, AppendEvent(x), reports' = reports,
         workers' = workers \/ \A v \in Workers : At(v, "idle")'
  PROVE  OutboxInv'
<1>0. TypeOK
  BY DEF OutboxInv
<1>1. PICK e \in Events :
        /\ events[e] = NoEvent
        /\ events' = [events EXCEPT ![e] = Pending(x)]
        /\ queued' # << >> /\ queued'[Len(queued')] = e
  BY <1>0, Appended
<1>2. /\ events[e].gen = 0 /\ events[e].status = "NONE" /\ events[e].attempt = 0
  BY <1>1 DEF NoEvent
<1> DEFINE ev == Pending(x)
<1>3. /\ ev.gen = 0 /\ ev.attempt = 0 /\ ev.digest = 0 /\ ev.status = "PENDING"
  BY DEF Pending, NoEvent
<1> HIDE DEF ev
<1>4. events'[e] = ev /\ \A f \in Events : f # e => events'[f] = events[f]
  BY <1>0, <1>1 DEF TypeOK, ev
<1>5. \A f \in Events : Serves(f)' => f = e
  BY <1>1 DEF Serves
<1>6. ASSUME NEW v \in Workers, ~At(v, "idle")'
      PROVE  /\ workers'[v] = workers[v] /\ ~At(v, "idle")
             /\ workers[v].event \in Events /\ workers[v].event # e
             /\ events'[workers[v].event] = events[workers[v].event]
  <2>1. workers'[v] = workers[v] /\ ~At(v, "idle") /\ workers[v].event \in Events
    BY <1>0, <1>6 DEF At, TypeOK
  <2>2. events[workers[v].event].status # "NONE"
    BY <2>1 DEF OutboxInv, Generations
  <2>3. QED
    BY <1>2, <1>4, <2>1, <2>2
<1>7. NobodyWaitsInVain'
  BY <1>1, <1>3, <1>4 DEF NobodyWaitsInVain
<1>8. OneReportPerAttempt'
  BY DEF OutboxInv, OneReportPerAttempt
<1>9. Generations'
  <2>1. \A f \in Events : events'[f].attempt <= events'[f].gen
    BY <1>3, <1>4 DEF OutboxInv, Generations
  <2>2. ASSUME NEW v \in Workers, ~At(v, "idle")'
        PROVE  /\ 0 < workers'[v].gen /\ 0 < workers'[v].attempt
               /\ workers'[v].gen <= events'[workers'[v].event].gen
               /\ events'[workers'[v].event].status # "NONE"
    BY <1>6, <2>2 DEF OutboxInv, Generations
  <2>3. ASSUME NEW i \in DOMAIN reports
        PROVE  /\ reports[i].event \in Events
               /\ 0 < reports[i].attempt /\ reports[i].attempt <= events'[reports[i].event].gen
               /\ reports[i].attempt = events'[reports[i].event].attempt
                    => events'[reports[i].event].digest # 0
    <3>1. /\ reports[i].event \in Events
          /\ 0 < reports[i].attempt /\ reports[i].attempt <= events[reports[i].event].gen
          /\ reports[i].attempt = events[reports[i].event].attempt
                    => events[reports[i].event].digest # 0
      BY <2>3 DEF OutboxInv, Generations
    <3>r. reports[i] \in ReportRec
      BY <1>0 DEF TypeOK
    <3>2. reports[i].attempt \in Nat
      BY <3>r DEF ReportRec
    <3>3. reports[i].event # e
      BY <1>2, <3>1, <3>2
    <3>4. QED
      BY <1>4, <3>1, <3>3
  <2>4. QED
    BY <2>1, <2>2, <2>3 DEF Generations
<1>10. CompletedIsServed'
  <2>1. \A f \in Events : Serves(f)' /\ events'[f].digest # 0 => ~InExperiment'
    BY <1>3, <1>4, <1>5
  <2>2. ASSUME NEW v \in Workers, ~At(v, "idle")', Current(v)'
        PROVE  /\ workers'[v].finalized => events'[workers'[v].event].digest # 0
               /\ At(v, "complete")' /\ Serves(workers[v].event)' => ~InExperiment'
    <3>1. Current(v)
      BY <1>6, <2>2 DEF Current
    <3>2. workers'[v].event \in Events /\ workers'[v].event # e
      BY <1>6, <2>2
    <3>3. ~Serves(workers[v].event)'
      BY <1>1, <3>2 DEF Serves
    <3>4. QED
      BY <1>6, <2>2, <3>1, <3>3 DEF OutboxInv, CompletedIsServed
  <2>3. QED
    BY <2>1, <2>2 DEF CompletedIsServed
<1>11. QED
  BY <1>7, <1>8, <1>9, <1>10 DEF OutboxInv

\* The rewritings of an event that keep it.
LEMMA Rewritings ==
  ASSUME OutboxInv, NEW e \in Events
  PROVE  LET ev == events[e] IN
         /\ \A s : SetEvent(e, [ev EXCEPT !.stage = s]) /\ ev.status # "NONE"
                     => \A f \in Events : EventKept(f)
         /\ \A x \in {[ev EXCEPT !.leased = FALSE], [ev EXCEPT !.due = TRUE]} :
              SetEvent(e, x) /\ ev.status # "NONE" => \A f \in Events : EventKept(f)
         /\ SetEvent(e, [ev EXCEPT !.status = "DEAD", !.leased = FALSE])
              => \A f \in Events : EventKept(f)
         /\ SetEvent(e, [ev EXCEPT !.status = "COMPLETED", !.leased = FALSE])
              /\ (Serves(e) => ~InExperiment) => \A f \in Events : EventKept(f)
         /\ \A x \in {[StartedOver(ev) EXCEPT !.leased = FALSE, !.due = FALSE],
                      [StartedOver(ev) EXCEPT !.attempts = 0, !.due = TRUE]} :
              SetEvent(e, x) => \A f \in Events : EventKept(f)
<1>0. TypeOK
  BY DEF OutboxInv
<1> DEFINE ev == events[e]
           Same(x) == x.gen = ev.gen /\ x.attempt = ev.attempt /\ x.digest = ev.digest
           Over(x) == x.gen = ev.gen /\ x.attempt = 0 /\ x.digest = 0 /\ x.status = "PENDING"
           a(s) == [ev EXCEPT !.stage = s]
           b == [ev EXCEPT !.leased = FALSE]
           c == [ev EXCEPT !.due = TRUE]
           d == [ev EXCEPT !.status = "DEAD", !.leased = FALSE]
           g == [ev EXCEPT !.status = "COMPLETED", !.leased = FALSE]
           p == [StartedOver(ev) EXCEPT !.leased = FALSE, !.due = FALSE]
           q == [StartedOver(ev) EXCEPT !.attempts = 0, !.due = TRUE]
<1>1. ev \in EventRec
  BY <1>0 DEF TypeOK
<1>2. \A s : Same(a(s)) /\ a(s).status = ev.status
  BY <1>1 DEF EventRec
<1>3. Same(b) /\ b.status = ev.status /\ Same(c) /\ c.status = ev.status
  BY <1>1 DEF EventRec
<1>4. Same(d) /\ d.status = "DEAD" /\ Same(g) /\ g.status = "COMPLETED"
  BY <1>1 DEF EventRec
<1>5. Over(p) /\ Over(q)
  BY <1>1 DEF EventRec, StartedOver
<1> HIDE DEF a, b, c, d, g, p, q
<1>6. \A s : SetEvent(e, a(s)) /\ ev.status # "NONE" => \A f \in Events : EventKept(f)
  BY <1>0, <1>2, Rewritten
<1>7. \A x \in {b, c} : SetEvent(e, x) /\ ev.status # "NONE" => \A f \in Events : EventKept(f)
  BY <1>0, <1>3, Rewritten
<1>8. SetEvent(e, d) => \A f \in Events : EventKept(f)
  BY <1>0, <1>4, Rewritten
<1>9. SetEvent(e, g) /\ (Serves(e) => ~InExperiment) => \A f \in Events : EventKept(f)
  BY <1>0, <1>4, Rewritten
<1>10. \A x \in {p, q} : SetEvent(e, x) => \A f \in Events : EventKept(f)
  BY <1>0, <1>5, Rewritten
<1>11. QED
  BY <1>6, <1>7, <1>8, <1>9, <1>10 DEF a, b, c, d, g, p, q

\* Every step keeps the invariant.
LEMMA OutboxStep ==
  ASSUME OutboxInv, [Next]_vars
  PROVE  OutboxInv'
<1>0. TypeOK /\ TypeOK'
  BY TypeStep DEF OutboxInv
<1>1. ASSUME NEW w \in Workers, ReadChange(w)
      PROVE  OutboxInv'
  <2> DEFINE pc == IF workers[w].input # change.artifact THEN "fail"
                   ELSE IF workers[w].finalized \/ ~InExperiment THEN "complete"
                   ELSE "prepare"
  <2>1. /\ At(w, "read") /\ Goto(w, pc) /\ pc \in Pcs
        /\ pc = "complete" => workers[w].finalized \/ ~InExperiment
        /\ UNCHANGED <<change, events, queued, reports>>
    BY <1>1 DEF ReadChange, Pcs
  <2> HIDE DEF pc
  <2>2. ~At(w, "idle") /\ workers[w].event \in Events
    BY <1>0, <2>1 DEF At, TypeOK
  <2>3. pc = "complete" => (Current(w) /\ Serves(workers[w].event) => ~InExperiment)
    BY <2>1, <2>2 DEF OutboxInv, CompletedIsServed
  <2>4. \A v \in Workers : WorkerKept(v)
    BY <1>0, <2>1, <2>2, <2>3, Going
  <2>5. QED
    BY <1>0, <2>1, <2>4, EventsStay, ChangeStays, KeptSteps
<1>2. ASSUME NEW w \in Workers, CheckpointPrepare(w) \/ CheckpointApply(w)
      PROVE  OutboxInv'
  <2>1. PICK s \in {"PREPARE", "APPLY"}, n \in {"start", "run"} : Checkpoint(w, s, n)
    BY <1>2 DEF CheckpointPrepare, CheckpointApply
  <2>2. ~At(w, "idle")
    BY <1>2 DEF CheckpointPrepare, CheckpointApply, At
  <2>3. \A v \in Workers : WorkerKept(v)
    BY <1>0, <2>1, <2>2, Going DEF Checkpoint, Pcs
  <2>4. \A f \in Events : EventKept(f)
    <3>1. CASE Holds(w)
      <4>1. workers[w].event \in Events /\ events[workers[w].event].status # "NONE"
        BY <1>0, <2>2, <3>1, HeldExists
      <4>2. SetEvent(workers[w].event, [events[workers[w].event] EXCEPT !.stage = s])
        BY <2>1, <3>1 DEF Checkpoint
      <4>3. QED
        BY <4>1, <4>2, Rewritings
    <3>2. CASE ~Holds(w)
      BY <2>1, <3>2, EventsStay DEF Checkpoint
    <3>3. QED
      BY <3>1, <3>2
  <2>5. QED
    BY <1>0, <2>1, <2>3, <2>4, ChangeStays, KeptSteps DEF Checkpoint
<1>3. ASSUME NEW w \in Workers, StartRun(w)
      PROVE  OutboxInv'
  <2>1. \A v \in Workers : WorkerKept(v)
    BY <1>0, <1>3, Going DEF StartRun, At, Pcs
  <2>2. InExperiment' => InExperiment
    BY <1>3 DEF StartRun, InExperiment
  <2>3. QED
    BY <1>0, <1>3, <2>1, <2>2, EventsStay, KeptSteps DEF StartRun
<1>4. ASSUME NEW w \in Workers, (\E t \in BOOLEAN : Run(w, t)) \/ RenewFails(w)
      PROVE  OutboxInv'
  <2>1. workers[w] \in WorkerRec /\ ~At(w, "idle")
    BY <1>0, <1>4 DEF Run, RenewFails, At, TypeOK
  <2> DEFINE Ks == {[workers[w] EXCEPT !.pc = "fail"], [workers[w] EXCEPT !.cancelled = TRUE]}
                   \cup {[workers[w] EXCEPT !.pc = "finalize", !.trusted = t] : t \in BOOLEAN}
  <2>2. PICK k \in Ks : workers' = [workers EXCEPT ![w] = k]
    <3>1. CASE RenewFails(w)
      BY <3>1 DEF RenewFails
    <3>2. CASE \E t \in BOOLEAN : Run(w, t)
      BY <3>2 DEF Run
    <3>3. QED
      BY <1>4, <3>1, <3>2
  <2>3. /\ k.event = workers[w].event /\ k.gen = workers[w].gen
        /\ k.attempt = workers[w].attempt /\ k.finalized = workers[w].finalized
        /\ k.pc = "complete" => At(w, "complete")
    BY <2>1 DEF WorkerRec, At
  <2> HIDE DEF Ks
  <2>4. ASSUME NEW v \in Workers
        PROVE  WorkerKept(v)
    <3>1. CASE v = w
      BY <1>0, <2>1, <2>2, <2>3, <3>1 DEF WorkerKept, At, TypeOK
    <3>2. CASE v # w
      BY <1>0, <2>2, <3>2 DEF WorkerKept, At, TypeOK
    <3>3. QED
      BY <3>1, <3>2
  <2>5. QED
    BY <1>0, <1>4, <2>4, EventsStay, ChangeStays, KeptSteps DEF Run, RenewFails
<1>5. ASSUME NEW w \in Workers, Finalize(w)
      PROVE  OutboxInv'
  <2>1. CASE UNCHANGED <<change, events, reports>> /\ Goto(w, "fail")
    <3>1. \A v \in Workers : WorkerKept(v)
      BY <1>0, <1>5, <2>1, Going DEF Finalize, At, Pcs
    <3>2. QED
      BY <1>0, <1>5, <2>1, <3>1, EventsStay, ChangeStays, KeptSteps DEF Finalize
  <2>2. CASE reports' = Append(reports, ReportOf(w))
    <3>1. reports' # reports
      BY <1>0, <2>2, ReportShape DEF TypeOK
    <3>2. QED
      BY <1>0, <1>5, <3>1, FinalizeKeeps
  <2>3. QED
    BY <1>5, <2>1, <2>2 DEF Finalize
<1>6. ASSUME NEW w \in Workers, CompleteOutbox(w)
      PROVE  OutboxInv'
  <2> DEFINE e == workers[w].event
  <2>1. ~At(w, "idle") /\ e \in Events
    BY <1>0, <1>6 DEF CompleteOutbox, At, TypeOK
  <2>2. \A f \in Events : EventKept(f)
    <3>1. CASE Holds(w)
      <4>1. Serves(e) => ~InExperiment
        BY <1>6, <2>1, <3>1 DEF CompleteOutbox, Holds, Current, OutboxInv, CompletedIsServed
      <4>2. SetEvent(e, [events[e] EXCEPT !.status = "COMPLETED", !.leased = FALSE])
        BY <1>6, <3>1 DEF CompleteOutbox
      <4>3. QED
        BY <2>1, <4>1, <4>2, Rewritings
    <3>2. CASE ~Holds(w)
      BY <1>6, <3>2, EventsStay DEF CompleteOutbox
    <3>3. QED
      BY <3>1, <3>2
  <2>3. QED
    BY <1>0, <1>6, <2>2, Staying, ChangeStays, KeptSteps DEF CompleteOutbox
<1>7. ASSUME NEW w \in Workers, FailOutbox(w)
      PROVE  OutboxInv'
  <2> DEFINE e == workers[w].event
  <2>1. ~At(w, "idle") /\ e \in Events
    BY <1>0, <1>7 DEF FailOutbox, At, TypeOK
  <2>2. \A f \in Events : EventKept(f)
    <3>1. CASE Holds(w)
      <4>1. \/ SetEvent(e, [events[e] EXCEPT !.status = "DEAD", !.leased = FALSE])
            \/ SetEvent(e, [StartedOver(events[e]) EXCEPT !.leased = FALSE, !.due = FALSE])
        BY <1>7, <3>1 DEF FailOutbox
      <4>2. QED
        BY <2>1, <4>1, Rewritings
    <3>2. CASE ~Holds(w)
      BY <1>7, <3>2, EventsStay DEF FailOutbox
    <3>3. QED
      BY <3>1, <3>2
  <2>3. QED
    BY <1>0, <1>7, <2>2, Staying, ChangeStays, KeptSteps DEF FailOutbox
<1>8. ASSUME NEW w \in Workers, CallFails(w)
      PROVE  OutboxInv'
  <2>1. Release(w) \/ (Goto(w, "fail") /\ ~At(w, "idle"))
    BY <1>0, <1>8 DEF CallFails, Release, Goto, At, TypeOK
  <2>2. \A v \in Workers : WorkerKept(v)
    BY <1>0, <2>1, Staying, Going DEF Pcs
  <2>3. QED
    BY <1>0, <1>8, <2>2, EventsStay, ChangeStays, KeptSteps DEF CallFails
<1>9. ASSUME NEW r \in Requests, ReadForQueue(r)
      PROVE  OutboxInv'
  BY <1>0, <1>9, Staying, EventsStay, ChangeStays, KeptSteps DEF ReadForQueue
<1>10. ASSUME NEW r \in Requests, Queue(r)
       PROVE  OutboxInv'
  BY <1>0, <1>10, AppendKeeps DEF Queue
<1>11. ASSUME NEW a \in Artifacts, Revise(a)
       PROVE  OutboxInv'
  <2>1. ~InExperiment'
    BY <1>11 DEF Revise, InExperiment
  <2>2. QED
    BY <1>0, <1>11, <2>1, Staying, EventsStay, KeptSteps DEF Revise
<1>12. ASSUME NEW e \in Events, RetryOutbox(e) \/ Due(e) \/ LapseOrphan(e) \/ LapseHeld(e)
       PROVE  OutboxInv'
  <2>1. events[e].status # "NONE"
    BY <1>12 DEF RetryOutbox, Due, LapseOrphan, LapseHeld, Held, Holds
  <2>2. \/ SetEvent(e, [events[e] EXCEPT !.leased = FALSE])
        \/ SetEvent(e, [events[e] EXCEPT !.due = TRUE])
        \/ SetEvent(e, [StartedOver(events[e]) EXCEPT !.attempts = 0, !.due = TRUE])
    BY <1>12 DEF RetryOutbox, Due, LapseOrphan, LapseHeld
  <2>3. \A f \in Events : EventKept(f)
    BY <2>1, <2>2, Rewritings
  <2>4. QED
    BY <1>0, <1>12, <2>3, Staying, ChangeStays, KeptSteps DEF RetryOutbox, Due, LapseOrphan, LapseHeld
<1>13. ASSUME Restart
       PROVE  OutboxInv'
  <2>1. \A v \in Workers : At(v, "idle")'
    BY <1>13 DEF Restart, At, Free
  <2>2. change.artifact \in Artifacts
    BY <1>0 DEF TypeOK, ChangeRec
  <2>3. CASE Orphaned
    BY <1>0, <1>13, <2>1, <2>2, <2>3, AppendKeeps DEF Restart
  <2>4. CASE ~Orphaned
    <3>1. \A v \in Workers : WorkerKept(v)
      BY <2>1 DEF WorkerKept
    <3>2. QED
      BY <1>0, <1>13, <2>4, <3>1, EventsStay, ChangeStays, KeptSteps DEF Restart
  <2>5. QED
    BY <2>3, <2>4
<1>14. CASE UNCHANGED vars
  BY <1>0, <1>14, Staying, EventsStay, ChangeStays, KeptSteps DEF vars
<1>15. ASSUME NEW w \in Workers, NEW e \in Events, ClaimOutbox(w, e)
       PROVE  OutboxInv'
  BY <1>0, <1>15, ClaimKeeps
<1>16. QED
  BY <1>1, <1>2, <1>3, <1>4, <1>5, <1>6, <1>7, <1>8, <1>9, <1>10, <1>11, <1>12, <1>13, <1>14,
     <1>15 DEF Next, Claim, Step

\* The first state: nothing is queued, nobody works and nothing is reported.
LEMMA InitHolds == Init => OutboxInv
<1> SUFFICES ASSUME Init
             PROVE  OutboxInv
  OBVIOUS
<1>1. TypeOK
  BY InitTypes
<1>2. ~InExperiment
  BY DEF Init, InExperiment
<1>3. \A e \in Events : events[e].attempt = 0 /\ events[e].gen = 0
  BY DEF Init, NoEvent
<1>4. \A w \in Workers : At(w, "idle")
  BY DEF Init, At, Free
<1>5. DOMAIN reports = {}
  BY DEF Init
<1>6. QED
  BY <1>1, <1>2, <1>3, <1>4, <1>5
     DEF OutboxInv, NobodyWaitsInVain, OneReportPerAttempt, Generations, CompletedIsServed

-----------------------------------------------------------------------------
(* Theorems. *)

\* The outbox is correct however many workers, events and failures there are: a change
\* that waits for its experiment has an event that is not completed, and a business
\* attempt stores one report, through takeovers of expired leases, retries of dead
\* letters, edits and restarts (ClaimOutbox, FinalizeExperimentOutbox, CompleteOutbox
\* and FailOutbox of internal/store/outbox.go).
THEOREM OutboxCorrect == Spec => []OutboxInv
BY InitHolds, OutboxStep, PTL DEF Spec

\* Fencing: FINALIZE stores a report for the latest generation of its event only,
\* whatever workers with older leases still do (validOutboxLease).
THEOREM Fenced == Spec => FencedReports
<1>1. ASSUME OutboxInv, [Next]_vars
      PROVE  [\A i \in DOMAIN reports' \ DOMAIN reports :
                reports'[i].gen = events[reports'[i].event].gen]_vars
  <2> SUFFICES ASSUME NEW i \in DOMAIN reports' \ DOMAIN reports
               PROVE  reports'[i].gen = events[reports'[i].event].gen
    OBVIOUS
  <2>1. TypeOK
    BY <1>1 DEF OutboxInv
  <2>2. reports' # reports
    OBVIOUS
  <2>3. PICK w \in Workers : Finalize(w)
    BY <1>1, <2>2 DEF Next, Claim, Step, ClaimOutbox, ReadChange, CheckpointPrepare,
       CheckpointApply, Checkpoint, StartRun, Run, CompleteOutbox, FailOutbox, RenewFails,
       CallFails, ReadForQueue, Queue, RetryOutbox, Due, LapseOrphan, LapseHeld, Revise,
       Restart, vars
  <2>4. Holds(w) /\ reports' = Append(reports, ReportOf(w))
    BY <2>2, <2>3 DEF Finalize
  <2>5. reports'[i] = ReportOf(w)
    BY <2>1, <2>4 DEF TypeOK
  <2>6. QED
    BY <2>4, <2>5 DEF Holds, ReportOf
<1>2. QED
  BY <1>1, OutboxCorrect, PTL DEF Spec, FencedReports
=============================================================================
