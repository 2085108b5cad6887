----------------------------- MODULE AgentTasks -----------------------------
(***************************************************************************)
(* One draft task of the Python agent service (agent-app/app/service.py),  *)
(* from creation to its end, with everything that can happen to it:        *)
(*                                                                         *)
(*   - rec, the task's record.  TaskRepository.save writes the file first  *)
(*     and the memory after it, so memory and disk are one variable.  All  *)
(*     code between two awaits is one step (one process, one event loop,   *)
(*     an instance lock);                                                  *)
(*   - exec, the managed executions: asyncio tasks that run the graph of   *)
(*     app/workflow/graph.py node by node, each node leaving a checkpoint  *)
(*     in cp, then store their result.  live is the service's table        *)
(*     _executions, problem its _problems;                                 *)
(*   - calls, the requests that wait for the network or for the checkpoint *)
(*     file between reading the record and writing it;                     *)
(*   - saves that fail, callers that disconnect, model calls that never    *)
(*     answer, and restarts of the process.                                *)
(*                                                                         *)
(* Requirement, slots and snapshot are one input, identified by its        *)
(* input_version; a draft is its SQL, one of Materials.  A record does not *)
(* share state with the records of other tasks.                            *)
(***************************************************************************)
EXTENDS Naturals, FiniteSets

CONSTANTS
  Inputs,        \* versions of the input a user can arrive at
  Incomplete,    \* those with a required slot missing
  Materials,     \* contents of a draft
  Changes,       \* formal changes a task can be linked to
  Calls,         \* requests in flight
  Execs,         \* identities of executions that can be told apart at a time
  MaxRequests,   \* max_task_requests: model requests a task may send
  MaxRevisions,  \* max_revisions of the draft within one run
  MaxAsks,       \* _MAX_INFO_INTERRUPTS
  MaxPersist,    \* persist_max_attempts
  MaxConfirms,   \* bound: confirmations of a task
  MaxActs,       \* bound: acts of the user on the task
  MaxTroubles,   \* bound: saves that fail and restarts of the process, together
  None

ASSUME AgentTaskAssumptions ==
  /\ Incomplete \subseteq Inputs
  /\ {MaxRequests, MaxAsks, MaxPersist} \subseteq Nat \ {0}
  /\ {MaxRevisions, MaxConfirms, MaxActs, MaxTroubles} \subseteq Nat
  /\ None \notin Inputs \cup Materials \cup Changes \cup Execs

VARIABLES rec, cp, exec, live, problem, calls,
          sent,     \* model requests that have left the process
          lapse,    \* the most saves that failed within one dispatch
          acts,     \* acts of the user so far
          troubles  \* faults and restarts so far

vars == <<rec, cp, exec, live, problem, calls, sent, lapse, acts, troubles>>

(***************************************************************************)
(* Records                                                                 *)
(***************************************************************************)
InFlight == {"RECEIVED", "RUNNING"}
Resumable == {"NEEDS_INFO", "FAILED", "CHECK_BLOCKED"}
HasMaterial == {"DRAFT_READY", "CHECK_BLOCKED"}

Statuses == InFlight \cup Resumable \cup HasMaterial \cup {"INPUT_REJECTED", "CANCELLED"}

\* What a deterministic scan said, and what it was about.
ScanRec == [of : Materials, by : Inputs, res : {"PASSED", "BLOCKED", "FAILED"}]

DraftRec == [from : Inputs, mat : Materials, scan : ScanRec \cup {None}]

\* A human confirmation names the input and the content it was given for.
ConfirmRec == [ver : Inputs, mat : Materials, valid : BOOLEAN]

TaskRec ==
  [status : Statuses, exec : Execs \cup {None}, version : Inputs,
   draft : DraftRec \cup {None}, awaiting : BOOLEAN,
   shelf : {"active", "archived", "trash"},
   links : SUBSET Changes, confs : SUBSET ConfirmRec,
   usage : Nat, worked : BOOLEAN]

\* The record create_task stores.
NewTask(i) ==
  [status |-> "RECEIVED", exec |-> None, version |-> i, draft |-> None,
   awaiting |-> FALSE, shelf |-> "active", links |-> {}, confs |-> {},
   usage |-> 0, worked |-> FALSE]

\* Confirmations of other material are marked, never removed.
Invalidated(r) ==
  LET Current(c) == r.draft # None /\ c.ver = r.version /\ c.mat = r.draft.mat
  IN  [r EXCEPT !.confs = {[c EXCEPT !.valid = @ /\ Current(c)] : c \in @}]

\* New input drops the draft that was made for the old one.
WithInput(r, i) ==
  IF i = r.version THEN r ELSE Invalidated([r EXCEPT !.version = i, !.draft = None])

(***************************************************************************)
(* Executions.  st is the state of the graph, mine the record the          *)
(* execution read when it started and will store when it ends, ctx how it  *)
(* was started or the node whose model request is out.  One that was told  *)
(* to stop is "ending": CancelledError meets it at its await, it stores    *)
(* nothing more, and only its entry in the table is left to release.       *)
(***************************************************************************)
FreshGraph(i) ==
  [version |-> i, draft |-> None, status |-> "RUNNING", asks |-> 0, rev |-> 0, tried |-> FALSE]

Idle == [pc |-> "idle", ctx |-> None, mine |-> None, st |-> None, ledger |-> 0, tries |-> 0]

Ending == [Idle EXCEPT !.pc = "ending"]

Nodes == {"screen", "info", "retrieve", "generate", "check", "finalize"}
Working == Nodes \cup {"delete", "enter", "call"}
Running == Working \cup {"start", "persist"}

Owner(e) == rec # None /\ rec.exec = e

IdleCall == [op |-> "idle", exec |-> None, status |-> None, input |-> None,
             given |-> FALSE, how |-> None]

\* uuid4: an identity no one remembers.  Dispatch waits for one, so Execs
\* bounds the executions that are still unwinding at a time.
Fresh(e) ==
  /\ exec[e].pc = "idle"
  /\ ~Owner(e)
  /\ \A c \in Calls : calls[c].exec # e

FreshId == CHOOSE e \in Execs : Fresh(e)

Trouble(n) == /\ troubles + n <= MaxTroubles
              /\ troubles' = troubles + n

AtMost(a, b) == IF a < b THEN b ELSE a

Init ==
  /\ rec = None /\ cp = None /\ live = None
  /\ exec = [e \in Execs |-> Idle]
  /\ problem = FALSE
  /\ calls = [c \in Calls |-> IdleCall]
  /\ sent = 0 /\ lapse = 0 /\ acts = 0 /\ troubles = 0

(***************************************************************************)
(* Dispatch of a record r that was just saved: _dispatch_or_fail,          *)
(* _begin_execution and _start_execution, with no await between them.      *)
(***************************************************************************)
Begin(r, how) ==
  LET e == FreshId IN
  /\ \E f \in Execs : Fresh(f)
  /\ rec' = [r EXCEPT !.exec = e]
  /\ exec' = [exec EXCEPT ![e] = [Idle EXCEPT !.pc = "start", !.ctx = how]]
  /\ live' = e
  /\ problem' = FALSE
  /\ UNCHANGED <<lapse, troubles>>

\* The save of _begin_execution fails; the task is marked FAILED, or that
\* save fails too and the caller's error is all that is left.
BeginFails(r) ==
  /\ \/ /\ Trouble(1)
        /\ rec' = [r EXCEPT !.status = "FAILED"]
        /\ lapse' = AtMost(lapse, 1)
     \/ /\ Trouble(2)
        /\ rec' = r
        /\ lapse' = 2
  /\ UNCHANGED <<exec, live, problem>>

Dispatch(r, how) == Begin(r, how) \/ BeginFails(r)

CreateTask ==
  /\ rec = None
  /\ \E i \in Inputs : Dispatch(NewTask(i), "fresh")
  /\ UNCHANGED <<cp, calls, sent>>

(***************************************************************************)
(* The steps of an execution                                               *)
(***************************************************************************)
Exec(e, x) == exec' = [exec EXCEPT ![e] = x]

At(e, node) == exec[e].pc = node

\* Nothing but the execution itself changes.
OnlyExec == UNCHANGED <<rec, cp, live, problem, calls, sent, lapse, troubles>>

\* ... or but the execution and its checkpoint.
Quiet == UNCHANGED <<rec, live, problem, calls, sent, lapse, troubles>>

\* _execute reads the record it still owns; the ledger continues from it.
Start(e) ==
  LET x == [exec[e] EXCEPT !.mine = rec, !.ledger = rec.usage, !.ctx = None]
      started ==
        CASE exec[e].ctx = "fresh" -> [x EXCEPT !.pc = "delete"]
          [] exec[e].ctx = "interrupt" ->
               [x EXCEPT !.pc = "info", !.st = [cp.st EXCEPT !.version = rec.version, !.asks = @ + 1]]
          [] exec[e].ctx = "checkpoint" -> [x EXCEPT !.pc = cp.next, !.st = cp.st]
  IN  /\ At(e, "start")
      /\ Exec(e, IF Owner(e) THEN started ELSE Ending)
      /\ OnlyExec

\* A fresh run forgets the thread's checkpoints; the graph then writes its
\* first one.
DeleteThread(e) ==
  /\ At(e, "delete")
  /\ cp' = None
  /\ Exec(e, [exec[e] EXCEPT !.pc = "enter"])
  /\ Quiet

EnterGraph(e) ==
  LET s == FreshGraph(exec[e].mine.version) IN
  /\ At(e, "enter")
  /\ cp' = [next |-> "screen", asked |-> FALSE, st |-> s]
  /\ Exec(e, [exec[e] EXCEPT !.pc = "screen", !.st = s])
  /\ Quiet

\* The record that the end of the graph in state s leaves behind.
Outcome(x, s) ==
  Invalidated([x.mine EXCEPT !.status = s.status, !.draft = s.draft, !.awaiting = FALSE,
                             !.usage = x.ledger, !.worked = @ \/ s.tried])

\* An execution that has its result r and goes on to store it.
Concluding(r) == [Idle EXCEPT !.pc = "persist", !.mine = r]

\* A node of execution x = exec[e] ends in state s and the graph goes on to n.
\* Of a graph that is at its end, resume reads that fact only.
CommitAs(e, x, n, s) ==
  /\ cp' = [next |-> n, asked |-> FALSE, st |-> IF n = "end" THEN None ELSE s]
  /\ Exec(e, IF n = "end" THEN Concluding(Outcome(x, s))
                           ELSE [x EXCEPT !.pc = n, !.st = s, !.ctx = None])

Commit(e, n, s) == CommitAs(e, exec[e], n, s)

ScreenInput(e) ==
  LET s == exec[e].st IN
  /\ At(e, "screen")
  /\ \/ Commit(e, "info", s)
     \/ Commit(e, "end", [s EXCEPT !.status = "INPUT_REJECTED"])
  /\ Quiet

\* check_info asks at most MaxAsks times; the answer to the last question is
\* not looked at any more.
CheckInfo(e) ==
  LET s == exec[e].st
      asking == s.asks < MaxAsks /\ s.version \in Incomplete
  IN
  /\ At(e, "info")
  /\ \/ /\ s.asks >= MaxAsks
        /\ Commit(e, "end", [s EXCEPT !.status = "NEEDS_INFO"])
     \/ /\ asking
        /\ cp' = [next |-> "info", asked |-> TRUE, st |-> s]
        /\ Exec(e, Concluding([exec[e].mine EXCEPT !.status = "NEEDS_INFO", !.awaiting = TRUE,
                                                   !.usage = exec[e].ledger]))
     \/ /\ s.asks < MaxAsks /\ ~asking
        /\ \/ Commit(e, "retrieve", [s EXCEPT !.status = "RUNNING"])
           \/ Commit(e, "end", [s EXCEPT !.status = "FAILED"])
  /\ Quiet

\* The investigation lets the draft be written, fails, or asks the user.
RetrieveEvidence(e) ==
  LET s == exec[e].st IN
  /\ At(e, "retrieve")
  /\ \/ Commit(e, "generate", s)
     \/ \E v \in {"FAILED", "NEEDS_INFO"} : Commit(e, "end", [s EXCEPT !.status = v])
  /\ Quiet

Revision(s) == IF s.draft = None THEN s.rev ELSE s.rev + 1

\* Execution x = exec[e] gives up at a node: the investigation fails, or no
\* draft is written.
GiveUp(e, x, node) ==
  LET s == [x.st EXCEPT !.status = "FAILED"] IN
  IF node = "retrieve"
    THEN CommitAs(e, x, "end", s)
    ELSE CommitAs(e, x, "check", [s EXCEPT !.rev = Revision(s), !.tried = TRUE])

\* _post: the budget is asked, the request is counted and stored as pending,
\* then it is sent.  Both investigation and writing a draft send requests.
Post(e) ==
  LET x == exec[e]
      counted == [x EXCEPT !.ledger = @ + 1]
  IN
  /\ x.pc \in {"retrieve", "generate"}
  /\ \/ /\ x.ledger >= MaxRequests
        /\ GiveUp(e, x, x.pc)
        /\ Quiet
     \/ /\ x.ledger < MaxRequests /\ Owner(e)
        /\ rec' = [rec EXCEPT !.usage = counted.ledger]
        /\ Exec(e, [counted EXCEPT !.pc = "call", !.ctx = x.pc])
        /\ sent' = sent + 1
        /\ UNCHANGED <<cp, live, problem, calls, lapse, troubles>>
     \/ /\ x.ledger < MaxRequests
        /\ Owner(e) => troubles < MaxTroubles
        /\ troubles' = IF Owner(e) THEN troubles + 1 ELSE troubles
        /\ GiveUp(e, counted, x.pc)
        /\ UNCHANGED <<rec, live, problem, calls, sent, lapse>>

\* The model answers and the request is settled: the node goes on, or sends
\* another (transport, parsing and rounds each with attempts of their own),
\* or gives up.
Respond(e) ==
  LET s == exec[e].st
      node == exec[e].ctx
  IN
  /\ At(e, "call")
  /\ \/ /\ node = "generate"
        /\ \E m \in Materials :
             Commit(e, "check",
               [s EXCEPT !.rev = Revision(s), !.status = "RUNNING", !.tried = TRUE,
                         !.draft = [from |-> s.version, mat |-> m, scan |-> None]])
     \/ Exec(e, [exec[e] EXCEPT !.pc = node, !.ctx = None]) /\ UNCHANGED cp
     \/ GiveUp(e, exec[e], node)
  /\ Quiet

Scanned(d, i, res) == [d EXCEPT !.scan = [of |-> d.mat, by |-> i, res |-> res]]

\* A scan that failed has no items; a blocking one has some.  What was said
\* twice in a row (no progress) ends the revisions early.
RunCheck(e) ==
  LET s == exec[e].st IN
  /\ At(e, "check")
  /\ \/ s.status = "FAILED" /\ Commit(e, "finalize", s)
     \/ /\ s.status # "FAILED"
        /\ \E res \in {"PASSED", "BLOCKED", "FAILED"} :
             LET t == [s EXCEPT !.draft = Scanned(@, s.version, res)] IN
             \/ /\ res # "FAILED" /\ s.rev < MaxRevisions
                /\ Commit(e, "generate", t)
             \/ /\ res # "BLOCKED" \/ s.rev >= MaxRevisions \/ s.rev > 0
                /\ Commit(e, "finalize", t)
  /\ Quiet

Verdict(scan) == IF scan.res \in {"BLOCKED", "FAILED"} THEN "CHECK_BLOCKED" ELSE "DRAFT_READY"

Finalize(e) ==
  LET s == exec[e].st IN
  /\ At(e, "finalize")
  /\ Commit(e, "end", IF s.status = "FAILED" THEN s
                                             ELSE [s EXCEPT !.status = Verdict(s.draft.scan)])
  /\ Quiet

\* The task's time is up, or the workflow raised: FAILED, draft untouched.
Timeout(e) ==
  /\ exec[e].pc \in Working
  /\ Exec(e, Concluding([exec[e].mine EXCEPT !.status = "FAILED", !.usage = exec[e].ledger]))
  /\ OnlyExec

\* _persist_terminal: a bounded number of attempts by the owner of the record.
PersistTerminal(e) ==
  LET x == exec[e] IN
  /\ At(e, "persist")
  /\ \/ /\ rec' = IF Owner(e) THEN x.mine ELSE rec
        /\ Exec(e, Ending)
        /\ UNCHANGED <<problem, troubles>>
     \/ /\ Trouble(1)
        /\ IF x.tries + 1 < MaxPersist
             THEN Exec(e, [x EXCEPT !.tries = @ + 1]) /\ UNCHANGED problem
             ELSE Exec(e, [Idle EXCEPT !.pc = "lost"]) /\ problem' = TRUE
        /\ UNCHANGED rec
  /\ UNCHANGED <<cp, live, calls, sent, lapse>>

\* _on_execution_done releases its own entry of the table and no other.
OnExecutionDone(e) ==
  /\ exec[e].pc \in {"ending", "lost"}
  /\ Exec(e, Idle)
  /\ live' = IF live = e THEN None ELSE live
  /\ UNCHANGED <<rec, cp, problem, calls, sent, lapse, troubles>>

\* _await_execution is cancelled: the execution is told to stop and, if it
\* has no end on record yet, gets one.
Disconnect(e) ==
  /\ exec[e].pc \in Running \cup {"lost"}
  /\ Exec(e, Ending)
  /\ IF Owner(e) /\ rec.status \in InFlight
       THEN \/ rec' = [rec EXCEPT !.status = "FAILED"] /\ UNCHANGED <<problem, troubles>>
            \/ Trouble(1) /\ problem' = TRUE /\ UNCHANGED rec
       ELSE UNCHANGED <<rec, problem, troubles>>
  /\ UNCHANGED <<cp, live, calls, sent, lapse>>

(***************************************************************************)
(* Requests that wait between reading and writing.  Any of them may end    *)
(* without an effect: not authorized, refused input, a save that failed.   *)
(***************************************************************************)
Open == rec # None /\ rec.shelf = "active"

Refused(c) ==
  /\ calls[c].op # "idle"
  /\ calls' = [calls EXCEPT ![c] = IdleCall]
  /\ UNCHANGED <<rec, cp, exec, live, problem, sent, lapse, troubles>>

Call(c, x) == calls' = [calls EXCEPT ![c] = x]
OnlyCalls == UNCHANGED <<rec, cp, exec, live, problem, sent, lapse, troubles>>

ClarifyBegin(c) ==
  /\ calls[c].op = "idle" /\ Open
  /\ rec.status \in Resumable
  /\ Call(c, [IdleCall EXCEPT !.op = "clarify", !.status = rec.status])
  /\ OnlyCalls

\* The record is read (again, after the await) and that one is written.  A
\* graph that waits continues; otherwise the task runs from its beginning.
ClarifyWrite ==
  /\ \E i \in Inputs :
       LET r == [WithInput(rec, i) EXCEPT
                   !.awaiting = FALSE,
                   !.status = IF rec.awaiting THEN "RUNNING" ELSE "RECEIVED"]
       IN Dispatch(r, IF rec.awaiting THEN "interrupt" ELSE "fresh")
  /\ UNCHANGED <<cp, sent>>

\* Mutant of ClarifyCommit: only the shelf is looked at again.
ClarifyCommitAnyStatus(c) ==
  /\ calls[c].op = "clarify" /\ Open
  /\ ClarifyWrite
  /\ Call(c, IdleCall)

ClarifyCommit(c) ==
  /\ calls[c].op = "clarify" /\ Open
  /\ rec.status = calls[c].status
  /\ ClarifyWrite
  /\ Call(c, IdleCall)

\* Without an application to verify there is nothing to wait for.
Clarify ==
  /\ Open
  /\ rec.status \in Resumable
  /\ ClarifyWrite
  /\ UNCHANGED calls

\* resume, with or without new input, reads the record ...
ResumeBegin(c) ==
  /\ calls[c].op = "idle" /\ Open
  /\ rec.status \in Resumable /\ live = None
  /\ \E given \in BOOLEAN : \E i \in IF given THEN Inputs ELSE {rec.version} :
       Call(c, [op |-> "resume", exec |-> rec.exec, status |-> rec.status,
                input |-> i, given |-> given, how |-> None])
  /\ OnlyCalls

\* Mutant of ResumeInspect: an unfinished graph is continued for any input.
ResumeInspectAnyVersion(c) ==
  /\ calls[c].op = "resume" /\ calls[c].how = None
  /\ cp # None
  /\ cp.asked \/ cp.next # "end"
  /\ Call(c, [calls[c] EXCEPT !.how = IF cp.asked THEN "interrupt" ELSE "checkpoint"])
  /\ OnlyCalls

\* ... then the checkpoint, which must wait for input or belong to this one ...
ResumeInspect(c) ==
  /\ calls[c].op = "resume" /\ calls[c].how = None
  /\ cp # None
  /\ \/ cp.asked /\ Call(c, [calls[c] EXCEPT !.how = "interrupt"])
     \/ /\ ~cp.asked /\ cp.next # "end"
        /\ cp.st.version = calls[c].input
        /\ Call(c, [calls[c] EXCEPT !.how = "checkpoint"])
  /\ OnlyCalls

\* ... and writes if execution and status are still the ones it saw.
ResumeCommit(c) ==
  LET k == calls[c] IN
  /\ k.op = "resume" /\ k.how # None /\ Open
  /\ rec.exec = k.exec /\ rec.status = k.status /\ live = None
  /\ LET r == IF k.given THEN WithInput(rec, k.input) ELSE rec
     IN  Dispatch([r EXCEPT !.awaiting = FALSE, !.status = "RUNNING"], k.how)
  /\ Call(c, IdleCall)
  /\ UNCHANGED <<cp, sent>>

LinkBegin(c) ==
  /\ calls[c].op = "idle" /\ Open
  /\ live = None /\ rec.links # Changes
  /\ Call(c, [IdleCall EXCEPT !.op = "link"])
  /\ OnlyCalls

\* Mutant of LinkCommit: the shelf is not looked at again.
LinkCommitShelved(c) ==
  /\ calls[c].op = "link"
  /\ live = None
  /\ \E x \in Changes : rec' = [rec EXCEPT !.links = @ \cup {x}, !.worked = TRUE]
  /\ Call(c, IdleCall)
  /\ UNCHANGED <<cp, exec, live, problem, sent, lapse, troubles>>

LinkCommit(c) ==
  /\ calls[c].op = "link" /\ Open
  /\ live = None
  /\ \E x \in Changes : rec' = [rec EXCEPT !.links = @ \cup {x}, !.worked = TRUE]
  /\ Call(c, IdleCall)
  /\ UNCHANGED <<cp, exec, live, problem, sent, lapse, troubles>>

(***************************************************************************)
(* Requests without an await that suspends                                 *)
(***************************************************************************)
OnlyRec == UNCHANGED <<cp, exec, live, problem, calls, sent, lapse, troubles>>

\* The new status is stored first; only then is the execution told to stop.
Cancel ==
  /\ Open
  /\ rec' = [rec EXCEPT !.status = "CANCELLED", !.exec = None]
  /\ exec' = IF live # None /\ live = rec.exec /\ exec[live].pc \in Running
               THEN [exec EXCEPT ![live] = Ending] ELSE exec
  /\ UNCHANGED <<cp, live, problem, calls, sent, lapse, troubles>>

Confirm ==
  /\ Open
  /\ rec.status \in HasMaterial /\ rec.draft # None
  /\ LET c == [ver |-> rec.version, mat |-> rec.draft.mat, valid |-> TRUE] IN
       /\ c \notin rec.confs
       /\ Cardinality(rec.confs) < MaxConfirms
       /\ LET r == Invalidated(rec) IN
          rec' = [r EXCEPT !.confs = @ \cup {c}, !.worked = TRUE]
  /\ OnlyRec

\* The scan of edit_draft is local and does not suspend.
EditDraft ==
  /\ Open
  /\ rec.status \in HasMaterial /\ live = None /\ rec.draft # None
  /\ \E m \in Materials, res \in {"PASSED", "BLOCKED", "FAILED"} :
       LET d == Scanned([rec.draft EXCEPT !.mat = m], rec.version, res)
       IN  rec' = Invalidated([rec EXCEPT !.draft = d, !.status = Verdict(d.scan)])
  /\ OnlyRec

Settled == rec # None /\ rec.status \notin InFlight /\ live = None

ArchiveTask ==
  /\ Settled /\ rec.shelf = "active"
  /\ rec' = [rec EXCEPT !.shelf = "archived"]
  /\ OnlyRec

\* From the bin a task comes back to the archive, not to work.
RestoreTask ==
  /\ Settled /\ rec.shelf # "active"
  /\ rec' = [rec EXCEPT !.shelf = IF @ = "trash" THEN "archived" ELSE "active"]
  /\ OnlyRec

\* delete_preview allows it and the record is still the one previewed.
DeleteTask ==
  /\ Settled /\ rec.shelf = "archived"
  /\ rec.status \in {"FAILED", "CANCELLED", "INPUT_REJECTED"}
  /\ rec.draft = None /\ rec.confs = {} /\ rec.links = {} /\ ~rec.worked
  /\ rec' = [rec EXCEPT !.shelf = "trash"]
  /\ OnlyRec

\* The process stops; the next one marks what was under way.
Restart ==
  /\ Trouble(1)
  /\ exec' = [e \in Execs |-> Idle]
  /\ calls' = [c \in Calls |-> IdleCall]
  /\ live' = None /\ problem' = FALSE
  /\ rec' = IF rec # None /\ rec.status \in InFlight
              THEN [rec EXCEPT !.status = "FAILED", !.awaiting = FALSE] ELSE rec
  /\ UNCHANGED <<cp, sent, lapse>>

(***************************************************************************)
(* Specification                                                           *)
(***************************************************************************)
Step(e) ==
  /\ \/ Start(e) \/ DeleteThread(e) \/ EnterGraph(e) \/ ScreenInput(e) \/ CheckInfo(e)
     \/ RetrieveEvidence(e) \/ Post(e) \/ RunCheck(e) \/ Finalize(e)
     \/ Timeout(e) \/ PersistTerminal(e) \/ OnExecutionDone(e)
  /\ UNCHANGED acts

\* What a request does after an await, and what happens by itself.
Continue ==
  /\ \/ Restart
     \/ \E e \in Execs : Respond(e)
     \/ \E c \in Calls : \/ ClarifyCommit(c) \/ ResumeInspect(c) \/ ResumeCommit(c)
                         \/ LinkCommit(c) \/ Refused(c)
  /\ UNCHANGED acts

UserActs ==
  /\ acts < MaxActs
  /\ acts' = acts + 1
  /\ \/ CreateTask \/ Clarify \/ Cancel \/ Confirm \/ EditDraft
     \/ ArchiveTask \/ RestoreTask \/ DeleteTask
     \/ \E e \in Execs : Disconnect(e)
     \/ \E c \in Calls : ClarifyBegin(c) \/ ResumeBegin(c) \/ LinkBegin(c)

Next == UserActs \/ Continue \/ \E e \in Execs : Step(e)

Spec == Init /\ [][Next]_vars

(***************************************************************************)
(* Properties                                                              *)
(***************************************************************************)
Named(confs) == {<<c.ver, c.mat>> : c \in confs}

GraphRec ==
  [version : Inputs, draft : DraftRec \cup {None}, status : Statuses,
   asks : Nat, rev : Nat, tried : BOOLEAN]

CheckpointRec == [next : Nodes \cup {"end"}, asked : BOOLEAN, st : GraphRec \cup {None}]

Starts == {"fresh", "interrupt", "checkpoint"}
Asking == {"retrieve", "generate"}

ExecRec ==
  [pc : Running \cup {"idle", "ending", "lost"}, ctx : Starts \cup Asking \cup {None},
   mine : TaskRec \cup {None}, st : GraphRec \cup {None}, ledger : Nat, tries : Nat]

CallRec ==
  [op : {"idle", "clarify", "resume", "link"}, exec : Execs \cup {None},
   status : Resumable \cup {None}, input : Inputs \cup {None}, given : BOOLEAN,
   how : {"interrupt", "checkpoint", None}]

\* None is no value of the program: what it stands for is absent.
ASSUME NoneIsNothing ==
  None \notin TaskRec \cup DraftRec \cup ScanRec \cup GraphRec \cup CheckpointRec \cup Starts
            \cup Statuses

\* Record, checkpoint, executions, requests and counters keep the shapes that
\* TaskRepository, the graph and the service's tables give them.
TypeOK ==
  /\ rec \in TaskRec \cup {None}
  /\ cp \in CheckpointRec \cup {None}
  /\ exec \in [Execs -> ExecRec]
  /\ live \in Execs \cup {None}
  /\ problem \in BOOLEAN
  /\ calls \in [Calls -> CallRec]
  /\ sent \in Nat /\ lapse \in 0..2

\* A task that says it is under way has an execution that will end it, or the
\* service reports it as not stored; the one exception is a dispatch whose
\* two saves both failed, which its caller was told (service.py 8-9).
Supervised ==
  rec # None /\ rec.status \in InFlight =>
    \/ live # None /\ live = rec.exec /\ exec[live].pc \in Running
    \/ problem
    \/ lapse = 2

\* Whoever works on the thread without having been told to stop owns the
\* record, so no two executions drive one graph (service.py 499-501).
OneRunner == \A e \in Execs : exec[e].pc \in Running => Owner(e)

\* A task that waits for input has a graph that waits for it, and a task on
\* the shelf is not under way and has no execution that could still write to it.
WaitingAndShelved ==
  rec # None =>
    /\ rec.awaiting => cp # None /\ cp.asked
    /\ rec.shelf # "active" => /\ rec.status \notin InFlight
                              /\ \A e \in Execs : exec[e].pc \notin Running

\* Every model request that left the process is on record, over restarts,
\* cancellations and takeovers, and the budget is never passed
\* (service.py 1829-1830, budget.py 16-17).
RequestsAreCounted ==
  /\ sent <= MaxRequests
  /\ sent > 0 => rec # None /\ sent <= rec.usage
  /\ rec # None => rec.usage <= MaxRequests

\* A graph waits in the checkpoint, for an answer if that is how it is continued.
Continuable(how) == cp # None /\ cp.next # "end" /\ (how = "interrupt" => cp.asked)

\* What execution e may store as its result.
Concludes(e, r) ==
  /\ r \in TaskRec /\ r.exec = e /\ r.status \notin InFlight /\ r.shelf = "active"
  /\ r.links = rec.links /\ (rec.worked => r.worked)
  /\ Named(rec.confs) \subseteq Named(r.confs)
  /\ rec.usage <= r.usage /\ r.usage <= MaxRequests
  /\ r.awaiting => cp # None /\ cp.asked

\* While an execution runs, the table names it and nobody else writes the record: what
\* it read at its start still stands, but for the requests it has counted since.
Alone(e) ==
  LET x == exec[e] IN
  /\ x.pc \in Running => /\ live = e /\ rec.status \in InFlight
                         /\ rec.shelf = "active" /\ ~rec.awaiting
  /\ x.pc = "start" => x.ctx \in Starts /\ (x.ctx # "fresh" => Continuable(x.ctx))
  /\ x.pc \in Working => /\ x.mine \in TaskRec /\ x.mine = [rec EXCEPT !.usage = x.mine.usage]
                         /\ rec.usage <= x.ledger /\ x.ledger <= MaxRequests
  /\ x.pc = "call" => x.ctx \in Asking
  /\ x.pc = "persist" => Concludes(e, x.mine)

RunnerIsAlone == \A e \in Execs : Alone(e)

\* The record is still the one that request c saw when it began to resume the task.
Unmoved(c) == rec.exec = calls[c].exec /\ rec.status # "CANCELLED"

\* The execution a resume remembers runs no more, and the graph it has looked at waits
\* as long as the record has not moved on.
ResumeSafe(c) == calls[c].op = "resume" =>
  /\ rec # None /\ calls[c].status # None /\ calls[c].input # None
  /\ calls[c].exec \in Execs => exec[calls[c].exec].pc \notin Running
  /\ calls[c].how # None /\ Unmoved(c) => Continuable(calls[c].how)

ResumesAreSafe == \A c \in Calls : ResumeSafe(c)

\* How executions, record, table and ledger fit together.
ExecutionsHold ==
  /\ TypeOK /\ Supervised /\ OneRunner /\ WaitingAndShelved /\ RequestsAreCounted
  /\ RunnerIsAlone /\ ResumesAreSafe

\* The draft of record r was made from its input, whichever of runs, clarifications and
\* checkpoints it came through.  A dispatch that could not be stored keeps the execution
\* identity a resume compares, so after one this is not claimed.
DraftMatchesInput(r) == lapse = 0 /\ r.draft # None => r.draft.from = r.version

\* What is called ready passed a scan of exactly this content.
ReadyIsScanned(r) ==
  r.status = "DRAFT_READY" =>
    /\ r.draft # None /\ r.draft.scan # None
    /\ r.draft.scan.of = r.draft.mat /\ r.draft.scan.res = "PASSED"
    /\ lapse = 0 => r.draft.scan.by = r.version

\* A confirmation that counts is one of the present input and content.
ConfirmedIsCurrent(r) ==
  \A c \in r.confs : c.valid => r.draft # None /\ c.ver = r.version /\ c.mat = r.draft.mat

Fits(r) == DraftMatchesInput(r) /\ ReadyIsScanned(r) /\ ConfirmedIsCurrent(r)

\* What the graph has made by the time it comes to node n in state s.
GraphFits(n, s) ==
  /\ s \in GraphRec
  /\ s.draft # None => s.draft.from = s.version
  /\ n \in {"screen", "info", "retrieve"} => s.draft = None
  /\ n \in {"check", "finalize"} /\ s.status # "FAILED" => s.draft # None
  /\ n = "finalize" /\ s.status # "FAILED" =>
       s.draft.scan # None /\ s.draft.scan.of = s.draft.mat /\ s.draft.scan.by = s.version

\* The graph of an execution works on the input on record, and what it will store fits.
RunFits(e) ==
  LET x == exec[e]
      node == IF x.pc = "call" THEN x.ctx ELSE x.pc
  IN
  /\ x.pc = "start" /\ x.ctx = "checkpoint" /\ lapse = 0 => cp.st.version = rec.version
  /\ x.pc \in Nodes \cup {"call"} => /\ GraphFits(node, x.st)
                                     /\ lapse = 0 => x.st.version = rec.version
  /\ x.pc = "persist" => Fits(x.mine)

\* So does the graph that waits in the checkpoint ...
CheckpointFits ==
  cp # None => /\ cp.asked => cp.next = "info"
               /\ cp.next # "end" => GraphFits(cp.next, cp.st)

\* ... for whoever is about to resume it.
ResumeFits(c) ==
  calls[c].op = "resume" /\ Unmoved(c) /\ lapse = 0 =>
    /\ ~calls[c].given => calls[c].input = rec.version
    /\ calls[c].how = "checkpoint" => cp.st.version = calls[c].input

\* Draft, scan, confirmation and input belong together.
MaterialHolds ==
  /\ rec # None => Fits(rec)
  /\ \A e \in Execs : RunFits(e)
  /\ CheckpointFits
  /\ \A c \in Calls : ResumeFits(c)

\* Whatever is written by whichever request or execution, nothing on record
\* is taken back by a writer that read it earlier: links, confirmations and
\* the ledger only grow, a cancelled task stays cancelled, and a shelved
\* record changes its shelf only (service.py 353-354, 509-511).
RecordIsKept ==
  [][rec # None =>
       /\ rec.links \subseteq rec'.links
       /\ rec.usage <= rec'.usage
       /\ Named(rec.confs) \subseteq Named(rec'.confs)
       /\ rec.worked => rec'.worked
       /\ rec.status = "CANCELLED" => rec'.status = "CANCELLED"
       /\ rec.shelf # "active" => rec' = [rec EXCEPT !.shelf = rec'.shelf]]_rec
=============================================================================
