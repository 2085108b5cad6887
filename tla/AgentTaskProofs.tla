--------------------------- MODULE AgentTaskProofs ---------------------------
(***************************************************************************)
(* Proofs about AgentTasks, for any inputs, drafts, requests in flight,    *)
(* executions, budgets and failures.                                       *)
(***************************************************************************)
EXTENDS AgentTasks, TLAPS

TaskInv == ExecutionsHold /\ MaterialHolds

-----------------------------------------------------------------------------
(* Records. *)

\* Marking confirmations keeps the record, names the same confirmations and leaves
\* those valid that are of the present input and content.
LEMMA Marking ==
  ASSUME NEW r \in TaskRec
  PROVE  LET i == Invalidated(r) IN
         /\ i \in TaskRec
         /\ i = [r EXCEPT !.confs = i.confs]
         /\ Named(i.confs) = Named(r.confs)
         /\ ConfirmedIsCurrent(i)
<1> DEFINE Cur(c) == r.draft # None /\ c.ver = r.version /\ c.mat = r.draft.mat
           mark(c) == [c EXCEPT !.valid = @ /\ Cur(c)]
           new == {mark(c) : c \in r.confs}
           i == [r EXCEPT !.confs = new]
<1>1. r.confs \subseteq ConfirmRec
  BY DEF TaskRec
<1>2. ASSUME NEW c \in ConfirmRec
      PROVE  /\ mark(c) \in ConfirmRec /\ mark(c).ver = c.ver /\ mark(c).mat = c.mat
             /\ mark(c).valid => Cur(c)
  <2>1. mark(c) = [ver |-> c.ver, mat |-> c.mat, valid |-> c.valid /\ Cur(c)]
    BY DEF ConfirmRec
  <2> HIDE DEF Cur
  <2>2. c.ver \in Inputs /\ c.mat \in Materials /\ c.valid \in BOOLEAN
    BY DEF ConfirmRec
  <2>3. (c.valid /\ Cur(c)) \in BOOLEAN
    BY <2>2
  <2> DEFINE b == c.valid /\ Cur(c)
  <2>4. b => Cur(c)
    OBVIOUS
  <2> HIDE DEF b
  <2>5. /\ [ver |-> c.ver, mat |-> c.mat, valid |-> b].ver = c.ver
        /\ [ver |-> c.ver, mat |-> c.mat, valid |-> b].mat = c.mat
        /\ [ver |-> c.ver, mat |-> c.mat, valid |-> b].valid = b
    OBVIOUS
  <2>6. [ver |-> c.ver, mat |-> c.mat, valid |-> b] \in ConfirmRec
    BY <2>2, <2>3 DEF ConfirmRec, b
  <2> HIDE DEF mark
  <2>7. QED
    BY <2>1, <2>4, <2>5, <2>6 DEF b
<1>3. Invalidated(r) = i
  BY DEF Invalidated
<1> HIDE DEF mark
<1>4. new \subseteq ConfirmRec
  BY <1>1, <1>2
<1>5. Named(new) = Named(r.confs)
  BY <1>1, <1>2 DEF Named
<1>6. \A c \in new : c.valid => r.draft # None /\ c.ver = r.version /\ c.mat = r.draft.mat
  BY <1>1, <1>2
<1> HIDE DEF new
<1>7. /\ i \in TaskRec /\ i.confs = new /\ i.draft = r.draft /\ i.version = r.version
  BY <1>4 DEF TaskRec
<1>8. ConfirmedIsCurrent(i)
  BY <1>6, <1>7 DEF ConfirmedIsCurrent
<1> HIDE DEF i
<1>9. i = [r EXCEPT !.confs = i.confs]
  BY <1>7 DEF i
<1>10. QED
  BY <1>3, <1>5, <1>7, <1>8, <1>9

-----------------------------------------------------------------------------
(* How steps keep the invariant: by whom the record may be written. *)

Nobody == \A e \in Execs : exec[e].pc \notin Running

\* Nothing is asked of an execution that does not run.
LEMMA Resting ==
  ASSUME NEW e \in Execs, exec[e].pc \notin Running
  PROVE  Alone(e) /\ RunFits(e)
BY DEF Alone, RunFits, Running, Working, Nodes

\* Who runs is the one owner, known to the table, and no resume remembers it.
LEMMA TheRunner ==
  ASSUME TaskInv, NEW e \in Execs, exec[e].pc \in Running
  PROVE  /\ rec \in TaskRec /\ rec.exec = e /\ live = e
         /\ rec.status \in InFlight /\ rec.shelf = "active" /\ ~rec.awaiting
         /\ \A f \in Execs : f # e => exec[f].pc \notin Running
         /\ \A c \in Calls : calls[c].op = "resume" => calls[c].exec # e /\ ~Unmoved(c)
<1>1. rec \in TaskRec /\ rec.exec = e
  BY DEF TaskInv, ExecutionsHold, OneRunner, Owner, TypeOK
<1>2. Alone(e)
  BY DEF TaskInv, ExecutionsHold, RunnerIsAlone
<1>3. \A f \in Execs : f # e => exec[f].pc \notin Running
  BY <1>1 DEF TaskInv, ExecutionsHold, OneRunner, Owner
<1>4. ASSUME NEW c \in Calls, calls[c].op = "resume"
      PROVE  calls[c].exec # e /\ ~Unmoved(c)
  <2>1. ResumeSafe(c)
    BY DEF TaskInv, ExecutionsHold, ResumesAreSafe
  <2>2. QED
    BY <1>1, <1>4, <2>1 DEF ResumeSafe, Unmoved
<1>5. QED
  BY <1>1, <1>2, <1>3, <1>4 DEF Alone

\* A step of the one that runs, after which it runs still.
LEMMA RunnerGoesOn ==
  ASSUME TaskInv, NEW e \in Execs, exec[e].pc \in Running,
         NEW x \in ExecRec, x.pc \in Running, exec' = [exec EXCEPT ![e] = x],
         rec' \in TaskRec, rec' = [rec EXCEPT !.usage = rec'.usage],
         cp' \in CheckpointRec \cup {None}, CheckpointFits',
         Alone(e)', RunFits(e)', RequestsAreCounted', sent' \in Nat,
         UNCHANGED <<live, problem, calls, lapse>>
  PROVE  TaskInv'
<1>1. /\ rec \in TaskRec /\ rec.exec = e /\ live = e
      /\ rec.status \in InFlight /\ rec.shelf = "active" /\ ~rec.awaiting
      /\ \A f \in Execs : f # e => exec[f].pc \notin Running
      /\ \A c \in Calls : calls[c].op = "resume" => calls[c].exec # e /\ ~Unmoved(c)
  BY TheRunner
<1>2. /\ rec'.exec = e /\ rec'.status = rec.status /\ rec'.shelf = rec.shelf
      /\ rec'.awaiting = rec.awaiting /\ rec'.version = rec.version /\ rec'.draft = rec.draft
      /\ rec'.confs = rec.confs
  BY <1>1 DEF TaskRec
<1>t. TypeOK
  BY DEF TaskInv, ExecutionsHold
<1>3. exec'[e] = x /\ \A f \in Execs : f # e => exec'[f] = exec[f]
  BY <1>t DEF TypeOK
<1>4. TypeOK'
  BY <1>t DEF TypeOK
<1>n. e # None /\ rec # None /\ rec' # None
  BY <1>1, NoneIsNothing, AgentTaskAssumptions
<1>5. Supervised'
  BY <1>1, <1>2, <1>3, <1>n DEF Supervised
<1>6. OneRunner'
  <2>1. \A f \in Execs : exec'[f].pc \in Running => f = e
    BY <1>1, <1>3
  <2>2. Owner(e)'
    BY <1>2, <1>n DEF Owner
  <2>3. QED
    BY <2>1, <2>2 DEF OneRunner
<1>7. WaitingAndShelved'
  BY <1>1, <1>2 DEF WaitingAndShelved
<1>8. \A f \in Execs : Alone(f)' /\ RunFits(f)'
  <2>1. ASSUME NEW f \in Execs, f # e
        PROVE  Alone(f)' /\ RunFits(f)'
    <3>1. exec'[f].pc \notin Running
      BY <1>1, <1>3, <2>1
    <3>2. QED
      BY <3>1 DEF Alone, RunFits, Running, Working, Nodes
  <2>2. QED
    BY <2>1
<1>9. \A c \in Calls : ResumeSafe(c)' /\ ResumeFits(c)'
  <2>1. ASSUME NEW c \in Calls, calls[c].op = "resume"
        PROVE  ResumeSafe(c)' /\ ResumeFits(c)'
    <3>1. ResumeSafe(c) /\ calls[c].exec # e
      BY <1>1, <2>1 DEF TaskInv, ExecutionsHold, ResumesAreSafe
    <3>2. ~Unmoved(c)'
      BY <1>2, <3>1 DEF Unmoved
    <3>3. QED
      BY <1>3, <1>n, <2>1, <3>1, <3>2 DEF ResumeSafe, ResumeFits
  <2>2. ASSUME NEW c \in Calls, calls[c].op # "resume"
        PROVE  ResumeSafe(c)' /\ ResumeFits(c)'
    BY <2>2 DEF ResumeSafe, ResumeFits
  <2>3. QED
    BY <2>1, <2>2
<1>10. Fits(rec)'
  <2>1. Fits(rec)
    BY <1>n DEF TaskInv, MaterialHolds
  <2>2. QED
    BY <1>2, <2>1 DEF Fits, DraftMatchesInput, ReadyIsScanned, ConfirmedIsCurrent
<1>11. QED
  BY <1>4, <1>5, <1>6, <1>7, <1>8, <1>9, <1>10
     DEF TaskInv, ExecutionsHold, MaterialHolds, RunnerIsAlone, ResumesAreSafe

\* A step after which nobody runs.  A resume that waits is not led to take the record
\* for the one it saw, or the graph and the input are the ones it saw.
LEMMA NobodyRuns ==
  ASSUME TaskInv, Nobody', exec' \in [Execs -> ExecRec],
         rec' \in TaskRec, cp' = cp, live' \in Execs \cup {None}, problem' \in BOOLEAN,
         sent' = sent, lapse' \in 0..2, lapse' = 0 => lapse = 0,
         calls' \in [Calls -> CallRec],
         \A c \in Calls : calls'[c].op = "resume" =>
           /\ rec # None /\ calls'[c] = calls[c]
           /\ Unmoved(c)' => Unmoved(c) /\ (lapse' = 0 => rec'.version = rec.version),
         rec'.status \in InFlight => problem' \/ lapse' = 2,
         rec'.shelf # "active" => rec'.status \notin InFlight,
         rec'.awaiting => cp # None /\ cp.asked,
         RequestsAreCounted', Fits(rec)'
  PROVE  TaskInv'
<1>t. TypeOK
  BY DEF TaskInv, ExecutionsHold
<1>1. TypeOK'
  BY <1>t DEF TypeOK
<1>n. rec' # None
  BY NoneIsNothing
<1>2. Supervised' /\ OneRunner' /\ WaitingAndShelved'
  BY DEF Supervised, OneRunner, WaitingAndShelved, Nobody
<1>3. \A f \in Execs : Alone(f)' /\ RunFits(f)'
  <2>1. ASSUME NEW f \in Execs
        PROVE  Alone(f)' /\ RunFits(f)'
    <3>1. exec'[f].pc \notin Running
      BY DEF Nobody
    <3>2. QED
      BY <3>1 DEF Alone, RunFits, Running, Working, Nodes
  <2>2. QED
    BY <2>1
<1>4. \A c \in Calls : ResumeSafe(c)' /\ ResumeFits(c)'
  <2>1. ASSUME NEW c \in Calls, calls'[c].op = "resume"
        PROVE  ResumeSafe(c)' /\ ResumeFits(c)'
    <3>1. ResumeSafe(c) /\ ResumeFits(c) /\ calls'[c] = calls[c]
      BY <2>1 DEF TaskInv, ExecutionsHold, ResumesAreSafe, MaterialHolds
    <3>2. Unmoved(c)' => Unmoved(c) /\ (lapse' = 0 => rec'.version = rec.version)
      BY <2>1
    <3>3. calls[c].exec \in Execs => exec'[calls[c].exec].pc \notin Running
      BY DEF Nobody
    <3>4. ResumeSafe(c)'
      BY <1>n, <2>1, <3>1, <3>2, <3>3 DEF ResumeSafe, Continuable
    <3>5. ResumeFits(c)'
      BY <2>1, <3>1, <3>2 DEF ResumeFits
    <3>6. QED
      BY <3>4, <3>5
  <2>2. ASSUME NEW c \in Calls, calls'[c].op # "resume"
        PROVE  ResumeSafe(c)' /\ ResumeFits(c)'
    BY <2>2 DEF ResumeSafe, ResumeFits
  <2>3. QED
    BY <2>1, <2>2
<1>5. CheckpointFits'
  BY DEF TaskInv, MaterialHolds, CheckpointFits, GraphFits
<1>6. QED
  BY <1>1, <1>2, <1>3, <1>4, <1>5
     DEF TaskInv, ExecutionsHold, MaterialHolds, RunnerIsAlone, ResumesAreSafe

\* A request in flight moves on; nothing else does.
LEMMA CallMoves ==
  ASSUME TaskInv, NEW c \in Calls, NEW k \in CallRec, Call(c, k), OnlyCalls,
         ResumeSafe(c)', ResumeFits(c)'
  PROVE  TaskInv'
<1>t. TypeOK
  BY DEF TaskInv, ExecutionsHold
<1>1. calls' = [calls EXCEPT ![c] = k] /\ UNCHANGED <<rec, cp, exec, live, problem, sent, lapse>>
  BY DEF Call, OnlyCalls
<1>2. TypeOK'
  BY <1>t, <1>1 DEF TypeOK
<1>3. Supervised' /\ OneRunner' /\ WaitingAndShelved' /\ RequestsAreCounted'
  BY <1>1 DEF TaskInv, ExecutionsHold, Supervised, OneRunner, Owner, WaitingAndShelved, RequestsAreCounted
<1>4. \A e \in Execs : Alone(e)' /\ RunFits(e)'
  BY <1>1 DEF TaskInv, ExecutionsHold, MaterialHolds, RunnerIsAlone, Alone, RunFits, Concludes,
     Continuable, Fits, DraftMatchesInput, ReadyIsScanned, ConfirmedIsCurrent, GraphFits
<1>5. (rec' # None => Fits(rec)') /\ CheckpointFits'
  BY <1>1 DEF TaskInv, MaterialHolds, Fits, DraftMatchesInput, ReadyIsScanned,
     ConfirmedIsCurrent, CheckpointFits, GraphFits
<1>6. ASSUME NEW d \in Calls
      PROVE  ResumeSafe(d)' /\ ResumeFits(d)'
  <2>1. CASE d = c
    BY <2>1
  <2>2. CASE d # c
    <3>1. calls'[d] = calls[d]
      BY <1>t, <1>1, <2>2 DEF TypeOK
    <3>2. ResumeSafe(d) /\ ResumeFits(d)
      BY DEF TaskInv, ExecutionsHold, MaterialHolds, ResumesAreSafe
    <3>3. QED
      BY <1>1, <3>1, <3>2 DEF ResumeSafe, ResumeFits, Unmoved, Continuable
  <2>3. QED
    BY <2>1, <2>2
<1>7. QED
  BY <1>2, <1>3, <1>4, <1>5, <1>6
     DEF TaskInv, ExecutionsHold, MaterialHolds, RunnerIsAlone, ResumesAreSafe

\* A request that is done remembers nothing.
LEMMA CallEnds == IdleCall \in CallRec /\ IdleCall.op = "idle"
BY DEF IdleCall, CallRec

\* What is written to an execution is one.
LEMMA ExecShapes ==
  /\ Idle \in ExecRec /\ Ending \in ExecRec /\ [Idle EXCEPT !.pc = "lost"] \in ExecRec
  /\ Idle.pc = "idle" /\ Ending.pc = "ending" /\ [Idle EXCEPT !.pc = "lost"].pc = "lost"
  /\ {"idle", "ending", "lost"} \cap Running = {}
  /\ \A how \in Starts : /\ [Idle EXCEPT !.pc = "start", !.ctx = how] \in ExecRec
                         /\ [Idle EXCEPT !.pc = "start", !.ctx = how].pc = "start"
                         /\ [Idle EXCEPT !.pc = "start", !.ctx = how].ctx = how
  /\ \A r \in TaskRec : Concluding(r) \in ExecRec /\ Concluding(r).pc = "persist" /\ Concluding(r).mine = r
BY DEF Idle, Ending, ExecRec, Running, Working, Nodes, Starts, Concluding

\* A dispatch that begins: nobody ran, and the new execution has an identity that no
\* request remembers.
LEMMA BeginKeeps ==
  ASSUME TaskInv, Nobody, NEW r \in TaskRec, NEW how \in Starts, Begin(r, how),
         cp' = cp, sent' = sent, calls' \in [Calls -> CallRec],
         \A c \in Calls : calls'[c].op = "resume" => calls'[c] = calls[c],
         r.status \in InFlight, r.shelf = "active", ~r.awaiting,
         how # "fresh" => Continuable(how),
         how = "checkpoint" /\ lapse = 0 => cp.st.version = r.version,
         sent <= r.usage, r.usage <= MaxRequests, Fits(r)
  PROVE  TaskInv'
<1> DEFINE x == [Idle EXCEPT !.pc = "start", !.ctx = how]
<1>t. TypeOK
  BY DEF TaskInv, ExecutionsHold
<1>0. FreshId \in Execs /\ Fresh(FreshId)
  BY DEF Begin, FreshId
<1>1. PICK e \in Execs : /\ Fresh(e)
                         /\ rec' = [r EXCEPT !.exec = e] /\ exec' = [exec EXCEPT ![e] = x]
                         /\ live' = e
  BY <1>0 DEF Begin
<1>2. /\ rec' = [r EXCEPT !.exec = e] /\ exec' = [exec EXCEPT ![e] = x]
      /\ live' = e /\ problem' = FALSE /\ UNCHANGED lapse
  BY <1>1 DEF Begin
<1>3. /\ rec' \in TaskRec /\ rec'.exec = e /\ rec'.status = r.status /\ rec'.shelf = r.shelf
      /\ rec'.awaiting = r.awaiting /\ rec'.usage = r.usage /\ rec'.version = r.version
      /\ rec'.draft = r.draft /\ rec'.confs = r.confs
  BY <1>1, <1>2 DEF TaskRec
<1>x. x \in ExecRec /\ x.pc = "start" /\ x.ctx = how
  BY ExecShapes
<1> HIDE DEF x
<1>4. exec'[e] = x /\ \A f \in Execs : f # e => exec'[f] = exec[f]
  BY <1>t, <1>1, <1>2 DEF TypeOK
<1>5. TypeOK'
  BY <1>t, <1>1, <1>2, <1>3, <1>x DEF TypeOK
<1>n. e # None /\ rec' # None
  BY <1>1, <1>3, NoneIsNothing, AgentTaskAssumptions
<1>s. "start" \in Running /\ "start" \notin Working /\ "start" # "persist" /\ "start" # "call"
      /\ "start" \notin Nodes
  BY DEF Running, Working, Nodes
<1>6. Supervised' /\ WaitingAndShelved'
  BY <1>2, <1>3, <1>4, <1>x, <1>n, <1>s DEF Supervised, WaitingAndShelved
<1>7. OneRunner'
  <2>1. \A f \in Execs : exec'[f].pc \in Running => f = e
    BY <1>4 DEF Nobody
  <2>2. QED
    BY <1>3, <1>n, <2>1 DEF OneRunner, Owner
<1>8. RequestsAreCounted'
  <2>1. r.usage \in Nat /\ sent \in Nat /\ MaxRequests \in Nat
    BY <1>t, AgentTaskAssumptions DEF TaskRec, TypeOK
  <2>2. QED
    BY <1>3, <1>n, <2>1 DEF RequestsAreCounted
<1>9. ASSUME NEW f \in Execs
      PROVE  Alone(f)' /\ RunFits(f)'
  <2>1. CASE f = e
    <3>1. Alone(e)'
      BY <1>2, <1>3, <1>4, <1>x, <1>s DEF Alone, Continuable
    <3>2. RunFits(e)'
      BY <1>2, <1>3, <1>4, <1>x, <1>s DEF RunFits
    <3>3. QED
      BY <2>1, <3>1, <3>2
  <2>2. CASE f # e
    <3>1. exec'[f].pc \notin Running
      BY <1>4, <2>2 DEF Nobody
    <3>2. QED
      BY <3>1 DEF Alone, RunFits, Running, Working, Nodes
  <2>3. QED
    BY <2>1, <2>2
<1>10. ASSUME NEW c \in Calls
       PROVE  ResumeSafe(c)' /\ ResumeFits(c)'
  <2>1. CASE calls'[c].op = "resume"
    <3>1. calls'[c] = calls[c] /\ calls[c].exec # e /\ ResumeSafe(c)
      BY <1>1, <2>1 DEF Fresh, TaskInv, ExecutionsHold, ResumesAreSafe
    <3>2. ~Unmoved(c)'
      BY <1>3, <3>1 DEF Unmoved
    <3>3. calls[c].exec \in Execs => exec'[calls[c].exec].pc \notin Running
      BY <1>4, <3>1 DEF Nobody
    <3>4. QED
      BY <1>n, <2>1, <3>1, <3>2, <3>3 DEF ResumeSafe, ResumeFits
  <2>2. CASE calls'[c].op # "resume"
    BY <2>2 DEF ResumeSafe, ResumeFits
  <2>3. QED
    BY <2>1, <2>2
<1>11. Fits(rec)'
  BY <1>2, <1>3 DEF Fits, DraftMatchesInput, ReadyIsScanned, ConfirmedIsCurrent
<1>12. CheckpointFits'
  BY DEF TaskInv, MaterialHolds, CheckpointFits, GraphFits
<1>13. QED
  BY <1>5, <1>6, <1>7, <1>8, <1>9, <1>10, <1>11, <1>12
     DEF TaskInv, ExecutionsHold, MaterialHolds, RunnerIsAlone, ResumesAreSafe

-----------------------------------------------------------------------------
(* The steps of the one that runs. *)

\* Nothing but the execution and its checkpoint changes, or a failure is counted.
Still == UNCHANGED <<rec, live, problem, calls, sent, lapse>>

\* The record that the end of the graph leaves behind.
LEMMA OutcomeOf ==
  ASSUME NEW x \in ExecRec, x.mine \in TaskRec, NEW s \in GraphRec
  PROVE  LET o == Outcome(x, s) IN
         /\ o \in TaskRec
         /\ o.status = s.status /\ o.draft = s.draft /\ o.awaiting = FALSE /\ o.usage = x.ledger
         /\ o.exec = x.mine.exec /\ o.version = x.mine.version /\ o.shelf = x.mine.shelf
         /\ o.links = x.mine.links /\ (x.mine.worked => o.worked)
         /\ Named(o.confs) = Named(x.mine.confs)
         /\ ConfirmedIsCurrent(o)
<1> DEFINE m == x.mine
           w == m.worked \/ s.tried
           r == [m EXCEPT !.status = s.status, !.draft = s.draft, !.awaiting = FALSE,
                          !.usage = x.ledger, !.worked = w]
           o == Invalidated(r)
<1>1. w \in BOOLEAN /\ (m.worked => w)
  OBVIOUS
<1>2. s.status \in Statuses /\ s.draft \in DraftRec \cup {None} /\ x.ledger \in Nat
  BY DEF GraphRec, ExecRec
<1>3. Outcome(x, s) = o
  BY DEF Outcome
<1> HIDE DEF w, m
<1>m. m \in TaskRec
  BY DEF m
<1>4. /\ r \in TaskRec
      /\ r.status = s.status /\ r.draft = s.draft /\ r.awaiting = FALSE /\ r.usage = x.ledger
      /\ r.exec = m.exec /\ r.version = m.version /\ r.shelf = m.shelf
      /\ r.links = m.links /\ r.worked = w /\ r.confs = m.confs
  BY <1>1, <1>2, <1>m DEF TaskRec
<1> HIDE DEF r
<1>5. /\ o \in TaskRec /\ o = [r EXCEPT !.confs = o.confs]
      /\ Named(o.confs) = Named(r.confs) /\ ConfirmedIsCurrent(o)
  BY <1>4, Marking
<1> HIDE DEF o
<1>6. /\ o.status = r.status /\ o.draft = r.draft /\ o.awaiting = r.awaiting /\ o.usage = r.usage
      /\ o.exec = r.exec /\ o.version = r.version /\ o.shelf = r.shelf
      /\ o.links = r.links /\ o.worked = r.worked
  BY <1>4, <1>5 DEF TaskRec
<1>7. QED
  BY <1>1, <1>3, <1>4, <1>5, <1>6 DEF m

\* What holds of the execution that works.
LEMMA TheWorker ==
  ASSUME TaskInv, NEW e \in Execs, exec[e].pc \in Working
  PROVE  /\ exec[e] \in ExecRec /\ exec[e].pc \in Running
         /\ exec[e].mine \in TaskRec
         /\ exec[e].mine.exec = e /\ exec[e].mine.status = rec.status
         /\ exec[e].mine.shelf = "active" /\ exec[e].mine.awaiting = FALSE
         /\ exec[e].mine.links = rec.links /\ exec[e].mine.worked = rec.worked
         /\ exec[e].mine.confs = rec.confs /\ exec[e].mine.version = rec.version
         /\ exec[e].mine.draft = rec.draft
         /\ rec.usage <= exec[e].ledger /\ exec[e].ledger <= MaxRequests
         /\ rec.usage \in Nat /\ exec[e].ledger \in Nat /\ MaxRequests \in Nat /\ sent \in Nat
         /\ sent <= rec.usage /\ rec # None
<1>1. exec[e].pc \in Running
  BY DEF Running
<1>2. exec[e] \in ExecRec /\ sent \in Nat /\ rec.awaiting \in BOOLEAN
  BY <1>1, TheRunner DEF TaskInv, ExecutionsHold, TypeOK, TaskRec
<1>3. /\ rec \in TaskRec /\ rec.exec = e /\ rec.shelf = "active" /\ ~rec.awaiting /\ rec # None
  BY <1>1, TheRunner, NoneIsNothing
<1>4. /\ exec[e].mine \in TaskRec /\ exec[e].mine = [rec EXCEPT !.usage = exec[e].mine.usage]
      /\ rec.usage <= exec[e].ledger /\ exec[e].ledger <= MaxRequests
  BY DEF TaskInv, ExecutionsHold, RunnerIsAlone, Alone
<1> DEFINE u == exec[e].mine.usage
           m == [rec EXCEPT !.usage = u]
<1>5. /\ m.exec = rec.exec /\ m.status = rec.status /\ m.shelf = rec.shelf
      /\ m.awaiting = rec.awaiting /\ m.links = rec.links /\ m.worked = rec.worked
      /\ m.confs = rec.confs /\ m.version = rec.version /\ m.draft = rec.draft
  BY <1>3 DEF TaskRec
<1>6. exec[e].mine = m
  BY <1>4
<1> HIDE DEF m
<1>7. rec.usage \in Nat /\ exec[e].ledger \in Nat /\ MaxRequests \in Nat
  BY <1>2, <1>3, AgentTaskAssumptions DEF TaskRec, ExecRec
<1>8. sent <= rec.usage
  BY <1>2, <1>7 DEF TaskInv, ExecutionsHold, RequestsAreCounted
<1>9. QED
  BY <1>1, <1>2, <1>3, <1>4, <1>5, <1>6, <1>7, <1>8

\* The one that runs has its result and goes on to store it.
LEMMA ConcludeKeeps ==
  ASSUME TaskInv, NEW e \in Execs, exec[e].pc \in Working,
         NEW r \in TaskRec, Exec(e, Concluding(r)), Still,
         cp' \in CheckpointRec \cup {None}, CheckpointFits',
         r.exec = e, r.status \notin InFlight, r.shelf = "active",
         r.links = rec.links, rec.worked => r.worked,
         Named(rec.confs) \subseteq Named(r.confs),
         rec.usage <= r.usage, r.usage <= MaxRequests,
         r.awaiting => cp' # None /\ cp'.asked, Fits(r)
  PROVE  TaskInv'
<1> DEFINE x == Concluding(r)
<1>1. exec[e].pc \in Running /\ rec \in TaskRec
  BY TheWorker, TheRunner
<1>2. x \in ExecRec /\ x.pc = "persist" /\ x.mine = r /\ x.pc \in Running
  BY ExecShapes DEF Running
<1> HIDE DEF x
<1>3. /\ exec' = [exec EXCEPT ![e] = x] /\ UNCHANGED <<rec, live, problem, calls, sent, lapse>>
  BY DEF Exec, Still, x
<1>4. exec'[e] = x
  BY <1>3 DEF TaskInv, ExecutionsHold, TypeOK
<1>5. rec' \in TaskRec /\ rec' = [rec EXCEPT !.usage = rec'.usage]
  BY <1>1, <1>3 DEF TaskRec
<1>p. "persist" \notin Working /\ "persist" \notin Nodes \cup {"call", "start"}
  BY DEF Working, Nodes
<1>6. Alone(e)'
  BY <1>1, <1>2, <1>3, <1>4, <1>p, TheRunner DEF Alone, Concludes
<1>7. RunFits(e)'
  <2>1. Fits(r)'
    BY <1>3 DEF Fits, DraftMatchesInput, ReadyIsScanned, ConfirmedIsCurrent
  <2>2. QED
    BY <1>2, <1>4, <1>p, <2>1 DEF RunFits, Fits, DraftMatchesInput, ReadyIsScanned, ConfirmedIsCurrent
<1>8. RequestsAreCounted' /\ sent' \in Nat
  BY <1>3 DEF TaskInv, ExecutionsHold, RequestsAreCounted, TypeOK
<1>9. QED
  BY <1>1, <1>2, <1>3, <1>5, <1>6, <1>7, <1>8, RunnerGoesOn

\* The one that works goes on to a node, with a graph that fits.
LEMMA WorkGoesOn ==
  ASSUME TaskInv, NEW e \in Execs, exec[e].pc \in Working \cup {"start"},
         NEW x \in ExecRec, Exec(e, x), Still, cp' \in CheckpointRec \cup {None}, CheckpointFits',
         x.pc \in Working,
         x.mine \in TaskRec, x.mine = [rec EXCEPT !.usage = x.mine.usage],
         rec.usage <= x.ledger, x.ledger <= MaxRequests,
         x.pc = "call" => x.ctx \in Asking,
         x.pc \in Nodes \cup {"call"} =>
           /\ GraphFits(IF x.pc = "call" THEN x.ctx ELSE x.pc, x.st)
           /\ lapse = 0 => x.st.version = rec.version
  PROVE  TaskInv'
<1>1. exec[e].pc \in Running /\ x.pc \in Running
  BY DEF Running
<1>2. /\ rec \in TaskRec /\ live = e
      /\ rec.status \in InFlight /\ rec.shelf = "active" /\ ~rec.awaiting
  BY <1>1, TheRunner
<1>3. /\ exec' = [exec EXCEPT ![e] = x] /\ UNCHANGED <<rec, live, problem, calls, sent, lapse>>
  BY DEF Exec, Still
<1>4. exec'[e] = x
  BY <1>3 DEF TaskInv, ExecutionsHold, TypeOK
<1>5. rec' \in TaskRec /\ rec' = [rec EXCEPT !.usage = rec'.usage]
  BY <1>2, <1>3 DEF TaskRec
<1>p. x.pc # "start" /\ x.pc # "persist"
  BY DEF Working, Nodes
<1>6. Alone(e)'
  BY <1>2, <1>3, <1>4, <1>p DEF Alone
<1>7. RunFits(e)'
  BY <1>3, <1>4, <1>p DEF RunFits, GraphFits
<1>8. RequestsAreCounted' /\ sent' \in Nat
  BY <1>3 DEF TaskInv, ExecutionsHold, RequestsAreCounted, TypeOK
<1>9. QED
  BY <1>1, <1>3, <1>5, <1>6, <1>7, <1>8, RunnerGoesOn

\* What the end of a graph must have made to be stored.
EndFits(s) ==
  /\ s.status \notin InFlight
  /\ s.draft # None => s.draft.from = s.version
  /\ s.status = "DRAFT_READY" =>
       /\ s.draft # None /\ s.draft.scan # None
       /\ s.draft.scan.of = s.draft.mat /\ s.draft.scan.res = "PASSED"
       /\ s.draft.scan.by = s.version

\* A node ends, and the graph goes on or ends with it.
LEMMA CommitKeeps ==
  ASSUME TaskInv, NEW e \in Execs, exec[e].pc \in Nodes \cup {"call"},
         NEW x \in ExecRec, x.mine = exec[e].mine,
         exec[e].ledger <= x.ledger, x.ledger <= MaxRequests,
         NEW n \in Nodes \cup {"end"}, NEW s \in GraphRec, s.version = exec[e].st.version,
         n # "end" => GraphFits(n, s), n = "end" => EndFits(s),
         CommitAs(e, x, n, s), Still
  PROVE  TaskInv'
<1>1. exec[e].pc \in Working
  BY DEF Working
<1>2. /\ exec[e].mine \in TaskRec
      /\ exec[e].mine.exec = e /\ exec[e].mine.shelf = "active"
      /\ exec[e].mine.links = rec.links /\ exec[e].mine.worked = rec.worked
      /\ exec[e].mine.confs = rec.confs /\ exec[e].mine.version = rec.version
      /\ rec.usage <= exec[e].ledger /\ rec.usage \in Nat /\ exec[e].ledger \in Nat
  BY <1>1, TheWorker
<1>3. rec.usage <= x.ledger /\ x.ledger \in Nat
  BY <1>2 DEF ExecRec
<1>4. lapse = 0 => s.version = rec.version
  BY DEF TaskInv, MaterialHolds, RunFits
<1> DEFINE c == [next |-> n, asked |-> FALSE, st |-> IF n = "end" THEN None ELSE s]
<1>5. cp' = c
  BY DEF CommitAs
<1>6. c \in CheckpointRec /\ c.next = n /\ c.asked = FALSE /\ (n # "end" => c.st = s)
  BY DEF CheckpointRec
<1> HIDE DEF c
<1>7. cp' \in CheckpointRec \cup {None} /\ CheckpointFits'
  BY <1>5, <1>6 DEF CheckpointFits, GraphFits
<1>8. CASE n = "end"
  <2> DEFINE o == Outcome(x, s)
  <2>1. Exec(e, Concluding(o))
    BY <1>8 DEF CommitAs
  <2>2. /\ o \in TaskRec
        /\ o.status = s.status /\ o.draft = s.draft /\ o.awaiting = FALSE /\ o.usage = x.ledger
        /\ o.exec = x.mine.exec /\ o.version = x.mine.version /\ o.shelf = x.mine.shelf
        /\ o.links = x.mine.links /\ (x.mine.worked => o.worked)
        /\ Named(o.confs) = Named(x.mine.confs)
        /\ ConfirmedIsCurrent(o)
    BY <1>2, OutcomeOf
  <2> HIDE DEF o
  <2>3. Fits(o)
    BY <1>2, <1>4, <1>8, <2>2 DEF Fits, DraftMatchesInput, ReadyIsScanned, EndFits
  <2>4. /\ o.exec = e /\ o.status \notin InFlight /\ o.shelf = "active"
        /\ o.links = rec.links /\ (rec.worked => o.worked)
        /\ Named(rec.confs) \subseteq Named(o.confs)
        /\ rec.usage <= o.usage /\ o.usage <= MaxRequests /\ ~o.awaiting
    BY <1>2, <1>3, <1>8, <2>2 DEF EndFits
  <2>5. QED
    BY <1>1, <1>7, <2>1, <2>2, <2>3, <2>4, ConcludeKeeps
<1>9. CASE n # "end"
  <2> DEFINE y == [x EXCEPT !.pc = n, !.st = s, !.ctx = None]
  <2>1. Exec(e, y)
    BY <1>9 DEF CommitAs
  <2>2. /\ y \in ExecRec /\ y.pc = n /\ y.st = s /\ y.mine = x.mine /\ y.ledger = x.ledger
    BY <1>9 DEF ExecRec, Running, Working
  <2> HIDE DEF y
  <2>3. n \in Working /\ n # "call"
    BY <1>9 DEF Working, Nodes
  <2>4. y.mine \in TaskRec /\ y.mine = [rec EXCEPT !.usage = y.mine.usage]
    BY <1>1, <1>2, <2>2 DEF TaskInv, ExecutionsHold, RunnerIsAlone, Alone
  <2>5. QED
    BY <1>1, <1>3, <1>4, <1>7, <1>9, <2>1, <2>2, <2>3, <2>4, WorkGoesOn
<1>10. QED
  BY <1>8, <1>9

\* What holds of the graph of the one that works.
LEMMA TheGraph ==
  ASSUME TaskInv, NEW e \in Execs, exec[e].pc \in Nodes \cup {"call"}
  PROVE  /\ GraphFits(IF exec[e].pc = "call" THEN exec[e].ctx ELSE exec[e].pc, exec[e].st)
         /\ exec[e].st \in GraphRec
         /\ exec[e].pc = "call" => exec[e].ctx \in Asking
         /\ exec[e] \in ExecRec /\ exec[e].ledger \in Nat /\ exec[e].ledger <= MaxRequests
<1>1. RunFits(e) /\ Alone(e)
  BY DEF TaskInv, ExecutionsHold, MaterialHolds, RunnerIsAlone
<1>2. exec[e].pc \in Working
  BY DEF Working
<1>3. QED
  BY <1>1, <1>2, TheWorker DEF RunFits, GraphFits, Alone

\* A graph that only changes its status stays one with its input and draft.
LEMMA StatusSet ==
  ASSUME NEW s \in GraphRec, NEW v \in Statuses
  PROVE  LET t == [s EXCEPT !.status = v] IN
         /\ t \in GraphRec /\ t.status = v /\ t.version = s.version /\ t.draft = s.draft
         /\ t.rev = s.rev /\ t.asks = s.asks
BY DEF GraphRec

LEMMA CheckpointStays ==
  ASSUME TaskInv, cp' = cp
  PROVE  cp' \in CheckpointRec \cup {None} /\ CheckpointFits'
BY DEF TaskInv, ExecutionsHold, MaterialHolds, TypeOK, CheckpointFits, GraphFits

LEMMA StartKeeps ==
  ASSUME TaskInv, NEW e \in Execs, Start(e)
  PROVE  TaskInv'
<1> DEFINE x == [exec[e] EXCEPT !.mine = rec, !.ledger = rec.usage, !.ctx = None]
<1>1. exec[e].pc = "start" /\ OnlyExec
  BY DEF Start, At
<1>2. exec[e].pc \in Running
  BY <1>1 DEF Running
<1>3. Owner(e)
  BY <1>2 DEF TaskInv, ExecutionsHold, OneRunner
<1>4. /\ rec \in TaskRec /\ exec[e] \in ExecRec /\ cp \in CheckpointRec \cup {None}
      /\ rec.usage \in Nat /\ rec.usage <= MaxRequests /\ rec # None
  BY <1>2, TheRunner, NoneIsNothing DEF TaskInv, ExecutionsHold, TypeOK, TaskRec, RequestsAreCounted
<1>5. x \in ExecRec /\ x.mine = rec /\ x.ledger = rec.usage /\ x.pc = "start"
  BY <1>1, <1>4 DEF ExecRec
<1>6. /\ exec[e].ctx \in Starts /\ (exec[e].ctx # "fresh" => Continuable(exec[e].ctx))
      /\ exec[e].ctx = "checkpoint" /\ lapse = 0 => cp.st.version = rec.version
  BY <1>1 DEF TaskInv, ExecutionsHold, MaterialHolds, RunnerIsAlone, Alone, RunFits
<1>7. Still /\ cp' \in CheckpointRec \cup {None} /\ CheckpointFits'
  BY <1>1, CheckpointStays DEF Still, OnlyExec
<1>8. rec = [rec EXCEPT !.usage = rec.usage]
  BY <1>4 DEF TaskRec
<1>9. rec.usage <= rec.usage
  BY <1>4
<1>10. CASE exec[e].ctx = "fresh"
  <2> DEFINE y == [x EXCEPT !.pc = "delete"]
  <2>1. Exec(e, y)
    BY <1>3, <1>10 DEF Start
  <2> HIDE DEF x
  <2>2. y \in ExecRec /\ y.mine = rec /\ y.ledger = rec.usage /\ y.pc = "delete"
    BY <1>5 DEF ExecRec, Running, Working
  <2>3. "delete" \in Working /\ "delete" \notin Nodes \cup {"call"}
    BY DEF Working, Nodes
  <2> HIDE DEF y
  <2>4. QED
    BY <1>1, <1>4, <1>7, <1>8, <1>9, <2>1, <2>2, <2>3, WorkGoesOn
<1>11. CASE exec[e].ctx = "interrupt"
  <2> DEFINE s == [cp.st EXCEPT !.version = rec.version, !.asks = @ + 1]
             y == [x EXCEPT !.pc = "info", !.st = s]
  <2>1. Exec(e, y)
    BY <1>3, <1>11 DEF Start
  <2> HIDE DEF x
  <2>2. cp # None /\ cp.next = "info" /\ cp.next # "end" /\ GraphFits("info", cp.st)
    BY <1>6, <1>11 DEF Continuable, TaskInv, MaterialHolds, CheckpointFits
  <2>3. cp.st \in GraphRec /\ cp.st.draft = None
    BY <2>2 DEF GraphFits
  <2>4. cp.st.asks + 1 \in Nat /\ rec.version \in Inputs
    BY <1>4, <2>3 DEF GraphRec, TaskRec
  <2>5. s \in GraphRec /\ s.version = rec.version /\ s.draft = None
    BY <2>3, <2>4 DEF GraphRec
  <2> HIDE DEF s
  <2>6. y \in ExecRec /\ y.mine = rec /\ y.ledger = rec.usage /\ y.pc = "info" /\ y.st = s
    BY <1>5, <2>5 DEF ExecRec, Running, Working, Nodes
  <2>7. GraphFits("info", s)
    BY <2>5 DEF GraphFits
  <2>8. "info" \in Working
    BY DEF Working, Nodes
  <2> HIDE DEF y
  <2>9. QED
    BY <1>1, <1>4, <1>7, <1>8, <1>9, <2>1, <2>5, <2>6, <2>7, <2>8, WorkGoesOn
<1>12. CASE exec[e].ctx = "checkpoint"
  <2> DEFINE y == [x EXCEPT !.pc = cp.next, !.st = cp.st]
  <2>1. Exec(e, y)
    BY <1>3, <1>12 DEF Start
  <2> HIDE DEF x
  <2>2. cp # None /\ cp.next # "end" /\ GraphFits(cp.next, cp.st)
    BY <1>6, <1>12 DEF Continuable, TaskInv, MaterialHolds, CheckpointFits
  <2>3. cp.next \in Nodes /\ cp.st \in GraphRec
    BY <1>4, <2>2 DEF GraphFits, CheckpointRec
  <2>4. cp.next \in Working /\ cp.next # "call"
    BY <2>3 DEF Working, Nodes
  <2>5. y \in ExecRec /\ y.mine = rec /\ y.ledger = rec.usage /\ y.pc = cp.next /\ y.st = cp.st
    BY <1>5, <2>3, <2>4 DEF ExecRec, Running
  <2> HIDE DEF y
  <2>6. QED
    BY <1>1, <1>4, <1>6, <1>7, <1>8, <1>9, <1>12, <2>1, <2>2, <2>4, <2>5, WorkGoesOn
<1>13. QED
  BY <1>6, <1>10, <1>11, <1>12 DEF Starts

LEMMA EnterKeeps ==
  ASSUME TaskInv, NEW e \in Execs, DeleteThread(e) \/ EnterGraph(e)
  PROVE  TaskInv'
<1>1. exec[e].pc \in {"delete", "enter"} /\ exec[e].pc \in Working /\ Still
  BY DEF DeleteThread, EnterGraph, At, Working, Quiet, Still
<1>2. /\ exec[e] \in ExecRec /\ exec[e].mine \in TaskRec
      /\ exec[e].mine.version = rec.version
      /\ rec.usage <= exec[e].ledger /\ exec[e].ledger <= MaxRequests
      /\ exec[e].mine = [rec EXCEPT !.usage = exec[e].mine.usage]
  BY <1>1, TheWorker DEF TaskInv, ExecutionsHold, RunnerIsAlone, Alone
<1>3. CASE DeleteThread(e)
  <2> DEFINE y == [exec[e] EXCEPT !.pc = "enter"]
  <2>1. Exec(e, y) /\ cp' = None
    BY <1>3 DEF DeleteThread
  <2>2. y \in ExecRec /\ y.mine = exec[e].mine /\ y.ledger = exec[e].ledger /\ y.pc = "enter"
    BY <1>2 DEF ExecRec, Running, Working
  <2>3. "enter" \in Working /\ "enter" \notin Nodes \cup {"call"}
    BY DEF Working, Nodes
  <2>4. CheckpointFits'
    BY <2>1 DEF CheckpointFits
  <2> HIDE DEF y
  <2>5. QED
    BY <1>1, <1>2, <2>1, <2>2, <2>3, <2>4, WorkGoesOn
<1>4. CASE EnterGraph(e)
  <2> DEFINE s == FreshGraph(exec[e].mine.version)
             y == [exec[e] EXCEPT !.pc = "screen", !.st = s]
             c == [next |-> "screen", asked |-> FALSE, st |-> s]
  <2>1. Exec(e, y) /\ cp' = c
    BY <1>4 DEF EnterGraph
  <2>2. exec[e].mine.version \in Inputs
    BY <1>2 DEF TaskRec
  <2>3. s \in GraphRec /\ s.version = rec.version /\ s.draft = None
    BY <1>2, <2>2 DEF FreshGraph, GraphRec, Statuses, InFlight
  <2> HIDE DEF s
  <2>4. /\ y \in ExecRec /\ y.mine = exec[e].mine /\ y.ledger = exec[e].ledger
        /\ y.pc = "screen" /\ y.st = s
    BY <1>2, <2>3 DEF ExecRec, Running, Working, Nodes
  <2>5. c \in CheckpointRec /\ c.next = "screen" /\ c.asked = FALSE /\ c.st = s
    BY <2>3 DEF CheckpointRec, Nodes
  <2> HIDE DEF c, y
  <2>6. GraphFits("screen", s)
    BY <2>3 DEF GraphFits
  <2>7. CheckpointFits'
    BY <2>1, <2>5, <2>6 DEF CheckpointFits
  <2>8. "screen" \in Working
    BY DEF Working, Nodes
  <2>9. QED
    BY <1>1, <1>2, <2>1, <2>3, <2>4, <2>5, <2>6, <2>7, <2>8, WorkGoesOn
<1>5. QED
  BY <1>3, <1>4

\* A commit of the execution as it is.
LEMMA Committed ==
  ASSUME TaskInv, NEW e \in Execs, exec[e].pc \in Nodes \cup {"call"},
         NEW n \in Nodes \cup {"end"}, NEW s \in GraphRec, s.version = exec[e].st.version,
         n # "end" => GraphFits(n, s), n = "end" => EndFits(s),
         Commit(e, n, s), Still
  PROVE  TaskInv'
<1>1. /\ exec[e] \in ExecRec /\ exec[e].ledger <= exec[e].ledger /\ exec[e].ledger <= MaxRequests
      /\ CommitAs(e, exec[e], n, s)
  BY TheGraph DEF Commit
<1>2. QED
  BY <1>1, CommitKeeps

\* The graph ends with this status before anything was called ready.
LEMMA EndsAs ==
  ASSUME TaskInv, NEW e \in Execs, exec[e].pc \in Nodes \cup {"call"},
         NEW v \in {"INPUT_REJECTED", "NEEDS_INFO", "FAILED"},
         Commit(e, "end", [exec[e].st EXCEPT !.status = v]), Still
  PROVE  TaskInv'
<1> DEFINE s == exec[e].st
           t == [s EXCEPT !.status = v]
<1>1. s \in GraphRec /\ (s.draft # None => s.draft.from = s.version)
  BY TheGraph DEF GraphFits
<1>2. v \in Statuses /\ v \notin InFlight /\ v # "DRAFT_READY"
  BY DEF Statuses, InFlight, Resumable, HasMaterial
<1>3. t \in GraphRec /\ t.status = v /\ t.version = s.version /\ t.draft = s.draft
  BY <1>1, <1>2, StatusSet
<1>4. EndFits(t)
  BY <1>1, <1>2, <1>3 DEF EndFits
<1> HIDE DEF s, t
<1>5. Commit(e, "end", t) /\ t.version = exec[e].st.version
  BY <1>3 DEF s, t
<1>6. QED
  BY <1>3, <1>4, <1>5, Committed

LEMMA ScreenKeeps ==
  ASSUME TaskInv, NEW e \in Execs, ScreenInput(e)
  PROVE  TaskInv'
<1>1. exec[e].pc = "screen" /\ exec[e].pc \in Nodes \cup {"call"} /\ Still
  BY DEF ScreenInput, At, Nodes, Quiet, Still
<1>2. exec[e].st \in GraphRec /\ exec[e].st.draft = None
  BY <1>1, TheGraph DEF GraphFits
<1>3. CASE Commit(e, "info", exec[e].st)
  <2>1. GraphFits("info", exec[e].st) /\ "info" \in Nodes
    BY <1>2 DEF GraphFits, Nodes
  <2>2. QED
    BY <1>1, <1>2, <1>3, <2>1, Committed
<1>4. CASE Commit(e, "end", [exec[e].st EXCEPT !.status = "INPUT_REJECTED"])
  BY <1>1, <1>4, EndsAs
<1>5. QED
  BY <1>3, <1>4 DEF ScreenInput

LEMMA InfoKeeps ==
  ASSUME TaskInv, NEW e \in Execs, CheckInfo(e)
  PROVE  TaskInv'
<1> DEFINE s == exec[e].st
<1>1. exec[e].pc = "info" /\ exec[e].pc \in Nodes \cup {"call"} /\ exec[e].pc \in Working /\ Still
  BY DEF CheckInfo, At, Nodes, Working, Quiet, Still
<1>2. s \in GraphRec /\ s.draft = None /\ GraphFits("info", s)
  BY <1>1, TheGraph DEF GraphFits
<1>3. CASE \E v \in {"NEEDS_INFO", "FAILED"} : Commit(e, "end", [exec[e].st EXCEPT !.status = v])
  BY <1>1, <1>3, EndsAs
<1>4. CASE Commit(e, "retrieve", [s EXCEPT !.status = "RUNNING"])
  <2> DEFINE t == [s EXCEPT !.status = "RUNNING"]
  <2>1. t \in GraphRec /\ t.version = s.version /\ t.draft = None
    BY <1>2, StatusSet DEF Statuses, InFlight
  <2>2. GraphFits("retrieve", t) /\ "retrieve" \in Nodes
    BY <2>1 DEF GraphFits, Nodes
  <2> HIDE DEF t
  <2>3. Commit(e, "retrieve", t)
    BY <1>4 DEF t
  <2>4. QED
    BY <1>1, <2>1, <2>2, <2>3, Committed
<1>5. CASE /\ cp' = [next |-> "info", asked |-> TRUE, st |-> s]
           /\ Exec(e, Concluding([exec[e].mine EXCEPT !.status = "NEEDS_INFO", !.awaiting = TRUE,
                                                      !.usage = exec[e].ledger]))
  <2> DEFINE m == exec[e].mine
             l == exec[e].ledger
             r == [m EXCEPT !.status = "NEEDS_INFO", !.awaiting = TRUE, !.usage = l]
             c == [next |-> "info", asked |-> TRUE, st |-> s]
  <2>1. /\ m \in TaskRec /\ m.exec = e /\ m.shelf = "active" /\ m.links = rec.links
        /\ m.worked = rec.worked /\ m.confs = rec.confs /\ m.version = rec.version
        /\ m.draft = rec.draft /\ rec.usage <= l /\ l <= MaxRequests /\ l \in Nat /\ rec # None
    BY <1>1, TheWorker
  <2>2. Exec(e, Concluding(r)) /\ cp' = c
    BY <1>5
  <2> HIDE DEF m, l, s
  <2>3. /\ r \in TaskRec /\ r.exec = e /\ r.status = "NEEDS_INFO" /\ r.shelf = "active"
        /\ r.links = rec.links /\ r.worked = rec.worked /\ r.confs = rec.confs
        /\ r.version = rec.version /\ r.draft = rec.draft /\ r.usage = l
    BY <2>1 DEF TaskRec, Statuses, Resumable
  <2>4. c \in CheckpointRec /\ c.next = "info" /\ c.asked /\ c.st = s
    BY <1>2 DEF CheckpointRec, Nodes
  <2> HIDE DEF r, c
  <2>5. cp' # None /\ cp'.asked /\ cp' \in CheckpointRec /\ CheckpointFits'
    BY <1>2, <2>2, <2>4, NoneIsNothing DEF CheckpointFits
  <2>6. Fits(r)
    BY <2>1, <2>3 DEF Fits, DraftMatchesInput, ReadyIsScanned, ConfirmedIsCurrent, TaskInv, MaterialHolds
  <2>7. r.status \notin InFlight
    BY <2>3 DEF InFlight
  <2>8. QED
    BY <1>1, <2>1, <2>2, <2>3, <2>5, <2>6, <2>7, ConcludeKeeps
<1>6. QED
  BY <1>3, <1>4, <1>5 DEF CheckInfo

LEMMA RetrieveKeeps ==
  ASSUME TaskInv, NEW e \in Execs, RetrieveEvidence(e)
  PROVE  TaskInv'
<1>1. exec[e].pc = "retrieve" /\ exec[e].pc \in Nodes \cup {"call"} /\ Still
  BY DEF RetrieveEvidence, At, Nodes, Quiet, Still
<1>2. exec[e].st \in GraphRec /\ exec[e].st.draft = None
  BY <1>1, TheGraph DEF GraphFits
<1>3. CASE Commit(e, "generate", exec[e].st)
  <2>1. GraphFits("generate", exec[e].st) /\ "generate" \in Nodes
    BY <1>2 DEF GraphFits, Nodes
  <2>2. QED
    BY <1>1, <1>2, <1>3, <2>1, Committed
<1>4. CASE \E v \in {"NEEDS_INFO", "FAILED"} : Commit(e, "end", [exec[e].st EXCEPT !.status = v])
  BY <1>1, <1>4, EndsAs
<1>5. QED
  BY <1>3, <1>4 DEF RetrieveEvidence

\* An execution gives up at a node that asks the model, its request counted or not.
LEMMA GiveUpKeeps ==
  ASSUME TaskInv, NEW e \in Execs, exec[e].pc \in Nodes \cup {"call"},
         NEW x \in ExecRec, x.mine = exec[e].mine, x.st = exec[e].st,
         exec[e].ledger <= x.ledger, x.ledger <= MaxRequests,
         NEW node \in Asking, GiveUp(e, x, node), Still
  PROVE  TaskInv'
<1> DEFINE s == [x.st EXCEPT !.status = "FAILED"]
           rv == Revision(s)
           t == [s EXCEPT !.rev = rv, !.tried = TRUE]
<1>1. x.st \in GraphRec /\ (x.st.draft # None => x.st.draft.from = x.st.version)
  BY TheGraph DEF GraphFits
<1>2. "FAILED" \in Statuses /\ "FAILED" \notin InFlight
  BY DEF Statuses, Resumable, InFlight
<1>3. s \in GraphRec /\ s.status = "FAILED" /\ s.version = x.st.version /\ s.draft = x.st.draft
  BY <1>1, <1>2, StatusSet
<1>4. /\ node = "retrieve" => CommitAs(e, x, "end", s)
      /\ node # "retrieve" => CommitAs(e, x, "check", t)
  BY DEF GiveUp
<1> HIDE DEF s
<1>5. rv \in Nat
  BY <1>3 DEF Revision, GraphRec
<1> HIDE DEF rv
<1>6. t \in GraphRec /\ t.status = "FAILED" /\ t.version = x.st.version /\ t.draft = x.st.draft
  BY <1>3, <1>5 DEF GraphRec
<1> HIDE DEF t
<1>7. EndFits(s) /\ GraphFits("check", t) /\ "check" \in Nodes
  BY <1>1, <1>2, <1>3, <1>6 DEF EndFits, GraphFits, Nodes
<1>8. QED
  BY <1>3, <1>4, <1>6, <1>7, CommitKeeps

LEMMA PostKeeps ==
  ASSUME TaskInv, NEW e \in Execs, Post(e)
  PROVE  TaskInv'
<1> DEFINE x == exec[e]
           l == x.ledger + 1
           counted == [x EXCEPT !.ledger = l]
<1>1. /\ x.pc \in Asking /\ x.pc \in Nodes \cup {"call"} /\ x.pc \in Nodes /\ x.pc \in Working
      /\ x.pc # "call" /\ x.pc \in Running
  BY DEF Post, Nodes, Asking, Working, Running
<1>2. /\ x \in ExecRec /\ x.ledger \in Nat /\ MaxRequests \in Nat /\ x.ledger <= MaxRequests
      /\ rec.usage \in Nat /\ rec.usage <= x.ledger /\ rec \in TaskRec /\ x.mine \in TaskRec
      /\ sent \in Nat /\ sent <= rec.usage /\ rec # None
  BY <1>1, TheWorker, TheRunner
<1>3. l \in Nat /\ x.ledger <= l /\ (x.ledger < MaxRequests => l <= MaxRequests)
      /\ rec.usage <= l /\ l <= l /\ sent + 1 <= l /\ sent + 1 \in Nat
  BY <1>2
<1>c. Post(e) =>
        \/ GiveUp(e, x, x.pc) /\ Still
        \/ /\ x.ledger < MaxRequests /\ rec' = [rec EXCEPT !.usage = counted.ledger]
           /\ Exec(e, [counted EXCEPT !.pc = "call", !.ctx = x.pc])
           /\ sent' = sent + 1
           /\ UNCHANGED <<cp, live, problem, calls, lapse>>
        \/ /\ x.ledger < MaxRequests /\ GiveUp(e, counted, x.pc)
           /\ UNCHANGED <<rec, live, problem, calls, sent, lapse>>
  BY DEF Post, Quiet, Still
<1> HIDE DEF l
<1>4. /\ counted \in ExecRec /\ counted.mine = x.mine /\ counted.st = x.st /\ counted.ledger = l
      /\ counted.pc = x.pc
  BY <1>2, <1>3 DEF ExecRec
<1> HIDE DEF counted
<1>5. CASE GiveUp(e, x, x.pc) /\ Still
  <2>1. x.ledger <= x.ledger
    BY <1>2
  <2>2. QED
    BY <1>1, <1>2, <1>5, <2>1, GiveUpKeeps
<1>6. CASE /\ x.ledger < MaxRequests /\ rec' = [rec EXCEPT !.usage = counted.ledger]
           /\ Exec(e, [counted EXCEPT !.pc = "call", !.ctx = x.pc])
           /\ sent' = sent + 1
           /\ UNCHANGED <<cp, live, problem, calls, lapse>>
  <2> DEFINE y == [counted EXCEPT !.pc = "call", !.ctx = x.pc]
  <2>1. /\ y \in ExecRec /\ y.pc = "call" /\ y.ctx = x.pc /\ y.mine = x.mine /\ y.st = x.st
        /\ y.ledger = l
    BY <1>1, <1>4 DEF ExecRec, Running, Working
  <2>2. exec' = [exec EXCEPT ![e] = y]
    BY <1>6 DEF Exec
  <2> HIDE DEF y
  <2>3. rec' = [rec EXCEPT !.usage = l]
    BY <1>4, <1>6
  <2>4. /\ rec' \in TaskRec /\ rec'.usage = l /\ rec' = [rec EXCEPT !.usage = rec'.usage]
        /\ rec'.version = rec.version /\ rec'.status = rec.status /\ rec'.shelf = rec.shelf
        /\ rec'.awaiting = rec.awaiting
    BY <1>2, <1>3, <2>3 DEF TaskRec
  <2>5. y.mine = [rec' EXCEPT !.usage = y.mine.usage]
    <3>1. x.mine = [rec EXCEPT !.usage = x.mine.usage]
      BY <1>1 DEF TaskInv, ExecutionsHold, RunnerIsAlone, Alone
    <3>2. [rec' EXCEPT !.usage = x.mine.usage] = [rec EXCEPT !.usage = x.mine.usage]
      BY <1>2, <2>3 DEF TaskRec
    <3>3. QED
      BY <2>1, <3>1, <3>2
  <2>6. exec'[e] = y
    BY <2>2 DEF TaskInv, ExecutionsHold, TypeOK
  <2>7. "call" \in Running /\ "call" \in Working /\ "call" # "persist" /\ "call" # "start"
    BY DEF Running, Working
  <2>8. Alone(e)'
    BY <1>1, <1>2, <1>3, <1>6, <2>1, <2>4, <2>5, <2>6, <2>7, TheRunner DEF Alone
  <2>9. RunFits(e)'
    <3>1. GraphFits(x.pc, x.st) /\ (lapse = 0 => x.st.version = rec.version)
      BY <1>1 DEF TaskInv, MaterialHolds, RunFits
    <3>2. QED
      BY <1>6, <2>1, <2>4, <2>6, <2>7, <3>1 DEF RunFits
  <2>10. RequestsAreCounted' /\ sent' \in Nat
    BY <1>2, <1>3, <1>6, <2>4, NoneIsNothing DEF RequestsAreCounted
  <2>11. QED
    BY <1>1, <1>6, <2>1, <2>2, <2>4, <2>7, <2>8, <2>9, <2>10, RunnerGoesOn, CheckpointStays
<1>7. CASE /\ x.ledger < MaxRequests /\ GiveUp(e, counted, x.pc)
           /\ UNCHANGED <<rec, live, problem, calls, sent, lapse>>
  BY <1>1, <1>2, <1>3, <1>4, <1>7, GiveUpKeeps DEF Still
<1>8. QED
  BY <1>5, <1>6, <1>7, <1>c

LEMMA RespondKeeps ==
  ASSUME TaskInv, NEW e \in Execs, Respond(e)
  PROVE  TaskInv'
<1> DEFINE x == exec[e]
           s == x.st
           node == x.ctx
<1>1. x.pc = "call" /\ x.pc \in Nodes \cup {"call"} /\ x.pc \in Working /\ Still
  BY DEF Respond, At, Working, Quiet, Still
<1>2. /\ x \in ExecRec /\ node \in Asking /\ GraphFits(node, s) /\ s \in GraphRec
      /\ x.ledger \in Nat /\ x.ledger <= MaxRequests /\ x.ledger <= x.ledger
  BY <1>1, TheGraph
<1>3. ASSUME NEW m \in Materials,
             Commit(e, "check",
               [s EXCEPT !.rev = Revision(s), !.status = "RUNNING", !.tried = TRUE,
                         !.draft = [from |-> s.version, mat |-> m, scan |-> None]])
      PROVE  TaskInv'
  <2> DEFINE rv == Revision(s)
             d == [from |-> s.version, mat |-> m, scan |-> None]
             t == [s EXCEPT !.rev = rv, !.status = "RUNNING", !.tried = TRUE, !.draft = d]
  <2>1. rv \in Nat /\ s.version \in Inputs
    BY <1>2 DEF Revision, GraphRec
  <2>2. d \in DraftRec /\ d.from = s.version
    BY <2>1 DEF DraftRec
  <2> HIDE DEF rv, d
  <2>3. t \in GraphRec /\ t.version = s.version /\ t.draft = d
    BY <1>2, <2>1, <2>2 DEF GraphRec, Statuses, InFlight
  <2>4. Commit(e, "check", t)
    BY <1>3 DEF rv, d
  <2> HIDE DEF t
  <2>5. GraphFits("check", t) /\ "check" \in Nodes
    BY <2>2, <2>3, NoneIsNothing DEF GraphFits, Nodes
  <2>6. QED
    BY <1>1, <2>3, <2>4, <2>5, Committed
<1>4. CASE Exec(e, [exec[e] EXCEPT !.pc = node, !.ctx = None]) /\ UNCHANGED cp
  <2> DEFINE y == [x EXCEPT !.pc = node, !.ctx = None]
  <2>1. node \in Nodes /\ node \in Working /\ node # "call"
    BY <1>2 DEF Asking, Nodes, Working
  <2>2. y \in ExecRec /\ y.pc = node /\ y.mine = x.mine /\ y.st = s /\ y.ledger = x.ledger
    BY <1>2, <2>1 DEF ExecRec, Running
  <2>3. Exec(e, y)
    BY <1>4
  <2> HIDE DEF y
  <2>4. /\ x.mine \in TaskRec /\ x.mine = [rec EXCEPT !.usage = x.mine.usage]
        /\ rec.usage <= x.ledger
    BY <1>1 DEF TaskInv, ExecutionsHold, RunnerIsAlone, Alone
  <2>5. lapse = 0 => s.version = rec.version
    BY <1>1 DEF TaskInv, MaterialHolds, RunFits
  <2>6. QED
    BY <1>1, <1>2, <1>4, <2>1, <2>2, <2>3, <2>4, <2>5, WorkGoesOn, CheckpointStays
<1>5. CASE GiveUp(e, exec[e], node)
  BY <1>1, <1>2, <1>5, GiveUpKeeps
<1>6. QED
  BY <1>3, <1>4, <1>5 DEF Respond

\* A scan names the content and the input it was made of.
LEMMA ScanOf ==
  ASSUME NEW d \in DraftRec, NEW i \in Inputs, NEW res \in {"PASSED", "BLOCKED", "FAILED"}
  PROVE  LET n == Scanned(d, i, res) IN
         /\ n \in DraftRec /\ n.from = d.from /\ n.mat = d.mat
         /\ n.scan \in ScanRec /\ n.scan.of = d.mat /\ n.scan.by = i /\ n.scan.res = res
         /\ n # None /\ n.scan # None
<1> DEFINE sc == [of |-> d.mat, by |-> i, res |-> res]
           n == [d EXCEPT !.scan = sc]
<1>1. sc \in ScanRec /\ sc.of = d.mat /\ sc.by = i /\ sc.res = res
  BY DEF ScanRec, DraftRec
<1> HIDE DEF sc
<1>2. n \in DraftRec /\ n.from = d.from /\ n.mat = d.mat /\ n.scan = sc
  BY <1>1 DEF DraftRec
<1>3. Scanned(d, i, res) = n
  BY DEF Scanned, sc
<1>4. QED
  BY <1>1, <1>2, <1>3, NoneIsNothing

LEMMA CheckKeeps ==
  ASSUME TaskInv, NEW e \in Execs, RunCheck(e)
  PROVE  TaskInv'
<1> DEFINE s == exec[e].st
<1>1. exec[e].pc = "check" /\ exec[e].pc \in Nodes \cup {"call"} /\ Still
  BY DEF RunCheck, At, Nodes, Quiet, Still
<1>2. s \in GraphRec /\ GraphFits("check", s)
  BY <1>1, TheGraph
<1>3. CASE s.status = "FAILED" /\ Commit(e, "finalize", s)
  <2>1. GraphFits("finalize", s) /\ "finalize" \in Nodes
    BY <1>2, <1>3 DEF GraphFits, Nodes
  <2>2. QED
    BY <1>1, <1>2, <1>3, <2>1, Committed
<1>4. ASSUME s.status # "FAILED", NEW res \in {"PASSED", "BLOCKED", "FAILED"},
             NEW n \in {"generate", "finalize"},
             Commit(e, n, [s EXCEPT !.draft = Scanned(@, s.version, res)])
      PROVE  TaskInv'
  <2> DEFINE d == Scanned(s.draft, s.version, res)
             t == [s EXCEPT !.draft = d]
  <2>1. s.draft \in DraftRec /\ s.version \in Inputs /\ s.draft.from = s.version
    BY <1>2, <1>4 DEF GraphFits, GraphRec
  <2>2. /\ d \in DraftRec /\ d.from = s.version /\ d.mat = s.draft.mat /\ d # None
        /\ d.scan # None /\ d.scan.of = d.mat /\ d.scan.by = s.version
    <3> HIDE DEF s
    <3>1. LET n0 == Scanned(s.draft, s.version, res) IN
          /\ n0 \in DraftRec /\ n0.from = s.draft.from /\ n0.mat = s.draft.mat
          /\ n0.scan \in ScanRec /\ n0.scan.of = s.draft.mat /\ n0.scan.by = s.version
          /\ n0.scan.res = res /\ n0 # None /\ n0.scan # None
      BY <2>1, ScanOf
    <3>2. QED
      BY <2>1, <3>1
  <2>3. Commit(e, n, t)
    BY <1>4
  <2> HIDE DEF d
  <2>4. t \in GraphRec /\ t.version = s.version /\ t.draft = d
    BY <1>2, <2>2 DEF GraphRec
  <2> HIDE DEF t
  <2>5. GraphFits(n, t) /\ n \in Nodes /\ n # "end"
    BY <2>2, <2>4 DEF GraphFits, Nodes
  <2>6. QED
    BY <1>1, <2>3, <2>4, <2>5, Committed
<1>5. QED
  BY <1>3, <1>4 DEF RunCheck

LEMMA FinalizeKeeps ==
  ASSUME TaskInv, NEW e \in Execs, Finalize(e)
  PROVE  TaskInv'
<1> DEFINE s == exec[e].st
           v == Verdict(s.draft.scan)
           t == IF s.status = "FAILED" THEN s ELSE [s EXCEPT !.status = v]
<1>1. exec[e].pc = "finalize" /\ exec[e].pc \in Nodes \cup {"call"} /\ Still
  BY DEF Finalize, At, Nodes, Quiet, Still
<1>2. s \in GraphRec /\ GraphFits("finalize", s)
  BY <1>1, TheGraph
<1>3. Commit(e, "end", t)
  BY DEF Finalize
<1>4. CASE s.status = "FAILED"
  <2>1. EndFits(s)
    BY <1>2, <1>4 DEF GraphFits, EndFits, InFlight
  <2>2. QED
    BY <1>1, <1>2, <1>3, <1>4, <2>1, Committed
<1>5. CASE s.status # "FAILED"
  <2>1. /\ s.draft # None /\ s.draft.from = s.version /\ s.draft \in DraftRec
        /\ s.draft.scan # None /\ s.draft.scan.of = s.draft.mat /\ s.draft.scan.by = s.version
    BY <1>2, <1>5 DEF GraphFits, GraphRec
  <2>2. s.draft.scan \in ScanRec
    BY <2>1 DEF DraftRec
  <2>3. /\ v \in Statuses /\ v \notin InFlight
        /\ v = "DRAFT_READY" => s.draft.scan.res = "PASSED"
    BY <2>2 DEF Verdict, ScanRec, Statuses, HasMaterial, InFlight
  <2> HIDE DEF v
  <2>4. t \in GraphRec /\ t.status = v /\ t.version = s.version /\ t.draft = s.draft
    BY <1>2, <1>5, <2>3, StatusSet
  <2> HIDE DEF t
  <2>5. EndFits(t)
    BY <2>1, <2>3, <2>4 DEF EndFits
  <2>6. QED
    BY <1>1, <1>3, <2>4, <2>5, Committed
<1>6. QED
  BY <1>4, <1>5

LEMMA TimeoutKeeps ==
  ASSUME TaskInv, NEW e \in Execs, Timeout(e)
  PROVE  TaskInv'
<1> DEFINE m == exec[e].mine
           l == exec[e].ledger
           r == [m EXCEPT !.status = "FAILED", !.usage = l]
<1>1. exec[e].pc \in Working /\ Still /\ Exec(e, Concluding(r)) /\ cp' = cp
  BY DEF Timeout, OnlyExec, Still
<1>2. /\ m \in TaskRec /\ m.exec = e /\ m.shelf = "active" /\ m.links = rec.links
      /\ m.worked = rec.worked /\ m.confs = rec.confs /\ m.version = rec.version
      /\ m.draft = rec.draft /\ rec.usage <= l /\ l <= MaxRequests /\ l \in Nat /\ rec # None
      /\ m.awaiting = FALSE
  BY <1>1, TheWorker
<1> HIDE DEF m, l
<1>3. /\ r \in TaskRec /\ r.exec = e /\ r.status = "FAILED" /\ r.shelf = "active"
      /\ r.links = rec.links /\ r.worked = rec.worked /\ r.confs = rec.confs
      /\ r.version = rec.version /\ r.draft = rec.draft /\ r.usage = l /\ r.awaiting = FALSE
  BY <1>2 DEF TaskRec, Statuses, Resumable
<1> HIDE DEF r
<1>4. Fits(r)
  BY <1>2, <1>3 DEF Fits, DraftMatchesInput, ReadyIsScanned, ConfirmedIsCurrent, TaskInv, MaterialHolds
<1>5. r.status \notin InFlight
  BY <1>3 DEF InFlight
<1>6. QED
  BY <1>1, <1>2, <1>3, <1>4, <1>5, ConcludeKeeps, CheckpointStays

-----------------------------------------------------------------------------
(* Executions that end. *)

\* One that does not run ends; whoever runs is not concerned.
LEMMA AnotherEnds ==
  ASSUME TaskInv, NEW e \in Execs, exec[e].pc \notin Running,
         NEW x \in ExecRec, x.pc \notin Running, Exec(e, x),
         UNCHANGED <<rec, cp, problem, calls, sent, lapse>>,
         live' = live \/ (live = e /\ live' = None)
  PROVE  TaskInv'
<1>t. TypeOK
  BY DEF TaskInv, ExecutionsHold
<1>1. exec' = [exec EXCEPT ![e] = x] /\ exec'[e] = x /\ \A f \in Execs : f # e => exec'[f] = exec[f]
  BY <1>t DEF TypeOK, Exec
<1>2. TypeOK'
  BY <1>t, <1>1 DEF TypeOK
<1>3. \A f \in Execs : exec'[f].pc \in Running => f # e /\ exec'[f] = exec[f]
  BY <1>1
<1>4. Supervised'
  <2>1. SUFFICES ASSUME rec # None, rec.status \in InFlight, ~problem, lapse # 2
                 PROVE  live' # None /\ live' = rec.exec /\ exec'[live'].pc \in Running
    BY DEF Supervised
  <2>2. live # None /\ live = rec.exec /\ exec[live].pc \in Running
    BY <2>1 DEF TaskInv, ExecutionsHold, Supervised
  <2>3. live \in Execs /\ live # e
    BY <1>t, <2>2 DEF TypeOK
  <2>4. QED
    BY <1>1, <2>2, <2>3
<1>5. OneRunner' /\ WaitingAndShelved'
  BY <1>3 DEF TaskInv, ExecutionsHold, OneRunner, Owner, WaitingAndShelved
<1>6. RequestsAreCounted'
  BY DEF TaskInv, ExecutionsHold, RequestsAreCounted
<1>7. ASSUME NEW f \in Execs
      PROVE  Alone(f)' /\ RunFits(f)'
  <2>1. CASE exec'[f].pc \in Running
    <3>1. exec'[f] = exec[f] /\ exec[f].pc \in Running /\ f # e
      BY <1>3, <2>1
    <3>2. live = f
      BY <3>1, TheRunner
    <3>3. live' = live
      BY <3>1, <3>2
    <3>4. Alone(f) /\ RunFits(f)
      BY DEF TaskInv, ExecutionsHold, MaterialHolds, RunnerIsAlone
    <3>5. QED
      BY <3>1, <3>3, <3>4 DEF Alone, RunFits, Concludes, Continuable, Fits, DraftMatchesInput,
         ReadyIsScanned, ConfirmedIsCurrent, GraphFits
  <2>2. CASE exec'[f].pc \notin Running
    BY <2>2 DEF Alone, RunFits, Running, Working, Nodes
  <2>3. QED
    BY <2>1, <2>2
<1>8. ASSUME NEW c \in Calls
      PROVE  ResumeSafe(c)' /\ ResumeFits(c)'
  <2>1. ResumeSafe(c) /\ ResumeFits(c)
    BY DEF TaskInv, ExecutionsHold, MaterialHolds, ResumesAreSafe
  <2>2. calls[c].op = "resume" /\ calls[c].exec \in Execs => exec'[calls[c].exec].pc \notin Running
    BY <1>3, <2>1 DEF ResumeSafe
  <2>3. QED
    BY <2>1, <2>2 DEF ResumeSafe, ResumeFits, Unmoved, Continuable
<1>9. (rec' # None => Fits(rec)') /\ CheckpointFits'
  BY DEF TaskInv, MaterialHolds, Fits, DraftMatchesInput, ReadyIsScanned,
     ConfirmedIsCurrent, CheckpointFits, GraphFits
<1>10. QED
  BY <1>2, <1>4, <1>5, <1>6, <1>7, <1>8, <1>9
     DEF TaskInv, ExecutionsHold, MaterialHolds, RunnerIsAlone, ResumesAreSafe

\* The one that runs is stopped or has ended: nobody runs.
LEMMA TheRunnerEnds ==
  ASSUME TaskInv, NEW e \in Execs, exec[e].pc \in Running \/ Nobody,
         NEW x \in ExecRec, x.pc \notin Running, Exec(e, x)
  PROVE  Nobody' /\ exec' \in [Execs -> ExecRec]
<1>1. \A f \in Execs : f # e => exec[f].pc \notin Running
  BY TheRunner DEF Nobody
<1>2. exec' = [exec EXCEPT ![e] = x] /\ exec \in [Execs -> ExecRec]
  BY DEF Exec, TaskInv, ExecutionsHold, TypeOK
<1>3. \A f \in Execs : exec'[f].pc \notin Running
  BY <1>1, <1>2
<1>4. QED
  BY <1>2, <1>3 DEF Nobody

LEMMA PersistKeeps ==
  ASSUME TaskInv, NEW e \in Execs, PersistTerminal(e)
  PROVE  TaskInv'
<1> DEFINE x == exec[e]
<1>t. TypeOK
  BY DEF TaskInv, ExecutionsHold
<1>1. x.pc = "persist" /\ x.pc \in Running /\ x \in ExecRec /\ UNCHANGED <<cp, live, calls, sent, lapse>>
  BY <1>t DEF PersistTerminal, At, Running, TypeOK
<1>2. /\ rec \in TaskRec /\ rec.exec = e /\ rec.status \in InFlight /\ rec.shelf = "active"
      /\ ~rec.awaiting
      /\ \A c \in Calls : calls[c].op = "resume" => calls[c].exec # e /\ ~Unmoved(c)
  BY <1>1, TheRunner
<1>3. Concludes(e, x.mine) /\ Fits(x.mine) /\ rec # None /\ Fits(rec)
  BY <1>1, <1>2, NoneIsNothing DEF TaskInv, ExecutionsHold, MaterialHolds, RunnerIsAlone, Alone, RunFits
<1>4. Owner(e)
  BY <1>2, <1>3 DEF Owner
<1>e. Ending \in ExecRec /\ Ending.pc \notin Running
  BY ExecShapes
<1>5. CASE rec' = x.mine /\ Exec(e, Ending) /\ UNCHANGED problem
  <2>1. Nobody' /\ exec' \in [Execs -> ExecRec]
    BY <1>1, <1>5, <1>e, TheRunnerEnds
  <2>2. /\ rec' \in TaskRec /\ rec'.exec = e /\ rec'.status \notin InFlight
        /\ rec'.awaiting => cp # None /\ cp.asked
        /\ rec.usage <= rec'.usage /\ rec'.usage <= MaxRequests
    BY <1>3, <1>5 DEF Concludes
  <2>3. Fits(rec)'
    BY <1>1, <1>3, <1>5 DEF Fits, DraftMatchesInput, ReadyIsScanned, ConfirmedIsCurrent
  <2>4. RequestsAreCounted'
    <3>1. rec.usage \in Nat /\ rec'.usage \in Nat /\ sent \in Nat /\ MaxRequests \in Nat
      BY <1>t, <1>2, <2>2, AgentTaskAssumptions DEF TaskRec, TypeOK
    <3>2. QED
      BY <1>1, <2>2, <3>1, NoneIsNothing DEF RequestsAreCounted, TaskInv, ExecutionsHold
  <2>5. \A c \in Calls : calls'[c].op = "resume" => ~Unmoved(c)'
    BY <1>1, <1>2, <2>2 DEF Unmoved
  <2>6. QED
    BY <1>t, <1>1, <1>3, <1>5, <2>1, <2>2, <2>3, <2>4, <2>5, NobodyRuns DEF TypeOK
<1>6. CASE Exec(e, [x EXCEPT !.tries = @ + 1]) /\ UNCHANGED <<rec, problem>>
  <2> DEFINE y == [x EXCEPT !.tries = @ + 1]
  <2>1. x.tries + 1 \in Nat
    BY <1>1 DEF ExecRec
  <2>2. y \in ExecRec /\ y.pc = "persist" /\ y.mine = x.mine
    BY <1>1, <2>1 DEF ExecRec
  <2>3. exec' = [exec EXCEPT ![e] = y]
    BY <1>6 DEF Exec
  <2> HIDE DEF y
  <2>4. exec'[e] = y
    BY <1>t, <2>3 DEF TypeOK
  <2>5. "persist" \notin Working /\ "persist" \notin Nodes \cup {"call", "start"} /\ "persist" \in Running
    BY DEF Working, Nodes, Running
  <2>6. Alone(e)'
    BY <1>1, <1>2, <1>3, <1>6, <2>2, <2>4, <2>5, TheRunner DEF Alone, Concludes
  <2>7. RunFits(e)'
    BY <1>1, <1>3, <1>6, <2>2, <2>4, <2>5 DEF RunFits, Fits, DraftMatchesInput, ReadyIsScanned, ConfirmedIsCurrent
  <2>8. rec' \in TaskRec /\ rec' = [rec EXCEPT !.usage = rec'.usage]
    BY <1>2, <1>6 DEF TaskRec
  <2>9. RequestsAreCounted' /\ sent' \in Nat
    BY <1>t, <1>1, <1>6 DEF TaskInv, ExecutionsHold, RequestsAreCounted, TypeOK
  <2>10. QED
    BY <1>1, <1>6, <2>2, <2>3, <2>5, <2>6, <2>7, <2>8, <2>9, RunnerGoesOn, CheckpointStays
<1>7. CASE Exec(e, [Idle EXCEPT !.pc = "lost"]) /\ problem' = TRUE /\ UNCHANGED rec
  <2>1. Nobody' /\ exec' \in [Execs -> ExecRec]
    BY <1>1, <1>7, ExecShapes, TheRunnerEnds
  <2>2. Fits(rec)'
    BY <1>1, <1>3, <1>7 DEF Fits, DraftMatchesInput, ReadyIsScanned, ConfirmedIsCurrent
  <2>3. RequestsAreCounted'
    BY <1>1, <1>7 DEF TaskInv, ExecutionsHold, RequestsAreCounted
  <2>4. \A c \in Calls : calls'[c].op = "resume" => ~Unmoved(c)'
    BY <1>1, <1>2, <1>7 DEF Unmoved
  <2>5. QED
    BY <1>t, <1>1, <1>2, <1>3, <1>7, <2>1, <2>2, <2>3, <2>4, NobodyRuns DEF TypeOK
<1>8. QED
  BY <1>4, <1>5, <1>6, <1>7 DEF PersistTerminal

LEMMA DoneKeeps ==
  ASSUME TaskInv, NEW e \in Execs, OnExecutionDone(e)
  PROVE  TaskInv'
<1>1. exec[e].pc \notin Running /\ Idle \in ExecRec /\ Idle.pc \notin Running
  BY ExecShapes DEF OnExecutionDone, Running, Working, Nodes
<1>2. /\ Exec(e, Idle) /\ UNCHANGED <<rec, cp, problem, calls, sent, lapse>>
      /\ live' = live \/ (live = e /\ live' = None)
  BY DEF OnExecutionDone
<1>3. QED
  BY <1>1, <1>2, AnotherEnds

-----------------------------------------------------------------------------
(* Who writes the record when nobody runs. *)

\* The record is written on top of what it was.
LEMMA Rewritten ==
  ASSUME TaskInv, rec \in TaskRec, Nobody', exec' \in [Execs -> ExecRec],
         rec' \in TaskRec, cp' = cp, live' \in Execs \cup {None}, problem' \in BOOLEAN,
         sent' = sent, lapse' \in 0..2, lapse' = 0 => lapse = 0,
         calls' \in [Calls -> CallRec],
         \A c \in Calls : calls'[c].op = "resume" => calls'[c] = calls[c],
         rec'.usage = rec.usage,
         rec'.exec = rec.exec \/ rec'.status = "CANCELLED",
         rec.status = "CANCELLED" => rec'.status = "CANCELLED",
         lapse' = 0 => rec'.version = rec.version,
         rec'.status \in InFlight => problem' \/ lapse' = 2,
         rec'.shelf # "active" => rec'.status \notin InFlight,
         rec'.awaiting => rec.awaiting,
         Fits(rec)'
  PROVE  TaskInv'
<1>n. rec # None /\ rec' # None
  BY NoneIsNothing
<1>1. RequestsAreCounted'
  BY <1>n DEF TaskInv, ExecutionsHold, RequestsAreCounted
<1>2. rec'.awaiting => cp # None /\ cp.asked
  BY <1>n DEF TaskInv, ExecutionsHold, WaitingAndShelved
<1>3. ASSUME NEW c \in Calls, calls'[c].op = "resume", Unmoved(c)'
      PROVE  Unmoved(c)
  BY <1>3 DEF Unmoved
<1>4. QED
  BY <1>n, <1>1, <1>2, <1>3, NobodyRuns

\* Another status than ready leaves draft and confirmations as they were.
LEMMA FitsStill ==
  ASSUME TaskInv, rec \in TaskRec, rec'.draft = rec.draft, rec'.version = rec.version,
         rec'.confs = rec.confs, rec'.status = rec.status \/ rec'.status # "DRAFT_READY",
         lapse' = 0 => lapse = 0
  PROVE  Fits(rec)'
<1>1. Fits(rec)
  BY NoneIsNothing DEF TaskInv, MaterialHolds
<1>2. QED
  BY <1>1 DEF Fits, DraftMatchesInput, ReadyIsScanned, ConfirmedIsCurrent

\* The record with another status, or with another shelf.
LEMMA StatusShapes ==
  ASSUME NEW r \in TaskRec, NEW v \in Statuses
  PROVE  LET n == [r EXCEPT !.status = v] IN
         /\ n \in TaskRec /\ n.status = v /\ n.exec = r.exec /\ n.version = r.version
         /\ n.draft = r.draft /\ n.awaiting = r.awaiting /\ n.shelf = r.shelf
         /\ n.links = r.links /\ n.confs = r.confs /\ n.usage = r.usage /\ n.worked = r.worked
BY DEF TaskRec

LEMMA AnswerShapes ==
  ASSUME NEW r \in TaskRec, NEW v \in Statuses
  PROVE  LET n == [r EXCEPT !.status = v, !.awaiting = FALSE] IN
         /\ n \in TaskRec /\ n.status = v /\ n.exec = r.exec /\ n.version = r.version
         /\ n.draft = r.draft /\ ~n.awaiting /\ n.shelf = r.shelf
         /\ n.links = r.links /\ n.confs = r.confs /\ n.usage = r.usage /\ n.worked = r.worked
BY DEF TaskRec

LEMMA ShelfShapes ==
  ASSUME NEW r \in TaskRec, NEW v \in {"active", "archived", "trash"}
  PROVE  LET n == [r EXCEPT !.shelf = v] IN
         /\ n \in TaskRec /\ n.status = r.status /\ n.exec = r.exec /\ n.version = r.version
         /\ n.draft = r.draft /\ n.awaiting = r.awaiting /\ n.shelf = v
         /\ n.links = r.links /\ n.confs = r.confs /\ n.usage = r.usage /\ n.worked = r.worked
BY DEF TaskRec

LEMMA CancelShape ==
  ASSUME NEW r \in TaskRec
  PROVE  LET n == [r EXCEPT !.status = "CANCELLED", !.exec = None] IN
         /\ n \in TaskRec /\ n.status = "CANCELLED" /\ n.version = r.version
         /\ n.draft = r.draft /\ n.awaiting = r.awaiting /\ n.shelf = r.shelf
         /\ n.links = r.links /\ n.confs = r.confs /\ n.usage = r.usage /\ n.worked = r.worked
BY DEF TaskRec, Statuses

LEMMA StatusFacts ==
  /\ Statuses = {"RECEIVED", "RUNNING", "NEEDS_INFO", "FAILED", "CHECK_BLOCKED", "DRAFT_READY",
                 "INPUT_REJECTED", "CANCELLED"}
  /\ InFlight = {"RECEIVED", "RUNNING"}
  /\ Resumable = {"NEEDS_INFO", "FAILED", "CHECK_BLOCKED"}
  /\ HasMaterial = {"DRAFT_READY", "CHECK_BLOCKED"}
BY DEF Statuses, InFlight, Resumable, HasMaterial

\* A task that is not under way has nobody that runs.
LEMMA AtRest ==
  ASSUME TaskInv, rec # None => rec.status \notin InFlight \/ live = None
  PROVE  Nobody
BY TheRunner, NoneIsNothing, AgentTaskAssumptions DEF Nobody

LEMMA DisconnectKeeps ==
  ASSUME TaskInv, NEW e \in Execs, Disconnect(e)
  PROVE  TaskInv'
<1>t. TypeOK
  BY DEF TaskInv, ExecutionsHold
<1>1. /\ exec[e].pc \in Running \cup {"lost"} /\ Exec(e, Ending)
      /\ UNCHANGED <<cp, live, calls, sent, lapse>>
  BY DEF Disconnect
<1>e. Ending \in ExecRec /\ Ending.pc \notin Running /\ "lost" \notin Running
  BY ExecShapes
<1>2. CASE Owner(e) /\ rec.status \in InFlight
  <2>1. rec \in TaskRec /\ rec # None
    BY <1>t, <1>2 DEF TypeOK, Owner
  <2>2. exec[e].pc \in Running \/ Nobody
    BY <1>1, <1>2, <1>e, TheRunner DEF Nobody, Owner
  <2>3. Nobody' /\ exec' \in [Execs -> ExecRec]
    BY <1>1, <1>e, <2>2, TheRunnerEnds
  <2>4. CASE rec' = [rec EXCEPT !.status = "FAILED"] /\ UNCHANGED problem
    <3>1. /\ rec' \in TaskRec /\ rec'.status = "FAILED" /\ rec'.exec = rec.exec
          /\ rec'.version = rec.version /\ rec'.draft = rec.draft /\ rec'.awaiting = rec.awaiting
          /\ rec'.confs = rec.confs /\ rec'.usage = rec.usage
      BY <2>1, <2>4, StatusShapes, StatusFacts
    <3>2. Fits(rec)'
      BY <1>1, <2>1, <3>1, FitsStill
    <3>3. "FAILED" \notin InFlight /\ rec.status # "CANCELLED"
      BY <1>2, StatusFacts
    <3>4. QED
      BY <1>t, <1>1, <2>1, <2>3, <2>4, <3>1, <3>2, <3>3, Rewritten DEF TypeOK
  <2>5. CASE problem' = TRUE /\ UNCHANGED rec
    <3>1. Fits(rec)'
      BY <1>1, <2>1, <2>5, FitsStill
    <3>2. rec.shelf # "active" => rec.status \notin InFlight
      BY <2>1 DEF TaskInv, ExecutionsHold, WaitingAndShelved
    <3>3. QED
      BY <1>t, <1>1, <2>1, <2>3, <2>5, <3>1, <3>2, Rewritten DEF TypeOK
  <2>6. QED
    BY <1>2, <2>4, <2>5 DEF Disconnect
<1>3. CASE ~(Owner(e) /\ rec.status \in InFlight)
  <2>1. exec[e].pc \notin Running
    BY <1>3, TheRunner, NoneIsNothing DEF Owner
  <2>2. UNCHANGED <<rec, problem>>
    BY <1>3 DEF Disconnect
  <2>3. QED
    BY <1>1, <1>e, <2>1, <2>2, AnotherEnds
<1>4. QED
  BY <1>2, <1>3

LEMMA CancelKeeps ==
  ASSUME TaskInv, Cancel
  PROVE  TaskInv'
<1>t. TypeOK
  BY DEF TaskInv, ExecutionsHold
<1>1. /\ rec # None /\ rec' = [rec EXCEPT !.status = "CANCELLED", !.exec = None]
      /\ UNCHANGED <<cp, live, problem, calls, sent, lapse>>
  BY DEF Cancel, Open
<1>2. rec \in TaskRec
  BY <1>t, <1>1 DEF TypeOK
<1>3. /\ rec' \in TaskRec /\ rec'.status = "CANCELLED"
      /\ rec'.version = rec.version /\ rec'.draft = rec.draft /\ rec'.awaiting = rec.awaiting
      /\ rec'.confs = rec.confs /\ rec'.usage = rec.usage
  BY <1>1, <1>2, CancelShape
<1>4. Nobody' /\ exec' \in [Execs -> ExecRec]
  <2>1. CASE Nobody
    <3>1. exec' = exec
      BY <1>t, <2>1 DEF Cancel, Nobody, TypeOK
    <3>2. QED
      BY <1>t, <2>1, <3>1 DEF Nobody, TypeOK
  <2>2. CASE ~Nobody
    <3>1. PICK e \in Execs : exec[e].pc \in Running
      BY <2>2 DEF Nobody
    <3>2. live = e /\ rec.exec = e /\ e # None
      BY <3>1, TheRunner, AgentTaskAssumptions
    <3>3. Exec(e, Ending)
      BY <3>1, <3>2 DEF Cancel, Exec
    <3>4. QED
      BY <3>1, <3>3, ExecShapes, TheRunnerEnds
  <2>3. QED
    BY <2>1, <2>2
<1>5. Fits(rec)'
  BY <1>1, <1>2, <1>3, FitsStill
<1>6. "CANCELLED" \notin InFlight
  BY StatusFacts
<1>7. QED
  BY <1>t, <1>1, <1>2, <1>3, <1>4, <1>5, <1>6, Rewritten DEF TypeOK

-----------------------------------------------------------------------------
(* Dispatch. *)

\* A dispatch that could not be stored keeps the identity of the old execution.
LEMMA BeginFailsKeeps ==
  ASSUME TaskInv, Nobody, NEW r \in TaskRec, BeginFails(r),
         cp' = cp, sent' = sent, calls' \in [Calls -> CallRec],
         \A c \in Calls : calls'[c].op = "resume" => calls'[c] = calls[c],
         rec # None => r.exec = rec.exec /\ rec.status # "CANCELLED",
         r.status \in InFlight, r.shelf = "active", ~r.awaiting,
         sent <= r.usage, r.usage <= MaxRequests, Fits(r)
  PROVE  TaskInv'
<1>t. TypeOK
  BY DEF TaskInv, ExecutionsHold
<1> DEFINE f == [r EXCEPT !.status = "FAILED"]
<1>f. /\ f \in TaskRec /\ f.status = "FAILED" /\ f.exec = r.exec /\ f.version = r.version
      /\ f.draft = r.draft /\ f.awaiting = r.awaiting /\ f.shelf = r.shelf
      /\ f.confs = r.confs /\ f.usage = r.usage
  <2>1. "FAILED" \in Statuses
    BY StatusFacts
  <2>2. QED
    BY <2>1, StatusShapes
<1>a. lapse \in 0..2 => AtMost(lapse, 1) \in {1, 2}
  BY DEF AtMost
<1>1. /\ (rec' = f /\ lapse' \in {1, 2}) \/ (rec' = r /\ lapse' = 2)
      /\ UNCHANGED <<exec, live, problem>>
  BY <1>t, <1>a DEF BeginFails, TypeOK
<1> HIDE DEF f
<1>2. /\ rec' \in TaskRec /\ rec'.exec = r.exec /\ rec'.status \in {r.status, "FAILED"}
      /\ rec'.version = r.version /\ rec'.draft = r.draft /\ rec'.awaiting = r.awaiting
      /\ rec'.shelf = r.shelf /\ rec'.confs = r.confs /\ rec'.usage = r.usage
  BY <1>1, <1>f
<1>3. rec'.status \in InFlight => lapse' = 2
  BY <1>1, <1>f, StatusFacts
<1>4. Fits(rec)'
  <2>1. rec'.status # "DRAFT_READY"
    BY <1>2, StatusFacts
  <2>2. lapse' # 0
    BY <1>1
  <2>3. QED
    BY <1>2, <2>1, <2>2 DEF Fits, DraftMatchesInput, ReadyIsScanned, ConfirmedIsCurrent
<1>5. RequestsAreCounted'
  <2>1. r.usage \in Nat /\ sent \in Nat /\ MaxRequests \in Nat
    BY <1>t, AgentTaskAssumptions DEF TaskRec, TypeOK
  <2>2. QED
    BY <1>2, <2>1, NoneIsNothing DEF RequestsAreCounted
<1>6. ASSUME NEW c \in Calls, calls'[c].op = "resume"
      PROVE  /\ rec # None /\ calls'[c] = calls[c]
             /\ Unmoved(c)' => Unmoved(c) /\ (lapse' = 0 => rec'.version = rec.version)
  <2>1. calls'[c] = calls[c] /\ ResumeSafe(c)
    BY <1>6 DEF TaskInv, ExecutionsHold, ResumesAreSafe
  <2>2. rec # None
    BY <1>6, <2>1 DEF ResumeSafe
  <2>3. QED
    BY <1>1, <1>2, <2>1, <2>2 DEF Unmoved
<1>7. Nobody' /\ exec' \in [Execs -> ExecRec] /\ live' \in Execs \cup {None} /\ problem' \in BOOLEAN
  BY <1>t, <1>1 DEF Nobody, TypeOK
<1>8. lapse' \in 0..2 /\ (lapse' = 0 => lapse = 0)
  BY <1>1
<1>9. QED
  BY <1>2, <1>3, <1>4, <1>5, <1>6, <1>7, <1>8, NobodyRuns

\* A dispatch of a record that nobody runs for.
LEMMA DispatchKeeps ==
  ASSUME TaskInv, Nobody, NEW r \in TaskRec, NEW how \in Starts, Dispatch(r, how),
         cp' = cp, sent' = sent, calls' \in [Calls -> CallRec],
         \A c \in Calls : calls'[c].op = "resume" => calls'[c] = calls[c],
         rec # None => r.exec = rec.exec /\ rec.status # "CANCELLED",
         r.status \in InFlight, r.shelf = "active", ~r.awaiting,
         how # "fresh" => Continuable(how),
         how = "checkpoint" /\ lapse = 0 => cp.st.version = r.version,
         sent <= r.usage, r.usage <= MaxRequests, Fits(r)
  PROVE  TaskInv'
BY BeginKeeps, BeginFailsKeeps DEF Dispatch

LEMMA CreateKeeps ==
  ASSUME TaskInv, CreateTask
  PROVE  TaskInv'
<1>t. TypeOK
  BY DEF TaskInv, ExecutionsHold
<1>1. PICK i \in Inputs : Dispatch(NewTask(i), "fresh")
  BY DEF CreateTask
<1>2. rec = None /\ UNCHANGED <<cp, calls, sent>>
  BY DEF CreateTask
<1> DEFINE r == NewTask(i)
<1>3. /\ r \in TaskRec /\ r.status \in InFlight /\ r.shelf = "active" /\ ~r.awaiting
      /\ r.usage = 0 /\ r.draft = None /\ r.confs = {} /\ r.status # "DRAFT_READY"
  BY DEF NewTask, TaskRec, Statuses, InFlight
<1> HIDE DEF r
<1>4. Fits(r)
  BY <1>3 DEF Fits, DraftMatchesInput, ReadyIsScanned, ConfirmedIsCurrent
<1>5. sent <= r.usage /\ r.usage <= MaxRequests
  <2>1. sent \in Nat /\ MaxRequests \in Nat
    BY <1>t, AgentTaskAssumptions DEF TypeOK
  <2>2. ~(sent > 0)
    BY <1>2 DEF TaskInv, ExecutionsHold, RequestsAreCounted
  <2>3. QED
    BY <1>3, <2>1, <2>2
<1>6. Nobody
  BY <1>2, AtRest
<1>7. "fresh" \in Starts /\ "fresh" # "checkpoint"
  BY DEF Starts
<1>8. calls' \in [Calls -> CallRec] /\ Dispatch(r, "fresh")
  BY <1>t, <1>1, <1>2 DEF TypeOK, r
<1>9. QED
  BY <1>2, <1>3, <1>4, <1>5, <1>6, <1>7, <1>8, DispatchKeeps

\* New input drops the draft and with it what was confirmed.
LEMMA InputSet ==
  ASSUME NEW r \in TaskRec, NEW i \in Inputs
  PROVE  LET w == WithInput(r, i) IN
         /\ w \in TaskRec /\ w.version = i /\ w.exec = r.exec /\ w.status = r.status
         /\ w.awaiting = r.awaiting /\ w.shelf = r.shelf /\ w.links = r.links
         /\ w.usage = r.usage /\ w.worked = r.worked
         /\ Named(w.confs) = Named(r.confs)
         /\ w = r \/ (w.draft = None /\ ConfirmedIsCurrent(w))
<1>1. CASE i = r.version
  BY <1>1 DEF WithInput
<1>2. CASE i # r.version
  <2> DEFINE q == [r EXCEPT !.version = i, !.draft = None]
             w == Invalidated(q)
  <2>1. /\ q \in TaskRec /\ q.version = i /\ q.draft = None /\ q.exec = r.exec
        /\ q.status = r.status /\ q.awaiting = r.awaiting /\ q.shelf = r.shelf
        /\ q.links = r.links /\ q.usage = r.usage /\ q.worked = r.worked /\ q.confs = r.confs
    BY DEF TaskRec
  <2>2. WithInput(r, i) = w
    BY <1>2 DEF WithInput
  <2> HIDE DEF q
  <2>3. /\ w \in TaskRec /\ w = [q EXCEPT !.confs = w.confs]
        /\ Named(w.confs) = Named(q.confs) /\ ConfirmedIsCurrent(w)
    BY <2>1, Marking
  <2> HIDE DEF w
  <2>4. /\ w.version = q.version /\ w.draft = q.draft /\ w.exec = q.exec /\ w.status = q.status
        /\ w.awaiting = q.awaiting /\ w.shelf = q.shelf /\ w.links = q.links
        /\ w.usage = q.usage /\ w.worked = q.worked
    BY <2>1, <2>3 DEF TaskRec
  <2>5. QED
    BY <2>1, <2>2, <2>3, <2>4
<1>3. QED
  BY <1>1, <1>2

\* The record that a clarification or a resume dispatches.
GoesOn(w, v) == [w EXCEPT !.awaiting = FALSE, !.status = v]

LEMMA Continued ==
  ASSUME TaskInv, rec \in TaskRec, NEW i \in Inputs, NEW v \in InFlight,
         NEW w, w = WithInput(rec, i) \/ (w = rec /\ i = rec.version),
         NEW r, r = GoesOn(w, v)
  PROVE  /\ r \in TaskRec /\ r.status = v /\ r.exec = rec.exec /\ r.version = i
         /\ ~r.awaiting /\ r.shelf = rec.shelf /\ r.links = rec.links
         /\ r.usage = rec.usage /\ r.worked = rec.worked
         /\ Named(r.confs) = Named(rec.confs)
         /\ sent <= r.usage /\ r.usage <= MaxRequests /\ Fits(r)
<1>1. /\ w \in TaskRec /\ w.version = i /\ w.exec = rec.exec /\ w.shelf = rec.shelf
      /\ w.links = rec.links /\ w.usage = rec.usage /\ w.worked = rec.worked
      /\ Named(w.confs) = Named(rec.confs)
      /\ w = rec \/ (w.draft = None /\ ConfirmedIsCurrent(w))
  BY InputSet
<1>2. v \in Statuses /\ v # "DRAFT_READY"
  BY StatusFacts
<1>3. /\ r \in TaskRec /\ r.status = v /\ r.exec = w.exec /\ r.version = w.version
      /\ r.draft = w.draft /\ ~r.awaiting /\ r.shelf = w.shelf
      /\ r.links = w.links /\ r.confs = w.confs /\ r.usage = w.usage /\ r.worked = w.worked
  BY <1>1, <1>2 DEF TaskRec, GoesOn
<1>4. Fits(rec) /\ rec # None
  BY NoneIsNothing DEF TaskInv, MaterialHolds
<1>5. Fits(r)
  BY <1>1, <1>2, <1>3, <1>4 DEF Fits, DraftMatchesInput, ReadyIsScanned, ConfirmedIsCurrent
<1>6. sent <= rec.usage /\ rec.usage <= MaxRequests
  <2>1. sent \in Nat /\ rec.usage \in Nat
    BY DEF TaskInv, ExecutionsHold, TypeOK, TaskRec
  <2>2. QED
    BY <1>4, <2>1 DEF TaskInv, ExecutionsHold, RequestsAreCounted
<1>7. QED
  BY <1>1, <1>3, <1>5, <1>6

\* A clarification writes to a task that can be continued, as it is now.
LEMMA ClarifyFinds ==
  ASSUME TaskInv, Clarify \/ \E c \in Calls : ClarifyCommit(c)
  PROVE  /\ rec \in TaskRec /\ rec # None /\ rec.shelf = "active"
         /\ rec.status \in Resumable /\ ClarifyWrite
<1>t. TypeOK
  BY DEF TaskInv, ExecutionsHold
<1>1. CASE Clarify
  BY <1>t, <1>1 DEF Clarify, Open, TypeOK
<1>2. ASSUME NEW c \in Calls, ClarifyCommit(c)
      PROVE  /\ rec \in TaskRec /\ rec # None /\ rec.shelf = "active"
             /\ rec.status \in Resumable /\ ClarifyWrite
  <2>1. /\ rec \in TaskRec /\ rec # None /\ rec.shelf = "active" /\ calls[c] \in CallRec
        /\ rec.status = calls[c].status /\ ClarifyWrite
    BY <1>t, <1>2 DEF ClarifyCommit, Open, TypeOK
  <2>2. calls[c].status # None => calls[c].status \in Resumable
    BY <2>1 DEF CallRec
  <2>3. rec.status \in Statuses
    BY <2>1 DEF TaskRec
  <2>4. calls[c].status # None
    BY <2>1, <2>3, NoneIsNothing
  <2>5. QED
    BY <2>1, <2>2, <2>4
<1>3. QED
  BY <1>1, <1>2

\* A clarification of a task that nobody runs for.
LEMMA ClarifyKeeps ==
  ASSUME TaskInv, Clarify \/ \E c \in Calls : ClarifyCommit(c)
  PROVE  TaskInv'
<1>t. TypeOK
  BY DEF TaskInv, ExecutionsHold
<1>1. ClarifyWrite /\ rec.status \in Resumable
  BY ClarifyFinds
<1>2. rec # None /\ rec \in TaskRec /\ rec.shelf = "active"
  BY ClarifyFinds
<1>3. Nobody /\ rec.status # "CANCELLED"
  BY <1>1, StatusFacts, AtRest
<1>4. /\ calls' \in [Calls -> CallRec]
      /\ \A c \in Calls : calls'[c].op = "resume" => calls'[c] = calls[c]
      /\ cp' = cp /\ sent' = sent
  <2>1. CASE Clarify
    BY <1>t, <2>1 DEF Clarify, ClarifyWrite, TypeOK
  <2>2. ASSUME NEW c \in Calls, ClarifyCommit(c)
        PROVE  /\ calls' \in [Calls -> CallRec]
               /\ \A d \in Calls : calls'[d].op = "resume" => calls'[d] = calls[d]
               /\ cp' = cp /\ sent' = sent
    BY <1>t, <2>2, CallEnds DEF ClarifyCommit, ClarifyWrite, Call, TypeOK
  <2>3. QED
    BY <2>1, <2>2
<1> DEFINE v == IF rec.awaiting THEN "RUNNING" ELSE "RECEIVED"
           how == IF rec.awaiting THEN "interrupt" ELSE "fresh"
<1>5. PICK i \in Inputs :
        Dispatch([WithInput(rec, i) EXCEPT !.awaiting = FALSE, !.status = v], how)
  BY <1>1 DEF ClarifyWrite
<1>6. v \in InFlight /\ how \in Starts /\ how # "checkpoint" /\ (how # "fresh" => rec.awaiting)
  BY DEF InFlight, Starts
<1> HIDE DEF v, how
<1> DEFINE w == WithInput(rec, i)
           r == [w EXCEPT !.awaiting = FALSE, !.status = v]
<1>r. r = GoesOn(w, v) /\ w = WithInput(rec, i)
  BY DEF GoesOn
<1>9. Dispatch(r, how)
  BY <1>5
<1> HIDE DEF r, w
<1>7. /\ r \in TaskRec /\ r.status = v /\ r.exec = rec.exec /\ r.version = i
      /\ ~r.awaiting /\ r.shelf = rec.shelf
      /\ sent <= r.usage /\ r.usage <= MaxRequests /\ Fits(r)
  BY <1>2, <1>6, <1>r, Continued
<1>8. how # "fresh" => Continuable(how)
  <2>1. SUFFICES ASSUME rec.awaiting
                 PROVE  Continuable(how)
    BY <1>6
  <2>2. cp # None /\ cp.asked /\ cp.next = "info"
    BY <1>2, <2>1 DEF TaskInv, ExecutionsHold, MaterialHolds, WaitingAndShelved, CheckpointFits
  <2>3. QED
    BY <2>2 DEF Continuable
<1>10. QED
  BY <1>2, <1>3, <1>4, <1>6, <1>7, <1>8, <1>9, DispatchKeeps

\* A resume whose record is still the one it saw.
LEMMA ResumeKeeps ==
  ASSUME TaskInv, NEW c \in Calls, ResumeCommit(c)
  PROVE  TaskInv'
<1> DEFINE k == calls[c]
           w == IF k.given THEN WithInput(rec, k.input) ELSE rec
           i == IF k.given THEN k.input ELSE rec.version
           r == [w EXCEPT !.awaiting = FALSE, !.status = "RUNNING"]
<1>t. TypeOK
  BY DEF TaskInv, ExecutionsHold
<1>1. /\ k.op = "resume" /\ k.how # None /\ rec # None /\ rec.shelf = "active"
      /\ rec.exec = k.exec /\ rec.status = k.status /\ live = None
      /\ Dispatch(r, k.how) /\ Call(c, IdleCall) /\ UNCHANGED <<cp, sent>>
  BY DEF ResumeCommit, Open
<1>2. rec \in TaskRec /\ k \in CallRec
  BY <1>t, <1>1 DEF TypeOK
<1>3. ResumeSafe(c) /\ ResumeFits(c)
  BY DEF TaskInv, ExecutionsHold, MaterialHolds, ResumesAreSafe
<1>4. k.status \in Resumable /\ k.input \in Inputs /\ k.how \in {"interrupt", "checkpoint"} /\ k.given \in BOOLEAN
  BY <1>1, <1>2, <1>3 DEF ResumeSafe, CallRec
<1>5. Unmoved(c)
  BY <1>1, <1>4, StatusFacts DEF Unmoved
<1>6. Continuable(k.how) /\ k.how \in Starts
  BY <1>1, <1>3, <1>4, <1>5 DEF ResumeSafe, Starts
<1>7. Nobody /\ rec.status # "CANCELLED"
  BY <1>1, <1>4, AtRest, StatusFacts
<1>8. i \in Inputs /\ (w = WithInput(rec, i) \/ (w = rec /\ i = rec.version))
  BY <1>2, <1>4 DEF TaskRec
<1>9. k.how = "checkpoint" /\ lapse = 0 => cp.st.version = i
  BY <1>1, <1>3, <1>5 DEF ResumeFits
<1>10. "RUNNING" \in InFlight
  BY DEF InFlight
<1>11. /\ calls' \in [Calls -> CallRec]
       /\ \A d \in Calls : calls'[d].op = "resume" => calls'[d] = calls[d]
  BY <1>t, <1>1, CallEnds DEF Call, TypeOK
<1>r. r = GoesOn(w, "RUNNING")
  BY DEF GoesOn
<1> HIDE DEF w, i, r
<1>12. /\ r \in TaskRec /\ r.status = "RUNNING" /\ r.exec = rec.exec /\ r.version = i
       /\ ~r.awaiting /\ r.shelf = rec.shelf
       /\ sent <= r.usage /\ r.usage <= MaxRequests /\ Fits(r)
  BY <1>2, <1>8, <1>10, <1>r, Continued
<1>13. QED
  BY <1>1, <1>6, <1>7, <1>9, <1>10, <1>11, <1>12, DispatchKeeps

-----------------------------------------------------------------------------
(* Requests that wait. *)

\* A request that is not a resume remembers nothing that could go wrong.
LEMMA PlainCall ==
  ASSUME TaskInv, NEW c \in Calls, NEW k \in CallRec, Call(c, k), OnlyCalls, k.op # "resume"
  PROVE  TaskInv'
<1>1. calls'[c] = k
  BY DEF TaskInv, ExecutionsHold, TypeOK, Call
<1>2. ResumeSafe(c)' /\ ResumeFits(c)'
  BY <1>1 DEF ResumeSafe, ResumeFits
<1>3. QED
  BY <1>2, CallMoves

\* A request ends without an effect, or a clarification or a link begins.
LEMMA CallsKeep ==
  ASSUME TaskInv, NEW c \in Calls, Refused(c) \/ ClarifyBegin(c) \/ LinkBegin(c)
  PROVE  TaskInv'
<1>1. CASE Refused(c)
  BY <1>1, CallEnds, PlainCall DEF Refused, Call, OnlyCalls
<1>2. CASE ClarifyBegin(c)
  <2> DEFINE k == [IdleCall EXCEPT !.op = "clarify", !.status = rec.status]
  <2>1. k \in CallRec /\ k.op = "clarify"
    BY <1>2 DEF ClarifyBegin, IdleCall, CallRec
  <2>2. Call(c, k) /\ OnlyCalls
    BY <1>2 DEF ClarifyBegin
  <2> HIDE DEF k
  <2>3. QED
    BY <2>1, <2>2, PlainCall
<1>3. CASE LinkBegin(c)
  <2> DEFINE k == [IdleCall EXCEPT !.op = "link"]
  <2>1. k \in CallRec /\ k.op = "link"
    BY DEF IdleCall, CallRec
  <2>2. Call(c, k) /\ OnlyCalls
    BY <1>3 DEF LinkBegin
  <2> HIDE DEF k
  <2>3. QED
    BY <2>1, <2>2, PlainCall
<1>4. QED
  BY <1>1, <1>2, <1>3

\* A resume begins while nobody runs.
LEMMA ResumeBeginKeeps ==
  ASSUME TaskInv, NEW c \in Calls, ResumeBegin(c)
  PROVE  TaskInv'
<1>t. TypeOK
  BY DEF TaskInv, ExecutionsHold
<1>1. rec \in TaskRec /\ rec # None /\ rec.status \in Resumable /\ live = None /\ OnlyCalls
  BY <1>t DEF ResumeBegin, Open, TypeOK
<1>2. PICK g \in BOOLEAN : \E i \in IF g THEN Inputs ELSE {rec.version} :
        Call(c, [op |-> "resume", exec |-> rec.exec, status |-> rec.status,
                 input |-> i, given |-> g, how |-> None])
  BY DEF ResumeBegin
<1>3. PICK i \in IF g THEN Inputs ELSE {rec.version} :
        Call(c, [op |-> "resume", exec |-> rec.exec, status |-> rec.status,
                 input |-> i, given |-> g, how |-> None])
  BY <1>2
<1>4. i \in Inputs /\ (~g => i = rec.version)
  BY <1>1, <1>3 DEF TaskRec
<1> DEFINE k == [op |-> "resume", exec |-> rec.exec, status |-> rec.status,
                 input |-> i, given |-> g, how |-> None]
<1>5. k \in CallRec
  BY <1>1, <1>2, <1>4 DEF TaskRec, CallRec
<1>6. /\ k.op = "resume" /\ k.exec = rec.exec /\ k.status = rec.status
      /\ k.input = i /\ k.given = g /\ k.how = None
  OBVIOUS
<1>7. Call(c, k)
  BY <1>3
<1> HIDE DEF k
<1>8. calls'[c] = k
  BY <1>t, <1>7 DEF TypeOK, Call
<1>9. None \notin Inputs \cup Statuses \cup Starts
  BY NoneIsNothing, AgentTaskAssumptions
<1>10. Nobody
  BY <1>1, AtRest
<1>11. rec' = rec /\ exec' = exec
  BY <1>1 DEF OnlyCalls
<1>12. ResumeSafe(c)'
  <2>1. k.status # None /\ k.input # None
    BY <1>1, <1>4, <1>6, <1>9 DEF Statuses
  <2>2. k.exec \in Execs => exec'[k.exec].pc \notin Running
    BY <1>10, <1>11 DEF Nobody
  <2>3. QED
    BY <1>1, <1>6, <1>8, <1>11, <2>1, <2>2 DEF ResumeSafe
<1>13. ResumeFits(c)'
  <2>1. k.how # "checkpoint"
    BY <1>6, <1>9 DEF Starts
  <2>2. QED
    BY <1>4, <1>6, <1>8, <1>11, <2>1 DEF ResumeFits
<1>14. QED
  BY <1>1, <1>5, <1>7, <1>12, <1>13, CallMoves

\* A resume has looked at the graph that waits.
LEMMA InspectKeeps ==
  ASSUME TaskInv, NEW c \in Calls, ResumeInspect(c)
  PROVE  TaskInv'
<1>t. TypeOK
  BY DEF TaskInv, ExecutionsHold
<1>1. calls[c] \in CallRec /\ calls[c].op = "resume" /\ cp # None /\ OnlyCalls
  BY <1>t DEF ResumeInspect, TypeOK
<1>2. PICK h \in {"interrupt", "checkpoint"} :
        /\ Call(c, [calls[c] EXCEPT !.how = h])
        /\ h = "interrupt" => cp.asked
        /\ h = "checkpoint" => cp.next # "end" /\ cp.st.version = calls[c].input
  BY DEF ResumeInspect
<1> DEFINE k == [calls[c] EXCEPT !.how = h]
<1>3. /\ k \in CallRec /\ k.op = calls[c].op /\ k.exec = calls[c].exec /\ k.status = calls[c].status
      /\ k.input = calls[c].input /\ k.given = calls[c].given /\ k.how = h
  BY <1>1 DEF CallRec
<1>4. Call(c, k)
  BY <1>2
<1> HIDE DEF k
<1>5. calls'[c] = k
  BY <1>t, <1>4 DEF TypeOK, Call
<1>6. ResumeSafe(c) /\ ResumeFits(c)
  BY DEF TaskInv, ExecutionsHold, MaterialHolds, ResumesAreSafe
<1>7. UNCHANGED <<rec, cp, exec, lapse>>
  BY <1>1 DEF OnlyCalls
<1>8. Continuable(h)'
  BY <1>1, <1>2, <1>7 DEF Continuable, TaskInv, MaterialHolds, CheckpointFits
<1>9. ResumeSafe(c)'
  BY <1>1, <1>3, <1>5, <1>6, <1>7, <1>8 DEF ResumeSafe
<1>10. ResumeFits(c)'
  BY <1>1, <1>2, <1>3, <1>5, <1>6, <1>7 DEF ResumeFits, Unmoved
<1>11. QED
  BY <1>1, <1>3, <1>4, <1>9, <1>10, CallMoves

-----------------------------------------------------------------------------
(* Requests that write at once. *)

\* The shelf of a task that is not under way.
LEMMA ShelfKeeps ==
  ASSUME TaskInv, ArchiveTask \/ RestoreTask \/ DeleteTask
  PROVE  TaskInv'
<1>t. TypeOK
  BY DEF TaskInv, ExecutionsHold
<1>1. rec \in TaskRec /\ rec.status \notin InFlight /\ live = None /\ OnlyRec
  BY <1>t DEF ArchiveTask, RestoreTask, DeleteTask, Settled, TypeOK
<1>2. PICK v \in {"active", "archived", "trash"} : rec' = [rec EXCEPT !.shelf = v]
  BY DEF ArchiveTask, RestoreTask, DeleteTask
<1>3. /\ rec' \in TaskRec /\ rec'.status = rec.status /\ rec'.exec = rec.exec
      /\ rec'.version = rec.version /\ rec'.draft = rec.draft /\ rec'.awaiting = rec.awaiting
      /\ rec'.confs = rec.confs /\ rec'.usage = rec.usage
  BY <1>1, <1>2, ShelfShapes
<1>4. UNCHANGED <<cp, exec, live, problem, calls, sent, lapse>>
  BY <1>1 DEF OnlyRec
<1>5. Nobody'
  BY <1>1, <1>4, AtRest DEF Nobody
<1>6. Fits(rec)'
  BY <1>1, <1>3, <1>4, FitsStill
<1>7. QED
  BY <1>t, <1>1, <1>3, <1>4, <1>5, <1>6, Rewritten DEF TypeOK

\* The next process marks what was under way.
LEMMA RestartKeeps ==
  ASSUME TaskInv, Restart
  PROVE  TaskInv'
<1>t. TypeOK
  BY DEF TaskInv, ExecutionsHold
<1>1. /\ exec' = [e \in Execs |-> Idle] /\ calls' = [c \in Calls |-> IdleCall]
      /\ live' = None /\ problem' = FALSE /\ UNCHANGED <<cp, sent, lapse>>
  BY DEF Restart
<1>2. exec' \in [Execs -> ExecRec] /\ Nobody' /\ \A e \in Execs : exec'[e].pc \notin Running
  BY <1>1, ExecShapes DEF Nobody
<1>3. calls' \in [Calls -> CallRec] /\ \A c \in Calls : calls'[c].op # "resume"
  BY <1>1, CallEnds
<1>4. CASE rec = None
  <2>1. rec' = None
    BY <1>4 DEF Restart
  <2>2. TypeOK'
    BY <1>t, <1>1, <1>2, <1>3, <2>1 DEF TypeOK
  <2>3. Supervised' /\ OneRunner' /\ WaitingAndShelved' /\ RequestsAreCounted'
    BY <1>1, <1>2, <1>4, <2>1 DEF TaskInv, ExecutionsHold, Supervised, OneRunner,
       WaitingAndShelved, RequestsAreCounted
  <2>4. \A e \in Execs : Alone(e)' /\ RunFits(e)'
    BY <1>2 DEF Alone, RunFits, Running, Working, Nodes
  <2>5. \A c \in Calls : ResumeSafe(c)' /\ ResumeFits(c)'
    BY <1>3 DEF ResumeSafe, ResumeFits
  <2>6. CheckpointFits'
    BY <1>1 DEF TaskInv, MaterialHolds, CheckpointFits, GraphFits
  <2>7. QED
    BY <2>1, <2>2, <2>3, <2>4, <2>5, <2>6
       DEF TaskInv, ExecutionsHold, MaterialHolds, RunnerIsAlone, ResumesAreSafe
<1>5. CASE rec # None
  <2>1. rec \in TaskRec
    BY <1>t, <1>5 DEF TypeOK
  <2>2. /\ rec' \in TaskRec /\ rec'.status \notin InFlight
        /\ rec'.status = rec.status \/ rec'.status # "DRAFT_READY"
        /\ rec'.exec = rec.exec /\ rec'.version = rec.version /\ rec'.draft = rec.draft
        /\ rec'.awaiting => rec.awaiting
        /\ rec'.confs = rec.confs /\ rec'.usage = rec.usage
        /\ rec.status = "CANCELLED" => rec'.status = "CANCELLED"
    <3>1. CASE rec.status \in InFlight
      <4>1. rec' = [rec EXCEPT !.status = "FAILED", !.awaiting = FALSE]
        BY <1>5, <3>1 DEF Restart
      <4>2. "FAILED" \in Statuses
        BY StatusFacts
      <4>3. /\ rec' \in TaskRec /\ rec'.status = "FAILED" /\ rec'.exec = rec.exec
            /\ rec'.version = rec.version /\ rec'.draft = rec.draft /\ ~rec'.awaiting
            /\ rec'.confs = rec.confs /\ rec'.usage = rec.usage
        BY <2>1, <4>1, <4>2, AnswerShapes
      <4>4. QED
        BY <3>1, <4>3, StatusFacts
    <3>2. CASE rec.status \notin InFlight
      BY <1>5, <2>1, <3>2 DEF Restart
    <3>3. QED
      BY <3>1, <3>2
  <2>3. Fits(rec)'
    BY <1>1, <2>1, <2>2, FitsStill
  <2>4. live' \in Execs \cup {None} /\ problem' \in BOOLEAN /\ lapse' \in 0..2
    BY <1>t, <1>1 DEF TypeOK
  <2>5. QED
    BY <1>1, <1>2, <1>3, <2>1, <2>2, <2>3, <2>4, Rewritten
<1>6. QED
  BY <1>4, <1>5

\* A formal change is linked to a task that nobody runs for.
LEMMA LinkKeeps ==
  ASSUME TaskInv, NEW c \in Calls, LinkCommit(c)
  PROVE  TaskInv'
<1>t. TypeOK
  BY DEF TaskInv, ExecutionsHold
<1>1. /\ rec \in TaskRec /\ rec # None /\ rec.shelf = "active" /\ live = None
      /\ Call(c, IdleCall) /\ UNCHANGED <<cp, exec, live, problem, sent, lapse>>
  BY <1>t DEF LinkCommit, Open, TypeOK
<1>2. PICK x \in Changes : rec' = [rec EXCEPT !.links = @ \cup {x}, !.worked = TRUE]
  BY DEF LinkCommit
<1>3. /\ rec' \in TaskRec /\ rec'.status = rec.status /\ rec'.exec = rec.exec
      /\ rec'.version = rec.version /\ rec'.draft = rec.draft /\ rec'.awaiting = rec.awaiting
      /\ rec'.confs = rec.confs /\ rec'.usage = rec.usage /\ rec'.shelf = rec.shelf
  BY <1>1, <1>2 DEF TaskRec
<1>4. Nobody'
  BY <1>1, AtRest DEF Nobody
<1>5. Fits(rec)'
  BY <1>1, <1>3, FitsStill
<1>6. rec'.status \in InFlight => problem' \/ lapse' = 2
  BY <1>1, <1>3 DEF TaskInv, ExecutionsHold, Supervised
<1>7. /\ calls' \in [Calls -> CallRec]
      /\ \A d \in Calls : calls'[d].op = "resume" => calls'[d] = calls[d]
  BY <1>t, <1>1, CallEnds DEF Call, TypeOK
<1>8. QED
  BY <1>t, <1>1, <1>3, <1>4, <1>5, <1>6, <1>7, Rewritten DEF TypeOK

\* What a confirmation of the present material leaves on record.
Consent(r) == [ver |-> r.version, mat |-> r.draft.mat, valid |-> TRUE]
WithConsent(r) ==
  [Invalidated(r) EXCEPT !.confs = @ \cup {Consent(r)}, !.worked = TRUE]

LEMMA ConfirmSet ==
  ASSUME NEW r \in TaskRec, r.draft # None, NEW n, n = WithConsent(r)
  PROVE  /\ n \in TaskRec /\ n.status = r.status /\ n.exec = r.exec /\ n.version = r.version
         /\ n.draft = r.draft /\ n.awaiting = r.awaiting /\ n.shelf = r.shelf
         /\ n.links = r.links /\ n.usage = r.usage /\ n.worked
         /\ Named(r.confs) \subseteq Named(n.confs) /\ ConfirmedIsCurrent(n)
<1> DEFINE i == Invalidated(r)
           c == Consent(r)
<1>1. /\ i \in TaskRec /\ i = [r EXCEPT !.confs = i.confs]
      /\ Named(i.confs) = Named(r.confs) /\ ConfirmedIsCurrent(i)
  BY Marking
<1>c. c \in ConfirmRec /\ c.ver = r.version /\ c.mat = r.draft.mat
  BY DEF Consent, ConfirmRec, TaskRec, DraftRec
<1>d. n = [i EXCEPT !.confs = @ \cup {c}, !.worked = TRUE]
  BY DEF WithConsent
<1> HIDE DEF i, c
<1>2. /\ i.status = r.status /\ i.exec = r.exec /\ i.version = r.version
      /\ i.draft = r.draft /\ i.awaiting = r.awaiting /\ i.shelf = r.shelf
      /\ i.links = r.links /\ i.usage = r.usage
  BY <1>1 DEF TaskRec
<1>3. /\ n \in TaskRec /\ n.status = i.status /\ n.exec = i.exec /\ n.version = i.version
      /\ n.draft = i.draft /\ n.awaiting = i.awaiting /\ n.shelf = i.shelf
      /\ n.links = i.links /\ n.usage = i.usage /\ n.worked /\ n.confs = i.confs \cup {c}
  <2> DEFINE s == i.confs \cup {c}
  <2>1. s \in SUBSET ConfirmRec
    BY <1>1, <1>c DEF TaskRec
  <2>2. n = [i EXCEPT !.confs = s, !.worked = TRUE]
    BY <1>1, <1>d DEF TaskRec
  <2> HIDE DEF s
  <2>3. /\ n \in TaskRec /\ n.status = i.status /\ n.exec = i.exec /\ n.version = i.version
        /\ n.draft = i.draft /\ n.awaiting = i.awaiting /\ n.shelf = i.shelf
        /\ n.links = i.links /\ n.usage = i.usage /\ n.worked = TRUE /\ n.confs = s
    BY <1>1, <2>1, <2>2 DEF TaskRec
  <2>4. QED
    BY <2>3 DEF s
<1>4. Named(i.confs) \subseteq Named(n.confs)
  BY <1>3 DEF Named
<1>5. ConfirmedIsCurrent(n)
  BY <1>1, <1>2, <1>3, <1>c DEF ConfirmedIsCurrent
<1>6. QED
  BY <1>1, <1>2, <1>3, <1>4, <1>5

LEMMA ConfirmKeeps ==
  ASSUME TaskInv, Confirm
  PROVE  TaskInv'
<1>t. TypeOK
  BY DEF TaskInv, ExecutionsHold
<1>1. /\ rec \in TaskRec /\ rec # None /\ rec.status \in HasMaterial /\ rec.draft # None
      /\ rec.shelf = "active" /\ UNCHANGED <<cp, exec, live, problem, calls, sent, lapse>>
  BY <1>t DEF Confirm, Open, OnlyRec, TypeOK
<1>2. rec' = WithConsent(rec)
  BY DEF Confirm, WithConsent, Consent
<1>3. /\ rec' \in TaskRec /\ rec'.status = rec.status /\ rec'.exec = rec.exec
      /\ rec'.version = rec.version /\ rec'.draft = rec.draft /\ rec'.awaiting = rec.awaiting
      /\ rec'.shelf = rec.shelf /\ rec'.usage = rec.usage /\ ConfirmedIsCurrent(rec')
  BY <1>1, <1>2, ConfirmSet
<1>4. rec.status \notin InFlight
  BY <1>1, StatusFacts
<1>5. Nobody'
  BY <1>1, <1>4, AtRest DEF Nobody
<1>6. Fits(rec)
  BY <1>1 DEF TaskInv, MaterialHolds
<1>7. Fits(rec)'
  BY <1>1, <1>3, <1>6 DEF Fits, DraftMatchesInput, ReadyIsScanned, ConfirmedIsCurrent
<1>8. QED
  BY <1>t, <1>1, <1>3, <1>4, <1>5, <1>7, Rewritten DEF TypeOK

\* What an edit with its scan leaves on record.
NewDraft(r, m, res) == Scanned([r.draft EXCEPT !.mat = m], r.version, res)
Edited(r, d) == Invalidated([r EXCEPT !.draft = d, !.status = Verdict(d.scan)])

LEMMA EditSet ==
  ASSUME NEW r \in TaskRec, r.draft # None, NEW m \in Materials,
         NEW res \in {"PASSED", "BLOCKED", "FAILED"},
         NEW d, d = NewDraft(r, m, res), NEW n, n = Edited(r, d)
  PROVE  /\ n \in TaskRec /\ n.status \in HasMaterial /\ n.exec = r.exec /\ n.version = r.version
         /\ n.draft = d /\ n.awaiting = r.awaiting /\ n.shelf = r.shelf
         /\ n.links = r.links /\ n.usage = r.usage /\ n.worked = r.worked
         /\ Named(n.confs) = Named(r.confs) /\ ConfirmedIsCurrent(n)
         /\ d \in DraftRec /\ d.from = r.draft.from /\ d.scan # None
         /\ d.scan.of = d.mat /\ d.scan.by = r.version
         /\ n.status = "DRAFT_READY" => d.scan.res = "PASSED"
<1> DEFINE q == [r.draft EXCEPT !.mat = m]
<1>1. q \in DraftRec /\ q.from = r.draft.from /\ q.mat = m /\ r.version \in Inputs
  BY DEF TaskRec, DraftRec
<1>2. d = Scanned(q, r.version, res)
  BY DEF NewDraft
<1> HIDE DEF q
<1>3. /\ d \in DraftRec /\ d.from = q.from /\ d.mat = q.mat
      /\ d.scan.of = q.mat /\ d.scan.by = r.version /\ d.scan.res = res /\ d.scan # None
  BY <1>1, <1>2, ScanOf
<1> DEFINE v == Verdict(d.scan)
           p == [r EXCEPT !.draft = d, !.status = v]
<1>4. v \in HasMaterial /\ (v = "DRAFT_READY" => res = "PASSED")
  BY <1>3 DEF Verdict, HasMaterial
<1>5. n = Invalidated(p)
  BY DEF Edited
<1> HIDE DEF v
<1>6. /\ p \in TaskRec /\ p.status = v /\ p.exec = r.exec /\ p.version = r.version
      /\ p.draft = d /\ p.awaiting = r.awaiting /\ p.shelf = r.shelf
      /\ p.links = r.links /\ p.usage = r.usage /\ p.worked = r.worked /\ p.confs = r.confs
  BY <1>3, <1>4 DEF TaskRec, Statuses
<1> HIDE DEF p
<1>7. /\ n \in TaskRec /\ n = [p EXCEPT !.confs = n.confs]
      /\ Named(n.confs) = Named(p.confs) /\ ConfirmedIsCurrent(n)
  BY <1>5, <1>6, Marking
<1>8. /\ n.status = p.status /\ n.exec = p.exec /\ n.version = p.version
      /\ n.draft = p.draft /\ n.awaiting = p.awaiting /\ n.shelf = p.shelf
      /\ n.links = p.links /\ n.usage = p.usage /\ n.worked = p.worked
  BY <1>6, <1>7 DEF TaskRec
<1>9. QED
  BY <1>1, <1>3, <1>4, <1>6, <1>7, <1>8

LEMMA EditKeeps ==
  ASSUME TaskInv, EditDraft
  PROVE  TaskInv'
<1>t. TypeOK
  BY DEF TaskInv, ExecutionsHold
<1>1. /\ rec \in TaskRec /\ rec # None /\ rec.status \in HasMaterial /\ rec.draft # None
      /\ rec.shelf = "active" /\ UNCHANGED <<cp, exec, live, problem, calls, sent, lapse>>
  BY <1>t DEF EditDraft, Open, OnlyRec, TypeOK
<1>2. PICK m \in Materials, res \in {"PASSED", "BLOCKED", "FAILED"} :
        rec' = Edited(rec, NewDraft(rec, m, res))
  BY DEF EditDraft, Edited, NewDraft
<1> DEFINE d == NewDraft(rec, m, res)
<1>3. d = NewDraft(rec, m, res) /\ rec' = Edited(rec, d)
  BY <1>2
<1> HIDE DEF d
<1>4. /\ rec' \in TaskRec /\ rec'.status \in HasMaterial /\ rec'.exec = rec.exec
      /\ rec'.version = rec.version /\ rec'.draft = d /\ rec'.awaiting = rec.awaiting
      /\ rec'.shelf = rec.shelf /\ rec'.usage = rec.usage /\ ConfirmedIsCurrent(rec')
      /\ d \in DraftRec /\ d.from = rec.draft.from /\ d.scan # None
      /\ d.scan.of = d.mat /\ d.scan.by = rec.version
      /\ rec'.status = "DRAFT_READY" => d.scan.res = "PASSED"
  BY <1>1, <1>3, EditSet
<1>5. rec.status \notin InFlight /\ rec'.status \notin InFlight /\ rec.status # "CANCELLED"
  BY <1>1, <1>4, StatusFacts
<1>6. Nobody'
  BY <1>1, <1>5, AtRest DEF Nobody
<1>7. Fits(rec)
  BY <1>1 DEF TaskInv, MaterialHolds
<1>8. Fits(rec)'
  BY <1>1, <1>4, <1>7, NoneIsNothing
     DEF Fits, DraftMatchesInput, ReadyIsScanned, ConfirmedIsCurrent
<1>9. QED
  BY <1>t, <1>1, <1>4, <1>5, <1>6, <1>8, Rewritten DEF TypeOK

-----------------------------------------------------------------------------
(* The theorems. *)

LEMMA StutterKeeps ==
  ASSUME TaskInv, UNCHANGED vars
  PROVE  TaskInv'
BY DEF vars, TaskInv, ExecutionsHold, MaterialHolds, TypeOK, Supervised, OneRunner, Owner,
   WaitingAndShelved, RequestsAreCounted, RunnerIsAlone, Alone, Concludes, Continuable,
   ResumesAreSafe, ResumeSafe, Unmoved, Fits, DraftMatchesInput, ReadyIsScanned,
   ConfirmedIsCurrent, RunFits, GraphFits, CheckpointFits, ResumeFits

LEMMA InitHolds == Init => TaskInv
<1> SUFFICES ASSUME Init
             PROVE  TaskInv
  OBVIOUS
<1>1. /\ rec = None /\ cp = None /\ live = None /\ problem = FALSE /\ sent = 0 /\ lapse = 0
      /\ exec = [e \in Execs |-> Idle] /\ calls = [c \in Calls |-> IdleCall]
  BY DEF Init
<1>2. exec \in [Execs -> ExecRec] /\ \A e \in Execs : exec[e].pc \notin Running
  BY <1>1, ExecShapes
<1>3. calls \in [Calls -> CallRec] /\ \A c \in Calls : calls[c].op # "resume"
  BY <1>1, CallEnds
<1>p. problem \in BOOLEAN
  BY <1>1
<1>4. TypeOK
  <2>1. sent \in Nat /\ lapse \in 0..2
    BY <1>1
  <2>2. QED
    BY <1>1, <1>2, <1>3, <1>p, <2>1 DEF TypeOK
<1>5. Supervised /\ OneRunner /\ WaitingAndShelved /\ RequestsAreCounted
  BY <1>1, <1>2, AgentTaskAssumptions DEF Supervised, OneRunner, WaitingAndShelved, RequestsAreCounted
<1>6. \A e \in Execs : Alone(e) /\ RunFits(e)
  BY <1>2, Resting
<1>7. \A c \in Calls : ResumeSafe(c) /\ ResumeFits(c)
  BY <1>3 DEF ResumeSafe, ResumeFits
<1>8. CheckpointFits
  BY <1>1 DEF CheckpointFits
<1>9. QED
  BY <1>1, <1>4, <1>5, <1>6, <1>7, <1>8
     DEF TaskInv, ExecutionsHold, MaterialHolds, RunnerIsAlone, ResumesAreSafe

LEMMA TaskStep ==
  ASSUME TaskInv, [Next]_vars
  PROVE  TaskInv'
<1>1. CASE UserActs
  <2>1. CASE CreateTask
    BY <2>1, CreateKeeps
  <2>2. CASE Clarify
    BY <2>2, ClarifyKeeps
  <2>3. CASE Cancel
    BY <2>3, CancelKeeps
  <2>4. CASE Confirm
    BY <2>4, ConfirmKeeps
  <2>5. CASE EditDraft
    BY <2>5, EditKeeps
  <2>6. CASE ArchiveTask \/ RestoreTask \/ DeleteTask
    BY <2>6, ShelfKeeps
  <2>7. ASSUME NEW e \in Execs, Disconnect(e)
        PROVE  TaskInv'
    BY <2>7, DisconnectKeeps
  <2>8. ASSUME NEW c \in Calls, ClarifyBegin(c) \/ ResumeBegin(c) \/ LinkBegin(c)
        PROVE  TaskInv'
    BY <2>8, CallsKeep, ResumeBeginKeeps
  <2>9. QED
    BY <1>1, <2>1, <2>2, <2>3, <2>4, <2>5, <2>6, <2>7, <2>8 DEF UserActs
<1>2. CASE Continue
  <2>1. CASE Restart
    BY <2>1, RestartKeeps
  <2>2. ASSUME NEW e \in Execs, Respond(e)
        PROVE  TaskInv'
    BY <2>2, RespondKeeps
  <2>3. ASSUME NEW c \in Calls, ClarifyCommit(c)
        PROVE  TaskInv'
    BY <2>3, ClarifyKeeps
  <2>4. ASSUME NEW c \in Calls, ResumeInspect(c) \/ ResumeCommit(c)
        PROVE  TaskInv'
    BY <2>4, InspectKeeps, ResumeKeeps
  <2>5. ASSUME NEW c \in Calls, LinkCommit(c) \/ Refused(c)
        PROVE  TaskInv'
    BY <2>5, LinkKeeps, CallsKeep
  <2>6. QED
    BY <1>2, <2>1, <2>2, <2>3, <2>4, <2>5 DEF Continue
<1>3. ASSUME NEW e \in Execs, Step(e)
      PROVE  TaskInv'
  <2>1. CASE Start(e)
    BY <2>1, StartKeeps
  <2>2. CASE DeleteThread(e) \/ EnterGraph(e)
    BY <2>2, EnterKeeps
  <2>3. CASE ScreenInput(e)
    BY <2>3, ScreenKeeps
  <2>4. CASE CheckInfo(e)
    BY <2>4, InfoKeeps
  <2>5. CASE RetrieveEvidence(e)
    BY <2>5, RetrieveKeeps
  <2>6. CASE Post(e)
    BY <2>6, PostKeeps
  <2>7. CASE RunCheck(e)
    BY <2>7, CheckKeeps
  <2>8. CASE Finalize(e)
    BY <2>8, FinalizeKeeps
  <2>9. CASE Timeout(e)
    BY <2>9, TimeoutKeeps
  <2>10. CASE PersistTerminal(e)
    BY <2>10, PersistKeeps
  <2>11. CASE OnExecutionDone(e)
    BY <2>11, DoneKeeps
  <2>12. QED
    BY <1>3, <2>1, <2>2, <2>3, <2>4, <2>5, <2>6, <2>7, <2>8, <2>9, <2>10, <2>11 DEF Step
<1>4. CASE UNCHANGED vars
  BY <1>4, StutterKeeps
<1>5. QED
  BY <1>1, <1>2, <1>3, <1>4 DEF Next

LEMMA AlwaysTaskInv == Spec => []TaskInv
<1>1. QED
  BY InitHolds, TaskStep, PTL DEF Spec

\* A task under way is supervised, driven by one execution that owns the record, its
\* requests are counted within the budget, a graph that is waited for waits, and what is
\* shelved is left alone: over concurrent requests, failed saves, disconnects and
\* restarts of agent-app/app/service.py, for any bounds.
THEOREM ExecutionsAlwaysHold == Spec => []ExecutionsHold
<1>1. TaskInv => ExecutionsHold
  BY DEF TaskInv
<1>2. QED
  BY AlwaysTaskInv, <1>1, PTL

\* Draft, scan, confirmation and input on record belong together, whichever runs,
\* clarifications, edits and resumed checkpoints they came through.
THEOREM MaterialAlwaysHolds == Spec => []MaterialHolds
<1>1. TaskInv => MaterialHolds
  BY DEF TaskInv
<1>2. QED
  BY AlwaysTaskInv, <1>1, PTL

-----------------------------------------------------------------------------
(* What no writer takes back. *)

\* What the record still says, and what it says of a record n after it.
Survives(n) ==
  /\ rec.links \subseteq n.links
  /\ rec.usage <= n.usage
  /\ Named(rec.confs) \subseteq Named(n.confs)
  /\ rec.worked => n.worked
  /\ rec.status = "CANCELLED" => n.status = "CANCELLED"
  /\ rec.shelf # "active" => n = [rec EXCEPT !.shelf = n.shelf]

\* A dispatch stores the record it was given, marked or with the new execution.
LEMMA Dispatched ==
  ASSUME NEW r \in TaskRec, NEW how, Dispatch(r, how)
  PROVE  rec'.links = r.links /\ rec'.usage = r.usage /\ rec'.confs = r.confs /\ rec'.worked = r.worked
<1>1. CASE Begin(r, how)
  <2>1. PICK e : rec' = [r EXCEPT !.exec = e]
    BY <1>1 DEF Begin
  <2>2. QED
    BY <2>1 DEF TaskRec
<1>2. CASE BeginFails(r)
  <2>1. rec' = [r EXCEPT !.status = "FAILED"] \/ rec' = r
    BY <1>2 DEF BeginFails
  <2>2. QED
    BY <2>1 DEF TaskRec
<1>3. QED
  BY <1>1, <1>2 DEF Dispatch

\* So a task that is clarified or resumed keeps what is on its record.
LEMMA ContinuedSurvives ==
  ASSUME TaskInv, rec \in TaskRec, NEW i \in Inputs, NEW v \in InFlight,
         NEW w, w = WithInput(rec, i) \/ (w = rec /\ i = rec.version),
         NEW r, r = GoesOn(w, v), NEW how, Dispatch(r, how),
         rec.status # "CANCELLED", rec.shelf = "active"
  PROVE  Survives(rec')
<1>1. /\ r \in TaskRec /\ r.links = rec.links /\ r.usage = rec.usage /\ r.worked = rec.worked
      /\ Named(r.confs) = Named(rec.confs)
  BY Continued
<1>2. rec'.links = r.links /\ rec'.usage = r.usage /\ rec'.confs = r.confs /\ rec'.worked = r.worked
  BY <1>1, Dispatched
<1>3. rec.usage \in Nat
  BY DEF TaskRec
<1>4. QED
  BY <1>1, <1>2, <1>3 DEF Survives

LEMMA ClarifySurvives ==
  ASSUME TaskInv, Clarify \/ \E c \in Calls : ClarifyCommit(c)
  PROVE  Survives(rec')
<1>1. /\ rec \in TaskRec /\ rec.shelf = "active" /\ rec.status # "CANCELLED" /\ ClarifyWrite
  BY ClarifyFinds, StatusFacts
<1> DEFINE v == IF rec.awaiting THEN "RUNNING" ELSE "RECEIVED"
           how == IF rec.awaiting THEN "interrupt" ELSE "fresh"
<1>2. PICK i \in Inputs : Dispatch(GoesOn(WithInput(rec, i), v), how)
  BY <1>1 DEF ClarifyWrite, GoesOn
<1>3. v \in InFlight
  BY DEF InFlight
<1> HIDE DEF v, how
<1>4. QED
  BY <1>1, <1>2, <1>3, ContinuedSurvives

LEMMA ResumeSurvives ==
  ASSUME TaskInv, NEW c \in Calls, ResumeCommit(c)
  PROVE  Survives(rec')
<1> DEFINE k == calls[c]
           w == IF k.given THEN WithInput(rec, k.input) ELSE rec
           i == IF k.given THEN k.input ELSE rec.version
<1>1. /\ k.op = "resume" /\ rec # None /\ rec.shelf = "active" /\ rec.status = k.status
      /\ Dispatch(GoesOn(w, "RUNNING"), k.how)
  BY DEF ResumeCommit, Open, GoesOn
<1>2. rec \in TaskRec /\ k \in CallRec /\ ResumeSafe(c)
  BY <1>1 DEF TaskInv, ExecutionsHold, ResumesAreSafe, TypeOK
<1>3. k.status \in Resumable /\ k.input \in Inputs
  BY <1>1, <1>2 DEF ResumeSafe, CallRec
<1>4. rec.status # "CANCELLED" /\ "RUNNING" \in InFlight
  BY <1>1, <1>3, StatusFacts
<1>5. i \in Inputs /\ (w = WithInput(rec, i) \/ (w = rec /\ i = rec.version))
  BY <1>2, <1>3 DEF TaskRec
<1> HIDE DEF w, i
<1>6. QED
  BY <1>1, <1>2, <1>4, <1>5, ContinuedSurvives

\* An execution counts a request, or stores its result.
LEMMA ExecSurvives ==
  ASSUME TaskInv, rec \in TaskRec, rec' # rec, NEW e \in Execs, Post(e) \/ PersistTerminal(e)
  PROVE  Survives(rec')
<1>u. rec.usage \in Nat
  BY DEF TaskRec
<1>1. CASE Post(e)
  <2> DEFINE l == exec[e].ledger + 1
  <2>1. exec[e].pc \in Asking /\ rec' = [rec EXCEPT !.usage = l]
    BY <1>1 DEF Post, Quiet, Asking
  <2>2. exec[e].pc \in Working /\ exec[e].pc \in Running
    BY <2>1 DEF Asking, Working, Running, Nodes
  <2>3. rec.status \in InFlight /\ rec.shelf = "active"
    BY <2>2, TheRunner
  <2>4. rec.usage <= exec[e].ledger /\ exec[e].ledger \in Nat
    BY <2>2 DEF TaskInv, ExecutionsHold, RunnerIsAlone, Alone, TypeOK, ExecRec
  <2>5. rec.usage <= l
    BY <1>u, <2>4
  <2> HIDE DEF l
  <2>6. /\ rec'.links = rec.links /\ rec'.usage = l /\ rec'.confs = rec.confs
        /\ rec'.worked = rec.worked /\ rec'.status = rec.status /\ rec'.shelf = rec.shelf
    BY <2>1 DEF TaskRec
  <2>7. QED
    BY <2>3, <2>5, <2>6, StatusFacts DEF Survives
<1>2. CASE PersistTerminal(e)
  <2>1. exec[e].pc = "persist" /\ rec' = exec[e].mine
    BY <1>2 DEF PersistTerminal, At
  <2>2. exec[e].pc \in Running
    BY <2>1 DEF Running
  <2>3. rec.status \in InFlight /\ rec.shelf = "active"
    BY <2>2, TheRunner
  <2>4. Concludes(e, rec')
    BY <2>1 DEF TaskInv, ExecutionsHold, RunnerIsAlone, Alone
  <2>5. QED
    BY <2>3, <2>4, StatusFacts DEF Survives, Concludes
<1>3. QED
  BY <1>1, <1>2

\* A request, a disconnect or the next process marks the record.
LEMMA MarkSurvives ==
  ASSUME TaskInv, rec \in TaskRec, rec' # rec,
         Cancel \/ Restart \/ \E e \in Execs : Disconnect(e)
  PROVE  Survives(rec')
<1>1. PICK v \in {"FAILED", "CANCELLED"} :
        /\ \/ rec' = [rec EXCEPT !.status = v]
           \/ rec' = [rec EXCEPT !.status = v, !.exec = None]
           \/ rec' = [rec EXCEPT !.status = v, !.awaiting = FALSE]
        /\ v = "FAILED" => rec.status \in InFlight
        /\ v = "CANCELLED" => rec.shelf = "active"
  <2>1. CASE Cancel
    BY <2>1 DEF Cancel, Open
  <2>2. CASE Restart
    BY <2>2 DEF Restart
  <2>3. ASSUME NEW e \in Execs, Disconnect(e)
        PROVE  rec' = [rec EXCEPT !.status = "FAILED"] /\ rec.status \in InFlight
    BY <2>3 DEF Disconnect
  <2>4. QED
    BY <2>1, <2>2, <2>3
<1>2. rec.shelf # "active" => rec.status \notin InFlight
  BY NoneIsNothing DEF TaskInv, ExecutionsHold, WaitingAndShelved
<1>3. /\ rec'.links = rec.links /\ rec'.usage = rec.usage /\ rec'.confs = rec.confs
      /\ rec'.worked = rec.worked /\ rec'.status = v
  BY <1>1 DEF TaskRec
<1>4. rec.usage \in Nat
  BY DEF TaskRec
<1>5. rec.shelf = "active"
  BY <1>1, <1>2
<1>6. rec.status = "CANCELLED" => v = "CANCELLED"
  BY <1>1, StatusFacts
<1>7. QED
  BY <1>3, <1>4, <1>5, <1>6 DEF Survives

\* A request writes to the record, or moves it to another shelf.
LEMMA WriteSurvives ==
  ASSUME TaskInv, rec \in TaskRec,
         \/ Confirm \/ EditDraft \/ ArchiveTask \/ RestoreTask \/ DeleteTask
         \/ \E c \in Calls : LinkCommit(c)
  PROVE  Survives(rec')
<1>u. rec.usage \in Nat
  BY DEF TaskRec
<1>1. CASE Confirm
  <2>1. rec' = WithConsent(rec) /\ rec.draft # None /\ rec.shelf = "active"
    BY <1>1 DEF Confirm, WithConsent, Consent, Open
  <2>2. QED
    BY <1>u, <2>1, ConfirmSet DEF Survives
<1>2. CASE EditDraft
  <2>1. PICK m \in Materials, res \in {"PASSED", "BLOCKED", "FAILED"} :
          rec' = Edited(rec, NewDraft(rec, m, res))
    BY <1>2 DEF EditDraft, Edited, NewDraft
  <2>2. rec.draft # None /\ rec.shelf = "active" /\ rec.status # "CANCELLED"
    BY <1>2, StatusFacts DEF EditDraft, Open
  <2>3. /\ rec'.links = rec.links /\ rec'.usage = rec.usage /\ rec'.worked = rec.worked
        /\ Named(rec'.confs) = Named(rec.confs)
    BY <2>1, <2>2, EditSet
  <2>4. QED
    BY <1>u, <2>2, <2>3 DEF Survives
<1>3. CASE ArchiveTask \/ RestoreTask \/ DeleteTask
  <2>1. PICK v \in {"active", "archived", "trash"} : rec' = [rec EXCEPT !.shelf = v]
    BY <1>3 DEF ArchiveTask, RestoreTask, DeleteTask
  <2>2. /\ rec'.links = rec.links /\ rec'.usage = rec.usage /\ rec'.worked = rec.worked
        /\ rec'.confs = rec.confs /\ rec'.status = rec.status /\ rec'.shelf = v
    BY <2>1 DEF TaskRec
  <2>3. QED
    BY <1>u, <2>1, <2>2 DEF Survives
<1>4. ASSUME NEW c \in Calls, LinkCommit(c)
      PROVE  Survives(rec')
  <2>1. PICK x \in Changes : rec' = [rec EXCEPT !.links = @ \cup {x}, !.worked = TRUE]
    BY <1>4 DEF LinkCommit
  <2>2. rec.shelf = "active"
    BY <1>4 DEF LinkCommit, Open
  <2>3. /\ rec'.links = rec.links \cup {x} /\ rec'.usage = rec.usage /\ rec'.worked = TRUE
        /\ rec'.confs = rec.confs /\ rec'.status = rec.status
    BY <2>1 DEF TaskRec
  <2>4. QED
    BY <1>u, <2>2, <2>3 DEF Survives
<1>5. QED
  BY <1>1, <1>2, <1>3, <1>4

LEMMA StepSurvives ==
  ASSUME TaskInv, [Next]_vars, rec # None, rec' # rec
  PROVE  Survives(rec')
<1>r. rec \in TaskRec
  BY DEF TaskInv, ExecutionsHold, TypeOK
<1>1. CASE UserActs
  <2>1. ASSUME NEW c \in Calls, ClarifyBegin(c) \/ ResumeBegin(c) \/ LinkBegin(c)
        PROVE  rec' = rec
    BY <2>1 DEF ClarifyBegin, ResumeBegin, LinkBegin, OnlyCalls
  <2>2. ~CreateTask
    BY DEF CreateTask
  <2>3. QED
    BY <1>1, <1>r, <2>1, <2>2, ClarifySurvives, MarkSurvives, WriteSurvives DEF UserActs
<1>2. CASE Continue
  <2>1. ASSUME NEW c \in Calls, ResumeInspect(c) \/ Refused(c)
        PROVE  rec' = rec
    BY <2>1 DEF ResumeInspect, Refused, OnlyCalls
  <2>2. ASSUME NEW e \in Execs, Respond(e)
        PROVE  rec' = rec
    BY <2>2 DEF Respond, Quiet
  <2>3. QED
    BY <1>2, <1>r, <2>1, <2>2, ClarifySurvives, ResumeSurvives, MarkSurvives, WriteSurvives DEF Continue
<1>3. ASSUME NEW e \in Execs, Step(e)
      PROVE  Survives(rec')
  <2>1. CASE Post(e) \/ PersistTerminal(e)
    BY <1>r, <2>1, ExecSurvives
  <2>2. CASE ~(Post(e) \/ PersistTerminal(e))
    <3>1. rec' = rec
      BY <1>3, <2>2 DEF Step, Start, DeleteThread, EnterGraph, ScreenInput, CheckInfo,
         RetrieveEvidence, RunCheck, Finalize, Timeout, OnExecutionDone, OnlyExec, Quiet
    <3>2. QED
      BY <3>1
  <2>3. QED
    BY <2>1, <2>2
<1>4. CASE UNCHANGED vars
  BY <1>4 DEF vars
<1>5. QED
  BY <1>1, <1>2, <1>3, <1>4 DEF Next

\* Nothing on the record of a task is taken back by a writer that read it earlier: links,
\* confirmations and the counted requests only grow, a cancelled task stays cancelled and
\* a shelved record changes its shelf only (service.py's saves after an await).
THEOREM RecordsAreKept == Spec => RecordIsKept
<1> DEFINE A == rec # None =>
       /\ rec.links \subseteq rec'.links
       /\ rec.usage <= rec'.usage
       /\ Named(rec.confs) \subseteq Named(rec'.confs)
       /\ rec.worked => rec'.worked
       /\ rec.status = "CANCELLED" => rec'.status = "CANCELLED"
       /\ rec.shelf # "active" => rec' = [rec EXCEPT !.shelf = rec'.shelf]
<1>1. TaskInv /\ [Next]_vars => [A]_rec
  BY StepSurvives DEF Survives
<1>2. QED
  BY AlwaysTaskInv, <1>1, PTL DEF Spec, RecordIsKept
=============================================================================
