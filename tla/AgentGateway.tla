---------------------------- MODULE AgentGateway ----------------------------
(***************************************************************************)
(* The agent gateway (internal/agentgateway): a process in front of the    *)
(* agent endpoints that limits the rate of each principal, writes an HMAC  *)
(* chained audit record before it forwards a request and another when the  *)
(* answer is known, and keeps signed counters of a fixed window in a file. *)
(*                                                                         *)
(* A request is a goroutine.  The limiter, the audit log and the metrics   *)
(* have a mutex each, and a request takes them one after another, so each  *)
(* use of one of them is an action.  Writes fail in the ways the code      *)
(* handles: before any byte, inside a record, before its newline, after    *)
(* the bytes (Sync, Chmod).  The process may stop at any time, also inside *)
(* a write, and systemd starts it again (Restart=always).                  *)
(*                                                                         *)
(* Durations, the injection flag and the upstream's metadata are left out: *)
(* they are copied into records and decide nothing.  A record's MAC is its *)
(* identity <<request, kind>>, a checkpoint's MAC its content: HMAC-SHA256 *)
(* is taken to be injective.                                               *)
(***************************************************************************)
EXTENDS Naturals, FiniteSets, Sequences

CONSTANTS
  Requests,     \* protected requests, each sent once
  Principals,   \* callers, told apart by a hash of their credentials
  PrincipalOf,  \* the caller of each request
  OperationOf,  \* and the operation it asks for
  Burst,        \* capacity of a token bucket
  Rate,         \* tokens gained per tick
  GCEvery,      \* ticks between two sweeps of the buckets
  Unseen,       \* ticks after which a sweep drops an idle bucket
  Window,       \* ticks of a metrics window
  MaxTime,      \* bound on the clock
  MaxFaults,    \* bound on failing writes
  MaxStops,     \* bound on stops of the process
  None

ASSUME GatewayAssumption ==
  /\ PrincipalOf \in [Requests -> Principals]
  /\ OperationOf \in [Requests -> {"agent-ask", "submit-check"}]
  /\ Burst \in Nat \ {0} /\ Rate \in Nat \ {0} /\ Window \in Nat \ {0}
  /\ GCEvery \in Nat /\ Unseen \in Nat
  /\ MaxTime \in Nat /\ MaxFaults \in Nat /\ MaxStops \in Nat
  /\ None \notin Requests

VARIABLES
  now,       \* the clock
  req,       \* where each request is: [pc, at, out, sealed]
  buckets,   \* tokenLimiter.buckets
  lastGC,    \* tokenLimiter.lastGC
  log,       \* the audit file: what each write left of its record, in order
  chain,     \* AuditLog in memory: [open, seq, prev, verified], and the number
             \* of records it found when it opened the file, loaded (history)
  met,       \* gatewayMetrics in memory: counters, saved, dirty, verified
  disk,      \* the metrics file: the counters of the last checkpoint
  proc,      \* "up", "down", or "refused": New returned an error
  faults,    \* failing writes so far
  stops      \* stops of the process so far

vars == <<now, req, buckets, lastGC, log, chain, met, disk, proc, faults, stops>>

Operations == {"agent-ask", "submit-check"}
Outcomes == {"success", "failed", "rejected"}
Ends == {"rate_limited", "invalid", "unavailable"} \cup Outcomes
Waiting == {"arrived", "admitted", "preflight", "forwarding", "record", "audit"}
Live(r) == proc = "up" /\ req[r].pc \in Waiting

\* What calculateSLO and the metrics count an end as: a 4xx of the upstream and
\* the gateway's own refusals are "rejected".
OutcomeOf(end) ==
  CASE end \in {"rate_limited", "invalid", "rejected"} -> "rejected"
    [] end = "success" -> "success"
    [] OTHER -> "failed"

-----------------------------------------------------------------------------
(* The audit file *)

\* A record as the file holds it; nl says whether a newline follows it.  Records
\* are on lines of their own when every one but the last is followed by one.
Record(r, kind, seq, prev) ==
  [req |-> r, kind |-> kind, seq |-> seq, prev |-> prev, nl |-> TRUE]
Unended(record) == [record EXCEPT !.nl = FALSE]

\* What a write that stopped inside the JSON of a record leaves.
Fragment == Unended(Record(None, "fragment", 0, None))

Mac(record) == <<record.req, record.kind>>

\* Sequence numbers from 1, each record linked to the one before.
Linked(records) ==
  \A i \in DOMAIN records :
    /\ records[i] # Fragment
    /\ records[i].seq = i
    /\ records[i].prev = IF i = 1 THEN None ELSE Mac(records[i - 1])

Ended(records) == \A i \in DOMAIN records : records[i].nl

\* A line ends at a newline or, for bufio.Scanner and bytes.Split, with the file.
OnLines(records) == \A i \in DOMAIN records : i < Len(records) => records[i].nl

\* verifyExisting: each line is a record, and they are linked.
IsChain(records) == Linked(records) /\ OnLines(records)

LastMac(records) == IF records = <<>> THEN None ELSE Mac(records[Len(records)])

\* Bytes of a record reach the file, opened with O_APPEND: none, a part, most (all
\* but the newline), or all of them.
WriteLine(record, bytes) ==
  log' = CASE bytes = "none" -> log
           [] bytes = "part" -> Append(log, Fragment)
           [] bytes = "most" -> Append(log, Unended(record))
           [] OTHER -> Append(log, record)

\* What a write can come to, and whether it uses up the bound on faults.
Charge(results) ==
  LET failures == Cardinality({i \in DOMAIN results : results[i] # "ok"})
  IN  /\ failures > 0 => faults + failures <= MaxFaults
      /\ faults' = faults + failures

\* Mutant of AppendRecord: a failed write leaves the log verified.
AppendRecordKeepsVerified(r, kind, result) ==
  LET line == Record(r, kind, chain.seq + 1, chain.prev)
  IN  /\ chain.open /\ result \in {"ok", "none", "part", "most", "nosync"}
      /\ Charge(<<result>>)
      /\ WriteLine(line, IF result \in {"ok", "nosync"} THEN "all" ELSE result)
      /\ chain' = IF result = "ok"
                  THEN [chain EXCEPT !.seq = @ + 1, !.prev = Mac(line)] ELSE chain

\* AuditLog.Append.  Only a record that was written and synced advances the
\* sequence; any failure marks the log unverified, and does not stop later
\* appends.
AppendRecord(r, kind, result) ==
  LET line == Record(r, kind, chain.seq + 1, chain.prev)
  IN  IF ~chain.open
      THEN /\ result = "closed"
           /\ chain' = [chain EXCEPT !.verified = FALSE]
           /\ UNCHANGED <<log, faults>>
      ELSE /\ result \in {"ok", "none", "part", "most", "nosync"}
           /\ Charge(<<result>>)
           /\ WriteLine(line, IF result \in {"ok", "nosync"} THEN "all" ELSE result)
           /\ chain' = IF result = "ok"
                       THEN [chain EXCEPT !.seq = @ + 1, !.prev = Mac(line)]
                       ELSE [chain EXCEPT !.verified = FALSE]

\* Recent checks each line of a tail of the file and its link to the line before.
Continuous(records) ==
  /\ OnLines(records)
  /\ \A i \in DOMAIN records :
       /\ records[i] # Fragment
       /\ i > 1 => /\ records[i].seq = records[i - 1].seq + 1
                   /\ records[i].prev = Mac(records[i - 1])

-----------------------------------------------------------------------------
(* The metrics *)

Zero == [o \in Outcomes |-> 0]
Sum(n) == n["success"] + n["failed"] + n["rejected"]
EmptyWindow(t) ==
  [win |-> t, total |-> 0, n |-> Zero, ops |-> [op \in Operations |-> Zero]]

\* decodeAndVerify on the counters: they add up, over outcomes and operations.
Consistent(c) ==
  /\ c.total = Sum(c.n)
  /\ \A o \in Outcomes :
       c.n[o] = c.ops["agent-ask"][o] + c.ops["submit-check"][o]

\* verifyDiskLocked: nothing unsaved, and the file is the checkpoint last saved.
VerifyDisk(m) == ~m.dirty /\ Consistent(disk) /\ disk = m.saved

Expired(m) == now >= m.now.win + Window

\* persistLocked: sign, write beside, rename over, chmod.  A failure before the
\* rename leaves the old file, one after it the new.
PersistResults == {"ok", "unwritten", "nochmod"}
Persist(m, result) ==
  IF result = "ok"
  THEN [m EXCEPT !.saved = m.now, !.dirty = FALSE, !.verified = TRUE]
  ELSE [m EXCEPT !.dirty = TRUE, !.verified = FALSE]
FileAfter(file, m, result) == IF result = "unwritten" THEN file ELSE m.now

\* Mutant of Reset: the new window keeps the old start.
ResetKeepsStart(m) == [m EXCEPT !.now = EmptyWindow(m.now.win)]
Reset(m) == [m EXCEPT !.now = EmptyWindow(now)]

Count(m, op, outcome) ==
  [m EXCEPT !.now.total = @ + 1, !.now.n[outcome] = @ + 1,
            !.now.ops[op][outcome] = @ + 1]

\* gatewayMetrics.record: check the file, rotate an expired window, count, save.
RecordMetrics(op, outcome, rotated, saved) ==
  LET mustRotate == Expired(met)
      fresh == IF mustRotate THEN Persist(Reset(met), rotated) ELSE met
      file  == IF mustRotate THEN FileAfter(disk, Reset(met), rotated) ELSE disk
      next  == Count(fresh, op, outcome)
  IN  IF ~VerifyDisk(met)
      THEN /\ rotated = "ok" /\ saved = "ok"
           /\ met' = [met EXCEPT !.verified = FALSE]
           /\ UNCHANGED <<disk, faults>>
      ELSE /\ mustRotate \/ rotated = "ok"
           /\ rotated = "ok" \/ saved = "ok"
           /\ Charge(<<rotated, saved>>)
           /\ met'  = IF rotated = "ok" THEN Persist(next, saved) ELSE fresh
           /\ disk' = IF rotated = "ok" THEN FileAfter(file, next, saved) ELSE file

-----------------------------------------------------------------------------
(* The limiter *)

NoBucket == [tokens |-> 0, last |-> 0, seen |-> 0, there |-> FALSE]

\* A sweep at time t drops the buckets not seen for longer than Unseen.
Swept(t) ==
  [p \in Principals |->
     IF t >= lastGC + GCEvery /\ t > buckets[p].seen + Unseen
     THEN NoBucket ELSE buckets[p]]

\* The tokens the bucket holds at time t; a stamp older than the last one adds
\* nothing.
TokensAt(b, t) ==
  IF ~b.there THEN Burst
  ELSE IF t <= b.last THEN b.tokens
  ELSE LET gained == b.tokens + Rate * (t - b.last)
       IN  IF gained > Burst THEN Burst ELSE gained

\* tokenLimiter.allow, with the time the request was stamped with on arrival.
Allow(p, t) ==
  LET swept  == Swept(t)
      tokens == TokensAt(swept[p], t)
      left   == IF tokens >= 1 THEN tokens - 1 ELSE tokens
  IN  /\ lastGC' = IF t >= lastGC + GCEvery THEN t ELSE lastGC
      /\ buckets' = [swept EXCEPT ![p] =
                       [tokens |-> left, last |-> t, seen |-> t, there |-> TRUE]]

-----------------------------------------------------------------------------
(* The requests: handleProtectedProxy, step by step *)

Move(r, pc, out) == req' = [req EXCEPT ![r] = [@ EXCEPT !.pc = pc, !.out = out]]

\* A request for a protected path is stamped with the time.
Arrive(r) ==
  /\ proc = "up" /\ chain.open
  /\ req[r].pc = "idle"
  /\ req' = [req EXCEPT ![r] = [@ EXCEPT !.pc = "arrived", !.at = now]]
  /\ UNCHANGED <<now, buckets, lastGC, log, chain, met, disk, proc, faults, stops>>

Limit(r) ==
  /\ Live(r) /\ req[r].pc = "arrived"
  /\ Allow(PrincipalOf[r], req[r].at)
  /\ req' = [req EXCEPT ![r] =
       IF TokensAt(Swept(@.at)[PrincipalOf[r]], @.at) >= 1
       THEN [@ EXCEPT !.pc = "admitted", !.at = 0]
       ELSE [@ EXCEPT !.pc = "record", !.at = 0, !.out = "rate_limited"]]
  /\ UNCHANGED <<now, log, chain, met, disk, proc, faults, stops>>

\* The body is read and, for agent-ask, must hold a question.
ReadBody(r) ==
  /\ Live(r) /\ req[r].pc = "admitted"
  /\ \/ Move(r, "preflight", req[r].out)
     \/ Move(r, "record", "invalid")
  /\ UNCHANGED <<now, buckets, lastGC, log, chain, met, disk, proc, faults, stops>>

\* What may be expected of a record appended now (history): nothing when the log
\* is not verified, and a line of its own when the file ends in a newline.
Seal == IF ~chain.verified THEN "no" ELSE IF Ended(log) THEN "own" ELSE "shared"

\* Mutants of Preflight: forward without a record; try again until it works.
PreflightFailsOpen(r, result) ==
  /\ Live(r) /\ req[r].pc = "preflight"
  /\ AppendRecord(r, "started", result)
  /\ req' = [req EXCEPT ![r].pc = "forwarding", ![r].sealed = Seal]
  /\ UNCHANGED <<now, buckets, lastGC, met, disk, proc, stops>>

PreflightRetries(r, result) ==
  /\ Live(r) /\ req[r].pc = "preflight"
  /\ AppendRecord(r, "started", result)
  /\ IF result = "ok" THEN Move(r, "forwarding", req[r].out) ELSE UNCHANGED req
  /\ UNCHANGED <<now, buckets, lastGC, met, disk, proc, stops>>

\* The started record comes first; without it nothing is forwarded.
Preflight(r, result) ==
  /\ Live(r) /\ req[r].pc = "preflight"
  /\ AppendRecord(r, "started", result)
  /\ req' = [req EXCEPT ![r] = IF result = "ok"
               THEN [@ EXCEPT !.pc = "forwarding", !.sealed = Seal]
               ELSE [@ EXCEPT !.pc = "record", !.out = "unavailable"]]
  /\ UNCHANGED <<now, buckets, lastGC, met, disk, proc, stops>>

\* The upstream answers, or the call fails or times out ("failed", as a 5xx).
Forward(r) ==
  /\ Live(r) /\ req[r].pc = "forwarding"
  /\ \E end \in Outcomes : Move(r, "record", end)
  /\ UNCHANGED <<now, buckets, lastGC, log, chain, met, disk, proc, faults, stops>>

\* An end is counted before it is audited; a failed preflight is only counted.
RecordEnd(r, rotated, saved) ==
  /\ Live(r) /\ req[r].pc = "record"
  /\ RecordMetrics(OperationOf[r], OutcomeOf(req[r].out), rotated, saved)
  /\ Move(r, IF req[r].out = "unavailable" THEN "answered" ELSE "audit", req[r].out)
  /\ UNCHANGED <<now, buckets, lastGC, log, chain, proc, stops>>

\* The completion record; a failure only marks the answer incomplete.
AuditEnd(r, result) ==
  /\ Live(r) /\ req[r].pc = "audit"
  /\ AppendRecord(r, "ended", result)
  /\ Move(r, "answered", req[r].out)
  /\ UNCHANGED <<now, buckets, lastGC, met, disk, proc, stops>>

-----------------------------------------------------------------------------
(* Operators' requests, time, stops and starts *)

\* State and snapshot, as /health/ready, /health/slo, /metrics and the summary
\* call them: check the file and rotate an expired window.
Probe(rotated) ==
  /\ proc = "up"
  /\ IF met.verified /\ VerifyDisk(met) /\ Expired(met)
     THEN /\ Charge(<<rotated>>)
          /\ met'  = Persist(Reset(met), rotated)
          /\ disk' = FileAfter(disk, Reset(met), rotated)
     ELSE /\ rotated = "ok"
          /\ met' = [met EXCEPT !.verified = @ /\ VerifyDisk(met)]
          /\ UNCHANGED <<disk, faults>>
  /\ UNCHANGED <<now, req, buckets, lastGC, log, chain, proc, stops>>

\* AuditLog.Recent from k on, where a line begins (the last 4 MiB).
ReadEvents(k) ==
  /\ proc = "up" /\ k \in DOMAIN log
  /\ k > 1 => log[k - 1].nl
  /\ chain' = [chain EXCEPT !.verified =
                 @ /\ chain.open /\ Continuous(SubSeq(log, k, Len(log)))]
  /\ UNCHANGED <<now, req, buckets, lastGC, log, met, disk, proc, faults, stops>>

Tick ==
  /\ now < MaxTime
  /\ now' = now + 1
  /\ UNCHANGED <<req, buckets, lastGC, log, chain, met, disk, proc, faults, stops>>

\* SIGTERM: requests that outlive the ten seconds of Shutdown find the log
\* closed.  Metrics.Close has nothing to save: dirty counters are unverified.
Close ==
  /\ proc = "up" /\ chain.open
  /\ chain' = [chain EXCEPT !.open = FALSE]
  /\ UNCHANGED <<now, req, buckets, lastGC, log, met, disk, proc, faults, stops>>

Stopped ==
  /\ proc = "up" /\ stops < MaxStops
  /\ proc' = "down" /\ stops' = stops + 1
  /\ req' = [r \in Requests |-> IF req[r].pc \in Waiting
                                THEN [req[r] EXCEPT !.pc = "lost"] ELSE req[r]]
  /\ buckets' = [p \in Principals |-> NoBucket]
  /\ chain' = [open |-> FALSE, seq |-> 0, prev |-> None, verified |-> FALSE, loaded |-> 0]
  /\ met' = [now |-> EmptyWindow(0), saved |-> EmptyWindow(0), dirty |-> FALSE,
             verified |-> FALSE]
  /\ lastGC' = 0
  /\ UNCHANGED now

\* The process ends between two writes, inside an append, or between the rename
\* of a checkpoint and the assignments after it.
Stop == Stopped /\ UNCHANGED <<log, disk, faults>>

StopInAppend(r, bytes) ==
  /\ Stopped /\ chain.open
  /\ req[r].pc \in {"preflight", "audit"}
  /\ WriteLine(Record(r, IF req[r].pc = "audit" THEN "ended" ELSE "started",
                      chain.seq + 1, chain.prev), bytes)
  /\ faults' = faults + IF bytes \in {"part", "most"} THEN 1 ELSE 0
  /\ UNCHANGED disk

StopInPersist(r) ==
  /\ Stopped /\ req[r].pc = "record"
  /\ VerifyDisk(met) /\ ~Expired(met)
  /\ disk' = Count(met, OperationOf[r], OutcomeOf(req[r].out)).now
  /\ UNCHANGED <<log, faults>>

\* OpenAuditLog and openGatewayMetrics: verify both files, load, and rotate an
\* expired window.
Loaded == [now |-> disk, saved |-> disk, dirty |-> FALSE, verified |-> TRUE]

Start(rotated) ==
  /\ proc \in {"down", "refused"}
  /\ LET expired == Expired(Loaded)
         ok == IsChain(log) /\ Consistent(disk) /\ rotated = "ok"
     IN  /\ expired \/ rotated = "ok"
         /\ IF expired /\ IsChain(log) /\ Consistent(disk)
            THEN /\ Charge(<<rotated>>)
                 /\ disk' = FileAfter(disk, Reset(Loaded), rotated)
            ELSE rotated = "ok" /\ UNCHANGED <<disk, faults>>
         /\ proc' = IF ok THEN "up" ELSE "refused"
         /\ IF ok THEN /\ chain' = [open |-> TRUE, seq |-> Len(log),
                                    prev |-> LastMac(log), verified |-> TRUE,
                                    loaded |-> Len(log)]
                       /\ met' = IF expired THEN Persist(Reset(Loaded), "ok") ELSE Loaded
                       /\ lastGC' = now
                  ELSE UNCHANGED <<chain, met, lastGC>>
  /\ UNCHANGED <<now, req, buckets, log, stops>>

-----------------------------------------------------------------------------
Init ==
  /\ now = 0
  /\ req = [r \in Requests |->
              [pc |-> "idle", at |-> 0, out |-> "none", sealed |-> "no"]]
  /\ buckets = [p \in Principals |-> NoBucket]
  /\ lastGC = 0
  /\ log = <<>>
  /\ chain = [open |-> TRUE, seq |-> 0, prev |-> None, verified |-> TRUE, loaded |-> 0]
  /\ disk = EmptyWindow(0)
  /\ met = Loaded
  /\ proc = "up" /\ faults = 0 /\ stops = 0

AppendResults == {"ok", "none", "part", "most", "nosync", "closed"}

\* The steps of a request's goroutine.
Handle(r) ==
  \/ Limit(r) \/ ReadBody(r) \/ Forward(r)
  \/ \E result \in AppendResults : Preflight(r, result) \/ AuditEnd(r, result)
  \/ \E rotated, saved \in PersistResults : RecordEnd(r, rotated, saved)

Next ==
  \/ \E r \in Requests : Arrive(r)
  \/ \E r \in Requests : Handle(r)
  \/ \E rotated \in PersistResults : Probe(rotated)
  \/ \E k \in 1..(2 * Cardinality(Requests)) : ReadEvents(k)
  \/ Tick \/ Close \/ Stop
  \/ \E r \in Requests, bytes \in {"part", "most", "all"} : StopInAppend(r, bytes)
  \/ \E r \in Requests : StopInPersist(r)
  \/ \E rotated \in PersistResults : Start(rotated)

Spec == Init /\ [][Next]_vars /\ \A r \in Requests : WF_vars(Handle(r))

-----------------------------------------------------------------------------
(* Properties *)

Seals == {"no", "shared", "own"}
Macs == Requests \X {"started", "ended"}
Records == [req : Requests, kind : {"started", "ended"}, seq : Nat,
            prev : Macs \cup {None}, nl : BOOLEAN]
Counters == [win : 0..MaxTime, total : Nat, n : [Outcomes -> Nat],
             ops : [Operations -> [Outcomes -> Nat]]]

TypeOK ==
  /\ now \in 0..MaxTime
  /\ req \in [Requests -> [pc : Waiting \cup {"idle", "answered", "lost"},
                           at : 0..MaxTime,
                           out : Ends \cup {"none"}, sealed : Seals]]
  /\ buckets \in [Principals -> [tokens : 0..Burst, last : 0..MaxTime,
                                 seen : 0..MaxTime, there : BOOLEAN]]
  /\ log \in Seq(Records \cup {Fragment})
  /\ proc \in {"up", "down", "refused"}
  /\ chain \in [open : BOOLEAN, seq : Nat, prev : Macs \cup {None}, verified : BOOLEAN,
               loaded : Nat]
  /\ met \in [now : Counters, saved : Counters, dirty : BOOLEAN, verified : BOOLEAN]
  /\ disk \in Counters /\ lastGC \in 0..MaxTime
  /\ stops \in 0..MaxStops /\ faults \in 0..(MaxFaults + stops)

\* The log in memory has never counted more records than the file holds.
CountsItsRecords == chain.loaded <= chain.seq /\ chain.seq <= Len(log)

\* While AuditState says Verified, the records in the file are the chain that the log
\* in memory continues, however many appends failed and wherever the process
\* stopped; and each is on a line of its own, with one exception: the last record
\* of the file as this process opened it may lack its newline, and then the next
\* one joins its line (audit.go Append, State, verifyExisting).
VerifiedIsAChain ==
  proc = "up" /\ chain.verified
    => /\ Linked(log) /\ Len(log) = chain.seq /\ LastMac(log) = chain.prev
       /\ \A i \in DOMAIN log : ~log[i].nl => i = chain.loaded

\* Two records on one line: verifyExisting took a last line without its newline,
\* and Append wrote on.
Joined == chain.loaded \in 1..(Len(log) - 1) /\ ~log[chain.loaded].nl

\* What OPERATIONS.md:44 asks of it: a chain that is taken for verified can be verified
\* again, by the next start and by an auditor.  It does not hold: a last line without
\* its newline is verified, and the next record joins it (README, known divergences).
VerifiedReopens == proc = "up" /\ chain.verified => IsChain(log)

\* As long as no write has failed or was cut short, the file is such a chain and ends
\* in a newline, and the log in memory, while it is open, continues it.
FaultlessIsAChain ==
  faults = 0 => /\ Linked(log) /\ Ended(log)
                /\ proc = "up" /\ chain.open =>
                     Len(log) = chain.seq /\ LastMac(log) = chain.prev

\* A request that was forwarded while the log was verified keeps its started
\* record, with the whole chain before it, for ever, through later failures and
\* restarts; and where a later start or an auditor can read it, if the file ended
\* in a newline when the record was written (gateway.go: Append before forward).
ForwardedIsRecorded ==
  \A r \in Requests : req[r].sealed # "no" =>
    \E i \in DOMAIN log :
      /\ Mac(log[i]) = <<r, "started">>
      /\ Linked(SubSeq(log, 1, i))
      /\ req[r].sealed = "own" => Ended(SubSeq(log, 1, i))

\* An end is never recorded twice, nor before the start of a request that was
\* forwarded, whatever the requests and restarts in between.
RecordsInOrder ==
  \A i, j \in DOMAIN log :
    /\ Mac(log[i]) = Mac(log[j]) /\ log[i] # Fragment => i = j
    /\ log[i].req = log[j].req /\ log[i].kind = "started" /\ log[j].kind = "ended"
         => i < j

\* The records of a request are those of the steps it has taken.
RecordsOfRequests ==
  \A i \in DOMAIN log : log[i] # Fragment =>
    /\ req[log[i].req].pc \notin {"idle", "arrived", "admitted", "preflight"}
    /\ log[i].kind = "ended" => req[log[i].req].pc \in {"answered", "lost"}

\* The counters in the file always add up, and are those in memory unless a save of
\* these failed.
FileIsSaved ==
  /\ Consistent(disk)
  /\ proc = "up" /\ ~met.dirty => met.saved = met.now /\ disk = met.now

\* /health/ready answers ok only if the next start would take the audit file, or the
\* process joined two records on a line, and if the metrics in memory are the ones
\* a restart would load (OPERATIONS.md: "fails closed").
Ready == proc = "up" /\ chain.open /\ chain.verified /\ met.verified /\ ~met.dirty
ReadyIsHonest ==
  Ready => (IsChain(log) \/ Joined) /\ Consistent(disk) /\ disk = met.now

\* The process is refused a start only after a write failed or was cut short;
\* orderly and abrupt stops between writes never make it unstartable.
RefusedForAReason == proc = "refused" => faults > 0

\* The counters in the file stay continuous within a window: no request,
\* restart or failed save takes a counted request back.
CountersContinue ==
  [][disk'.win = disk.win =>
       \A op \in Operations, o \in Outcomes : disk'.ops[op][o] >= disk.ops[op][o]]_vars

\* Every request that arrives is answered, unless the process stops.
RequestsEnd ==
  \A r \in Requests : req[r].pc = "arrived" ~> req[r].pc \in {"answered", "lost"}

\* What the gateway says of itself is so: the verified flag of the log, the answer of
\* /health/ready, the refusal to start.
FlagsAreHonest ==
  /\ TypeOK /\ VerifiedIsAChain /\ ReadyIsHonest /\ RefusedForAReason
  /\ CountsItsRecords /\ FaultlessIsAChain /\ FileIsSaved

\* The log has a record of every forwarded request, and no record twice or out of
\* order.
RecordsAreComplete == ForwardedIsRecorded /\ RecordsInOrder /\ RecordsOfRequests
=============================================================================
