-------------------------- MODULE AgentGatewayProofs --------------------------
(***************************************************************************)
(* Proofs about AgentGateway, for any requests, callers, rates, windows    *)
(* and any number of failing writes and stops, and, in the second half,    *)
(* about AgentRuntime, the component behind it that calls the model, for   *)
(* any analyses, answers, limits and settings.                             *)
(***************************************************************************)
EXTENDS AgentGateway, AgentRuntime, FiniteSetTheorems, SequenceTheorems, TLAPS

-----------------------------------------------------------------------------
(* Records and chains. *)

Lines == Seq(Records \cup {Fragment})

LEMMA FragmentIsNoRecord ==
  /\ \A line \in Records : line # Fragment /\ line.req # None
  /\ Fragment.req = None /\ Fragment.kind = "fragment"
BY GatewayAssumption DEF Fragment, Unended, Record, Records

LEMMA LineShape ==
  ASSUME NEW r \in Requests, NEW kind \in {"started", "ended"}, NEW n \in Nat,
         NEW prev \in Macs \cup {None}
  PROVE  /\ Record(r, kind, n, prev) \in Records /\ Mac(Record(r, kind, n, prev)) = <<r, kind>>
         /\ Record(r, kind, n, prev).seq = n /\ Record(r, kind, n, prev).prev = prev
         /\ Record(r, kind, n, prev).req = r /\ Record(r, kind, n, prev).kind = kind
         /\ Record(r, kind, n, prev).nl
BY DEF Record, Records, Mac

\* A record without its newline is the same record.
LEMMA UnendedShape ==
  ASSUME NEW line \in Records
  PROVE  /\ Unended(line) \in Records /\ Unended(line).req = line.req
         /\ Unended(line).kind = line.kind
BY DEF Unended, Records

\* A record more.
LEMMA Longer ==
  ASSUME NEW s \in Lines, NEW line \in Records \cup {Fragment}
  PROVE  /\ Append(s, line) \in Lines /\ Len(Append(s, line)) = Len(s) + 1
         /\ Len(s) \in Nat /\ DOMAIN s = 1..Len(s) /\ DOMAIN Append(s, line) = 1..(Len(s) + 1)
         /\ \A i \in 1..Len(s) : Append(s, line)[i] = s[i] /\ s[i] \in Records \cup {Fragment}
         /\ Append(s, line)[Len(s) + 1] = line
BY DEF Lines

\* The record that continues a chain.
LEMMA Chained ==
  ASSUME NEW s \in Lines, Linked(s), NEW line \in Records, line.seq = Len(s) + 1,
         line.prev = LastMac(s)
  PROVE  Linked(Append(s, line)) /\ LastMac(Append(s, line)) = Mac(line)
<1>1. PICK t : t = Append(s, line)
  OBVIOUS
<1>2. /\ t \in Lines /\ Len(t) = Len(s) + 1 /\ Len(s) \in Nat /\ DOMAIN s = 1..Len(s)
      /\ DOMAIN t = 1..(Len(s) + 1) /\ t[Len(s) + 1] = line
      /\ \A i \in 1..Len(s) : t[i] = s[i]
  BY <1>1, Longer
<1>3. LastMac(s) = IF Len(s) = 0 THEN None ELSE Mac(s[Len(s)])
  BY <1>2 DEF LastMac, Lines
<1>4. ASSUME NEW i \in 1..Len(s)
      PROVE  t[i] # Fragment /\ t[i].seq = i
             /\ t[i].prev = IF i = 1 THEN None ELSE Mac(t[i - 1])
  <2>1. i \in DOMAIN s /\ t[i] = s[i] /\ (i # 1 => t[i - 1] = s[i - 1])
    BY <1>2, <1>4
  <2>2. QED
    BY <2>1 DEF Linked
<1>5. line # Fragment
  BY FragmentIsNoRecord
<1>6. line.prev = IF Len(s) + 1 = 1 THEN None ELSE Mac(t[Len(s)])
  BY <1>2, <1>3
<1>7. Linked(t)
  BY <1>2, <1>4, <1>5, <1>6 DEF Linked
<1>8. LastMac(t) = Mac(line)
  BY <1>2 DEF LastMac
<1>9. QED
  BY <1>1, <1>7, <1>8

\* A record with its newline leaves those without one where they were.
LEMMA NewlinesStay ==
  ASSUME NEW s \in Lines, NEW line \in Records, line.nl
  PROVE  /\ \A i \in DOMAIN Append(s, line) : ~Append(s, line)[i].nl => i \in DOMAIN s /\ ~s[i].nl
         /\ Ended(s) => Ended(Append(s, line))
<1>1. PICK t : t = Append(s, line)
  OBVIOUS
<1>2. /\ Len(s) \in Nat /\ DOMAIN s = 1..Len(s)
      /\ DOMAIN t = 1..(Len(s) + 1) /\ t[Len(s) + 1] = line
      /\ \A i \in 1..Len(s) : t[i] = s[i]
  BY <1>1, Longer
<1>3. \A i \in DOMAIN t : ~t[i].nl => i \in DOMAIN s /\ ~s[i].nl
  BY <1>2
<1>4. Ended(s) => Ended(t)
  BY <1>2, <1>3 DEF Ended
<1>5. QED
  BY <1>1, <1>3, <1>4

LEMMA LastShape ==
  ASSUME NEW s \in Lines, Linked(s)
  PROVE  LastMac(s) \in Macs \cup {None}
<1>1. CASE s = <<>>
  BY <1>1 DEF LastMac
<1>2. CASE s # <<>>
  <2>1. Len(s) \in DOMAIN s /\ s[Len(s)] \in Records \cup {Fragment}
    BY <1>2 DEF Lines
  <2>2. s[Len(s)] \in Records
    BY <2>1 DEF Linked
  <2>3. QED
    BY <1>2, <2>2 DEF LastMac, Mac, Macs, Records
<1>3. QED
  BY <1>1, <1>2

\* Failing writes are charged.
LEMMA Charged ==
  ASSUME TypeOK, NEW x
  PROVE  Charge(<<x>>) => /\ faults' \in Nat /\ faults' <= MaxFaults + stops
                          /\ faults <= faults' /\ (x # "ok" => faults' = faults + 1)
                          /\ (x = "ok" => faults' = faults)
<1>1. PICK S : S = {i \in DOMAIN <<x>> : <<x>>[i] # "ok"}
  OBVIOUS
<1>2. S = IF x = "ok" THEN {} ELSE {1}
  BY <1>1
<1>3. Cardinality(S) = IF x = "ok" THEN 0 ELSE 1
  BY <1>2, FS_EmptySet, FS_Singleton
<1>4. faults \in Nat /\ stops \in Nat /\ MaxFaults \in Nat
  BY GatewayAssumption DEF TypeOK
<1>5. Charge(<<x>>) => /\ Cardinality(S) > 0 => faults + Cardinality(S) <= MaxFaults
                       /\ faults' = faults + Cardinality(S)
  BY <1>1 DEF Charge
<1>6. faults <= MaxFaults + stops
  BY <1>4 DEF TypeOK
<1>7. QED
  BY <1>3, <1>4, <1>5, <1>6

LEMMA ChargedTwice ==
  ASSUME TypeOK, NEW x, NEW y, Charge(<<x, y>>)
  PROVE  /\ faults' \in Nat /\ faults' <= MaxFaults + stops /\ faults <= faults'
<1>1. PICK S : S = {i \in DOMAIN <<x, y>> : <<x, y>>[i] # "ok"}
  OBVIOUS
<1>2. S \subseteq 1..2
  BY <1>1
<1>3. Cardinality(S) \in Nat
  <2>1. IsFiniteSet(1..2)
    BY ONLY FS_Interval, 1 \in Int, 2 \in Int
  <2>2. IsFiniteSet(S)
    BY <1>2, <2>1, FS_Subset
  <2>3. QED
    BY <2>2, FS_CardinalityType
<1>4. faults \in Nat /\ stops \in Nat /\ MaxFaults \in Nat
  BY GatewayAssumption DEF TypeOK
<1>5. /\ Cardinality(S) > 0 => faults + Cardinality(S) <= MaxFaults
      /\ faults' = faults + Cardinality(S)
  BY <1>1 DEF Charge
<1>6. faults <= MaxFaults + stops
  BY <1>4 DEF TypeOK
<1>7. QED
  BY <1>3, <1>4, <1>5, <1>6

-----------------------------------------------------------------------------
(* The audit log. *)

Chain == [open : BOOLEAN, seq : Nat, prev : Macs \cup {None}, verified : BOOLEAN,
          loaded : Nat]

LogHolds ==
  /\ log \in Lines /\ chain \in Chain
  /\ CountsItsRecords /\ VerifiedIsAChain /\ FaultlessIsAChain

\* The record that the log writes next.
NextRecord(r, kind) == Record(r, kind, chain.seq + 1, chain.prev)

LEMMA NextShape ==
  ASSUME LogHolds, NEW r \in Requests, NEW kind \in {"started", "ended"}
  PROVE  /\ NextRecord(r, kind) \in Records /\ Mac(NextRecord(r, kind)) = <<r, kind>>
         /\ NextRecord(r, kind).seq = chain.seq + 1 /\ NextRecord(r, kind).prev = chain.prev
         /\ NextRecord(r, kind).req = r /\ NextRecord(r, kind).kind = kind
         /\ NextRecord(r, kind).nl
BY LineShape DEF LogHolds, Chain, NextRecord

\* The file is left alone, or has one record more, whole or not.
LineMore(r, kind) ==
  \/ log' = log
  \/ log' = Append(log, Fragment)
  \/ log' = Append(log, Unended(NextRecord(r, kind)))
  \/ log' = Append(log, NextRecord(r, kind))

\* What a write does to the file.
LEMMA Written ==
  ASSUME LogHolds, NEW r \in Requests, NEW kind \in {"started", "ended"},
         NEW bytes \in {"none", "part", "most", "all"},
         WriteLine(NextRecord(r, kind), bytes)
  PROVE  /\ log' \in Lines /\ LineMore(r, kind) /\ chain.seq <= Len(log')
         /\ bytes = "all" => /\ log' = Append(log, NextRecord(r, kind))
                             /\ chain.seq + 1 <= Len(log')
<1>1. log \in Lines /\ chain.seq \in Nat /\ chain.seq <= Len(log)
  BY DEF LogHolds, CountsItsRecords, Chain
<1>2. PICK line \in Records : line = NextRecord(r, kind)
  BY NextShape
<1>3. Unended(line) \in Records
  BY UnendedShape
<1>4. CASE bytes = "none"
  <2>1. log' = log
    BY <1>4 DEF WriteLine
  <2>2. QED
    BY <1>1, <1>4, <2>1 DEF LineMore
<1>5. ASSUME NEW x \in Records \cup {Fragment}, log' = Append(log, x)
      PROVE  log' \in Lines /\ chain.seq + 1 <= Len(log') /\ chain.seq <= Len(log')
  <2>1. Append(log, x) \in Lines /\ Len(Append(log, x)) = Len(log) + 1 /\ Len(log) \in Nat
    BY <1>1, Longer
  <2>2. QED
    BY <1>1, <1>5, <2>1
<1>6. CASE bytes = "part"
  <2>1. log' = Append(log, Fragment)
    BY <1>6 DEF WriteLine
  <2>2. QED
    BY <1>5, <1>6, <2>1 DEF LineMore
<1>7. CASE bytes = "most"
  <2>1. log' = Append(log, Unended(line))
    BY <1>2, <1>7 DEF WriteLine
  <2>2. QED
    BY <1>2, <1>3, <1>5, <1>7, <2>1 DEF LineMore
<1>8. CASE bytes = "all"
  <2>1. log' = Append(log, line)
    BY <1>2, <1>8 DEF WriteLine
  <2>2. QED
    BY <1>2, <1>5, <1>8, <2>1 DEF LineMore
<1>9. QED
  BY <1>4, <1>6, <1>7, <1>8

\* A whole record written to a chain that the log in memory continues.
LEMMA ChainGrows ==
  ASSUME LogHolds, NEW r \in Requests, NEW kind \in {"started", "ended"},
         Linked(log), Len(log) = chain.seq, LastMac(log) = chain.prev,
         WriteLine(NextRecord(r, kind), "all")
  PROVE  /\ log' = Append(log, NextRecord(r, kind)) /\ Linked(log')
         /\ Len(log') = chain.seq + 1 /\ LastMac(log') = <<r, kind>>
         /\ Ended(log) => Ended(log')
         /\ \A i \in DOMAIN log' : ~log'[i].nl => i \in DOMAIN log /\ ~log[i].nl
<1>1. PICK line : line = NextRecord(r, kind)
  OBVIOUS
<1>2. /\ line \in Records /\ Mac(line) = <<r, kind>> /\ line.seq = Len(log) + 1
      /\ line.prev = LastMac(log) /\ line.nl
  BY <1>1, NextShape
<1>3. log' = Append(log, line)
  BY <1>1, Written
<1>4. log \in Lines
  BY DEF LogHolds
<1>5. Linked(Append(log, line)) /\ LastMac(Append(log, line)) = Mac(line)
  BY <1>2, <1>4, Chained
<1>6. Len(Append(log, line)) = chain.seq + 1
  BY <1>2, <1>4, Longer
<1>7. /\ Ended(log) => Ended(Append(log, line))
      /\ \A i \in DOMAIN Append(log, line) :
           ~Append(log, line)[i].nl => i \in DOMAIN log /\ ~log[i].nl
  BY <1>2, <1>4, NewlinesStay
<1>8. QED
  BY <1>1, <1>2, <1>3, <1>5, <1>6, <1>7

LEMMA AppendKeeps ==
  ASSUME TypeOK, LogHolds, NEW r \in Requests, NEW kind \in {"started", "ended"},
         NEW result \in AppendResults, AppendRecord(r, kind, result), proc = "up",
         UNCHANGED <<proc, stops>>
  PROVE  /\ LogHolds' /\ LineMore(r, kind)
         /\ faults' \in Nat /\ faults' <= MaxFaults + stops /\ faults <= faults'
         /\ result = "ok" /\ chain.verified =>
              /\ log' = Append(log, NextRecord(r, kind)) /\ Linked(log')
              /\ Ended(log) => Ended(log')
<1>1. PICK line : line = NextRecord(r, kind)
  OBVIOUS
<1>2. line \in Records /\ Mac(line) = <<r, kind>>
  BY <1>1, NextShape
<1>3. faults \in Nat /\ faults <= MaxFaults + stops /\ chain \in Chain
  BY GatewayAssumption DEF TypeOK, LogHolds
<1>4. CASE ~chain.open
  <2>1. /\ chain' = [chain EXCEPT !.verified = FALSE] /\ UNCHANGED <<log, faults>>
        /\ result = "closed"
    BY <1>4 DEF AppendRecord
  <2>2. /\ chain' \in Chain /\ chain'.verified = FALSE /\ chain'.open = chain.open
        /\ chain'.seq = chain.seq /\ chain'.prev = chain.prev
        /\ chain'.loaded = chain.loaded
    BY <1>3, <2>1 DEF Chain
  <2>3. LogHolds'
    BY <2>1, <2>2 DEF LogHolds, CountsItsRecords, VerifiedIsAChain, FaultlessIsAChain
  <2>4. QED
    BY <1>3, <2>1, <2>3 DEF LineMore
<1>5. ASSUME chain.open, result \in {"none", "part", "most", "nosync"}
      PROVE  LogHolds' /\ LineMore(r, kind)
             /\ faults' \in Nat /\ faults' <= MaxFaults + stops /\ faults <= faults'
  <2>1. PICK bytes \in {"none", "part", "most", "all"} :
          WriteLine(NextRecord(r, kind), bytes)
    BY <1>5 DEF AppendRecord, NextRecord
  <2>2. chain' = [chain EXCEPT !.verified = FALSE] /\ Charge(<<result>>)
    BY <1>5 DEF AppendRecord
  <2>3. /\ faults' \in Nat /\ faults' <= MaxFaults + stops /\ faults' = faults + 1
    BY <1>5, <2>2, Charged
  <2>4. /\ chain' \in Chain /\ chain'.verified = FALSE /\ chain'.seq = chain.seq
        /\ chain'.loaded = chain.loaded
    BY <1>3, <2>2 DEF Chain
  <2>5. log' \in Lines /\ LineMore(r, kind) /\ chain.seq <= Len(log')
    BY <2>1, Written
  <2>6. LogHolds'
    <3>1. faults' # 0
      BY <1>3, <2>3
    <3>2. CountsItsRecords'
      BY <2>4, <2>5 DEF LogHolds, CountsItsRecords
    <3>3. VerifiedIsAChain' /\ FaultlessIsAChain'
      BY <2>4, <3>1 DEF VerifiedIsAChain, FaultlessIsAChain
    <3>4. QED
      BY <2>4, <2>5, <3>2, <3>3 DEF LogHolds
  <2>7. QED
    BY <1>3, <2>3, <2>5, <2>6
<1>6. ASSUME chain.open, result = "ok"
      PROVE  /\ LogHolds' /\ LineMore(r, kind)
             /\ faults' = faults
             /\ chain.verified => /\ log' = Append(log, line) /\ Linked(log')
                                  /\ Ended(log) => Ended(log')
  <2>1. /\ WriteLine(NextRecord(r, kind), "all") /\ Charge(<<result>>)
        /\ chain' = [chain EXCEPT !.seq = @ + 1, !.prev = Mac(line)]
    BY <1>1, <1>6 DEF AppendRecord, NextRecord
  <2>2. faults' = faults
    BY <1>6, <2>1, Charged
  <2>3. /\ chain' \in Chain /\ chain'.seq = chain.seq + 1 /\ chain'.prev = <<r, kind>>
        /\ chain'.verified = chain.verified /\ chain'.open = chain.open
        /\ chain'.loaded = chain.loaded
    <3>1. PICK m : m = <<r, kind>>
      OBVIOUS
    <3>2. m \in Macs
      BY <3>1 DEF Macs
    <3>3. PICK n : n = chain.seq + 1
      OBVIOUS
    <3>4. n \in Nat
      BY <1>3, <3>3 DEF Chain
    <3>5. chain' = [chain EXCEPT !.seq = n, !.prev = m]
      BY <1>2, <2>1, <3>1, <3>3
    <3>6. /\ chain' \in Chain /\ chain'.seq = n /\ chain'.prev = m
          /\ chain'.verified = chain.verified /\ chain'.open = chain.open
          /\ chain'.loaded = chain.loaded
      BY <1>3, <3>2, <3>4, <3>5 DEF Chain
    <3>7. QED
      BY <3>1, <3>3, <3>6
  <2>4. log' \in Lines /\ chain.seq + 1 <= Len(log') /\ LineMore(r, kind)
    BY <2>1, Written
  <2>5. ASSUME Linked(log), Len(log) = chain.seq, LastMac(log) = chain.prev
        PROVE  /\ log' = Append(log, line) /\ Linked(log') /\ (Ended(log) => Ended(log'))
               /\ Len(log') = chain'.seq /\ LastMac(log') = chain'.prev
               /\ \A i \in DOMAIN log' : ~log'[i].nl => i \in DOMAIN log /\ ~log[i].nl
    BY <1>1, <2>1, <2>3, <2>5, ChainGrows
  <2>6. CountsItsRecords'
    <3>1. chain.loaded <= chain.seq /\ chain.loaded \in Nat /\ chain.seq \in Nat
      BY <1>3 DEF LogHolds, CountsItsRecords, Chain
    <3>2. QED
      BY <2>3, <2>4, <3>1 DEF CountsItsRecords
  <2>7. chain.verified => Linked(log) /\ Len(log) = chain.seq /\ LastMac(log) = chain.prev
    BY DEF LogHolds, VerifiedIsAChain
  <2>8. VerifiedIsAChain'
    <3>1. ASSUME chain'.verified
          PROVE  /\ Linked(log') /\ Len(log') = chain'.seq /\ LastMac(log') = chain'.prev
                 /\ \A i \in DOMAIN log' : ~log'[i].nl => i = chain'.loaded
      <4>1. \A i \in DOMAIN log : ~log[i].nl => i = chain.loaded
        BY <2>3, <3>1 DEF LogHolds, VerifiedIsAChain
      <4>2. QED
        BY <2>3, <2>5, <2>7, <3>1, <4>1
    <3>2. QED
      BY <3>1 DEF VerifiedIsAChain
  <2>9. FaultlessIsAChain'
    <3>1. ASSUME faults' = 0
          PROVE  Linked(log') /\ Ended(log') /\ (proc' = "up" /\ chain'.open =>
                   Len(log') = chain'.seq /\ LastMac(log') = chain'.prev)
      <4>1. Linked(log) /\ Ended(log) /\ Len(log) = chain.seq /\ LastMac(log) = chain.prev
        BY <1>6, <2>2, <3>1 DEF LogHolds, FaultlessIsAChain
      <4>2. QED
        BY <2>5, <4>1
    <3>2. QED
      BY <3>1 DEF FaultlessIsAChain
  <2>10. QED
    BY <2>2, <2>3, <2>4, <2>5, <2>6, <2>7, <2>8, <2>9 DEF LogHolds
<1>7. chain.open => result \in {"ok", "none", "part", "most", "nosync"}
  BY DEF AppendRecord
<1>8. QED
  BY <1>1, <1>3, <1>4, <1>5, <1>6, <1>7

\* The end of the process.
LEMMA StoppedKeeps ==
  ASSUME TypeOK, LogHolds, Stopped, UNCHANGED <<log, faults>>
  PROVE  LogHolds'
<1>1. /\ chain' \in Chain /\ chain'.open = FALSE /\ chain'.seq = 0 /\ chain'.verified = FALSE
      /\ chain'.loaded = 0 /\ proc' = "down"
  BY DEF Stopped, Chain
<1>2. Len(log) \in Nat
  BY DEF LogHolds, Lines
<1>3. CountsItsRecords'
  BY <1>1, <1>2 DEF LogHolds, CountsItsRecords
<1>4. QED
  BY <1>1, <1>3 DEF LogHolds, VerifiedIsAChain, FaultlessIsAChain

LEMMA StopInAppendKeeps ==
  ASSUME TypeOK, LogHolds, NEW r \in Requests, NEW bytes \in {"part", "most", "all"},
         StopInAppend(r, bytes)
  PROVE  /\ LogHolds' /\ faults' \in Nat /\ faults' <= faults + 1 /\ faults <= faults'
         /\ \E kind \in {"started", "ended"} :
              /\ kind = IF req[r].pc = "audit" THEN "ended" ELSE "started"
              /\ LineMore(r, kind)
<1>1. PICK kind \in {"started", "ended"} :
        kind = IF req[r].pc = "audit" THEN "ended" ELSE "started"
  OBVIOUS
<1>2. WriteLine(NextRecord(r, kind), bytes)
  BY <1>1 DEF StopInAppend, NextRecord
<1>3. /\ chain' \in Chain /\ chain'.open = FALSE /\ chain'.seq = 0 /\ chain'.verified = FALSE
      /\ chain'.loaded = 0 /\ proc = "up" /\ proc' = "down" /\ chain.open
  BY DEF StopInAppend, Stopped, Chain
<1>4. log' \in Lines /\ LineMore(r, kind)
  BY <1>2, Written
<1>5. Len(log') \in Nat /\ faults \in Nat
  BY <1>4, GatewayAssumption DEF LogHolds, Lines, TypeOK
<1>6. CountsItsRecords'
  BY <1>3, <1>5 DEF CountsItsRecords
<1>7. faults' = faults + IF bytes \in {"part", "most"} THEN 1 ELSE 0
  BY DEF StopInAppend
<1>8. ASSUME faults' = 0
      PROVE  Linked(log') /\ Ended(log')
  <2>1. bytes = "all" /\ faults = 0
    BY <1>5, <1>7, <1>8
  <2>2. Linked(log) /\ Ended(log) /\ Len(log) = chain.seq /\ LastMac(log) = chain.prev
    BY <1>3, <2>1 DEF LogHolds, FaultlessIsAChain
  <2>3. QED
    BY <1>2, <2>1, <2>2, ChainGrows
<1>9. VerifiedIsAChain' /\ FaultlessIsAChain'
  BY <1>3, <1>8 DEF VerifiedIsAChain, FaultlessIsAChain
<1>10. QED
  BY <1>1, <1>3, <1>4, <1>5, <1>6, <1>7, <1>9 DEF LogHolds

LEMMA StartKeeps ==
  ASSUME TypeOK, LogHolds, NEW rotated \in PersistResults, Start(rotated)
  PROVE  LogHolds' /\ faults' \in Nat /\ faults' <= MaxFaults + stops /\ faults <= faults'
<1>1. faults' \in Nat /\ faults' <= MaxFaults + stops /\ faults <= faults'
  <2>1. Charge(<<rotated>>) \/ UNCHANGED faults
    BY DEF Start
  <2>2. faults \in Nat /\ faults <= MaxFaults + stops
    BY GatewayAssumption DEF TypeOK
  <2>3. Charge(<<rotated>>) => /\ faults' \in Nat /\ faults' <= MaxFaults + stops
                               /\ faults <= faults'
    BY Charged
  <2>4. QED
    BY <2>1, <2>2, <2>3
<1>2. UNCHANGED <<log>> /\ proc # "up"
  BY DEF Start
<1>3. \/ proc' = "refused" /\ UNCHANGED chain
      \/ /\ proc' = "up" /\ IsChain(log)
         /\ chain' = [open |-> TRUE, seq |-> Len(log), prev |-> LastMac(log),
                      verified |-> TRUE, loaded |-> Len(log)]
  BY DEF Start
<1>4. faults' = 0 => faults = 0
  BY <1>1, GatewayAssumption DEF TypeOK
<1>5. CASE proc' = "refused" /\ UNCHANGED chain
  BY <1>1, <1>2, <1>4, <1>5 DEF LogHolds, CountsItsRecords, VerifiedIsAChain, FaultlessIsAChain
<1>6. CASE /\ proc' = "up" /\ IsChain(log)
           /\ chain' = [open |-> TRUE, seq |-> Len(log), prev |-> LastMac(log),
                        verified |-> TRUE, loaded |-> Len(log)]
  <2>1. /\ log \in Lines /\ LastMac(log) \in Macs \cup {None} /\ Len(log) \in Nat
        /\ Linked(log) /\ DOMAIN log = 1..Len(log)
    BY <1>6, LastShape DEF LogHolds, Lines, IsChain
  <2>2. /\ chain' \in Chain /\ chain'.seq = Len(log) /\ chain'.prev = LastMac(log)
        /\ chain'.loaded = Len(log)
    BY <1>6, <2>1 DEF Chain
  <2>3. \A i \in DOMAIN log : ~log[i].nl => i = Len(log)
    BY <1>6, <2>1 DEF IsChain, OnLines
  <2>4. CountsItsRecords' /\ VerifiedIsAChain'
    BY <1>2, <1>6, <2>1, <2>2, <2>3 DEF CountsItsRecords, VerifiedIsAChain
  <2>5. FaultlessIsAChain'
    BY <1>2, <1>4, <1>6, <2>1, <2>2 DEF LogHolds, FaultlessIsAChain
  <2>6. QED
    BY <1>1, <1>2, <2>1, <2>2, <2>4, <2>5 DEF LogHolds
<1>7. QED
  BY <1>3, <1>5, <1>6

\* The verified flag cleared, or the log closed.
LEMMA FlagKeeps ==
  ASSUME LogHolds, UNCHANGED <<log, proc, faults>>,
         \/ \E v \in BOOLEAN : chain' = [chain EXCEPT !.verified = @ /\ v]
         \/ chain' = [chain EXCEPT !.open = FALSE]
         \/ UNCHANGED chain
  PROVE  LogHolds'
<1>1. /\ chain' \in Chain /\ chain'.seq = chain.seq /\ chain'.prev = chain.prev
      /\ chain'.loaded = chain.loaded
      /\ chain'.verified => chain.verified
      /\ chain'.open => chain.open
  BY DEF LogHolds, Chain
<1>2. QED
  BY <1>1 DEF LogHolds, CountsItsRecords, VerifiedIsAChain, FaultlessIsAChain

-----------------------------------------------------------------------------
(* The counters. *)

Metrics == [now : Counters, saved : Counters, dirty : BOOLEAN, verified : BOOLEAN]

\* d is a later state of the counters c, or starts another window.
Continued(c, d) ==
  d.win = c.win => \A op \in Operations, o \in Outcomes : d.ops[op][o] >= c.ops[op][o]

LEMMA WindowEmpty ==
  ASSUME NEW t \in 0..MaxTime
  PROVE  EmptyWindow(t) \in Counters /\ Consistent(EmptyWindow(t)) /\ EmptyWindow(t).win = t
<1>1. Zero \in [Outcomes -> Nat] /\ \A o \in Outcomes : Zero[o] = 0
  BY DEF Zero
<1>2. PICK ops : ops = [op \in Operations |-> Zero]
  OBVIOUS
<1>3. ops \in [Operations -> [Outcomes -> Nat]] /\ \A op \in Operations : ops[op] = Zero
  BY <1>1, <1>2
<1>4. EmptyWindow(t) = [win |-> t, total |-> 0, n |-> Zero, ops |-> ops]
  BY <1>2 DEF EmptyWindow
<1>5. EmptyWindow(t) \in Counters
  BY <1>1, <1>3, <1>4 DEF Counters
<1>6. Sum(Zero) = 0
  BY <1>1 DEF Sum, Outcomes
<1>7. \A o \in Outcomes : Zero[o] = ops["agent-ask"][o] + ops["submit-check"][o]
  BY <1>1, <1>3 DEF Operations
<1>8. QED
  BY <1>4, <1>5, <1>6, <1>7 DEF Consistent

\* One request more in consistent counters.
LEMMA OneMore ==
  ASSUME NEW c \in Counters, Consistent(c), NEW op \in Operations, NEW o \in Outcomes,
         NEW n, n = [c.n EXCEPT ![o] = c.n[o] + 1],
         NEW ops, ops = [c.ops EXCEPT ![op][o] = c.ops[op][o] + 1],
         NEW d, d = [win |-> c.win, total |-> c.total + 1, n |-> n, ops |-> ops]
  PROVE  d \in Counters /\ Consistent(d) /\ d.win = c.win /\ Continued(c, d)
<1>1. /\ c.win \in 0..MaxTime /\ c.total \in Nat /\ c.n \in [Outcomes -> Nat]
      /\ c.ops \in [Operations -> [Outcomes -> Nat]]
  BY DEF Counters
<1>2. n \in [Outcomes -> Nat] /\ \A q \in Outcomes : n[q] = c.n[q] + IF q = o THEN 1 ELSE 0
  BY <1>1
<1>3. /\ ops \in [Operations -> [Outcomes -> Nat]]
      /\ \A p \in Operations, q \in Outcomes :
           ops[p][q] = c.ops[p][q] + IF p = op /\ q = o THEN 1 ELSE 0
  <2>1. \A p \in Operations : c.ops[p] \in [Outcomes -> Nat]
    BY <1>1
  <2>2. \A p \in Operations, q \in Outcomes : c.ops[p][q] \in Nat
    BY <2>1
  <2>3. PICK f : f = [c.ops[op] EXCEPT ![o] = c.ops[op][o] + 1]
    OBVIOUS
  <2>4. /\ f \in [Outcomes -> Nat]
        /\ \A q \in Outcomes : f[q] = c.ops[op][q] + IF q = o THEN 1 ELSE 0
    BY <2>1, <2>2, <2>3
  <2>5. ops = [c.ops EXCEPT ![op] = f]
    BY <2>3
  <2>6. ops \in [Operations -> [Outcomes -> Nat]]
    BY <1>1, <2>4, <2>5
  <2>7. \A p \in Operations : ops[p] = IF p = op THEN f ELSE c.ops[p]
    BY <1>1, <2>5
  <2>8. QED
    BY <2>2, <2>4, <2>6, <2>7
<1>4. d \in Counters
  BY <1>1, <1>2, <1>3 DEF Counters
<1>5. Sum(n) = Sum(c.n) + 1
  <2>1. /\ c.n["success"] \in Nat /\ c.n["failed"] \in Nat /\ c.n["rejected"] \in Nat
    BY <1>1 DEF Outcomes
  <2>2. QED
    BY <1>2, <2>1 DEF Sum, Outcomes
<1>6. ASSUME NEW q \in Outcomes
      PROVE  n[q] = ops["agent-ask"][q] + ops["submit-check"][q]
  <2>1. c.n[q] = c.ops["agent-ask"][q] + c.ops["submit-check"][q]
    BY DEF Consistent
  <2>2. c.n[q] \in Nat /\ c.ops["agent-ask"][q] \in Nat /\ c.ops["submit-check"][q] \in Nat
    BY <1>1 DEF Operations
  <2>3. QED
    BY <1>2, <1>3, <2>1, <2>2 DEF Operations
<1>7. Consistent(d)
  BY <1>1, <1>5, <1>6 DEF Consistent
<1>8. Continued(c, d)
  <2>1. \A p \in Operations, q \in Outcomes : c.ops[p][q] \in Nat
    BY <1>1
  <2>2. QED
    BY <1>3, <2>1 DEF Continued
<1>9. QED
  BY <1>4, <1>7, <1>8

LEMMA CountFields ==
  ASSUME NEW m \in Metrics, NEW op \in Operations, NEW o \in Outcomes,
         NEW k, k = Count(m, op, o)
  PROVE  /\ k.now.win = m.now.win /\ k.now.total = m.now.total + 1
         /\ k.now.n = [m.now.n EXCEPT ![o] = m.now.n[o] + 1]
         /\ k.now.ops = [m.now.ops EXCEPT ![op][o] = m.now.ops[op][o] + 1]
         /\ k.now = [win |-> k.now.win, total |-> k.now.total, n |-> k.now.n, ops |-> k.now.ops]
         /\ k.saved = m.saved /\ k.dirty = m.dirty /\ k.verified = m.verified
         /\ k = [m EXCEPT !.now = k.now]
<1>1. k.now.win = m.now.win /\ k.now.total = m.now.total + 1
  BY DEF Count, Metrics, Counters
<1>2. k.now.n = [m.now.n EXCEPT ![o] = m.now.n[o] + 1]
  BY DEF Count, Metrics, Counters
<1>3. k.now.ops = [m.now.ops EXCEPT ![op][o] = m.now.ops[op][o] + 1]
  BY DEF Count, Metrics, Counters
<1>4. k.now = [win |-> k.now.win, total |-> k.now.total, n |-> k.now.n, ops |-> k.now.ops]
  BY DEF Count, Metrics, Counters
<1>5. k.saved = m.saved /\ k.dirty = m.dirty /\ k.verified = m.verified
  BY DEF Count, Metrics, Counters
<1>6. k = [m EXCEPT !.now = k.now]
  BY DEF Count, Metrics, Counters
<1>7. QED
  BY <1>1, <1>2, <1>3, <1>4, <1>5, <1>6

LEMMA CountShape ==
  ASSUME NEW m \in Metrics, Consistent(m.now), NEW op \in Operations, NEW o \in Outcomes,
         NEW k, k = Count(m, op, o)
  PROVE  /\ k \in Metrics /\ Consistent(k.now) /\ k.now.win = m.now.win
         /\ Continued(m.now, k.now)
         /\ k.saved = m.saved /\ k.dirty = m.dirty /\ k.verified = m.verified
<1>1. PICK c : c = m.now
  OBVIOUS
<1>2. c \in Counters /\ Consistent(c)
  BY <1>1 DEF Metrics
<1>3. PICK n : n = [c.n EXCEPT ![o] = c.n[o] + 1]
  OBVIOUS
<1>4. PICK ops : ops = [c.ops EXCEPT ![op][o] = c.ops[op][o] + 1]
  OBVIOUS
<1>5. PICK d : d = [win |-> c.win, total |-> c.total + 1, n |-> n, ops |-> ops]
  OBVIOUS
<1>6. d \in Counters /\ Consistent(d) /\ d.win = c.win /\ Continued(c, d)
  BY <1>2, <1>3, <1>4, <1>5, OneMore
<1>7. /\ k.now.win = m.now.win /\ k.now.total = m.now.total + 1
      /\ k.now.n = [m.now.n EXCEPT ![o] = m.now.n[o] + 1]
      /\ k.now.ops = [m.now.ops EXCEPT ![op][o] = m.now.ops[op][o] + 1]
      /\ k.now = [win |-> k.now.win, total |-> k.now.total, n |-> k.now.n, ops |-> k.now.ops]
      /\ k.saved = m.saved /\ k.dirty = m.dirty /\ k.verified = m.verified
      /\ k = [m EXCEPT !.now = k.now]
  BY CountFields
<1>8. k.now.win = c.win /\ k.now.total = c.total + 1 /\ k.now.n = n /\ k.now.ops = ops
  BY <1>1, <1>3, <1>4, <1>7
<1>9. k.now = d
  BY <1>5, <1>7, <1>8
<1>10. k.saved = m.saved /\ k.dirty = m.dirty /\ k.verified = m.verified
  BY <1>7
<1>11. k = [m EXCEPT !.now = k.now]
  BY <1>7
<1>12. k \in Metrics
  BY <1>6, <1>9, <1>11 DEF Metrics
<1>13. QED
  BY <1>1, <1>6, <1>9, <1>10, <1>12

LEMMA ResetShape ==
  ASSUME NEW m \in Metrics, now \in 0..MaxTime, NEW k, k = Reset(m)
  PROVE  /\ k \in Metrics /\ Consistent(k.now) /\ k.now.win = now
         /\ k.saved = m.saved /\ k.dirty = m.dirty /\ k.verified = m.verified
<1>1. PICK e : e = EmptyWindow(now)
  OBVIOUS
<1>2. e \in Counters /\ Consistent(e) /\ e.win = now
  BY <1>1, WindowEmpty
<1>3. k = [m EXCEPT !.now = e]
  BY <1>1 DEF Reset
<1>4. QED
  BY <1>2, <1>3 DEF Metrics

LEMMA PersistShape ==
  ASSUME NEW m \in Metrics, NEW result \in PersistResults, NEW k, k = Persist(m, result)
  PROVE  /\ k \in Metrics /\ k.now = m.now
         /\ result = "ok" => k.saved = m.now /\ ~k.dirty
         /\ result # "ok" => k.dirty
<1>1. CASE result = "ok"
  <2>1. k = [m EXCEPT !.saved = m.now, !.dirty = FALSE, !.verified = TRUE]
    BY <1>1 DEF Persist
  <2>2. m.now \in Counters
    BY DEF Metrics
  <2>3. QED
    BY <1>1, <2>1, <2>2 DEF Metrics
<1>2. CASE result # "ok"
  <2>1. k = [m EXCEPT !.dirty = TRUE, !.verified = FALSE]
    BY <1>2 DEF Persist
  <2>2. QED
    BY <1>2, <2>1 DEF Metrics
<1>3. QED
  BY <1>1, <1>2

\* What is in memory and in the file.
MetricsHold == met \in Metrics /\ disk \in Counters /\ FileIsSaved

\* What FileIsSaved says of one state of them.
Saved(m, file) == /\ m \in Metrics /\ file \in Counters /\ Consistent(file)
                  /\ ~m.dirty => m.saved = m.now /\ file = m.now

LEMMA SaveKeeps ==
  ASSUME NEW m \in Metrics, Consistent(m.now), NEW result \in PersistResults,
         NEW file \in Counters, Consistent(file)
  PROVE  /\ Saved(Persist(m, result), FileAfter(file, m, result))
         /\ FileAfter(file, m, result) \in {file, m.now}
<1>1. PICK k : k = Persist(m, result)
  OBVIOUS
<1>2. /\ k \in Metrics /\ k.now = m.now
      /\ result = "ok" => k.saved = m.now /\ ~k.dirty
      /\ result # "ok" => k.dirty
  BY <1>1, PersistShape
<1>3. m.now \in Counters
  BY DEF Metrics
<1>4. PICK g : g = FileAfter(file, m, result)
  OBVIOUS
<1>5. g = IF result = "unwritten" THEN file ELSE m.now
  BY <1>4 DEF FileAfter
<1>6. Saved(k, g)
  BY <1>2, <1>3, <1>5 DEF Saved
<1>7. QED
  BY <1>1, <1>4, <1>5, <1>6

LEMMA CountersAreKept ==
  ASSUME NEW c \in Counters
  PROVE  Continued(c, c)
<1>1. \A p \in Operations, q \in Outcomes : c.ops[p][q] \in Nat
  BY DEF Counters
<1>2. QED
  BY <1>1 DEF Continued

\* A window that has passed is another window.
LEMMA PassedIsAnother ==
  ASSUME NEW m \in Metrics, now \in 0..MaxTime, Expired(m)
  PROVE  m.now.win # now
<1>1. m.now.win \in Nat /\ Window \in Nat \ {0} /\ now \in Nat
  BY GatewayAssumption DEF Metrics, Counters
<1>2. QED
  BY <1>1 DEF Expired

LEMMA VerifiedIsSaved ==
  ASSUME MetricsHold, proc = "up", VerifyDisk(met)
  PROVE  /\ met \in Metrics /\ disk \in Counters /\ Consistent(disk) /\ disk = met.now
         /\ Consistent(met.now)
BY DEF MetricsHold, FileIsSaved, VerifyDisk

\* An expired window makes room for an empty one.
LEMMA Rotated ==
  ASSUME NEW m \in Metrics, now \in 0..MaxTime, Expired(m), disk \in Counters,
         disk = m.now, Consistent(disk), NEW result \in PersistResults
  PROVE  /\ Saved(Persist(Reset(m), result), FileAfter(disk, Reset(m), result))
         /\ Continued(disk, FileAfter(disk, Reset(m), result))
         /\ Persist(Reset(m), result).now = EmptyWindow(now)
         /\ result = "ok" => FileAfter(disk, Reset(m), result) = EmptyWindow(now)
<1>1. PICK k : k = Reset(m)
  OBVIOUS
<1>2. /\ k \in Metrics /\ Consistent(k.now) /\ k.now.win = now
  BY <1>1, ResetShape
<1>3. /\ Saved(Persist(k, result), FileAfter(disk, k, result))
      /\ FileAfter(disk, k, result) \in {disk, k.now}
  BY <1>2, SaveKeeps
<1>4. k.now.win # disk.win
  BY <1>2, PassedIsAnother
<1>5. Continued(disk, FileAfter(disk, k, result))
  <2>1. Continued(disk, disk)
    BY CountersAreKept
  <2>2. Continued(disk, k.now)
    BY <1>4 DEF Continued
  <2>3. QED
    BY <1>3, <2>1, <2>2
<1>6. k.now = EmptyWindow(now)
  BY <1>1 DEF Reset, Metrics
<1>7. Persist(k, result).now = EmptyWindow(now)
  BY <1>2, <1>6, PersistShape
<1>8. result = "ok" => FileAfter(disk, k, result) = EmptyWindow(now)
  BY <1>6 DEF FileAfter
<1>9. QED
  BY <1>1, <1>3, <1>5, <1>7, <1>8

\* A request counted.
LEMMA Counts ==
  ASSUME NEW m \in Metrics, Consistent(m.now), NEW op \in Operations, NEW o \in Outcomes,
         NEW result \in PersistResults, NEW file \in Counters, file = m.now
  PROVE  LET next == Count(m, op, o)
         IN  /\ Saved(Persist(next, result), FileAfter(file, next, result))
             /\ Continued(file, FileAfter(file, next, result))
             /\ FileAfter(file, next, result).win = file.win
<1>1. PICK k : k = Count(m, op, o)
  OBVIOUS
<1>2. /\ k \in Metrics /\ Consistent(k.now) /\ k.now.win = file.win /\ Continued(file, k.now)
  BY <1>1, CountShape
<1>3. /\ Saved(Persist(k, result), FileAfter(file, k, result))
      /\ FileAfter(file, k, result) \in {file, k.now}
  BY <1>2, SaveKeeps
<1>4. Continued(file, file)
  BY CountersAreKept
<1>5. QED
  BY <1>1, <1>2, <1>3, <1>4

LEMMA RecordMetricsKeeps ==
  ASSUME TypeOK, MetricsHold, proc = "up", NEW op \in Operations, NEW o \in Outcomes,
         NEW rotated \in PersistResults, NEW saved \in PersistResults,
         RecordMetrics(op, o, rotated, saved), UNCHANGED <<proc, stops>>
  PROVE  /\ MetricsHold' /\ Continued(disk, disk')
         /\ faults' \in Nat /\ faults' <= MaxFaults + stops /\ faults <= faults'
<1>1. faults \in Nat /\ faults <= MaxFaults + stops /\ now \in 0..MaxTime
  BY GatewayAssumption DEF TypeOK
<1>2. CASE ~VerifyDisk(met)
  <2>1. met' = [met EXCEPT !.verified = FALSE] /\ UNCHANGED <<disk, faults>>
    BY <1>2 DEF RecordMetrics
  <2>2. /\ met' \in Metrics /\ met'.now = met.now /\ met'.saved = met.saved
        /\ met'.dirty = met.dirty
    BY <2>1 DEF MetricsHold, Metrics
  <2>3. MetricsHold'
    BY <2>1, <2>2 DEF MetricsHold, FileIsSaved, Consistent
  <2>4. Continued(disk, disk')
    BY <2>1, CountersAreKept DEF MetricsHold
  <2>5. QED
    BY <1>1, <2>1, <2>3, <2>4
<1>3. CASE VerifyDisk(met)
  <2>1. /\ met \in Metrics /\ disk \in Counters /\ Consistent(disk) /\ disk = met.now
        /\ Consistent(met.now)
    BY <1>3, VerifiedIsSaved
  <2>2. Charge(<<rotated, saved>>)
    BY <1>3 DEF RecordMetrics
  <2>3. Saved(met', disk') /\ Continued(disk, disk')
    <3>1. CASE ~Expired(met)
      <4>1. rotated = "ok"
        BY <1>3, <3>1 DEF RecordMetrics
      <4>2. PICK next : next = Count(met, op, o)
        OBVIOUS
      <4>3. met' = Persist(next, saved) /\ disk' = FileAfter(disk, next, saved)
        BY <1>3, <3>1, <4>1, <4>2 DEF RecordMetrics
      <4>4. QED
        BY <2>1, <4>2, <4>3, Counts
    <3>2. CASE Expired(met) /\ rotated # "ok"
      <4>1. met' = Persist(Reset(met), rotated) /\ disk' = FileAfter(disk, Reset(met), rotated)
        BY <1>3, <3>2 DEF RecordMetrics
      <4>2. QED
        BY <1>1, <2>1, <3>2, <4>1, Rotated
    <3>3. CASE Expired(met) /\ rotated = "ok"
      <4>1. PICK fresh : fresh = Persist(Reset(met), rotated)
        OBVIOUS
      <4>2. PICK file : file = FileAfter(disk, Reset(met), rotated)
        OBVIOUS
      <4>3. /\ Saved(fresh, file) /\ fresh.now = EmptyWindow(now) /\ file = EmptyWindow(now)
        BY <1>1, <2>1, <3>3, <4>1, <4>2, Rotated
      <4>4. /\ fresh \in Metrics /\ file \in Counters /\ Consistent(fresh.now)
            /\ file = fresh.now /\ file.win = now
        BY <1>1, <4>3, WindowEmpty DEF Saved
      <4>5. PICK next : next = Count(fresh, op, o)
        OBVIOUS
      <4>6. met' = Persist(next, saved) /\ disk' = FileAfter(file, next, saved)
        BY <1>3, <3>3, <4>1, <4>2, <4>5 DEF RecordMetrics
      <4>7. /\ Saved(met', disk') /\ disk'.win = file.win
        BY <4>4, <4>5, <4>6, Counts
      <4>8. disk.win # now
        BY <1>1, <2>1, <3>3, PassedIsAnother
      <4>9. QED
        BY <4>4, <4>7, <4>8 DEF Continued
    <3>4. QED
      BY <3>1, <3>2, <3>3
  <2>4. MetricsHold'
    BY <2>3 DEF Saved, MetricsHold, FileIsSaved, Consistent
  <2>5. QED
    BY <2>2, <2>3, <2>4, ChargedTwice
<1>4. QED
  BY <1>2, <1>3

LEMMA ProbeKeeps ==
  ASSUME TypeOK, MetricsHold, NEW rotated \in PersistResults, Probe(rotated)
  PROVE  /\ MetricsHold' /\ Continued(disk, disk')
         /\ faults' \in Nat /\ faults' <= MaxFaults + stops /\ faults <= faults'
<1>1. /\ faults \in Nat /\ faults <= MaxFaults + stops /\ now \in 0..MaxTime
      /\ proc = "up" /\ proc' = proc
  BY GatewayAssumption DEF TypeOK, Probe
<1>2. CASE met.verified /\ VerifyDisk(met) /\ Expired(met)
  <2>1. /\ Charge(<<rotated>>) /\ met' = Persist(Reset(met), rotated)
        /\ disk' = FileAfter(disk, Reset(met), rotated)
    BY <1>2 DEF Probe
  <2>2. Saved(met', disk') /\ Continued(disk, disk')
    BY <1>1, <1>2, <2>1, VerifiedIsSaved, Rotated
  <2>3. MetricsHold'
    BY <2>2 DEF Saved, MetricsHold, FileIsSaved, Consistent
  <2>4. QED
    BY <2>1, <2>2, <2>3, Charged
<1>3. CASE ~(met.verified /\ VerifyDisk(met) /\ Expired(met))
  <2>1. met' = [met EXCEPT !.verified = @ /\ VerifyDisk(met)] /\ UNCHANGED <<disk, faults>>
    BY <1>3 DEF Probe
  <2>2. PICK v \in BOOLEAN : v = VerifyDisk(met)
    BY DEF VerifyDisk
  <2>3. /\ met' \in Metrics /\ met'.now = met.now /\ met'.saved = met.saved
        /\ met'.dirty = met.dirty
    BY <2>1, <2>2 DEF MetricsHold, Metrics
  <2>4. MetricsHold'
    BY <1>1, <2>1, <2>3 DEF MetricsHold, FileIsSaved, Consistent
  <2>5. Continued(disk, disk')
    BY <2>1, CountersAreKept DEF MetricsHold
  <2>6. QED
    BY <1>1, <2>1, <2>4, <2>5
<1>4. QED
  BY <1>2, <1>3

LEMMA StoppedForgets ==
  ASSUME MetricsHold, Stopped
  PROVE  met' \in Metrics /\ proc' = "down"
<1>1. 0 \in 0..MaxTime
  BY GatewayAssumption
<1>2. EmptyWindow(0) \in Counters
  BY <1>1, WindowEmpty
<1>3. QED
  BY <1>2 DEF Stopped, Metrics

LEMMA OutcomesEnd ==
  ASSUME NEW end
  PROVE  OutcomeOf(end) \in Outcomes
BY DEF OutcomeOf, Outcomes

LEMMA OperationsAre == \A r \in Requests : OperationOf[r] \in Operations
BY GatewayAssumption DEF Operations

LEMMA StopInPersistKeeps ==
  ASSUME TypeOK, MetricsHold, NEW r \in Requests, StopInPersist(r)
  PROVE  MetricsHold' /\ Continued(disk, disk')
<1>1. /\ proc = "up" /\ VerifyDisk(met) /\ Stopped
      /\ disk' = Count(met, OperationOf[r], OutcomeOf(req[r].out)).now
  BY DEF StopInPersist, Stopped
<1>2. PICK o \in Outcomes : o = OutcomeOf(req[r].out)
  BY OutcomesEnd
<1>3. PICK op \in Operations : op = OperationOf[r]
  BY OperationsAre
<1>4. PICK k : k = Count(met, op, o)
  OBVIOUS
<1>5. /\ met \in Metrics /\ Consistent(met.now) /\ disk = met.now
  BY <1>1, VerifiedIsSaved
<1>6. k \in Metrics /\ Consistent(k.now) /\ Continued(disk, k.now)
  BY <1>4, <1>5, CountShape
<1>7. disk' = k.now
  BY <1>1, <1>2, <1>3, <1>4
<1>8. disk' \in Counters /\ Consistent(disk')
  BY <1>6, <1>7 DEF Metrics
<1>9. met' \in Metrics /\ proc' = "down"
  BY <1>1, StoppedForgets
<1>10. MetricsHold'
  BY <1>8, <1>9 DEF MetricsHold, FileIsSaved, Consistent
<1>11. QED
  BY <1>6, <1>7, <1>10

LEMMA StopKeepsMetrics ==
  ASSUME MetricsHold, Stopped, UNCHANGED disk
  PROVE  MetricsHold' /\ Continued(disk, disk')
<1>1. met' \in Metrics /\ proc' = "down"
  BY StoppedForgets
<1>2. MetricsHold'
  BY <1>1 DEF MetricsHold, FileIsSaved, Consistent
<1>3. QED
  BY <1>2, CountersAreKept DEF MetricsHold

LEMMA StartLoads ==
  ASSUME TypeOK, MetricsHold, NEW rotated \in PersistResults, Start(rotated)
  PROVE  MetricsHold' /\ Continued(disk, disk')
<1>1. /\ now \in 0..MaxTime /\ met \in Metrics /\ disk \in Counters /\ Consistent(disk)
  BY DEF TypeOK, MetricsHold, FileIsSaved
<1>2. PICK m : m = Loaded
  OBVIOUS
<1>3. m \in Metrics /\ m.now = disk /\ m.saved = disk /\ m.dirty = FALSE
  BY <1>1, <1>2 DEF Loaded, Metrics
<1>4. CASE Expired(m) /\ IsChain(log)
  <2>1. disk' = FileAfter(disk, Reset(m), rotated)
    BY <1>1, <1>2, <1>4 DEF Start
  <2>2. Saved(Persist(Reset(m), rotated), disk') /\ Continued(disk, disk')
    BY <1>1, <1>3, <1>4, <2>1, Rotated
  <2>3. CASE rotated = "ok"
    <3>1. met' = Persist(Reset(m), rotated)
      BY <1>1, <1>2, <1>4, <2>3 DEF Start
    <3>2. QED
      BY <2>2, <3>1 DEF Saved, MetricsHold, FileIsSaved, Consistent
  <2>4. CASE rotated # "ok"
    <3>1. met' = met /\ proc' = "refused"
      BY <2>4 DEF Start
    <3>2. QED
      BY <1>1, <2>2, <3>1 DEF Saved, MetricsHold, FileIsSaved, Consistent
  <2>5. QED
    BY <2>3, <2>4
<1>5. CASE ~(Expired(m) /\ IsChain(log))
  <2>1. disk' = disk /\ rotated = "ok"
    BY <1>2, <1>5 DEF Start
  <2>2. CASE IsChain(log)
    <3>1. met' = m
      BY <1>1, <1>2, <1>5, <2>1, <2>2 DEF Start
    <3>2. QED
      BY <1>1, <1>3, <2>1, <3>1, CountersAreKept DEF MetricsHold, FileIsSaved, Consistent
  <2>3. CASE ~IsChain(log)
    <3>1. met' = met /\ proc' = "refused"
      BY <2>3 DEF Start
    <3>2. QED
      BY <1>1, <2>1, <3>1, CountersAreKept DEF MetricsHold, FileIsSaved, Consistent
  <2>4. QED
    BY <2>2, <2>3
<1>6. QED
  BY <1>4, <1>5

\* A start is refused only for a failed write.
LEMMA StartRefuses ==
  ASSUME TypeOK, LogHolds, MetricsHold, NEW rotated \in PersistResults, Start(rotated),
         proc' = "refused"
  PROVE  faults' > 0
<1>1. faults \in Nat /\ Consistent(disk)
  BY GatewayAssumption DEF TypeOK, MetricsHold, FileIsSaved
<1>2. CASE ~IsChain(log)
  <2>1. UNCHANGED faults
    BY <1>2 DEF Start
  <2>2. faults # 0
    BY <1>2 DEF LogHolds, FaultlessIsAChain, IsChain, OnLines, Ended
  <2>3. QED
    BY <1>1, <2>1, <2>2
<1>3. CASE IsChain(log)
  <2>1. rotated # "ok"
    BY <1>1, <1>3 DEF Start
  <2>2. Charge(<<rotated>>)
    BY <2>1 DEF Start
  <2>3. QED
    BY <1>1, <2>1, <2>2, Charged
<1>4. QED
  BY <1>2, <1>3

-----------------------------------------------------------------------------
(* The records of the requests. *)

Early == {"idle", "arrived", "admitted", "preflight"}
Over  == {"answered", "lost"}

\* No request goes back before its first record, or leaves its end.
Onward ==
  \A q \in Requests :
    /\ req'[q].pc \in Early => req[q].pc \in Early
    /\ req[q].pc \in Over => req'[q].pc \in Over

\* The started record of q is in the file behind a whole chain, and, if it is to have a
\* line of its own, every record up to it has one.
Recorded(q, how) ==
  \E i \in DOMAIN log : /\ Mac(log[i]) = <<q, "started">>
                        /\ Linked(SubSeq(log, 1, i))
                        /\ how = "own" => Ended(SubSeq(log, 1, i))

RecordsRemain == \A q \in Requests, how \in Seals : Recorded(q, how) => Recorded(q, how)'

LEMMA Prefix ==
  ASSUME NEW s \in Lines, NEW i \in 1..Len(s)
  PROVE  /\ Linked(SubSeq(s, 1, i)) <=>
              \A j \in 1..i : /\ s[j] # Fragment /\ s[j].seq = j
                              /\ s[j].prev = IF j = 1 THEN None ELSE Mac(s[j - 1])
         /\ Ended(SubSeq(s, 1, i)) <=> \A j \in 1..i : s[j].nl
<1>1. PICK t : t = SubSeq(s, 1, i)
  OBVIOUS
<1>2. Len(s) \in Nat /\ DOMAIN t = 1..i /\ \A j \in 1..i : t[j] = s[j]
  BY <1>1 DEF Lines
<1>3. \A j \in 1..i : j # 1 => t[j - 1] = s[j - 1]
  BY <1>2
<1>4. Linked(t) <=> \A j \in 1..i : /\ t[j] # Fragment /\ t[j].seq = j
                           /\ t[j].prev = IF j = 1 THEN None ELSE Mac(t[j - 1])
  BY <1>2 DEF Linked
<1>5. Ended(t) <=> \A j \in 1..i : t[j].nl
  BY <1>2 DEF Ended
<1>6. Ended(t) <=> \A j \in 1..i : s[j].nl
  BY <1>2, <1>5
<1>7. QED
  BY <1>1, <1>2, <1>3, <1>4, <1>6

\* A record more takes no record back.
LEMMA StaysRecorded ==
  ASSUME log \in Lines, NEW x \in Records \cup {Fragment}, log' = Append(log, x),
         NEW q \in Requests, NEW how \in Seals, Recorded(q, how)
  PROVE  Recorded(q, how)'
<1>1. PICK i \in DOMAIN log : /\ Mac(log[i]) = <<q, "started">> /\ Linked(SubSeq(log, 1, i))
                              /\ how = "own" => Ended(SubSeq(log, 1, i))
  BY DEF Recorded
<1>2. PICK s \in Lines : s = log
  OBVIOUS
<1>3. PICK t \in Lines : t = log'
  BY Longer
<1>4. /\ Len(s) \in Nat /\ Len(t) = Len(s) + 1 /\ i \in 1..Len(s)
      /\ DOMAIN t = 1..(Len(s) + 1)
      /\ \A j \in 1..Len(s) : t[j] = s[j]
  BY <1>1, <1>2, <1>3, Longer
<1>5. /\ i \in 1..Len(t) /\ t[i] = s[i]
      /\ \A j \in 1..i : t[j] = s[j] /\ (j # 1 => t[j - 1] = s[j - 1])
  BY <1>4
<1>6. Linked(SubSeq(t, 1, i))
  <2>1. \A j \in 1..i : /\ s[j] # Fragment /\ s[j].seq = j
                        /\ s[j].prev = IF j = 1 THEN None ELSE Mac(s[j - 1])
    BY <1>1, <1>2, <1>4, Prefix
  <2>2. \A j \in 1..i : /\ t[j] # Fragment /\ t[j].seq = j
                        /\ t[j].prev = IF j = 1 THEN None ELSE Mac(t[j - 1])
    BY <1>5, <2>1
  <2>3. QED
    BY <1>5, <2>2, Prefix
<1>7. how = "own" => Ended(SubSeq(t, 1, i))
  <2>1. how = "own" => \A j \in 1..i : s[j].nl
    BY <1>1, <1>2, <1>4, Prefix
  <2>2. how = "own" => \A j \in 1..i : t[j].nl
    BY <1>5, <2>1
  <2>3. QED
    BY <1>5, <2>2, Prefix
<1>8. Mac(t[i]) = <<q, "started">> /\ i \in DOMAIN t
  BY <1>1, <1>2, <1>4, <1>5
<1>9. QED
  BY <1>3, <1>6, <1>7, <1>8 DEF Recorded

\* A record that ends a chain is in it.
LEMMA LastIsRecorded ==
  ASSUME NEW s \in Lines, NEW line \in Records, NEW q \in Requests,
         Mac(line) = <<q, "started">>, log' = Append(s, line), Linked(log'),
         NEW how \in Seals, how = "own" => Ended(log')
  PROVE  Recorded(q, how)'
<1>1. PICK t \in Lines : t = log'
  BY Longer
<1>2. Len(s) \in Nat /\ Len(t) = Len(s) + 1 /\ DOMAIN t = 1..Len(t) /\ t[Len(t)] = line
  BY <1>1, Longer
<1>3. Len(t) \in 1..Len(t)
  BY <1>2
<1>4. Linked(t) /\ (how = "own" => Ended(t))
  BY <1>1
<1>5. /\ Linked(SubSeq(t, 1, Len(t)))
      /\ how = "own" => Ended(SubSeq(t, 1, Len(t)))
  BY <1>2, <1>3, <1>4, Prefix DEF Linked, Ended
<1>6. QED
  BY <1>1, <1>2, <1>3, <1>5 DEF Recorded

LEMMA RecordsStay ==
  ASSUME LogHolds, RecordsInOrder, RecordsOfRequests, Onward, log' = log
  PROVE  /\ RecordsInOrder' /\ RecordsOfRequests'
         /\ RecordsRemain
<1>1. RecordsInOrder'
  BY DEF RecordsInOrder
<1>2. ASSUME NEW i \in DOMAIN log, log[i] # Fragment
      PROVE  /\ req'[log[i].req].pc \notin {"idle", "arrived", "admitted", "preflight"}
             /\ log[i].kind = "ended" => req'[log[i].req].pc \in {"answered", "lost"}
  <2>1. log[i].req \in Requests
    BY <1>2 DEF LogHolds, Lines, Records
  <2>2. QED
    BY <1>2, <2>1 DEF RecordsOfRequests, Onward, Early, Over
<1>3. RecordsOfRequests'
  BY <1>2 DEF RecordsOfRequests
<1>4. QED
  BY <1>1, <1>3 DEF RecordsRemain, Recorded

\* A record more: a part of one, or a record that the request did not have.
LEMMA RecordsGrow ==
  ASSUME LogHolds, RecordsInOrder, RecordsOfRequests, Onward,
         NEW x \in Records \cup {Fragment}, log' = Append(log, x),
         x # Fragment => \/ /\ x.kind = "started" /\ req[x.req].pc = "preflight"
                           /\ req'[x.req].pc \notin Early
                        \/ /\ x.kind = "ended" /\ req[x.req].pc = "audit"
                           /\ req'[x.req].pc \in Over
  PROVE  /\ RecordsInOrder' /\ RecordsOfRequests'
         /\ RecordsRemain
<1>1. PICK s \in Lines : s = log
  BY DEF LogHolds
<1>2. PICK t \in Lines : t = log'
  BY <1>1, Longer
<1>3. PICK n \in Nat : n = Len(s)
  BY DEF Lines
<1>4. /\ DOMAIN s = 1..n /\ DOMAIN t = 1..(n + 1) /\ t[n + 1] = x
      /\ \A i \in 1..n : t[i] = s[i] /\ s[i] \in Records \cup {Fragment}
  BY <1>1, <1>2, <1>3, Longer
<1>5. \A i \in 1..n : s[i] # Fragment =>
        /\ s[i].req \in Requests /\ s[i].kind \in {"started", "ended"}
        /\ req[s[i].req].pc \notin Early
        /\ s[i].kind = "ended" => req[s[i].req].pc \in Over
  <2>1. \A i \in 1..n : s[i] # Fragment =>
          s[i].req \in Requests /\ s[i].kind \in {"started", "ended"}
    BY <1>4 DEF Records
  <2>2. QED
    BY <1>1, <1>4, <2>1 DEF RecordsOfRequests, Early, Over
<1>6. x # Fragment => x.req \in Requests /\ x.kind \in {"started", "ended"}
  BY DEF Records
<1>7. \A i \in 1..n : s[i] # Fragment /\ x # Fragment /\ s[i].req = x.req =>
        s[i].kind = "started" /\ x.kind = "ended"
  BY <1>5, <1>6 DEF Early, Over
<1>8. Mac(Fragment) = <<None, "fragment">> /\ None \notin Requests
  BY FragmentIsNoRecord, GatewayAssumption DEF Mac
<1>9. \A i \in 1..(n + 1) : /\ t[i] \in Records \cup {Fragment}
                            /\ i # n + 1 => i \in 1..n /\ t[i] = s[i]
  <2>1. \A i \in 1..(n + 1) : i = n + 1 \/ i \in 1..n
    OBVIOUS
  <2>2. QED
    BY <1>4, <2>1
<1>10. ASSUME NEW i \in 1..(n + 1), NEW j \in 1..(n + 1)
       PROVE  /\ Mac(t[i]) = Mac(t[j]) /\ t[i] # Fragment => i = j
              /\ t[i].req = t[j].req /\ t[i].kind = "started" /\ t[j].kind = "ended" => i < j
  <2>1. Mac(t[i]) = Mac(t[j]) => t[i].req = t[j].req /\ t[i].kind = t[j].kind
    BY DEF Mac
  <2>2. t[i] # Fragment <=> t[i].kind \in {"started", "ended"}
    BY <1>9, FragmentIsNoRecord DEF Records
  <2>3. t[j] # Fragment <=> t[j].kind \in {"started", "ended"}
    BY <1>9, FragmentIsNoRecord DEF Records
  <2>4. CASE i \in 1..n /\ j \in 1..n
    BY <1>1, <1>4, <2>4 DEF RecordsInOrder
  <2>5. CASE i = n + 1 /\ j = n + 1
    BY <2>5
  <2>6. CASE i = n + 1 /\ j \in 1..n
    <3>1. t[i] = x /\ t[j] = s[j]
      BY <1>4, <2>6
    <3>2. x # Fragment /\ s[j] # Fragment /\ s[j].req = x.req =>
            s[j].kind = "started" /\ x.kind = "ended"
      BY <1>7, <2>6
    <3>3. QED
      BY <2>1, <2>2, <2>3, <3>1, <3>2
  <2>7. CASE i \in 1..n /\ j = n + 1
    <3>1. t[j] = x /\ t[i] = s[i] /\ i < j
      BY <1>4, <2>7
    <3>2. x # Fragment /\ s[i] # Fragment /\ s[i].req = x.req =>
            s[i].kind = "started" /\ x.kind = "ended"
      BY <1>7, <2>7
    <3>3. QED
      BY <2>1, <2>2, <2>3, <3>1, <3>2
  <2>8. QED
    BY <1>9, <2>4, <2>5, <2>6, <2>7
<1>11. RecordsInOrder'
  BY <1>2, <1>4, <1>10 DEF RecordsInOrder
<1>12. ASSUME NEW i \in 1..(n + 1), t[i] # Fragment
       PROVE  /\ req'[t[i].req].pc \notin {"idle", "arrived", "admitted", "preflight"}
              /\ t[i].kind = "ended" => req'[t[i].req].pc \in {"answered", "lost"}
  <2>1. CASE i = n + 1
    BY <1>4, <1>12, <2>1 DEF Early, Over
  <2>2. CASE i \in 1..n
    BY <1>4, <1>5, <1>12, <2>2 DEF Onward, Early, Over
  <2>3. QED
    BY <1>9, <2>1, <2>2
<1>13. RecordsOfRequests'
  BY <1>2, <1>4, <1>12 DEF RecordsOfRequests
<1>14. RecordsRemain
  BY <1>1, StaysRecorded DEF RecordsRemain
<1>15. QED
  BY <1>11, <1>13, <1>14

LEMMA AppendedRecords ==
  ASSUME LogHolds, RecordsInOrder, RecordsOfRequests, Onward, NEW r \in Requests,
         NEW kind \in {"started", "ended"}, LineMore(r, kind),
         \/ /\ kind = "started" /\ req[r].pc = "preflight" /\ req'[r].pc \notin Early
         \/ /\ kind = "ended" /\ req[r].pc = "audit" /\ req'[r].pc \in Over
  PROVE  /\ RecordsInOrder' /\ RecordsOfRequests'
         /\ RecordsRemain
<1>1. PICK line : line = NextRecord(r, kind)
  OBVIOUS
<1>2. /\ line \in Records /\ line.req = r /\ line.kind = kind
      /\ Unended(line) \in Records /\ Unended(line).req = r /\ Unended(line).kind = kind
  BY <1>1, NextShape, UnendedShape
<1>3. CASE log' = log
  BY <1>3, RecordsStay
<1>4. CASE log' = Append(log, Fragment)
  BY <1>4, RecordsGrow
<1>5. CASE log' = Append(log, line)
  BY <1>2, <1>5, RecordsGrow
<1>6. CASE log' = Append(log, Unended(line))
  BY <1>2, <1>6, RecordsGrow
<1>7. QED
  BY <1>1, <1>3, <1>4, <1>5, <1>6 DEF LineMore

-----------------------------------------------------------------------------
(* The requests and the limiter. *)

Places == Waiting \cup {"idle", "answered", "lost"}
Request == [pc : Places, at : 0..MaxTime, out : Ends \cup {"none"}, sealed : Seals]
Bucket == [tokens : 0..Burst, last : 0..MaxTime, seen : 0..MaxTime, there : BOOLEAN]

\* What holds of a request besides its type: its records.
RequestsHold ==
  /\ req \in [Requests -> Request]
  /\ RecordsInOrder /\ RecordsOfRequests /\ ForwardedIsRecorded

LEMMA ForwardedAre ==
  ForwardedIsRecorded <=>
    \A q \in Requests : req[q].sealed # "no" => Recorded(q, req[q].sealed)
BY DEF ForwardedIsRecorded, Recorded

\* A request forwarded before has its record still.
LEMMA SealedRemain ==
  ASSUME RequestsHold, RecordsRemain, NEW q \in Requests,
         req'[q].sealed = req[q].sealed, req[q].sealed # "no"
  PROVE  Recorded(q, req[q].sealed)'
<1>1. PICK how \in Seals : how = req[q].sealed
  BY DEF RequestsHold, Request
<1>2. Recorded(q, how)
  BY <1>1, ForwardedAre DEF RequestsHold
<1>3. Recorded(q, how)'
  BY <1>2 DEF RecordsRemain
<1>4. how = req'[q].sealed
  BY <1>1
<1>5. QED
  BY <1>3, <1>4 DEF Recorded

\* A request takes a step that writes no record.
LEMMA RequestMoves ==
  ASSUME LogHolds, RequestsHold, NEW r \in Requests, NEW e \in Request,
         req' = [req EXCEPT ![r] = e], log' = log, e.sealed = req[r].sealed,
         e.pc \in Early => req[r].pc \in Early,
         req[r].pc \in Over => e.pc \in Over
  PROVE  RequestsHold'
<1>1. /\ req' \in [Requests -> Request] /\ req'[r] = e
      /\ \A q \in Requests : q # r => req'[q] = req[q]
  BY DEF RequestsHold
<1>2. Onward
  BY <1>1 DEF Onward
<1>3. /\ RecordsInOrder' /\ RecordsOfRequests'
      /\ RecordsRemain
  BY <1>2, RecordsStay DEF RequestsHold
<1>4. ForwardedIsRecorded'
  <2>1. ASSUME NEW q \in Requests, req'[q].sealed # "no"
        PROVE  Recorded(q, req[q].sealed)'
    BY <1>1, <1>3, <2>1, SealedRemain
  <2>2. QED
    BY <2>1 DEF ForwardedIsRecorded, Recorded
<1>5. QED
  BY <1>1, <1>3, <1>4 DEF RequestsHold

LEMMA RequestsStay ==
  ASSUME RequestsHold, UNCHANGED <<req, log>>
  PROVE  RequestsHold'
BY DEF RequestsHold, RecordsInOrder, RecordsOfRequests, ForwardedIsRecorded

LEMMA TokensShape ==
  ASSUME NEW b \in Bucket, NEW t \in 0..MaxTime
  PROVE  TokensAt(b, t) \in 0..Burst
<1>1. /\ b.tokens \in 0..Burst /\ b.last \in Nat /\ t \in Nat /\ Rate \in Nat /\ Burst \in Nat
  BY GatewayAssumption DEF Bucket
<1>2. CASE ~b.there
  BY <1>1, <1>2 DEF TokensAt
<1>3. CASE b.there /\ t <= b.last
  BY <1>1, <1>3 DEF TokensAt
<1>4. CASE b.there /\ ~(t <= b.last)
  <2>1. PICK d \in Nat : d = t - b.last
    BY <1>1, <1>4
  <2>2. PICK g \in Nat : g = b.tokens + Rate * d
    BY <1>1
  <2>3. TokensAt(b, t) = IF g > Burst THEN Burst ELSE g
    BY <1>4, <2>1, <2>2 DEF TokensAt
  <2>4. QED
    BY <1>1, <2>2, <2>3
<1>5. QED
  BY <1>2, <1>3, <1>4

LEMMA AllowKeeps ==
  ASSUME buckets \in [Principals -> Bucket], lastGC \in 0..MaxTime, NEW p \in Principals,
         NEW t \in 0..MaxTime, Allow(p, t)
  PROVE  buckets' \in [Principals -> Bucket] /\ lastGC' \in 0..MaxTime
<1>1. NoBucket \in Bucket
  BY GatewayAssumption DEF NoBucket, Bucket
<1>2. PICK swept : swept = Swept(t)
  OBVIOUS
<1>3. swept \in [Principals -> Bucket]
  BY <1>1, <1>2 DEF Swept
<1>4. PICK tokens \in 0..Burst : tokens = TokensAt(swept[p], t)
  BY <1>3, TokensShape
<1>5. PICK left : left = IF tokens >= 1 THEN tokens - 1 ELSE tokens
  OBVIOUS
<1>6. left \in 0..Burst
  BY <1>4, <1>5, GatewayAssumption
<1>7. PICK b : b = [tokens |-> left, last |-> t, seen |-> t, there |-> TRUE]
  OBVIOUS
<1>8. b \in Bucket
  BY <1>6, <1>7 DEF Bucket
<1>9. buckets' = [swept EXCEPT ![p] = b] /\ lastGC' = IF t >= lastGC + GCEvery THEN t ELSE lastGC
  BY <1>2, <1>4, <1>5, <1>7 DEF Allow
<1>10. QED
  BY <1>3, <1>8, <1>9

-----------------------------------------------------------------------------
(* The steps. *)

RestTyped ==
  /\ now \in 0..MaxTime /\ buckets \in [Principals -> Bucket] /\ lastGC \in 0..MaxTime
  /\ proc \in {"up", "down", "refused"} /\ stops \in 0..MaxStops
  /\ faults \in 0..(MaxFaults + stops)

GatewayHolds == FlagsAreHonest /\ RecordsAreComplete

LEMMA Parts ==
  GatewayHolds <=> RestTyped /\ LogHolds /\ MetricsHold /\ RequestsHold /\ RefusedForAReason
<1>1. TypeOK <=> /\ RestTyped /\ req \in [Requests -> Request] /\ log \in Lines
                 /\ chain \in Chain /\ met \in Metrics /\ disk \in Counters
  BY DEF TypeOK, RestTyped, Request, Places, Bucket, Lines, Chain, Metrics
<1>2. LogHolds /\ MetricsHold => ReadyIsHonest
  <2>1. ASSUME LogHolds, Ready
        PROVE  IsChain(log) \/ Joined
    <3>1. /\ Linked(log) /\ \A i \in DOMAIN log : ~log[i].nl => i = chain.loaded
          /\ Len(log) \in Nat /\ DOMAIN log = 1..Len(log) /\ chain.loaded \in Nat
      BY <2>1 DEF LogHolds, Ready, VerifiedIsAChain, Lines, Chain
    <3>2. QED
      BY <3>1 DEF IsChain, OnLines, Joined
  <2>2. QED
    BY <2>1 DEF MetricsHold, ReadyIsHonest, Ready, FileIsSaved
<1>3. QED
  BY <1>1, <1>2 DEF GatewayHolds, FlagsAreHonest, RecordsAreComplete, LogHolds, MetricsHold,
                    RequestsHold

LEMMA PartsNext ==
  (RestTyped /\ LogHolds /\ MetricsHold /\ RequestsHold /\ RefusedForAReason)' => GatewayHolds'
BY Parts, PTL

\* The log, the metrics, the process and the counts of faults are left alone.
LEMMA PartsStay ==
  ASSUME GatewayHolds, UNCHANGED <<log, met, disk, proc, faults, stops>>
  PROVE  /\ UNCHANGED chain => LogHolds'
         /\ MetricsHold' /\ RefusedForAReason'
         /\ proc' \in {"up", "down", "refused"} /\ stops' \in 0..MaxStops
         /\ faults' \in 0..(MaxFaults + stops')
<1>1. RestTyped /\ LogHolds /\ MetricsHold /\ RefusedForAReason
  BY Parts
<1>2. UNCHANGED chain => LogHolds'
  BY <1>1, FlagKeeps
<1>3. MetricsHold'
  BY <1>1 DEF MetricsHold, FileIsSaved, Consistent
<1>4. QED
  BY <1>1, <1>2, <1>3 DEF RefusedForAReason, RestTyped

\* A step that moves one request and nothing of the log and the metrics.
LEMMA OneMoves ==
  ASSUME GatewayHolds, NEW r \in Requests, NEW e \in Request, req' = [req EXCEPT ![r] = e],
         UNCHANGED <<now, log, chain, met, disk, proc, faults, stops>>,
         buckets' \in [Principals -> Bucket], lastGC' \in 0..MaxTime,
         e.sealed = req[r].sealed,
         e.pc \in Early => req[r].pc \in Early,
         req[r].pc \in Over => e.pc \in Over
  PROVE  GatewayHolds'
<1>1. RestTyped /\ LogHolds /\ RequestsHold
  BY Parts
<1>2. /\ LogHolds' /\ MetricsHold' /\ RefusedForAReason' /\ stops' \in 0..MaxStops
      /\ proc' \in {"up", "down", "refused"} /\ faults' \in 0..(MaxFaults + stops')
  BY PartsStay
<1>3. RequestsHold'
  BY <1>1, RequestMoves
<1>4. RestTyped'
  BY <1>1, <1>2 DEF RestTyped
<1>5. QED
  BY <1>2, <1>3, <1>4, PartsNext

LEMMA ArriveKeeps ==
  ASSUME GatewayHolds, NEW r \in Requests, Arrive(r)
  PROVE  GatewayHolds'
<1>1. RestTyped /\ req[r] \in Request /\ req[r].pc = "idle"
  BY Parts DEF RequestsHold, Arrive
<1>2. PICK e : e = [req[r] EXCEPT !.pc = "arrived", !.at = now]
  OBVIOUS
<1>3. e \in Request /\ e.sealed = req[r].sealed /\ e.pc = "arrived"
  BY <1>1, <1>2 DEF Request, Places, Waiting, RestTyped
<1>4. req' = [req EXCEPT ![r] = e]
  BY <1>2 DEF Arrive
<1>5. QED
  BY <1>1, <1>3, <1>4, OneMoves DEF Arrive, RestTyped, Early, Over

LEMMA LimitKeeps ==
  ASSUME GatewayHolds, NEW r \in Requests, Limit(r)
  PROVE  GatewayHolds'
<1>1. RestTyped /\ req[r] \in Request /\ req[r].pc = "arrived"
  BY Parts DEF RequestsHold, Limit
<1>2. PICK e : e = IF TokensAt(Swept(req[r].at)[PrincipalOf[r]], req[r].at) >= 1
                   THEN [req[r] EXCEPT !.pc = "admitted", !.at = 0]
                   ELSE [req[r] EXCEPT !.pc = "record", !.at = 0, !.out = "rate_limited"]
  OBVIOUS
<1>3. e \in Request /\ e.sealed = req[r].sealed /\ e.pc \in {"admitted", "record"}
  <2>1. 0 \in 0..MaxTime
    BY GatewayAssumption
  <2>2. PICK a : a = [req[r] EXCEPT !.pc = "admitted", !.at = 0]
    OBVIOUS
  <2>3. a \in Request /\ a.sealed = req[r].sealed /\ a.pc = "admitted"
    BY <1>1, <2>1, <2>2 DEF Request, Places, Waiting
  <2>4. PICK b : b = [req[r] EXCEPT !.pc = "record", !.at = 0, !.out = "rate_limited"]
    OBVIOUS
  <2>5. b \in Request /\ b.sealed = req[r].sealed /\ b.pc = "record"
    BY <1>1, <2>1, <2>4 DEF Request, Places, Waiting, Ends
  <2>6. e = a \/ e = b
    BY <1>2, <2>2, <2>4
  <2>7. QED
    BY <2>3, <2>5, <2>6
<1>4. req' = [req EXCEPT ![r] = e]
  BY <1>2 DEF Limit
<1>5. buckets' \in [Principals -> Bucket] /\ lastGC' \in 0..MaxTime
  <2>1. Allow(PrincipalOf[r], req[r].at) /\ PrincipalOf[r] \in Principals
        /\ req[r].at \in 0..MaxTime
    BY <1>1, GatewayAssumption DEF Limit, Request
  <2>2. QED
    BY <1>1, <2>1, AllowKeeps DEF RestTyped
<1>6. UNCHANGED <<now, log, chain, met, disk, proc, faults, stops>>
  BY DEF Limit
<1>7. QED
  BY <1>1, <1>3, <1>4, <1>5, <1>6, OneMoves DEF Early, Over

LEMMA ReadBodyKeeps ==
  ASSUME GatewayHolds, NEW r \in Requests, ReadBody(r)
  PROVE  GatewayHolds'
<1>1. RestTyped /\ req[r] \in Request /\ req[r].pc = "admitted"
  BY Parts DEF RequestsHold, ReadBody
<1>2. PICK pc \in {"preflight", "record"}, out \in Ends \cup {"none"} : Move(r, pc, out)
  BY <1>1 DEF ReadBody, Request, Ends
<1>3. PICK e : e = [req[r] EXCEPT !.pc = pc, !.out = out]
  OBVIOUS
<1>4. e \in Request /\ e.sealed = req[r].sealed /\ e.pc = pc
  BY <1>1, <1>3 DEF Request, Places, Waiting
<1>5. req' = [req EXCEPT ![r] = e]
  BY <1>2, <1>3 DEF Move
<1>6. QED
  BY <1>1, <1>4, <1>5, OneMoves DEF ReadBody, RestTyped, Early, Over

LEMMA ForwardKeeps ==
  ASSUME GatewayHolds, NEW r \in Requests, Forward(r)
  PROVE  GatewayHolds'
<1>1. RestTyped /\ req[r] \in Request /\ req[r].pc = "forwarding"
  BY Parts DEF RequestsHold, Forward
<1>2. PICK end \in Outcomes : Move(r, "record", end)
  BY DEF Forward
<1>3. PICK e : e = [req[r] EXCEPT !.pc = "record", !.out = end]
  OBVIOUS
<1>4. e \in Request /\ e.sealed = req[r].sealed /\ e.pc = "record"
  BY <1>1, <1>3 DEF Request, Places, Waiting, Ends
<1>5. req' = [req EXCEPT ![r] = e]
  BY <1>2, <1>3 DEF Move
<1>6. QED
  BY <1>1, <1>4, <1>5, OneMoves DEF Forward, RestTyped, Early, Over

\* A step that may charge a fault and leaves the process as it is.
LEMMA ChargedSteps ==
  ASSUME GatewayHolds, UNCHANGED <<proc, stops>>, faults' \in Nat,
         faults' <= MaxFaults + stops, faults <= faults'
  PROVE  /\ RefusedForAReason' /\ proc' \in {"up", "down", "refused"}
         /\ stops' \in 0..MaxStops /\ faults' \in 0..(MaxFaults + stops')
<1>1. RestTyped /\ RefusedForAReason /\ faults \in Nat
  BY Parts, GatewayAssumption DEF RestTyped
<1>2. QED
  BY <1>1 DEF RestTyped, RefusedForAReason

LEMMA PreflightKeeps ==
  ASSUME GatewayHolds, NEW r \in Requests, NEW result \in AppendResults, Preflight(r, result)
  PROVE  GatewayHolds'
<1>1. /\ RestTyped /\ LogHolds /\ MetricsHold /\ RequestsHold /\ TypeOK
      /\ req[r] \in Request /\ req[r].pc = "preflight" /\ proc = "up"
      /\ AppendRecord(r, "started", result)
      /\ UNCHANGED <<now, buckets, lastGC, met, disk, proc, stops>>
  BY Parts DEF GatewayHolds, FlagsAreHonest, RequestsHold, Preflight, Live
<1>2. /\ LogHolds' /\ LineMore(r, "started")
      /\ faults' \in Nat /\ faults' <= MaxFaults + stops /\ faults <= faults'
      /\ result = "ok" /\ chain.verified =>
           /\ log' = Append(log, NextRecord(r, "started")) /\ Linked(log')
           /\ Ended(log) => Ended(log')
  BY <1>1, AppendKeeps
<1>3. PICK e : e = IF result = "ok"
                   THEN [req[r] EXCEPT !.pc = "forwarding", !.sealed = Seal]
                   ELSE [req[r] EXCEPT !.pc = "record", !.out = "unavailable"]
  OBVIOUS
<1>4. /\ e \in Request /\ e.pc \in {"forwarding", "record"}
      /\ \/ e.sealed = req[r].sealed
         \/ result = "ok" /\ e.sealed = Seal
  <2>1. Seal \in Seals
    BY DEF Seal, Seals
  <2>2. CASE result = "ok"
    <3>1. e = [req[r] EXCEPT !.pc = "forwarding", !.sealed = Seal]
      BY <1>3, <2>2
    <3>2. QED
      BY <1>1, <2>1, <2>2, <3>1 DEF Request, Places, Waiting
  <2>3. CASE result # "ok"
    <3>1. e = [req[r] EXCEPT !.pc = "record", !.out = "unavailable"]
      BY <1>3, <2>3
    <3>2. QED
      BY <1>1, <3>1 DEF Request, Places, Waiting, Ends
  <2>4. QED
    BY <2>2, <2>3
<1>5. req' = [req EXCEPT ![r] = e]
  BY <1>3 DEF Preflight
<1>6. /\ req' \in [Requests -> Request] /\ req'[r] = e
      /\ \A q \in Requests : q # r => req'[q] = req[q]
  BY <1>1, <1>4, <1>5 DEF RequestsHold
<1>7. Onward
  BY <1>1, <1>4, <1>6 DEF Onward, Early, Over
<1>8. /\ RecordsInOrder' /\ RecordsOfRequests'
      /\ RecordsRemain
  BY <1>1, <1>2, <1>4, <1>6, <1>7, AppendedRecords DEF RequestsHold, Early
<1>9. ASSUME NEW q \in Requests, req'[q].sealed # "no"
      PROVE  Recorded(q, req[q].sealed)'
  <2>1. CASE req'[q].sealed = req[q].sealed
    BY <1>1, <1>8, <1>9, <2>1, SealedRemain
  <2>2. CASE req'[q].sealed # req[q].sealed
    <3>1. q = r /\ result = "ok" /\ req'[q].sealed = Seal
      BY <1>4, <1>6, <2>2
    <3>2. /\ log' = Append(log, NextRecord(r, "started")) /\ Linked(log')
          /\ req'[q].sealed = "own" => Ended(log')
      BY <1>2, <1>9, <3>1 DEF Seal
    <3>3. log \in Lines /\ NextRecord(r, "started") \in Records
          /\ Mac(NextRecord(r, "started")) = <<r, "started">>
      BY <1>1, NextShape DEF LogHolds
    <3>4. PICK how \in Seals : how = req'[q].sealed
      BY <1>6 DEF Request
    <3>5. Recorded(q, how)'
      BY <3>1, <3>2, <3>3, <3>4, LastIsRecorded
    <3>6. QED
      BY <3>4, <3>5 DEF Recorded
  <2>3. QED
    BY <2>1, <2>2
<1>10. RequestsHold'
  BY <1>6, <1>8, <1>9 DEF RequestsHold, ForwardedIsRecorded, Recorded
<1>11. MetricsHold'
  BY <1>1 DEF MetricsHold, FileIsSaved, Consistent
<1>12. RestTyped' /\ RefusedForAReason'
  BY <1>1, <1>2, ChargedSteps DEF RestTyped
<1>13. QED
  BY <1>2, <1>10, <1>11, <1>12, PartsNext

LEMMA AuditEndKeeps ==
  ASSUME GatewayHolds, NEW r \in Requests, NEW result \in AppendResults, AuditEnd(r, result)
  PROVE  GatewayHolds'
<1>1. /\ RestTyped /\ LogHolds /\ MetricsHold /\ RequestsHold /\ TypeOK
      /\ req[r] \in Request /\ req[r].pc = "audit" /\ proc = "up"
      /\ AppendRecord(r, "ended", result)
      /\ UNCHANGED <<now, buckets, lastGC, met, disk, proc, stops>>
  BY Parts DEF GatewayHolds, FlagsAreHonest, RequestsHold, AuditEnd, Live
<1>2. /\ LogHolds' /\ LineMore(r, "ended")
      /\ faults' \in Nat /\ faults' <= MaxFaults + stops /\ faults <= faults'
  BY <1>1, AppendKeeps
<1>3. PICK e : e = [req[r] EXCEPT !.pc = "answered", !.out = req[r].out]
  OBVIOUS
<1>4. e \in Request /\ e.pc = "answered" /\ e.sealed = req[r].sealed
  BY <1>1, <1>3 DEF Request, Places
<1>5. req' = [req EXCEPT ![r] = e]
  BY <1>3 DEF AuditEnd, Move
<1>6. /\ req' \in [Requests -> Request] /\ req'[r] = e
      /\ \A q \in Requests : q # r => req'[q] = req[q]
  BY <1>1, <1>4, <1>5 DEF RequestsHold
<1>7. Onward
  BY <1>1, <1>4, <1>6 DEF Onward, Early, Over
<1>8. /\ RecordsInOrder' /\ RecordsOfRequests'
      /\ RecordsRemain
  BY <1>1, <1>2, <1>4, <1>6, <1>7, AppendedRecords DEF RequestsHold, Over
<1>9. ASSUME NEW q \in Requests, req'[q].sealed # "no"
      PROVE  Recorded(q, req[q].sealed)'
  BY <1>1, <1>4, <1>6, <1>8, <1>9, SealedRemain
<1>10. RequestsHold'
  BY <1>6, <1>8, <1>9 DEF RequestsHold, ForwardedIsRecorded, Recorded
<1>11. MetricsHold'
  BY <1>1 DEF MetricsHold, FileIsSaved, Consistent
<1>12. RestTyped' /\ RefusedForAReason'
  BY <1>1, <1>2, ChargedSteps DEF RestTyped
<1>13. QED
  BY <1>2, <1>10, <1>11, <1>12, PartsNext

LEMMA RecordEndKeeps ==
  ASSUME GatewayHolds, NEW r \in Requests, NEW rotated \in PersistResults,
         NEW saved \in PersistResults, RecordEnd(r, rotated, saved)
  PROVE  GatewayHolds' /\ Continued(disk, disk')
<1>1. /\ RestTyped /\ LogHolds /\ MetricsHold /\ RequestsHold /\ TypeOK
      /\ req[r] \in Request /\ req[r].pc = "record" /\ proc = "up"
      /\ RecordMetrics(OperationOf[r], OutcomeOf(req[r].out), rotated, saved)
      /\ UNCHANGED <<now, buckets, lastGC, log, chain, proc, stops>>
  BY Parts DEF GatewayHolds, FlagsAreHonest, RequestsHold, RecordEnd, Live
<1>2. /\ MetricsHold' /\ Continued(disk, disk')
      /\ faults' \in Nat /\ faults' <= MaxFaults + stops /\ faults <= faults'
  <2>1. OperationOf[r] \in Operations /\ OutcomeOf(req[r].out) \in Outcomes
    BY OperationsAre, OutcomesEnd
  <2>2. QED
    BY <1>1, <2>1, RecordMetricsKeeps
<1>3. PICK pc \in {"answered", "audit"} :
        req' = [req EXCEPT ![r] = [@ EXCEPT !.pc = pc, !.out = req[r].out]]
  BY DEF RecordEnd, Move
<1>4. PICK e : e = [req[r] EXCEPT !.pc = pc, !.out = req[r].out]
  OBVIOUS
<1>5. e \in Request /\ e.pc = pc /\ e.sealed = req[r].sealed
  BY <1>1, <1>4 DEF Request, Places, Waiting
<1>6. RequestsHold'
  BY <1>1, <1>3, <1>4, <1>5, RequestMoves DEF Early, Over
<1>7. LogHolds'
  <2>1. faults' = 0 => faults = 0
    BY <1>1, <1>2, GatewayAssumption DEF RestTyped
  <2>2. QED
    BY <1>1, <2>1 DEF LogHolds, CountsItsRecords, VerifiedIsAChain, FaultlessIsAChain
<1>8. RestTyped' /\ RefusedForAReason'
  BY <1>1, <1>2, ChargedSteps DEF RestTyped
<1>9. QED
  BY <1>2, <1>6, <1>7, <1>8, PartsNext

LEMMA ProbeHolds ==
  ASSUME GatewayHolds, NEW rotated \in PersistResults, Probe(rotated)
  PROVE  GatewayHolds' /\ Continued(disk, disk')
<1>1. /\ RestTyped /\ LogHolds /\ MetricsHold /\ RequestsHold /\ TypeOK
      /\ UNCHANGED <<now, req, buckets, lastGC, log, chain, proc, stops>>
  BY Parts DEF GatewayHolds, FlagsAreHonest, Probe
<1>2. /\ MetricsHold' /\ Continued(disk, disk')
      /\ faults' \in Nat /\ faults' <= MaxFaults + stops /\ faults <= faults'
  BY <1>1, ProbeKeeps
<1>3. LogHolds'
  <2>1. faults' = 0 => faults = 0
    BY <1>1, <1>2, GatewayAssumption DEF RestTyped
  <2>2. QED
    BY <1>1, <2>1 DEF LogHolds, CountsItsRecords, VerifiedIsAChain, FaultlessIsAChain
<1>4. RequestsHold'
  BY <1>1, RequestsStay
<1>5. RestTyped' /\ RefusedForAReason'
  BY <1>1, <1>2, ChargedSteps DEF RestTyped
<1>6. QED
  BY <1>2, <1>3, <1>4, <1>5, PartsNext

\* Reading the events, closing the log, the clock: flags and time only.
LEMMA QuietKeeps ==
  ASSUME GatewayHolds, (\E k \in Nat : ReadEvents(k)) \/ Close \/ Tick
  PROVE  GatewayHolds'
<1>1. /\ UNCHANGED <<req, buckets, lastGC, log, met, disk, proc, faults, stops>>
      /\ now' = now \/ Tick
  BY DEF ReadEvents, Close, Tick
<1>2. RestTyped /\ LogHolds /\ RequestsHold
  BY Parts
<1>3. \/ \E v \in BOOLEAN : chain' = [chain EXCEPT !.verified = @ /\ v]
      \/ chain' = [chain EXCEPT !.open = FALSE]
      \/ UNCHANGED chain
  <2>1. ASSUME NEW k \in Nat, ReadEvents(k)
        PROVE  \E v \in BOOLEAN : chain' = [chain EXCEPT !.verified = @ /\ v]
    <3>1. PICK s : s = Continuous(SubSeq(log, k, Len(log)))
      OBVIOUS
    <3>2. s \in BOOLEAN
      BY <3>1 DEF Continuous
    <3>3. PICK v \in BOOLEAN : v = (chain.open /\ s)
      OBVIOUS
    <3>4. (chain.verified /\ chain.open /\ s) = (chain.verified /\ v)
      BY <3>3
    <3>5. chain' = [chain EXCEPT !.verified = @ /\ v]
      BY <2>1, <3>1, <3>4 DEF ReadEvents
    <3>6. QED
      BY <3>5
  <2>2. QED
    BY <2>1 DEF Close, Tick
<1>4. LogHolds'
  BY <1>1, <1>2, <1>3, FlagKeeps
<1>5. /\ MetricsHold' /\ RefusedForAReason' /\ stops' \in 0..MaxStops
      /\ proc' \in {"up", "down", "refused"} /\ faults' \in 0..(MaxFaults + stops')
  <2>1. UNCHANGED <<log, met, disk, proc, faults, stops>>
    BY <1>1
  <2>2. QED
    BY <2>1, PartsStay
<1>6. RequestsHold'
  BY <1>1, <1>2, RequestsStay
<1>7. now' \in 0..MaxTime
  BY <1>1, <1>2, GatewayAssumption DEF RestTyped, Tick
<1>8. RestTyped'
  BY <1>1, <1>2, <1>5, <1>7 DEF RestTyped
<1>9. QED
  BY <1>4, <1>5, <1>6, <1>8, PartsNext

\* The process ends: every request on its way is lost.
LEMMA StoppedRequests ==
  ASSUME GatewayHolds, Stopped
  PROVE  /\ req' \in [Requests -> Request]
         /\ \A q \in Requests :
              /\ req'[q].pc = IF req[q].pc \in Waiting THEN "lost" ELSE req[q].pc
              /\ req'[q].sealed = req[q].sealed
         /\ Onward
         /\ buckets' \in [Principals -> Bucket] /\ lastGC' \in 0..MaxTime
         /\ stops' \in 0..MaxStops /\ stops' = stops + 1 /\ proc' = "down"
         /\ now' = now /\ RefusedForAReason'
<1>1. RestTyped /\ req \in [Requests -> Request]
  BY Parts DEF RequestsHold
<1>2. ASSUME NEW q \in Requests
      PROVE  /\ req'[q] \in Request
             /\ req'[q].pc = IF req[q].pc \in Waiting THEN "lost" ELSE req[q].pc
             /\ req'[q].sealed = req[q].sealed
  <2>1. req[q] \in Request
    BY <1>1
  <2>2. req'[q] = IF req[q].pc \in Waiting THEN [req[q] EXCEPT !.pc = "lost"] ELSE req[q]
    BY DEF Stopped
  <2>3. CASE req[q].pc \in Waiting
    <3>1. req'[q] = [req[q] EXCEPT !.pc = "lost"]
      BY <2>2, <2>3
    <3>2. QED
      BY <2>1, <2>3, <3>1 DEF Request, Places
  <2>4. CASE req[q].pc \notin Waiting
    BY <2>1, <2>2, <2>4
  <2>5. QED
    BY <2>3, <2>4
<1>3. req' \in [Requests -> Request]
  <2>1. req' = [q \in Requests |-> req'[q]]
    BY DEF Stopped
  <2>2. QED
    BY <1>2, <2>1
<1>4. Onward
  BY <1>2 DEF Onward, Early, Over, Waiting
<1>5. NoBucket \in Bucket /\ 0 \in 0..MaxTime
  BY GatewayAssumption DEF NoBucket, Bucket
<1>6. buckets' \in [Principals -> Bucket] /\ lastGC' \in 0..MaxTime
  BY <1>5 DEF Stopped
<1>7. stops' \in 0..MaxStops /\ stops' = stops + 1
  BY <1>1, GatewayAssumption DEF Stopped, RestTyped
<1>8. proc' = "down" /\ now' = now /\ RefusedForAReason'
  BY DEF Stopped, RefusedForAReason
<1>9. QED
  BY <1>2, <1>3, <1>4, <1>6, <1>7, <1>8

\* What is left to show of a stop.
LEMMA StopParts ==
  ASSUME GatewayHolds, Stopped, RecordsInOrder', RecordsOfRequests',
         RecordsRemain,
         LogHolds', MetricsHold', faults' \in Nat, faults' <= faults + 1
  PROVE  GatewayHolds'
<1>1. RestTyped /\ RequestsHold
  BY Parts
<1>2. /\ req' \in [Requests -> Request]
      /\ \A q \in Requests : req'[q].sealed = req[q].sealed
      /\ buckets' \in [Principals -> Bucket] /\ lastGC' \in 0..MaxTime
      /\ stops' \in 0..MaxStops /\ stops' = stops + 1 /\ proc' = "down"
      /\ now' = now /\ RefusedForAReason'
  BY StoppedRequests
<1>3. faults' \in 0..(MaxFaults + stops')
  BY <1>1, <1>2, GatewayAssumption DEF RestTyped
<1>4. RestTyped'
  BY <1>1, <1>2, <1>3 DEF RestTyped
<1>5. ASSUME NEW q \in Requests, req'[q].sealed # "no"
      PROVE  Recorded(q, req[q].sealed)'
  BY <1>1, <1>2, <1>5, SealedRemain
<1>6. RequestsHold'
  BY <1>2, <1>5 DEF RequestsHold, ForwardedIsRecorded, Recorded
<1>7. QED
  BY <1>2, <1>4, <1>6, PartsNext

LEMMA StopsKeep ==
  ASSUME GatewayHolds,
         \/ Stop
         \/ \E r \in Requests, bytes \in {"part", "most", "all"} : StopInAppend(r, bytes)
         \/ \E r \in Requests : StopInPersist(r)
  PROVE  GatewayHolds' /\ Continued(disk, disk')
<1>1. /\ RestTyped /\ LogHolds /\ MetricsHold /\ RequestsHold /\ TypeOK
      /\ RecordsInOrder /\ RecordsOfRequests /\ faults \in Nat
  BY Parts, GatewayAssumption DEF GatewayHolds, FlagsAreHonest, RequestsHold, RestTyped
<1>2. CASE Stop
  <2>1. Stopped /\ UNCHANGED <<log, disk, faults>>
    BY <1>2 DEF Stop
  <2>2. LogHolds' /\ MetricsHold' /\ Continued(disk, disk')
    BY <1>1, <2>1, StoppedKeeps, StopKeepsMetrics
  <2>3. Onward
    BY <2>1, StoppedRequests
  <2>4. /\ RecordsInOrder' /\ RecordsOfRequests'
        /\ RecordsRemain
    BY <1>1, <2>1, <2>3, RecordsStay
  <2>5. QED
    BY <1>1, <2>1, <2>2, <2>4, StopParts
<1>3. ASSUME NEW r \in Requests, StopInPersist(r)
      PROVE  GatewayHolds' /\ Continued(disk, disk')
  <2>1. Stopped /\ UNCHANGED <<log, faults>>
    BY <1>3 DEF StopInPersist
  <2>2. LogHolds' /\ MetricsHold' /\ Continued(disk, disk')
    BY <1>1, <1>3, <2>1, StoppedKeeps, StopInPersistKeeps
  <2>3. Onward
    BY <2>1, StoppedRequests
  <2>4. /\ RecordsInOrder' /\ RecordsOfRequests'
        /\ RecordsRemain
    BY <1>1, <2>1, <2>3, RecordsStay
  <2>5. QED
    BY <1>1, <2>1, <2>2, <2>4, StopParts
<1>4. ASSUME NEW r \in Requests, NEW bytes \in {"part", "most", "all"}, StopInAppend(r, bytes)
      PROVE  GatewayHolds' /\ Continued(disk, disk')
  <2>1. /\ Stopped /\ UNCHANGED disk /\ req[r].pc \in {"preflight", "audit"}
    BY <1>4 DEF StopInAppend
  <2>2. PICK kind \in {"started", "ended"} :
          kind = (IF req[r].pc = "audit" THEN "ended" ELSE "started") /\ LineMore(r, kind)
    BY <1>1, <1>4, StopInAppendKeeps
  <2>3. LogHolds' /\ faults' \in Nat /\ faults' <= faults + 1
    BY <1>1, <1>4, StopInAppendKeeps
  <2>4. MetricsHold' /\ Continued(disk, disk')
    BY <1>1, <2>1, StopKeepsMetrics
  <2>5. Onward /\ req'[r].pc = "lost"
    BY <2>1, StoppedRequests DEF Waiting
  <2>6. \/ kind = "started" /\ req[r].pc = "preflight" /\ req'[r].pc \notin Early
        \/ kind = "ended" /\ req[r].pc = "audit" /\ req'[r].pc \in Over
    BY <2>1, <2>2, <2>5 DEF Early, Over
  <2>7. /\ RecordsInOrder' /\ RecordsOfRequests'
        /\ RecordsRemain
    BY <1>1, <2>2, <2>5, <2>6, AppendedRecords
  <2>8. QED
    BY <2>1, <2>3, <2>4, <2>7, StopParts
<1>5. QED
  BY <1>2, <1>3, <1>4

LEMMA StartHolds ==
  ASSUME GatewayHolds, NEW rotated \in PersistResults, Start(rotated)
  PROVE  GatewayHolds' /\ Continued(disk, disk')
<1>1. /\ RestTyped /\ LogHolds /\ MetricsHold /\ RequestsHold /\ TypeOK
      /\ UNCHANGED <<now, req, buckets, log, stops>>
  BY Parts DEF GatewayHolds, FlagsAreHonest, Start
<1>2. LogHolds' /\ faults' \in Nat /\ faults' <= MaxFaults + stops
  BY <1>1, StartKeeps
<1>3. MetricsHold' /\ Continued(disk, disk')
  BY <1>1, StartLoads
<1>4. RefusedForAReason'
  BY <1>1, StartRefuses DEF RefusedForAReason
<1>5. proc' \in {"up", "down", "refused"} /\ (lastGC' = lastGC \/ lastGC' = now)
  BY DEF Start
<1>6. RestTyped'
  BY <1>1, <1>2, <1>5, GatewayAssumption DEF RestTyped
<1>7. RequestsHold'
  BY <1>1, RequestsStay
<1>8. QED
  BY <1>2, <1>3, <1>4, <1>6, <1>7, PartsNext

LEMMA InitHolds ==
  ASSUME Init
  PROVE  GatewayHolds
<1>1. 0 \in 0..MaxTime /\ 0 \in 0..Burst /\ 0 \in 0..MaxStops /\ 0 \in 0..(MaxFaults + 0)
  BY GatewayAssumption
<1>2. RestTyped
  BY <1>1 DEF Init, RestTyped, NoBucket, Bucket
<1>3. LogHolds
  <2>1. <<>> \in Lines /\ Linked(<<>>) /\ Ended(<<>>) /\ LastMac(<<>>) = None
    BY DEF Lines, Linked, Ended, LastMac
  <2>2. chain \in Chain
    BY DEF Init, Chain
  <2>3. log = <<>> /\ chain.loaded = 0 /\ chain.seq = 0 /\ chain.prev = None /\ Len(log) = 0
    BY DEF Init
  <2>4. CountsItsRecords /\ VerifiedIsAChain /\ FaultlessIsAChain
    BY <2>1, <2>3 DEF CountsItsRecords, VerifiedIsAChain, FaultlessIsAChain
  <2>5. QED
    BY <2>1, <2>2, <2>3, <2>4 DEF LogHolds
<1>4. MetricsHold
  <2>1. disk \in Counters /\ Consistent(disk)
    BY <1>1, WindowEmpty DEF Init
  <2>2. met \in Metrics /\ met.saved = met.now /\ disk = met.now
    BY <2>1 DEF Init, Loaded, Metrics
  <2>3. QED
    BY <2>1, <2>2 DEF MetricsHold, FileIsSaved
<1>5. RequestsHold
  <2>1. \A q \in Requests : req[q] \in Request /\ req[q].sealed = "no"
    BY <1>1 DEF Init, Request, Places, Seals
  <2>2. req \in [Requests -> Request]
    BY <2>1 DEF Init
  <2>3. DOMAIN log = {}
    BY DEF Init
  <2>4. QED
    BY <2>1, <2>2, <2>3 DEF RequestsHold, RecordsInOrder, RecordsOfRequests, ForwardedIsRecorded
<1>6. RefusedForAReason
  BY DEF Init, RefusedForAReason
<1>7. QED
  BY <1>2, <1>3, <1>4, <1>5, <1>6, Parts

LEMMA HandleKeeps ==
  ASSUME GatewayHolds, NEW r \in Requests, Handle(r)
  PROVE  GatewayHolds' /\ Continued(disk, disk')
<1>1. disk \in Counters
  BY Parts DEF MetricsHold
<1>2. Continued(disk, disk)
  BY <1>1, CountersAreKept
<1>3. CASE Limit(r)
  <2>1. disk' = disk
    BY <1>3 DEF Limit
  <2>2. QED
    BY <1>2, <1>3, <2>1, LimitKeeps
<1>4. CASE ReadBody(r)
  <2>1. disk' = disk
    BY <1>4 DEF ReadBody
  <2>2. QED
    BY <1>2, <1>4, <2>1, ReadBodyKeeps
<1>5. CASE Forward(r)
  <2>1. disk' = disk
    BY <1>5 DEF Forward
  <2>2. QED
    BY <1>2, <1>5, <2>1, ForwardKeeps
<1>6. ASSUME NEW result \in AppendResults, Preflight(r, result)
      PROVE  GatewayHolds' /\ Continued(disk, disk')
  <2>1. disk' = disk
    BY <1>6 DEF Preflight
  <2>2. QED
    BY <1>2, <1>6, <2>1, PreflightKeeps
<1>7. ASSUME NEW result \in AppendResults, AuditEnd(r, result)
      PROVE  GatewayHolds' /\ Continued(disk, disk')
  <2>1. disk' = disk
    BY <1>7 DEF AuditEnd
  <2>2. QED
    BY <1>2, <1>7, <2>1, AuditEndKeeps
<1>8. ASSUME NEW rotated \in PersistResults, NEW saved \in PersistResults,
             RecordEnd(r, rotated, saved)
      PROVE  GatewayHolds' /\ Continued(disk, disk')
  BY <1>8, RecordEndKeeps
<1>9. QED
  BY <1>3, <1>4, <1>5, <1>6, <1>7, <1>8 DEF Handle

LEMMA NextKeeps ==
  ASSUME GatewayHolds, [Next]_vars
  PROVE  GatewayHolds' /\ Continued(disk, disk')
<1>1. /\ RestTyped /\ LogHolds /\ RequestsHold /\ disk \in Counters
  BY Parts DEF MetricsHold
<1>2. Continued(disk, disk)
  BY <1>1, CountersAreKept
<1>3. ASSUME NEW r \in Requests, Arrive(r)
      PROVE  GatewayHolds' /\ Continued(disk, disk')
  <2>1. disk' = disk
    BY <1>3 DEF Arrive
  <2>2. QED
    BY <1>2, <1>3, <2>1, ArriveKeeps
<1>4. ASSUME NEW r \in Requests, Handle(r)
      PROVE  GatewayHolds' /\ Continued(disk, disk')
  BY <1>4, HandleKeeps
<1>5. ASSUME NEW rotated \in PersistResults, Probe(rotated)
      PROVE  GatewayHolds' /\ Continued(disk, disk')
  BY <1>5, ProbeHolds
<1>6. CASE \/ \E k \in 1..(2 * Cardinality(Requests)) : ReadEvents(k)
           \/ Close \/ Tick
  <2>1. disk' = disk
    BY <1>6 DEF ReadEvents, Close, Tick
  <2>2. ASSUME NEW k \in 1..(2 * Cardinality(Requests)), ReadEvents(k)
        PROVE  \E n \in Nat : ReadEvents(n)
    <3>1. k \in Nat
      BY <1>1, <2>2 DEF ReadEvents, LogHolds, Lines
    <3>2. QED
      BY <2>2, <3>1
  <2>3. QED
    BY <1>2, <1>6, <2>1, <2>2, QuietKeeps
<1>7. CASE \/ Stop
           \/ \E r \in Requests, bytes \in {"part", "most", "all"} : StopInAppend(r, bytes)
           \/ \E r \in Requests : StopInPersist(r)
  BY <1>7, StopsKeep
<1>8. ASSUME NEW rotated \in PersistResults, Start(rotated)
      PROVE  GatewayHolds' /\ Continued(disk, disk')
  BY <1>8, StartHolds
<1>9. CASE UNCHANGED vars
  <2>1. /\ UNCHANGED <<now, buckets, lastGC>> /\ UNCHANGED <<req, log>> /\ UNCHANGED chain
        /\ UNCHANGED <<log, met, disk, proc, faults, stops>>
    BY <1>9 DEF vars
  <2>2. /\ LogHolds' /\ MetricsHold' /\ RefusedForAReason' /\ stops' \in 0..MaxStops
        /\ proc' \in {"up", "down", "refused"} /\ faults' \in 0..(MaxFaults + stops')
    BY <2>1, PartsStay
  <2>3. RequestsHold'
    BY <1>1, <2>1, RequestsStay
  <2>4. RestTyped'
    BY <1>1, <2>1, <2>2 DEF RestTyped
  <2>5. QED
    BY <1>2, <2>1, <2>2, <2>3, <2>4, PartsNext
<1>10. QED
  BY <1>3, <1>4, <1>5, <1>6, <1>7, <1>8, <1>9 DEF Next

-----------------------------------------------------------------------------
(* The theorems. *)

LEMMA GatewayAlwaysHolds == Spec => []GatewayHolds
<1>1. Init => GatewayHolds
  BY InitHolds
<1>2. GatewayHolds /\ [Next]_vars => GatewayHolds'
  BY NextKeeps
<1>3. QED
  BY <1>1, <1>2, PTL DEF Spec

\* What the gateway says of itself is so, whatever fails and whenever it stops.  While
\* the log is called verified the file is the chain that memory continues, each record
\* on its own line, except that a last record which lacked its newline when the file was
\* opened may share its line with the next; a ready gateway has a log the next start
\* takes, or that one line, and counters a restart would load; a start is refused only
\* after a failed write (audit.go, metrics.go, gateway.go).
THEOREM FlagsAreAlwaysHonest == Spec => []FlagsAreHonest
<1>1. GatewayHolds => FlagsAreHonest
  BY DEF GatewayHolds
<1>2. QED
  BY <1>1, GatewayAlwaysHolds, PTL

\* A request forwarded by a verified log keeps its started record in an unbroken chain
\* of records, on a line of its own if the file ended in a newline when it was written;
\* and no record is written twice, out of order, or before the step it is about
\* (gateway.go: Append before forward).
THEOREM RecordsStayComplete == Spec => []RecordsAreComplete
<1>1. GatewayHolds => RecordsAreComplete
  BY DEF GatewayHolds
<1>2. QED
  BY <1>1, GatewayAlwaysHolds, PTL

\* Within a window the counters in the file only grow: no request, probe, failed save,
\* stop or start takes a counted request back (metrics.go record, persistLocked, load).
THEOREM CountersOnlyGrow == Spec => CountersContinue
<1>1. GatewayHolds /\ [Next]_vars =>
        [disk'.win = disk.win =>
           \A op \in Operations, o \in Outcomes : disk'.ops[op][o] >= disk.ops[op][o]]_vars
  BY NextKeeps DEF Continued
<1>2. QED
  BY <1>1, GatewayAlwaysHolds, PTL DEF Spec, CountersContinue
-----------------------------------------------------------------------------
(* The Go agent runtime behind the gateway: its guards, for any analyses,  *)
(* models, limits and settings.                                            *)

\* What holds of one analysis r under the configuration s.
RoundsOf(s) == IF s.mode = "loop" THEN MaxRounds ELSE 1

Budgeted(s, r) ==
  /\ r.calls <= RoundsOf(s) * (MaxRetries + 1)
  /\ r.calls > 0 => r.admitted # Unset
  /\ r.pc \in {"idle", "circuit", "day", "reserve"} => r.calls = 0 /\ r.round = 1 /\ r.attempt = 0
  /\ r.pc \in {"slot", "calling"} =>
       /\ r.admitted # Unset /\ r.round <= RoundsOf(s)
       /\ r.calls <= (r.round - 1) * (MaxRetries + 1) + r.attempt
                       + (IF r.pc = "calling" THEN 1 ELSE 0)

Grounded(s, r) ==
  /\ r.pc = "accepted" =>
       /\ r.result.cites # {} /\ "invented" \notin r.result.cites
       /\ "scan" \in r.result.cites => "scan_sql" \in r.called
       /\ s.mode = "loop" => RequiredTools \subseteq r.called
       /\ s.mode = "loop" /\ r.change.blocking => r.result.risk = "HIGH"
  /\ "scan" \in r.extra => "scan_sql" \in r.called

Typed(r) ==
  /\ r \in AnalysisType
  /\ r.pc \in Running => r.change \in Changes
  /\ r.pc = "reserve" => r.day \in Days

Sound(s, r) == Typed(r) /\ Budgeted(s, r) /\ Grounded(s, r)

Calling == {a \in Analyses : an[a].pc = "calling"}

SharedTypes ==
  /\ setting \in Settings /\ clock \in 0..MaxClock
  /\ usage \in [Keys -> [Days -> Nat]]
  /\ circuit \in [failures : Nat, until : Nat]
  /\ streak \in Nat /\ slipped \in BOOLEAN

Quotas == QuotaHolds /\ QuotaIsCounted

RuntimeInv ==
  /\ SharedTypes
  /\ an \in [Analyses -> AnalysisType] /\ \A a \in Analyses : Sound(setting, an[a])
  /\ slots = Cardinality(Calling) /\ slots <= MaxSlots
  /\ Quotas
  /\ CircuitIsEarned

LEMMA RuntimeInvIs ==
  RuntimeInv <=> GuardsHold /\ AcceptedIsGrounded
<1>1. RuntimeInv => GuardsHold /\ AcceptedIsGrounded
  <2> SUFFICES ASSUME RuntimeInv PROVE GuardsHold /\ AcceptedIsGrounded
    OBVIOUS
  <2>1. RuntimeTypeOK
    BY DEF RuntimeInv, SharedTypes, Sound, Typed, Calling, RuntimeTypeOK
  <2>2. CallsAreBudgeted /\ CallsAreCounted
    BY DEF RuntimeInv, Sound, Budgeted, RoundsOf, Rounds, CallsAreBudgeted,
           CallsAreCounted
  <2>3. AcceptedIsGrounded
    BY DEF RuntimeInv, Sound, Grounded, AcceptedIsGrounded
  <2>4. QED
    BY <2>1, <2>2, <2>3 DEF RuntimeInv, Quotas, GuardsHold
<1>2. GuardsHold /\ AcceptedIsGrounded => RuntimeInv
  <2> SUFFICES ASSUME GuardsHold, AcceptedIsGrounded PROVE RuntimeInv
    OBVIOUS
  <2>1. SharedTypes /\ an \in [Analyses -> AnalysisType]
        /\ slots = Cardinality(Calling) /\ slots <= MaxSlots
    BY DEF SharedTypes, Calling, RuntimeTypeOK, GuardsHold
  <2>2. ASSUME NEW a \in Analyses
        PROVE  Sound(setting, an[a])
    <3>1. Typed(an[a])
      <4>1. an[a] \in AnalysisType
        BY <2>1
      <4>2. RuntimeTypeOK
        BY DEF GuardsHold
      <4>3. (an[a].pc \in Running => an[a].change \in Changes)
            /\ (an[a].pc = "reserve" => an[a].day \in Days)
        BY <4>2 DEF RuntimeTypeOK
      <4>4. QED
        BY <4>1, <4>3 DEF Typed
    <3>2. Budgeted(setting, an[a])
      BY DEF Budgeted, RoundsOf, Rounds, CallsAreBudgeted,
             CallsAreCounted, GuardsHold
    <3>3. Grounded(setting, an[a])
      BY DEF Grounded, AcceptedIsGrounded
    <3>4. QED
      BY <3>1, <3>2, <3>3 DEF Sound
  <2>3. QED
    BY <2>1, <2>2 DEF RuntimeInv, Quotas, GuardsHold
<1>3. QED
  BY <1>1, <1>2

-----------------------------------------------------------------------------
(* Numbers. *)

\* A number of rounds and attempts within their bounds is within the budget.
LEMMA WithinBudget ==
  ASSUME NEW rounds \in Nat, NEW retries \in Nat, NEW round \in Nat, NEW attempt \in Nat,
         round <= rounds, round >= 1, attempt <= retries
  PROVE  (round - 1) * (retries + 1) + attempt + 1 <= rounds * (retries + 1)
<1>1. PICK b \in Nat : b = retries + 1
  OBVIOUS
<1>2. PICK gap \in Nat : rounds = round + gap
  <2>1. rounds - round \in Nat /\ rounds = round + (rounds - round)
    OBVIOUS
  <2>2. QED
    BY <2>1
<1>3. PICK before \in Nat : round = before + 1
  <2>1. round - 1 \in Nat /\ round = (round - 1) + 1
    OBVIOUS
  <2>2. QED
    BY <2>1
<1>4. rounds * b = before * b + gap * b + b
  <2>1. rounds = before + gap + 1
    BY <1>2, <1>3
  <2>2. (before + gap + 1) * b = before * b + gap * b + b
    BY <1>1
  <2>3. QED
    BY <2>1, <2>2
<1>5. gap * b \in Nat /\ before * b \in Nat
  OBVIOUS
<1>6. (round - 1) * b = before * b
  BY <1>3
<1>7. (round - 1) * b + attempt + 1 <= rounds * b
  BY <1>1, <1>4, <1>5, <1>6
<1>8. QED
  BY <1>1, <1>7

\* The day of a time before the end is one of the days.
LEMMA DayOfTime ==
  ASSUME NEW t \in Nat, NEW u \in Nat, t <= u, NEW l \in Nat \ {0}
  PROVE  t \div l \in Nat /\ u \div l \in Nat /\ t \div l <= u \div l
<1>1. PICK q \in Nat, r \in Nat : t = l * q + r /\ r < l /\ q = t \div l
  <2>1. t \div l \in Nat /\ t % l \in Nat /\ t % l < l /\ t = l * (t \div l) + (t % l)
    OBVIOUS
  <2>2. QED
    BY <2>1
<1>2. PICK p \in Nat, s \in Nat : u = l * p + s /\ s < l /\ p = u \div l
  <2>1. u \div l \in Nat /\ u % l \in Nat /\ u % l < l /\ u = l * (u \div l) + (u % l)
    OBVIOUS
  <2>2. QED
    BY <2>1
<1>3. ASSUME q > p PROVE FALSE
  <2>1. PICK d \in Nat : q = p + 1 + d
    <3>1. q - p - 1 \in Nat /\ q = p + 1 + (q - p - 1)
      BY <1>3
    <3>2. QED
      BY <3>1
  <2>2. l * q = l * p + l + l * d
    <3>1. l * (p + 1 + d) = l * p + l + l * d
      OBVIOUS
    <3>2. QED
      BY <2>1, <3>1
  <2>3. l * d \in Nat /\ l * p \in Nat
    OBVIOUS
  <2>4. QED
    BY <1>1, <1>2, <2>2, <2>3
<1>4. QED
  BY <1>1, <1>2, <1>3

-----------------------------------------------------------------------------
(* One analysis moves. *)

Moves(a, n) == an' = [an EXCEPT ![a] = n] /\ setting' = setting /\ Sound(setting, n)

SlotsFollow(a, n) ==
  /\ n.pc = "calling" /\ an[a].pc # "calling" => slots' = slots + 1
  /\ n.pc # "calling" /\ an[a].pc = "calling" => slots' = slots - 1
  /\ (n.pc = "calling" <=> an[a].pc = "calling") => slots' = slots

LEMMA OthersStay ==
  ASSUME RuntimeInv, NEW a \in Analyses, NEW n, Moves(a, n)
  PROVE  /\ an' \in [Analyses -> AnalysisType]
         /\ an'[a] = n /\ n \in AnalysisType
         /\ \A x \in Analyses \ {a} : an'[x] = an[x]
         /\ \A x \in Analyses : Sound(setting, an'[x])
<1>1. n \in AnalysisType
  BY DEF Moves, Sound, Typed
<1>2. an \in [Analyses -> AnalysisType] /\ an' = [an EXCEPT ![a] = n]
      /\ \A x \in Analyses : Sound(setting, an[x])
  BY DEF RuntimeInv, Moves
<1>3. an' \in [Analyses -> AnalysisType] /\ an'[a] = n
      /\ \A x \in Analyses \ {a} : an'[x] = an[x]
  BY <1>1, <1>2
<1>4. Sound(setting, n)
  BY DEF Moves
<1>5. QED
  BY <1>1, <1>2, <1>3, <1>4

\* The slots taken are the calls under way.
LEMMA SlotsCounted ==
  ASSUME RuntimeInv, NEW a \in Analyses, NEW n, Moves(a, n),
         SlotsFollow(a, n)
  PROVE  slots' = Cardinality(Calling')
<1>1. IsFiniteSet(Analyses)
  BY RuntimeAssumption DEF RuntimeAssumption
<1>2. IsFiniteSet(Calling) /\ Calling \subseteq Analyses
  BY <1>1, FS_Subset DEF Calling
<1>3. Cardinality(Calling) \in Nat /\ slots = Cardinality(Calling)
  BY <1>2, FS_CardinalityType DEF RuntimeInv
<1>4. an'[a] = n /\ \A x \in Analyses \ {a} : an'[x] = an[x]
  BY OthersStay
<1>5. CASE n.pc = "calling" <=> an[a].pc = "calling"
  <2>1. Calling' = Calling
    BY <1>4, <1>5 DEF Calling
  <2>2. QED
    BY <1>3, <1>5, <2>1 DEF SlotsFollow
<1>6. CASE n.pc = "calling" /\ an[a].pc # "calling"
  <2>1. Calling' = Calling \cup {a} /\ a \notin Calling
    BY <1>4, <1>6 DEF Calling
  <2>2. Cardinality(Calling') = Cardinality(Calling) + 1
    BY <1>2, <2>1, FS_AddElement
  <2>3. QED
    BY <1>3, <1>6, <2>2 DEF SlotsFollow
<1>7. CASE n.pc # "calling" /\ an[a].pc = "calling"
  <2>1. Calling' = Calling \ {a} /\ a \in Calling
    BY <1>4, <1>7 DEF Calling
  <2>2. Cardinality(Calling') = Cardinality(Calling) - 1
    BY <1>2, <2>1, FS_RemoveElement
  <2>3. QED
    BY <1>3, <1>7, <2>2 DEF SlotsFollow
<1>8. QED
  BY <1>5, <1>6, <1>7

LEMMA FewAdmitted ==
  ASSUME NEW k, NEW d
  PROVE  /\ IsFiniteSet(Admitted(k, d))
         /\ Cardinality(Admitted(k, d)) \in Nat
         /\ Cardinality(Admitted(k, d)) \in Nat
<1>1. IsFiniteSet(Analyses)
  BY RuntimeAssumption DEF RuntimeAssumption
<1>2. IsFiniteSet(Admitted(k, d))
  BY <1>1, FS_Subset DEF Admitted
<1>3. QED
  BY <1>2, FS_CardinalityType

\* A move that admits nobody, with counts that do not fall, keeps the quotas.
LEMMA QuotasKept ==
  ASSUME RuntimeInv, SharedTypes', NEW a \in Analyses, NEW n, Moves(a, n),
         n.admitted = an[a].admitted, slipped' = slipped,
         \A k \in Keys, d \in Days : usage'[k][d] >= usage[k][d]
  PROVE  Quotas'
<1>1. an'[a] = n /\ \A x \in Analyses \ {a} : an'[x] = an[x]
  BY OthersStay
<1>2. \A x \in Analyses : an'[x].admitted = an[x].admitted
  BY <1>1
<1>3. \A k, d : Admitted(k, d)' = Admitted(k, d)
  BY <1>2 DEF Admitted, KeysOf
<1>4. \A k, d : Cardinality(Admitted(k, d))'
                  = Cardinality(Admitted(k, d))
  BY <1>3
<1>5. setting' = setting
  BY DEF Moves
<1>6. QuotaHolds'
  BY <1>4, <1>5 DEF RuntimeInv, Quotas, QuotaHolds, LimitOf, Keys, Days
<1>7. QuotaIsCounted'
  <2> SUFFICES ASSUME setting.backend = "redis" \/ ~slipped,
                      NEW d \in Days, NEW k \in Keys
               PROVE  \/ Cardinality(Admitted(k, d)) <= usage'[k][d]
                      \/ /\ setting.backend = "memory"
                         /\ \E y \in Days : y > d /\ usage'[k][y] > 0
    BY <1>4, <1>5 DEF QuotaIsCounted, Keys, Days
  <2>1. \A y \in Days : usage[k][y] \in Nat /\ usage'[k][y] \in Nat
    <3>1. usage' \in [Keys -> [Days -> Nat]]
      BY DEF SharedTypes, Keys, Days
    <3>2. usage \in [Keys -> [Days -> Nat]]
      BY DEF RuntimeInv, SharedTypes
    <3>3. QED
      BY <3>1, <3>2
  <2>2. \/ Cardinality(Admitted(k, d)) <= usage[k][d]
        \/ /\ setting.backend = "memory"
           /\ \E y \in Days : y > d /\ usage[k][y] > 0
    BY DEF RuntimeInv, Quotas, QuotaIsCounted
  <2>3. Cardinality(Admitted(k, d)) \in Nat
    BY FewAdmitted
  <2>4. QED
    BY <2>1, <2>2, <2>3
<1>8. QED
  BY <1>6, <1>7 DEF Quotas

LEMMA Preserved ==
  ASSUME RuntimeInv, NEW a \in Analyses, NEW n, Moves(a, n),
         SlotsFollow(a, n), slots' <= MaxSlots, SharedTypes', Quotas', CircuitIsEarned'
  PROVE  RuntimeInv'
<1>1. slots' = Cardinality(Calling')
  BY SlotsCounted
<1>2. an' \in [Analyses -> AnalysisType] /\ \A x \in Analyses : Sound(setting, an'[x])
  BY OthersStay
<1>3. setting' = setting
  BY DEF Moves
<1>4. an' \in [Analyses -> AnalysisType']
  BY <1>2 DEF AnalysisType, Running, Days, Tools,
              RequiredTools, ResultType, Risks, EvidenceIds
<1>5. \A x \in Analyses : Sound(setting', an'[x])
  BY <1>2, <1>3
<1>6. QED
  BY <1>1, <1>4, <1>5 DEF RuntimeInv

\* A move that touches no count.
LEMMA QuietMove ==
  ASSUME RuntimeInv, NEW a \in Analyses, NEW n, Moves(a, n),
         n.admitted = an[a].admitted, SlotsFollow(a, n), slots' <= MaxSlots,
         UNCHANGED <<usage, slipped>>, SharedTypes', CircuitIsEarned'
  PROVE  RuntimeInv'
<1>1. usage \in [Keys -> [Days -> Nat]]
  BY DEF RuntimeInv, SharedTypes
<1>2. \A k \in Keys, d \in Days : usage'[k][d] >= usage[k][d]
  BY <1>1
<1>3. Quotas'
  BY <1>2, QuotasKept
<1>4. QED
  BY <1>3, Preserved

\* Nor the clock or the circuit.
LEMMA QuieterMove ==
  ASSUME RuntimeInv, NEW a \in Analyses, NEW n, Moves(a, n),
         n.admitted = an[a].admitted, SlotsFollow(a, n), slots' <= MaxSlots,
         UNCHANGED <<clock, usage, circuit, streak, slipped>>
  PROVE  RuntimeInv'
<1>1. setting' = setting
  BY DEF Moves
<1>2. SharedTypes'
  BY <1>1 DEF RuntimeInv, SharedTypes, Keys, Days
<1>3. CircuitIsEarned'
  BY <1>1 DEF RuntimeInv, CircuitIsEarned
<1>4. QED
  BY <1>2, <1>3, QuietMove

LEMMA Shapes ==
  ASSUME RuntimeInv
  PROVE  /\ setting \in SettingType
         /\ RoundsOf(setting) \in Nat \ {0} /\ MaxRetries \in Nat /\ Unset \notin Nat
         /\ slots \in Nat /\ clock \in Nat
         /\ \A a \in Analyses : /\ an[a] \in AnalysisType /\ Typed(an[a])
                                /\ Budgeted(setting, an[a]) /\ Grounded(setting, an[a])
         /\ \A c \in Changes : c \in ChangeType
<1>1. setting \in SettingType
  BY RuntimeAssumption DEF RuntimeAssumption, RuntimeInv, SharedTypes
<1>2. RoundsOf(setting) \in Nat \ {0} /\ MaxRetries \in Nat /\ Unset \notin Nat
  BY RuntimeAssumption DEF RuntimeAssumption, RoundsOf
<1>3. slots \in Nat
  <2>1. IsFiniteSet(Analyses)
    BY RuntimeAssumption DEF RuntimeAssumption
  <2>2. IsFiniteSet(Calling)
    BY <2>1, FS_Subset DEF Calling
  <2>3. QED
    BY <2>2, FS_CardinalityType DEF RuntimeInv
<1>4. clock \in Nat
  BY RuntimeAssumption DEF RuntimeInv, SharedTypes
<1>5. \A a \in Analyses : /\ an[a] \in AnalysisType /\ Typed(an[a])
                          /\ Budgeted(setting, an[a]) /\ Grounded(setting, an[a])
  BY DEF RuntimeInv, Sound, Typed
<1>6. \A c \in Changes : c \in ChangeType
  BY RuntimeAssumption DEF RuntimeAssumption
<1>7. QED
  BY <1>1, <1>2, <1>3, <1>4, <1>5, <1>6

\* What the fallback returns is a result.
LEMMA FallbackShape ==
  ASSUME NEW c \in ChangeType
  PROVE  Fallback(c) \in ResultType
<1>1. c.known \in SUBSET {"finding"} /\ c.risk \in Risks
  BY DEF ChangeType
<1>2. FallbackRisk(c) \in Risks
  BY <1>1 DEF FallbackRisk, Risks
<1>3. QED
  BY <1>1, <1>2 DEF Fallback, ResultType, EvidenceIds

\* An analysis that ends is sound, and stays on the days it was let through.
LEMMA FinishMoves ==
  ASSUME RuntimeInv, NEW a \in Analyses,
         NEW result \in ResultType, Finish(a, result), setting' = setting
  PROVE  \E n : Moves(a, n) /\ n.pc = "done" /\ n.admitted = an[a].admitted
<1>1. PICK day : day = an[a].admitted
  OBVIOUS
<1>2. day \in Days \cup {Unset}
  BY <1>1, Shapes DEF AnalysisType
<1>3. PICK n : n = [Fresh EXCEPT !.pc = "done", !.admitted = day, !.result = result]
  OBVIOUS
<1>4. n = [pc |-> "done", change |-> Unset, day |-> Unset, admitted |-> day,
           round |-> 1, attempt |-> 0, called |-> {}, extra |-> {}, calls |-> 0,
           cancelled |-> FALSE, result |-> result]
  BY <1>3 DEF Fresh
<1>5. 1 \in 1..(MaxRounds + 1) /\ 0 \in 0..MaxRetries
  BY RuntimeAssumption DEF RuntimeAssumption
<1>6. n \in AnalysisType
  BY <1>2, <1>4, <1>5 DEF AnalysisType
<1>7. Typed(n)
  BY <1>4, <1>6 DEF Typed, Running
<1>8. 0 <= RoundsOf(setting) * (MaxRetries + 1)
  <2>1. RoundsOf(setting) * (MaxRetries + 1) \in Nat
    BY Shapes
  <2>2. QED
    BY <2>1
<1>9. Budgeted(setting, n)
  BY <1>4, <1>8 DEF Budgeted
<1>10. Grounded(setting, n)
  BY <1>4 DEF Grounded
<1>11. an' = [an EXCEPT ![a] = n]
  BY <1>1, <1>3 DEF Finish
<1>12. Moves(a, n)
  BY <1>7, <1>9, <1>10, <1>11 DEF Moves, Sound
<1>13. n.pc = "done" /\ n.admitted = an[a].admitted
  BY <1>1, <1>4
<1>14. QED
  BY <1>12, <1>13

\* An analysis that ends outside a call, with the rest untouched.
LEMMA FinishPreserves ==
  ASSUME RuntimeInv, NEW a \in Analyses,
         NEW result \in ResultType, Finish(a, result),
         an[a].pc # "calling", UNCHANGED <<setting, clock, usage, slots, slipped>>,
         SharedTypes', CircuitIsEarned'
  PROVE  RuntimeInv'
<1>1. PICK n : Moves(a, n) /\ n.pc = "done" /\ n.admitted = an[a].admitted
  BY FinishMoves
<1>2. SlotsFollow(a, n)
  BY <1>1 DEF SlotsFollow
<1>3. slots' <= MaxSlots
  BY DEF RuntimeInv
<1>4. QED
  BY <1>1, <1>2, <1>3, QuietMove

LEMMA SharedStays ==
  ASSUME RuntimeInv, UNCHANGED <<setting, clock, usage, circuit, streak, slipped>>
  PROVE  SharedTypes' /\ CircuitIsEarned'
BY DEF RuntimeInv, SharedTypes, CircuitIsEarned, Keys, Days

LEMMA BeginPreserves ==
  ASSUME RuntimeInv, NEW a \in Analyses, NEW c \in Changes,
         Begin(a, c)
  PROVE  RuntimeInv'
<1>1. an[a].pc = "idle" /\ UNCHANGED <<setting, clock, usage, slots, circuit, streak, slipped>>
      /\ \/ an' = [an EXCEPT ![a] = [@ EXCEPT !.pc = "circuit", !.change = c]]
         \/ Finish(a, Fallback(c))
  BY DEF Begin
<1>2. CASE Finish(a, Fallback(c))
  <2>1. Fallback(c) \in ResultType
    BY Shapes, FallbackShape
  <2>2. SharedTypes' /\ CircuitIsEarned'
    BY <1>1, SharedStays
  <2>3. QED
    BY <1>1, <1>2, <2>1, <2>2, FinishPreserves
<1>3. CASE an' = [an EXCEPT ![a] = [@ EXCEPT !.pc = "circuit", !.change = c]]
  <2>1. PICK r : r = an[a]
    OBVIOUS
  <2>2. PICK n : n = [r EXCEPT !.pc = "circuit", !.change = c]
    OBVIOUS
  <2>3. r \in AnalysisType /\ Budgeted(setting, r) /\ Grounded(setting, r) /\ r.pc = "idle"
    BY <1>1, <2>1, Shapes
  <2>4. n \in AnalysisType /\ n.pc = "circuit" /\ n.change = c /\ n.admitted = r.admitted
        /\ n.calls = r.calls /\ n.round = r.round /\ n.attempt = r.attempt
        /\ n.extra = r.extra /\ n.called = r.called
    BY <2>2, <2>3 DEF AnalysisType, Running
  <2>5. Typed(n)
    BY <2>4 DEF Typed
  <2>6. Budgeted(setting, n)
    BY <2>3, <2>4 DEF Budgeted
  <2>7. Grounded(setting, n)
    BY <2>3, <2>4 DEF Grounded
  <2>8. Moves(a, n)
    BY <1>1, <1>3, <2>1, <2>2, <2>5, <2>6, <2>7 DEF Moves, Sound
  <2>9. SlotsFollow(a, n) /\ slots' <= MaxSlots
    BY <1>1, <2>1, <2>3, <2>4 DEF SlotsFollow, RuntimeInv
  <2>10. QED
    BY <1>1, <2>1, <2>4, <2>8, <2>9, QuieterMove
<1>4. QED
  BY <1>1, <1>2, <1>3

LEMMA AllowPreserves ==
  ASSUME RuntimeInv, NEW a \in Analyses, AllowModelCall(a)
  PROVE  RuntimeInv'
<1>1. an[a].pc = "circuit" /\ UNCHANGED <<setting, clock, usage, slots, streak, slipped>>
  BY DEF AllowModelCall
<1>2. circuit' = circuit \/ circuit' = [failures |-> 0, until |-> 0]
  BY DEF AllowModelCall
<1>3. SharedTypes'
  BY <1>1, <1>2 DEF RuntimeInv, SharedTypes, Keys, Days
<1>4. CircuitIsEarned'
  <2>1. streak \in Nat
    BY DEF RuntimeInv, SharedTypes
  <2>2. QED
    BY <1>1, <1>2, <2>1 DEF RuntimeInv, CircuitIsEarned
<1>5. CASE Finish(a, Fallback(an[a].change))
  <2>1. an[a].change \in Changes
    BY <1>1, Shapes DEF Typed, Running
  <2>2. Fallback(an[a].change) \in ResultType
    BY <2>1, Shapes, FallbackShape
  <2>3. QED
    BY <1>1, <1>3, <1>4, <1>5, <2>2, FinishPreserves
<1>6. CASE Step(a, "day")
  <2>1. PICK r : r = an[a]
    OBVIOUS
  <2>2. PICK n : n = [r EXCEPT !.pc = "day"]
    OBVIOUS
  <2>3. /\ r \in AnalysisType /\ Typed(r) /\ Budgeted(setting, r) /\ Grounded(setting, r)
        /\ r.pc = "circuit"
    BY <1>1, <2>1, Shapes
  <2>4. n \in AnalysisType /\ n.pc = "day" /\ n.change = r.change /\ n.admitted = r.admitted
        /\ n.calls = r.calls /\ n.round = r.round /\ n.attempt = r.attempt
        /\ n.extra = r.extra /\ n.called = r.called
    BY <2>2, <2>3 DEF AnalysisType, Running
  <2>5. Typed(n)
    BY <2>3, <2>4 DEF Typed, Running
  <2>6. Budgeted(setting, n)
    BY <2>3, <2>4 DEF Budgeted
  <2>7. Grounded(setting, n)
    BY <2>3, <2>4 DEF Grounded
  <2>8. Moves(a, n)
    BY <1>1, <1>6, <2>1, <2>2, <2>5, <2>6, <2>7 DEF Moves, Sound, Step
  <2>9. SlotsFollow(a, n) /\ slots' <= MaxSlots
    BY <1>1, <2>1, <2>3, <2>4 DEF SlotsFollow, RuntimeInv
  <2>10. QED
    BY <1>1, <1>3, <1>4, <2>1, <2>4, <2>8, <2>9, QuietMove
<1>7. QED
  BY <1>5, <1>6 DEF AllowModelCall

LEMMA TodayIsADay ==
  ASSUME RuntimeInv
  PROVE  Today \in Days
<1>1. clock \in Nat /\ MaxClock \in Nat /\ clock <= MaxClock /\ DayLength \in Nat \ {0}
  BY RuntimeAssumption DEF RuntimeAssumption, RuntimeInv, SharedTypes
<1>2. clock \div DayLength \in Nat /\ MaxClock \div DayLength \in Nat
      /\ clock \div DayLength <= MaxClock \div DayLength
  BY <1>1, DayOfTime
<1>3. QED
  BY <1>2 DEF Today, Days

LEMMA ReadDayPreserves ==
  ASSUME RuntimeInv, NEW a \in Analyses, ReadDay(a)
  PROVE  RuntimeInv'
<1>1. PICK r : r = an[a]
  OBVIOUS
<1>2. PICK n : n = [r EXCEPT !.pc = "reserve", !.day = Today]
  OBVIOUS
<1>3. /\ r \in AnalysisType /\ Typed(r) /\ Budgeted(setting, r) /\ Grounded(setting, r)
      /\ r.pc = "day" /\ UNCHANGED <<setting, clock, usage, slots, circuit, streak, slipped>>
      /\ an' = [an EXCEPT ![a] = n]
  BY <1>1, <1>2, Shapes DEF ReadDay
<1>4. PICK today \in Days : today = Today
  BY TodayIsADay
<1>5. n \in AnalysisType /\ n.pc = "reserve" /\ n.change = r.change /\ n.admitted = r.admitted
      /\ n.calls = r.calls /\ n.round = r.round /\ n.attempt = r.attempt
      /\ n.extra = r.extra /\ n.called = r.called /\ n.day \in Days
  <2>1. n = [r EXCEPT !.pc = "reserve", !.day = today]
    BY <1>2, <1>4
  <2>2. QED
    BY <1>3, <1>4, <2>1 DEF AnalysisType, Running
<1>6. Typed(n)
  BY <1>3, <1>5 DEF Typed, Running
<1>7. Budgeted(setting, n)
  BY <1>3, <1>5 DEF Budgeted
<1>8. Grounded(setting, n)
  BY <1>3, <1>5 DEF Grounded
<1>9. Moves(a, n)
  BY <1>3, <1>6, <1>7, <1>8 DEF Moves, Sound
<1>10. SlotsFollow(a, n) /\ slots' <= MaxSlots
  BY <1>1, <1>3, <1>5 DEF SlotsFollow, RuntimeInv
<1>11. QED
  BY <1>1, <1>3, <1>5, <1>9, <1>10, QuieterMove

\* A conversation that ends without a verdict.
LEMMA FailedMoves ==
  ASSUME RuntimeInv, NEW a \in Analyses,
         an[a].pc \in {"slot", "calling"}, Step(a, "failed"), setting' = setting
  PROVE  \E n : Moves(a, n) /\ n.pc = "failed" /\ n.admitted = an[a].admitted
<1>1. PICK r : r = an[a]
  OBVIOUS
<1>2. PICK n : n = [r EXCEPT !.pc = "failed"]
  OBVIOUS
<1>3. r \in AnalysisType /\ Typed(r) /\ Budgeted(setting, r) /\ Grounded(setting, r)
      /\ r.pc \in {"slot", "calling"}
  BY <1>1, Shapes
<1>4. n \in AnalysisType /\ n.pc = "failed" /\ n.change = r.change /\ n.admitted = r.admitted
      /\ n.calls = r.calls /\ n.extra = r.extra /\ n.called = r.called
  BY <1>2, <1>3 DEF AnalysisType, Running
<1>5. Typed(n)
  BY <1>3, <1>4 DEF Typed, Running
<1>6. Budgeted(setting, n)
  BY <1>3, <1>4 DEF Budgeted
<1>7. Grounded(setting, n)
  BY <1>3, <1>4 DEF Grounded
<1>8. Moves(a, n)
  BY <1>1, <1>2, <1>5, <1>6, <1>7 DEF Moves, Sound, Step
<1>9. n.pc = "failed" /\ n.admitted = an[a].admitted
  BY <1>1, <1>4
<1>10. QED
  BY <1>8, <1>9

LEMMA FailedPreserves ==
  ASSUME RuntimeInv, NEW a \in Analyses,
         an[a].pc \in {"slot", "calling"}, Step(a, "failed"),
         slots' = IF an[a].pc = "calling" THEN slots - 1 ELSE slots,
         UNCHANGED <<setting, clock, usage, circuit, streak, slipped>>
  PROVE  RuntimeInv'
<1>1. PICK n : Moves(a, n) /\ n.pc = "failed" /\ n.admitted = an[a].admitted
  BY FailedMoves
<1>2. SlotsFollow(a, n)
  BY <1>1 DEF SlotsFollow
<1>3. slots' <= MaxSlots
  <2>1. slots \in Nat /\ slots <= MaxSlots /\ MaxSlots \in Nat
    BY Shapes, RuntimeAssumption DEF RuntimeInv, RuntimeAssumption
  <2>2. QED
    BY <2>1
<1>4. QED
  BY <1>1, <1>2, <1>3, QuieterMove

LEMMA CallPreserves ==
  ASSUME RuntimeInv, NEW a \in Analyses, NEW to \in {"failed", "calling"},
         an[a].pc = "slot", slots < MaxSlots, CallModel(a, to),
         slots' = IF to = "calling" THEN slots + 1 ELSE slots,
         UNCHANGED <<setting, clock, usage, circuit, streak, slipped>>
  PROVE  RuntimeInv'
<1>1. PICK r : r = an[a]
  OBVIOUS
<1>2. /\ r \in AnalysisType /\ Typed(r) /\ Budgeted(setting, r) /\ Grounded(setting, r)
      /\ r.pc = "slot"
  BY <1>1, Shapes
<1>3. PICK calls \in Nat : calls = r.calls + 1
  BY <1>2 DEF AnalysisType
<1>4. PICK n : n = [r EXCEPT !.pc = to, !.calls = calls]
  OBVIOUS
<1>5. an' = [an EXCEPT ![a] = n]
  <2>1. an' = [an EXCEPT ![a] = [an[a] EXCEPT !.pc = to, !.calls = an[a].calls + 1]]
    BY DEF CallModel
  <2>2. QED
    BY <1>1, <1>3, <1>4, <2>1
<1>6. n \in AnalysisType /\ n.pc = to /\ n.change = r.change /\ n.admitted = r.admitted
      /\ n.calls = calls /\ n.round = r.round /\ n.attempt = r.attempt
      /\ n.extra = r.extra /\ n.called = r.called
  BY <1>2, <1>4 DEF AnalysisType, Running
<1>7. Typed(n)
  BY <1>2, <1>6 DEF Typed, Running
<1>8. Budgeted(setting, n)
  <2>1. r.round \in Nat /\ r.round >= 1 /\ r.attempt \in Nat /\ r.attempt <= MaxRetries
        /\ r.calls \in Nat
    BY <1>2, Shapes, RuntimeAssumption DEF AnalysisType, RuntimeAssumption
  <2>2. /\ r.admitted # Unset /\ r.round <= RoundsOf(setting)
        /\ r.calls <= (r.round - 1) * (MaxRetries + 1) + r.attempt + 0
    BY <1>2 DEF Budgeted
  <2>3. PICK spent \in Nat : spent = (r.round - 1) * (MaxRetries + 1)
    <3>1. r.round - 1 \in Nat /\ MaxRetries + 1 \in Nat
      BY <2>1, Shapes
    <3>2. QED
      BY <3>1
  <2>4. calls <= (r.round - 1) * (MaxRetries + 1) + r.attempt + 1
    BY <1>3, <2>1, <2>2, <2>3
  <2>5. spent + r.attempt + 1 <= RoundsOf(setting) * (MaxRetries + 1)
    BY <2>1, <2>2, <2>3, Shapes, WithinBudget
  <2>6. calls <= RoundsOf(setting) * (MaxRetries + 1)
    <3>1. RoundsOf(setting) * (MaxRetries + 1) \in Nat
      BY Shapes
    <3>2. QED
      BY <1>3, <2>1, <2>3, <2>4, <2>5, <3>1
  <2>7. QED
    BY <1>6, <2>2, <2>4, <2>6 DEF Budgeted
<1>9. Grounded(setting, n)
  BY <1>2, <1>6 DEF Grounded
<1>10. Moves(a, n)
  BY <1>5, <1>7, <1>8, <1>9 DEF Moves, Sound
<1>11. SlotsFollow(a, n) /\ slots' <= MaxSlots
  <2>1. slots \in Nat /\ MaxSlots \in Nat
    BY Shapes, RuntimeAssumption DEF RuntimeAssumption
  <2>2. QED
    BY <1>1, <1>2, <1>6, <2>1 DEF SlotsFollow
<1>12. QED
  BY <1>1, <1>6, <1>10, <1>11, QuieterMove

LEMMA TakeSlotPreserves ==
  ASSUME RuntimeInv, NEW a \in Analyses, TakeSlot(a)
  PROVE  RuntimeInv'
<1>1. an[a].pc = "slot" /\ UNCHANGED <<setting, clock, usage, circuit, streak, slipped>>
  BY DEF TakeSlot
<1>2. CASE Step(a, "failed") /\ UNCHANGED slots
  BY <1>1, <1>2, FailedPreserves
<1>3. CASE slots < MaxSlots /\ CallModel(a, "failed") /\ UNCHANGED slots
  BY <1>1, <1>3, CallPreserves
<1>4. CASE slots < MaxSlots /\ CallModel(a, "calling") /\ slots' = slots + 1
  BY <1>1, <1>4, CallPreserves
<1>5. QED
  BY <1>2, <1>3, <1>4 DEF TakeSlot

LEMMA ModelFailsPreserves ==
  ASSUME RuntimeInv, NEW a \in Analyses, NEW retryable \in BOOLEAN,
         ModelFails(a, retryable)
  PROVE  RuntimeInv'
<1>1. an[a].pc = "calling" /\ UNCHANGED <<setting, clock, usage, circuit, streak, slipped>>
      /\ slots' = slots - 1
  BY DEF ModelFails
<1>2. CASE ~(retryable /\ ~an[a].cancelled /\ an[a].attempt < MaxRetries)
  <2>1. Step(a, "failed")
    BY <1>2 DEF ModelFails
  <2>2. QED
    BY <1>1, <2>1, FailedPreserves
<1>3. CASE retryable /\ ~an[a].cancelled /\ an[a].attempt < MaxRetries
  <2>1. PICK r : r = an[a]
    OBVIOUS
  <2>2. /\ r \in AnalysisType /\ Typed(r) /\ Budgeted(setting, r) /\ Grounded(setting, r)
        /\ r.pc = "calling" /\ r.attempt < MaxRetries
    BY <1>1, <1>3, <2>1, Shapes
  <2>3. r.attempt \in Nat /\ r.calls \in Nat /\ r.round \in Nat /\ r.round >= 1 /\ MaxRetries \in Nat
    BY <2>2, Shapes, RuntimeAssumption DEF AnalysisType, RuntimeAssumption
  <2>4. PICK attempt \in 0..MaxRetries : attempt = r.attempt + 1
    BY <2>2, <2>3
  <2>5. PICK n : n = [r EXCEPT !.pc = "slot", !.attempt = attempt]
    OBVIOUS
  <2>6. an' = [an EXCEPT ![a] = n]
    <3>1. an' = [an EXCEPT ![a] = [an[a] EXCEPT !.pc = "slot", !.attempt = an[a].attempt + 1]]
      BY <1>3 DEF ModelFails
    <3>2. QED
      BY <2>1, <2>4, <2>5, <3>1
  <2>7. n \in AnalysisType /\ n.pc = "slot" /\ n.change = r.change /\ n.admitted = r.admitted
        /\ n.calls = r.calls /\ n.round = r.round /\ n.attempt = attempt
        /\ n.extra = r.extra /\ n.called = r.called
    BY <2>2, <2>5 DEF AnalysisType, Running
  <2>8. Typed(n)
    BY <2>2, <2>7 DEF Typed, Running
  <2>9. Budgeted(setting, n)
    <3>1. /\ r.admitted # Unset /\ r.round <= RoundsOf(setting)
          /\ r.calls <= RoundsOf(setting) * (MaxRetries + 1)
          /\ r.calls <= (r.round - 1) * (MaxRetries + 1) + r.attempt + 1
      BY <2>2 DEF Budgeted
    <3>2. (r.round - 1) * (MaxRetries + 1) \in Nat
      <4>1. r.round - 1 \in Nat /\ MaxRetries + 1 \in Nat
        BY <2>3
      <4>2. QED
        BY <4>1
    <3>3. r.calls <= (r.round - 1) * (MaxRetries + 1) + attempt + 0
      BY <2>3, <2>4, <3>1, <3>2
    <3>4. QED
      BY <2>7, <3>1, <3>3 DEF Budgeted
  <2>10. Grounded(setting, n)
    BY <2>2, <2>7 DEF Grounded
  <2>11. Moves(a, n)
    BY <1>1, <2>6, <2>8, <2>9, <2>10 DEF Moves, Sound
  <2>12. SlotsFollow(a, n) /\ slots' <= MaxSlots
    <3>1. slots \in Nat /\ MaxSlots \in Nat /\ slots <= MaxSlots
      BY Shapes, RuntimeAssumption DEF RuntimeInv, RuntimeAssumption
    <3>2. QED
      BY <1>1, <2>1, <2>2, <2>7, <3>1 DEF SlotsFollow
  <2>13. QED
    BY <1>1, <2>1, <2>7, <2>11, <2>12, QuieterMove
<1>4. QED
  BY <1>2, <1>3

LEMMA ModelCallsToolsPreserves ==
  ASSUME RuntimeInv, NEW a \in Analyses,
         NEW ran \in SUBSET Tools, ModelCallsTools(a, ran)
  PROVE  RuntimeInv'
<1>1. PICK r : r = an[a]
  OBVIOUS
<1>2. /\ r \in AnalysisType /\ Typed(r) /\ Budgeted(setting, r) /\ Grounded(setting, r)
      /\ r.pc = "calling" /\ setting.mode = "loop" /\ slots' = slots - 1
      /\ UNCHANGED <<setting, clock, usage, circuit, streak, slipped>>
  BY <1>1, Shapes DEF ModelCallsTools
<1>3. /\ r.attempt \in Nat /\ r.attempt <= MaxRetries /\ r.calls \in Nat /\ r.round \in Nat
      /\ r.round >= 1 /\ MaxRetries \in Nat /\ MaxRounds \in Nat
      /\ r.called \in SUBSET Tools /\ r.extra \in SUBSET {"scan"}
  BY <1>2, Shapes, RuntimeAssumption DEF AnalysisType, RuntimeAssumption
<1>4. RoundsOf(setting) = MaxRounds
  BY <1>2 DEF RoundsOf
<1>5. /\ r.admitted # Unset /\ r.round <= MaxRounds
      /\ r.calls <= MaxRounds * (MaxRetries + 1)
      /\ r.calls <= (r.round - 1) * (MaxRetries + 1) + r.attempt + 1
  BY <1>2, <1>4 DEF Budgeted
<1>6. PICK called \in SUBSET Tools : called = r.called \cup ran
  BY <1>3
<1>7. PICK extra \in SUBSET {"scan"} :
        extra = r.extra \cup (IF "scan_sql" \in ran /\ r.change.sql THEN {"scan"} ELSE {})
  <2>1. r.extra \cup (IF "scan_sql" \in ran /\ r.change.sql THEN {"scan"} ELSE {}) \in SUBSET {"scan"}
    BY <1>3
  <2>2. QED
    BY <2>1
<1>8. PICK round \in 1..(MaxRounds + 1) : round = r.round + 1
  BY <1>3, <1>5
<1>9. PICK pc \in {"slot", "failed"} :
        pc = IF r.round < MaxRounds /\ ~r.cancelled THEN "slot" ELSE "failed"
  <2>1. (IF r.round < MaxRounds /\ ~r.cancelled THEN "slot" ELSE "failed") \in {"slot", "failed"}
    OBVIOUS
  <2>2. QED
    BY <2>1
<1>10. PICK n : n = [r EXCEPT !.called = called, !.extra = extra, !.round = round, !.attempt = 0,
                              !.pc = pc]
  OBVIOUS
<1>11. an' = [an EXCEPT ![a] = n]
  <2>1. an' = [an EXCEPT ![a] = [an[a] EXCEPT
                 !.called = an[a].called \cup ran,
                 !.extra = an[a].extra \cup (IF "scan_sql" \in ran /\ an[a].change.sql
                                             THEN {"scan"} ELSE {}),
                 !.round = an[a].round + 1, !.attempt = 0,
                 !.pc = IF an[a].round < MaxRounds /\ ~an[a].cancelled THEN "slot" ELSE "failed"]]
    BY DEF ModelCallsTools
  <2>2. QED
    BY <1>1, <1>6, <1>7, <1>8, <1>9, <1>10, <2>1
<1>12. n \in AnalysisType /\ n.pc = pc /\ n.change = r.change /\ n.admitted = r.admitted
       /\ n.calls = r.calls /\ n.round = round /\ n.attempt = 0
       /\ n.extra = extra /\ n.called = called
  <2>1. 0 \in 0..MaxRetries
    BY <1>3
  <2>2. pc \in Running \cup {"idle", "done"}
    BY DEF Running
  <2>3. QED
    BY <1>2, <1>10, <2>1, <2>2 DEF AnalysisType
<1>13. Typed(n)
  BY <1>2, <1>12 DEF Typed, Running
<1>14. Budgeted(setting, n)
  <2>1. PICK spent \in Nat : spent = (r.round - 1) * (MaxRetries + 1)
    <3>1. r.round - 1 \in Nat /\ MaxRetries + 1 \in Nat
      BY <1>3
    <3>2. QED
      BY <3>1
  <2>2. (round - 1) * (MaxRetries + 1) = spent + MaxRetries + 1
    <3>1. round - 1 = (r.round - 1) + 1 /\ r.round - 1 \in Nat
      BY <1>3, <1>8
    <3>2. ((r.round - 1) + 1) * (MaxRetries + 1) = (r.round - 1) * (MaxRetries + 1) + (MaxRetries + 1)
      BY <1>3, <3>1
    <3>3. QED
      BY <1>3, <2>1, <3>1, <3>2
  <2>3. r.calls <= (round - 1) * (MaxRetries + 1) + 0 + 0
    BY <1>3, <1>5, <2>1, <2>2
  <2>4. pc = "slot" => round <= MaxRounds
    BY <1>3, <1>8, <1>9
  <2>5. QED
    BY <1>4, <1>5, <1>12, <2>3, <2>4 DEF Budgeted
<1>15. Grounded(setting, n)
  <2>1. "scan" \in r.extra => "scan_sql" \in r.called
    BY <1>2 DEF Grounded
  <2>2. "scan" \in extra => "scan_sql" \in called
    BY <1>6, <1>7, <2>1
  <2>3. QED
    BY <1>12, <2>2 DEF Grounded
<1>16. Moves(a, n)
  BY <1>2, <1>11, <1>13, <1>14, <1>15 DEF Moves, Sound
<1>17. SlotsFollow(a, n) /\ slots' <= MaxSlots
  <2>1. slots \in Nat /\ MaxSlots \in Nat /\ slots <= MaxSlots
    BY Shapes, RuntimeAssumption DEF RuntimeInv, RuntimeAssumption
  <2>2. n.pc # "calling"
    BY <1>12
  <2>3. QED
    BY <1>1, <1>2, <2>1, <2>2 DEF SlotsFollow
<1>18. QED
  BY <1>1, <1>2, <1>12, <1>16, <1>17, QuieterMove

\* What a verdict is accepted with.
LEMMA Verdict ==
  ASSUME RuntimeInv, NEW a \in Analyses, NEW v \in Verdicts,
         ModelConcludes(a, v)
  PROVE  \/ Step(a, "failed")
         \/ \E risk \in Risks, cites \in SUBSET EvidenceIds :
              /\ an' = [an EXCEPT ![a] = [@ EXCEPT !.pc = "accepted",
                          !.result = [by |-> "model", risk |-> risk, cites |-> cites]]]
              /\ cites # {} /\ cites \subseteq Allowed(a)
              /\ setting.mode = "loop" =>
                   /\ RequiredTools \subseteq an[a].called
                   /\ an[a].change.blocking => risk = "HIGH"
<1> DEFINE V(risk, cites) == an' = [an EXCEPT ![a] = [@ EXCEPT !.pc = "accepted",
                               !.result = [by |-> "model", risk |-> risk, cites |-> cites]]]
<1>1. v.risk \in Risks /\ v.cites \in SUBSET EvidenceIds /\ "HIGH" \in Risks
  BY RuntimeAssumption DEF RuntimeAssumption, VerdictType, Risks
<1>2. \/ Step(a, "failed")
      \/ setting.mode = "loop" /\ LoopAccepts(a, v) /\ V(LoopRisk(a, v), v.cites)
      \/ setting.mode = "oneshot" /\ OneShotAccepts(a, v)
           /\ V(OneShotRisk(a, v), OneShotCites(a, v))
  BY DEF ModelConcludes
<1> HIDE DEF V
<1>3. CASE setting.mode = "loop" /\ LoopAccepts(a, v) /\ V(LoopRisk(a, v), v.cites)
  <2>1. PICK risk \in Risks : risk = LoopRisk(a, v)
    BY <1>1 DEF LoopRisk
  <2>2. an[a].change.blocking => risk = "HIGH"
    BY <2>1 DEF LoopRisk
  <2>3. /\ v.cites # {} /\ v.cites \subseteq Allowed(a)
        /\ RequiredTools \subseteq an[a].called
    BY <1>3 DEF LoopAccepts
  <2>4. V(risk, v.cites)
    BY <1>3, <2>1
  <2>5. QED
    BY <1>1, <2>2, <2>3, <2>4 DEF V
<1>4. CASE setting.mode = "oneshot" /\ OneShotAccepts(a, v)
           /\ V(OneShotRisk(a, v), OneShotCites(a, v))
  <2>1. PICK risk \in Risks : risk = OneShotRisk(a, v)
    BY <1>1 DEF OneShotRisk
  <2>2. an[a].pc = "calling"
    BY DEF ModelConcludes
  <2>3. an[a].change \in ChangeType /\ an[a].extra \in SUBSET {"scan"}
    BY <2>2, Shapes DEF Typed, Running, AnalysisType
  <2>4. Allowed(a) \subseteq EvidenceIds
    BY <2>3 DEF Allowed, ChangeType, EvidenceIds
  <2>5. PICK cites : cites = OneShotCites(a, v)
    OBVIOUS
  <2>6. cites # {} /\ cites \subseteq Allowed(a)
    BY <1>4, <2>5 DEF OneShotCites, OneShotAccepts
  <2>7. V(risk, cites) /\ setting.mode # "loop" /\ cites \in SUBSET EvidenceIds
    BY <1>4, <2>1, <2>4, <2>5, <2>6
  <2>8. QED
    BY <2>6, <2>7 DEF V
<1>5. QED
  BY <1>2, <1>3, <1>4

LEMMA ModelConcludesPreserves ==
  ASSUME RuntimeInv, NEW a \in Analyses, NEW v \in Verdicts,
         ModelConcludes(a, v)
  PROVE  RuntimeInv'
<1>1. an[a].pc = "calling" /\ UNCHANGED <<setting, clock, usage, circuit, streak, slipped>>
      /\ slots' = slots - 1
  BY DEF ModelConcludes
<1>2. CASE Step(a, "failed")
  BY <1>1, <1>2, FailedPreserves
<1>3. ASSUME NEW risk \in Risks, NEW cites \in SUBSET EvidenceIds,
             an' = [an EXCEPT ![a] = [@ EXCEPT !.pc = "accepted",
                      !.result = [by |-> "model", risk |-> risk, cites |-> cites]]],
             cites # {}, cites \subseteq Allowed(a),
             setting.mode = "loop" => /\ RequiredTools \subseteq an[a].called
                                      /\ an[a].change.blocking => risk = "HIGH"
      PROVE  RuntimeInv'
  <2>1. PICK r : r = an[a]
    OBVIOUS
  <2>2. PICK result : result = [by |-> "model", risk |-> risk, cites |-> cites]
    OBVIOUS
  <2>3. PICK n : n = [r EXCEPT !.pc = "accepted", !.result = result]
    OBVIOUS
  <2>4. r \in AnalysisType /\ Typed(r) /\ Budgeted(setting, r) /\ Grounded(setting, r)
        /\ r.pc = "calling"
    BY <1>1, <2>1, Shapes
  <2>5. result \in ResultType /\ result.risk = risk /\ result.cites = cites
    BY <2>2 DEF ResultType
  <2>6. n \in AnalysisType /\ n.pc = "accepted" /\ n.change = r.change
        /\ n.admitted = r.admitted /\ n.calls = r.calls /\ n.result = result
        /\ n.extra = r.extra /\ n.called = r.called
    BY <2>3, <2>4, <2>5 DEF AnalysisType, Running
  <2>7. Typed(n)
    BY <2>4, <2>6 DEF Typed, Running
  <2>8. Budgeted(setting, n)
    BY <2>4, <2>6 DEF Budgeted
  <2>9. Grounded(setting, n)
    <3>1. r.change \in ChangeType /\ r.extra \in SUBSET {"scan"}
      BY <2>4, Shapes DEF Typed, Running, AnalysisType
    <3>2. r.change.known \subseteq {"finding"}
      BY <3>1 DEF ChangeType
    <3>3. cites \subseteq r.change.known \cup r.extra
      BY <1>3, <2>1 DEF Allowed
    <3>4. "invented" \notin cites /\ ("scan" \in cites => "scan" \in r.extra)
      BY <3>1, <3>2, <3>3
    <3>5. "scan" \in r.extra => "scan_sql" \in r.called
      BY <2>4 DEF Grounded
    <3>6. QED
      BY <1>3, <2>1, <2>5, <2>6, <3>4, <3>5 DEF Grounded
  <2>10. Moves(a, n)
    <3>1. an' = [an EXCEPT ![a] = n]
      BY <1>3, <2>1, <2>2, <2>3
    <3>2. QED
      BY <1>1, <2>7, <2>8, <2>9, <3>1 DEF Moves, Sound
  <2>11. SlotsFollow(a, n) /\ slots' <= MaxSlots
    <3>1. slots \in Nat /\ MaxSlots \in Nat /\ slots <= MaxSlots
      BY Shapes, RuntimeAssumption DEF RuntimeInv, RuntimeAssumption
    <3>2. QED
      BY <1>1, <2>1, <2>4, <2>6, <3>1 DEF SlotsFollow
  <2>12. QED
    BY <1>1, <2>1, <2>6, <2>10, <2>11, QuieterMove
<1>4. QED
  BY <1>2, <1>3, Verdict

LEMMA RecordFailurePreserves ==
  ASSUME RuntimeInv, NEW a \in Analyses, RecordModelFailure(a)
  PROVE  RuntimeInv'
<1>1. /\ an[a].pc = "failed" /\ UNCHANGED <<setting, clock, usage, slots, slipped>>
      /\ streak' = streak + 1 /\ Finish(a, Fallback(an[a].change))
      /\ circuit' = IF setting.threshold = 0 THEN circuit
                    ELSE [failures |-> circuit.failures + 1,
                          until |-> IF circuit.failures + 1 >= setting.threshold
                                    THEN clock + Cooldown ELSE circuit.until]
  BY DEF RecordModelFailure
<1>2. an[a].change \in Changes
  BY <1>1, Shapes DEF Typed, Running
<1>3. Fallback(an[a].change) \in ResultType
  BY <1>2, Shapes, FallbackShape
<1>4. PICK failures \in Nat, until \in Nat : circuit = [failures |-> failures, until |-> until]
  BY DEF RuntimeInv, SharedTypes
<1>5. streak \in Nat /\ setting.threshold \in Nat /\ clock \in Nat /\ Cooldown \in Nat
  BY Shapes, RuntimeAssumption DEF RuntimeInv, SharedTypes, SettingType, RuntimeAssumption
<1>6. failures <= streak /\ (until # 0 => setting.threshold > 0 /\ streak >= setting.threshold)
  BY <1>4 DEF RuntimeInv, CircuitIsEarned
<1>7. PICK f \in Nat, u \in Nat :
        /\ circuit' = [failures |-> f, until |-> u]
        /\ f <= streak + 1
        /\ u # 0 => setting.threshold > 0 /\ streak + 1 >= setting.threshold
  <2>1. CASE setting.threshold = 0
    BY <1>1, <1>4, <1>5, <1>6, <2>1
  <2>2. CASE setting.threshold # 0 /\ failures + 1 >= setting.threshold
    <3>1. circuit' = [failures |-> failures + 1, until |-> clock + Cooldown]
      BY <1>1, <1>4, <2>2
    <3>2. QED
      BY <1>5, <1>6, <2>2, <3>1
  <2>3. CASE setting.threshold # 0 /\ ~(failures + 1 >= setting.threshold)
    <3>1. circuit' = [failures |-> failures + 1, until |-> until]
      BY <1>1, <1>4, <2>3
    <3>2. QED
      BY <1>5, <1>6, <2>3, <3>1
  <2>4. QED
    BY <2>1, <2>2, <2>3
<1>8. SharedTypes'
  BY <1>1, <1>5, <1>7 DEF RuntimeInv, SharedTypes, Keys, Days
<1>9. CircuitIsEarned'
  BY <1>1, <1>7 DEF CircuitIsEarned
<1>10. QED
  BY <1>1, <1>3, <1>8, <1>9, FinishPreserves

LEMMA RecordSuccessPreserves ==
  ASSUME RuntimeInv, NEW a \in Analyses, RecordModelSuccess(a)
  PROVE  RuntimeInv'
<1>1. /\ an[a].pc = "accepted" /\ UNCHANGED <<setting, clock, usage, slots, slipped>>
      /\ streak' = 0 /\ Finish(a, an[a].result)
      /\ circuit' = [failures |-> 0, until |-> 0]
  BY DEF RecordModelSuccess
<1>2. an[a].result \in ResultType
  BY Shapes DEF AnalysisType
<1>3. SharedTypes'
  BY <1>1 DEF RuntimeInv, SharedTypes, Keys, Days
<1>4. CircuitIsEarned'
  BY <1>1 DEF CircuitIsEarned
<1>5. QED
  BY <1>1, <1>2, <1>3, <1>4, FinishPreserves

LEMMA CancelPreserves ==
  ASSUME RuntimeInv, NEW a \in Analyses, Cancel(a)
  PROVE  RuntimeInv'
<1>1. PICK r : r = an[a]
  OBVIOUS
<1>2. PICK n : n = [r EXCEPT !.cancelled = TRUE]
  OBVIOUS
<1>3. /\ r \in AnalysisType /\ Typed(r) /\ Budgeted(setting, r) /\ Grounded(setting, r)
      /\ UNCHANGED <<setting, clock, usage, slots, circuit, streak, slipped>>
      /\ an' = [an EXCEPT ![a] = n]
  BY <1>1, <1>2, Shapes DEF Cancel
<1>4. n \in AnalysisType /\ n.pc = r.pc /\ n.change = r.change /\ n.admitted = r.admitted
      /\ n.calls = r.calls /\ n.round = r.round /\ n.attempt = r.attempt /\ n.day = r.day
      /\ n.extra = r.extra /\ n.called = r.called /\ n.result = r.result
  BY <1>2, <1>3 DEF AnalysisType
<1>5. Typed(n)
  BY <1>3, <1>4 DEF Typed
<1>6. Budgeted(setting, n)
  BY <1>3, <1>4 DEF Budgeted
<1>7. Grounded(setting, n)
  BY <1>3, <1>4 DEF Grounded
<1>8. Moves(a, n)
  BY <1>3, <1>5, <1>6, <1>7 DEF Moves, Sound
<1>9. SlotsFollow(a, n) /\ slots' <= MaxSlots
  BY <1>1, <1>3, <1>4 DEF SlotsFollow, RuntimeInv
<1>10. QED
  BY <1>1, <1>3, <1>4, <1>8, <1>9, QuieterMove

-----------------------------------------------------------------------------
(* Reservations. *)

LEMMA CountedShape ==
  ASSUME RuntimeInv, NEW a \in Analyses, NEW d \in Days
  PROVE  /\ Counted(a, d) \in [Keys -> [Days -> Nat]]
         /\ \A k \in Keys, x \in Days :
              /\ usage[k][x] \in Nat
              /\ k \notin KeysOf(a) => Counted(a, d)[k][x] = usage[k][x]
              /\ k \in KeysOf(a) =>
                   Counted(a, d)[k][x] = IF x = d THEN usage[k][d] + 1
                                                 ELSE IF setting.backend = "redis" THEN usage[k][x] ELSE 0
<1>1. usage \in [Keys -> [Days -> Nat]]
  BY DEF RuntimeInv, SharedTypes
<1>2. PICK keys : keys = KeysOf(a)
  OBVIOUS
<1>3. \A k \in Keys :
        (IF k \notin keys THEN usage[k]
         ELSE [x \in Days |->
                 IF x = d THEN usage[k][d] + 1
                 ELSE IF setting.backend = "redis" THEN usage[k][x] ELSE 0])
          \in [Days -> Nat]
  BY <1>1
<1>4. Counted(a, d) =
        [k \in Keys |->
           IF k \notin keys THEN usage[k]
           ELSE [x \in Days |->
                   IF x = d THEN usage[k][d] + 1
                   ELSE IF setting.backend = "redis" THEN usage[k][x] ELSE 0]]
  BY <1>2 DEF Counted
<1>5. Counted(a, d) \in [Keys -> [Days -> Nat]]
  BY <1>3, <1>4
<1>6. QED
  BY <1>1, <1>2, <1>4, <1>5

LEMMA LimitShape ==
  ASSUME NEW k
  PROVE  LimitOf(k) \in Nat
BY RuntimeAssumption DEF RuntimeAssumption, LimitOf

\* Who is let through on day d is one more on that day, for its three keys.
LEMMA OneMoreAdmitted ==
  ASSUME RuntimeInv, NEW a \in Analyses, NEW n, Moves(a, n),
         NEW d, n.admitted = d, NEW k, NEW x
  PROVE  LET before == Cardinality(Admitted(k, x))
             after == Cardinality(Admitted(k, x)')
         IN  /\ before \in Nat /\ after \in Nat /\ after <= before + 1
             /\ k \notin KeysOf(a) \/ x # d => after <= before
<1>1. PICK old : old = Admitted(k, x)
  OBVIOUS
<1>2. PICK new : new = Admitted(k, x)'
  OBVIOUS
<1>3. an'[a] = n /\ \A y \in Analyses \ {a} : an'[y] = an[y]
  BY OthersStay
<1>4. new = {y \in Analyses : an'[y].admitted = x /\ k \in KeysOf(y)}
  BY <1>2 DEF Admitted, KeysOf
<1>5. old = {y \in Analyses : an[y].admitted = x /\ k \in KeysOf(y)}
  BY <1>1 DEF Admitted
<1>6. new \subseteq old \cup {a} /\ (k \notin KeysOf(a) \/ x # d => new \subseteq old)
  BY <1>3, <1>4, <1>5
<1>7. IsFiniteSet(old) /\ Cardinality(old) \in Nat
  BY <1>1, FewAdmitted
<1>8. IsFiniteSet(old \cup {a}) /\ Cardinality(old \cup {a}) <= Cardinality(old) + 1
  <2>1. PICK many \in Nat : many = Cardinality(old)
    BY <1>7
  <2>2. CASE a \in old
    <3>1. old \cup {a} = old
      BY <2>2
    <3>2. Cardinality(old \cup {a}) = many
      BY <2>1, <3>1
    <3>3. many <= many + 1
      OBVIOUS
    <3>4. QED
      BY <1>7, <2>1, <3>1, <3>2, <3>3
  <2>3. CASE a \notin old
    <3>1. IsFiniteSet(old \cup {a}) /\ Cardinality(old \cup {a}) = many + 1
      BY <1>7, <2>1, <2>3, FS_AddElement
    <3>2. QED
      BY <2>1, <3>1
  <2>4. QED
    BY <2>2, <2>3
<1>9. IsFiniteSet(new) /\ Cardinality(new) \in Nat
      /\ Cardinality(new) <= Cardinality(old \cup {a})
  BY <1>6, <1>8, FS_Subset, FS_CardinalityType
<1>10. Cardinality(old \cup {a}) \in Nat
  BY <1>8, FS_CardinalityType
<1>11. Cardinality(new) <= Cardinality(old) + 1
  BY <1>7, <1>8, <1>9, <1>10
<1>12. k \notin KeysOf(a) \/ x # d => Cardinality(new) <= Cardinality(old)
  BY <1>6, <1>7, FS_Subset
<1>13. QED
  BY <1>1, <1>2, <1>7, <1>9, <1>11, <1>12

LEMMA ReservedQuotas ==
  ASSUME RuntimeInv, NEW a \in Analyses, NEW n, Moves(a, n),
         NEW d \in Days, n.admitted = d, HasQuota(a, d),
         usage' = Counted(a, d),
         slipped' = (slipped \/ \E k \in KeysOf(a), x \in Days :
                                  x > d /\ usage[k][x] > 0)
  PROVE  Quotas'
<1>1. setting' = setting
  BY DEF Moves
<1>2. setting.backend \in {"memory", "redis"}
  BY Shapes DEF SettingType
<1>3. d \in Nat /\ \A x \in Days : x \in Nat
  BY RuntimeAssumption, DayOfTime DEF Days, RuntimeAssumption
<1>4. ASSUME setting.backend = "redis" \/ ~slipped',
             NEW x \in Days, NEW k \in Keys
      PROVE  /\ Cardinality(Admitted(k, x)') <= LimitOf(k)
             /\ \/ Cardinality(Admitted(k, x)') <= usage'[k][x]
                \/ setting.backend = "memory" /\ \E y \in Days : y > x /\ usage'[k][y] > 0
  <2>1. PICK before \in Nat : before = Cardinality(Admitted(k, x))
    BY FewAdmitted
  <2>2. PICK after \in Nat : after = Cardinality(Admitted(k, x)')
    BY OneMoreAdmitted
  <2>3. after <= before + 1 /\ (k \notin KeysOf(a) \/ x # d => after <= before)
    BY <2>1, <2>2, OneMoreAdmitted
  <2>4. setting.backend = "redis" \/ ~slipped
    BY <1>4
  <2>5. before <= LimitOf(k) /\ LimitOf(k) \in Nat
    BY <2>1, <2>4, LimitShape DEF RuntimeInv, Quotas, QuotaHolds
  <2>6. \/ before <= usage[k][x]
        \/ setting.backend = "memory" /\ \E y \in Days : y > x /\ usage[k][y] > 0
    BY <2>1, <2>4 DEF RuntimeInv, Quotas, QuotaIsCounted
  <2>7. \A y \in Days :
          /\ usage[k][y] \in Nat
          /\ k \notin KeysOf(a) => usage'[k][y] = usage[k][y]
          /\ k \in KeysOf(a) =>
               usage'[k][y] = IF y = d THEN usage[k][d] + 1
                              ELSE IF setting.backend = "redis" THEN usage[k][y] ELSE 0
    BY CountedShape
  <2>8. k \in KeysOf(a) /\ setting.backend = "memory" =>
          \A y \in Days : y > d => usage[k][y] = 0
    <3> SUFFICES ASSUME k \in KeysOf(a), setting.backend = "memory",
                        NEW y \in Days, y > d
                 PROVE  usage[k][y] = 0
      OBVIOUS
    <3>1. ~(usage[k][y] > 0)
      BY <1>4
    <3>2. QED
      BY <2>7, <3>1
  <2>9. after <= LimitOf(k)
        /\ \/ after <= usage'[k][x]
           \/ setting.backend = "memory" /\ \E y \in Days : y > x /\ usage'[k][y] > 0
    <3>1. CASE k \notin KeysOf(a)
      <4>1. \A y \in Days : usage'[k][y] = usage[k][y]
        BY <2>7, <3>1
      <4>2. after <= before
        BY <2>3, <3>1
      <4>3. after <= LimitOf(k)
        BY <2>5, <4>2
      <4>4. before <= usage[k][x] => after <= usage'[k][x]
        BY <2>7, <4>1, <4>2
      <4>5. QED
        BY <2>6, <4>1, <4>3, <4>4
    <3>2. CASE k \in KeysOf(a) /\ x = d
      <4>1. before <= usage[k][d]
        BY <1>2, <2>6, <2>7, <2>8, <3>2
      <4>2. usage[k][d] < LimitOf(k)
        BY <3>2 DEF HasQuota
      <4>3. QED
        BY <2>3, <2>5, <2>7, <3>2, <4>1, <4>2
    <3>3. CASE k \in KeysOf(a) /\ x # d /\ setting.backend = "redis"
      BY <2>3, <2>5, <2>6, <2>7, <3>3
    <3>4. CASE k \in KeysOf(a) /\ x < d /\ setting.backend = "memory"
      <4>1. usage'[k][d] > 0
        BY <2>7, <3>4
      <4>2. QED
        BY <1>3, <2>3, <2>5, <3>4, <4>1
    <3>5. CASE k \in KeysOf(a) /\ x > d /\ setting.backend = "memory"
      <4>1. \A y \in Days : y > x => usage[k][y] = 0
        BY <1>3, <2>8, <3>5
      <4>2. before <= 0
        BY <2>6, <2>7, <2>8, <3>5, <4>1
      <4>3. usage'[k][x] = 0
        BY <1>3, <2>7, <3>5
      <4>4. QED
        BY <1>3, <2>3, <2>5, <3>5, <4>2, <4>3
    <3>6. \/ k \notin KeysOf(a)
          \/ k \in KeysOf(a) /\ x = d
          \/ k \in KeysOf(a) /\ x # d /\ setting.backend = "redis"
          \/ k \in KeysOf(a) /\ x < d /\ setting.backend = "memory"
          \/ k \in KeysOf(a) /\ x > d /\ setting.backend = "memory"
      <4>1. x = d \/ x < d \/ x > d
        <5>1. x \in Nat /\ d \in Nat
          BY <1>3
        <5>2. QED
          BY <5>1
      <4>2. x > d => x # d
        BY <1>3
      <4>3. QED
        BY <1>2, <4>1, <4>2
    <3>7. QED
      BY <3>1, <3>2, <3>3, <3>4, <3>5, <3>6
  <2>10. QED
    BY <2>2, <2>9
<1>5. QuotaHolds'
  BY <1>1, <1>4 DEF QuotaHolds, LimitOf, Keys, Days
<1>6. QuotaIsCounted'
  BY <1>1, <1>4 DEF QuotaIsCounted, Keys, Days
<1>7. QED
  BY <1>5, <1>6 DEF Quotas

LEMMA ReservePreserves ==
  ASSUME RuntimeInv, NEW a \in Analyses, Reserve(a)
  PROVE  RuntimeInv'
<1>1. PICK d : d = an[a].day
  OBVIOUS
<1>2. an[a].pc = "reserve" /\ UNCHANGED <<setting, clock, slots, circuit, streak>>
  BY DEF Reserve
<1>3. d \in Days /\ an[a].change \in Changes
  BY <1>1, <1>2, Shapes DEF Typed, Running
<1>4. Fallback(an[a].change) \in ResultType
  BY <1>3, Shapes, FallbackShape
<1>5. Counted(a, d) \in [Keys -> [Days -> Nat]]
      /\ usage \in [Keys -> [Days -> Nat]]
  BY <1>3, CountedShape DEF RuntimeInv, SharedTypes
<1>6. ASSUME usage' \in {usage, Counted(a, d)}, slipped' \in BOOLEAN
      PROVE  SharedTypes' /\ CircuitIsEarned'
  <2>1. usage' \in [Keys -> [Days -> Nat]]
    BY <1>5, <1>6
  <2>2. usage' \in [Keys' -> [Days' -> Nat]]
    BY <2>1 DEF Keys, Days
  <2>3. SharedTypes'
    BY <1>2, <1>6, <2>2 DEF RuntimeInv, SharedTypes
  <2>4. CircuitIsEarned'
    BY <1>2 DEF RuntimeInv, CircuitIsEarned
  <2>5. QED
    BY <2>3, <2>4
<1>7. slipped \in BOOLEAN /\ slots' <= MaxSlots
  BY <1>2 DEF RuntimeInv, SharedTypes
<1>8. CASE /\ HasQuota(a, d) /\ usage' = Counted(a, d)
           /\ an' = [an EXCEPT ![a] = [@ EXCEPT !.pc = "slot", !.admitted = d]]
           /\ slipped' = (slipped \/ \E k \in KeysOf(a), x \in Days :
                                       x > d /\ usage[k][x] > 0)
  <2>1. PICK r : r = an[a]
    OBVIOUS
  <2>2. PICK n : n = [r EXCEPT !.pc = "slot", !.admitted = d]
    OBVIOUS
  <2>3. /\ r \in AnalysisType /\ Typed(r) /\ Budgeted(setting, r) /\ Grounded(setting, r)
        /\ r.pc = "reserve"
    BY <1>2, <2>1, Shapes
  <2>4. n \in AnalysisType /\ n.pc = "slot" /\ n.change = r.change /\ n.admitted = d
        /\ n.calls = r.calls /\ n.round = r.round /\ n.attempt = r.attempt
        /\ n.extra = r.extra /\ n.called = r.called
    BY <1>3, <2>2, <2>3 DEF AnalysisType, Running
  <2>5. Typed(n)
    BY <2>3, <2>4 DEF Typed, Running
  <2>6. Budgeted(setting, n)
    <3>1. r.calls = 0 /\ r.round = 1 /\ r.attempt = 0
      BY <2>3 DEF Budgeted
    <3>2. d # Unset
      BY <1>3, RuntimeAssumption, DayOfTime DEF Days, RuntimeAssumption
    <3>3. RoundsOf(setting) * (MaxRetries + 1) \in Nat /\ 1 <= RoundsOf(setting)
      BY Shapes
    <3>4. 0 <= (1 - 1) * (MaxRetries + 1) + 0 + 0
      BY Shapes
    <3>5. QED
      BY <2>4, <3>1, <3>2, <3>3, <3>4 DEF Budgeted
  <2>7. Grounded(setting, n)
    BY <2>3, <2>4 DEF Grounded
  <2>8. Moves(a, n)
    <3>1. an' = [an EXCEPT ![a] = n]
      BY <1>8, <2>1, <2>2
    <3>2. QED
      BY <1>2, <2>5, <2>6, <2>7, <3>1 DEF Moves, Sound
  <2>9. SlotsFollow(a, n)
    BY <1>2, <2>1, <2>4 DEF SlotsFollow
  <2>10. Quotas'
    BY <1>3, <1>8, <2>4, <2>8, ReservedQuotas
  <2>11. slipped' \in BOOLEAN
    BY <1>7, <1>8
  <2>12. SharedTypes' /\ CircuitIsEarned'
    BY <1>6, <1>8, <2>11
  <2>13. QED
    BY <1>7, <2>8, <2>9, <2>10, <2>12, Preserved
<1>9. CASE /\ Finish(a, Fallback(an[a].change)) /\ slipped' = slipped
           /\ \/ usage' = usage
              \/ setting.backend = "redis" /\ usage' = Counted(a, d)
  <2>1. PICK n : Moves(a, n) /\ n.pc = "done" /\ n.admitted = an[a].admitted
    BY <1>2, <1>4, <1>9, FinishMoves
  <2>2. SlotsFollow(a, n)
    BY <1>2, <2>1 DEF SlotsFollow
  <2>3. \A k \in Keys, x \in Days : usage'[k][x] >= usage[k][x]
    <3> SUFFICES ASSUME NEW k \in Keys, NEW x \in Days
                 PROVE  usage'[k][x] >= usage[k][x]
      OBVIOUS
    <3>1. usage[k][x] \in Nat
      BY <1>3, CountedShape
    <3>2. CASE usage' = usage
      BY <3>1, <3>2
    <3>3. CASE setting.backend = "redis" /\ usage' = Counted(a, d)
      <4>1. usage'[k][x] = usage[k][x] \/ (x = d /\ usage'[k][x] = usage[k][d] + 1)
        <5>1. Counted(a, d)[k][x] = usage[k][x]
              \/ (x = d /\ Counted(a, d)[k][x] = usage[k][d] + 1)
          <6>1. CASE k \notin KeysOf(a)
            BY <1>3, <6>1, CountedShape
          <6>2. CASE k \in KeysOf(a)
            <7>1. Counted(a, d)[k][x] =
                    IF x = d THEN usage[k][d] + 1
                    ELSE IF setting.backend = "redis" THEN usage[k][x] ELSE 0
              BY <1>3, <6>2, CountedShape
            <7>2. QED
              BY <3>3, <7>1
          <6>3. QED
            BY <6>1, <6>2
        <5>2. QED
          BY <3>3, <5>1
      <4>2. QED
        BY <3>1, <4>1
    <3>4. QED
      BY <1>9, <3>2, <3>3
  <2>4. SharedTypes' /\ CircuitIsEarned'
    BY <1>6, <1>7, <1>9
  <2>5. Quotas'
    BY <1>9, <2>1, <2>3, <2>4, QuotasKept
  <2>6. QED
    BY <1>7, <2>1, <2>2, <2>4, <2>5, Preserved
<1>10. QED
  BY <1>1, <1>8, <1>9 DEF Reserve

LEMMA TickPreserves ==
  ASSUME RuntimeInv, ClockTick
  PROVE  RuntimeInv'
<1>1. clock' = clock + 1 /\ clock < MaxClock /\ UNCHANGED <<setting, an, usage, slots, circuit, streak, slipped>>
  BY DEF ClockTick
<1>2. clock' \in 0..MaxClock
  BY <1>1, RuntimeAssumption DEF RuntimeInv, SharedTypes
<1>3. SharedTypes'
  BY <1>1, <1>2 DEF RuntimeInv, SharedTypes, Keys, Days
<1>4. CircuitIsEarned'
  BY <1>1 DEF RuntimeInv, CircuitIsEarned
<1>5. Quotas'
  <2>1. Quotas
    BY DEF RuntimeInv
  <2>2. QED
    BY <1>1, <2>1 DEF Quotas, QuotaHolds, QuotaIsCounted, Admitted,
                      KeysOf, LimitOf, Keys, Days
<1>6. Calling' = Calling
  BY <1>1 DEF Calling
<1>7. an' \in [Analyses -> AnalysisType']
  BY <1>1 DEF RuntimeInv, AnalysisType, Running, Days, Tools,
              RequiredTools, ResultType, Risks, EvidenceIds
<1>8. QED
  BY <1>1, <1>3, <1>4, <1>5, <1>6, <1>7 DEF RuntimeInv

LEMMA StartsGuarded ==
  ASSUME RuntimeInit
  PROVE  RuntimeInv
<1>1. PICK n : n = Fresh
  OBVIOUS
<1>2. n = [pc |-> "idle", change |-> Unset, day |-> Unset, admitted |-> Unset,
           round |-> 1, attempt |-> 0, called |-> {}, extra |-> {}, calls |-> 0,
           cancelled |-> FALSE, result |-> [by |-> "none", risk |-> "LOW", cites |-> {}]]
  BY <1>1 DEF Fresh, NoResult
<1>3. n \in AnalysisType
  <2>1. 1 \in 1..(MaxRounds + 1) /\ 0 \in 0..MaxRetries
    BY RuntimeAssumption DEF RuntimeAssumption
  <2>2. [by |-> "none", risk |-> "LOW", cites |-> {}] \in ResultType
    BY DEF ResultType, Risks
  <2>3. QED
    BY <1>2, <2>1, <2>2 DEF AnalysisType
<1>4. an = [a \in Analyses |-> n] /\ an \in [Analyses -> AnalysisType]
  BY <1>1, <1>3 DEF RuntimeInit
<1>5. Sound(setting, n)
  <2>1. RoundsOf(setting) * (MaxRetries + 1) \in Nat
    <3>1. RoundsOf(setting) \in Nat /\ MaxRetries + 1 \in Nat
      BY RuntimeAssumption DEF RoundsOf, RuntimeAssumption
    <3>2. QED
      BY <3>1
  <2>2. Typed(n)
    BY <1>2, <1>3 DEF Typed, Running
  <2>3. Budgeted(setting, n)
    BY <1>2, <2>1 DEF Budgeted
  <2>4. Grounded(setting, n)
    BY <1>2 DEF Grounded
  <2>5. QED
    BY <2>2, <2>3, <2>4 DEF Sound
<1>6. SharedTypes
  <2>1. usage \in [Keys -> [Days -> Nat]]
    BY DEF RuntimeInit
  <2>2. QED
    <3>1. setting \in Settings /\ clock = 0 /\ streak = 0 /\ slipped = FALSE
          /\ circuit = [failures |-> 0, until |-> 0]
      BY DEF RuntimeInit
    <3>2. circuit \in [failures : Nat, until : Nat]
      BY <3>1
    <3>3. clock \in 0..MaxClock
      BY <3>1, RuntimeAssumption
    <3>4. QED
      BY <2>1, <3>1, <3>2, <3>3 DEF SharedTypes
<1>7. slots = Cardinality(Calling) /\ slots <= MaxSlots
  <2>1. Calling = {}
    BY <1>2, <1>4 DEF Calling
  <2>2. QED
    BY <2>1, FS_EmptySet, RuntimeAssumption DEF RuntimeInit, RuntimeAssumption
<1>8. Quotas
  <2>1. ASSUME NEW d \in Days, NEW k \in Keys
        PROVE  /\ Cardinality(Admitted(k, d)) = 0
               /\ usage[k][d] = 0
    <3>1. d # Unset
      BY RuntimeAssumption, DayOfTime DEF Days, RuntimeAssumption
    <3>2. Admitted(k, d) = {}
      BY <1>2, <1>4, <3>1 DEF Admitted
    <3>3. QED
      BY <3>2, FS_EmptySet DEF RuntimeInit
  <2>2. QED
    BY <2>1, LimitShape DEF Quotas, QuotaHolds, QuotaIsCounted
<1>9. CircuitIsEarned
  BY DEF RuntimeInit, CircuitIsEarned
<1>10. QED
  BY <1>4, <1>5, <1>6, <1>7, <1>8, <1>9 DEF RuntimeInv

LEMMA RuntimeStep ==
  ASSUME RuntimeInv, [RuntimeNext]_runtimeVars
  PROVE  RuntimeInv'
<1>1. ASSUME NEW a \in Analyses, Answer(a)
      PROVE  RuntimeInv'
  <2>1. ASSUME NEW ran \in {{}, {"scan_sql"}, RequiredTools, Tools},
               ModelCallsTools(a, ran)
        PROVE  RuntimeInv'
    <3>1. ran \in SUBSET Tools
      BY DEF Tools
    <3>2. QED
      BY <2>1, <3>1, ModelCallsToolsPreserves
  <2>2. QED
    BY <1>1, <2>1, ModelFailsPreserves, ModelConcludesPreserves DEF Answer
<1>2. ASSUME NEW a \in Analyses, Work(a)
      PROVE  RuntimeInv'
  BY <1>1, <1>2, AllowPreserves, ReadDayPreserves, ReservePreserves, TakeSlotPreserves,
     RecordFailurePreserves, RecordSuccessPreserves DEF Work
<1>3. CASE UNCHANGED runtimeVars
  <2>1. UNCHANGED <<setting, clock, an, usage, slots, circuit, streak, slipped>>
    BY <1>3 DEF runtimeVars
  <2>2. SharedTypes' /\ CircuitIsEarned'
    BY <2>1, SharedStays
  <2>3. Quotas'
    <3>1. Quotas
      BY DEF RuntimeInv
    <3>2. QED
      BY <2>1, <3>1 DEF Quotas, QuotaHolds, QuotaIsCounted, Admitted,
                        KeysOf, LimitOf, Keys, Days
  <2>4. Calling' = Calling
    BY <2>1 DEF Calling
  <2>5. an' \in [Analyses -> AnalysisType']
    BY <2>1 DEF RuntimeInv, AnalysisType, Running, Days, Tools,
                RequiredTools, ResultType, Risks, EvidenceIds
  <2>6. QED
    BY <2>1, <2>2, <2>3, <2>4, <2>5 DEF RuntimeInv
<1>4. QED
  BY <1>2, <1>3, BeginPreserves, CancelPreserves, TickPreserves DEF RuntimeNext

\* The guards of the paid model (daily quotas, calls of one analysis, call slots,
\* circuit breaker) hold for any number of analyses, any limits and any answers.
THEOREM RuntimeGuardsHold == RuntimeSpec => []GuardsHold
<1>1. RuntimeInit => RuntimeInv
  BY StartsGuarded
<1>2. RuntimeInv /\ [RuntimeNext]_runtimeVars => RuntimeInv'
  BY RuntimeStep
<1>3. RuntimeInv => GuardsHold
  BY RuntimeInvIs
<1>4. QED
  BY <1>1, <1>2, <1>3, PTL DEF RuntimeSpec

\* A verdict that is accepted cites evidence that exists and that a tool has shown;
\* the loop has called its tools and keeps a blocked change at HIGH.
THEOREM AcceptedStaysGrounded == RuntimeSpec => []AcceptedIsGrounded
<1>1. RuntimeInit => RuntimeInv
  BY StartsGuarded
<1>2. RuntimeInv /\ [RuntimeNext]_runtimeVars => RuntimeInv'
  BY RuntimeStep
<1>3. RuntimeInv => AcceptedIsGrounded
  BY RuntimeInvIs
<1>4. QED
  BY <1>1, <1>2, <1>3, PTL DEF RuntimeSpec
=============================================================================
