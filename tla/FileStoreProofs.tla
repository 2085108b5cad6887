--------------------------- MODULE FileStoreProofs ---------------------------
(***************************************************************************)
(* Proofs about FileStore, for any changes, texts, processes and failures. *)
(***************************************************************************)
EXTENDS FileStore, TLAPS

StoreInv == OpensAsLeft /\ RefusedLeavesNoTrace

-----------------------------------------------------------------------------
(* States with digests and without them. *)

AnyDigest == Digests \cup {Missing}

\* One record, normalised.
LEMMA OneRecord ==
  ASSUME NEW r \in Record(AnyDigest)
  PROVE  /\ Complete(r) \in Record(Digests)
         /\ Complete(r).body = r.body /\ Complete(r).rev = r.rev
<1>1. r # Absent /\ r.body \in Bodies /\ Missing \notin Digests /\ r.body \in Digests
  BY DataAssumption DEF Record, AnyDigest, Digests
<1>2. CASE r.digest = Missing
  BY <1>1, <1>2 DEF Complete, Record, AnyDigest
<1>3. CASE r.digest # Missing
  BY <1>1, <1>3 DEF Complete, Record, AnyDigest
<1>4. QED
  BY <1>2, <1>3

\* What an older release leaves is a state with the same content and no digest.
LEMMA Stripping ==
  ASSUME NEW s \in States(AnyDigest)
  PROVE  /\ Stripped(s) \in States(AnyDigest)
         /\ Stripped(Stripped(s)) = Stripped(s)
         /\ Stripped(s) \in States(Digests) => Stripped(s) = s
<1> DEFINE n == Stripped(s)
<1>1. ASSUME NEW c \in Changes
      PROVE  /\ n[c] \in Record(AnyDigest) \cup {Absent}
             /\ (IF n[c] = Absent THEN Absent ELSE [n[c] EXCEPT !.digest = Missing]) = n[c]
             /\ n[c] \in Record(Digests) \cup {Absent} => n[c] = s[c]
  <2>1. CASE s[c] = Absent
    BY <2>1 DEF Stripped
  <2>2. CASE s[c] # Absent
    <3>1. s[c] \in Record(AnyDigest)
      BY <2>2 DEF States
    <3>2. n[c] = [s[c] EXCEPT !.digest = Missing]
      BY <2>2 DEF Stripped
    <3>3. n[c] \in Record(AnyDigest) /\ n[c].digest = Missing /\ n[c] # Absent
      BY <3>1, <3>2, DataAssumption DEF Record, AnyDigest
    <3>4. [n[c] EXCEPT !.digest = Missing] = n[c]
      BY <3>1, <3>2 DEF Record
    <3>5. n[c] \notin Record(Digests)
      BY <3>3, DataAssumption DEF Record
    <3>6. QED
      BY <3>3, <3>4, <3>5
  <2>3. QED
    BY <2>1, <2>2
<1>2. n = [c \in Changes |-> n[c]] /\ s = [c \in Changes |-> s[c]]
  BY DEF Stripped, States
<1>3. Stripped(n) = [c \in Changes |-> IF n[c] = Absent THEN Absent
                                       ELSE [n[c] EXCEPT !.digest = Missing]]
  BY DEF Stripped
<1> HIDE DEF n
<1>4. n \in States(AnyDigest)
  BY <1>1, <1>2 DEF States
<1>5. Stripped(n) = n
  BY <1>1, <1>2, <1>3
<1>6. n \in States(Digests) => n = s
  BY <1>1, <1>2 DEF States
<1>7. QED
  BY <1>4, <1>5, <1>6 DEF n

\* A state is known by its stripped form up to its digests.
LEMMA SameContent ==
  ASSUME NEW s \in States(AnyDigest), NEW t \in States(AnyDigest), Stripped(s) = Stripped(t)
  PROVE  /\ Contents(s) = Contents(t)
         /\ \A c \in Changes : /\ s[c] = Absent <=> t[c] = Absent
                               /\ s[c] # Absent => s[c].body = t[c].body /\ s[c].rev = t[c].rev
<1>1. ASSUME NEW c \in Changes
      PROVE  /\ s[c] = Absent <=> t[c] = Absent
             /\ s[c] # Absent => s[c].body = t[c].body /\ s[c].rev = t[c].rev
  <2>1. Stripped(s)[c] = Stripped(t)[c]
    OBVIOUS
  <2>2. ASSUME NEW u \in States(AnyDigest)
        PROVE  /\ u[c] = Absent => Stripped(u)[c] = Absent
               /\ u[c] # Absent => /\ Stripped(u)[c] # Absent
                                   /\ Stripped(u)[c].body = u[c].body /\ Stripped(u)[c].rev = u[c].rev
    <3>1. CASE u[c] = Absent
      BY <3>1 DEF Stripped
    <3>2. CASE u[c] # Absent
      <4>1. u[c] \in Record(AnyDigest)
        BY <3>2 DEF States
      <4>2. Stripped(u)[c] = [u[c] EXCEPT !.digest = Missing]
        BY <3>2 DEF Stripped
      <4>3. QED
        BY <3>2, <4>1, <4>2, DataAssumption DEF Record, AnyDigest
    <3>3. QED
      BY <3>1, <3>2
  <2>3. QED
    BY <2>1, <2>2
<1>2. QED
  BY <1>1 DEF Contents

\* What New and restoreLocked make of a state file and a snapshot has the content of the
\* file and every digest.
LEMMA Loading ==
  ASSUME NEW s \in States(AnyDigest), NEW w \in States(Digests) \cup {NoFile}
  PROVE  LET n == NormalizeState(Rehydrate(s, w)) IN
         n \in States(Digests) /\ Stripped(n) = Stripped(s)
<1> DEFINE h == Rehydrate(s, w)
           n == NormalizeState(h)
<1>1. ASSUME NEW c \in Changes
      PROVE  /\ n[c] \in Record(Digests) \cup {Absent}
             /\ Stripped(n)[c] = Stripped(s)[c]
  <2>1. CASE s[c] = Absent
    <3>1. h[c] = Absent
      BY <2>1 DEF Rehydrate, KnownBy
    <3>2. n[c] = Absent
      BY <3>1 DEF NormalizeState, Complete
    <3>3. QED
      BY <2>1, <3>2 DEF Stripped
  <2>2. CASE s[c] # Absent
    <3>1. s[c] \in Record(AnyDigest)
      BY <2>2 DEF States
    <3>2. h[c] \in Record(AnyDigest) /\ h[c].body = s[c].body /\ h[c].rev = s[c].rev
      <4>1. CASE KnownBy(w, s, c)
        <5>1. h[c] = [s[c] EXCEPT !.digest = w[c].digest]
          BY <4>1 DEF Rehydrate
        <5>2. w[c].digest \in Digests
          BY <4>1 DEF KnownBy, States, Record
        <5>3. QED
          BY <3>1, <5>1, <5>2 DEF Record, AnyDigest
      <4>2. CASE ~KnownBy(w, s, c)
        BY <3>1, <4>2 DEF Rehydrate
      <4>3. QED
        BY <4>1, <4>2
    <3>3. n[c] = Complete(h[c])
      BY DEF NormalizeState
    <3> HIDE DEF n, h
    <3>4. n[c] \in Record(Digests) /\ n[c].body = s[c].body /\ n[c].rev = s[c].rev
      BY <3>2, <3>3, OneRecord
    <3>5. n[c] # Absent
      BY <3>4, DataAssumption DEF Record, AnyDigest
    <3>6. [n[c] EXCEPT !.digest = Missing] = [s[c] EXCEPT !.digest = Missing]
      BY <3>1, <3>4 DEF Record
    <3>7. QED
      BY <2>2, <3>4, <3>5, <3>6 DEF Stripped
  <2>3. QED
    BY <2>1, <2>2
<1>2. n = [c \in Changes |-> n[c]]
  BY DEF NormalizeState
<1> HIDE DEF n
<1>3. n \in States(Digests)
  BY <1>1, <1>2 DEF States
<1>4. Stripped(n) = [c \in Changes |-> Stripped(n)[c]] /\ Stripped(s) = [c \in Changes |-> Stripped(s)[c]]
  BY DEF Stripped
<1>5. Stripped(n) = Stripped(s)
  BY <1>1, <1>4
<1>6. QED
  BY <1>3, <1>5 DEF n

\* The snapshot of a state brings back its digests, whether the file has them or not.
LEMMA Bringing ==
  ASSUME NEW a \in States(Digests), NEW s \in {a, Stripped(a)}
  PROVE  NormalizeState(Rehydrate(s, a)) = a
<1> DEFINE h == Rehydrate(s, a)
           n == NormalizeState(h)
<1>1. ASSUME NEW c \in Changes
      PROVE  n[c] = a[c]
  <2>1. CASE a[c] = Absent
    <3>1. s[c] = Absent
      BY <2>1 DEF Stripped
    <3>2. h[c] = Absent
      BY <3>1 DEF Rehydrate, KnownBy
    <3>3. QED
      BY <2>1, <3>2 DEF NormalizeState, Complete
  <2>2. CASE a[c] # Absent
    <3>1. a[c] \in Record(Digests) /\ a[c].digest \in Digests /\ a[c].digest # Missing
      BY <2>2, DataAssumption DEF States, Record
    <3>2. s[c] = a[c] \/ s[c] = [a[c] EXCEPT !.digest = Missing]
      BY <2>2 DEF Stripped
    <3>3. s[c] # Absent /\ s[c].body = a[c].body /\ a # NoFile
      BY <2>2, <3>1, <3>2, DataAssumption DEF Record, States
    <3>4. KnownBy(a, s, c)
      BY <2>2, <3>3 DEF KnownBy
    <3>5. h[c] = [s[c] EXCEPT !.digest = a[c].digest]
      BY <3>4 DEF Rehydrate
    <3>6. h[c] = a[c]
      BY <3>1, <3>2, <3>5 DEF Record
    <3>7. QED
      BY <3>1, <3>6 DEF NormalizeState, Complete
  <2>3. QED
    BY <2>1, <2>2
<1>2. n = [c \in Changes |-> n[c]] /\ a = [c \in Changes |-> a[c]]
  BY DEF NormalizeState, States
<1> HIDE DEF n
<1>3. QED
  BY <1>1, <1>2 DEF n

-----------------------------------------------------------------------------
(* The steps. *)

LEMMA Shape ==
  ASSUME StoreInv
  PROVE  /\ TypeOK /\ OneHolder /\ FileIsLast /\ WitnessCovers
         /\ acked \in States(Digests) /\ acked \in States(AnyDigest) /\ acked # NoFile
         /\ used.edits \in Nat
<1>1. TypeOK /\ OneHolder /\ FileIsLast /\ WitnessCovers
  BY DEF StoreInv, OpensAsLeft
<1>2. acked \in States(Digests) /\ used.edits \in Nat
  BY <1>1, DataAssumption DEF TypeOK
<1>3. acked \in States(AnyDigest)
  BY <1>2 DEF States, Record, AnyDigest
<1>4. acked # NoFile
  BY <1>3, DataAssumption DEF AnyDigest
<1>5. QED
  BY <1>1, <1>2, <1>3, <1>4

\* Only the holder of the lock works.
LEMMA OthersDown ==
  ASSUME StoreInv, NEW p \in Procs, pc[p] # "down"
  PROVE  \A q \in Procs : q # p => pc[q] = "down"
BY Shape DEF OneHolder

\* The snapshot that belongs to the state file, where there are both.
LEMMA SnapshotType ==
  ASSUME StoreInv
  PROVE  SnapshotFor(file) \in States(Digests) \cup {NoFile}
BY Shape DEF TypeOK, SnapshotFor, Documents

\* A process opens the store.
LEMMA StartKeeps ==
  ASSUME StoreInv, NEW p \in Procs, Start(p)
  PROVE  StoreInv'
<1>t. /\ TypeOK /\ OneHolder /\ FileIsLast /\ WitnessCovers
      /\ acked \in States(Digests) /\ acked \in States(AnyDigest) /\ acked # NoFile
  BY Shape
<1> DEFINE content == IF file = NoFile THEN InitialState ELSE file
           snapshot == SnapshotFor(file)
           n == NormalizeState(Rehydrate(content, snapshot))
<1>1. /\ pc[p] = "down" /\ lock = NoFile /\ WitnessReadable(file)
      /\ data' = [data EXCEPT ![p] = n] /\ mem' = [mem EXCEPT ![p] = snapshot]
      /\ lock' = p /\ pc' = [pc EXCEPT ![p] = "witness"]
      /\ opening' = [opening EXCEPT ![p] = TRUE]
      /\ UNCHANGED <<file, witness, marker, acked, dirty, lost, used>>
  BY DEF Start, LockFree, files, history
<1>2. \A q \in Procs : pc[q] = "down" /\ ~opening[q]
  BY <1>t, <1>1, DataAssumption DEF OneHolder
<1>3. content \in States(AnyDigest) /\ Stripped(content) = Stripped(acked)
  <2>1. CASE file = NoFile
    BY <1>t, <2>1 DEF FileIsLast
  <2>2. CASE file # NoFile
    <3>1. file \in {acked, Stripped(acked)}
      BY <1>t, <2>2 DEF FileIsLast
    <3>2. QED
      BY <1>t, <2>2, <3>1, Stripping
  <2>3. QED
    BY <2>1, <2>2
<1>4. snapshot \in States(Digests) \cup {NoFile}
  BY SnapshotType
<1>5. n \in States(Digests) /\ Stripped(n) = Stripped(acked)
  BY <1>3, <1>4, Loading
<1>6. n \in States(AnyDigest)
  BY <1>5 DEF States, Record, AnyDigest
<1>7. Contents(n) = Contents(acked) /\ Numbered(n)
  <2>1. Contents(n) = Contents(acked)
    BY <1>t, <1>5, <1>6, SameContent
  <2>2. \A c \in Changes : n[c] # Absent => acked[c] # Absent /\ n[c].rev = acked[c].rev
    BY <1>t, <1>5, <1>6, SameContent
  <2> HIDE DEF n
  <2>3. QED
    BY <1>t, <2>1, <2>2 DEF Numbered, FileIsLast
<1>8. ~lost => n = acked
  <2>1. CASE file = NoFile
    <3>1. witness = NoFile /\ content = acked /\ snapshot = NoFile
      BY <1>t, <1>1, <2>1 DEF WitnessReadable, FileIsLast, SnapshotFor
    <3>2. Rehydrate(content, snapshot) = acked
      BY <1>t, <3>1 DEF Rehydrate, KnownBy, States
    <3>3. NormalizeState(acked) = acked
      BY <1>t, DataAssumption DEF NormalizeState, Complete, States, Record
    <3>4. QED
      BY <3>2, <3>3
  <2>2. CASE file # NoFile /\ witness = NoFile
    <3>1. acked = NormalizeState(file) /\ content = file /\ snapshot = NoFile
      BY <1>t, <2>2 DEF WitnessCovers, SnapshotFor
    <3>2. Rehydrate(file, NoFile) = file
      BY <1>t, <2>2 DEF Rehydrate, KnownBy, TypeOK, States
    <3>3. QED
      BY <3>1, <3>2
  <2>3. CASE file # NoFile /\ witness # NoFile
    <3>1. ~lost => snapshot = acked
      BY <1>t, <2>3 DEF WitnessCovers
    <3>2. content \in {acked, Stripped(acked)}
      BY <1>t, <2>3 DEF FileIsLast
    <3>3. QED
      BY <1>t, <3>1, <3>2, Bringing
  <2>4. QED
    BY <2>1, <2>2, <2>3
<1>9. file = NoFile => snapshot = NoFile
  BY <1>t, <1>1 DEF WitnessReadable, SnapshotFor
<1> HIDE DEF n, snapshot
<1>10. data'[p] = n /\ mem'[p] = snapshot /\ opening'[p] = TRUE /\ pc'[p] = "witness"
  BY <1>t, <1>1 DEF TypeOK
<1>11. \A q \in Procs : q # p => pc'[q] = "down" /\ opening'[q] = FALSE
  BY <1>t, <1>1, <1>2 DEF TypeOK
<1>12. TypeOK'
  BY <1>t, <1>1, <1>4, <1>5 DEF TypeOK
<1>13. ReopensAsLeft' /\ EvidenceKept' /\ RefusedLeavesNoTrace'
  BY <1>1, <1>7, <1>8, <1>10, <1>11 DEF ReopensAsLeft, EvidenceKept, RefusedLeavesNoTrace, Contents
<1>14. OneHolder'
  BY <1>1, <1>10, <1>11 DEF OneHolder
<1>15. FileIsLast'
  BY <1>t, <1>1, <1>7, <1>10, <1>11 DEF FileIsLast, Numbered
<1>16. WitnessCovers'
  <2>1. file = NoFile => n = acked
    BY <1>t, <1>8 DEF WitnessCovers
  <2>2. SnapshotFor(file') = SnapshotFor(file) /\ SnapshotFor(file)' = SnapshotFor(file)
    BY <1>1 DEF SnapshotFor
  <2>3. QED
    BY <1>t, <1>1, <1>8, <1>9, <1>10, <1>11, <2>1, <2>2 DEF WitnessCovers, SameEvidence
<1>17. QED
  BY <1>12, <1>13, <1>14, <1>15, <1>16 DEF StoreInv, OpensAsLeft

\* An operation changes the data: its number is new.
LEMMA EditKeeps ==
  ASSUME StoreInv, NEW p \in Procs, NEW c \in Changes, NEW o \in Originals, Edit(p, c, o)
  PROVE  StoreInv'
<1>t. /\ TypeOK /\ OneHolder /\ FileIsLast /\ WitnessCovers
      /\ acked \in States(Digests) /\ acked \in States(AnyDigest) /\ acked # NoFile
      /\ used.edits \in Nat
  BY Shape
<1>k. PICK k : k = used.edits + 1
  OBVIOUS
<1> DEFINE r == [body |-> Redact[o], digest |-> o, rev |-> k]
<1>n. PICK n : n = [data[p] EXCEPT ![c] = r]
  OBVIOUS
<1>1. /\ pc[p] = "up" /\ used.edits < MaxEdits /\ used' = [used EXCEPT !.edits = k]
      /\ data' = [data EXCEPT ![p] = n] /\ pc' = [pc EXCEPT ![p] = "witness"]
      /\ UNCHANGED <<file, witness, marker, lock, opening, mem, acked, dirty, lost>>
  BY <1>k, <1>n DEF Edit, files, history
<1>2. k \in 0..MaxEdits /\ k > used.edits /\ used'.edits = k
  BY <1>t, <1>k, <1>1, DataAssumption DEF TypeOK
<1>3. used' \in [edits : 0..MaxEdits, crashes : 0..MaxCrashes,
                 faults : 0..MaxFaults, releases : 0..MaxReleases]
  BY <1>t, <1>1, <1>2 DEF TypeOK
<1>4. r \in Record(Digests) /\ r.rev = k
  BY <1>2, DataAssumption DEF Record, Digests
<1>5. data[p] \in States(Digests) /\ ~opening[p] /\ \A q \in Procs : q # p => pc[q] = "down"
  BY <1>t, <1>1, OthersDown DEF TypeOK, OneHolder
<1> HIDE DEF r
<1>6. n \in States(Digests) /\ n[c] = r
  BY <1>4, <1>5, <1>n DEF States
<1>7. Stripped(n) # Stripped(acked)
  <2>1. n \in States(AnyDigest) /\ r # Absent
    BY <1>4, <1>6, DataAssumption DEF States, Record, AnyDigest
  <2>2. SUFFICES ASSUME Stripped(n) = Stripped(acked)
                 PROVE  FALSE
    OBVIOUS
  <2>3. acked[c] # Absent /\ n[c].rev = acked[c].rev
    BY <1>t, <1>6, <2>1, <2>2, SameContent
  <2>4. acked[c].rev <= used.edits /\ acked[c].rev \in Nat
    BY <1>t, <2>3 DEF FileIsLast, Numbered, States, Record
  <2>5. QED
    BY <1>t, <1>2, <1>4, <1>6, <2>3, <2>4
<1>8. Numbered(n)' /\ Numbered(acked)'
  <2>1. ASSUME NEW s \in States(Digests), NEW d \in Changes, s[d] # Absent, s[d].rev <= used.edits
        PROVE  s[d].rev <= k
    <3>1. s[d].rev \in Nat
      BY <2>1 DEF States, Record
    <3>2. QED
      BY <1>t, <1>2, <2>1, <3>1
  <2>2. Numbered(data[p]) /\ Numbered(acked)
    BY <1>t, <1>1 DEF FileIsLast
  <2>3. ASSUME NEW d \in Changes, n[d] # Absent
        PROVE  n[d].rev <= k
    <3>1. CASE d = c
      BY <1>2, <1>4, <1>6, <3>1
    <3>2. CASE d # c
      BY <1>5, <1>n, <2>1, <2>2, <2>3, <3>2 DEF Numbered, States
    <3>3. QED
      BY <3>1, <3>2
  <2>4. ASSUME NEW d \in Changes, acked[d] # Absent
        PROVE  acked[d].rev <= k
    BY <1>t, <2>1, <2>2, <2>4 DEF Numbered
  <2>5. \A d \in Changes : n[d] # Absent => n[d].rev <= used'.edits
    BY <1>2, <2>3
  <2>6. \A d \in Changes : acked'[d] # Absent => acked'[d].rev <= used'.edits
    BY <1>1, <1>2, <2>4
  <2>7. QED
    BY <2>5, <2>6 DEF Numbered
<1>9. data'[p] = n /\ pc'[p] = "witness" /\ \A q \in Procs : q # p => pc'[q] = "down"
  BY <1>t, <1>1, <1>5 DEF TypeOK
<1>10. TypeOK'
  BY <1>t, <1>1, <1>3, <1>6 DEF TypeOK
<1>11. ReopensAsLeft' /\ EvidenceKept' /\ RefusedLeavesNoTrace'
  <2>1. \A q \in Procs : ~opening'[q]
    BY <1>t, <1>1, <1>5 DEF OneHolder
  <2>2. QED
    BY <1>9, <2>1 DEF ReopensAsLeft, EvidenceKept, RefusedLeavesNoTrace
<1>12. OneHolder'
  BY <1>t, <1>1, <1>5, <1>9 DEF OneHolder
<1>13. FileIsLast'
  BY <1>t, <1>1, <1>8, <1>9 DEF FileIsLast
<1>14. WitnessCovers'
  <2>1. file # NoFile
    BY <1>t, <1>1, <1>5 DEF OneHolder
  <2>2. SnapshotFor(file)' = SnapshotFor(file)
    BY <1>1 DEF SnapshotFor
  <2>3. QED
    BY <1>t, <1>1, <1>7, <1>9, <2>1, <2>2 DEF WitnessCovers, SameEvidence
<1>15. QED
  BY <1>10, <1>11, <1>12, <1>13, <1>14 DEF StoreInv, OpensAsLeft

\* The witness of the state to come is written; the state before it is its previous.
LEMMA WitnessKeeps ==
  ASSUME StoreInv, NEW p \in Procs, WriteWitness(p)
  PROVE  StoreInv'
<1>t. /\ TypeOK /\ OneHolder /\ FileIsLast /\ WitnessCovers
      /\ acked \in States(Digests) /\ acked \in States(AnyDigest) /\ acked # NoFile
  BY Shape
<1>1. /\ pc[p] = "witness" /\ witness' = Document(data[p], mem[p])
      /\ pc' = [pc EXCEPT ![p] = IF marker THEN "state" ELSE "marker"]
      /\ UNCHANGED <<file, marker, lock, opening, data, mem, acked, dirty, lost, used>>
  BY DEF WriteWitness, memory, history
<1>2. /\ data[p] \in States(Digests) /\ mem[p] \in States(Digests) \cup {NoFile}
      /\ \A q \in Procs : q # p => pc[q] = "down"
  BY <1>t, <1>1, OthersDown DEF TypeOK
<1>3. /\ witness' \in Documents /\ witness'.current = data[p] /\ witness' # NoFile
      /\ witness'.previous = IF mem[p] = data[p] THEN NoFile ELSE mem[p]
  BY <1>1, <1>2, DataAssumption DEF Document, Documents
<1>4. pc'[p] \in {"marker", "state"} /\ \A q \in Procs : q # p => pc'[q] = pc[q]
  BY <1>t, <1>1 DEF TypeOK
<1>5. file # NoFile /\ ~lost => SnapshotFor(file)' = acked
  <2>1. SUFFICES ASSUME file # NoFile, ~lost
                 PROVE  SnapshotFor(file)' = acked
    OBVIOUS
  <2>2. SnapshotFor(file)' = IF witness'.previous # NoFile /\ witness'.previous = file
                             THEN file ELSE data[p]
    BY <1>1, <1>3 DEF SnapshotFor
  <2>3. CASE opening[p]
    <3>1. data[p] = acked
      BY <2>1, <2>3 DEF StoreInv, OpensAsLeft, EvidenceKept
    <3>2. file \in States(Digests) => file = acked
      BY <1>t, <2>1, Stripping DEF FileIsLast
    <3>3. QED
      BY <1>2, <1>3, <2>2, <3>1, <3>2
  <2>4. CASE ~opening[p]
    <3>1. file = acked /\ mem[p] = acked
      BY <1>t, <1>1, <2>4 DEF OneHolder
    <3>2. QED
      BY <1>t, <1>3, <2>2, <3>1
  <2>5. QED
    BY <2>3, <2>4
<1>6. TypeOK'
  BY <1>t, <1>1, <1>3, <1>4 DEF TypeOK
<1>7. ReopensAsLeft' /\ EvidenceKept'
  BY <1>1 DEF StoreInv, OpensAsLeft, ReopensAsLeft, EvidenceKept, Contents
<1>8. RefusedLeavesNoTrace'
  BY <1>2, <1>4 DEF RefusedLeavesNoTrace
<1>9. OneHolder'
  BY <1>t, <1>1, <1>2, <1>3, <1>4 DEF OneHolder, Document
<1>10. FileIsLast'
  BY <1>t, <1>1, <1>2, <1>4 DEF FileIsLast, Numbered
<1>11. WitnessCovers'
  BY <1>t, <1>1, <1>2, <1>3, <1>4, <1>5 DEF WitnessCovers, SameEvidence
<1>12. QED
  BY <1>6, <1>7, <1>8, <1>9, <1>10, <1>11 DEF StoreInv, OpensAsLeft

LEMMA MarkerKeeps ==
  ASSUME StoreInv, NEW p \in Procs, WriteMarker(p)
  PROVE  StoreInv'
<1>t. TypeOK /\ OneHolder /\ FileIsLast /\ WitnessCovers
  BY Shape
<1>1. /\ pc[p] = "marker" /\ marker' = TRUE /\ pc' = [pc EXCEPT ![p] = "state"]
      /\ UNCHANGED <<file, witness, lock, opening, data, mem, acked, dirty, lost, used>>
  BY DEF WriteMarker, memory, history
<1>2. pc'[p] = "state" /\ \A q \in Procs : q # p => pc'[q] = pc[q]
  BY <1>t, <1>1 DEF TypeOK
<1>3. TypeOK'
  <2>1. marker' \in BOOLEAN
    BY <1>1
  <2>2. QED
    BY <1>t, <1>1, <2>1 DEF TypeOK
<1>4. ReopensAsLeft' /\ EvidenceKept' /\ RefusedLeavesNoTrace'
  BY <1>1, <1>2 DEF StoreInv, OpensAsLeft, ReopensAsLeft, EvidenceKept, RefusedLeavesNoTrace, Contents
<1>5. OneHolder' /\ FileIsLast'
  BY <1>t, <1>1, <1>2 DEF OneHolder, FileIsLast, Numbered, Document
<1>6. SnapshotFor(file)' = SnapshotFor(file)
  BY <1>1 DEF SnapshotFor
<1>7. WitnessCovers'
  BY <1>t, <1>1, <1>2, <1>6 DEF WitnessCovers, SameEvidence
<1>8. QED
  BY <1>3, <1>4, <1>5, <1>7 DEF StoreInv, OpensAsLeft

\* The state file is replaced: what was being written is now what was last written.
LEMMA StateKeeps ==
  ASSUME StoreInv, NEW p \in Procs, WriteState(p)
  PROVE  StoreInv'
<1>t. TypeOK /\ OneHolder /\ FileIsLast
  BY Shape
<1>0. PICK d : d = data[p]
  OBVIOUS
<1>1. /\ pc[p] = "state" /\ mem' = [mem EXCEPT ![p] = d] /\ pc' = [pc EXCEPT ![p] = "up"]
      /\ opening' = [opening EXCEPT ![p] = FALSE] /\ acked' = d /\ dirty' = FALSE
      /\ lost' = FALSE /\ file' = d /\ UNCHANGED <<witness, marker, lock, data, used>>
  BY <1>0 DEF WriteState, Succeed
<1>2. d \in States(Digests) /\ \A q \in Procs : q # p => pc[q] = "down" /\ ~opening[q]
  BY <1>t, <1>0, <1>1, OthersDown DEF TypeOK, OneHolder
<1>3. d # NoFile /\ d \in States(AnyDigest)
  BY <1>2, DataAssumption DEF States, Record, AnyDigest
<1>4. /\ pc'[p] = "up" /\ mem'[p] = d /\ ~opening'[p] /\ data'[p] = d
      /\ \A q \in Procs : q # p => pc'[q] = "down" /\ ~opening'[q]
  BY <1>t, <1>0, <1>1, <1>2 DEF TypeOK
<1>5. /\ witness = Document(d, mem[p]) /\ witness # NoFile /\ witness.current = d
      /\ witness.previous # d
  <2>1. witness = Document(d, mem[p]) /\ mem[p] \in States(Digests) \cup {NoFile}
    BY <1>t, <1>0, <1>1 DEF OneHolder, TypeOK
  <2>2. Document(d, mem[p]) \in Documents
    BY <1>2, <2>1 DEF Document, Documents
  <2>3. Document(d, mem[p]).current = d /\ Document(d, mem[p]).previous # d
    BY <1>3 DEF Document
  <2>4. QED
    BY <2>1, <2>2, <2>3, DataAssumption
<1>6. SnapshotFor(file)' = d
  BY <1>1, <1>5 DEF SnapshotFor
<1>7. TypeOK'
  <2>1. dirty' \in BOOLEAN /\ lost' \in BOOLEAN
    BY <1>1
  <2>2. file' \in States(Digests \cup {Missing})
    BY <1>1, <1>3 DEF AnyDigest
  <2>3. opening' \in [Procs -> BOOLEAN]
    BY <1>t, <1>1 DEF TypeOK
  <2>4. QED
    BY <1>t, <1>1, <1>2, <2>1, <2>2, <2>3 DEF TypeOK
<1>8. ReopensAsLeft' /\ EvidenceKept' /\ RefusedLeavesNoTrace'
  BY <1>1, <1>4 DEF ReopensAsLeft, EvidenceKept, RefusedLeavesNoTrace
<1>9. OneHolder'
  BY <1>t, <1>1, <1>2, <1>4, <1>5 DEF OneHolder
<1>10. FileIsLast'
  BY <1>t, <1>0, <1>1, <1>3, <1>4 DEF FileIsLast, Numbered
<1>11. WitnessCovers'
  BY <1>1, <1>3, <1>4, <1>5, <1>6 DEF WitnessCovers, SameEvidence
<1>12. QED
  BY <1>7, <1>8, <1>9, <1>10, <1>11 DEF StoreInv, OpensAsLeft

-----------------------------------------------------------------------------
(* Failing. *)

\* A process stops, wherever it was.
LEMMA GoesDown ==
  ASSUME StoreInv, NEW p \in Procs, pc[p] # "down", pc' = [pc EXCEPT ![p] = "down"],
         opening' = [opening EXCEPT ![p] = FALSE], lock' = NoFile,
         UNCHANGED <<file, witness, marker, data, mem, acked, lost>>,
         dirty' \in BOOLEAN, used'.edits = used.edits,
         used' \in [edits : 0..MaxEdits, crashes : 0..MaxCrashes,
                    faults : 0..MaxFaults, releases : 0..MaxReleases]
  PROVE  StoreInv'
<1>t. TypeOK /\ OneHolder /\ FileIsLast /\ WitnessCovers
  BY Shape
<1>1. \A q \in Procs : pc'[q] = "down" /\ ~opening'[q]
  BY <1>t, OthersDown DEF TypeOK, OneHolder
<1>2. TypeOK'
  BY <1>t DEF TypeOK
<1>3. ReopensAsLeft' /\ EvidenceKept' /\ RefusedLeavesNoTrace'
  BY <1>1 DEF ReopensAsLeft, EvidenceKept, RefusedLeavesNoTrace
<1>4. OneHolder' /\ FileIsLast'
  BY <1>t, <1>1, DataAssumption DEF OneHolder, FileIsLast, Numbered
<1>5. SnapshotFor(file)' = SnapshotFor(file)
  BY DEF SnapshotFor
<1>6. WitnessCovers'
  BY <1>t, <1>1, <1>5 DEF WitnessCovers, SameEvidence
<1>7. QED
  BY <1>2, <1>3, <1>4, <1>6 DEF StoreInv, OpensAsLeft

\* A write fails.  The files say what was last written, however far the save had come.
LEMMA FailKeeps ==
  ASSUME StoreInv, NEW p \in Procs, Fail(p)
  PROVE  StoreInv'
<1>t. /\ TypeOK /\ OneHolder /\ FileIsLast /\ WitnessCovers
      /\ acked \in States(Digests) /\ acked # NoFile
  BY Shape
<1>1. /\ pc[p] \in {"witness", "marker", "state"} /\ used.faults < MaxFaults
      /\ used' = [used EXCEPT !.faults = @ + 1]
      /\ UNCHANGED <<file, witness, marker, acked, lost>>
  BY DEF Fail, files
<1>2. /\ used'.edits = used.edits
      /\ used' \in [edits : 0..MaxEdits, crashes : 0..MaxCrashes,
                    faults : 0..MaxFaults, releases : 0..MaxReleases]
  BY <1>t, <1>1, DataAssumption DEF TypeOK
<1>3. CASE opening[p]
  <2>1. /\ pc' = [pc EXCEPT ![p] = "down"] /\ opening' = [opening EXCEPT ![p] = FALSE]
        /\ lock' = NoFile /\ UNCHANGED <<data, mem, dirty>>
    BY <1>3 DEF Fail, memory
  <2>2. QED
    BY <1>t, <1>1, <1>2, <2>1, GoesDown DEF TypeOK
<1>4. CASE ~opening[p]
  <2>1. /\ pc' = [pc EXCEPT ![p] = "up"] /\ UNCHANGED <<lock, opening>>
        /\ Restored(p, SnapshotFor(file)) \/ NotRestored(p)
    BY <1>4 DEF Fail, RestoreLocked
  <2>2. /\ file = acked /\ mem[p] = acked /\ ~lost /\ witness # NoFile
        /\ SnapshotFor(file) = acked
    BY <1>t, <1>1, <1>4 DEF OneHolder, WitnessCovers
  <2>3. NormalizeState(Rehydrate(file, SnapshotFor(file))) = acked
    BY <1>t, <2>2, Bringing
  <2>4. /\ data' \in [Procs -> States(Digests)] /\ mem' = mem /\ dirty' \in BOOLEAN
        /\ data'[p] = acked \/ (data'[p] = data[p] /\ dirty')
    <3>1. CASE Restored(p, SnapshotFor(file))
      <4>1. data' = [data EXCEPT ![p] = acked] /\ mem' = [mem EXCEPT ![p] = acked] /\ dirty' = FALSE
        BY <2>2, <2>3, <3>1 DEF Restored
      <4>2. QED
        BY <1>t, <2>2, <4>1 DEF TypeOK
    <3>2. CASE NotRestored(p)
      BY <1>t, <3>2 DEF NotRestored, memory, TypeOK
    <3>3. QED
      BY <2>1, <3>1, <3>2
  <2>5. \A q \in Procs : q # p => pc[q] = "down" /\ ~opening[q]
    BY <1>t, <1>1, OthersDown DEF OneHolder
  <2>6. pc'[p] = "up" /\ \A q \in Procs : q # p => pc'[q] = "down"
    BY <1>t, <2>1, <2>5 DEF TypeOK
  <2>7. TypeOK'
    BY <1>t, <1>1, <1>2, <2>1, <2>4 DEF TypeOK
  <2>8. ReopensAsLeft' /\ EvidenceKept'
    BY <1>4, <2>1, <2>5 DEF ReopensAsLeft, EvidenceKept
  <2>9. RefusedLeavesNoTrace'
    BY <1>1, <2>4, <2>6 DEF RefusedLeavesNoTrace
  <2>10. OneHolder'
    BY <1>t, <1>1, <1>4, <2>1, <2>2, <2>4, <2>5, <2>6 DEF OneHolder
  <2>11. FileIsLast'
    BY <1>t, <1>1, <1>2, <2>4, <2>6 DEF FileIsLast, Numbered
  <2>12. SnapshotFor(file)' = SnapshotFor(file)
    BY <1>1 DEF SnapshotFor
  <2>13. WitnessCovers'
    BY <1>t, <1>1, <2>2, <2>4, <2>6, <2>12 DEF WitnessCovers, SameEvidence
  <2>14. QED
    BY <2>7, <2>8, <2>9, <2>10, <2>11, <2>13 DEF StoreInv, OpensAsLeft
<1>5. QED
  BY <1>3, <1>4

LEMMA StopKeeps ==
  ASSUME StoreInv, NEW p \in Procs, Crash(p) \/ Close(p)
  PROVE  StoreInv'
<1>t. TypeOK /\ OneHolder
  BY Shape
<1>1. /\ pc[p] # "down" /\ pc' = [pc EXCEPT ![p] = "down"] /\ lock' = NoFile /\ dirty' = FALSE
      /\ UNCHANGED <<file, witness, marker, data, mem, acked, lost>>
  BY DEF Crash, Close, files, memory
<1>2. opening' = [opening EXCEPT ![p] = FALSE]
  <2>1. CASE Crash(p)
    BY <2>1 DEF Crash
  <2>2. CASE Close(p)
    <3>1. opening' = opening /\ opening[p] = FALSE /\ opening \in [Procs -> BOOLEAN]
      BY <1>t, <2>2 DEF Close, OneHolder, TypeOK
    <3>2. QED
      BY <3>1
  <2>3. QED
    BY <2>1, <2>2
<1>3. /\ used'.edits = used.edits
      /\ used' \in [edits : 0..MaxEdits, crashes : 0..MaxCrashes,
                    faults : 0..MaxFaults, releases : 0..MaxReleases]
  <2>1. used' = used \/ (used.crashes < MaxCrashes /\ used' = [used EXCEPT !.crashes = @ + 1])
    BY DEF Crash, Close
  <2>2. QED
    BY <1>t, <2>1, DataAssumption DEF TypeOK
<1>4. dirty' \in BOOLEAN
  BY <1>1
<1>5. QED
  BY <1>1, <1>2, <1>3, <1>4, GoesDown

\* An older release drops the digests; the witness has them, or is told to be of another state.
LEMMA OldReleaseKeeps ==
  ASSUME StoreInv, OldRelease
  PROVE  StoreInv'
<1>t. /\ TypeOK /\ OneHolder /\ FileIsLast /\ WitnessCovers
      /\ acked \in States(Digests) /\ acked \in States(AnyDigest) /\ acked # NoFile
  BY Shape
<1>0. PICK l : l = (lost \/ witness = NoFile \/ Stripped(witness.current) # file')
  OBVIOUS
<1>1. /\ \A p \in Procs : pc[p] = "down"
      /\ file # NoFile /\ used.releases < MaxReleases
      /\ used' = [used EXCEPT !.releases = @ + 1]
      /\ file' = Stripped(file) /\ lost' = l
      /\ UNCHANGED <<witness, marker, lock, pc, opening, data, mem, acked, dirty>>
  BY <1>0 DEF OldRelease, memory
<1>2. file' = Stripped(acked) /\ Stripped(acked) \in States(AnyDigest)
  BY <1>t, <1>1, Stripping DEF FileIsLast
<1>3. file' # NoFile
  BY <1>2, DataAssumption DEF AnyDigest
<1>4. /\ used'.edits = used.edits
      /\ used' \in [edits : 0..MaxEdits, crashes : 0..MaxCrashes,
                    faults : 0..MaxFaults, releases : 0..MaxReleases]
  BY <1>t, <1>1, DataAssumption DEF TypeOK
<1>5. TypeOK'
  <2>1. lost' \in BOOLEAN
    BY <1>0, <1>1, <1>t DEF TypeOK
  <2>2. QED
    BY <1>t, <1>1, <1>2, <1>4, <2>1 DEF TypeOK, AnyDigest
<1>6. ReopensAsLeft' /\ EvidenceKept' /\ RefusedLeavesNoTrace'
  BY <1>t, <1>1 DEF OneHolder, ReopensAsLeft, EvidenceKept, RefusedLeavesNoTrace
<1>7. OneHolder' /\ FileIsLast'
  BY <1>t, <1>1, <1>2, <1>3, <1>4 DEF OneHolder, FileIsLast, Numbered
<1>8. WitnessCovers'
  <2>1. witness = NoFile => file' = Stripped(acked) /\ acked = NormalizeState(file')
    BY <1>t, <1>1, <1>2 DEF WitnessCovers
  <2>2. ASSUME witness # NoFile, ~lost'
        PROVE  SnapshotFor(file)' = acked /\ witness.current = acked
    <3>1. ~lost /\ Stripped(witness.current) = Stripped(acked)
      BY <1>0, <1>1, <1>2, <2>2
    <3>2. witness.current = acked /\ witness.previous \in States(Digests) \cup {NoFile}
      BY <1>t, <1>1, <2>2, <3>1 DEF WitnessCovers, SameEvidence, TypeOK, Documents
    <3>3. file' \in States(Digests) => file' = acked
      BY <1>t, <1>2, Stripping
    <3>4. QED
      BY <1>1, <2>2, <3>2, <3>3 DEF SnapshotFor
  <2>3. QED
    BY <1>1, <1>3, <2>1, <2>2 DEF WitnessCovers, SameEvidence
<1>9. QED
  BY <1>5, <1>6, <1>7, <1>8 DEF StoreInv, OpensAsLeft

-----------------------------------------------------------------------------
(* The theorems. *)

LEMMA InitHolds == Init => StoreInv
<1> SUFFICES ASSUME Init
             PROVE  StoreInv
  OBVIOUS
<1>1. /\ file \in Legacy \cup {NoFile} /\ witness = NoFile /\ marker = FALSE /\ lock = NoFile
      /\ pc = [p \in Procs |-> "down"] /\ opening = [p \in Procs |-> FALSE]
      /\ data = [p \in Procs |-> InitialState] /\ mem = [p \in Procs |-> NoFile]
      /\ dirty = FALSE /\ lost = FALSE
      /\ used = [edits |-> 0, crashes |-> 0, faults |-> 0, releases |-> 0]
      /\ acked = IF file = NoFile THEN InitialState ELSE NormalizeState(file)
  BY DEF Init, NormalizeState
<1>2. InitialState \in States(Digests)
  BY DEF InitialState, States
<1>3. file # NoFile => /\ file \in States({Missing}) /\ file \in States(AnyDigest)
                       /\ acked = NormalizeState(file)
  BY <1>1, DataAssumption DEF States, Record, AnyDigest
<1>4. file # NoFile => acked \in States(Digests) /\ Stripped(acked) = file
  <2>1. SUFFICES ASSUME file # NoFile
                 PROVE  acked \in States(Digests) /\ Stripped(acked) = file
    OBVIOUS
  <2>2. Rehydrate(file, NoFile) = file
    BY <1>3, <2>1 DEF Rehydrate, KnownBy, States
  <2>3. acked \in States(Digests) /\ Stripped(acked) = Stripped(file)
    BY <1>3, <2>1, <2>2, Loading
  <2>4. ASSUME NEW c \in Changes
        PROVE  Stripped(file)[c] = file[c]
    BY <1>3, <2>1 DEF Stripped, States, Record
  <2>5. Stripped(file) = [c \in Changes |-> Stripped(file)[c]] /\ file = [c \in Changes |-> file[c]]
    BY <1>3, <2>1 DEF Stripped, States
  <2>6. Stripped(file) = file
    BY <2>4, <2>5
  <2>7. QED
    BY <2>3, <2>6
<1>5. acked \in States(Digests)
  BY <1>1, <1>2, <1>4
<1>6. TypeOK
  <2>1. marker \in BOOLEAN /\ dirty \in BOOLEAN /\ lost \in BOOLEAN /\ opening \in [Procs -> BOOLEAN]
    BY <1>1
  <2>2. used \in [edits : 0..MaxEdits, crashes : 0..MaxCrashes,
                  faults : 0..MaxFaults, releases : 0..MaxReleases]
    BY <1>1, DataAssumption
  <2>3. file \in States(Digests \cup {Missing}) \cup {NoFile}
    BY <1>1, <1>3 DEF AnyDigest
  <2>4. QED
    BY <1>1, <1>2, <1>5, <2>1, <2>2, <2>3 DEF TypeOK
<1>7. \A p \in Procs : pc[p] = "down" /\ ~opening[p]
  BY <1>1
<1>8. Numbered(acked)
  <2>1. ASSUME NEW c \in Changes, acked[c] # Absent
        PROVE  acked[c].rev <= used.edits
    <3>1. CASE file = NoFile
      BY <1>1, <2>1, <3>1 DEF InitialState
    <3>2. CASE file # NoFile
      <4>1. file[c] # Absent /\ acked[c] = Complete(file[c]) /\ file[c] \in Record(AnyDigest)
        BY <1>3, <2>1, <3>2 DEF NormalizeState, Complete, States
      <4>2. acked[c].rev = file[c].rev /\ file[c].rev = 0
        BY <1>1, <3>2, <4>1, OneRecord, DataAssumption
      <4>3. QED
        BY <1>1, <4>2
    <3>3. QED
      BY <3>1, <3>2
  <2>2. QED
    BY <2>1 DEF Numbered
<1>9. FileIsLast
  BY <1>1, <1>4, <1>7, <1>8 DEF FileIsLast
<1>10. ReopensAsLeft /\ EvidenceKept /\ RefusedLeavesNoTrace /\ OneHolder
  BY <1>1, <1>7, DataAssumption DEF ReopensAsLeft, EvidenceKept, RefusedLeavesNoTrace, OneHolder
<1>11. WitnessCovers
  BY <1>1, <1>3, <1>4, <1>7 DEF WitnessCovers
<1>12. QED
  BY <1>6, <1>9, <1>10, <1>11 DEF StoreInv, OpensAsLeft

LEMMA StoreStep ==
  ASSUME StoreInv, [Next]_vars
  PROVE  StoreInv'
<1>1. ASSUME UNCHANGED vars
      PROVE  StoreInv'
  BY <1>1 DEF vars, StoreInv, OpensAsLeft, TypeOK, ReopensAsLeft, EvidenceKept, OneHolder, FileIsLast,
     WitnessCovers, SameEvidence, SnapshotFor, Numbered, RefusedLeavesNoTrace, Contents
<1>2. CASE Next
  BY <1>1, <1>2, StartKeeps, EditKeeps, WitnessKeeps, MarkerKeeps, StateKeeps, FailKeeps,
     StopKeeps, OldReleaseKeeps DEF Next, Save, Stopped
<1>3. QED
  BY <1>1, <1>2

LEMMA AlwaysStoreInv == Spec => []StoreInv
BY InitHolds, StoreStep, PTL DEF Spec

\* However a process ended (killed between any two of the three files, a failed write, an
\* orderly stop) and whatever an older release did to the file since, New opens the store
\* with the content that was last written and, but for the one exception that EvidenceKept
\* names, with the digests recorded for it.
THEOREM StoreOpensAsLeft == Spec => []OpensAsLeft
<1>1. StoreInv => OpensAsLeft
  BY DEF StoreInv
<1>2. QED
  BY AlwaysStoreInv, <1>1, PTL

\* An operation whose save failed leaves nothing of itself in the memory of the process,
\* unless restoreLocked could not read the files either.
THEOREM RefusalLeavesNoTrace == Spec => []RefusedLeavesNoTrace
<1>1. StoreInv => RefusedLeavesNoTrace
  BY DEF StoreInv
<1>2. QED
  BY AlwaysStoreInv, <1>1, PTL
=============================================================================
