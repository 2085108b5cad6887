------------------------------ MODULE FileStore ------------------------------
(***************************************************************************)
(* The file backend of the store (internal/store/store.go,                 *)
(* migration_witness.go, instance_lock.go, backend.go).                    *)
(*                                                                         *)
(* One process keeps the whole state in memory and rewrites three files on *)
(* every operation: the migration witness (the digests recorded for the    *)
(* state about to be written and for the one before it), the marker that   *)
(* makes the witness mandatory, and the state file.  Each file is replaced *)
(* atomically; the three are not replaced together, so the process may     *)
(* stop, or a write may fail, between any two of them.  While the process  *)
(* is stopped an older release may rewrite the state file; it drops the    *)
(* digests, which it does not know.                                        *)
(*                                                                         *)
(* A change is known by the ORIGINAL text its digest was taken from; only  *)
(* the redacted BODY is stored.  Two originals may have one body, and then *)
(* the digest cannot be computed again from what is stored: that is what   *)
(* the witness is for.  A snapshot of the witness is represented by the    *)
(* content it was built for: its SHA-256 names that content and its        *)
(* entries are the digests in it.                                          *)
(***************************************************************************)
EXTENDS Naturals, FiniteSets

CONSTANTS
  Changes,     \* change ids
  Originals,   \* submitted texts, and so also their digests
  Bodies,      \* redacted texts, and so also their digests
  Redact,      \* [Originals -> Bodies]: changegate.Redact
  Legacy,      \* states an older release may have left, without a witness
  Procs,       \* processes that may be started on one data file
  NoFile,      \* a file that does not exist; the empty snapshot
  Absent,      \* a change that was never created
  Missing,     \* a digest the older release dropped
  MaxEdits,    \* bound: operations tried
  MaxCrashes,  \* bound: processes killed
  MaxFaults,   \* bound: writes that fail
  MaxReleases  \* bound: excursions to the older release


VARIABLES
  file,      \* the state file
  witness,   \* the witness document: [current, previous]
  marker,    \* the ".required" marker exists
  lock,      \* who holds <state>.instance.lock
  pc,        \* of each process: "down", "up", or the file it writes next
  opening,   \* the save in progress is the one New ends with
  data,      \* Store.data
  mem,       \* Store.migrationWitness
  acked,     \* history: the data of the last operation whose state file was written
  dirty,     \* history: a restore failed since the last success
  lost,      \* history: the older release ran on a state the witness is ahead of
  used       \* the bounds' counters

files == <<file, witness, marker>>
memory == <<data, mem>>
history == <<acked, dirty, lost>>
vars == <<file, witness, marker, lock, pc, opening, data, mem,
          acked, dirty, lost, used>>

-----------------------------------------------------------------------------
(* The stored data                                                         *)

Digests == Originals \cup Bodies

\* A stored change: what the witness knows it by (id, environment, type and
\* the digests of the stored texts: here the body), the recorded digests, and
\* everything else about it (status, approvals, plan): here the number of the
\* operation that wrote it, 0 for one that was there before.
Record(digests) == [body : Bodies, digest : digests, rev : 0..MaxEdits]

States(digests) == [Changes -> Record(digests) \cup {Absent}]

\* The witness document holds two of them.
Documents == [current : States(Digests), previous : States(Digests) \cup {NoFile}]

InitialState == [c \in Changes |-> Absent]

\* Every missing digest is computed from the text that is stored.
Complete(r) == IF r # Absent /\ r.digest = Missing
               THEN [r EXCEPT !.digest = r.body] ELSE r

NormalizeState(s) == [c \in Changes |-> Complete(s[c])]

\* The snapshot's digests replace those of every change it knows by the same
\* id and texts.
KnownBy(snapshot, s, c) ==
  /\ snapshot # NoFile
  /\ s[c] # Absent
  /\ snapshot[c] # Absent
  /\ snapshot[c].body = s[c].body

Rehydrate(s, snapshot) ==
  [c \in Changes |-> IF KnownBy(snapshot, s, c)
                     THEN [s[c] EXCEPT !.digest = snapshot[c].digest]
                     ELSE s[c]]

\* What the older release leaves of a state it has read and written again.
Stripped(s) == [c \in Changes |-> IF s[c] = Absent THEN Absent
                                  ELSE [s[c] EXCEPT !.digest = Missing]]

\* A digest that was dropped is none, and what is absent is no change or file.
ASSUME DataAssumption ==
  /\ Redact \in [Originals -> Bodies]
  /\ Legacy \subseteq States({Missing})
  /\ \A s \in Legacy, c \in Changes : s[c] # Absent => s[c].rev = 0
  /\ {MaxEdits, MaxCrashes, MaxFaults, MaxReleases} \subseteq Nat
  /\ Missing \notin Digests
  /\ Absent \notin Record(Digests \cup {Missing})
  /\ NoFile \notin States(Digests \cup {Missing}) \cup Documents \cup Procs

-----------------------------------------------------------------------------
(* The witness                                                             *)

\* May the witness be loaded beside this state content?
WitnessReadable(content) ==
  IF witness = NoFile THEN ~marker ELSE content # NoFile

\* The snapshot that belongs to the state content: the current one, the
\* previous one when a save was cut short, and the current one again when
\* somebody else wrote the state.
SnapshotFor(content) ==
  IF witness = NoFile THEN NoFile
  ELSE IF witness.previous # NoFile /\ witness.previous = content
       THEN witness.previous
       ELSE witness.current

\* Mutant of Document: the replaced state is not kept.
DocumentDropsPrevious(current, previous) ==
  [current |-> current, previous |-> NoFile]

\* The document a save writes: the state to come and, if it differs, the one
\* it replaces.
Document(current, previous) ==
  [current |-> current,
   previous |-> IF previous = current THEN NoFile ELSE previous]

-----------------------------------------------------------------------------
(* Starting                                                                *)

\* A process that does not get the lock fails before it touches a file.
LockFree == lock = NoFile

\* newFileStore and New up to the save New ends with: the lock, the state
\* file (or the initial state), the witness, rehydration, normalisation.
Start(p) ==
  /\ pc[p] = "down"
  /\ LockFree
  /\ WitnessReadable(file)
  /\ LET content == IF file = NoFile THEN InitialState ELSE file
         snapshot == SnapshotFor(file)
     IN /\ data' = [data EXCEPT ![p] = NormalizeState(Rehydrate(content, snapshot))]
        /\ mem' = [mem EXCEPT ![p] = snapshot]
  /\ lock' = p
  /\ pc' = [pc EXCEPT ![p] = "witness"]
  /\ opening' = [opening EXCEPT ![p] = TRUE]
  /\ UNCHANGED <<files, history, used>>

\* New fails: the witness is required and missing, or there is one and no
\* state.  The lock is given back and nothing was written.
Wedged == ~WitnessReadable(file)

-----------------------------------------------------------------------------
(* Saving                                                                  *)

\* An operation: under the store's mutex it changes the data, then saves.
Edit(p, c, o) ==
  /\ pc[p] = "up"
  /\ used.edits < MaxEdits
  /\ used' = [used EXCEPT !.edits = @ + 1]
  /\ data' = [data EXCEPT ![p][c] = [body |-> Redact[o], digest |-> o,
                                     rev |-> used.edits + 1]]
  /\ pc' = [pc EXCEPT ![p] = "witness"]
  /\ UNCHANGED <<files, lock, opening, mem, history>>

\* Mutant of WriteWitness: the marker is written before the witness.
WriteWitnessAfterMarker(p) ==
  /\ pc[p] = "witness"
  /\ IF marker THEN /\ witness' = Document(data[p], mem[p])
                    /\ pc' = [pc EXCEPT ![p] = "state"]
               ELSE UNCHANGED <<witness, pc>>
  /\ marker' = TRUE
  /\ UNCHANGED <<file, lock, opening, memory, history, used>>

\* persistMigrationWitness, its first file
WriteWitness(p) ==
  /\ pc[p] = "witness"
  /\ witness' = Document(data[p], mem[p])
  /\ pc' = [pc EXCEPT ![p] = IF marker THEN "state" ELSE "marker"]
  /\ UNCHANGED <<file, marker, lock, opening, memory, history, used>>

\* ensureMigrationWitnessMarker, when there is none
WriteMarker(p) ==
  /\ pc[p] = "marker"
  /\ marker' = TRUE
  /\ pc' = [pc EXCEPT ![p] = "state"]
  /\ UNCHANGED <<file, witness, lock, opening, memory, history, used>>

\* The state file is replaced and the operation, or New, reports success.
Succeed(p) ==
  /\ pc[p] = "state"
  /\ mem' = [mem EXCEPT ![p] = data[p]]
  /\ pc' = [pc EXCEPT ![p] = "up"]
  /\ opening' = [opening EXCEPT ![p] = FALSE]
  /\ acked' = data[p]
  /\ dirty' = FALSE
  /\ lost' = FALSE
  /\ UNCHANGED <<witness, marker, lock, data, used>>

WriteState(p) ==
  /\ Succeed(p)
  /\ file' = data[p]

-----------------------------------------------------------------------------
(* Failing                                                                 *)

\* restoreLocked: the data becomes what the files say.  If the witness
\* cannot be read the changed data stays.
Restored(p, snapshot) ==
  /\ data' = [data EXCEPT ![p] = NormalizeState(Rehydrate(file, snapshot))]
  /\ mem' = [mem EXCEPT ![p] = snapshot]
  /\ dirty' = FALSE

NotRestored(p) == UNCHANGED memory /\ dirty' = TRUE

\* Mutant of RestoreLocked: the changed data stays as if it were saved.
RestoreKeepsData(p) == UNCHANGED <<memory, dirty>>

RestoreLocked(p) == Restored(p, SnapshotFor(file)) \/ NotRestored(p)

\* A write fails before the file is replaced.  The operation is refused; when
\* it was the save that ends New, the process gives the lock back and exits.
Fail(p) ==
  /\ pc[p] \in {"witness", "marker", "state"}
  /\ used.faults < MaxFaults
  /\ used' = [used EXCEPT !.faults = @ + 1]
  /\ IF opening[p]
     THEN /\ pc' = [pc EXCEPT ![p] = "down"]
          /\ opening' = [opening EXCEPT ![p] = FALSE]
          /\ lock' = NoFile
          /\ UNCHANGED <<memory, dirty>>
     ELSE /\ pc' = [pc EXCEPT ![p] = "up"]
          /\ RestoreLocked(p)
          /\ UNCHANGED <<lock, opening>>
  /\ UNCHANGED <<files, acked, lost>>

\* The process is killed; the operating system drops its lock.
Crash(p) ==
  /\ pc[p] # "down"
  /\ used.crashes < MaxCrashes
  /\ used' = [used EXCEPT !.crashes = @ + 1]
  /\ pc' = [pc EXCEPT ![p] = "down"]
  /\ opening' = [opening EXCEPT ![p] = FALSE]
  /\ lock' = NoFile
  /\ dirty' = FALSE
  /\ UNCHANGED <<files, memory, acked, lost>>

\* Store.Close at the end of an orderly stop
Close(p) ==
  /\ pc[p] = "up"
  /\ pc' = [pc EXCEPT ![p] = "down"]
  /\ lock' = NoFile
  /\ dirty' = FALSE
  /\ UNCHANGED <<files, opening, memory, acked, lost, used>>

\* The operator goes back to the older release and forward again.
OldRelease ==
  /\ \A p \in Procs : pc[p] = "down"
  /\ file # NoFile
  /\ used.releases < MaxReleases
  /\ used' = [used EXCEPT !.releases = @ + 1]
  /\ file' = Stripped(file)
  /\ lost' = (lost \/ witness = NoFile \/ Stripped(witness.current) # file')
  /\ UNCHANGED <<witness, marker, lock, pc, opening, memory, acked, dirty>>

-----------------------------------------------------------------------------
Init ==
  /\ file \in Legacy \cup {NoFile}
  /\ witness = NoFile /\ marker = FALSE
  /\ lock = NoFile
  /\ pc = [p \in Procs |-> "down"]
  /\ opening = [p \in Procs |-> FALSE]
  /\ data = [p \in Procs |-> InitialState]
  /\ mem = [p \in Procs |-> NoFile]
  /\ acked = IF file = NoFile THEN InitialState ELSE [c \in Changes |-> Complete(file[c])]
  /\ dirty = FALSE /\ lost = FALSE
  /\ used = [edits |-> 0, crashes |-> 0, faults |-> 0, releases |-> 0]

Save(p) == WriteWitness(p) \/ WriteMarker(p) \/ WriteState(p)

\* Nothing more can happen once New refuses the files that are there.
Stopped == Wedged /\ (\A p \in Procs : pc[p] = "down") /\ UNCHANGED vars

Next ==
  \/ \E p \in Procs : \/ Start(p)
                      \/ \E c \in Changes, o \in Originals : Edit(p, c, o)
                      \/ Save(p)
                      \/ Fail(p)
                      \/ Crash(p)
                      \/ Close(p)
  \/ OldRelease
  \/ Stopped

\* The service manager restarts the process, and a save that began ends.
Fairness ==
  /\ WF_vars(\E p \in Procs : Start(p))
  /\ \A p \in Procs : WF_vars(Save(p))

Spec == Init /\ [][Next]_vars /\ Fairness

-----------------------------------------------------------------------------
(* Properties                                                              *)

\* The types; and every digest in memory is there, so that a witness can be
\* built from the data (buildMigrationWitnessSnapshot refuses a gap).
TypeOK ==
  /\ file \in States(Digests \cup {Missing}) \cup {NoFile}
  /\ witness \in Documents \cup {NoFile}
  /\ marker \in BOOLEAN
  /\ lock \in Procs \cup {NoFile}
  /\ pc \in [Procs -> {"down", "up", "witness", "marker", "state"}]
  /\ opening \in [Procs -> BOOLEAN]
  /\ data \in [Procs -> States(Digests)]
  /\ mem \in [Procs -> States(Digests) \cup {NoFile}]
  /\ acked \in States(Digests)
  /\ dirty \in BOOLEAN /\ lost \in BOOLEAN
  /\ used \in [edits : 0..MaxEdits, crashes : 0..MaxCrashes,
               faults : 0..MaxFaults, releases : 0..MaxReleases]

Contents(s) == [c \in Changes |-> IF s[c] = Absent THEN Absent
                                  ELSE <<s[c].body, s[c].rev>>]

\* However the last process ended, and whatever an older release did to the
\* digests since, the store opens with the content of the last operation whose
\* state was written: nothing acknowledged is lost, nothing is half there
\* (saveLocked, restoreLocked, New).
ReopensAsLeft ==
  \A p \in Procs : opening[p] => Contents(data[p]) = Contents(acked)

\* ... and with the digests that were recorded for that content, also when
\* they cannot be computed again from what is stored: never the digest of the
\* interrupted operation beside the status of the one before it.  The one
\* exception is an older release that runs after a save was cut short between
\* witness and state (loadMigrationWitnessForState, the default branch of its
\* switch: the current snapshot is then not the state's).
EvidenceKept ==
  \A p \in Procs : opening[p] /\ ~lost => data[p] = acked

\* A process between two operations shows what the last success left: an
\* operation that was refused leaves no trace in memory unless the restore
\* failed too (saveLocked, restoreLocked), and no second process works on the
\* same file (acquireInstanceLock).
RefusedLeavesNoTrace ==
  \A p \in Procs : pc[p] = "up" /\ ~dirty => data[p] = acked

\* Over and over the store is open, for whatever reason it went down, unless
\* the very first save was cut short after its witness: New then refuses the
\* witness without a state (loadMigrationWitnessForState).
OpensAgain ==
  []<>(\/ \E p \in Procs : pc[p] = "up"
       \/ Wedged /\ file = NoFile /\ acked = InitialState)

\* Who works on the file holds the lock; who opens it has a save to make, and who has
\* opened it wrote the file and the witness beside it.
OneHolder ==
  \A p \in Procs :
    /\ pc[p] # "down" <=> lock = p
    /\ opening[p] => pc[p] \in {"witness", "marker", "state"}
    /\ pc[p] \in {"marker", "state"} => witness = Document(data[p], mem[p])
    /\ pc[p] # "down" /\ ~opening[p] =>
         witness # NoFile /\ file = acked /\ mem[p] = acked /\ ~lost

\* Two states with the same content are the same state.
SameEvidence(s) == Stripped(s) = Stripped(acked) => s = acked

\* No change has the number of an operation to come.
Numbered(s) == \A c \in Changes : s[c] # Absent => s[c].rev <= used.edits

\* The state file holds the last state written, with its digests or without them.
FileIsLast ==
  /\ IF file = NoFile THEN acked = InitialState ELSE file \in {acked, Stripped(acked)}
  /\ Numbered(acked) /\ \A p \in Procs : pc[p] # "down" => Numbered(data[p])

\* The witness has the digests of the state file, unless an older release ran in between;
\* a state without a witness has only digests that can be computed again.
WitnessCovers ==
  /\ witness = NoFile /\ file # NoFile => file = Stripped(acked) /\ acked = NormalizeState(file)
  /\ witness # NoFile /\ file # NoFile /\ ~lost =>
       SnapshotFor(file) = acked /\ SameEvidence(witness.current)
  /\ ~lost => \A p \in Procs : pc[p] # "down" => SameEvidence(data[p])
  /\ file = NoFile => ~lost /\ \A p \in Procs : pc[p] # "down" => data[p] = acked /\ mem[p] = NoFile

\* The store opens with the content and with the digests it was left with, because
\* the three files can be put together again wherever a save was cut short.
OpensAsLeft ==
  TypeOK /\ ReopensAsLeft /\ EvidenceKept /\ OneHolder /\ FileIsLast /\ WitnessCovers
=============================================================================
