------------------------------ MODULE SharedState ------------------------------
(***************************************************************************)
(* Several ChangeGuard processes over one PostgreSQL database              *)
(* (internal/store/backend.go, postgres_normalized.go, and the Postgres    *)
(* side of store.go and passport.go).                                      *)
(*                                                                         *)
(* Every instance holds the whole state in memory, with the version of the *)
(* row dbguard_state it was read at.  A mutation changes the memory and    *)
(* saves all of it if the row still has that version; one transaction also *)
(* copies it into tables of its own.  A save that fails reloads the state, *)
(* and the passport operations then put back what they had copied.  The    *)
(* gate and RecordAudit work on the database directly.                     *)
(*                                                                         *)
(* An instance's lock is held from the first read of an operation to its   *)
(* last write, and of the other instances' steps in between only those     *)
(* before its transaction matter, so that an operation is one action.      *)
(* One change and its passports stand for all; the organization has one    *)
(* audit chain.  The hash of an event is its number.                       *)
(***************************************************************************)
EXTENDS Naturals, Sequences, FiniteSets, Functions

CONSTANTS
  Instances,   \* processes
  Passports,   \* identifiers of passports
  Consumers,   \* CI jobs
  MaxVersion,  \* bound: versions of dbguard_state
  MaxOutages,  \* bound: saves and transactions that fail or are not acknowledged
  None

ASSUME SharedAssumption ==
  /\ MaxVersion \in Nat \ {0}
  /\ MaxOutages \in Nat
  /\ None \notin Passports \cup Consumers
  /\ IsFiniteSet(Passports)

VARIABLES
  db,         \* the row dbguard_state: version and payload
  rows,       \* changeguard_passports
  auditRows,  \* changeguard_audit_events
  mem,        \* per instance: data, version, persisted
  expired,    \* passports whose ExpiresAt has passed
  outages,    \* the bound used up
  answers,    \* history: <<passport, consumer>> of every consume that was answered OK
  revoked     \* history: passports whose revocation was answered OK

tables == <<db, rows, auditRows>>
history == <<answers, revoked>>
vars == <<db, rows, auditRows, mem, expired, outages, answers, revoked>>

-----------------------------------------------------------------------------
(* The state that is saved as a whole. *)

Statuses == {"ACTIVE", "CONSUMED", "REVOKED", "EXPIRED"}
Item == [id : Passports, status : Statuses, by : Consumers \cup {None}]

\* An event of the audit chain: PrevHash, and the passport whose consumption it records.
Event == [id : Nat, prev : Nat, of : Passports \cup {None}]

Data == [change : [status : {"APPROVED", "COMPLETED"}, version : Nat],
         passports : Seq(Item), audits : Seq(Event)]
Snapshot == [version : Nat, data : Data]

NoRow == [status |-> "NONE", by |-> None]

Init ==
  LET start == [change |-> [status |-> "APPROVED", version |-> 1],
                passports |-> << >>, audits |-> << >>]
  IN /\ db = [version |-> 1, data |-> start]
     /\ rows = [p \in Passports |-> NoRow]
     /\ auditRows = {}
     /\ mem = [i \in Instances |-> [data |-> start, version |-> 1, persisted |-> start]]
     /\ expired = {}
     /\ outages = 0
     /\ answers = {}
     /\ revoked = {}

\* materializeExpiredPassports, the part of normalizeState that matters here.
Materialize(ps) ==
  [k \in DOMAIN ps |-> IF ps[k].status = "ACTIVE" /\ ps[k].id \in expired
                       THEN [ps[k] EXCEPT !.status = "EXPIRED"] ELSE ps[k]]
Normalize(d) == [d EXCEPT !.passports = Materialize(@)]

\* appendAuditsLocked, linkAuditInState: every event names the one before it in its list.
\* Identifiers are random in the code; here the first ones that no row has.
Record(audits, whats) ==
  LET n == Cardinality(auditRows)
      last == IF audits = << >> THEN 0 ELSE audits[Len(audits)].id
  IN audits \o [k \in DOMAIN whats |->
       [id |-> n + k, prev |-> IF k = 1 THEN last ELSE n + k - 1, of |-> whats[k]]]

Index(ps, p) == CHOOSE k \in DOMAIN ps : ps[k].id = p
Knows(ps, p) == \E k \in DOMAIN ps : ps[k].id = p

-----------------------------------------------------------------------------
(* saveLocked *)

\* Mutant: the copy in the table always follows the payload.
SyncRowsAlways(rs, ps) ==
  [p \in Passports |->
    IF Knows(ps, p) THEN LET item == Materialize(ps)[Index(ps, p)]
                         IN [status |-> item.status, by |-> item.by]
    ELSE rs[p]]

\* Mutant: a row that exists is left alone.
SyncRowsInsertOnly(rs, ps) ==
  [p \in Passports |->
    LET item == Materialize(ps)[Index(ps, p)]
    IN IF Knows(ps, p) /\ rs[p].status = "NONE"
       THEN [status |-> item.status, by |-> item.by]
       ELSE rs[p]]

\* syncNormalizedState: a row is inserted, or replaced while it is ACTIVE.
SyncRows(rs, ps) ==
  [p \in Passports |->
    LET item == Materialize(ps)[Index(ps, p)]
    IN IF Knows(ps, p) /\ rs[p].status \in {"NONE", "ACTIVE", item.status}
       THEN [status |-> item.status, by |-> item.by]
       ELSE rs[p]]

\* The unique index changeguard_passports_one_active_idx.
IndexAllows(rs) == \A p, q \in Passports :
  rs[p].status = "ACTIVE" /\ rs[q].status = "ACTIVE" => p = q

\* Mutant: the version is not compared.
SavableAnyVersion(i, new) == IndexAllows(SyncRows(rows, new.passports))

Savable(i, new) ==
  /\ mem[i].version = db.version
  /\ IndexAllows(SyncRows(rows, new.passports))

\* The transaction of postgresBackend.Save.
Save(new) ==
  /\ db.version < MaxVersion
  /\ db' = [version |-> db.version + 1, data |-> new]
  /\ rows' = SyncRows(rows, new.passports)
  /\ auditRows' = auditRows \cup Range(new.audits)

\* restoreLocked: what it can leave in memory.  The state is read again; after an outage
\* it may be out of reach still, and the last state known to be saved is taken.
Restored(i) ==
  {[data |-> Normalize(db'.data), version |-> db'.version, persisted |-> db'.data]}
    \cup IF outages' = outages THEN {}
         ELSE {[mem[i] EXCEPT !.data = Normalize(mem[i].persisted)]}

Outage == outages < MaxOutages /\ outages' = outages + 1

Saved(i, new) ==
  /\ Savable(i, new)
  /\ Save(new)
  /\ mem' = [mem EXCEPT ![i] = [data |-> new, version |-> db.version + 1, persisted |-> new]]
  /\ UNCHANGED outages

\* The save is refused; or it cannot be made; or it is made and the answer is lost.
NotSaved(i, new) ==
  \/ ~Savable(i, new) /\ UNCHANGED <<tables, outages>>
  \/ Outage /\ UNCHANGED tables
  \/ Outage /\ Savable(i, new) /\ Save(new)

\* The operation goes on with the restored memory m, in which it puts back d.
PutBack(i, m, d) == mem' = [mem EXCEPT ![i] = [m EXCEPT !.data = d]]

-----------------------------------------------------------------------------
(* Mutations of the memory that are saved *)

\* UpdateChange: an edit of the change that leaves its status alone.
UpdateChange(i) ==
  LET new == [mem[i].data EXCEPT !.change.version = @ + 1, !.audits = Record(@, <<None>>)]
  IN /\ \/ Saved(i, new)
        \/ NotSaved(i, new) /\ \E m \in Restored(i) : PutBack(i, m, m.data)
     /\ UNCHANGED <<expired, history>>

\* CreatePassport: the passports of the change that ran out are marked first.
CreatePassport(i, p) ==
  LET d == mem[i].data
      lapsed == {k \in DOMAIN d.passports :
                   d.passports[k].status = "ACTIVE" /\ d.passports[k].id \in expired}
      item == [id |-> p, status |-> "ACTIVE", by |-> None]
      new == [d EXCEPT
               !.passports = Append(Materialize(@), item),
               !.audits = Record(@, [k \in 1..(Cardinality(lapsed) + 1) |-> None])]
      Undo(e) == [e EXCEPT !.passports = d.passports, !.audits = d.audits]
  IN /\ rows[p] = NoRow
     /\ d.change.status = "APPROVED"
     /\ \A k \in DOMAIN d.passports : d.passports[k].status = "ACTIVE" => k \in lapsed
     /\ \/ Saved(i, new)
        \/ NotSaved(i, new) /\ \E m \in Restored(i) : PutBack(i, m, Undo(m.data))
     /\ UNCHANGED <<expired, history>>

\* RevokePassport.  The item is put back at its old place in the list; when the list
\* has become shorter the process panics in the assignment and puts nothing back.
RevokePassport(i, p) ==
  LET d == mem[i].data
      k == Index(d.passports, p)
      new == [d EXCEPT !.passports[k].status = "REVOKED", !.audits = Record(@, <<None>>)]
      Undo(e) == IF k \in DOMAIN e.passports
                 THEN [e EXCEPT !.passports[k] = d.passports[k], !.audits = d.audits]
                 ELSE e
  IN /\ Knows(d.passports, p)
     /\ d.passports[k].status = "ACTIVE"
     /\ \/ Saved(i, new) /\ revoked' = revoked \cup {p}
        \/ /\ NotSaved(i, new)
           /\ \E m \in Restored(i) : PutBack(i, m, Undo(m.data))
           /\ UNCHANGED revoked
     /\ UNCHANGED <<expired, answers>>

\* RevokePassportsByChange.
RevokePassportsByChange(i) ==
  LET d == mem[i].data
      live == {k \in DOMAIN d.passports : d.passports[k].status = "ACTIVE"}
      new == [d EXCEPT
               !.passports = [k \in DOMAIN @ |-> IF k \in live
                                                 THEN [@[k] EXCEPT !.status = "REVOKED"]
                                                 ELSE @[k]],
               !.audits = Record(@, <<None>>)]
      Undo(e) == [e EXCEPT !.passports = d.passports, !.audits = d.audits]
  IN /\ live # {}
     /\ \/ Saved(i, new) /\ revoked' = revoked \cup {d.passports[k].id : k \in live}
        \/ /\ NotSaved(i, new)
           /\ \E m \in Restored(i) : PutBack(i, m, Undo(m.data))
           /\ UNCHANGED revoked
     /\ UNCHANGED <<expired, answers>>

-----------------------------------------------------------------------------
(* Transactions on the database itself *)

\* installPostgresSnapshot.
Install(i, snapshot) ==
  mem' = [mem EXCEPT ![i] = [data |-> Normalize(snapshot.data), version |-> snapshot.version,
                             persisted |-> snapshot.data]]

\* persistLegacyWitness under FOR UPDATE: the row is the one just read.  When the
\* acknowledgement is lost the caller has an error and keeps its memory.
Commit(i, new) ==
  /\ db.version < MaxVersion
  /\ db' = [version |-> db.version + 1, data |-> new]
  /\ auditRows' = auditRows \cup Range(new.audits)
  /\ \/ Install(i, db') /\ UNCHANGED outages
     \/ Outage /\ UNCHANGED mem

RecordAudit(i) ==
  /\ Commit(i, [db.data EXCEPT !.audits = Record(@, <<None>>)])
  /\ UNCHANGED <<rows, expired, history>>

\* usePassport meets a passport that ran out.
UseLapsed(i, p) ==
  LET k == Index(db.data.passports, p)
  IN /\ Knows(db.data.passports, p)
     /\ rows[p].status = "ACTIVE"
     /\ p \in expired
     /\ Commit(i, [db.data EXCEPT !.passports[k].status = "EXPIRED",
                                  !.audits = Record(@, <<None>>)])
     /\ rows' = [rows EXCEPT ![p].status = "EXPIRED"]
     /\ UNCHANGED <<expired, history>>

\* Mutant: the gate looks at the payload and not at the row.
ConsumePayload(i, p, c) ==
  LET k == Index(db.data.passports, p)
  IN /\ Knows(db.data.passports, p)
     /\ db.data.passports[k].status = "ACTIVE"
     /\ p \notin expired
     /\ db.data.change.status = "APPROVED"
     /\ Commit(i, [db.data EXCEPT
                    !.passports[k] = [@ EXCEPT !.status = "CONSUMED", !.by = c],
                    !.change = [status |-> "COMPLETED", version |-> @.version + 1],
                    !.audits = Record(@, <<p>>)])
     /\ rows' = [rows EXCEPT ![p] = [status |-> "CONSUMED", by |-> c]]
     /\ answers' = answers \cup IF outages' = outages THEN {<<p, c>>} ELSE {}
     /\ UNCHANGED <<expired, revoked>>

\* usePassport consumes: the row decides, the payload follows.
Consume(i, p, c) ==
  LET k == Index(db.data.passports, p)
  IN /\ Knows(db.data.passports, p)
     /\ rows[p].status = "ACTIVE"
     /\ p \notin expired
     /\ db.data.change.status = "APPROVED"
     /\ Commit(i, [db.data EXCEPT
                    !.passports[k] = [@ EXCEPT !.status = "CONSUMED", !.by = c],
                    !.change = [status |-> "COMPLETED", version |-> @.version + 1],
                    !.audits = Record(@, <<p>>)])
     /\ rows' = [rows EXCEPT ![p] = [status |-> "CONSUMED", by |-> c]]
     /\ answers' = answers \cup IF outages' = outages THEN {<<p, c>>} ELSE {}
     /\ UNCHANGED <<expired, revoked>>

\* The consumer asks again: the row says consumed, the payload says by whom.
Replay(i, p, c) ==
  LET ps == db.data.passports
  IN /\ Knows(ps, p)
     /\ rows[p].status = "CONSUMED"
     /\ ps[Index(ps, p)].status = "CONSUMED" /\ ps[Index(ps, p)].by = c
     /\ Install(i, db)
     /\ answers' = answers \cup {<<p, c>>}
     /\ UNCHANGED <<tables, expired, outages, revoked>>

\* usePassport without consume.
Verify(i, p) ==
  /\ Knows(db.data.passports, p)
  /\ rows[p].status = "ACTIVE"
  /\ p \notin expired
  /\ db.data.change.status = "APPROVED"
  /\ Install(i, db)
  /\ UNCHANGED <<tables, expired, outages, history>>

-----------------------------------------------------------------------------
(* The refresh loop, restarts, time *)

\* One round of StartRefresh: a newer state is installed; "persisted" stays what it was.
\* The loop reads before it takes the lock.  What commits elsewhere in between might as
\* well commit after it, and if this instance reloads in between, nothing is installed.
Refresh(i) ==
  /\ mem' = IF db.version > mem[i].version
            THEN [mem EXCEPT ![i].data = Normalize(db.data), ![i].version = db.version]
            ELSE mem
  /\ UNCHANGED <<tables, expired, outages, history>>

\* migrateNormalized: rows and payload that ran out are marked, and the version is
\* raised if the payload had one.
Migrated ==
  [version |-> IF Normalize(db.data) # db.data THEN db.version + 1 ELSE db.version,
   data |-> Normalize(db.data)]

\* NewPostgres: migrate, load, save.  A save that comes too late is ignored, since
\* its reload has the other instance's state.
Restart(i) ==
  LET swept == [p \in Passports |-> IF rows[p].status = "ACTIVE" /\ p \in expired
                                    THEN [rows[p] EXCEPT !.status = "EXPIRED"] ELSE rows[p]]
  IN /\ db.version + 1 < MaxVersion
     /\ \/ /\ db' = [Migrated EXCEPT !.version = @ + 1]
           /\ rows' = SyncRows(swept, Migrated.data.passports)
        \/ /\ db' = Migrated
           /\ rows' = swept
     /\ mem' = [mem EXCEPT ![i] = [data |-> db'.data, version |-> db'.version,
                                   persisted |-> db'.data]]
     /\ UNCHANGED <<auditRows, expired, outages, history>>

Expire(p) ==
  /\ rows[p] # NoRow
  /\ expired' = expired \cup {p}
  /\ UNCHANGED <<tables, mem, outages, history>>

Next ==
  \/ \E i \in Instances :
       \/ UpdateChange(i)
       \/ RevokePassportsByChange(i)
       \/ RecordAudit(i)
       \/ Refresh(i)
       \/ Restart(i)
       \/ \E p \in Passports :
            \/ CreatePassport(i, p)
            \/ RevokePassport(i, p)
            \/ UseLapsed(i, p)
            \/ Verify(i, p)
            \/ \E c \in Consumers : Consume(i, p, c) \/ Replay(i, p, c)
  \/ \E p \in Passports : Expire(p)

Spec == Init /\ [][Next]_vars

-----------------------------------------------------------------------------
(* Properties *)

TypeOK ==
  /\ db \in Snapshot
  /\ rows \in [Passports -> [status : Statuses \cup {"NONE"}, by : Consumers \cup {None}]]
  /\ auditRows \subseteq Event /\ IsFiniteSet(auditRows)
  /\ mem \in [Instances -> [data : Data, version : 1..db.version, persisted : Data]]
  /\ expired \subseteq Passports
  /\ outages \in Nat
  /\ answers \subseteq Passports \X Consumers
  /\ revoked \subseteq Passports

\* VerifyAuditChain succeeds on every instance and on the database, whatever was put
\* back over a reloaded state: a list is only ever extended by events linked to it.
Linked(audits) == \A k \in DOMAIN audits :
  audits[k].prev = IF k = 1 THEN 0 ELSE audits[k - 1].id
ChainVerifies ==
  /\ Linked(db.data.audits)
  /\ \A i \in Instances : Linked(mem[i].data.audits) /\ Linked(mem[i].persisted.audits)

\* The table of passports is never behind the payload: a passport that the payload
\* lists has a row, and if the payload says that it is over, so does the row.  The
\* gate relies on it when it asks only the row.
RowsLead == \A k \in DOMAIN db.data.passports :
  LET item == db.data.passports[k]
  IN /\ rows[item.id] # NoRow
     /\ item.status # "ACTIVE" => rows[item.id].status # "ACTIVE"

\* Whatever instance a CI job asks, and whatever stale state the instances write, a
\* passport is confirmed to one consumer only.
OneConsumer == \A a, b \in answers : a[1] = b[1] => a[2] = b[2]

\* A row that is no longer ACTIVE never changes: a stale instance cannot bring a
\* passport back.
RowsAreFinal == [][\A p \in Passports :
  rows[p].status \notin {"NONE", "ACTIVE"} => rows'[p] = rows[p]]_vars

\* A revocation that was confirmed holds on every instance: the gate consumes the
\* passport no more.
RevocationHolds == [][\A p \in revoked :
  rows[p].status # "CONSUMED" => rows'[p].status # "CONSUMED"]_vars

\* The version check protects the change: no instance overwrites an edit that another
\* one has saved, whatever it lost in races before.  This is what backend.go promises;
\* it does not hold after an outage (README, known divergences).
EditsAreKept == [][db'.data.change.version >= db.data.change.version]_vars

\* The same as long as the database was always within reach.
EditsAreKeptWhenReachable ==
  [][outages' = 0 => db'.data.change.version >= db.data.change.version]_vars

\* Every consumption of a passport is in the audit chain, as enterprise-operations.md
\* has it.  It does not hold after a refused save (README, known divergences).
ConsumptionIsAudited == \A p \in Passports : rows[p].status = "CONSUMED" =>
  \E k \in DOMAIN db.data.audits : db.data.audits[k].of = p

\* Every copy of the state that is stored or held by an instance, to be saved again.
Held == {db.data} \cup {mem[i].data : i \in Instances} \cup {mem[i].persisted : i \in Instances}

\* Whatever copy lists a passport, however stale: the passport has a row, the copy says
\* "consumed" only if the row does, and by the same consumer.
Agrees(item) ==
  /\ rows[item.id].status # "NONE"
  /\ item.status = "CONSUMED" => rows[item.id] = [status |-> "CONSUMED", by |-> item.by]
  /\ item.status # "CONSUMED" => item.by = None
CopiesAgree == \A d \in Held : \A k \in DOMAIN d.passports : Agrees(d.passports[k])

\* A passport has one place in every list it is in, so that what is put back at its
\* old place replaces nothing else.
OnePlace == \A d, e \in Held : \A k \in DOMAIN d.passports, l \in DOMAIN e.passports :
  d.passports[k].id = e.passports[l].id => k = l

\* What was answered is what the rows say.
AnswersHold ==
  /\ \A p \in Passports : rows[p].status # "CONSUMED" => rows[p].by = None
  /\ \A a \in answers : rows[a[1]] = [status |-> "CONSUMED", by |-> a[2]]
  /\ \A p \in revoked : rows[p].status \notin {"NONE", "ACTIVE"}

\* As long as the database was within reach, an instance with the version of the row
\* has the change of the row.
InStep == outages = 0 => \A i \in Instances :
  mem[i].version = db.version => mem[i].data.change.version = db.data.change.version

\* The stored payload agrees with the tables beside it, however stale the instance
\* that saved it: its chain of audit events verifies and the passport table is never
\* behind it, because no copy that could be saved disagrees with the rows.
PayloadAgrees ==
  /\ TypeOK /\ ChainVerifies /\ RowsLead
  /\ CopiesAgree /\ OnePlace /\ AnswersHold /\ InStep

\* What the tables say of a passport is final: a row that is over never changes, and
\* a passport whose revocation was confirmed is never consumed.
PassportsAreFinal == RowsAreFinal /\ RevocationHolds
=============================================================================
