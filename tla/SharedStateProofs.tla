-------------------------- MODULE SharedStateProofs --------------------------
(***************************************************************************)
(* Proofs about SharedState, for any instances, passports, consumers and   *)
(* outages.                                                                *)
(***************************************************************************)
EXTENDS SharedState, FiniteSetTheorems, SequenceTheorems, TLAPS

-----------------------------------------------------------------------------
(* Lists of passports. *)

\* A list is given by its length and its items.
LEMMA Listed ==
  ASSUME NEW S, NEW n \in Nat, NEW f, f = [k \in 1..n |-> f[k]],
         \A k \in 1..n : f[k] \in S
  PROVE  f \in Seq(S) /\ Len(f) = n /\ DOMAIN f = 1..n
<1>1. f \in [1..n -> S]
  OBVIOUS
<1>2. f \in Seq(S)
  BY <1>1, SeqDef
<1>3. DOMAIN f = 1..n
  BY <1>1
<1>4. QED
  BY <1>2, <1>3, LenProperties

\* One item of a list is replaced.
LEMMA Replaced ==
  ASSUME NEW ps \in Seq(Item), NEW k \in DOMAIN ps, NEW it \in Item,
         NEW qs, qs = [ps EXCEPT ![k] = it]
  PROVE  /\ qs \in Seq(Item) /\ DOMAIN qs = DOMAIN ps
         /\ \A l \in DOMAIN ps : qs[l] = IF l = k THEN it ELSE ps[l]
<1>1. DOMAIN ps = 1..Len(ps) /\ Len(ps) \in Nat
  BY LenProperties
<1>2. qs \in Seq(Item) /\ Len(qs) = Len(ps) /\ \A l \in 1..Len(ps) : qs[l] = IF l = k THEN it ELSE ps[l]
  BY <1>1, ExceptSeq
<1>3. DOMAIN qs = 1..Len(qs)
  BY <1>2, LenProperties
<1>4. QED
  BY <1>1, <1>2, <1>3

\* What ran out is marked, and nothing else.
LEMMA Materialized ==
  ASSUME NEW ps \in Seq(Item)
  PROVE  /\ Materialize(ps) \in Seq(Item) /\ DOMAIN Materialize(ps) = DOMAIN ps
         /\ \A k \in DOMAIN ps :
              LET new == Materialize(ps)[k] IN
              /\ new.id = ps[k].id /\ new.by = ps[k].by
              /\ new = ps[k] \/ (ps[k].status = "ACTIVE" /\ ps[k].id \in expired /\ new.status = "EXPIRED")
              /\ new.status = "ACTIVE" => new.id \notin expired
<1> DEFINE qs == Materialize(ps)
<1>1. DOMAIN ps = 1..Len(ps) /\ Len(ps) \in Nat /\ \A k \in DOMAIN ps : ps[k] \in Item
  BY LenProperties, ElementOfSeq
<1>2. DOMAIN qs = DOMAIN ps /\ qs = [k \in DOMAIN ps |-> qs[k]]
  BY DEF Materialize
<1>3. ASSUME NEW k \in DOMAIN ps
      PROVE  /\ qs[k] \in Item /\ qs[k].id = ps[k].id /\ qs[k].by = ps[k].by
             /\ qs[k] = ps[k] \/ (ps[k].status = "ACTIVE" /\ ps[k].id \in expired /\ qs[k].status = "EXPIRED")
             /\ qs[k].status = "ACTIVE" => qs[k].id \notin expired
  <2>1. ps[k] \in Item
    BY <1>1
  <2>2. CASE ps[k].status = "ACTIVE" /\ ps[k].id \in expired
    <3>1. qs[k] = [ps[k] EXCEPT !.status = "EXPIRED"]
      BY <2>2 DEF Materialize
    <3>2. QED
      BY <2>1, <2>2, <3>1 DEF Item, Statuses
  <2>3. CASE ~(ps[k].status = "ACTIVE" /\ ps[k].id \in expired)
    <3>1. qs[k] = ps[k]
      BY <2>3 DEF Materialize
    <3>2. QED
      BY <2>1, <2>3, <3>1
  <2>4. QED
    BY <2>2, <2>3
<1> HIDE DEF qs
<1>4. qs \in Seq(Item)
  BY <1>1, <1>2, <1>3, Listed
<1>5. QED
  BY <1>2, <1>3, <1>4 DEF qs

-----------------------------------------------------------------------------
(* The audit chain. *)

\* The events that a mutation adds are linked to the ones before them and to each other.
LEMMA Recorded ==
  ASSUME IsFiniteSet(auditRows), NEW as \in Seq(Event), Linked(as),
         NEW n \in Nat, NEW ws, ws \in [1..n -> Passports \cup {None}]
  PROVE  Record(as, ws) \in Seq(Event) /\ Linked(Record(as, ws))
<1> DEFINE m == Cardinality(auditRows)
           last == IF as = << >> THEN 0 ELSE as[Len(as)].id
           bs == [k \in DOMAIN ws |->
                   [id |-> m + k, prev |-> IF k = 1 THEN last ELSE m + k - 1, of |-> ws[k]]]
           cs == as \o bs
<1>1. Record(as, ws) = cs
  BY DEF Record
<1>2. m \in Nat
  BY FS_CardinalityType
<1>3. PICK l \in Nat : l = Len(as)
  BY LenProperties
<1>4. DOMAIN as = 1..l /\ \A k \in 1..l : as[k] \in Event
  BY <1>3, LenProperties, ElementOfSeq
<1>5. as = << >> <=> l = 0
  BY <1>3, EmptySeq
<1>6. last = (IF l = 0 THEN 0 ELSE as[l].id) /\ last \in Nat
  <2>1. CASE l = 0
    BY <1>3, <1>5, <2>1
  <2>2. CASE l # 0
    <3>1. l \in 1..l
      BY <2>2
    <3>2. as[l].id \in Nat
      BY <1>4, <3>1 DEF Event
    <3>3. QED
      BY <1>3, <1>5, <2>2, <3>2
  <2>3. QED
    BY <2>1, <2>2
<1> HIDE DEF m, last
<1>7. DOMAIN bs = 1..n
  OBVIOUS
<1>8. ASSUME NEW k \in 1..n
      PROVE  bs[k] \in Event /\ bs[k].id = m + k /\ bs[k].prev = IF k = 1 THEN last ELSE m + k - 1
  <2>1. bs[k] = [id |-> m + k, prev |-> IF k = 1 THEN last ELSE m + k - 1, of |-> ws[k]]
    OBVIOUS
  <2>2. m + k \in Nat /\ m + k - 1 \in Nat
    BY <1>2
  <2>3. ws[k] \in Passports \cup {None}
    OBVIOUS
  <2>4. QED
    BY <1>6, <2>1, <2>2, <2>3 DEF Event
<1>9. bs = [k \in 1..n |-> bs[k]]
  OBVIOUS
<1> HIDE DEF bs
<1>10. bs \in Seq(Event) /\ Len(bs) = n
  BY <1>8, <1>9, Listed
<1>11. /\ cs \in Seq(Event) /\ Len(cs) = l + n
       /\ \A k \in 1..(l + n) : cs[k] = IF k <= l THEN as[k] ELSE bs[k - l]
  BY <1>3, <1>10, ConcatProperties
<1> HIDE DEF cs
<1>12. DOMAIN cs = 1..(l + n)
  BY <1>11, LenProperties
<1>13. ASSUME NEW k \in DOMAIN cs
       PROVE  cs[k].prev = IF k = 1 THEN 0 ELSE cs[k - 1].id
  <2>0. k \in Nat /\ 1 <= k /\ k <= l + n /\ k \in 1..(l + n)
    BY <1>12
  <2>1. CASE k <= l
    <3>1. k \in 1..l /\ (k # 1 => k - 1 \in 1..l /\ k - 1 \in 1..(l + n) /\ k - 1 <= l)
      BY <2>0, <2>1
    <3>2. cs[k] = as[k] /\ (k # 1 => cs[k - 1] = as[k - 1])
      BY <1>11, <2>0, <2>1, <3>1
    <3>3. as[k].prev = IF k = 1 THEN 0 ELSE as[k - 1].id
      BY <1>4, <3>1 DEF Linked
    <3>4. QED
      BY <3>2, <3>3
  <2>2. CASE ~(k <= l)
    <3>1. PICK j \in 1..n : j = k - l
      BY <2>0, <2>2
    <3>2. cs[k] = bs[j]
      BY <1>11, <2>0, <2>2, <3>1
    <3>3. cs[k].prev = IF j = 1 THEN last ELSE m + j - 1
      BY <1>8, <3>1, <3>2
    <3>4. CASE j = 1 /\ l = 0
      <4>1. k = 1
        BY <2>0, <3>1, <3>4
      <4>2. QED
        BY <1>6, <3>3, <3>4, <4>1
    <3>5. CASE j = 1 /\ l # 0
      <4>1. k # 1 /\ k - 1 = l /\ l \in 1..(l + n) /\ l <= l
        BY <2>0, <3>1, <3>5
      <4>2. cs[l] = as[l]
        BY <1>11, <4>1
      <4>3. QED
        BY <1>6, <3>3, <3>5, <4>1, <4>2
    <3>6. CASE j # 1
      <4>1. k # 1 /\ k - 1 \in 1..(l + n) /\ ~(k - 1 <= l) /\ (k - 1) - l = j - 1 /\ j - 1 \in 1..n
        BY <2>0, <3>1, <3>6
      <4>2. cs[k - 1] = bs[j - 1]
        BY <1>11, <4>1
      <4>3. cs[k - 1].id = m + (j - 1)
        BY <1>8, <4>1, <4>2
      <4>4. m + (j - 1) = m + j - 1
        BY <1>2, <3>1
      <4>5. QED
        BY <3>3, <3>6, <4>1, <4>3, <4>4
    <3>7. QED
      BY <3>4, <3>5, <3>6
  <2>3. QED
    BY <2>1, <2>2
<1>14. QED
  BY <1>1, <1>11, <1>13 DEF Linked

\* One event.
LEMMA RecordedOne ==
  ASSUME IsFiniteSet(auditRows), NEW as \in Seq(Event), Linked(as), NEW w \in Passports \cup {None}
  PROVE  Record(as, <<w>>) \in Seq(Event) /\ Linked(Record(as, <<w>>))
<1>1. <<w>> \in [1..1 -> Passports \cup {None}]
  OBVIOUS
<1>2. QED
  BY <1>1, Recorded

\* The table of events stays a finite set of events.
LEMMA EventsStored ==
  ASSUME auditRows \subseteq Event, IsFiniteSet(auditRows), NEW as \in Seq(Event)
  PROVE  auditRows \cup Range(as) \subseteq Event /\ IsFiniteSet(auditRows \cup Range(as))
<1>1. DOMAIN as = 1..Len(as) /\ Len(as) \in Nat /\ \A k \in DOMAIN as : as[k] \in Event
  BY LenProperties, ElementOfSeq
<1>2. IsFiniteSet(DOMAIN as)
  <2>1. PICK l \in Nat : l = Len(as)
    BY <1>1
  <2>2. IsFiniteSet(1..l)
    BY FS_Interval, 1 \in Int, l \in Int
  <2>3. QED
    BY <1>1, <2>1, <2>2
<1>3. as \in Surjection(DOMAIN as, Range(as))
  <2>1. as \in [DOMAIN as -> Range(as)]
    <3>1. as = [k \in DOMAIN as |-> as[k]]
      <4>1. as \in [1..Len(as) -> Event]
        BY LenProperties
      <4>2. QED
        BY <4>1
    <3>2. \A k \in DOMAIN as : as[k] \in Range(as)
      BY DEF Range
    <3>3. QED
      BY <3>1, <3>2
  <2>2. \A y \in Range(as) : \E x \in DOMAIN as : as[x] = y
    BY DEF Range
  <2>3. QED
    BY <2>1, <2>2 DEF Surjection
<1>4. IsFiniteSet(Range(as))
  BY <1>2, <1>3, FS_Surjection
<1>5. QED
  BY <1>1, <1>4, FS_Union DEF Range

-----------------------------------------------------------------------------
(* What a step may do to the copies and to the rows. *)

Row == [status : Statuses \cup {"NONE"}, by : Consumers \cup {None}]

\* A list may name a passport at the place where a copy that is held has it, or p at n.
PlacedAs(k, q, n, p) ==
  \/ \E d \in Held : k \in DOMAIN d.passports /\ d.passports[k].id = q
  \/ k = n /\ q = p

\* No copy has p at any other place.
NewPlace(n, p) == \A d \in Held : \A k \in DOMAIN d.passports : d.passports[k].id = p => k = n

\* A list that may be saved: it calls a passport consumed only if the table does.
Candidate(ps, n, p) ==
  /\ ps \in Seq(Item)
  /\ \A k \in DOMAIN ps :
       /\ PlacedAs(k, ps[k].id, n, p)
       /\ ps[k].status = "CONSUMED" => rows[ps[k].id] = [status |-> "CONSUMED", by |-> ps[k].by]
       /\ ps[k].status # "CONSUMED" => ps[k].by = None

\* A list that agrees with the table rs.
AgreesIn(rs, item) ==
  /\ rs[item.id].status # "NONE"
  /\ item.status = "CONSUMED" => rs[item.id] = [status |-> "CONSUMED", by |-> item.by]
  /\ item.status # "CONSUMED" => item.by = None
Descends(ps, n, p, rs) ==
  /\ ps \in Seq(Item)
  /\ \A k \in DOMAIN ps : PlacedAs(k, ps[k].id, n, p) /\ AgreesIn(rs, ps[k])

\* A copy that a step may leave.
Good(d, n, p, rs) == d \in Data /\ Linked(d.audits) /\ Descends(d.passports, n, p, rs)

\* What a step may make of the table: a row never goes away, one that is over stays.
Grows(rs) ==
  /\ rs \in [Passports -> Row]
  /\ \A q \in Passports :
       /\ rows[q].status # "NONE" => rs[q].status # "NONE"
       /\ rows[q].status \notin {"NONE", "ACTIVE"} => rs[q] = rows[q]
       /\ rs[q].status # "CONSUMED" => rs[q].by = None

\* The table is not behind the list.
Leads(ps, rs) == \A k \in DOMAIN ps : ps[k].status # "ACTIVE" => rs[ps[k].id].status # "ACTIVE"

\* Every step keeps the invariant, the rows that are over, and the edits.
Onward ==
  /\ PayloadAgrees'
  /\ Grows(rows')
  /\ outages' = 0 => db'.data.change.version >= db.data.change.version

LEMMA Typed ==
  ASSUME PayloadAgrees
  PROVE  /\ db.version \in Nat /\ db.data \in Data
         /\ rows \in [Passports -> Row]
         /\ \A i \in Instances : /\ mem[i].data \in Data /\ mem[i].persisted \in Data
                                 /\ mem[i].version \in 1..db.version
BY DEF PayloadAgrees, TypeOK, Snapshot, Row

LEMMA DataFields ==
  ASSUME NEW d \in Data
  PROVE  d.passports \in Seq(Item) /\ d.audits \in Seq(Event) /\ d.change.version \in Nat
         /\ d.change \in [status : {"APPROVED", "COMPLETED"}, version : Nat]
BY DEF Data

\* Nothing that is held is lost.
LEMMA HeldIsData ==
  ASSUME PayloadAgrees
  PROVE  \A d \in Held : d \in Data /\ Linked(d.audits)
BY Typed DEF Held, PayloadAgrees, ChainVerifies

LEMMA RowsGrow ==
  ASSUME PayloadAgrees
  PROVE  Grows(rows)
BY Typed DEF Grows, PayloadAgrees, AnswersHold

\* None is in no list.
LEMMA NoNewPlace ==
  ASSUME PayloadAgrees
  PROVE  NewPlace(0, None)
<1>1. ASSUME NEW d \in Held, NEW k \in DOMAIN d.passports
      PROVE  d.passports[k].id \in Passports
  <2>1. d.passports \in Seq(Item)
    BY HeldIsData, DataFields
  <2>2. d.passports[k] \in Item
    BY <2>1, ElementOfSeq, LenProperties
  <2>3. QED
    BY <2>2 DEF Item
<1>2. QED
  BY <1>1, SharedAssumption DEF NewPlace

\* A passport without a row is in no list.
LEMMA FreshPlace ==
  ASSUME PayloadAgrees, NEW p, rows[p] = NoRow, NEW n
  PROVE  NewPlace(n, p)
<1>1. ASSUME NEW d \in Held, NEW k \in DOMAIN d.passports
      PROVE  d.passports[k].id # p
  <2>1. rows[d.passports[k].id].status # "NONE"
    BY DEF PayloadAgrees, CopiesAgree, Agrees
  <2>2. rows[p].status = "NONE"
    BY DEF NoRow
  <2>3. QED
    BY <2>1, <2>2
<1>2. QED
  BY <1>1 DEF NewPlace

\* A copy that is held may stay.
LEMMA OldIsGood ==
  ASSUME PayloadAgrees, NEW d \in Held, NEW n, NEW p, NEW rs, Grows(rs)
  PROVE  Good(d, n, p, rs)
<1>1. d \in Data /\ Linked(d.audits) /\ d.passports \in Seq(Item)
  BY HeldIsData, DataFields
<1>2. ASSUME NEW k \in DOMAIN d.passports
      PROVE  PlacedAs(k, d.passports[k].id, n, p) /\ AgreesIn(rs, d.passports[k])
  <2>1. d.passports[k] \in Item
    BY <1>1, ElementOfSeq, LenProperties
  <2>2. d.passports[k].id \in Passports
    BY <2>1 DEF Item
  <2>3. Agrees(d.passports[k])
    BY DEF PayloadAgrees, CopiesAgree
  <2>4. AgreesIn(rs, d.passports[k])
    BY <2>2, <2>3 DEF Agrees, AgreesIn, Grows
  <2>5. QED
    BY <2>4 DEF PlacedAs
<1>3. QED
  BY <1>1, <1>2 DEF Good, Descends

\* A passport has one place.
LEMMA OnePlaceOnly ==
  ASSUME PayloadAgrees, NEW n, NEW p, NewPlace(n, p), NEW q, NEW k, NEW l,
         PlacedAs(k, q, n, p), PlacedAs(l, q, n, p)
  PROVE  k = l
<1>1. CASE k = n /\ q = p
  BY <1>1 DEF PlacedAs, NewPlace
<1>2. CASE l = n /\ q = p
  BY <1>2 DEF PlacedAs, NewPlace
<1>3. CASE ~(k = n /\ q = p) /\ ~(l = n /\ q = p)
  <2>1. PICK d \in Held : k \in DOMAIN d.passports /\ d.passports[k].id = q
    BY <1>3 DEF PlacedAs
  <2>2. PICK e \in Held : l \in DOMAIN e.passports /\ e.passports[l].id = q
    BY <1>3 DEF PlacedAs
  <2>3. QED
    BY <2>1, <2>2 DEF PayloadAgrees, OnePlace
<1>4. QED
  BY <1>1, <1>2, <1>3

\* Whatever list is saved, however stale: no row that is over changes, and the table
\* is then not behind the list.
LEMMA Synced ==
  ASSUME PayloadAgrees, NEW n, NEW p, NewPlace(n, p), NEW ps, Candidate(ps, n, p),
         NEW rs, Grows(rs), NEW ns, ns = SyncRows(rs, ps)
  PROVE  Grows(ns) /\ Descends(ps, n, p, ns) /\ Leads(ps, ns)
<1> DEFINE At(q) == Index(ps, q)
           mat == Materialize(ps)
<1>1. ps \in Seq(Item) /\ \A k \in DOMAIN ps : ps[k] \in Item
  BY ElementOfSeq, LenProperties DEF Candidate
<1>2. rs \in [Passports -> Row]
  BY DEF Grows
<1>3. \A k \in DOMAIN ps : /\ mat[k].id = ps[k].id /\ mat[k].by = ps[k].by
                           /\ mat[k] = ps[k] \/ (ps[k].status = "ACTIVE" /\ mat[k].status = "EXPIRED")
  BY <1>1, Materialized
<1>4. \A q \in Passports : Knows(ps, q) => At(q) \in DOMAIN ps /\ ps[At(q)].id = q
  BY DEF Knows, Index
<1>5. ASSUME NEW k \in DOMAIN ps
      PROVE  ps[k].id \in Passports /\ Knows(ps, ps[k].id) /\ At(ps[k].id) = k
  <2>1. ps[k].id \in Passports /\ Knows(ps, ps[k].id)
    BY <1>1 DEF Knows, Item
  <2>2. At(ps[k].id) \in DOMAIN ps /\ ps[At(ps[k].id)].id = ps[k].id
    BY <1>4, <2>1
  <2>3. PlacedAs(k, ps[k].id, n, p) /\ PlacedAs(At(ps[k].id), ps[k].id, n, p)
    BY <2>2 DEF Candidate
  <2>4. QED
    BY <2>1, <2>3, OnePlaceOnly
<1>6. \A q \in Passports :
        ns[q] = IF Knows(ps, q) /\ rs[q].status \in {"NONE", "ACTIVE", mat[At(q)].status}
                THEN [status |-> mat[At(q)].status, by |-> mat[At(q)].by]
                ELSE rs[q]
  BY DEF SyncRows
<1>7. ns = [q \in Passports |-> ns[q]]
  BY DEF SyncRows
<1> HIDE DEF At, mat
<1>8. ASSUME NEW q \in Passports
      PROVE  /\ ns[q] \in Row
             /\ rs[q].status # "NONE" => ns[q].status # "NONE"
             /\ rows[q].status \notin {"NONE", "ACTIVE"} => ns[q] = rows[q]
             /\ ns[q].status # "CONSUMED" => ns[q].by = None
             /\ Knows(ps, q) => ns[q].status # "NONE"
             /\ Knows(ps, q) /\ ps[At(q)].status # "ACTIVE" => ns[q].status # "ACTIVE"
  <2>1. rs[q] \in Row /\ (rs[q].status # "CONSUMED" => rs[q].by = None)
        /\ (rows[q].status \notin {"NONE", "ACTIVE"} => rs[q] = rows[q])
    BY <1>2 DEF Grows
  <2>2. CASE Knows(ps, q) /\ rs[q].status \in {"NONE", "ACTIVE", mat[At(q)].status}
    <3>1. ns[q] = [status |-> mat[At(q)].status, by |-> mat[At(q)].by]
      BY <1>6, <2>2
    <3>2. PICK it \in Item : it = ps[At(q)]
      BY <1>1, <1>4, <2>2
    <3>3. it.status \in Statuses /\ it.by \in Consumers \cup {None}
      BY DEF Item
    <3>4. mat[At(q)].by = it.by /\ (mat[At(q)].status = it.status \/ (it.status = "ACTIVE" /\ mat[At(q)].status = "EXPIRED"))
      BY <1>3, <1>4, <2>2, <3>2
    <3>5. /\ it.status = "CONSUMED" => rows[q] = [status |-> "CONSUMED", by |-> it.by]
          /\ it.status # "CONSUMED" => it.by = None
      BY <1>4, <2>2, <3>2 DEF Candidate
    <3>6. PICK st, b : st = mat[At(q)].status /\ b = mat[At(q)].by
      OBVIOUS
    <3>7. st \in Statuses /\ b \in Consumers \cup {None} /\ b = it.by
          /\ (st = it.status \/ (it.status = "ACTIVE" /\ st = "EXPIRED"))
      BY <3>3, <3>4, <3>6 DEF Statuses
    <3>8. ns[q] = [status |-> st, by |-> b]
      BY <3>1, <3>6
    <3>9. ns[q] \in Row /\ ns[q].status = st /\ ns[q].by = b
      BY <3>7, <3>8 DEF Row
    <3>10. st # "NONE" /\ (st # "CONSUMED" => b = None) /\ (it.status # "ACTIVE" => st # "ACTIVE")
      BY <3>5, <3>7 DEF Statuses
    <3>11. ASSUME rows[q].status \notin {"NONE", "ACTIVE"}
           PROVE  ns[q] = rows[q]
      <4>1. rs[q] = rows[q] /\ rs[q].status = st
        BY <2>1, <2>2, <3>6, <3>11
      <4>2. rs[q] = [status |-> rs[q].status, by |-> rs[q].by]
        BY <2>1 DEF Row
      <4>3. CASE st = "CONSUMED"
        <5>1. it.status = "CONSUMED"
          BY <3>7, <4>3
        <5>2. QED
          BY <3>5, <3>7, <3>8, <4>3, <5>1
      <4>4. CASE st # "CONSUMED"
        <5>1. b = None /\ rs[q].by = None
          BY <2>1, <3>10, <4>1, <4>4
        <5>2. QED
          BY <3>8, <4>1, <4>2, <5>1
      <4>5. QED
        BY <4>3, <4>4
    <3>12. QED
      BY <3>2, <3>9, <3>10, <3>11
  <2>3. CASE ~(Knows(ps, q) /\ rs[q].status \in {"NONE", "ACTIVE", mat[At(q)].status})
    <3>1. ns[q] = rs[q]
      BY <1>6, <2>3
    <3>2. QED
      BY <2>1, <2>3, <3>1
  <2>4. QED
    BY <2>2, <2>3
<1>9. Grows(ns)
  <2>1. ns \in [Passports -> Row]
    BY <1>7, <1>8
  <2>2. \A q \in Passports : rows[q].status # "NONE" => rs[q].status # "NONE"
    BY DEF Grows
  <2>3. QED
    BY <1>8, <2>1, <2>2 DEF Grows
<1>10. ASSUME NEW k \in DOMAIN ps
       PROVE  /\ PlacedAs(k, ps[k].id, n, p) /\ AgreesIn(ns, ps[k])
              /\ ps[k].status # "ACTIVE" => ns[ps[k].id].status # "ACTIVE"
  <2>1. PICK q \in Passports : q = ps[k].id /\ Knows(ps, q) /\ At(q) = k
    BY <1>5
  <2>2. PlacedAs(k, q, n, p) /\ (ps[k].status # "CONSUMED" => ps[k].by = None)
        /\ (ps[k].status = "CONSUMED" => rows[q] = [status |-> "CONSUMED", by |-> ps[k].by])
    BY <2>1 DEF Candidate
  <2>3. ps[k].status = "CONSUMED" => ns[q] = [status |-> "CONSUMED", by |-> ps[k].by]
    <3>1. SUFFICES ASSUME ps[k].status = "CONSUMED" PROVE ns[q] = [status |-> "CONSUMED", by |-> ps[k].by]
      OBVIOUS
    <3>2. rows[q].status = "CONSUMED"
      BY <2>2, <3>1
    <3>3. QED
      BY <1>8, <2>2, <3>1, <3>2
  <2>4. QED
    BY <1>8, <2>1, <2>2, <2>3 DEF AgreesIn
<1>11. QED
  BY <1>1, <1>9, <1>10 DEF Descends, Leads

\* A copy made of good parts is good.
LEMMA MadeOf ==
  ASSUME NEW c, c \in [status : {"APPROVED", "COMPLETED"}, version : Nat],
         NEW ps \in Seq(Item), NEW as \in Seq(Event),
         NEW d, d = [change |-> c, passports |-> ps, audits |-> as]
  PROVE  d \in Data /\ d.change = c /\ d.passports = ps /\ d.audits = as
BY DEF Data

LEMMA Parts ==
  ASSUME NEW d \in Data
  PROVE  d = [change |-> d.change, passports |-> d.passports, audits |-> d.audits]
BY DEF Data

\* What a process makes of a copy when it loads it.
LEMMA NormalIsGood ==
  ASSUME NEW d, NEW n, NEW p, NEW rs, Good(d, n, p, rs), NEW e, e = Normalize(d)
  PROVE  /\ Good(e, n, p, rs) /\ e.change = d.change /\ e.audits = d.audits
         /\ e.passports = Materialize(d.passports)
<1>1. d \in Data /\ Linked(d.audits) /\ d.passports \in Seq(Item) /\ d.audits \in Seq(Event)
      /\ d.change \in [status : {"APPROVED", "COMPLETED"}, version : Nat]
  BY DataFields DEF Good
<1>2. PICK ps : ps = Materialize(d.passports)
  OBVIOUS
<1>3. ps \in Seq(Item) /\ DOMAIN ps = DOMAIN d.passports
      /\ \A k \in DOMAIN ps :
           /\ ps[k].id = d.passports[k].id /\ ps[k].by = d.passports[k].by
           /\ ps[k] = d.passports[k] \/ (d.passports[k].status = "ACTIVE" /\ ps[k].status = "EXPIRED")
  BY <1>1, <1>2, Materialized
<1>4. e = [change |-> d.change, passports |-> ps, audits |-> d.audits]
  BY <1>1, <1>2, Parts DEF Normalize
<1>5. e \in Data /\ e.change = d.change /\ e.passports = ps /\ e.audits = d.audits
  BY <1>1, <1>3, <1>4, MadeOf
<1>6. ASSUME NEW k \in DOMAIN ps
      PROVE  PlacedAs(k, ps[k].id, n, p) /\ AgreesIn(rs, ps[k])
  <2>1. PlacedAs(k, d.passports[k].id, n, p) /\ AgreesIn(rs, d.passports[k])
    BY <1>3 DEF Good, Descends
  <2>2. QED
    BY <1>3, <2>1 DEF AgreesIn
<1>7. QED
  BY <1>1, <1>2, <1>3, <1>5, <1>6 DEF Good, Descends

\* What a step has to show for the invariant.
LEMMA StepKeeps ==
  ASSUME PayloadAgrees, NEW n, NEW p, NewPlace(n, p), Grows(rows'),
         db' \in Snapshot, Good(db'.data, n, p, rows'), Leads(db'.data.passports, rows'),
         mem' \in [Instances -> [data : Data, version : 1..db'.version, persisted : Data]],
         \A i \in Instances : Good(mem'[i].data, n, p, rows') /\ Good(mem'[i].persisted, n, p, rows'),
         auditRows' \subseteq Event, IsFiniteSet(auditRows'), expired' \subseteq Passports,
         outages' \in Nat, answers' \subseteq Passports \X Consumers, revoked' \subseteq Passports,
         \A a \in answers' : rows'[a[1]] = [status |-> "CONSUMED", by |-> a[2]],
         \A q \in revoked' : rows'[q].status \notin {"NONE", "ACTIVE"},
         InStep'
  PROVE  PayloadAgrees'
<1>1. TypeOK'
  BY DEF TypeOK, Grows, Row
<1>2. \A d \in Held' : Good(d, n, p, rows')
  BY DEF Held
<1>3. ChainVerifies'
  BY DEF ChainVerifies, Good
<1>4. CopiesAgree'
  BY <1>2 DEF CopiesAgree, Agrees, AgreesIn, Good, Descends
<1>5. OnePlace'
  <2>1. SUFFICES ASSUME NEW d \in Held', NEW e \in Held',
                        NEW k \in DOMAIN d.passports, NEW l \in DOMAIN e.passports,
                        d.passports[k].id = e.passports[l].id
                 PROVE  k = l
    BY DEF OnePlace
  <2>2. PlacedAs(k, d.passports[k].id, n, p) /\ PlacedAs(l, e.passports[l].id, n, p)
    BY <1>2 DEF Good, Descends
  <2>3. QED
    BY <2>1, <2>2, OnePlaceOnly
<1>6. AnswersHold'
  BY DEF AnswersHold, Grows
<1>7. RowsLead'
  <2>1. SUFFICES ASSUME NEW k \in DOMAIN db'.data.passports
                 PROVE  /\ rows'[db'.data.passports[k].id] # NoRow
                        /\ db'.data.passports[k].status # "ACTIVE" => rows'[db'.data.passports[k].id].status # "ACTIVE"
    BY DEF RowsLead, NoRow
  <2>2. rows'[db'.data.passports[k].id].status # "NONE"
    BY DEF Good, Descends, AgreesIn
  <2>3. QED
    BY <2>2 DEF NoRow, Leads
<1>8. QED
  BY <1>1, <1>3, <1>4, <1>5, <1>6, <1>7 DEF PayloadAgrees

\* What was answered stays true, since no row that is over changes.
LEMMA HistoryKept ==
  ASSUME PayloadAgrees, NEW rs, Grows(rs)
  PROVE  /\ \A a \in answers : rs[a[1]] = [status |-> "CONSUMED", by |-> a[2]]
         /\ \A q \in revoked : rs[q].status \notin {"NONE", "ACTIVE"}
<1>1. answers \subseteq Passports \X Consumers /\ revoked \subseteq Passports
  BY DEF PayloadAgrees, TypeOK
<1>2. ASSUME NEW a \in answers
      PROVE  rs[a[1]] = [status |-> "CONSUMED", by |-> a[2]]
  <2>1. a[1] \in Passports
    BY <1>1
  <2>2. rows[a[1]] = [status |-> "CONSUMED", by |-> a[2]]
    BY DEF PayloadAgrees, AnswersHold
  <2>3. rows[a[1]].status = "CONSUMED"
    BY <2>2
  <2>4. QED
    BY <2>1, <2>2, <2>3 DEF Grows
<1>3. ASSUME NEW q \in revoked
      PROVE  rs[q].status \notin {"NONE", "ACTIVE"}
  <2>1. q \in Passports /\ rows[q].status \notin {"NONE", "ACTIVE"}
    BY <1>1 DEF PayloadAgrees, AnswersHold
  <2>2. QED
    BY <2>1 DEF Grows
<1>4. QED
  BY <1>2, <1>3

\* One instance moves, and perhaps the row dbguard_state with it.
LEMMA Moves ==
  ASSUME PayloadAgrees, NEW n, NEW p, NewPlace(n, p), Grows(rows'),
         NEW v \in Nat, v >= db.version, NEW e, db' = [version |-> v, data |-> e],
         Good(e, n, p, rows'), Leads(e.passports, rows'),
         NEW i \in Instances, NEW m, m \in [data : Data, version : 1..v, persisted : Data],
         Good(m.data, n, p, rows'), Good(m.persisted, n, p, rows'), mem' = [mem EXCEPT ![i] = m],
         auditRows' \subseteq Event, IsFiniteSet(auditRows'), expired' \subseteq Passports,
         outages' \in Nat, answers' \subseteq Passports \X Consumers, revoked' \subseteq Passports,
         \A a \in answers' : rows'[a[1]] = [status |-> "CONSUMED", by |-> a[2]],
         \A q \in revoked' : rows'[q].status \notin {"NONE", "ACTIVE"},
         outages' = 0 => /\ outages = 0
                         /\ m.version = v => m.data.change.version = e.change.version
                         /\ v = db.version => e.change.version = db.data.change.version
                         /\ e.change.version >= db.data.change.version
  PROVE  Onward
<1>1. db'.version = v /\ db'.data = e /\ db' \in Snapshot
  BY DEF Snapshot, Good
<1>2. mem \in [Instances -> [data : Data, version : 1..db.version, persisted : Data]]
      /\ db.version \in Nat
  BY DEF PayloadAgrees, TypeOK, Snapshot
<1>3. \A j \in Instances : mem'[j] = IF j = i THEN m ELSE mem[j]
  BY <1>2
<1>4. \A j \in Instances : mem'[j] \in [data : Data, version : 1..v, persisted : Data]
  <2>1. 1..db.version \subseteq 1..v
    BY <1>2
  <2>2. QED
    BY <1>2, <1>3, <2>1
<1>5. mem' \in [Instances -> [data : Data, version : 1..db'.version, persisted : Data]]
  <2>1. mem' = [j \in Instances |-> mem'[j]]
    BY <1>2
  <2>2. QED
    BY <1>1, <1>4, <2>1
<1>6. ASSUME NEW j \in Instances
      PROVE  Good(mem'[j].data, n, p, rows') /\ Good(mem'[j].persisted, n, p, rows')
  <2>1. CASE j = i
    BY <1>3, <2>1
  <2>2. CASE j # i
    <3>1. mem'[j] = mem[j] /\ mem[j].data \in Held /\ mem[j].persisted \in Held
      BY <1>3, <2>2 DEF Held
    <3>2. QED
      BY <3>1, OldIsGood
  <2>3. QED
    BY <2>1, <2>2
<1>7. InStep'
  <2>1. SUFFICES ASSUME outages' = 0, NEW j \in Instances, mem'[j].version = v
                 PROVE  mem'[j].data.change.version = e.change.version
    BY <1>1 DEF InStep
  <2>2. CASE j = i
    BY <1>3, <2>1, <2>2
  <2>3. CASE j # i
    <3>1. mem'[j] = mem[j] /\ mem[j].version \in 1..db.version
      BY <1>2, <1>3, <2>3
    <3>2. v = db.version
      BY <1>2, <2>1, <3>1
    <3>3. mem[j].data.change.version = db.data.change.version
      BY <2>1, <3>1, <3>2 DEF PayloadAgrees, InStep
    <3>4. QED
      BY <2>1, <3>1, <3>2, <3>3
  <2>4. QED
    BY <2>2, <2>3
<1>8. PayloadAgrees'
  BY <1>1, <1>5, <1>6, <1>7, StepKeeps
<1>9. QED
  BY <1>1, <1>8 DEF Onward

-----------------------------------------------------------------------------
(* Saves. *)

\* A state that may be saved: one of the mutations made it from the memory of an instance.
Proposal(i, new, n, p) ==
  /\ NewPlace(n, p)
  /\ new \in Data /\ Linked(new.audits) /\ Candidate(new.passports, n, p)
  /\ new.change.version >= mem[i].data.change.version

LEMMA SaveFacts ==
  ASSUME PayloadAgrees, NEW i \in Instances, NEW new, NEW n, NEW p, Proposal(i, new, n, p), Save(new)
  PROVE  /\ Grows(rows') /\ Good(new, n, p, rows') /\ Leads(new.passports, rows')
         /\ db' = [version |-> db.version + 1, data |-> new]
         /\ auditRows' \subseteq Event /\ IsFiniteSet(auditRows')
<1>1. Grows(rows') /\ Descends(new.passports, n, p, rows') /\ Leads(new.passports, rows')
  <2>1. rows' = SyncRows(rows, new.passports)
    BY DEF Save
  <2>2. QED
    BY <2>1, RowsGrow, Synced DEF Proposal
<1>2. new.audits \in Seq(Event) /\ auditRows \subseteq Event /\ IsFiniteSet(auditRows)
  BY DataFields DEF Proposal, PayloadAgrees, TypeOK
<1>3. auditRows' = auditRows \cup Range(new.audits)
  BY DEF Save
<1>4. QED
  BY <1>1, <1>2, <1>3, EventsStored DEF Save, Good, Proposal

\* The tables when nothing is saved.
LEMMA TablesStay ==
  ASSUME PayloadAgrees, UNCHANGED tables, NEW n, NEW p
  PROVE  /\ Grows(rows') /\ Good(db.data, n, p, rows') /\ Leads(db.data.passports, rows')
         /\ db' = [version |-> db.version, data |-> db.data]
         /\ auditRows' \subseteq Event /\ IsFiniteSet(auditRows')
<1>1. db' = db /\ rows' = rows /\ auditRows' = auditRows
  BY DEF tables
<1>2. Grows(rows')
  BY <1>1, RowsGrow
<1>3. db.data \in Held
  BY DEF Held
<1>4. Good(db.data, n, p, rows')
  BY <1>2, <1>3, OldIsGood
<1>5. db = [version |-> db.version, data |-> db.data]
  BY DEF PayloadAgrees, TypeOK, Snapshot
<1>6. auditRows \subseteq Event /\ IsFiniteSet(auditRows)
  BY DEF PayloadAgrees, TypeOK
<1>7. Leads(db.data.passports, rows)
  BY DEF PayloadAgrees, RowsLead, Leads
<1>8. QED
  BY <1>1, <1>2, <1>4, <1>5, <1>6, <1>7

\* A save that succeeds.
LEMMA SavedHolds ==
  ASSUME PayloadAgrees, NEW i \in Instances, NEW new, NEW n, NEW p, Proposal(i, new, n, p),
         Saved(i, new), UNCHANGED <<expired, answers>>, revoked' \subseteq Passports,
         \A q \in revoked' : q \in revoked \/ \E k \in DOMAIN new.passports :
           new.passports[k].id = q /\ new.passports[k].status = "REVOKED"
  PROVE  Onward
<1>1. Savable(i, new) /\ Save(new) /\ outages' = outages
      /\ mem' = [mem EXCEPT ![i] = [data |-> new, version |-> db.version + 1, persisted |-> new]]
  BY DEF Saved
<1>2. /\ Grows(rows') /\ Good(new, n, p, rows') /\ Leads(new.passports, rows')
      /\ db' = [version |-> db.version + 1, data |-> new]
      /\ auditRows' \subseteq Event /\ IsFiniteSet(auditRows')
  BY <1>1, SaveFacts
<1>3. PICK v \in Nat : v = db.version + 1 /\ v > db.version /\ v \in 1..v
  BY Typed
<1>4. PICK m : m = [data |-> new, version |-> db.version + 1, persisted |-> new]
  OBVIOUS
<1>5. m \in [data : Data, version : 1..v, persisted : Data] /\ m.data = new /\ m.persisted = new
  BY <1>3, <1>4 DEF Proposal
<1>6. expired' \subseteq Passports /\ outages' \in Nat /\ answers' \subseteq Passports \X Consumers
  BY <1>1 DEF PayloadAgrees, TypeOK
<1>7. \A a \in answers' : rows'[a[1]] = [status |-> "CONSUMED", by |-> a[2]]
  BY <1>2, HistoryKept
<1>8. ASSUME NEW q \in revoked'
      PROVE  rows'[q].status \notin {"NONE", "ACTIVE"}
  <2>1. CASE q \in revoked
    BY <1>2, <2>1, HistoryKept
  <2>2. CASE q \notin revoked
    <3>1. PICK k \in DOMAIN new.passports : new.passports[k].id = q /\ new.passports[k].status = "REVOKED"
      BY <2>2
    <3>2. rows'[q].status # "NONE" /\ rows'[q].status # "ACTIVE"
      BY <1>2, <3>1 DEF Good, Descends, AgreesIn, Leads
    <3>3. QED
      BY <3>2
  <2>3. QED
    BY <2>1, <2>2
<1>9. outages = 0 => new.change.version >= db.data.change.version
  <2>1. mem[i].version = db.version
    BY <1>1 DEF Savable
  <2>2. outages = 0 => mem[i].data.change.version = db.data.change.version
    BY <2>1 DEF PayloadAgrees, InStep
  <2>3. QED
    BY <2>2 DEF Proposal
<1>10. v >= db.version /\ v # db.version
  BY <1>3, Typed
<1>11. NewPlace(n, p)
  BY DEF Proposal
<1>12. mem' = [mem EXCEPT ![i] = m] /\ db' = [version |-> v, data |-> new]
  BY <1>1, <1>2, <1>3, <1>4
<1>13. m.data.change.version = new.change.version
  BY <1>5
<1>14. Good(m.data, n, p, rows') /\ Good(m.persisted, n, p, rows')
  BY <1>2, <1>5
<1>15. outages' = 0 => /\ outages = 0
                       /\ m.version = v => m.data.change.version = new.change.version
                       /\ v = db.version => new.change.version = db.data.change.version
                       /\ new.change.version >= db.data.change.version
  BY <1>1, <1>9, <1>10, <1>13
<1>16. QED
  BY <1>2, <1>5, <1>6, <1>7, <1>8, <1>10, <1>11, <1>12, <1>14, <1>15, Moves

\* The tables when the save fails, or nobody hears of it.
LEMMA NotSavedTables ==
  ASSUME PayloadAgrees, NEW i \in Instances, NEW new, NEW n, NEW p, Proposal(i, new, n, p),
         NotSaved(i, new)
  PROVE  \E v \in Nat, e \in Data :
           /\ v >= db.version
           /\ Grows(rows') /\ Good(e, n, p, rows') /\ Leads(e.passports, rows')
           /\ db' = [version |-> v, data |-> e]
           /\ auditRows' \subseteq Event /\ IsFiniteSet(auditRows')
           /\ outages' \in Nat
           /\ outages' = 0 => outages = 0 /\ v = db.version /\ e = db.data
<1>1. outages \in Nat /\ db.version \in Nat /\ db.data \in Data
  BY Typed DEF PayloadAgrees, TypeOK
<1>2. CASE UNCHANGED <<tables, outages>>
  <2>1. UNCHANGED tables /\ outages' = outages
    BY <1>2
  <2>2. QED
    BY <1>1, <2>1, TablesStay
<1>3. CASE Outage /\ UNCHANGED tables
  <2>1. outages' \in Nat
    BY <1>1, <1>3 DEF Outage
  <2>2. db.version >= db.version
    BY <1>1
  <2>3. outages' # 0
    BY <1>1, <1>3 DEF Outage
  <2>4. QED
    BY <1>1, <1>3, <2>1, <2>2, <2>3, TablesStay
<1>4. CASE Outage /\ Save(new)
  <2>1. outages' \in Nat /\ outages' # 0
    BY <1>1, <1>4 DEF Outage
  <2>2. db.version + 1 \in Nat /\ db.version + 1 >= db.version
    BY <1>1
  <2>3. new \in Data
    BY DEF Proposal
  <2>4. QED
    BY <1>4, <2>1, <2>2, <2>3, SaveFacts
<1>5. QED
  BY <1>2, <1>3, <1>4 DEF NotSaved

\* What the process has in memory then.
LEMMA RestoredFacts ==
  ASSUME PayloadAgrees, NEW i \in Instances, NEW n, NEW p, NEW m \in Restored(i),
         Grows(rows'), NEW v \in Nat, v >= db.version, NEW e, db' = [version |-> v, data |-> e],
         Good(e, n, p, rows'), outages' = 0 => outages = 0
  PROVE  /\ m \in [data : Data, version : 1..v, persisted : Data]
         /\ Good(m.data, n, p, rows') /\ Good(m.persisted, n, p, rows')
         /\ outages' = 0 => m.data.change = e.change
<1>1. db.version \in Nat /\ mem[i].version \in 1..db.version
      /\ mem[i] \in [data : Data, version : 1..db.version, persisted : Data]
  BY Typed DEF PayloadAgrees, TypeOK
<1>2. v \in 1..v /\ mem[i].version \in 1..v
  BY <1>1
<1>3. CASE m = [data |-> Normalize(db'.data), version |-> db'.version, persisted |-> db'.data]
  <2>1. PICK f : f = Normalize(e)
    OBVIOUS
  <2>2. Good(f, n, p, rows') /\ f.change = e.change
    BY <2>1, NormalIsGood
  <2>3. db'.data = e /\ db'.version = v
    OBVIOUS
  <2>4. m = [data |-> f, version |-> v, persisted |-> e]
    BY <1>3, <2>1, <2>3
  <2>5. m.data = f /\ m.version = v /\ m.persisted = e
    BY <2>4
  <2>6. m \in [data : Data, version : 1..v, persisted : Data]
    BY <1>2, <2>2, <2>4 DEF Good
  <2>7. QED
    BY <2>2, <2>5, <2>6
<1>4. CASE outages' # outages /\ m = [mem[i] EXCEPT !.data = Normalize(mem[i].persisted)]
  <2>1. PICK f : f = Normalize(mem[i].persisted)
    OBVIOUS
  <2>2. mem[i].persisted \in Held
    BY DEF Held
  <2>3. Good(mem[i].persisted, n, p, rows')
    BY <2>2, OldIsGood
  <2>4. Good(f, n, p, rows')
    BY <2>1, <2>3, NormalIsGood
  <2>5. m = [mem[i] EXCEPT !.data = f]
    BY <1>4, <2>1
  <2>6. m.data = f /\ m.version = mem[i].version /\ m.persisted = mem[i].persisted
        /\ m = [data |-> m.data, version |-> m.version, persisted |-> m.persisted]
    BY <1>1, <2>5
  <2>7. m.data \in Data /\ m.persisted \in Data /\ m.version \in 1..v
    BY <1>1, <1>2, <2>4, <2>6 DEF Good
  <2>8. m \in [data : Data, version : 1..v, persisted : Data]
    BY <2>6, <2>7
  <2>9. outages' # 0
    BY <1>4
  <2>10. QED
    BY <2>3, <2>4, <2>6, <2>8, <2>9
<1>5. QED
  BY <1>3, <1>4 DEF Restored

\* A save that fails, after which u is put into the memory.
LEMMA NotSavedHolds ==
  ASSUME PayloadAgrees, NEW i \in Instances, NEW new, NEW n, NEW p, Proposal(i, new, n, p),
         NotSaved(i, new), NEW m \in Restored(i), NEW u, PutBack(i, m, u),
         Good(m.data, n, p, rows') /\ Grows(rows') => Good(u, n, p, rows') /\ u.change = m.data.change,
         UNCHANGED <<expired, answers, revoked>>
  PROVE  Onward
<1>1. PICK v \in Nat, e \in Data :
           /\ v >= db.version
           /\ Grows(rows') /\ Good(e, n, p, rows') /\ Leads(e.passports, rows')
           /\ db' = [version |-> v, data |-> e]
           /\ auditRows' \subseteq Event /\ IsFiniteSet(auditRows')
           /\ outages' \in Nat
           /\ outages' = 0 => outages = 0 /\ v = db.version /\ e = db.data
  BY NotSavedTables
<1>2. /\ m \in [data : Data, version : 1..v, persisted : Data]
      /\ Good(m.data, n, p, rows') /\ Good(m.persisted, n, p, rows')
      /\ outages' = 0 => m.data.change = e.change
  BY <1>1, RestoredFacts
<1>3. Good(u, n, p, rows') /\ u.change = m.data.change
  BY <1>1, <1>2
<1>4. PICK w : w = [m EXCEPT !.data = u]
  OBVIOUS
<1>5. w.data = u /\ w.persisted = m.persisted /\ w = [data |-> u, version |-> m.version, persisted |-> m.persisted]
  BY <1>2, <1>4
<1>6. w \in [data : Data, version : 1..v, persisted : Data]
  BY <1>2, <1>3, <1>5 DEF Good
<1>7. mem' = [mem EXCEPT ![i] = w]
  BY <1>4 DEF PutBack
<1>8. Good(w.data, n, p, rows') /\ Good(w.persisted, n, p, rows')
  BY <1>2, <1>3, <1>5
<1>9. expired' \subseteq Passports /\ answers' \subseteq Passports \X Consumers /\ revoked' \subseteq Passports
  BY DEF PayloadAgrees, TypeOK
<1>10. /\ \A a \in answers' : rows'[a[1]] = [status |-> "CONSUMED", by |-> a[2]]
       /\ \A q \in revoked' : rows'[q].status \notin {"NONE", "ACTIVE"}
  BY <1>1, HistoryKept
<1>11. outages' = 0 => /\ outages = 0
                       /\ w.version = v => w.data.change.version = e.change.version
                       /\ v = db.version => e.change.version = db.data.change.version
                       /\ e.change.version >= db.data.change.version
  <2>1. db.data.change.version >= db.data.change.version
    BY Typed, DataFields
  <2>2. QED
    BY <1>1, <1>2, <1>3, <1>5, <2>1
<1>12. NewPlace(n, p)
  BY DEF Proposal
<1>13. QED
  BY <1>1, <1>6, <1>7, <1>8, <1>9, <1>10, <1>11, <1>12, Moves

\* The chain of the memory of an instance, with an event more.
LEMMA NextChain ==
  ASSUME PayloadAgrees, NEW d \in Held, NEW as, NEW w \in Passports \cup {None}, as = Record(d.audits, <<w>>)
  PROVE  as \in Seq(Event) /\ Linked(as)
<1>1. IsFiniteSet(auditRows) /\ d.audits \in Seq(Event) /\ Linked(d.audits)
  BY HeldIsData, DataFields DEF PayloadAgrees, TypeOK
<1>2. QED
  BY <1>1, RecordedOne

\* A list that is held may be saved.
LEMMA OldIsCandidate ==
  ASSUME PayloadAgrees, NEW d \in Held, NEW n, NEW p
  PROVE  Candidate(d.passports, n, p)
<1>1. Good(d, n, p, rows)
  BY RowsGrow, OldIsGood
<1>2. QED
  BY <1>1 DEF Good, Descends, AgreesIn, Candidate

LEMMA UpdateChangeStep ==
  ASSUME PayloadAgrees, NEW i \in Instances, UpdateChange(i)
  PROVE  Onward
<1>1. PICK d \in Held : d = mem[i].data
  BY DEF Held
<1>2. d \in Data /\ d.passports \in Seq(Item) /\ d.change.version \in Nat
      /\ d.change \in [status : {"APPROVED", "COMPLETED"}, version : Nat]
  BY HeldIsData, DataFields
<1>3. PICK new : new = [d EXCEPT !.change.version = @ + 1, !.audits = Record(@, <<None>>)]
  OBVIOUS
<1>4. PICK as : as = Record(d.audits, <<None>>)
  OBVIOUS
<1>5. as \in Seq(Event) /\ Linked(as)
  BY <1>4, NextChain
<1>6. PICK c : c = [status |-> d.change.status, version |-> d.change.version + 1]
  OBVIOUS
<1>7. c \in [status : {"APPROVED", "COMPLETED"}, version : Nat] /\ c.version >= d.change.version
  BY <1>2, <1>6
<1>8. new = [change |-> c, passports |-> d.passports, audits |-> as]
  <2>1. new = [[d EXCEPT !.change = [d.change EXCEPT !.version = d.change.version + 1]] EXCEPT !.audits = as]
    BY <1>2, <1>3, <1>4, Parts
  <2>2. [d.change EXCEPT !.version = d.change.version + 1] = c
    BY <1>2, <1>6
  <2>3. new = [[d EXCEPT !.change = c] EXCEPT !.audits = as]
    BY <2>1, <2>2
  <2>4. QED
    BY <1>2, <2>3 DEF Data
<1>9. new \in Data /\ new.change = c /\ new.passports = d.passports /\ new.audits = as
  <2>1. PICK ps \in Seq(Item) : ps = d.passports
    BY <1>2
  <2>2. new = [change |-> c, passports |-> ps, audits |-> as]
    BY <1>8, <2>1
  <2>3. new \in Data /\ new.change = c /\ new.passports = ps /\ new.audits = as
    BY <1>5, <1>7, <2>2 DEF Data
  <2>4. QED
    BY <2>1, <2>3
<1>10. Proposal(i, new, 0, None)
  BY <1>1, <1>5, <1>7, <1>9, NoNewPlace, OldIsCandidate DEF Proposal
<1>11. UNCHANGED <<expired, answers, revoked>>
  BY DEF UpdateChange, history
<1>12. CASE Saved(i, new)
  BY <1>10, <1>11, <1>12, SavedHolds DEF PayloadAgrees, TypeOK
<1>13. CASE NotSaved(i, new) /\ \E m \in Restored(i) : PutBack(i, m, m.data)
  <2>1. PICK m \in Restored(i) : PutBack(i, m, m.data)
    BY <1>13
  <2>2. QED
    BY <1>10, <1>11, <1>13, <2>1, NotSavedHolds
<1>14. QED
  BY <1>1, <1>3, <1>12, <1>13 DEF UpdateChange

\* A copy with another list and another chain.
Revised(d, ps, as) == [d EXCEPT !.passports = ps, !.audits = as]

LEMMA OtherParts ==
  ASSUME NEW x \in Data, NEW list \in Seq(Item), NEW chain \in Seq(Event),
         NEW y, y = Revised(x, list, chain)
  PROVE  y \in Data /\ y.change = x.change /\ y.passports = list /\ y.audits = chain
BY DEF Data, Revised

\* The copy d that an operation had put back into the reloaded state e.
LEMMA UndoIsGood ==
  ASSUME PayloadAgrees, NEW d \in Held, NEW n, NEW p, NEW rs, Grows(rs), NEW e, Good(e, n, p, rs),
         NEW u, u = Revised(e, d.passports, d.audits)
  PROVE  Good(u, n, p, rs) /\ u.change = e.change
<1>1. Good(d, n, p, rs)
  BY OldIsGood
<1>2. d \in Data /\ e \in Data
  BY <1>1 DEF Good
<1>3. d.passports \in Seq(Item) /\ d.audits \in Seq(Event)
  BY <1>2, DataFields
<1>4. u \in Data /\ u.change = e.change /\ u.passports = d.passports /\ u.audits = d.audits
  BY <1>2, <1>3, OtherParts
<1>5. QED
  BY <1>1, <1>4 DEF Good

LEMMA CreatePassportStep ==
  ASSUME PayloadAgrees, NEW i \in Instances, NEW p \in Passports, CreatePassport(i, p)
  PROVE  Onward
<1>1. PICK d \in Held : d = mem[i].data
  BY DEF Held
<1>2. d \in Data /\ d.passports \in Seq(Item) /\ d.audits \in Seq(Event) /\ d.change.version \in Nat
      /\ Linked(d.audits)
  BY HeldIsData, DataFields
<1>3. PICK lapsed : lapsed = {k \in DOMAIN d.passports :
                   d.passports[k].status = "ACTIVE" /\ d.passports[k].id \in expired}
  OBVIOUS
<1>4. PICK item : item = [id |-> p, status |-> "ACTIVE", by |-> None]
  OBVIOUS
<1>5. PICK qs : qs = Materialize(d.passports)
  OBVIOUS
<1>6. PICK ps : ps = Append(qs, item)
  OBVIOUS
<1>7. PICK ws : ws = [k \in 1..(Cardinality(lapsed) + 1) |-> None]
  OBVIOUS
<1>8. PICK as : as = Record(d.audits, ws)
  OBVIOUS
<1>9. PICK new : new = Revised(d, ps, as)
  OBVIOUS
<1>10. as \in Seq(Event) /\ Linked(as)
  <2>1. PICK l \in Nat : l = Len(d.passports) /\ DOMAIN d.passports = 1..l
    BY <1>2, LenProperties
  <2>2. IsFiniteSet(1..l)
    BY FS_Interval, 1 \in Int, l \in Int
  <2>3. IsFiniteSet(lapsed)
    BY <1>3, <2>1, <2>2, FS_Subset
  <2>4. Cardinality(lapsed) \in Nat
    BY <2>3, FS_CardinalityType
  <2>5. PICK c \in Nat : c = Cardinality(lapsed) + 1
    BY <2>4
  <2>6. ws \in [1..c -> Passports \cup {None}]
    BY <1>7, <2>5
  <2>7. IsFiniteSet(auditRows)
    BY DEF PayloadAgrees, TypeOK
  <2>8. QED
    BY <1>2, <1>8, <2>6, <2>7, Recorded
<1>11. item \in Item /\ item.id = p /\ item.status = "ACTIVE" /\ item.by = None
  BY <1>4 DEF Item, Statuses
<1>12. PICK n \in Nat : n = Len(d.passports) + 1
  BY <1>2, LenProperties
<1>13. NewPlace(n, p)
  BY FreshPlace DEF CreatePassport
<1>14. Candidate(ps, n, p)
  <2>1. Good(d, n, p, rows)
    BY RowsGrow, OldIsGood
  <2>2. PICK e : e = Normalize(d)
    OBVIOUS
  <2>3. Good(e, n, p, rows) /\ e.passports = qs
    BY <1>5, <2>1, <2>2, NormalIsGood
  <2>4. qs \in Seq(Item) /\ \A k \in DOMAIN qs : PlacedAs(k, qs[k].id, n, p) /\ AgreesIn(rows, qs[k])
    BY <2>3 DEF Good, Descends
  <2>5. DOMAIN qs = DOMAIN d.passports
    BY <1>2, <1>5, Materialized
  <2>6. PICK l \in Nat : l = Len(qs) /\ DOMAIN qs = 1..l
    BY <2>4, LenProperties
  <2>7. Len(d.passports) = l
    <3>1. Len(d.passports) \in Nat /\ DOMAIN d.passports = 1..Len(d.passports)
      BY <1>2, LenProperties
    <3>2. 1..Len(d.passports) = 1..l
      BY <2>5, <2>6, <3>1
    <3>3. QED
      BY <3>1, <3>2
  <2>8. n = l + 1
    BY <1>12, <2>7
  <2>9. ps \in Seq(Item) /\ Len(ps) = l + 1 /\ (\A k \in 1..l : ps[k] = qs[k]) /\ ps[l + 1] = item
    BY <1>6, <1>11, <2>4, <2>6, AppendProperties
  <2>10. DOMAIN ps = 1..(l + 1)
    BY <2>9, LenProperties
  <2>11. ASSUME NEW k \in DOMAIN ps
         PROVE  /\ PlacedAs(k, ps[k].id, n, p)
                /\ ps[k].status = "CONSUMED" => rows[ps[k].id] = [status |-> "CONSUMED", by |-> ps[k].by]
                /\ ps[k].status # "CONSUMED" => ps[k].by = None
    <3>1. k \in 1..l \/ k = l + 1
      BY <2>10
    <3>2. CASE k \in 1..l
      <4>1. ps[k] = qs[k]
        BY <2>9, <3>2
      <4>2. PlacedAs(k, qs[k].id, n, p) /\ AgreesIn(rows, qs[k])
        BY <2>4, <2>6, <3>2
      <4>3. QED
        BY <4>1, <4>2 DEF AgreesIn
    <3>3. CASE k = l + 1
      <4>1. ps[k] = item /\ k = n
        BY <2>8, <2>9, <3>3
      <4>2. QED
        BY <1>11, <4>1 DEF PlacedAs
    <3>4. QED
      BY <3>1, <3>2, <3>3
  <2>12. QED
    BY <2>9, <2>11 DEF Candidate
<1>15. ps \in Seq(Item)
  BY <1>14 DEF Candidate
<1>16. new \in Data /\ new.change = d.change /\ new.passports = ps /\ new.audits = as
  <2>1. d \in Data
    BY <1>2
  <2>2. as \in Seq(Event)
    BY <1>10
  <2>3. QED
    BY <1>9, <1>15, <2>1, <2>2 DEF Revised, Data
<1>17. Proposal(i, new, n, p)
  <2>1. new.change.version >= mem[i].data.change.version
    BY <1>1, <1>2, <1>16
  <2>2. QED
    BY <1>10, <1>13, <1>14, <1>16, <2>1 DEF Proposal
<1>18. UNCHANGED <<expired, answers, revoked>>
  BY DEF CreatePassport, history
<1>19. CASE Saved(i, new)
  BY <1>17, <1>18, <1>19, SavedHolds DEF PayloadAgrees, TypeOK
<1>20. CASE NotSaved(i, new) /\ \E m \in Restored(i) :
               PutBack(i, m, [m.data EXCEPT !.passports = d.passports, !.audits = d.audits])
  <2>1. PICK m \in Restored(i) :
               PutBack(i, m, [m.data EXCEPT !.passports = d.passports, !.audits = d.audits])
    BY <1>20
  <2>2. PICK u : u = Revised(m.data, d.passports, d.audits)
    OBVIOUS
  <2>3. PutBack(i, m, u)
    BY <2>1, <2>2 DEF Revised
  <2>4. Good(m.data, n, p, rows') /\ Grows(rows') => Good(u, n, p, rows') /\ u.change = m.data.change
    BY <2>2, UndoIsGood
  <2>5. QED
    BY <1>17, <1>18, <1>20, <2>3, <2>4, NotSavedHolds
<1>21. new = [d EXCEPT !.passports = Append(Materialize(@), item),
               !.audits = Record(@, [k \in 1..(Cardinality(lapsed) + 1) |-> None])]
  BY <1>2, <1>5, <1>6, <1>7, <1>8, <1>9 DEF Revised
<1>22. QED
  BY <1>1, <1>3, <1>4, <1>19, <1>20, <1>21 DEF CreatePassport

\* The place of a passport in a list that has it.
LEMMA Found ==
  ASSUME NEW ps, NEW p, Knows(ps, p), NEW k, k = Index(ps, p)
  PROVE  k \in DOMAIN ps /\ ps[k].id = p
BY DEF Knows, Index

\* A list in which the item at k, which was not consumed, has another status.
LEMMA Restated ==
  ASSUME PayloadAgrees, NEW d \in Held, NEW n, NEW p, NEW ps \in Seq(Item), DOMAIN ps = DOMAIN d.passports,
         \A k \in DOMAIN ps : \/ ps[k] = d.passports[k]
                              \/ /\ d.passports[k].status # "CONSUMED" /\ ps[k].status # "CONSUMED"
                                 /\ ps[k].id = d.passports[k].id /\ ps[k].by = d.passports[k].by
  PROVE  Candidate(ps, n, p)
<1>1. Candidate(d.passports, n, p)
  BY OldIsCandidate
<1>2. ASSUME NEW k \in DOMAIN ps
      PROVE  /\ PlacedAs(k, ps[k].id, n, p)
             /\ ps[k].status = "CONSUMED" => rows[ps[k].id] = [status |-> "CONSUMED", by |-> ps[k].by]
             /\ ps[k].status # "CONSUMED" => ps[k].by = None
  <2>1. /\ PlacedAs(k, d.passports[k].id, n, p)
        /\ d.passports[k].status = "CONSUMED" => rows[d.passports[k].id] = [status |-> "CONSUMED", by |-> d.passports[k].by]
        /\ d.passports[k].status # "CONSUMED" => d.passports[k].by = None
    BY <1>1 DEF Candidate
  <2>2. CASE ps[k] = d.passports[k]
    BY <2>1, <2>2
  <2>3. CASE ps[k] # d.passports[k]
    BY <2>1, <2>3
  <2>4. QED
    BY <2>2, <2>3
<1>3. QED
  BY <1>2 DEF Candidate

\* One item of a copy is put back into the reloaded state e at its old place.
PutAt(e, d, k) == [e EXCEPT !.passports[k] = d.passports[k], !.audits = d.audits]

LEMMA PutAtIsGood ==
  ASSUME PayloadAgrees, NEW d \in Held, NEW n, NEW p, NEW rs, Grows(rs), NEW e, Good(e, n, p, rs),
         NEW k \in DOMAIN d.passports, k \in DOMAIN e.passports, NEW u, u = PutAt(e, d, k)
  PROVE  Good(u, n, p, rs) /\ u.change = e.change
<1>1. Good(d, n, p, rs)
  BY OldIsGood
<1>2. d \in Data /\ e \in Data
  BY <1>1 DEF Good
<1>3. d.passports \in Seq(Item) /\ d.audits \in Seq(Event) /\ e.passports \in Seq(Item)
  BY <1>2, DataFields
<1>4. d.passports[k] \in Item
  BY <1>3, ElementOfSeq, LenProperties
<1>5. PICK qs : qs = [e.passports EXCEPT ![k] = d.passports[k]]
  OBVIOUS
<1>6. /\ qs \in Seq(Item) /\ DOMAIN qs = DOMAIN e.passports
      /\ \A l \in DOMAIN e.passports : qs[l] = IF l = k THEN d.passports[k] ELSE e.passports[l]
  BY <1>3, <1>4, <1>5, Replaced
<1>7. u = Revised(e, qs, d.audits)
  BY <1>2, <1>5 DEF Data, PutAt, Revised
<1>8. u \in Data /\ u.change = e.change /\ u.passports = qs /\ u.audits = d.audits
  BY <1>2, <1>3, <1>6, <1>7 DEF Revised, Data
<1>9. ASSUME NEW l \in DOMAIN qs
      PROVE  PlacedAs(l, qs[l].id, n, p) /\ AgreesIn(rs, qs[l])
  <2>1. CASE l = k
    BY <1>1, <1>6, <2>1 DEF Good, Descends
  <2>2. CASE l # k
    BY <1>6, <2>2 DEF Good, Descends
  <2>3. QED
    BY <2>1, <2>2
<1>10. QED
  BY <1>1, <1>6, <1>8, <1>9 DEF Good, Descends

LEMMA RevokePassportStep ==
  ASSUME PayloadAgrees, NEW i \in Instances, NEW p \in Passports, RevokePassport(i, p)
  PROVE  Onward
<1>1. PICK d \in Held : d = mem[i].data
  BY DEF Held
<1>2. d \in Data /\ d.passports \in Seq(Item) /\ d.audits \in Seq(Event) /\ d.change.version \in Nat
  BY HeldIsData, DataFields
<1>3. PICK k : k = Index(d.passports, p)
  OBVIOUS
<1>4. k \in DOMAIN d.passports /\ d.passports[k].id = p /\ d.passports[k].status = "ACTIVE"
  <2>1. Knows(d.passports, p) /\ d.passports[Index(d.passports, p)].status = "ACTIVE"
    BY <1>1 DEF RevokePassport
  <2>2. QED
    BY <1>3, <2>1, Found
<1>5. PICK it : it = [d.passports[k] EXCEPT !.status = "REVOKED"]
  OBVIOUS
<1>6. d.passports[k] \in Item
  BY <1>2, <1>4, ElementOfSeq, LenProperties
<1>7. it \in Item /\ it.id = p /\ it.status = "REVOKED" /\ it.by = d.passports[k].by
  BY <1>4, <1>5, <1>6 DEF Item, Statuses
<1>8. PICK ps : ps = [d.passports EXCEPT ![k] = it]
  OBVIOUS
<1>9. /\ ps \in Seq(Item) /\ DOMAIN ps = DOMAIN d.passports
      /\ \A l \in DOMAIN d.passports : ps[l] = IF l = k THEN it ELSE d.passports[l]
  BY <1>2, <1>4, <1>7, <1>8, Replaced
<1>10. Candidate(ps, 0, None)
  BY <1>4, <1>7, <1>9, Restated
<1>11. PICK as : as = Record(d.audits, <<None>>)
  OBVIOUS
<1>12. as \in Seq(Event) /\ Linked(as)
  BY <1>11, NextChain
<1>13. PICK new : new = Revised(d, ps, as)
  OBVIOUS
<1>14. new = [d EXCEPT !.passports[k].status = "REVOKED", !.audits = Record(@, <<None>>)]
  BY <1>2, <1>5, <1>8, <1>11, <1>13 DEF Revised, Data
<1>15. new \in Data /\ new.change = d.change /\ new.passports = ps /\ new.audits = as
  BY <1>2, <1>9, <1>12, <1>13 DEF Revised, Data
<1>16. Proposal(i, new, 0, None)
  <2>1. new.change.version >= mem[i].data.change.version
    BY <1>1, <1>2, <1>15
  <2>2. QED
    BY <1>10, <1>12, <1>15, <2>1, NoNewPlace DEF Proposal
<1>17. UNCHANGED <<expired, answers>>
  BY DEF RevokePassport
<1>18. CASE Saved(i, new) /\ revoked' = revoked \cup {p}
  <2>1. revoked' \subseteq Passports
    BY <1>18 DEF PayloadAgrees, TypeOK
  <2>2. ASSUME NEW q \in revoked'
        PROVE  q \in revoked \/ \E l \in DOMAIN new.passports :
                 new.passports[l].id = q /\ new.passports[l].status = "REVOKED"
    <3>1. q \in revoked \/ q = p
      BY <1>18
    <3>2. k \in DOMAIN new.passports /\ new.passports[k] = it
      BY <1>4, <1>9, <1>15
    <3>3. QED
      BY <1>7, <3>1, <3>2
  <2>3. QED
    BY <1>16, <1>17, <1>18, <2>1, <2>2, SavedHolds
<1>19. CASE /\ NotSaved(i, new) /\ UNCHANGED revoked
            /\ \E m \in Restored(i) :
                 PutBack(i, m, IF k \in DOMAIN m.data.passports THEN PutAt(m.data, d, k) ELSE m.data)
  <2>1. PICK m \in Restored(i) :
                 PutBack(i, m, IF k \in DOMAIN m.data.passports THEN PutAt(m.data, d, k) ELSE m.data)
    BY <1>19
  <2>2. PICK u : u = IF k \in DOMAIN m.data.passports THEN PutAt(m.data, d, k) ELSE m.data
    OBVIOUS
  <2>3. PutBack(i, m, u)
    BY <2>1, <2>2
  <2>4. Good(m.data, 0, None, rows') /\ Grows(rows') => Good(u, 0, None, rows') /\ u.change = m.data.change
    <3>1. CASE k \in DOMAIN m.data.passports
      BY <1>4, <2>2, <3>1, PutAtIsGood
    <3>2. CASE k \notin DOMAIN m.data.passports
      BY <2>2, <3>2
    <3>3. QED
      BY <3>1, <3>2
  <2>5. UNCHANGED <<expired, answers, revoked>>
    BY <1>17, <1>19
  <2>6. QED
    BY <1>16, <1>19, <2>3, <2>4, <2>5, NotSavedHolds
<1>20. QED
  BY <1>1, <1>3, <1>14, <1>18, <1>19 DEF RevokePassport, PutAt

LEMMA RevokePassportsByChangeStep ==
  ASSUME PayloadAgrees, NEW i \in Instances, RevokePassportsByChange(i)
  PROVE  Onward
<1>1. PICK d \in Held : d = mem[i].data
  BY DEF Held
<1>2. d \in Data /\ d.passports \in Seq(Item) /\ d.audits \in Seq(Event) /\ d.change.version \in Nat
  BY HeldIsData, DataFields
<1>3. PICK live : live = {k \in DOMAIN d.passports : d.passports[k].status = "ACTIVE"}
  OBVIOUS
<1>4. PICK ps : ps = [k \in DOMAIN d.passports |-> IF k \in live
                        THEN [d.passports[k] EXCEPT !.status = "REVOKED"] ELSE d.passports[k]]
  OBVIOUS
<1>5. ASSUME NEW k \in DOMAIN d.passports
      PROVE  /\ ps[k] \in Item /\ ps[k].id = d.passports[k].id /\ ps[k].by = d.passports[k].by
             /\ k \in live => ps[k].status = "REVOKED" /\ d.passports[k].status = "ACTIVE"
             /\ k \notin live => ps[k] = d.passports[k]
  <2>1. d.passports[k] \in Item
    BY <1>2, ElementOfSeq, LenProperties
  <2>2. CASE k \in live
    <3>1. ps[k] = [d.passports[k] EXCEPT !.status = "REVOKED"] /\ d.passports[k].status = "ACTIVE"
      BY <1>3, <1>4, <2>2
    <3>2. QED
      BY <2>1, <2>2, <3>1 DEF Item, Statuses
  <2>3. CASE k \notin live
    <3>1. ps[k] = d.passports[k]
      BY <1>4, <2>3
    <3>2. QED
      BY <2>1, <2>3, <3>1
  <2>4. QED
    BY <2>2, <2>3
<1>6. ps \in Seq(Item) /\ DOMAIN ps = DOMAIN d.passports
  <2>1. PICK l \in Nat : l = Len(d.passports) /\ DOMAIN d.passports = 1..l
    BY <1>2, LenProperties
  <2>2. ps = [k \in 1..l |-> ps[k]] /\ DOMAIN ps = 1..l
    BY <1>4, <2>1
  <2>3. QED
    BY <1>5, <2>1, <2>2, Listed
<1>7. Candidate(ps, 0, None)
  <2>1. \A k \in DOMAIN ps : \/ ps[k] = d.passports[k]
                             \/ /\ d.passports[k].status # "CONSUMED" /\ ps[k].status # "CONSUMED"
                                /\ ps[k].id = d.passports[k].id /\ ps[k].by = d.passports[k].by
    BY <1>5, <1>6
  <2>2. QED
    BY <1>6, <2>1, Restated
<1>8. PICK as : as = Record(d.audits, <<None>>)
  OBVIOUS
<1>9. as \in Seq(Event) /\ Linked(as)
  BY <1>8, NextChain
<1>10. PICK new : new = Revised(d, ps, as)
  OBVIOUS
<1>11. new = [d EXCEPT
               !.passports = [k \in DOMAIN @ |-> IF k \in live
                                                 THEN [@[k] EXCEPT !.status = "REVOKED"]
                                                 ELSE @[k]],
               !.audits = Record(@, <<None>>)]
  BY <1>4, <1>8, <1>10 DEF Revised
<1>12. new \in Data /\ new.change = d.change /\ new.passports = ps /\ new.audits = as
  BY <1>2, <1>6, <1>9, <1>10 DEF Revised, Data
<1>13. Proposal(i, new, 0, None)
  <2>1. new.change.version >= mem[i].data.change.version
    BY <1>1, <1>2, <1>12
  <2>2. QED
    BY <1>7, <1>9, <1>12, <2>1, NoNewPlace DEF Proposal
<1>14. UNCHANGED <<expired, answers>>
  BY DEF RevokePassportsByChange
<1>15. CASE Saved(i, new) /\ revoked' = revoked \cup {d.passports[k].id : k \in live}
  <2>1. \A k \in live : k \in DOMAIN d.passports /\ d.passports[k].id \in Passports
    <3>1. \A k \in DOMAIN d.passports : d.passports[k] \in Item
      BY <1>2, ElementOfSeq, LenProperties
    <3>2. QED
      BY <1>3, <3>1 DEF Item
  <2>2. revoked' \subseteq Passports
    BY <1>15, <2>1 DEF PayloadAgrees, TypeOK
  <2>3. ASSUME NEW q \in revoked'
        PROVE  q \in revoked \/ \E l \in DOMAIN new.passports :
                 new.passports[l].id = q /\ new.passports[l].status = "REVOKED"
    <3>1. CASE q \in revoked
      BY <3>1
    <3>2. CASE q \notin revoked
      <4>1. PICK k \in live : q = d.passports[k].id
        BY <1>15, <3>2
      <4>2. k \in DOMAIN new.passports /\ new.passports[k].id = q /\ new.passports[k].status = "REVOKED"
        BY <1>5, <1>6, <1>12, <2>1, <4>1
      <4>3. QED
        BY <4>2
    <3>3. QED
      BY <3>1, <3>2
  <2>4. QED
    BY <1>13, <1>14, <1>15, <2>2, <2>3, SavedHolds
<1>16. CASE /\ NotSaved(i, new) /\ UNCHANGED revoked
            /\ \E m \in Restored(i) : PutBack(i, m, Revised(m.data, d.passports, d.audits))
  <2>1. PICK m \in Restored(i) : PutBack(i, m, Revised(m.data, d.passports, d.audits))
    BY <1>16
  <2>2. PICK u : u = Revised(m.data, d.passports, d.audits)
    OBVIOUS
  <2>3. Good(m.data, 0, None, rows') /\ Grows(rows') => Good(u, 0, None, rows') /\ u.change = m.data.change
    BY <2>2, UndoIsGood
  <2>4. UNCHANGED <<expired, answers, revoked>>
    BY <1>14, <1>16
  <2>5. QED
    BY <1>13, <1>16, <2>1, <2>2, <2>3, <2>4, NotSavedHolds
<1>17. QED
  BY <1>1, <1>3, <1>11, <1>15, <1>16 DEF RevokePassportsByChange, Revised

-----------------------------------------------------------------------------
(* Transactions on the database itself. *)

\* What an instance has in memory after it has read the row.
LEMMA Installed ==
  ASSUME PayloadAgrees, NEW n, NEW p, NEW rs, NEW v \in Nat, v >= 1, NEW e, Good(e, n, p, rs),
         NEW m, m = [data |-> Normalize(e), version |-> v, persisted |-> e]
  PROVE  /\ m \in [data : Data, version : 1..v, persisted : Data]
         /\ Good(m.data, n, p, rs) /\ Good(m.persisted, n, p, rs)
         /\ m.data.change = e.change
<1>1. PICK f : f = Normalize(e)
  OBVIOUS
<1>2. Good(f, n, p, rs) /\ f.change = e.change
  BY <1>1, NormalIsGood
<1>3. v \in 1..v
  OBVIOUS
<1>4. m = [data |-> f, version |-> v, persisted |-> e] /\ f \in Data /\ e \in Data
  BY <1>1, <1>2 DEF Good
<1>5. m.data = f /\ m.persisted = e /\ m \in [data : Data, version : 1..v, persisted : Data]
  BY <1>3, <1>4
<1>6. QED
  BY <1>2, <1>5

\* A transaction under FOR UPDATE.
LEMMA CommitHolds ==
  ASSUME PayloadAgrees, NEW i \in Instances, NEW new, Good(new, 0, None, rows'), Grows(rows'),
         Leads(new.passports, rows'), new.change.version >= db.data.change.version, Commit(i, new),
         UNCHANGED <<expired, revoked>>, answers' \subseteq Passports \X Consumers,
         \A a \in answers' : rows'[a[1]] = [status |-> "CONSUMED", by |-> a[2]]
  PROVE  Onward
<1>1. new \in Data /\ new.audits \in Seq(Event)
  BY DataFields DEF Good
<1>2. auditRows \subseteq Event /\ IsFiniteSet(auditRows) /\ outages \in Nat
  BY DEF PayloadAgrees, TypeOK
<1>3. PICK v \in Nat : v = db.version + 1 /\ v >= db.version /\ v # db.version /\ v >= 1
  BY Typed
<1>4. db' = [version |-> v, data |-> new] /\ db'.data = new /\ db'.version = v
  BY <1>3 DEF Commit
<1>5. auditRows' \subseteq Event /\ IsFiniteSet(auditRows')
  BY <1>1, <1>2, EventsStored DEF Commit
<1>6. NewPlace(0, None)
  BY NoNewPlace
<1>7. expired' \subseteq Passports /\ revoked' \subseteq Passports
  BY DEF PayloadAgrees, TypeOK
<1>8. \A q \in revoked' : rows'[q].status \notin {"NONE", "ACTIVE"}
  BY HistoryKept
<1>9. CASE Install(i, db') /\ UNCHANGED outages
  <2>1. PICK m : m = [data |-> Normalize(new), version |-> v, persisted |-> new]
    OBVIOUS
  <2>2. mem' = [mem EXCEPT ![i] = m]
    BY <1>4, <1>9, <2>1 DEF Install
  <2>3. /\ m \in [data : Data, version : 1..v, persisted : Data]
        /\ Good(m.data, 0, None, rows') /\ Good(m.persisted, 0, None, rows')
        /\ m.data.change = new.change
    BY <1>3, <2>1, Installed
  <2>4. outages' \in Nat
    BY <1>2, <1>9
  <2>5. outages' = 0 => /\ outages = 0
                        /\ m.version = v => m.data.change.version = new.change.version
                        /\ v = db.version => new.change.version = db.data.change.version
                        /\ new.change.version >= db.data.change.version
    BY <1>3, <1>9, <2>3
  <2>6. QED
    BY <1>3, <1>4, <1>5, <1>6, <1>7, <1>8, <2>2, <2>3, <2>4, <2>5, Moves
<1>10. CASE Outage /\ UNCHANGED mem
  <2>1. PICK m : m = mem[i]
    OBVIOUS
  <2>2. mem \in [Instances -> [data : Data, version : 1..db.version, persisted : Data]] /\ db.version \in Nat
    BY Typed DEF PayloadAgrees, TypeOK
  <2>3. mem' = [mem EXCEPT ![i] = m]
    BY <1>10, <2>1, <2>2
  <2>4. m \in [data : Data, version : 1..v, persisted : Data]
    <3>1. 1..db.version \subseteq 1..v
      BY <1>3, <2>2
    <3>2. QED
      BY <2>1, <2>2, <3>1
  <2>5. m.data \in Held /\ m.persisted \in Held
    BY <2>1 DEF Held
  <2>6. Good(m.data, 0, None, rows') /\ Good(m.persisted, 0, None, rows')
    BY <2>5, OldIsGood
  <2>7. outages' \in Nat /\ outages' # 0
    BY <1>2, <1>10 DEF Outage
  <2>8. QED
    BY <1>3, <1>4, <1>5, <1>6, <1>7, <1>8, <2>3, <2>4, <2>6, <2>7, Moves
<1>11. QED
  BY <1>9, <1>10 DEF Commit

\* The payload of the row.
LEMMA Payload ==
  ASSUME PayloadAgrees
  PROVE  /\ db.data \in Held /\ db.data \in Data
         /\ db.data.passports \in Seq(Item) /\ db.data.audits \in Seq(Event)
         /\ db.data.change.version \in Nat
         /\ db.data.change \in [status : {"APPROVED", "COMPLETED"}, version : Nat]
         /\ \A k \in DOMAIN db.data.passports : db.data.passports[k] \in Item
         /\ Leads(db.data.passports, rows)
<1>1. db.data \in Held /\ db.data \in Data
  BY Typed DEF Held
<1>2. db.data.passports \in Seq(Item)
  BY <1>1, DataFields
<1>3. \A k \in DOMAIN db.data.passports : db.data.passports[k] \in Item
  BY <1>2, ElementOfSeq, LenProperties
<1>4. Leads(db.data.passports, rows)
  BY DEF PayloadAgrees, RowsLead, Leads
<1>5. QED
  BY <1>1, <1>2, <1>3, <1>4, DataFields

LEMMA RecordAuditStep ==
  ASSUME PayloadAgrees, NEW i \in Instances, RecordAudit(i)
  PROVE  Onward
<1>1. PICK d \in Held : d = db.data
  BY DEF Held
<1>2. d \in Data /\ d.passports \in Seq(Item) /\ d.change.version \in Nat
  BY HeldIsData, DataFields
<1>3. PICK as : as = Record(d.audits, <<None>>)
  OBVIOUS
<1>4. as \in Seq(Event) /\ Linked(as)
  BY <1>3, NextChain
<1>5. PICK new : new = [d EXCEPT !.audits = Record(@, <<None>>)]
  OBVIOUS
<1>6. new \in Data /\ new.change = d.change /\ new.passports = d.passports /\ new.audits = as
  BY <1>2, <1>3, <1>4, <1>5 DEF Data
<1>7. Commit(i, new) /\ UNCHANGED <<rows, expired, answers, revoked>>
  BY <1>1, <1>5 DEF RecordAudit, history
<1>8. Grows(rows')
  BY <1>7, RowsGrow
<1>9. Good(d, 0, None, rows')
  BY <1>8, OldIsGood
<1>10. Good(new, 0, None, rows')
  BY <1>4, <1>6, <1>9 DEF Good
<1>11. Leads(new.passports, rows')
  BY <1>1, <1>6, <1>7, Payload
<1>12. answers' \subseteq Passports \X Consumers
  BY <1>7 DEF PayloadAgrees, TypeOK
<1>13. \A a \in answers' : rows'[a[1]] = [status |-> "CONSUMED", by |-> a[2]]
  BY <1>7, <1>8, HistoryKept
<1>14. new.change.version >= db.data.change.version
  BY <1>1, <1>2, <1>6
<1>15. UNCHANGED <<expired, revoked>>
  BY <1>7
<1>16. QED
  BY <1>7, <1>8, <1>10, <1>11, <1>12, <1>13, <1>14, <1>15, CommitHolds

\* The gate ends a passport whose row is ACTIVE: in the row and in the payload.
LEMMA Ended ==
  ASSUME PayloadAgrees, NEW p \in Passports, rows[p].status = "ACTIVE",
         NEW k \in DOMAIN db.data.passports, db.data.passports[k].id = p,
         NEW it \in Item, it.id = p, it.status \in {"EXPIRED", "CONSUMED"},
         it.status # "CONSUMED" => it.by = None,
         NEW rs, rs = [rows EXCEPT ![p] = [status |-> it.status, by |-> it.by]],
         NEW ps, ps = [db.data.passports EXCEPT ![k] = it]
  PROVE  Grows(rs) /\ Descends(ps, 0, None, rs) /\ Leads(ps, rs)
<1>1. db.data.passports \in Seq(Item) /\ Leads(db.data.passports, rows) /\ db.data \in Held
  BY Payload
<1>2. /\ ps \in Seq(Item) /\ DOMAIN ps = DOMAIN db.data.passports
      /\ \A l \in DOMAIN ps : ps[l] = IF l = k THEN it ELSE db.data.passports[l]
  BY <1>1, Replaced
<1>3. rows \in [Passports -> Row]
  BY Typed
<1>4. PICK r : r = [status |-> it.status, by |-> it.by]
  OBVIOUS
<1>5. r \in Row /\ r.status = it.status /\ r.by = it.by
  BY <1>4 DEF Row, Item, Statuses
<1>6. rs = [rows EXCEPT ![p] = r]
  BY <1>4
<1>7. rs \in [Passports -> Row] /\ rs[p] = r /\ \A q \in Passports : q # p => rs[q] = rows[q]
  BY <1>3, <1>5, <1>6
<1>8. Grows(rs)
  <2>1. ASSUME NEW q \in Passports
        PROVE  /\ rows[q].status # "NONE" => rs[q].status # "NONE"
               /\ rows[q].status \notin {"NONE", "ACTIVE"} => rs[q] = rows[q]
               /\ rs[q].status # "CONSUMED" => rs[q].by = None
    <3>1. CASE q = p
      BY <1>5, <1>7, <3>1
    <3>2. CASE q # p
      BY <1>7, <3>2 DEF PayloadAgrees, AnswersHold
    <3>3. QED
      BY <3>1, <3>2
  <2>2. QED
    BY <1>7, <2>1 DEF Grows
<1>9. Good(db.data, 0, None, rs)
  BY <1>1, <1>8, OldIsGood
<1>10. ASSUME NEW l \in DOMAIN ps
       PROVE  /\ PlacedAs(l, ps[l].id, 0, None) /\ AgreesIn(rs, ps[l])
              /\ ps[l].status # "ACTIVE" => rs[ps[l].id].status # "ACTIVE"
  <2>1. CASE l = k
    <3>1. ps[l] = it
      BY <1>2, <2>1
    <3>2. PlacedAs(l, p, 0, None)
      BY <1>1, <2>1 DEF PlacedAs
    <3>3. AgreesIn(rs, it)
      BY <1>4, <1>5, <1>7 DEF AgreesIn
    <3>4. rs[it.id].status # "ACTIVE"
      BY <1>5, <1>7
    <3>5. QED
      BY <3>1, <3>2, <3>3, <3>4
  <2>2. CASE l # k
    <3>1. ps[l] = db.data.passports[l] /\ l \in DOMAIN db.data.passports
      BY <1>2, <2>2
    <3>2. PlacedAs(l, ps[l].id, 0, None) /\ AgreesIn(rs, ps[l])
      BY <1>9, <3>1 DEF Good, Descends
    <3>3. ps[l] \in Item
      BY <3>1, Payload
    <3>4. ps[l].id \in Passports
      BY <3>3 DEF Item
    <3>5. ps[l].id # p
      BY <1>1, <2>2, <3>1 DEF PayloadAgrees, OnePlace
    <3>6. rs[ps[l].id] = rows[ps[l].id]
      BY <1>7, <3>4, <3>5
    <3>7. ps[l].status # "ACTIVE" => rows[ps[l].id].status # "ACTIVE"
      BY <1>1, <3>1 DEF Leads
    <3>8. QED
      BY <3>2, <3>6, <3>7
  <2>3. QED
    BY <2>1, <2>2
<1>11. QED
  BY <1>2, <1>8, <1>10 DEF Descends, Leads

LEMMA UseLapsedStep ==
  ASSUME PayloadAgrees, NEW i \in Instances, NEW p \in Passports, UseLapsed(i, p)
  PROVE  Onward
<1>1. PICK d \in Held : d = db.data
  BY DEF Held
<1>2. d \in Data /\ d.passports \in Seq(Item) /\ d.audits \in Seq(Event) /\ d.change.version \in Nat
      /\ \A k \in DOMAIN d.passports : d.passports[k] \in Item
  BY <1>1, Payload
<1>3. PICK k : k = Index(d.passports, p)
  OBVIOUS
<1>4. k \in DOMAIN d.passports /\ d.passports[k].id = p
  <2>1. Knows(d.passports, p)
    BY <1>1 DEF UseLapsed
  <2>2. QED
    BY <1>3, <2>1, Found
<1>5. rows[p].status = "ACTIVE" /\ rows[p].by = None /\ rows[p] \in Row /\ rows \in [Passports -> Row]
  BY Typed DEF UseLapsed, PayloadAgrees, AnswersHold
<1>6. d.passports[k].by = None
  <2>1. Agrees(d.passports[k])
    BY <1>4 DEF PayloadAgrees, CopiesAgree
  <2>2. d.passports[k].status # "CONSUMED"
    BY <1>4, <1>5, <2>1 DEF Agrees
  <2>3. QED
    BY <2>1, <2>2 DEF Agrees
<1>7. PICK it : it = [d.passports[k] EXCEPT !.status = "EXPIRED"]
  OBVIOUS
<1>8. it \in Item /\ it.id = p /\ it.status = "EXPIRED" /\ it.by = None
  BY <1>2, <1>4, <1>6, <1>7 DEF Item, Statuses
<1>9. PICK ps : ps = [d.passports EXCEPT ![k] = it]
  OBVIOUS
<1>10. rows' = [rows EXCEPT ![p] = [status |-> it.status, by |-> it.by]]
  <2>1. rows' = [rows EXCEPT ![p] = [rows[p] EXCEPT !.status = "EXPIRED"]]
    BY <1>5 DEF UseLapsed
  <2>2. [rows[p] EXCEPT !.status = "EXPIRED"] = [status |-> "EXPIRED", by |-> None]
    BY <1>5 DEF Row
  <2>3. QED
    BY <1>8, <2>1, <2>2
<1>11. Grows(rows') /\ Descends(ps, 0, None, rows') /\ Leads(ps, rows')
  BY <1>1, <1>4, <1>5, <1>8, <1>9, <1>10, Ended
<1>12. PICK as : as = Record(d.audits, <<None>>)
  OBVIOUS
<1>13. as \in Seq(Event) /\ Linked(as)
  BY <1>12, NextChain
<1>14. PICK new : new = Revised(d, ps, as)
  OBVIOUS
<1>15. new = [d EXCEPT !.passports[k].status = "EXPIRED", !.audits = Record(@, <<None>>)]
  BY <1>2, <1>7, <1>9, <1>12, <1>14 DEF Revised, Data
<1>16. ps \in Seq(Item)
  BY <1>11 DEF Descends
<1>17. new \in Data /\ new.change = d.change /\ new.passports = ps /\ new.audits = as
  BY <1>2, <1>13, <1>14, <1>16 DEF Revised, Data
<1>18. Commit(i, new) /\ UNCHANGED <<expired, answers, revoked>>
  BY <1>1, <1>3, <1>15 DEF UseLapsed, history
<1>19. Good(new, 0, None, rows') /\ Leads(new.passports, rows')
  BY <1>11, <1>13, <1>17 DEF Good
<1>20. answers' \subseteq Passports \X Consumers
  BY <1>18 DEF PayloadAgrees, TypeOK
<1>21. \A a \in answers' : rows'[a[1]] = [status |-> "CONSUMED", by |-> a[2]]
  BY <1>11, <1>18, HistoryKept
<1>22. new.change.version >= db.data.change.version
  BY <1>1, <1>2, <1>17
<1>23. UNCHANGED <<expired, revoked>>
  BY <1>18
<1>24. QED
  BY <1>11, <1>18, <1>19, <1>20, <1>21, <1>22, <1>23, CommitHolds

LEMMA ConsumeStep ==
  ASSUME PayloadAgrees, NEW i \in Instances, NEW p \in Passports, NEW c \in Consumers, Consume(i, p, c)
  PROVE  Onward
<1>1. PICK d \in Held : d = db.data
  BY DEF Held
<1>2. d \in Data /\ d.passports \in Seq(Item) /\ d.audits \in Seq(Event) /\ d.change.version \in Nat
      /\ \A k \in DOMAIN d.passports : d.passports[k] \in Item
  BY <1>1, Payload
<1>3. PICK k : k = Index(d.passports, p)
  OBVIOUS
<1>4. k \in DOMAIN d.passports /\ d.passports[k].id = p
  <2>1. Knows(d.passports, p)
    BY <1>1 DEF Consume
  <2>2. QED
    BY <1>3, <2>1, Found
<1>5. rows[p].status = "ACTIVE" /\ rows \in [Passports -> Row]
  BY Typed DEF Consume
<1>6. PICK it : it = [d.passports[k] EXCEPT !.status = "CONSUMED", !.by = c]
  OBVIOUS
<1>7. it \in Item /\ it.id = p /\ it.status = "CONSUMED" /\ it.by = c
  BY <1>2, <1>4, <1>6 DEF Item, Statuses
<1>8. PICK ps : ps = [d.passports EXCEPT ![k] = it]
  OBVIOUS
<1>9. rows' = [rows EXCEPT ![p] = [status |-> it.status, by |-> it.by]]
  BY <1>7 DEF Consume
<1>10. Grows(rows') /\ Descends(ps, 0, None, rows') /\ Leads(ps, rows')
  BY <1>1, <1>4, <1>5, <1>7, <1>8, <1>9, Ended
<1>11. PICK as : as = Record(d.audits, <<p>>)
  OBVIOUS
<1>12. as \in Seq(Event) /\ Linked(as)
  BY <1>11, NextChain
<1>13. PICK ch : ch = [status |-> "COMPLETED", version |-> d.change.version + 1]
  OBVIOUS
<1>14. ch \in [status : {"APPROVED", "COMPLETED"}, version : Nat] /\ ch.version >= d.change.version
  BY <1>2, <1>13
<1>15. PICK new : new = [change |-> ch, passports |-> ps, audits |-> as]
  OBVIOUS
<1>16. new = [d EXCEPT !.passports[k] = [@ EXCEPT !.status = "CONSUMED", !.by = c],
                       !.change = [status |-> "COMPLETED", version |-> @.version + 1],
                       !.audits = Record(@, <<p>>)]
  <2>1. [d EXCEPT !.passports[k] = it, !.change = ch, !.audits = as] = new
    <3>1. d = [change |-> d.change, passports |-> d.passports, audits |-> d.audits]
      BY <1>2, Parts
    <3>2. PICK x : x = [d EXCEPT !.passports[k] = it]
      OBVIOUS
    <3>3. x = [change |-> d.change, passports |-> ps, audits |-> d.audits]
      BY <1>8, <3>1, <3>2
    <3>4. [x EXCEPT !.change = ch, !.audits = as] = new
      <4>1. PICK oc, oa : oc = d.change /\ oa = d.audits
        OBVIOUS
      <4>2. x = [change |-> oc, passports |-> ps, audits |-> oa]
        BY <3>3, <4>1
      <4>3. PICK y : y = [x EXCEPT !.change = ch]
        OBVIOUS
      <4>4. y = [change |-> ch, passports |-> ps, audits |-> oa]
        BY <4>2, <4>3
      <4>5. PICK z : z = [y EXCEPT !.audits = as]
        OBVIOUS
      <4>6. z = [change |-> ch, passports |-> ps, audits |-> as]
        BY <4>4, <4>5
      <4>7. QED
        BY <1>15, <4>3, <4>5, <4>6, Zenon
    <3>5. [d EXCEPT !.passports[k] = it, !.change = ch, !.audits = as]
          = [x EXCEPT !.change = ch, !.audits = as]
      BY <3>2, Zenon
    <3>6. QED
      BY <3>4, <3>5, Zenon
  <2>2. [d EXCEPT !.passports[k] = [@ EXCEPT !.status = "CONSUMED", !.by = c],
                  !.change = [status |-> "COMPLETED", version |-> @.version + 1],
                  !.audits = Record(@, <<p>>)]
        = [d EXCEPT !.passports[k] = it, !.change = ch, !.audits = as]
    BY <1>6, <1>11, <1>13, Zenon
  <2>3. QED
    BY <2>1, <2>2, Zenon
<1>17. ps \in Seq(Item)
  BY <1>10 DEF Descends
<1>18. new \in Data /\ new.change = ch /\ new.passports = ps /\ new.audits = as
  BY <1>12, <1>14, <1>15, <1>17 DEF Data
<1>19. Commit(i, new)
  BY <1>1, <1>3, <1>16 DEF Consume
<1>20. Good(new, 0, None, rows') /\ Leads(new.passports, rows')
  BY <1>10, <1>12, <1>18 DEF Good
<1>21. answers' \subseteq answers \cup {<<p, c>>}
  BY DEF Consume
<1>22. answers' \subseteq Passports \X Consumers
  BY <1>21 DEF PayloadAgrees, TypeOK
<1>23. ASSUME NEW a \in answers'
       PROVE  rows'[a[1]] = [status |-> "CONSUMED", by |-> a[2]]
  <2>1. CASE a \in answers
    BY <1>10, <2>1, HistoryKept
  <2>2. CASE a = <<p, c>>
    <3>1. rows'[p] = [status |-> "CONSUMED", by |-> c]
      BY <1>5, <1>7, <1>9
    <3>2. QED
      BY <2>2, <3>1
  <2>3. QED
    BY <1>21, <2>1, <2>2
<1>24. new.change.version >= db.data.change.version
  BY <1>1, <1>14, <1>18
<1>25. UNCHANGED <<expired, revoked>>
  BY DEF Consume
<1>26. QED
  BY <1>10, <1>19, <1>20, <1>22, <1>23, <1>24, <1>25, CommitHolds

-----------------------------------------------------------------------------
(* The refresh loop, restarts, time. *)

\* Steps that change the memory of one instance and neither the tables nor revoked.
LEMMA MemoryMoves ==
  ASSUME PayloadAgrees, NEW i \in Instances, NEW m,
         m \in [data : Data, version : 1..db.version, persisted : Data],
         Good(m.data, 0, None, rows'), Good(m.persisted, 0, None, rows'), mem' = [mem EXCEPT ![i] = m],
         m.version = db.version /\ outages = 0 => m.data.change.version = db.data.change.version,
         UNCHANGED <<tables, expired, outages, revoked>>, answers' \subseteq Passports \X Consumers,
         \A a \in answers' : rows[a[1]] = [status |-> "CONSUMED", by |-> a[2]]
  PROVE  Onward
<1>1. UNCHANGED tables /\ UNCHANGED <<rows, expired, outages, revoked>>
  BY DEF tables
<1>2. /\ Grows(rows') /\ Good(db.data, 0, None, rows') /\ Leads(db.data.passports, rows')
      /\ db' = [version |-> db.version, data |-> db.data]
      /\ auditRows' \subseteq Event /\ IsFiniteSet(auditRows')
  BY <1>1, TablesStay
<1>3. db.version \in Nat /\ db.version >= db.version /\ db.data.change.version >= db.data.change.version
  BY Typed, Payload
<1>4. expired' \subseteq Passports /\ outages' \in Nat /\ revoked' \subseteq Passports
  BY <1>1 DEF PayloadAgrees, TypeOK
<1>5. \A q \in revoked' : rows'[q].status \notin {"NONE", "ACTIVE"}
  BY <1>1, <1>2, HistoryKept
<1>6. \A a \in answers' : rows'[a[1]] = [status |-> "CONSUMED", by |-> a[2]]
  BY <1>1
<1>7. outages' = 0 => /\ outages = 0
                      /\ m.version = db.version => m.data.change.version = db.data.change.version
                      /\ db.version = db.version => db.data.change.version = db.data.change.version
                      /\ db.data.change.version >= db.data.change.version
  BY <1>1, <1>3
<1>8. NewPlace(0, None)
  BY NoNewPlace
<1>9. QED
  BY <1>2, <1>3, <1>4, <1>5, <1>6, <1>7, <1>8, Moves

\* An instance loads the row.
LEMMA InstallHolds ==
  ASSUME PayloadAgrees, NEW i \in Instances, Install(i, db),
         UNCHANGED <<tables, expired, outages, revoked>>, answers' \subseteq Passports \X Consumers,
         \A a \in answers' : rows[a[1]] = [status |-> "CONSUMED", by |-> a[2]]
  PROVE  Onward
<1>1. UNCHANGED tables
  OBVIOUS
<1>2. Good(db.data, 0, None, rows')
  BY <1>1, TablesStay
<1>3. db.version \in Nat /\ db.version >= 1
  BY Typed
<1>4. PICK m : m = [data |-> Normalize(db.data), version |-> db.version, persisted |-> db.data]
  OBVIOUS
<1>5. /\ m \in [data : Data, version : 1..db.version, persisted : Data]
      /\ Good(m.data, 0, None, rows') /\ Good(m.persisted, 0, None, rows')
      /\ m.data.change = db.data.change
  BY <1>2, <1>3, <1>4, Installed
<1>6. mem' = [mem EXCEPT ![i] = m]
  BY <1>4 DEF Install
<1>7. m.data.change.version = db.data.change.version
  BY <1>5
<1>8. QED
  BY <1>5, <1>6, <1>7, MemoryMoves

LEMMA ReplayStep ==
  ASSUME PayloadAgrees, NEW i \in Instances, NEW p \in Passports, NEW c \in Consumers, Replay(i, p, c)
  PROVE  Onward
<1>1. Install(i, db) /\ UNCHANGED <<tables, expired, outages, revoked>>
  BY DEF Replay
<1>2. PICK d \in Held : d = db.data
  BY DEF Held
<1>3. PICK k : k = Index(d.passports, p)
  OBVIOUS
<1>4. /\ Knows(d.passports, p) /\ d.passports[k].status = "CONSUMED" /\ d.passports[k].by = c
      /\ answers' = answers \cup {<<p, c>>}
  BY <1>2, <1>3 DEF Replay
<1>5. k \in DOMAIN d.passports /\ d.passports[k].id = p
  BY <1>3, <1>4, Found
<1>6. rows[p] = [status |-> "CONSUMED", by |-> c]
  BY <1>4, <1>5 DEF PayloadAgrees, CopiesAgree, Agrees
<1>7. answers' \subseteq Passports \X Consumers
  BY <1>4 DEF PayloadAgrees, TypeOK
<1>8. ASSUME NEW a \in answers'
      PROVE  rows[a[1]] = [status |-> "CONSUMED", by |-> a[2]]
  <2>1. CASE a \in answers
    BY <2>1 DEF PayloadAgrees, AnswersHold
  <2>2. CASE a = <<p, c>>
    BY <1>6, <2>2
  <2>3. QED
    BY <1>4, <2>1, <2>2
<1>9. QED
  BY <1>1, <1>7, <1>8, InstallHolds

\* What was answered is still in the type and in the rows when nobody answers.
LEMMA AnswersStay ==
  ASSUME PayloadAgrees, UNCHANGED answers
  PROVE  /\ answers' \subseteq Passports \X Consumers
         /\ \A a \in answers' : rows[a[1]] = [status |-> "CONSUMED", by |-> a[2]]
BY DEF PayloadAgrees, TypeOK, AnswersHold

LEMMA VerifyStep ==
  ASSUME PayloadAgrees, NEW i \in Instances, NEW p \in Passports, Verify(i, p)
  PROVE  Onward
<1>1. Install(i, db) /\ UNCHANGED <<tables, expired, outages, revoked>> /\ UNCHANGED answers
  BY DEF Verify, history
<1>2. QED
  BY <1>1, AnswersStay, InstallHolds

LEMMA RefreshStep ==
  ASSUME PayloadAgrees, NEW i \in Instances, Refresh(i)
  PROVE  Onward
<1>1. UNCHANGED <<tables, expired, outages, revoked>> /\ UNCHANGED answers /\ UNCHANGED tables
  BY DEF Refresh, history
<1>2. Good(db.data, 0, None, rows') /\ Grows(rows')
  BY <1>1, TablesStay
<1>3. db.version \in Nat /\ mem[i].version \in 1..db.version
      /\ mem \in [Instances -> [data : Data, version : 1..db.version, persisted : Data]]
      /\ mem[i] \in [data : Data, version : 1..db.version, persisted : Data]
  BY Typed DEF PayloadAgrees, TypeOK
<1>4. mem[i].data \in Held /\ mem[i].persisted \in Held
  BY DEF Held
<1>5. Good(mem[i].data, 0, None, rows') /\ Good(mem[i].persisted, 0, None, rows')
  BY <1>2, <1>4, OldIsGood
<1>6. CASE db.version > mem[i].version
  <2>1. PICK f : f = Normalize(db.data)
    OBVIOUS
  <2>2. Good(f, 0, None, rows') /\ f.change = db.data.change
    BY <1>2, <2>1, NormalIsGood
  <2>3. PICK m : m = [data |-> f, version |-> db.version, persisted |-> mem[i].persisted]
    OBVIOUS
  <2>4. m.data = f /\ m.version = db.version /\ m.persisted = mem[i].persisted
    BY <2>3
  <2>5. m \in [data : Data, version : 1..db.version, persisted : Data]
    <3>1. db.version \in 1..db.version
      BY <1>3
    <3>2. QED
      BY <1>3, <2>2, <2>3, <3>1 DEF Good
  <2>6. mem' = [mem EXCEPT ![i] = m]
    <3>1. mem' = [mem EXCEPT ![i].data = f, ![i].version = db.version]
      BY <1>6, <2>1 DEF Refresh
    <3>2. PICK r : r = mem[i]
      OBVIOUS
    <3>3. r \in [data : Data, version : 1..db.version, persisted : Data]
      BY <1>3, <3>2
    <3>4. [r EXCEPT !.data = f, !.version = db.version] = [data |-> f, version |-> db.version, persisted |-> r.persisted]
      <4>1. PICK x : x = [r EXCEPT !.data = f]
        OBVIOUS
      <4>2. x = [data |-> f, version |-> r.version, persisted |-> r.persisted]
        BY <3>3, <4>1
      <4>3. PICK y : y = [x EXCEPT !.version = db.version]
        OBVIOUS
      <4>4. y = [data |-> f, version |-> db.version, persisted |-> r.persisted]
        BY <4>2, <4>3
      <4>5. QED
        BY <4>1, <4>3, <4>4, Zenon
    <3>5. mem' = [mem EXCEPT ![i] = [r EXCEPT !.data = f, !.version = db.version]]
      BY <1>3, <3>1, <3>2
    <3>6. QED
      BY <2>3, <3>2, <3>4, <3>5
  <2>7. m.data.change.version = db.data.change.version
    BY <2>2, <2>4
  <2>8. Good(m.data, 0, None, rows') /\ Good(m.persisted, 0, None, rows')
    BY <1>5, <2>2, <2>4
  <2>9. QED
    BY <1>1, <2>5, <2>6, <2>7, <2>8, AnswersStay, MemoryMoves
<1>7. CASE ~(db.version > mem[i].version)
  <2>1. PICK m : m = mem[i]
    OBVIOUS
  <2>2. mem' = [mem EXCEPT ![i] = m]
    BY <1>3, <1>7, <2>1 DEF Refresh
  <2>3. m.version = db.version /\ outages = 0 => m.data.change.version = db.data.change.version
    BY <2>1 DEF PayloadAgrees, InStep
  <2>4. m \in [data : Data, version : 1..db.version, persisted : Data]
    BY <1>3, <2>1
  <2>5. Good(m.data, 0, None, rows') /\ Good(m.persisted, 0, None, rows')
    BY <1>5, <2>1
  <2>6. QED
    BY <1>1, <2>2, <2>3, <2>4, <2>5, AnswersStay, MemoryMoves
<1>8. QED
  BY <1>6, <1>7

LEMMA RestartStep ==
  ASSUME PayloadAgrees, NEW i \in Instances, Restart(i)
  PROVE  Onward
<1>1. PICK swept : swept = [p \in Passports |-> IF rows[p].status = "ACTIVE" /\ p \in expired
                              THEN [rows[p] EXCEPT !.status = "EXPIRED"] ELSE rows[p]]
  OBVIOUS
<1>2. PICK f : f = Normalize(db.data)
  OBVIOUS
<1>3. PICK mv : mv = IF f # db.data THEN db.version + 1 ELSE db.version
  OBVIOUS
<1>4. mv \in Nat /\ mv >= db.version /\ db.version \in Nat /\ db.version >= 1
  <2>1. db.version \in Nat /\ mem[i].version \in 1..db.version
    BY Typed
  <2>2. QED
    BY <1>3, <2>1
<1>5. rows \in [Passports -> Row]
  BY Typed
<1>6. ASSUME NEW p \in Passports
      PROVE  /\ swept[p] \in Row
             /\ rows[p].status # "NONE" => swept[p].status # "NONE"
             /\ rows[p].status \notin {"NONE", "ACTIVE"} => swept[p] = rows[p]
             /\ swept[p].status # "CONSUMED" => swept[p].by = None
             /\ p \in expired => swept[p].status # "ACTIVE"
             /\ rows[p].status # "ACTIVE" => swept[p].status # "ACTIVE"
  <2>1. rows[p] \in Row /\ (rows[p].status # "CONSUMED" => rows[p].by = None)
    BY <1>5 DEF PayloadAgrees, AnswersHold
  <2>2. CASE rows[p].status = "ACTIVE" /\ p \in expired
    <3>1. swept[p] = [rows[p] EXCEPT !.status = "EXPIRED"]
      BY <1>1, <2>2
    <3>2. QED
      BY <2>1, <2>2, <3>1 DEF Row, Statuses
  <2>3. CASE ~(rows[p].status = "ACTIVE" /\ p \in expired)
    <3>1. swept[p] = rows[p]
      BY <1>1, <2>3
    <3>2. QED
      BY <2>1, <2>3, <3>1
  <2>4. QED
    BY <2>2, <2>3
<1>7. Grows(swept)
  <2>1. swept = [p \in Passports |-> swept[p]]
    BY <1>1
  <2>2. swept \in [Passports -> Row]
    BY <1>6, <2>1
  <2>3. QED
    BY <1>6, <2>2 DEF Grows
<1>8. db.data \in Held
  BY DEF Held
<1>9. Good(db.data, 0, None, rows) /\ Good(db.data, 0, None, swept)
  BY <1>7, <1>8, RowsGrow, OldIsGood
<1>10. Good(f, 0, None, rows) /\ Good(f, 0, None, swept) /\ f.change = db.data.change
       /\ f.passports = Materialize(db.data.passports)
  BY <1>2, <1>9, NormalIsGood
<1>11. Candidate(f.passports, 0, None) /\ f \in Data /\ Linked(f.audits)
  BY <1>10 DEF Good, Descends, AgreesIn, Candidate
<1>12. Leads(f.passports, swept)
  <2>1. PICK ps \in Seq(Item) : ps = db.data.passports
    BY Payload
  <2>2. PICK qs : qs = Materialize(ps)
    OBVIOUS
  <2>3. /\ DOMAIN qs = DOMAIN ps
        /\ \A k \in DOMAIN ps : /\ qs[k].id = ps[k].id
                                /\ \/ qs[k] = ps[k]
                                   \/ ps[k].status = "ACTIVE" /\ ps[k].id \in expired /\ qs[k].status = "EXPIRED"
    BY <2>2, Materialized
  <2>4. ASSUME NEW k \in DOMAIN qs, qs[k].status # "ACTIVE"
        PROVE  swept[qs[k].id].status # "ACTIVE"
    <3>1. ps[k] \in Item /\ k \in DOMAIN ps
      BY <2>1, <2>3, Payload
    <3>2. ps[k].id \in Passports /\ qs[k].id = ps[k].id
      BY <2>3, <3>1 DEF Item
    <3>3. CASE qs[k] = ps[k]
      <4>1. rows[ps[k].id].status # "ACTIVE"
        BY <2>1, <2>4, <3>1, <3>3, Payload DEF Leads
      <4>2. QED
        BY <1>6, <3>2, <4>1
    <3>4. CASE ps[k].id \in expired
      BY <1>6, <3>2, <3>4
    <3>5. QED
      BY <2>3, <3>1, <3>3, <3>4
  <2>5. QED
    BY <1>10, <2>1, <2>2, <2>4 DEF Leads
<1>13. Migrated = [version |-> mv, data |-> f]
  BY <1>2, <1>3 DEF Migrated
<1>14. PICK v \in Nat : /\ v >= db.version /\ v >= 1 /\ db' = [version |-> v, data |-> f]
                        /\ Grows(rows') /\ Good(f, 0, None, rows') /\ Leads(f.passports, rows')
  <2>1. CASE db' = [Migrated EXCEPT !.version = @ + 1] /\ rows' = SyncRows(swept, Migrated.data.passports)
    <3>1. db' = [version |-> mv + 1, data |-> f] /\ rows' = SyncRows(swept, f.passports)
      BY <1>13, <2>1
    <3>2. Grows(rows') /\ Descends(f.passports, 0, None, rows') /\ Leads(f.passports, rows')
      BY <1>7, <1>11, <3>1, NoNewPlace, Synced
    <3>3. mv + 1 \in Nat /\ mv + 1 >= db.version /\ mv + 1 >= 1
      BY <1>4
    <3>4. QED
      BY <1>11, <3>1, <3>2, <3>3 DEF Good
  <2>2. CASE db' = Migrated /\ rows' = swept
    <3>1. db' = [version |-> mv, data |-> f] /\ mv >= 1
      BY <1>4, <1>13, <2>2
    <3>2. QED
      BY <1>4, <1>7, <1>10, <1>12, <2>2, <3>1
  <2>3. QED
    BY <1>1, <2>1, <2>2 DEF Restart
<1>15. PICK m : m = [data |-> f, version |-> v, persisted |-> f]
  OBVIOUS
<1>16. mem' = [mem EXCEPT ![i] = m]
  <2>1. db'.data = f /\ db'.version = v
    BY <1>14
  <2>2. mem' = [mem EXCEPT ![i] = [data |-> db'.data, version |-> db'.version, persisted |-> db'.data]]
    BY DEF Restart
  <2>3. QED
    BY <1>15, <2>1, <2>2
<1>17. v \in 1..v
  BY <1>14
<1>18. m.data = f /\ m.persisted = f /\ m \in [data : Data, version : 1..v, persisted : Data]
  BY <1>11, <1>15, <1>17
<1>19. UNCHANGED <<auditRows, expired, outages, answers, revoked>>
  BY DEF Restart, history
<1>20. /\ auditRows' \subseteq Event /\ IsFiniteSet(auditRows') /\ expired' \subseteq Passports
       /\ outages' \in Nat /\ revoked' \subseteq Passports
  BY <1>19 DEF PayloadAgrees, TypeOK
<1>21. answers' \subseteq Passports \X Consumers
  BY <1>19 DEF PayloadAgrees, TypeOK
<1>22. /\ \A a \in answers' : rows'[a[1]] = [status |-> "CONSUMED", by |-> a[2]]
       /\ \A q \in revoked' : rows'[q].status \notin {"NONE", "ACTIVE"}
  BY <1>14, <1>19, HistoryKept
<1>23. f.change.version >= db.data.change.version
  BY <1>10, Payload
<1>24. outages' = 0 => /\ outages = 0
                       /\ m.version = v => m.data.change.version = f.change.version
                       /\ v = db.version => f.change.version = db.data.change.version
                       /\ f.change.version >= db.data.change.version
  BY <1>10, <1>18, <1>19, <1>23
<1>25. Good(m.data, 0, None, rows') /\ Good(m.persisted, 0, None, rows')
  BY <1>14, <1>18
<1>26. QED
  BY <1>14, <1>16, <1>18, <1>20, <1>21, <1>22, <1>24, <1>25, NoNewPlace, Moves

LEMMA ExpireStep ==
  ASSUME PayloadAgrees, NEW p \in Passports, Expire(p)
  PROVE  Onward
<1>1. UNCHANGED tables /\ UNCHANGED <<db, rows, mem, outages, answers, revoked>> /\ expired' = expired \cup {p}
  BY DEF Expire, history, tables
<1>2. /\ Grows(rows') /\ Good(db.data, 0, None, rows') /\ Leads(db.data.passports, rows')
      /\ auditRows' \subseteq Event /\ IsFiniteSet(auditRows')
  BY <1>1, TablesStay
<1>3. db' \in Snapshot /\ mem' \in [Instances -> [data : Data, version : 1..db'.version, persisted : Data]]
      /\ expired' \subseteq Passports /\ outages' \in Nat /\ revoked' \subseteq Passports
  BY <1>1 DEF PayloadAgrees, TypeOK
<1>4. ASSUME NEW i \in Instances
      PROVE  Good(mem'[i].data, 0, None, rows') /\ Good(mem'[i].persisted, 0, None, rows')
  <2>1. mem[i].data \in Held /\ mem[i].persisted \in Held
    BY DEF Held
  <2>2. QED
    BY <1>1, <1>2, <2>1, OldIsGood
<1>5. /\ \A a \in answers' : rows'[a[1]] = [status |-> "CONSUMED", by |-> a[2]]
      /\ \A q \in revoked' : rows'[q].status \notin {"NONE", "ACTIVE"}
  BY <1>1, <1>2, HistoryKept
<1>6. InStep'
  BY <1>1 DEF PayloadAgrees, InStep
<1>7. Good(db'.data, 0, None, rows') /\ Leads(db'.data.passports, rows')
  BY <1>1, <1>2
<1>8. answers' \subseteq Passports \X Consumers
  BY <1>1 DEF PayloadAgrees, TypeOK
<1>9. PayloadAgrees'
  BY <1>2, <1>3, <1>4, <1>5, <1>6, <1>7, <1>8, NoNewPlace, StepKeeps
<1>10. db'.data.change.version >= db.data.change.version
  BY <1>1, Payload
<1>11. QED
  BY <1>2, <1>9, <1>10 DEF Onward

-----------------------------------------------------------------------------
(* The theorems. *)

\* A step that changes nothing.
LEMMA StutterStep ==
  ASSUME PayloadAgrees, UNCHANGED vars
  PROVE  Onward
<1>1. PayloadAgrees'
  BY DEF vars, PayloadAgrees, TypeOK, ChainVerifies, RowsLead, CopiesAgree, Agrees, Held, OnePlace,
         AnswersHold, InStep
<1>2. rows' = rows /\ db' = db
  BY DEF vars
<1>3. QED
  BY <1>1, <1>2, RowsGrow, Payload DEF Onward

LEMMA EveryStep ==
  ASSUME PayloadAgrees, [Next]_vars
  PROVE  Onward
<1>1. ASSUME NEW i \in Instances, UpdateChange(i) PROVE Onward
  BY <1>1, UpdateChangeStep
<1>2. ASSUME NEW i \in Instances, RevokePassportsByChange(i) PROVE Onward
  BY <1>2, RevokePassportsByChangeStep
<1>3. ASSUME NEW i \in Instances, RecordAudit(i) PROVE Onward
  BY <1>3, RecordAuditStep
<1>4. ASSUME NEW i \in Instances, Refresh(i) PROVE Onward
  BY <1>4, RefreshStep
<1>5. ASSUME NEW i \in Instances, Restart(i) PROVE Onward
  BY <1>5, RestartStep
<1>6. ASSUME NEW i \in Instances, NEW p \in Passports, CreatePassport(i, p) PROVE Onward
  BY <1>6, CreatePassportStep
<1>7. ASSUME NEW i \in Instances, NEW p \in Passports, RevokePassport(i, p) PROVE Onward
  BY <1>7, RevokePassportStep
<1>8. ASSUME NEW i \in Instances, NEW p \in Passports, UseLapsed(i, p) PROVE Onward
  BY <1>8, UseLapsedStep
<1>9. ASSUME NEW i \in Instances, NEW p \in Passports, Verify(i, p) PROVE Onward
  BY <1>9, VerifyStep
<1>10. ASSUME NEW i \in Instances, NEW p \in Passports, NEW c \in Consumers, Consume(i, p, c) PROVE Onward
  BY <1>10, ConsumeStep
<1>11. ASSUME NEW i \in Instances, NEW p \in Passports, NEW c \in Consumers, Replay(i, p, c) PROVE Onward
  BY <1>11, ReplayStep
<1>12. ASSUME NEW p \in Passports, Expire(p) PROVE Onward
  BY <1>12, ExpireStep
<1>13. CASE UNCHANGED vars
  BY <1>13, StutterStep
<1>14. QED
  BY <1>1, <1>2, <1>3, <1>4, <1>5, <1>6, <1>7, <1>8, <1>9, <1>10, <1>11, <1>12, <1>13 DEF Next

LEMMA InitAgrees ==
  ASSUME Init
  PROVE  PayloadAgrees
<1>1. PICK start : start = [change |-> [status |-> "APPROVED", version |-> 1],
                            passports |-> << >>, audits |-> << >>]
  OBVIOUS
<1>2. /\ start \in Data /\ start.passports = << >> /\ start.audits = << >>
      /\ start.change.version = 1
  <2>1. << >> \in Seq(Item) /\ << >> \in Seq(Event)
    BY EmptySeq
  <2>2. QED
    BY <1>1, <2>1 DEF Data
<1>3. /\ db = [version |-> 1, data |-> start]
      /\ rows = [p \in Passports |-> NoRow] /\ auditRows = {}
      /\ mem = [i \in Instances |-> [data |-> start, version |-> 1, persisted |-> start]]
      /\ expired = {} /\ outages = 0 /\ answers = {} /\ revoked = {}
  BY <1>1 DEF Init
<1>4. db.data = start /\ db.version = 1 /\ 1 \in 1..1
      /\ \A i \in Instances : mem[i].data = start /\ mem[i].persisted = start /\ mem[i].version = 1
  BY <1>3
<1>5. TypeOK
  <2>1. db \in Snapshot
    BY <1>2, <1>3 DEF Snapshot
  <2>2. rows \in [Passports -> [status : Statuses \cup {"NONE"}, by : Consumers \cup {None}]]
    BY <1>3 DEF NoRow
  <2>3. mem \in [Instances -> [data : Data, version : 1..db.version, persisted : Data]]
    BY <1>2, <1>3, <1>4
  <2>4. IsFiniteSet(auditRows) /\ auditRows \subseteq Event
    BY <1>3, FS_EmptySet
  <2>5. QED
    BY <1>3, <2>1, <2>2, <2>3, <2>4 DEF TypeOK
<1>6. \A d \in Held : d = start
  BY <1>4 DEF Held
<1>7. DOMAIN start.passports = {} /\ DOMAIN start.audits = {}
  BY <1>2
<1>8. Linked(start.audits)
  BY <1>7 DEF Linked
<1>9. ChainVerifies
  BY <1>4, <1>8 DEF ChainVerifies
<1>10. RowsLead /\ CopiesAgree /\ OnePlace
  BY <1>4, <1>6, <1>7 DEF RowsLead, CopiesAgree, OnePlace
<1>11. AnswersHold
  BY <1>3 DEF AnswersHold, NoRow
<1>12. InStep
  BY <1>4 DEF InStep
<1>13. QED
  BY <1>5, <1>9, <1>10, <1>11, <1>12 DEF PayloadAgrees

\* Whatever stale state the instances save, put back or reload, for any number of
\* instances, passports and outages: the payload's audit chain verifies and the passport
\* table is never behind it (saveLocked, restoreLocked, syncNormalizedState).
THEOREM PayloadAlwaysAgrees == Spec => []PayloadAgrees
<1>1. Init => PayloadAgrees
  BY InitAgrees
<1>2. PayloadAgrees /\ [Next]_vars => PayloadAgrees'
  BY EveryStep DEF Onward
<1>3. QED
  BY <1>1, <1>2, PTL DEF Spec

\* A passport is confirmed to one consumer only, on whatever instances its consumption
\* is asked for and asked for again (usePassport under FOR UPDATE).
THEOREM ConsumedByOne == Spec => []OneConsumer
<1>1. PayloadAgrees => OneConsumer
  <2>1. SUFFICES ASSUME AnswersHold, NEW a \in answers, NEW b \in answers, a[1] = b[1]
                 PROVE  a[2] = b[2]
    BY DEF PayloadAgrees, OneConsumer
  <2>2. /\ rows[a[1]] = [status |-> "CONSUMED", by |-> a[2]]
        /\ rows[b[1]] = [status |-> "CONSUMED", by |-> b[2]]
    BY <2>1 DEF AnswersHold
  <2>3. QED
    BY <2>1, <2>2
<1>2. QED
  BY <1>1, PayloadAlwaysAgrees, PTL

\* A row that is over never changes, whatever is saved over it, and a passport whose
\* revocation was confirmed is never consumed (syncNormalizedState's conditional update).
THEOREM PassportsStayFinal == Spec => PassportsAreFinal
<1>1. PayloadAgrees /\ [Next]_vars
      => [\A p \in Passports : rows[p].status \notin {"NONE", "ACTIVE"} => rows'[p] = rows[p]]_vars
  BY EveryStep DEF Onward, Grows
<1>2. PayloadAgrees /\ [Next]_vars
      => [\A p \in revoked : rows[p].status # "CONSUMED" => rows'[p].status # "CONSUMED"]_vars
  <2>1. SUFFICES ASSUME PayloadAgrees, [Next]_vars, NEW p \in revoked, rows[p].status # "CONSUMED"
                 PROVE  rows'[p].status # "CONSUMED"
    OBVIOUS
  <2>2. p \in Passports /\ rows[p].status \notin {"NONE", "ACTIVE"}
    BY <2>1 DEF PayloadAgrees, TypeOK, AnswersHold
  <2>3. rows'[p] = rows[p]
    BY <2>1, <2>2, EveryStep DEF Onward, Grows
  <2>4. QED
    BY <2>1, <2>3
<1>3. QED
  BY <1>1, <1>2, PayloadAlwaysAgrees, PTL DEF Spec, PassportsAreFinal, RowsAreFinal, RevocationHolds

\* As long as the database was within reach, no instance overwrites an edit of the change
\* that another one has saved (the version check of postgresBackend.Save).
THEOREM EditsStay == Spec => EditsAreKeptWhenReachable
<1>1. PayloadAgrees /\ [Next]_vars
      => [outages' = 0 => db'.data.change.version >= db.data.change.version]_vars
  BY EveryStep DEF Onward
<1>2. QED
  BY <1>1, PayloadAlwaysAgrees, PTL DEF Spec, EditsAreKeptWhenReachable
=============================================================================
