--------------------------- MODULE IdempotencyProofs ---------------------------
(***************************************************************************)
(* Requests that come more than once and are carried out once.             *)
(*                                                                         *)
(* Proofs about IdempotentCreate, for any number of requests, bodies,      *)
(* failures and crashes.  What they show holds until a creation is stored  *)
(* and reported as failed, which the file backend never does.              *)
(*                                                                         *)
(* In the second half, about Outcomes, whose webhooks recognise a message  *)
(* by its identity, for any senders, messages, handlers and failed saves.  *)
(***************************************************************************)
EXTENDS IdempotentCreate, Outcomes, FiniteSetTheorems, SequenceTheorems, TLAPS

-----------------------------------------------------------------------------
(* Types. *)

\* What the handlers make of a request in flight is one.
LEMMA CallShapes ==
  /\ Gone \in CallRec
  /\ \A k \in CallRec, pc \in {"claim", "abort"} : [k EXCEPT !.pc = pc] \in CallRec
  /\ \A k \in CallRec, n \in Nat : /\ [k EXCEPT !.pc = "takeover", !.result = n] \in CallRec
                                   /\ [k EXCEPT !.pc = "complete", !.result = n] \in CallRec
  /\ \A n \in Nat : /\ [Gone EXCEPT !.pc = "execute", !.gen = n] \in CallRec
                    /\ [Gone EXCEPT !.pc = "reconcile", !.gen = n] \in CallRec
  /\ \A k \in CallRec : [k EXCEPT !.pc = "finish", !.gen = @ + 1] \in CallRec
<1>1. Gone \in CallRec
  BY DEF CallRec, Gone
<1>2. \A k \in CallRec, pc \in {"claim", "abort"} : [k EXCEPT !.pc = pc] \in CallRec
  BY DEF CallRec
<1>3. \A k \in CallRec, n \in Nat : [k EXCEPT !.pc = "takeover", !.result = n] \in CallRec
  BY DEF CallRec
<1>4. \A k \in CallRec, n \in Nat : [k EXCEPT !.pc = "complete", !.result = n] \in CallRec
  BY DEF CallRec
<1>5. \A n \in Nat : [Gone EXCEPT !.pc = "execute", !.gen = n] \in CallRec
  BY DEF CallRec, Gone
<1>6. \A n \in Nat : [Gone EXCEPT !.pc = "reconcile", !.gen = n] \in CallRec
  BY DEF CallRec, Gone
<1>7. ASSUME NEW k \in CallRec
      PROVE  [k EXCEPT !.pc = "finish", !.gen = @ + 1] \in CallRec
  <2>1. k.gen + 1 \in Nat
    BY DEF CallRec
  <2>2. QED
    BY <2>1 DEF CallRec
<1>8. QED
  BY <1>1, <1>2, <1>3, <1>4, <1>5, <1>6, <1>7

\* A request that moves on stays in the table of requests.
LEMMA CallStored ==
  ASSUME TypeOK, NEW c \in Calls, NEW k \in CallRec, Become(c, k)
  PROVE  calls' \in [Calls -> CallRec]
BY DEF TypeOK, Become

\* A request that ends does, too, and its answer is one.
LEMMA CallEnded ==
  ASSUME TypeOK, NEW c \in Calls,
         Refuse(c) \/ \E n \in Nat : Answer(c, n)
  PROVE  calls' \in [Calls -> CallRec] /\ answers' \subseteq Bodies \X Nat
<1>1. CASE Refuse(c)
  BY <1>1, CallShapes, CallStored DEF Refuse, TypeOK
<1>2. ASSUME NEW n \in Nat, Answer(c, n)
      PROVE  calls' \in [Calls -> CallRec] /\ answers' \subseteq Bodies \X Nat
  <2>1. body[c] \in Bodies
    BY IdempotencyAssumption
  <2>2. <<body[c], n>> \in Bodies \X Nat
    BY <2>1
  <2>3. answers' \subseteq Bodies \X Nat
    BY <1>2, <2>2 DEF Answer, TypeOK
  <2>4. QED
    BY <1>2, <2>3, CallShapes, CallStored DEF Answer
<1>3. QED
  BY <1>1, <1>2

\* The counters of failures stay counters.
LEMMA SpentCounts ==
  ASSUME TypeOK, NEW w \in {"errors", "acks", "crashes", "slow"}, NEW b, Spend(w, b)
  PROVE  spent' \in [{"errors", "acks", "crashes", "slow"} -> Nat]
BY DEF TypeOK, Spend

\* What is written to the record is one, and names its body and its claim.
LEMMA RecordShapes ==
  /\ NoRecord \in RecordRec
  /\ \A c \in Calls : [NoRecord EXCEPT !.status = "PENDING", !.body = body[c], !.gen = 1,
                                       !.owner = c, !.fresh = TRUE] \in RecordRec
  /\ \A r \in RecordRec, c \in Calls :
       [r EXCEPT !.gen = @ + 1, !.owner = c, !.fresh = TRUE] \in RecordRec
  /\ \A r \in RecordRec, n \in Nat : [r EXCEPT !.status = "SUCCEEDED", !.result = n] \in RecordRec
  /\ \A r \in RecordRec : [r EXCEPT !.fresh = FALSE] \in RecordRec
<1>1. NoRecord \in RecordRec
  BY DEF RecordRec, NoRecord
<1>2. \A c \in Calls : [NoRecord EXCEPT !.status = "PENDING", !.body = body[c], !.gen = 1,
                                    !.owner = c, !.fresh = TRUE] \in RecordRec
  BY IdempotencyAssumption DEF RecordRec, NoRecord
<1>3. ASSUME NEW r \in RecordRec, NEW c \in Calls
      PROVE  [r EXCEPT !.gen = @ + 1, !.owner = c, !.fresh = TRUE] \in RecordRec
  <2>1. r.gen + 1 \in Nat
    BY DEF RecordRec
  <2>2. QED
    BY <2>1 DEF RecordRec
<1>4. \A r \in RecordRec, n \in Nat :
        [r EXCEPT !.status = "SUCCEEDED", !.result = n] \in RecordRec
  BY DEF RecordRec
<1>5. \A r \in RecordRec : [r EXCEPT !.fresh = FALSE] \in RecordRec
  BY DEF RecordRec
<1>6. QED
  BY <1>1, <1>2, <1>3, <1>4, <1>5

\* What the takeover changes in the record.
LEMMA TakenOver ==
  ASSUME TypeOK, NEW c \in Calls, TakeoverIdempotency(c), MatchesTakeover(c)
  PROVE  /\ record' \in RecordRec /\ record'.status = "PENDING"
         /\ record'.body = record.body /\ record'.body = body[c]
         /\ record'.gen = record.gen + 1 /\ record'.owner = c
         /\ record'.result = record.result
<1>1. record \in RecordRec
  BY DEF TypeOK
<1>2. record' = [record EXCEPT !.gen = @ + 1, !.owner = c, !.fresh = TRUE]
  BY DEF TakeoverIdempotency
<1>3. record' \in RecordRec
  BY <1>1, <1>2, RecordShapes
<1>4. QED
  BY <1>1, <1>2, <1>3 DEF MatchesTakeover, RecordRec

\* What the completion changes in it.
LEMMA Succeeded ==
  ASSUME TypeOK, NEW c \in Calls, Succeed(c)
  PROVE  /\ record' \in RecordRec /\ record'.status = "SUCCEEDED"
         /\ record'.body = record.body /\ record'.owner = record.owner
         /\ record'.gen = record.gen /\ record'.result = calls[c].result
<1>1. record \in RecordRec /\ calls[c].result \in Nat
  BY DEF TypeOK, CallRec
<1>2. record' = [record EXCEPT !.status = "SUCCEEDED", !.result = calls[c].result]
  BY DEF Succeed
<1>3. record' \in RecordRec
  BY <1>1, <1>2, RecordShapes
<1>4. QED
  BY <1>1, <1>2, <1>3 DEF RecordRec

\* What the end of the grace changes in it.
LEMMA GracePassed ==
  ASSUME TypeOK, GraceOver
  PROVE  /\ record' \in RecordRec /\ record'.status = record.status
         /\ record'.body = record.body /\ record'.owner = record.owner
         /\ record'.gen = record.gen /\ record'.result = record.result
<1>1. record \in RecordRec
  BY DEF TypeOK
<1>2. record' = [record EXCEPT !.fresh = FALSE]
  BY DEF GraceOver
<1>3. record' \in RecordRec
  BY <1>1, <1>2, RecordShapes
<1>4. QED
  BY <1>1, <1>2, <1>3 DEF RecordRec

\* Every step keeps TypeOK.
LEMMA TypeStep ==
  ASSUME TypeOK, [Next]_vars
  PROVE  TypeOK'
<1>1. ASSUME NEW c \in Calls, Start(c)
      PROVE  TypeOK'
  BY <1>1, CallShapes, CallStored DEF Start, Goto, TypeOK
<1>2. ASSUME NEW c \in Calls, Claim(c)
      PROVE  TypeOK'
  <2>1. calls' \in [Calls -> CallRec]
    BY <1>2, CallShapes, CallStored DEF Claim
  <2>2. record' \in RecordRec /\ record'.body \in Bodies /\ record'.owner \in Calls
    BY <1>2, RecordShapes, IdempotencyAssumption DEF Claim, NoRecord
  <2>3. QED
    BY <1>2, <2>1, <2>2 DEF Claim, TypeOK
<1>3. ASSUME NEW c \in Calls, Taken(c)
      PROVE  TypeOK'
  <2>1. record.result \in Nat /\ record.gen \in Nat
    BY DEF TypeOK, RecordRec
  <2>2. calls' \in [Calls -> CallRec] /\ answers' \subseteq Bodies \X Nat
    BY <1>3, <2>1, CallEnded, CallShapes, CallStored DEF Taken, TypeOK
  <2>3. QED
    BY <1>3, <2>2 DEF Taken, TypeOK
<1>4. ASSUME NEW c \in Calls, Reconcile(c)
      PROVE  TypeOK'
  <2>1. Len(changes) \in Nat
    BY DEF TypeOK
  <2>2. calls' \in [Calls -> CallRec] /\ answers' \subseteq Bodies \X Nat
    BY <1>4, <2>1, CallEnded, CallShapes, CallStored DEF Reconcile, Goto, TypeOK
  <2>3. QED
    BY <1>4, <2>2 DEF Reconcile, TypeOK
<1>5. ASSUME NEW c \in Calls, TakeoverIdempotency(c)
      PROVE  TypeOK'
  <2>1. calls' \in [Calls -> CallRec] /\ answers' \subseteq Bodies \X Nat
    BY <1>5, CallEnded, CallShapes, CallStored DEF TakeoverIdempotency, Goto, TypeOK
  <2>2. /\ record' \in RecordRec
        /\ record'.status # "NONE" => record'.body \in Bodies /\ record'.owner \in Calls
    <3>1. CASE MatchesTakeover(c)
      BY <1>5, <3>1, TakenOver, IdempotencyAssumption
    <3>2. CASE ~MatchesTakeover(c)
      BY <1>5, <3>2 DEF TakeoverIdempotency, TypeOK
    <3>3. QED
      BY <3>1, <3>2
  <2>3. QED
    BY <1>5, <2>1, <2>2 DEF TakeoverIdempotency, TypeOK
<1>6. ASSUME NEW c \in Calls, Execute(c)
      PROVE  TypeOK'
  <2>1. changes' \in Seq(Bodies) /\ Len(changes') \in Nat
    BY <1>6, IdempotencyAssumption DEF Execute, TypeOK
  <2>2. calls' \in [Calls -> CallRec]
    BY <1>6, <2>1, CallShapes, CallStored DEF Execute, TypeOK
  <2>3. QED
    BY <1>6, <2>1, <2>2 DEF Execute, TypeOK
<1>7. ASSUME NEW c \in Calls, AbortIdempotency(c)
      PROVE  TypeOK'
  <2>1. calls' \in [Calls -> CallRec] /\ answers' \subseteq Bodies \X Nat
    BY <1>7, CallEnded DEF AbortIdempotency
  <2>2. /\ record' \in RecordRec
        /\ record'.status # "NONE" => record'.body \in Bodies /\ record'.owner \in Calls
    BY <1>7, RecordShapes DEF AbortIdempotency, NoRecord, TypeOK
  <2>3. QED
    BY <1>7, <2>1, <2>2 DEF AbortIdempotency, TypeOK
<1>8. ASSUME NEW c \in Calls, CompleteIdempotency(c)
      PROVE  TypeOK'
  <2>1. calls[c].result \in Nat
    BY DEF TypeOK, CallRec
  <2>2. calls' \in [Calls -> CallRec] /\ answers' \subseteq Bodies \X Nat
    BY <1>8, <2>1, CallEnded DEF CompleteIdempotency, Succeed
  <2>3. /\ record' \in RecordRec
        /\ record'.status # "NONE" => record'.body \in Bodies /\ record'.owner \in Calls
    <3>1. CASE Matches(c)
      <4>1. Succeed(c)
        BY <1>8, <3>1 DEF CompleteIdempotency
      <4>2. record.status # "NONE"
        BY <3>1 DEF Matches
      <4>3. QED
        BY <4>1, <4>2, Succeeded DEF TypeOK
    <3>2. CASE ~Matches(c)
      BY <1>8, <3>2 DEF CompleteIdempotency, TypeOK
    <3>3. QED
      BY <3>1, <3>2
  <2>4. QED
    BY <1>8, <2>2, <2>3 DEF CompleteIdempotency, TypeOK
<1>9. ASSUME NEW c \in Calls, ExecuteFails(c)
      PROVE  TypeOK'
  <2>1. calls' \in [Calls -> CallRec]
    BY <1>9, CallShapes, CallStored DEF ExecuteFails, Goto, TypeOK
  <2>2. QED
    BY <1>9, <2>1, SpentCounts DEF ExecuteFails, TypeOK
<1>10. ASSUME NEW c \in Calls, ExecuteUnacknowledged(c)
       PROVE  TypeOK'
  <2>1. calls' \in [Calls -> CallRec]
    BY <1>10, CallShapes, CallStored DEF ExecuteUnacknowledged, Goto, TypeOK
  <2>2. changes' \in Seq(Bodies)
    BY <1>10, IdempotencyAssumption DEF ExecuteUnacknowledged, TypeOK
  <2>3. QED
    BY <1>10, <2>1, <2>2, SpentCounts DEF ExecuteUnacknowledged, TypeOK
<1>11. ASSUME NEW c \in Calls, SaveFails(c)
       PROVE  TypeOK'
  BY <1>11, CallEnded, SpentCounts DEF SaveFails, TypeOK
<1>12. CASE GraceEnds \/ GraceEndsEarly
  <2>1. record' \in RecordRec /\ record'.body = record.body /\ record'.owner = record.owner
        /\ record'.status = record.status
    BY <1>12, GracePassed DEF GraceEnds, GraceEndsEarly
  <2>2. QED
    BY <1>12, <2>1, SpentCounts DEF GraceEnds, GraceEndsEarly, GraceOver, TypeOK
<1>13. CASE Crash
  BY <1>13, CallShapes, SpentCounts DEF Crash, TypeOK
<1>14. CASE UNCHANGED vars
  BY <1>14 DEF vars, TypeOK
<1>15. QED
  BY <1>1, <1>2, <1>3, <1>4, <1>5, <1>6, <1>7, <1>8, <1>9, <1>10, <1>11, <1>12, <1>13,
     <1>14 DEF Next, Step

\* The record and the requests of CreateIdempotent keep their shape, and a record
\* in use names the body it was claimed for and its claim.
THEOREM TypeCorrect == Spec => []TypeOK
<1>1. Init => TypeOK
  <2>1. << >> \in Seq(Bodies)
    OBVIOUS
  <2>2. Init => spent \in [{"errors", "acks", "crashes", "slow"} -> Nat]
    BY DEF Init
  <2>3. NoRecord.status = "NONE"
    BY DEF NoRecord
  <2>4. QED
    BY <2>1, <2>2, <2>3, CallShapes, RecordShapes DEF Init, TypeOK
<1>2. QED
  BY <1>1, TypeStep, PTL DEF Spec

-----------------------------------------------------------------------------
(* One change for a key.  OneChangePerKey is not inductive: that nobody        *)
(* executes once a change exists is what ClaimInv says.                        *)

Safe == ClaimInv /\ OneChangePerKey /\ AnswersAgree

\* What Become does to every request.
LEMMA Became ==
  ASSUME TypeOK, NEW c \in Calls, NEW k, Become(c, k)
  PROVE  /\ calls'[c] = k
         /\ \A d \in Calls : d # c => calls'[d] = calls[d]
BY DEF TypeOK, Become

\* A request that goes away or asks anew disturbs nothing.
LEMMA Quiet ==
  ASSUME TypeOK, Safe, UNCHANGED <<record, changes, answers>>,
         \A d \in Calls : calls'[d] = calls[d] \/ calls'[d].pc \in {"gone", "claim", "reconcile"}
  PROVE  Safe'
<1>1. ClaimInv'
  BY DEF Safe, ClaimInv, Matches
<1>2. QED
  BY <1>1 DEF Safe, OneChangePerKey, AnswersAgree

\* Where requests go that do so.
LEMMA QuietCalls ==
  ASSUME TypeOK, NEW c \in Calls, Become(c, Gone) \/ Goto(c, "claim")
                 \/ Become(c, [Gone EXCEPT !.pc = "reconcile", !.gen = record.gen])
  PROVE  \A d \in Calls : calls'[d] = calls[d] \/ calls'[d].pc \in {"gone", "claim", "reconcile"}
<1>1. calls[c] \in CallRec
  BY DEF TypeOK
<1>2. /\ Gone.pc = "gone"
      /\ [Gone EXCEPT !.pc = "reconcile", !.gen = record.gen].pc = "reconcile"
  BY DEF Gone
<1>3. [calls[c] EXCEPT !.pc = "claim"].pc = "claim"
  BY <1>1 DEF CallRec
<1>4. calls'[c].pc \in {"gone", "claim", "reconcile"}
  <2>1. CASE Become(c, Gone)
    BY <1>2, <2>1, Became
  <2>2. CASE Goto(c, "claim")
    BY <1>3, <2>2, Became DEF Goto
  <2>3. CASE Become(c, [Gone EXCEPT !.pc = "reconcile", !.gen = record.gen])
    BY <1>2, <2>3, Became
  <2>4. QED
    BY <2>1, <2>2, <2>3
<1>5. \A d \in Calls : d # c => calls'[d] = calls[d]
  BY Became DEF Goto
<1>6. QED
  BY <1>4, <1>5

\* An answer with the change of the key, to a request of its body.
LEMMA GoodAnswer ==
  ASSUME TypeOK, Safe, UNCHANGED changes, NEW c \in Calls, NEW n,
         answers' = answers \cup {<<body[c], n>>},
         n = 1, changes # << >>, changes[1] = body[c]
  PROVE  AnswersAgree' /\ OneChangePerKey'
BY DEF Safe, AnswersAgree, OneChangePerKey

\* Lost acknowledgements are counted.
LEMMA AcksCounted ==
  ASSUME TypeOK, [Next]_vars, spent'.acks = 0
  PROVE  /\ spent.acks = 0
         /\ \A c \in Calls : ~ExecuteUnacknowledged(c)
<1>1. spent \in [{"errors", "acks", "crashes", "slow"} -> Nat]
  BY DEF TypeOK
<1>2. \/ UNCHANGED spent
      \/ \E w \in {"errors", "acks", "crashes", "slow"} : spent' = [spent EXCEPT ![w] = @ + 1]
  BY DEF Next, Step, Start, Claim, Taken, Reconcile, TakeoverIdempotency, Execute,
         AbortIdempotency, CompleteIdempotency, ExecuteFails, ExecuteUnacknowledged,
         SaveFails, GraceEnds, GraceEndsEarly, GraceOver, Crash, Spend, vars
<1>3. spent.acks = 0
  BY <1>1, <1>2
<1>4. ASSUME NEW c \in Calls, ExecuteUnacknowledged(c)
      PROVE  FALSE
  <2>1. spent' = [spent EXCEPT !["acks"] = @ + 1]
    BY <1>4 DEF ExecuteUnacknowledged, Spend
  <2>2. QED
    BY <1>1, <1>3, <2>1
<1>5. QED
  BY <1>3, <1>4

\* Every step keeps it, unless it stores a creation and reports it as failed.
LEMMA SafeStep ==
  ASSUME TypeOK, Safe, [Next]_vars, spent'.acks = 0
  PROVE  Safe'
<1>1. ASSUME NEW c \in Calls, Start(c)
      PROVE  Safe'
  BY <1>1, QuietCalls, Quiet DEF Start
<1>2. ASSUME NEW c \in Calls, Claim(c)
      PROVE  Safe'
  <2>1. changes = << >> /\ answers = {}
    BY <1>2 DEF Claim, Safe, ClaimInv, AnswersAgree
  <2>2. \A d \in Calls : calls[d].pc \notin {"execute", "abort", "complete", "finish", "takeover"}
    BY <1>2, <2>1 DEF Claim, Safe, ClaimInv, Matches
  <2>3. /\ record'.status = "PENDING" /\ record'.body = body[c]
        /\ record'.gen = 1 /\ record'.owner = c
    BY <1>2 DEF Claim, NoRecord
  <2>4. /\ calls'[c].pc = "execute" /\ calls'[c].gen = 1
        /\ \A d \in Calls : d # c => calls'[d] = calls[d]
    <3>1. calls'[c] = [Gone EXCEPT !.pc = "execute", !.gen = 1]
      BY <1>2, Became DEF Claim
    <3>2. \A d \in Calls : d # c => calls'[d] = calls[d]
      BY <1>2, Became DEF Claim
    <3>3. QED
      BY <3>1, <3>2 DEF Gone
  <2>5. ClaimInv'
    BY <1>2, <2>1, <2>2, <2>3, <2>4 DEF Claim, ClaimInv, Matches
  <2>6. QED
    BY <1>2, <2>5 DEF Claim, Safe, OneChangePerKey, AnswersAgree
<1>3. ASSUME NEW c \in Calls, Taken(c)
      PROVE  Safe'
  <2>1. CASE UNCHANGED answers
    BY <1>3, <2>1, QuietCalls, Quiet DEF Taken, Refuse, Answer
  <2>2. CASE record.status = "SUCCEEDED" /\ record.body = body[c] /\ Answer(c, record.result)
    <3>1. ClaimInv'
      BY <1>3, <2>2, Became DEF Taken, Answer, Gone, Safe, ClaimInv, Matches
    <3>2. record.result = 1 /\ changes # << >> /\ changes[1] = body[c]
      BY <2>2 DEF Safe, ClaimInv
    <3>3. QED
      BY <1>3, <2>2, <3>1, <3>2, GoodAnswer DEF Taken, Answer, Safe
  <2>3. QED
    BY <1>3, <2>1, <2>2 DEF Taken, Refuse
<1>4. ASSUME NEW c \in Calls, Reconcile(c)
      PROVE  Safe'
  <2>1. CASE changes = << >>
    BY <1>4, <2>1, QuietCalls, Quiet DEF Reconcile, Refuse
  <2>2. CASE changes # << >>
    <3>1. Len(changes) = 1
      <4>1. changes \in Seq(Bodies) /\ Len(changes) <= 1
        BY DEF TypeOK, Safe, OneChangePerKey
      <4>2. Len(changes) \in Nat \ {0}
        BY <2>2, <4>1, EmptySeq
      <4>3. \A n \in Nat \ {0} : n <= 1 => n = 1
        OBVIOUS
      <4>4. QED
        BY <4>1, <4>2, <4>3, Zenon
    <3>2. calls[c] \in CallRec
      BY DEF TypeOK
    <3>3. /\ calls'[c].pc = "takeover" /\ calls'[c].result = 1
          /\ \A d \in Calls : d # c => calls'[d] = calls[d]
      <4>1. Become(c, [calls[c] EXCEPT !.pc = "takeover", !.result = Len(changes)])
        BY <1>4, <2>2 DEF Reconcile
      <4>2. /\ calls'[c] = [calls[c] EXCEPT !.pc = "takeover", !.result = Len(changes)]
            /\ \A d \in Calls : d # c => calls'[d] = calls[d]
        BY <4>1, Became
      <4>3. QED
        BY <3>1, <3>2, <4>2 DEF CallRec
    <3>4. ClaimInv'
      BY <1>4, <2>2, <3>3 DEF Reconcile, Safe, ClaimInv, Matches
    <3>5. QED
      BY <1>4, <2>2, <3>4 DEF Reconcile, Safe, OneChangePerKey, AnswersAgree
  <2>3. QED
    BY <2>1, <2>2
<1>5. ASSUME NEW c \in Calls, TakeoverIdempotency(c)
      PROVE  Safe'
  <2>1. CASE ~MatchesTakeover(c)
    BY <1>5, <2>1, QuietCalls, Quiet DEF TakeoverIdempotency, Refuse
  <2>2. CASE MatchesTakeover(c)
    <3>1. changes # << >> /\ calls[c].result = 1 /\ calls[c] \in CallRec
      BY <1>5 DEF TakeoverIdempotency, At, TypeOK, Safe, ClaimInv
    <3>2. /\ calls'[c].pc = "finish" /\ calls'[c].result = 1
          /\ \A d \in Calls : d # c => calls'[d] = calls[d]
      <4>1. Become(c, [calls[c] EXCEPT !.pc = "finish", !.gen = @ + 1])
        BY <1>5, <2>2 DEF TakeoverIdempotency
      <4>2. /\ calls'[c] = [calls[c] EXCEPT !.pc = "finish", !.gen = @ + 1]
            /\ \A d \in Calls : d # c => calls'[d] = calls[d]
        BY <4>1, Became
      <4>3. QED
        BY <3>1, <4>2 DEF CallRec
    <3>3. ClaimInv'
      <4>1. changes' = changes /\ record'.body = record.body /\ record'.status = "PENDING"
            /\ record.body = body[c]
        BY <1>5, <2>2, TakenOver DEF TakeoverIdempotency
      <4>2. \A d \in Calls : calls[d].pc \notin {"execute", "abort"}
        BY <3>1 DEF Safe, ClaimInv
      <4>3. QED
        BY <3>1, <3>2, <4>1, <4>2 DEF Safe, ClaimInv
    <3>4. QED
      BY <1>5, <2>2, <3>3 DEF TakeoverIdempotency, Safe, OneChangePerKey, AnswersAgree
  <2>3. QED
    BY <2>1, <2>2
<1>6. ASSUME NEW c \in Calls, Execute(c)
      PROVE  Safe'
  <2>1. Matches(c) /\ changes = << >> /\ answers = {} /\ calls[c] \in CallRec /\ body[c] \in Bodies
    BY <1>6, IdempotencyAssumption DEF Execute, At, TypeOK, Safe, ClaimInv, AnswersAgree
  <2>2. changes' = <<body[c]>> /\ Len(changes') = 1 /\ changes'[1] = body[c] /\ changes' # << >>
    BY <1>6, <2>1 DEF Execute
  <2>3. /\ calls'[c].pc = "complete" /\ calls'[c].result = 1
        /\ \A d \in Calls : d # c => calls'[d] = calls[d]
    <3>1. Become(c, [calls[c] EXCEPT !.pc = "complete", !.result = Len(changes')])
      BY <1>6 DEF Execute
    <3>2. /\ calls'[c] = [calls[c] EXCEPT !.pc = "complete", !.result = Len(changes')]
          /\ \A d \in Calls : d # c => calls'[d] = calls[d]
      BY <3>1, Became
    <3>3. QED
      BY <2>1, <2>2, <3>2 DEF CallRec
  <2>4. \A d \in Calls :
          d # c => calls[d].pc \notin {"execute", "abort", "complete", "finish", "takeover"}
    BY <2>1 DEF Safe, ClaimInv, Matches
  <2>5. ClaimInv'
    BY <1>6, <2>1, <2>2, <2>3, <2>4 DEF Execute, Safe, ClaimInv, Matches
  <2>6. QED
    BY <1>6, <2>1, <2>2, <2>5 DEF Execute, Safe, OneChangePerKey, AnswersAgree
<1>7. ASSUME NEW c \in Calls, AbortIdempotency(c)
      PROVE  Safe'
  <2>1. Matches(c) /\ changes = << >> /\ answers = {}
    BY <1>7 DEF AbortIdempotency, At, Safe, ClaimInv, AnswersAgree
  <2>2. \A d \in Calls :
          d # c => calls[d].pc \notin {"execute", "abort", "complete", "finish", "takeover"}
    BY <2>1 DEF Safe, ClaimInv, Matches
  <2>3. /\ calls'[c].pc = "gone"
        /\ \A d \in Calls : d # c => calls'[d] = calls[d]
    BY <1>7, Became DEF AbortIdempotency, Refuse, Gone
  <2>4. record'.status = "NONE"
    BY <1>7, <2>1 DEF AbortIdempotency, NoRecord
  <2>5. ClaimInv'
    BY <1>7, <2>1, <2>2, <2>3, <2>4 DEF AbortIdempotency, ClaimInv
  <2>6. QED
    BY <1>7, <2>5 DEF AbortIdempotency, Refuse, Safe, OneChangePerKey, AnswersAgree
<1>8. ASSUME NEW c \in Calls, CompleteIdempotency(c)
      PROVE  Safe'
  <2>1. CASE ~Matches(c)
    BY <1>8, <2>1, QuietCalls, Quiet DEF CompleteIdempotency, Refuse
  <2>2. CASE Matches(c)
    <3>1. Succeed(c) /\ changes' = changes
      BY <1>8, <2>2 DEF CompleteIdempotency
    <3>2. changes # << >> /\ calls[c].result = 1 /\ record.body = body[c] /\ changes[1] = body[c]
      BY <1>8 DEF CompleteIdempotency, Safe, ClaimInv
    <3>3. /\ calls'[c].pc = "gone"
          /\ \A d \in Calls : d # c => calls'[d] = calls[d]
      BY <3>1, Became DEF Succeed, Answer, Gone
    <3>4. ClaimInv'
      BY <3>1, <3>2, <3>3, Succeeded DEF Safe, ClaimInv
    <3>5. QED
      BY <3>1, <3>2, <3>4, GoodAnswer DEF Succeed, Answer, Safe
  <2>3. QED
    BY <2>1, <2>2
<1>9. ASSUME NEW c \in Calls, ExecuteFails(c)
      PROVE  Safe'
  <2>1. Matches(c) /\ changes = << >> /\ calls[c] \in CallRec
    BY <1>9 DEF ExecuteFails, At, TypeOK, Safe, ClaimInv
  <2>2. /\ calls'[c].pc = "abort" /\ calls'[c].gen = calls[c].gen
        /\ \A d \in Calls : d # c => calls'[d] = calls[d]
    BY <1>9, <2>1, Became DEF ExecuteFails, Goto, CallRec
  <2>3. ClaimInv'
    BY <1>9, <2>1, <2>2 DEF ExecuteFails, Safe, ClaimInv, Matches
  <2>4. QED
    BY <1>9, <2>3 DEF ExecuteFails, Safe, OneChangePerKey, AnswersAgree
<1>10. ASSUME NEW c \in Calls, ExecuteUnacknowledged(c)
       PROVE  FALSE
  BY <1>10, AcksCounted
<1>11. ASSUME NEW c \in Calls, SaveFails(c)
       PROVE  Safe'
  BY <1>11, QuietCalls, Quiet DEF SaveFails, Refuse
<1>12. CASE GraceEnds \/ GraceEndsEarly
  <2>1. GraceOver
    BY <1>12 DEF GraceEnds, GraceEndsEarly
  <2>2. ClaimInv'
    BY <2>1, GracePassed DEF GraceOver, Safe, ClaimInv, Matches
  <2>3. QED
    BY <2>1, <2>2 DEF GraceOver, Safe, OneChangePerKey, AnswersAgree
<1>13. CASE Crash
  <2>1. \A d \in Calls : calls'[d].pc = "gone"
    BY <1>13 DEF Crash, Gone
  <2>2. QED
    BY <1>13, <2>1, Quiet DEF Crash
<1>14. CASE UNCHANGED vars
  BY <1>14, Quiet DEF vars
<1>15. QED
  BY <1>1, <1>2, <1>3, <1>4, <1>5, <1>6, <1>7, <1>8, <1>9, <1>10, <1>11, <1>12, <1>13,
     <1>14 DEF Next, Step

\* It holds at first, and until an acknowledgement is lost.
THEOREM SafeAlways == Spec => [](Acknowledged => Safe)
<1>1. Init => Safe
  BY DEF Init, NoRecord, Gone, Safe, ClaimInv, Matches, OneChangePerKey, AnswersAgree
<1>2. TypeOK /\ (Acknowledged => Safe) /\ [Next]_vars => (Acknowledged => Safe)'
  <2>1. SUFFICES ASSUME TypeOK, Acknowledged => Safe, [Next]_vars, spent'.acks = 0
                 PROVE  Safe'
    BY DEF Acknowledged
  <2>2. Safe
    BY <2>1, AcksCounted DEF Acknowledged
  <2>3. QED
    BY <2>1, <2>2, SafeStep
<1>3. QED
  BY <1>1, <1>2, TypeCorrect, PTL DEF Spec

\* service/idempotency.go: as long as an error of create means that nothing was
\* stored, no interleaving of requests, takeovers, failures and crashes makes two
\* changes for one key.
THEOREM CreateOnce == Spec => []CreatedOnce
<1>1. (Acknowledged => Safe) => CreatedOnce
  BY DEF Safe, CreatedOnce
<1>2. QED
  BY <1>1, SafeAlways, PTL

\* And all its requests, first, replayed or reconciled, are answered with that
\* change, which was made of the body they carry.
THEOREM SameAnswer == Spec => []SameAnswers
<1>1. (Acknowledged => Safe) => SameAnswers
  BY DEF Safe, SameAnswers
<1>2. QED
  BY <1>1, SafeAlways, PTL

\* Because the claim on a key excludes everybody but its owner.
THEOREM ClaimsExclude == Spec => []ClaimsHold
<1>1. (Acknowledged => Safe) => ClaimsHold
  BY DEF Safe, ClaimsHold
<1>2. QED
  BY <1>1, SafeAlways, PTL

-----------------------------------------------------------------------------
(* Outcomes: what the webhooks of pipelines and operations systems accept. *)

\* A sequence, of whatever elements.
IsList(s) == \E S : s \in Seq(S)

LEMMA Continued ==
  ASSUME NEW s, IsList(s), NEW x
  PROVE  /\ IsList(Append(s, x)) /\ Len(s) \in Nat /\ Len(Append(s, x)) = Len(s) + 1
         /\ \A i \in 1 .. Len(s) : Append(s, x)[i] = s[i]
         /\ Append(s, x)[Len(s) + 1] = x
<1>1. PICK S : s \in Seq(S)
  BY DEF IsList
<1>2. s \in Seq(S \cup {x}) /\ x \in S \cup {x}
  BY <1>1
<1>3. Append(s, x) \in Seq(S \cup {x})
  BY <1>2
<1>4. /\ Len(s) \in Nat /\ Len(Append(s, x)) = Len(s) + 1
      /\ \A i \in 1 .. Len(s) : Append(s, x)[i] = s[i]
      /\ Append(s, x)[Len(s) + 1] = x
  BY <1>2
<1>5. QED
  BY <1>3, <1>4 DEF IsList

\* The record of one organisation and identity is there once, and so is its
\* audit event, under the same organisation and identity.
Recorded(list, chain, tag) ==
  /\ IsList(list) /\ IsList(chain)
  /\ \A i, j \in 1 .. Len(list) :
       list[i].org = list[j].org /\ list[i].key = list[j].key => i = j
  /\ \A i \in 1 .. Len(list) : \E j \in 1 .. Len(chain) :
       chain[j].org = list[i].org /\ chain[j].of = <<tag, list[i].key>>
  /\ \A j \in 1 .. Len(chain) : chain[j].of[1] = tag =>
       \E i \in 1 .. Len(list) :
         list[i].org = chain[j].org /\ chain[j].of = <<tag, list[i].key>>
  /\ \A i, j \in 1 .. Len(chain) :
       chain[i].of[1] = tag /\ chain[i].org = chain[j].org /\ chain[i].of = chain[j].of
         => i = j

LEMMA RecordedAfterOther ==
  ASSUME NEW list, NEW chain, NEW tag, Recorded(list, chain, tag),
         NEW e, e.of[1] # tag
  PROVE  Recorded(list, Append(chain, e), tag)
<1> DEFINE longer == Append(chain, e)
<1>1. /\ IsList(longer) /\ Len(chain) \in Nat /\ Len(longer) = Len(chain) + 1
      /\ \A i \in 1 .. Len(chain) : longer[i] = chain[i]
      /\ longer[Len(chain) + 1] = e
  BY Continued DEF Recorded
<1> HIDE DEF longer
<1>2. \A i \in 1 .. Len(list) : \E j \in 1 .. Len(longer) :
        longer[j].org = list[i].org /\ longer[j].of = <<tag, list[i].key>>
  <2> SUFFICES ASSUME NEW i \in 1 .. Len(list)
               PROVE  \E j \in 1 .. Len(longer) :
                        longer[j].org = list[i].org /\ longer[j].of = <<tag, list[i].key>>
    OBVIOUS
  <2>1. PICK j \in 1 .. Len(chain) :
          chain[j].org = list[i].org /\ chain[j].of = <<tag, list[i].key>>
    BY DEF Recorded
  <2>2. j \in 1 .. Len(longer) /\ longer[j] = chain[j]
    BY <1>1
  <2>3. QED
    BY <2>1, <2>2
<1>3. ASSUME NEW j \in 1 .. Len(longer), longer[j].of[1] = tag
      PROVE  j \in 1 .. Len(chain) /\ longer[j] = chain[j]
  BY <1>1, <1>3
<1>4. \A j \in 1 .. Len(longer) : longer[j].of[1] = tag =>
        \E i \in 1 .. Len(list) :
          list[i].org = longer[j].org /\ longer[j].of = <<tag, list[i].key>>
  BY <1>3 DEF Recorded
<1>5. \A i, j \in 1 .. Len(longer) :
        longer[i].of[1] = tag /\ longer[i].org = longer[j].org /\ longer[i].of = longer[j].of
          => i = j
  <2> SUFFICES ASSUME NEW i \in 1 .. Len(longer), NEW j \in 1 .. Len(longer),
                      longer[i].of[1] = tag, longer[i].org = longer[j].org,
                      longer[i].of = longer[j].of
               PROVE  i = j
    OBVIOUS
  <2>1. longer[j].of[1] = tag
    OBVIOUS
  <2>2. /\ i \in 1 .. Len(chain) /\ longer[i] = chain[i]
        /\ j \in 1 .. Len(chain) /\ longer[j] = chain[j]
    BY <1>3, <2>1
  <2>3. QED
    BY <2>2 DEF Recorded
<1>6. Recorded(list, longer, tag)
  BY <1>1, <1>2, <1>4, <1>5 DEF Recorded
<1>7. QED
  BY <1>6 DEF longer

LEMMA RecordedAfterNew ==
  ASSUME NEW list, NEW chain, NEW tag, Recorded(list, chain, tag),
         NEW r, ~Known(list, r), NEW e, e.org = r.org, e.of = <<tag, r.key>>
  PROVE  Recorded(Append(list, r), Append(chain, e), tag)
<1> DEFINE more == Append(list, r)
           longer == Append(chain, e)
<1>1. /\ IsList(longer) /\ Len(chain) \in Nat /\ Len(longer) = Len(chain) + 1
      /\ \A i \in 1 .. Len(chain) : longer[i] = chain[i]
      /\ longer[Len(chain) + 1] = e
  BY Continued DEF Recorded
<1>2. /\ IsList(more) /\ Len(list) \in Nat /\ Len(more) = Len(list) + 1
      /\ \A i \in 1 .. Len(list) : more[i] = list[i]
      /\ more[Len(list) + 1] = r
  BY Continued DEF Recorded
<1>3. \A i \in 1 .. Len(list) : ~(list[i].org = r.org /\ list[i].key = r.key)
  BY DEF Known
<1> HIDE DEF longer, more
<1>4. ASSUME NEW i \in 1 .. Len(more)
      PROVE  \/ i \in 1 .. Len(list) /\ more[i] = list[i]
             \/ i = Len(list) + 1 /\ more[i] = r
  BY <1>2
<1>5. ASSUME NEW j \in 1 .. Len(longer)
      PROVE  \/ j \in 1 .. Len(chain) /\ longer[j] = chain[j]
             \/ j = Len(chain) + 1 /\ longer[j] = e
  BY <1>1
<1>6. \A i, j \in 1 .. Len(more) :
        more[i].org = more[j].org /\ more[i].key = more[j].key => i = j
  BY <1>3, <1>4 DEF Recorded
<1>7. \A i \in 1 .. Len(more) : \E j \in 1 .. Len(longer) :
        longer[j].org = more[i].org /\ longer[j].of = <<tag, more[i].key>>
  <2> SUFFICES ASSUME NEW i \in 1 .. Len(more)
               PROVE  \E j \in 1 .. Len(longer) :
                        longer[j].org = more[i].org /\ longer[j].of = <<tag, more[i].key>>
    OBVIOUS
  <2>1. CASE i \in 1 .. Len(list) /\ more[i] = list[i]
    <3>1. PICK j \in 1 .. Len(chain) :
            chain[j].org = list[i].org /\ chain[j].of = <<tag, list[i].key>>
      BY <2>1 DEF Recorded
    <3>2. j \in 1 .. Len(longer) /\ longer[j] = chain[j]
      BY <1>1
    <3>3. QED
      BY <2>1, <3>1, <3>2
  <2>2. CASE i = Len(list) + 1 /\ more[i] = r
    <3>1. Len(chain) + 1 \in 1 .. Len(longer)
      BY <1>1
    <3>2. QED
      BY <1>1, <2>2, <3>1
  <2>3. QED
    BY <1>4, <2>1, <2>2
<1>8. ASSUME NEW j \in 1 .. Len(chain)
      PROVE  ~(chain[j].org = r.org /\ chain[j].of = <<tag, r.key>>)
  <2> SUFFICES ASSUME chain[j].org = r.org, chain[j].of = <<tag, r.key>>
               PROVE  FALSE
    OBVIOUS
  <2>1. PICK i \in 1 .. Len(list) :
          list[i].org = chain[j].org /\ chain[j].of = <<tag, list[i].key>>
    BY DEF Recorded
  <2>2. list[i].key = r.key
    BY <2>1
  <2>3. QED
    BY <1>3, <2>1, <2>2
<1>9. \A j \in 1 .. Len(longer) : longer[j].of[1] = tag =>
        \E i \in 1 .. Len(more) :
          more[i].org = longer[j].org /\ longer[j].of = <<tag, more[i].key>>
  <2> SUFFICES ASSUME NEW j \in 1 .. Len(longer), longer[j].of[1] = tag
               PROVE  \E i \in 1 .. Len(more) :
                        more[i].org = longer[j].org /\ longer[j].of = <<tag, more[i].key>>
    OBVIOUS
  <2>1. CASE j \in 1 .. Len(chain) /\ longer[j] = chain[j]
    <3>1. PICK i \in 1 .. Len(list) :
            list[i].org = chain[j].org /\ chain[j].of = <<tag, list[i].key>>
      BY <2>1 DEF Recorded
    <3>2. i \in 1 .. Len(more) /\ more[i] = list[i]
      BY <1>2
    <3>3. QED
      BY <2>1, <3>1, <3>2
  <2>2. CASE j = Len(chain) + 1 /\ longer[j] = e
    <3>1. Len(list) + 1 \in 1 .. Len(more)
      BY <1>2
    <3>2. QED
      BY <1>2, <2>2, <3>1
  <2>3. QED
    BY <1>5, <2>1, <2>2
<1>10. \A i, j \in 1 .. Len(longer) :
         longer[i].of[1] = tag /\ longer[i].org = longer[j].org /\ longer[i].of = longer[j].of
           => i = j
  <2> SUFFICES ASSUME NEW i \in 1 .. Len(longer), NEW j \in 1 .. Len(longer),
                      longer[i].of[1] = tag, longer[i].org = longer[j].org,
                      longer[i].of = longer[j].of
               PROVE  i = j
    OBVIOUS
  <2>1. CASE i \in 1 .. Len(chain) /\ longer[i] = chain[i]
    <3>1. ~(j = Len(chain) + 1 /\ longer[j] = e)
      BY <2>1, <1>8
    <3>2. j \in 1 .. Len(chain) /\ longer[j] = chain[j]
      BY <1>5, <3>1
    <3>3. QED
      BY <2>1, <3>2 DEF Recorded
  <2>2. CASE i = Len(chain) + 1 /\ longer[i] = e
    <3>1. ~(j \in 1 .. Len(chain) /\ longer[j] = chain[j])
      BY <2>2, <1>8
    <3>2. QED
      BY <1>5, <2>2, <3>1
  <2>3. QED
    BY <1>5, <2>1, <2>2
<1>11. Recorded(more, longer, tag)
  BY <1>1, <1>2, <1>6, <1>7, <1>9, <1>10 DEF Recorded
<1>12. QED
  BY <1>11 DEF more, longer

\* The audit events of records.
Marks(chain) == {i \in 1 .. Len(chain) : chain[i].of[1] \in {"event", "signal"}}

LEMMA MarksGrow ==
  ASSUME NEW chain, IsList(chain), NEW e
  PROVE  /\ Cardinality(Marks(chain)) \in Nat
         /\ e.of[1] \in {"event", "signal"} =>
              Cardinality(Marks(Append(chain, e))) = Cardinality(Marks(chain)) + 1
         /\ e.of[1] \notin {"event", "signal"} => Marks(Append(chain, e)) = Marks(chain)
<1> DEFINE longer == Append(chain, e)
<1>1. /\ Len(chain) \in Nat /\ Len(longer) = Len(chain) + 1
      /\ \A i \in 1 .. Len(chain) : longer[i] = chain[i]
      /\ longer[Len(chain) + 1] = e
  BY Continued
<1> HIDE DEF longer
<1>2. IsFiniteSet(1 .. Len(chain))
  BY <1>1, FS_Interval
<1>3. Marks(chain) \in SUBSET (1 .. Len(chain))
  BY DEF Marks
<1>4. IsFiniteSet(Marks(chain)) /\ Cardinality(Marks(chain)) \in Nat
  BY <1>2, <1>3, FS_Subset, FS_CardinalityType
<1>5. 1 .. Len(longer) = (1 .. Len(chain)) \cup {Len(chain) + 1}
  BY <1>1
<1>6. CASE e.of[1] \in {"event", "signal"}
  <2>1. Marks(longer) = Marks(chain) \cup {Len(chain) + 1}
    BY <1>1, <1>5, <1>6 DEF Marks
  <2>2. Len(chain) + 1 \notin Marks(chain)
    BY <1>1 DEF Marks
  <2>3. Cardinality(Marks(longer)) = Cardinality(Marks(chain)) + 1
    BY <1>4, <2>1, <2>2, FS_AddElement
  <2>4. QED
    BY <1>4, <1>6, <2>3 DEF longer
<1>7. CASE e.of[1] \notin {"event", "signal"}
  <2>1. Marks(longer) = Marks(chain)
    BY <1>1, <1>5, <1>7 DEF Marks
  <2>2. QED
    BY <1>4, <1>7, <2>1 DEF longer
<1>8. QED
  BY <1>6, <1>7

\* AppendAudit adds one event, of what it was told.
LEMMA AuditAppended ==
  ASSUME NEW chain, NEW org, NEW of, NEW c
  PROVE  \E e : /\ AppendAudit(chain, org, of, c) = Append(chain, e)
                /\ e.org = org /\ e.of = of /\ e.change = c
<1> DEFINE own == SelectSeq(chain, LAMBDA a : a.org = org)
           prev == IF own = <<>> THEN NoHash ELSE Anchor(Last(own))
           e0 == [org |-> org, of |-> of, change |-> c, hash |-> NoHash, prev |-> prev]
           e1 == [e0 EXCEPT !.hash = Digest(e0)]
<1>1. AppendAudit(chain, org, of, c) = Append(chain, e1)
  BY DEF AppendAudit
<1> HIDE DEF prev
<1>2. e1.org = org /\ e1.of = of /\ e1.change = c
  OBVIOUS
<1>3. QED
  BY <1>1, <1>2

-----------------------------------------------------------------------------
(* The newest of several changes exists. *)

ChangesTyped == changeOf \in [Changes -> ChangeRecord \cup {Nil}]

LEMMA RecordsOfChanges ==
  ASSUME ChangesTyped
  PROVE  \A c \in Existing : c \in Changes /\ c \in Nat /\ changeOf[c] \in ChangeRecord
                             /\ changeOf[c].created \in Int
BY OutcomesAssumption DEF ChangesTyped, Existing, ChangeRecord

LEMMA NewestIsOne ==
  ASSUME ChangesTyped, NEW S \in SUBSET Existing, S # {}
  PROVE  NewestChange(S) \in S
<1> DEFINE Newer(d, c) == \/ changeOf[d].created > changeOf[c].created
                          \/ changeOf[d].created = changeOf[c].created /\ d > c
           Above(c) == {d \in S : Newer(d, c)}
           T == {Above(c) : c \in S}
           R == StrictSubsetOrdering(S)
<1>1. \A c \in S : c \in Nat /\ changeOf[c].created \in Int
  BY RecordsOfChanges
<1>2. IsFiniteSet(S)
  <2>1. S \in SUBSET Changes
    BY DEF Existing
  <2>2. QED
    BY <2>1, OutcomesAssumption, FS_Subset DEF OutcomesAssumption
<1>3. IsWellFoundedOn(R, SUBSET S)
  BY <1>2, FS_FiniteSubsetsOfFinite, FS_StrictSubsetOrderingWellFounded
<1>4. T \subseteq SUBSET S /\ T # {}
  OBVIOUS
<1>5. PICK x \in T : \A y \in T : ~(<<y, x>> \in R)
  <2> HIDE DEF T, R
  <2>1. QED
    BY <1>3, <1>4, WFMin
<1>6. PICK c \in S : x = Above(c)
  BY <1>5
<1>7. \A d \in S : ~Newer(d, c)
  <2> SUFFICES ASSUME NEW d \in S, Newer(d, c)
               PROVE  FALSE
    OBVIOUS
  <2>1. \A f \in S : Newer(f, d) => Newer(f, c)
    BY <1>1
  <2>2. Above(d) \subseteq Above(c)
    BY <2>1
  <2>3. d \in Above(c) /\ d \notin Above(d)
    BY <1>1
  <2>4. <<Above(d), Above(c)>> \in R
    <3>1. <<Above(d), Above(c)>> \in (SUBSET S) \X (SUBSET S)
      OBVIOUS
    <3>2. QED
      BY <2>2, <2>3, <3>1 DEF StrictSubsetOrdering
  <2>5. Above(d) \in T
    OBVIOUS
  <2>6. QED
    BY <1>5, <1>6, <2>4, <2>5
<1>8. \A d \in S \ {c} : \/ changeOf[c].created > changeOf[d].created
                         \/ changeOf[c].created = changeOf[d].created /\ c > d
  BY <1>1, <1>7
<1>9. QED
  BY <1>8 DEF NewestChange

LEMMA LinkIsInside ==
  ASSUME ChangesTyped, NEW e
  PROVE  LinkedChange(e) # Nil =>
           LinkedChange(e) \in Existing /\ OrgOf[LinkedChange(e)] = e.org
<1> DEFINE S == WithCommit(e.org, e.commit)
<1>1. S \in SUBSET Existing /\ \A c \in S : OrgOf[c] = e.org
  BY DEF WithCommit
<1>2. S # {} => NewestChange(S) \in S
  BY <1>1, NewestIsOne
<1> HIDE DEF S
<1>3. CASE e.change \in Existing /\ OrgOf[e.change] = e.org
  BY <1>3 DEF LinkedChange
<1>4. CASE ~(e.change \in Existing /\ OrgOf[e.change] = e.org) /\ S # {}
  <2>1. LinkedChange(e) = NewestChange(S)
    BY <1>4 DEF LinkedChange, S
  <2>2. QED
    BY <1>1, <1>2, <1>4, <2>1
<1>5. CASE ~(e.change \in Existing /\ OrgOf[e.change] = e.org) /\ S = {}
  BY <1>5 DEF LinkedChange, S
<1>6. QED
  BY <1>3, <1>4, <1>5

-----------------------------------------------------------------------------
(* The invariant. *)

\* The identity of a message, as its record carries it.
GitLabKey(m) == IF m.id # Nil THEN <<m.provider, m.id>>
                ELSE <<m.provider, m.build, m.status, m.change, m.commit, m.occurred>>
JenkinsKey(m) == IF m.id # Nil THEN <<m.provider, m.id>>
                 ELSE <<m.provider, m.build, m.status>>
KeyOf(m) == IF m \notin Pipelines THEN <<m.source, m.id>>
            ELSE IF m.provider = "GITLAB" THEN GitLabKey(m) ELSE JenkinsKey(m)

LEMMA KeysAreParsed ==
  ASSUME NEW m
  PROVE  ParseGitLab(m).key = GitLabKey(m) /\ ParseJenkins(m).key = JenkinsKey(m)
         /\ ParseGitLab(m).org = m.org /\ ParseJenkins(m).org = m.org
BY DEF ParseGitLab, ParseJenkins, GitLabKey, JenkinsKey

InsideOf(r, E) == r.change # Nil => r.change \in E /\ OrgOf[r.change] = r.org
AllInside(list, E) == \A i \in 1 .. Len(list) : InsideOf(list[i], E)

\* A call in flight holds the record of its message.
CallOK(k, E) ==
  /\ k.pc \in {"idle", "event", "signal"}
  /\ k.pc = "event" => k.msg \in Pipelines
  /\ k.pc = "signal" => k.msg \in Signals
  /\ k.pc # "idle" => /\ k.record.org = k.msg.org /\ k.record.key = KeyOf(k.msg)
                      /\ InsideOf(k.record, E)

HasRecord(list, m) ==
  \E i \in 1 .. Len(list) : list[i].org = m.org /\ list[i].key = KeyOf(m)

Kept(done, pipeline, other) ==
  \A m \in done : IF m \in Pipelines THEN HasRecord(pipeline, m) ELSE HasRecord(other, m)

CallsAre(f, E) ==
  f = [c \in Requests |-> f[c]] /\ \A c \in Requests : CallOK(f[c], E)

Lists(evts, sigs, chain, E) ==
  /\ Recorded(evts, chain, "event") /\ Recorded(sigs, chain, "signal")
  /\ Cardinality(Marks(chain)) = Len(evts) + Len(sigs)
  /\ AllInside(evts, E) /\ AllInside(sigs, E) /\ AllInside(chain, E)

RecordsInv ==
  /\ now \in 0 .. MaxTime /\ arrivals \in 0 .. MaxArrivals
  /\ ChangesTyped
  /\ Lists(events, signals, audits, Existing)
  /\ CallsAre(call, Existing)
  /\ Kept(acked, events, signals)

LEMMA StillInside ==
  ASSUME NEW r, NEW E, NEW F, E \subseteq F, InsideOf(r, E)
  PROVE  InsideOf(r, F)
BY DEF InsideOf

LEMMA AllStillInside ==
  ASSUME NEW list, NEW E, NEW F, E \subseteq F, AllInside(list, E)
  PROVE  AllInside(list, F)
BY DEF AllInside, InsideOf

LEMMA CallsStillInside ==
  ASSUME NEW f, NEW E, NEW F, E \subseteq F, CallsAre(f, E)
  PROVE  CallsAre(f, F)
<1>1. ASSUME NEW c \in Requests
      PROVE  CallOK(f[c], F)
  BY StillInside DEF CallsAre, CallOK
<1>2. QED
  BY <1>1 DEF CallsAre

LEMMA OneMoreInside ==
  ASSUME NEW list, IsList(list), NEW r, NEW E, AllInside(list, E), InsideOf(r, E)
  PROVE  AllInside(Append(list, r), E)
<1> DEFINE more == Append(list, r)
<1>1. /\ Len(list) \in Nat /\ Len(more) = Len(list) + 1
      /\ \A i \in 1 .. Len(list) : more[i] = list[i]
      /\ more[Len(list) + 1] = r
  BY Continued
<1> HIDE DEF more
<1>2. ASSUME NEW i \in 1 .. Len(more)
      PROVE  InsideOf(more[i], E)
  <2>1. CASE i = Len(list) + 1
    BY <1>1, <2>1
  <2>2. CASE i # Len(list) + 1
    <3>1. i \in 1 .. Len(list)
      BY <1>1, <2>2
    <3>2. QED
      BY <1>1, <3>1 DEF AllInside
  <2>3. QED
    BY <2>1, <2>2
<1>3. QED
  BY <1>2 DEF AllInside, more

LEMMA CallChanged ==
  ASSUME NEW f, NEW E, CallsAre(f, E), NEW c \in Requests, NEW k, CallOK(k, E)
  PROVE  CallsAre([f EXCEPT ![c] = k], E)
<1>1. f = [d \in Requests |-> f[d]]
  BY DEF CallsAre
<1> DEFINE g == [f EXCEPT ![c] = k]
<1>2. g = [d \in Requests |-> IF d = c THEN k ELSE f[d]]
  BY <1>1
<1> HIDE DEF g
<1>3. g = [d \in Requests |-> g[d]]
  BY <1>2
<1>4. ASSUME NEW d \in Requests
      PROVE  CallOK(g[d], E)
  <2>1. CASE d = c
    BY <1>2, <2>1
  <2>2. CASE d # c
    BY <1>2, <2>2 DEF CallsAre
  <2>3. QED
    BY <2>1, <2>2
<1>5. QED
  BY <1>3, <1>4 DEF CallsAre, g

LEMMA IdleIsOK == ASSUME NEW E PROVE CallOK(NoCall, E)
BY DEF CallOK, NoCall

\* An audit event of another kind.
LEMMA ListsAfterOther ==
  ASSUME NEW evts, NEW sigs, NEW chain, NEW E, Lists(evts, sigs, chain, E), NEW org, NEW of,
         NEW c, of[1] \notin {"event", "signal"}, c # Nil => c \in E /\ OrgOf[c] = org
  PROVE  Lists(evts, sigs, AppendAudit(chain, org, of, c), E)
<1>1. PICK e : /\ AppendAudit(chain, org, of, c) = Append(chain, e)
               /\ e.org = org /\ e.of = of /\ e.change = c
  BY AuditAppended
<1>2. e.of[1] \notin {"event", "signal"} /\ InsideOf(e, E)
  BY <1>1 DEF InsideOf
<1>3. IsList(chain)
  BY DEF Lists, Recorded
<1>4. Recorded(evts, Append(chain, e), "event") /\ Recorded(sigs, Append(chain, e), "signal")
  BY <1>2, RecordedAfterOther DEF Lists
<1>5. Marks(Append(chain, e)) = Marks(chain)
  BY <1>2, <1>3, MarksGrow
<1>6. AllInside(Append(chain, e), E)
  BY <1>2, <1>3, OneMoreInside DEF Lists
<1>7. QED
  BY <1>1, <1>4, <1>5, <1>6 DEF Lists

\* A new record and its audit event.
LEMMA ListsAfterEvent ==
  ASSUME NEW evts, NEW sigs, NEW chain, NEW E, Lists(evts, sigs, chain, E), NEW r,
         ~Known(evts, r), InsideOf(r, E)
  PROVE  Lists(Append(evts, r), sigs, AppendAudit(chain, r.org, <<"event", r.key>>, r.change), E)
<1>1. PICK e : /\ AppendAudit(chain, r.org, <<"event", r.key>>, r.change) = Append(chain, e)
               /\ e.org = r.org /\ e.of = <<"event", r.key>> /\ e.change = r.change
  BY AuditAppended
<1>2. e.of[1] = "event" /\ "event" # "signal" /\ InsideOf(e, E)
  BY <1>1 DEF InsideOf
<1>3. IsList(chain) /\ IsList(evts) /\ IsList(sigs)
  BY DEF Lists, Recorded
<1>4. Recorded(Append(evts, r), Append(chain, e), "event")
  BY <1>1, RecordedAfterNew DEF Lists
<1>5. Recorded(sigs, Append(chain, e), "signal")
  BY <1>2, RecordedAfterOther DEF Lists
<1>6. Cardinality(Marks(Append(chain, e))) = Cardinality(Marks(chain)) + 1
  BY <1>2, <1>3, MarksGrow
<1>7. AllInside(Append(chain, e), E) /\ AllInside(Append(evts, r), E)
  BY <1>2, <1>3, OneMoreInside DEF Lists
<1>8. Len(Append(evts, r)) = Len(evts) + 1 /\ Len(evts) \in Nat /\ Len(sigs) \in Nat
  BY <1>3, Continued
<1>9. Cardinality(Marks(Append(chain, e))) = Len(Append(evts, r)) + Len(sigs)
  BY <1>6, <1>8 DEF Lists
<1>10. QED
  BY <1>1, <1>4, <1>5, <1>7, <1>9 DEF Lists

LEMMA ListsAfterSignal ==
  ASSUME NEW evts, NEW sigs, NEW chain, NEW E, Lists(evts, sigs, chain, E), NEW r,
         ~Known(sigs, r), InsideOf(r, E)
  PROVE  Lists(evts, Append(sigs, r), AppendAudit(chain, r.org, <<"signal", r.key>>, r.change), E)
<1>1. PICK e : /\ AppendAudit(chain, r.org, <<"signal", r.key>>, r.change) = Append(chain, e)
               /\ e.org = r.org /\ e.of = <<"signal", r.key>> /\ e.change = r.change
  BY AuditAppended
<1>2. e.of[1] = "signal" /\ "event" # "signal" /\ InsideOf(e, E)
  BY <1>1 DEF InsideOf
<1>3. IsList(chain) /\ IsList(evts) /\ IsList(sigs)
  BY DEF Lists, Recorded
<1>4. Recorded(Append(sigs, r), Append(chain, e), "signal")
  BY <1>1, RecordedAfterNew DEF Lists
<1>5. Recorded(evts, Append(chain, e), "event")
  BY <1>2, RecordedAfterOther DEF Lists
<1>6. Cardinality(Marks(Append(chain, e))) = Cardinality(Marks(chain)) + 1
  BY <1>2, <1>3, MarksGrow
<1>7. AllInside(Append(chain, e), E) /\ AllInside(Append(sigs, r), E)
  BY <1>2, <1>3, OneMoreInside DEF Lists
<1>8. Len(Append(sigs, r)) = Len(sigs) + 1 /\ Len(evts) \in Nat /\ Len(sigs) \in Nat
  BY <1>3, Continued
<1>9. Cardinality(Marks(Append(chain, e))) = Len(evts) + Len(Append(sigs, r))
  BY <1>6, <1>8 DEF Lists
<1>10. QED
  BY <1>1, <1>4, <1>5, <1>7, <1>9 DEF Lists

\* What is recorded stays recorded, and the new record is one of its message.
LEMMA RecordStays ==
  ASSUME NEW list, IsList(list), NEW r, NEW m, HasRecord(list, m)
  PROVE  HasRecord(Append(list, r), m)
<1>1. PICK i \in 1 .. Len(list) : list[i].org = m.org /\ list[i].key = KeyOf(m)
  BY DEF HasRecord
<1>2. i \in 1 .. Len(Append(list, r)) /\ Append(list, r)[i] = list[i]
  BY Continued
<1>3. QED
  BY <1>1, <1>2 DEF HasRecord

LEMMA RecordIsNew ==
  ASSUME NEW list, IsList(list), NEW r, NEW m, r.org = m.org, r.key = KeyOf(m)
  PROVE  HasRecord(Append(list, r), m)
<1>1. Len(list) + 1 \in 1 .. Len(Append(list, r)) /\ Append(list, r)[Len(list) + 1] = r
  BY Continued
<1>2. QED
  BY <1>1 DEF HasRecord

LEMMA RecordIsKnown ==
  ASSUME NEW list, NEW r, NEW m, r.org = m.org, r.key = KeyOf(m), Known(list, r)
  PROVE  HasRecord(list, m)
BY DEF HasRecord, Known

-----------------------------------------------------------------------------
(* The steps. *)

LEMMA ListsStillInside ==
  ASSUME NEW evts, NEW sigs, NEW chain, NEW E, NEW F, E \subseteq F, Lists(evts, sigs, chain, E)
  PROVE  Lists(evts, sigs, chain, F)
BY AllStillInside DEF Lists

\* Nothing but changes and audit events.
LEMMA ChangeWritten ==
  ASSUME RecordsInv, NEW c \in Changes, NEW r \in ChangeRecord, NEW of, of[1] = "change",
         changeOf' = [changeOf EXCEPT ![c] = r],
         audits' = AppendAudit(audits, OrgOf[c], of, c),
         UNCHANGED <<now, events, signals, call, arrivals, acked>>
  PROVE  RecordsInv'
<1>1. ChangesTyped'
  BY DEF RecordsInv, ChangesTyped
<1>2. Existing \subseteq Existing' /\ c \in Existing'
  <2>1. r # Nil
    BY OutcomesAssumption DEF OutcomesAssumption
  <2>2. \A d \in Changes : changeOf'[d] = IF d = c THEN r ELSE changeOf[d]
    BY DEF RecordsInv, ChangesTyped
  <2>3. QED
    BY <2>1, <2>2 DEF Existing
<1>3. Lists(events, signals, audits, Existing')
  BY <1>2, ListsStillInside DEF RecordsInv
<1>4. of[1] \notin {"event", "signal"}
  OBVIOUS
<1>5. Lists(events, signals, audits', Existing')
  BY <1>2, <1>3, <1>4, ListsAfterOther
<1>6. CallsAre(call, Existing')
  BY <1>2, CallsStillInside DEF RecordsInv
<1>7. QED
  BY <1>1, <1>5, <1>6 DEF RecordsInv

LEMMA CreatePreserves ==
  ASSUME RecordsInv, NEW c \in Changes, NEW commit \in Commits, CreateChange(c, commit)
  PROVE  RecordsInv'
<1> DEFINE r == [commit |-> commit, created |-> now, version |-> 1]
<1>1. r \in ChangeRecord
  <2>1. now \in Int
    BY OutcomesAssumption DEF RecordsInv, OutcomesAssumption
  <2>2. QED
    BY <2>1 DEF ChangeRecord
<1>2. /\ changeOf' = [changeOf EXCEPT ![c] = r]
      /\ audits' = AppendAudit(audits, OrgOf[c], <<"change", c, 1>>, c)
      /\ UNCHANGED <<now, events, signals, call, arrivals, acked>>
  BY DEF CreateChange
<1>3. <<"change", c, 1>>[1] = "change"
  OBVIOUS
<1> HIDE DEF r
<1>4. QED
  BY <1>1, <1>2, <1>3, ChangeWritten

LEMMA ResubmitPreserves ==
  ASSUME RecordsInv, NEW c \in Changes, NEW commit \in Commits, ResubmitChange(c, commit)
  PROVE  RecordsInv'
<1>1. PICK old \in ChangeRecord : changeOf[c] = old
  BY DEF RecordsInv, ChangesTyped, ResubmitChange
<1> DEFINE r == [old EXCEPT !.commit = commit, !.version = old.version + 1]
<1>2. r \in ChangeRecord
  <2>1. old \in [commit : Commits, created : Int, version : Nat]
    BY DEF ChangeRecord
  <2>2. old.version + 1 \in Nat
    BY <2>1
  <2>3. r \in [commit : Commits, created : Int, version : Nat]
    BY <2>1, <2>2
  <2>4. QED
    BY <2>3 DEF ChangeRecord
<1>3. changeOf' = [changeOf EXCEPT ![c] = r]
  <2>1. changeOf' = [changeOf EXCEPT ![c].commit = commit,
                                     ![c].version = changeOf[c].version + 1]
    BY DEF ResubmitChange
  <2>2. changeOf \in [Changes -> ChangeRecord \cup {Nil}]
    BY DEF RecordsInv, ChangesTyped
  <2>3. QED
    BY <1>1, <2>1, <2>2
<1> DEFINE of == <<"change", c, changeOf[c].version + 1>>
<1>4. /\ audits' = AppendAudit(audits, OrgOf[c], of, c)
      /\ UNCHANGED <<now, events, signals, call, arrivals, acked>>
  BY DEF ResubmitChange
<1>5. of[1] = "change"
  OBVIOUS
<1> HIDE DEF r, of
<1>6. QED
  BY <1>2, <1>3, <1>4, <1>5, ChangeWritten

LEMMA ArrivePreserves ==
  ASSUME RecordsInv, NEW c \in Requests, NEW k, CallOK(k, Existing), Arrive(c, k)
  PROVE  RecordsInv'
<1>1. /\ UNCHANGED <<now, changeOf, events, signals, audits, acked>>
      /\ arrivals' = arrivals + 1 /\ arrivals < MaxArrivals
      /\ call' = [call EXCEPT ![c] = k]
  BY DEF Arrive, records
<1>2. arrivals' \in 0 .. MaxArrivals
  BY <1>1, OutcomesAssumption DEF RecordsInv, OutcomesAssumption
<1>3. Existing' = Existing
  BY <1>1 DEF Existing
<1>4. CallsAre(call', Existing)
  BY <1>1, CallChanged DEF RecordsInv
<1>5. QED
  BY <1>1, <1>2, <1>3, <1>4 DEF RecordsInv, ChangesTyped

LEMMA EventIsOK ==
  ASSUME ChangesTyped, NEW m \in Pipelines, NEW e, e.org = m.org, e.key = KeyOf(m)
  PROVE  CallOK([pc |-> "event", msg |-> m, record |-> IntegrationEvent(e)], Existing)
<1>1. PICK l : l = LinkedChange(e)
  OBVIOUS
<1>2. l # Nil => l \in Existing /\ OrgOf[l] = e.org
  BY <1>1, LinkIsInside
<1>3. /\ IntegrationEvent(e).org = m.org /\ IntegrationEvent(e).key = KeyOf(m)
      /\ IntegrationEvent(e).change = l
  BY <1>1 DEF IntegrationEvent
<1>4. PICK r : r = IntegrationEvent(e)
  OBVIOUS
<1>5. InsideOf(r, Existing)
  BY <1>2, <1>3, <1>4 DEF InsideOf
<1>6. r.org = m.org /\ r.key = KeyOf(m)
  BY <1>3, <1>4
<1>7. CallOK([pc |-> "event", msg |-> m, record |-> r], Existing)
  BY <1>5, <1>6 DEF CallOK
<1>8. QED
  BY <1>4, <1>7

LEMMA SignalIsOK ==
  ASSUME NEW m \in Signals, SignalAccepted(m)
  PROVE  CallOK([pc |-> "signal", msg |-> m, record |-> OutcomeSignal(m)], Existing)
<1>1. m \notin Pipelines
  BY OutcomesAssumption DEF OutcomesAssumption
<1>2. m.change \in Existing /\ OrgOf[m.change] = m.org
  BY DEF SignalAccepted
<1>3. /\ OutcomeSignal(m).org = m.org /\ OutcomeSignal(m).key = KeyOf(m)
      /\ OutcomeSignal(m).change = m.change
  BY <1>1 DEF OutcomeSignal, KeyOf
<1>4. PICK r : r = OutcomeSignal(m)
  OBVIOUS
<1>5. InsideOf(r, Existing)
  BY <1>2, <1>3, <1>4 DEF InsideOf
<1>6. r.org = m.org /\ r.key = KeyOf(m)
  BY <1>3, <1>4
<1>7. CallOK([pc |-> "signal", msg |-> m, record |-> r], Existing)
  BY <1>5, <1>6 DEF CallOK
<1>8. QED
  BY <1>4, <1>7

LEMMA GitLabPreserves ==
  ASSUME RecordsInv, NEW c \in Requests, NEW m \in Pipelines, HandleGitLabWebhook(c, m)
  PROVE  RecordsInv'
<1> DEFINE e == ParseGitLab(m)
           k == [pc |-> "event", msg |-> m, record |-> IntegrationEvent(e)]
<1>1. e.org = m.org /\ e.key = KeyOf(m)
  BY KeysAreParsed DEF HandleGitLabWebhook, KeyOf
<1> HIDE DEF e
<1>2. CallOK(k, Existing)
  BY <1>1, EventIsOK DEF RecordsInv
<1>3. Arrive(c, IF VerifyGitLab(m) THEN k ELSE NoCall)
  BY DEF HandleGitLabWebhook, e
<1> HIDE DEF k
<1>4. QED
  BY <1>2, <1>3, IdleIsOK, ArrivePreserves

LEMMA JenkinsPreserves ==
  ASSUME RecordsInv, NEW c \in Requests, NEW m \in Pipelines, HandleJenkinsEvent(c, m)
  PROVE  RecordsInv'
<1> DEFINE e == ParseJenkins(m)
           k == [pc |-> "event", msg |-> m, record |-> IntegrationEvent(e)]
<1>1. e.org = m.org /\ e.key = KeyOf(m)
  BY KeysAreParsed DEF HandleJenkinsEvent, KeyOf
<1> HIDE DEF e
<1>2. CallOK(k, Existing)
  BY <1>1, EventIsOK DEF RecordsInv
<1>3. Arrive(c, IF VerifyJenkins(m) THEN k ELSE NoCall)
  BY DEF HandleJenkinsEvent, e
<1> HIDE DEF k
<1>4. QED
  BY <1>2, <1>3, IdleIsOK, ArrivePreserves

LEMMA OperationsPreserves ==
  ASSUME RecordsInv, NEW c \in Requests, NEW m \in Signals, HandleOperationsWebhook(c, m)
  PROVE  RecordsInv'
<1> DEFINE k == [pc |-> "signal", msg |-> m, record |-> OutcomeSignal(m)]
           good == VerifyOperations(m) /\ ParseOperations(m) /\ SignalAccepted(m)
<1>1. good => CallOK(k, Existing)
  BY SignalIsOK
<1>2. Arrive(c, IF good THEN k ELSE NoCall)
  BY DEF HandleOperationsWebhook
<1>3. CASE good
  <2> HIDE DEF k
  <2>1. Arrive(c, k)
    BY <1>2, <1>3
  <2>2. QED
    BY <1>1, <1>3, <2>1, ArrivePreserves
<1>4. CASE ~good
  <2> HIDE DEF k
  <2>1. Arrive(c, NoCall)
    BY <1>2, <1>4
  <2>2. QED
    BY <2>1, IdleIsOK, ArrivePreserves
<1>5. QED
  BY <1>3, <1>4

\* A call in flight.
LEMMA InFlight ==
  ASSUME RecordsInv, NEW c \in Requests, call[c].pc # "idle"
  PROVE  /\ call[c].record.org = call[c].msg.org /\ call[c].record.key = KeyOf(call[c].msg)
         /\ InsideOf(call[c].record, Existing)
         /\ call[c].pc = "event" => call[c].msg \in Pipelines
         /\ call[c].pc = "signal" => call[c].msg \in Signals /\ call[c].msg \notin Pipelines
BY OutcomesAssumption DEF RecordsInv, CallsAre, CallOK, OutcomesAssumption

LEMMA RecordEventPreserves ==
  ASSUME RecordsInv, NEW c \in Requests, RecordIntegrationEvent(c)
  PROVE  RecordsInv'
<1>1. PICK r, m : r = call[c].record /\ m = call[c].msg
  OBVIOUS
<1>2. /\ call[c].pc = "event" /\ acked' = acked \cup {m}
      /\ call' = [call EXCEPT ![c] = NoCall]
      /\ UNCHANGED <<now, changeOf, arrivals, signals>>
  BY <1>1 DEF RecordIntegrationEvent, Acknowledge, Reply
<1>3. /\ r.org = m.org /\ r.key = KeyOf(m) /\ InsideOf(r, Existing) /\ m \in Pipelines
  BY <1>1, <1>2, InFlight
<1>4. \/ Known(events, r) /\ UNCHANGED <<events, audits>>
      \/ /\ ~Known(events, r) /\ events' = Append(events, r)
         /\ audits' = AppendAudit(audits, r.org, <<"event", r.key>>, r.change)
  BY <1>1 DEF RecordIntegrationEvent
<1>5. Existing' = Existing
  BY <1>2 DEF Existing
<1>6. CallsAre(call', Existing)
  BY <1>2, IdleIsOK, CallChanged DEF RecordsInv
<1>7. IsList(events)
  BY DEF RecordsInv, Lists, Recorded
<1>8. Lists(events', signals', audits', Existing) /\ HasRecord(events', m)
      /\ \A x : HasRecord(events, x) => HasRecord(events', x)
  <2>1. CASE Known(events, r) /\ UNCHANGED <<events, audits>>
    BY <1>2, <1>3, <2>1, RecordIsKnown DEF RecordsInv
  <2>2. CASE /\ ~Known(events, r) /\ events' = Append(events, r)
             /\ audits' = AppendAudit(audits, r.org, <<"event", r.key>>, r.change)
    <3>1. Lists(events, signals, audits, Existing)
      BY DEF RecordsInv
    <3>2. Lists(events', signals', audits', Existing)
      BY <1>2, <1>3, <2>2, <3>1, ListsAfterEvent
    <3>3. HasRecord(events', m)
      BY <1>3, <1>7, <2>2, RecordIsNew
    <3>4. \A x : HasRecord(events, x) => HasRecord(events', x)
      BY <1>7, <2>2, RecordStays
    <3>5. QED
      BY <3>2, <3>3, <3>4
  <2>3. QED
    BY <1>4, <2>1, <2>2
<1>9. Kept(acked', events', signals')
  BY <1>2, <1>3, <1>8 DEF RecordsInv, Kept
<1>10. QED
  BY <1>2, <1>5, <1>6, <1>8, <1>9 DEF RecordsInv, ChangesTyped

LEMMA RecordSignalPreserves ==
  ASSUME RecordsInv, NEW c \in Requests, RecordOutcomeSignal(c)
  PROVE  RecordsInv'
<1>1. PICK r, m : r = call[c].record /\ m = call[c].msg
  OBVIOUS
<1>2. /\ call[c].pc = "signal" /\ acked' = acked \cup {m}
      /\ call' = [call EXCEPT ![c] = NoCall]
      /\ UNCHANGED <<now, changeOf, arrivals, events>>
  BY <1>1 DEF RecordOutcomeSignal, Acknowledge, Reply
<1>3. /\ r.org = m.org /\ r.key = KeyOf(m) /\ InsideOf(r, Existing) /\ m \notin Pipelines
  BY <1>1, <1>2, InFlight
<1>4. \/ Known(signals, r) /\ UNCHANGED <<signals, audits>>
      \/ /\ ~Known(signals, r) /\ signals' = Append(signals, r)
         /\ audits' = AppendAudit(audits, r.org, <<"signal", r.key>>, r.change)
  BY <1>1 DEF RecordOutcomeSignal
<1>5. Existing' = Existing
  BY <1>2 DEF Existing
<1>6. CallsAre(call', Existing)
  BY <1>2, IdleIsOK, CallChanged DEF RecordsInv
<1>7. IsList(signals)
  BY DEF RecordsInv, Lists, Recorded
<1>8. Lists(events', signals', audits', Existing) /\ HasRecord(signals', m)
      /\ \A x : HasRecord(signals, x) => HasRecord(signals', x)
  <2>1. CASE Known(signals, r) /\ UNCHANGED <<signals, audits>>
    BY <1>2, <1>3, <2>1, RecordIsKnown DEF RecordsInv
  <2>2. CASE /\ ~Known(signals, r) /\ signals' = Append(signals, r)
             /\ audits' = AppendAudit(audits, r.org, <<"signal", r.key>>, r.change)
    <3>1. Lists(events, signals, audits, Existing)
      BY DEF RecordsInv
    <3>2. Lists(events', signals', audits', Existing)
      BY <1>2, <1>3, <2>2, <3>1, ListsAfterSignal
    <3>3. HasRecord(signals', m)
      BY <1>3, <1>7, <2>2, RecordIsNew
    <3>4. \A x : HasRecord(signals, x) => HasRecord(signals', x)
      BY <1>7, <2>2, RecordStays
    <3>5. QED
      BY <3>2, <3>3, <3>4
  <2>3. QED
    BY <1>4, <2>1, <2>2
<1>9. Kept(acked', events', signals')
  BY <1>2, <1>3, <1>8 DEF RecordsInv, Kept
<1>10. QED
  BY <1>2, <1>5, <1>6, <1>8, <1>9 DEF RecordsInv, ChangesTyped

LEMMA FailedSavePreserves ==
  ASSUME RecordsInv, NEW c \in Requests, RecordFails(c)
  PROVE  RecordsInv'
<1>1. /\ UNCHANGED <<now, changeOf, events, signals, audits, arrivals, acked>>
      /\ call' = [call EXCEPT ![c] = NoCall]
  BY DEF RecordFails, records, Reply
<1>2. Existing' = Existing
  BY <1>1 DEF Existing
<1>3. CallsAre(call', Existing)
  BY <1>1, IdleIsOK, CallChanged DEF RecordsInv
<1>4. QED
  BY <1>1, <1>2, <1>3 DEF RecordsInv, ChangesTyped

LEMMA TimePreserves ==
  ASSUME RecordsInv, Tick
  PROVE  RecordsInv'
<1>1. /\ UNCHANGED <<changeOf, events, signals, audits, call, arrivals, acked>>
      /\ now' = now + 1 /\ now < MaxTime
  BY DEF Tick, records
<1>2. Existing' = Existing
  BY <1>1 DEF Existing
<1>3. now' \in 0 .. MaxTime
  BY <1>1, OutcomesAssumption DEF RecordsInv, OutcomesAssumption
<1>4. QED
  BY <1>1, <1>2, <1>3 DEF RecordsInv, ChangesTyped

LEMMA StutterPreserves ==
  ASSUME RecordsInv, UNCHANGED outcomesVars
  PROVE  RecordsInv'
<1>1. UNCHANGED <<now, changeOf, events, signals, audits, call, arrivals, acked>>
  BY DEF outcomesVars
<1>2. Existing' = Existing
  BY <1>1 DEF Existing
<1>3. QED
  BY <1>1, <1>2 DEF RecordsInv, ChangesTyped

LEMMA OutcomesStep ==
  ASSUME RecordsInv, [OutcomesNext]_outcomesVars
  PROVE  RecordsInv'
BY CreatePreserves, ResubmitPreserves, GitLabPreserves, JenkinsPreserves, OperationsPreserves,
   RecordEventPreserves, RecordSignalPreserves, FailedSavePreserves, TimePreserves,
   StutterPreserves DEF OutcomesNext

LEMMA OutcomesStart ==
  ASSUME OutcomesInit
  PROVE  RecordsInv
<1>1. /\ now = Seed.now /\ changeOf = Seed.changes /\ audits = Seed.audits
      /\ events = <<>> /\ signals = <<>> /\ call = [c \in Requests |-> NoCall]
      /\ arrivals = 0 /\ acked = {}
  BY DEF OutcomesInit
<1>2. now \in 0 .. MaxTime /\ arrivals \in 0 .. MaxArrivals /\ ChangesTyped
  BY <1>1, OutcomesAssumption DEF OutcomesAssumption, ChangesTyped
<1>3. audits \in Seq(ToSet(Seed.audits))
  BY <1>1, OutcomesAssumption DEF OutcomesAssumption
<1>4. IsList(audits) /\ IsList(<<>>) /\ Len(<<>>) = 0 /\ 1 .. Len(<<>>) = {}
  <2>1. <<>> \in Seq({}) /\ Len(<<>>) = 0
    OBVIOUS
  <2>2. QED
    BY <1>3, <2>1 DEF IsList
<1>5. ASSUME NEW i \in 1 .. Len(audits)
      PROVE  audits[i].of[1] \notin {"event", "signal"} /\ InsideOf(audits[i], Existing)
  <2>1. PICK e : e = Seed.audits[i]
    OBVIOUS
  <2>2. /\ e.of[1] \notin {"event", "signal"}
        /\ e.change # Nil => /\ e.change \in Changes /\ Seed.changes[e.change] # Nil
                             /\ OrgOf[e.change] = e.org
    BY <1>1, <2>1, OutcomesAssumption DEF OutcomesAssumption
  <2>3. e = audits[i]
    BY <1>1, <2>1
  <2>4. InsideOf(e, Existing)
    BY <1>1, <2>2 DEF InsideOf, Existing
  <2>5. QED
    BY <2>2, <2>3, <2>4
<1>6. Marks(audits) = {} /\ Cardinality(Marks(audits)) = 0
  BY <1>5, FS_EmptySet DEF Marks
<1>7. Recorded(events, audits, "event") /\ Recorded(signals, audits, "signal")
  BY <1>1, <1>4, <1>5 DEF Recorded
<1>8. AllInside(events, Existing) /\ AllInside(signals, Existing) /\ AllInside(audits, Existing)
  BY <1>1, <1>4, <1>5 DEF AllInside
<1>9. Lists(events, signals, audits, Existing)
  BY <1>1, <1>4, <1>6, <1>7, <1>8 DEF Lists
<1>10. CallsAre(call, Existing)
  BY <1>1, IdleIsOK DEF CallsAre
<1>11. Kept(acked, events, signals)
  BY <1>1 DEF Kept
<1>12. QED
  BY <1>2, <1>9, <1>10, <1>11 DEF RecordsInv

AuditedAs(chain, org, of) == {j \in 1 .. Len(chain) : chain[j].org = org /\ chain[j].of = of}

\* The property in terms of the invariant.
LEMMA OneRecord ==
  ASSUME NEW list, NEW chain, NEW tag, Recorded(list, chain, tag), NEW m, HasRecord(list, m),
         NEW key, key = KeyOf(m)
  PROVE  /\ Cardinality(Keyed(list, m.org, key)) = 1
         /\ Cardinality(AuditedAs(chain, m.org, <<tag, key>>)) = 1
<1>1. PICK i \in 1 .. Len(list) : list[i].org = m.org /\ list[i].key = key
  BY DEF HasRecord
<1>2. Keyed(list, m.org, key) = {i}
  BY <1>1 DEF Keyed, Recorded
<1>3. PICK j \in 1 .. Len(chain) :
        chain[j].org = list[i].org /\ chain[j].of = <<tag, list[i].key>>
  BY DEF Recorded
<1>4. \A l \in 1 .. Len(chain) : chain[l].org = m.org /\ chain[l].of = <<tag, key>> => l = j
  <2> SUFFICES ASSUME NEW l \in 1 .. Len(chain), chain[l].org = m.org,
                      chain[l].of = <<tag, key>>
               PROVE  l = j
    OBVIOUS
  <2>1. chain[l].of[1] = tag /\ chain[l].org = chain[j].org /\ chain[l].of = chain[j].of
    BY <1>1, <1>3
  <2>2. QED
    BY <2>1 DEF Recorded
<1>5. AuditedAs(chain, m.org, <<tag, key>>) = {j}
  BY <1>1, <1>3, <1>4 DEF AuditedAs
<1>6. QED
  BY <1>2, <1>5, FS_Singleton

LEMMA RecordsInvSuffices ==
  ASSUME RecordsInv
  PROVE  RecordsHold
<1>1. OutcomesTypeOK
  BY DEF OutcomesTypeOK, RecordsInv, Lists, AllInside, InsideOf, CallsAre, CallOK
<1>2. ASSUME NEW m \in acked
      PROVE  LET pipeline == m \in Pipelines
                 key == IF ~pipeline THEN <<m.source, m.id>>
                        ELSE IF m.provider = "GITLAB" THEN ParseGitLab(m).key
                        ELSE ParseJenkins(m).key
             IN  /\ Cardinality(Keyed(IF pipeline THEN events ELSE signals, m.org, key)) = 1
                 /\ Cardinality(AuditsOf(m.org, <<IF pipeline THEN "event" ELSE "signal", key>>)) = 1
  <2> DEFINE key == IF m \notin Pipelines THEN <<m.source, m.id>>
                    ELSE IF m.provider = "GITLAB" THEN ParseGitLab(m).key
                    ELSE ParseJenkins(m).key
  <2>1. key = KeyOf(m)
    BY KeysAreParsed DEF KeyOf
  <2> HIDE DEF key
  <2>2. CASE m \in Pipelines
    <3>1. HasRecord(events, m) /\ Recorded(events, audits, "event")
      BY <2>2 DEF RecordsInv, Kept, Lists
    <3>2. /\ Cardinality(Keyed(events, m.org, key)) = 1
          /\ Cardinality(AuditedAs(audits, m.org, <<"event", key>>)) = 1
      BY <2>1, <3>1, OneRecord
    <3>3. QED
      BY <2>2, <3>2 DEF key, AuditsOf, AuditedAs
  <2>3. CASE m \notin Pipelines
    <3>1. HasRecord(signals, m) /\ Recorded(signals, audits, "signal")
      BY <2>3 DEF RecordsInv, Kept, Lists
    <3>2. /\ Cardinality(Keyed(signals, m.org, key)) = 1
          /\ Cardinality(AuditedAs(audits, m.org, <<"signal", key>>)) = 1
      BY <2>1, <3>1, OneRecord
    <3>3. QED
      BY <2>3, <3>2 DEF key, AuditsOf, AuditedAs
  <2>4. QED
    BY <2>2, <2>3
<1>3. Cardinality({i \in 1 .. Len(audits) : audits[i].of[1] \in {"event", "signal"}})
        = Len(events) + Len(signals)
  BY DEF RecordsInv, Lists, Marks
<1>4. AcknowledgedIsKept
  BY <1>2, <1>3 DEF AcknowledgedIsKept
<1>5. QED
  BY <1>1, <1>4 DEF RecordsHold

\* A message of a pipeline or an operations system that was answered "accepted" is
\* recorded once and audited once, under its own organisation, however often it
\* came, to however many handlers, with failed saves in between.
THEOREM RecordsAlwaysHold == OutcomesSpec => []RecordsHold
<1>1. OutcomesInit => RecordsInv
  BY OutcomesStart
<1>2. RecordsInv /\ [OutcomesNext]_outcomesVars => RecordsInv'
  BY OutcomesStep
<1>3. RecordsInv => RecordsHold
  BY RecordsInvSuffices
<1>4. QED
  BY <1>1, <1>2, <1>3, PTL DEF OutcomesSpec
=============================================================================
