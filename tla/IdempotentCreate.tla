--------------------------- MODULE IdempotentCreate ---------------------------
(***************************************************************************)
(* CreateIdempotent: the requests that carry one Idempotency-Key, the      *)
(* persisted record that claims the key, and the changes created under it  *)
(* (internal/service/idempotency.go, internal/store/idempotency.go).       *)
(*                                                                         *)
(* Every action is one call of the store, which runs under Store.mu and is *)
(* saved before the lock is released.  A request waits by asking again; an *)
(* answer that it should wait is no step.  The claim token is the request  *)
(* that drew it.  "fresh" is UpdatedAt within the recovery grace.          *)
(***************************************************************************)
EXTENDS Naturals, Sequences, FiniteSets

CONSTANTS
  Calls,        \* requests; a client repeats its request when it fails
  Bodies,       \* digests of request bodies
  body,         \* the digest every request carries
  MaxErrors,    \* bound: saves that fail and are rolled back, refused inputs
  MaxLostAcks,  \* bound: creations that are stored but reported as failed
  MaxCrashes,   \* bound: stops of the process
  MaxSlow,      \* bound: store calls or creations that outlast the grace
  None

ASSUME IdempotencyAssumption ==
  /\ body \in [Calls -> Bodies]
  /\ {MaxErrors, MaxLostAcks, MaxCrashes, MaxSlow} \subseteq Nat
  /\ None \notin Calls \cup Bodies

VARIABLES
  record,   \* the IdempotencyRecord of the key
  changes,  \* the changes whose RequestKey is the key, as the bodies they were made of
  calls,    \* requests in flight
  answers,  \* history: <<body, change>> of every request that was answered
  spent     \* the bounds used up

vars == <<record, changes, calls, answers, spent>>

NoRecord == [status |-> "NONE", body |-> None, gen |-> 0, owner |-> None,
             result |-> 0, fresh |-> FALSE]

\* "gen" is the generation claimed or observed, "result" the change created or
\* found: changes are numbered by their place in "changes".
Gone == [pc |-> "gone", gen |-> 0, result |-> 0]

Init ==
  /\ record = NoRecord
  /\ changes = << >>
  /\ calls = [c \in Calls |-> Gone]
  /\ answers = {}
  /\ spent = [errors |-> 0, acks |-> 0, crashes |-> 0, slow |-> 0]

At(c, pc) == calls[c].pc = pc
Become(c, call) == calls' = [calls EXCEPT ![c] = call]
Goto(c, pc) == Become(c, [calls[c] EXCEPT !.pc = pc])
Spend(what, bound) == spent[what] < bound /\ spent' = [spent EXCEPT ![what] = @ + 1]

\* A request ends: with an answer, or with an error its client may retry.
Answer(c, change) == Become(c, Gone) /\ answers' = answers \cup {<<body[c], change>>}
Refuse(c) == Become(c, Gone) /\ UNCHANGED answers

-----------------------------------------------------------------------------
Start(c) ==
  /\ At(c, "gone")
  /\ Goto(c, "claim")
  /\ UNCHANGED <<record, changes, answers, spent>>

\* The key is free: the request claims it.
Claim(c) ==
  /\ At(c, "claim")
  /\ record.status = "NONE"
  /\ record' = [NoRecord EXCEPT !.status = "PENDING", !.body = body[c], !.gen = 1,
                                !.owner = c, !.fresh = TRUE]
  /\ Become(c, [Gone EXCEPT !.pc = "execute", !.gen = 1])
  /\ UNCHANGED <<changes, answers, spent>>

\* Mutant: the body is not compared with that of a request that has succeeded.
TakenAnyBody(c) ==
  /\ At(c, "claim")
  /\ \/ record.status = "SUCCEEDED" /\ Answer(c, record.result)
     \/ record.status = "PENDING" /\ Refuse(c)
  /\ UNCHANGED <<record, changes, spent>>

\* The key is taken: by another body, by a request that has succeeded, by one that
\* is believed to run (the caller gives up), or by one that is believed to be lost.
Taken(c) ==
  /\ At(c, "claim")
  /\ \/ record.status # "NONE" /\ record.body # body[c] /\ Refuse(c)
     \/ record.status = "SUCCEEDED" /\ record.body = body[c] /\ Answer(c, record.result)
     \/ record.status = "PENDING" /\ record.body = body[c] /\ record.fresh /\ Refuse(c)
     \/ /\ record.status = "PENDING" /\ record.body = body[c] /\ ~record.fresh
        /\ Become(c, [Gone EXCEPT !.pc = "reconcile", !.gen = record.gen])
        /\ UNCHANGED answers
  /\ UNCHANGED <<record, changes, spent>>

\* Mutant: nothing is reconciled.
ReconcileNothing(c) ==
  /\ At(c, "reconcile")
  /\ Refuse(c)
  /\ UNCHANGED <<record, changes, spent>>

\* The reconcile closure looks for the newest change with the key, whatever its body.
Reconcile(c) ==
  /\ At(c, "reconcile")
  /\ \/ changes # << >> /\ Become(c, [calls[c] EXCEPT !.pc = "takeover", !.result = Len(changes)])
                        /\ UNCHANGED answers
     \/ changes = << >> /\ (Refuse(c) \/ (Goto(c, "claim") /\ UNCHANGED answers))
  /\ UNCHANGED <<record, changes, spent>>

MatchesTakeover(c) ==
  record.status = "PENDING" /\ record.body = body[c] /\ record.gen = calls[c].gen

TakeoverIdempotency(c) ==
  /\ At(c, "takeover")
  /\ IF MatchesTakeover(c)
     THEN /\ record' = [record EXCEPT !.gen = @ + 1, !.owner = c, !.fresh = TRUE]
          /\ Become(c, [calls[c] EXCEPT !.pc = "finish", !.gen = @ + 1])
          /\ UNCHANGED answers
     ELSE /\ Refuse(c) \/ (record.body = body[c] /\ Goto(c, "claim") /\ UNCHANGED answers)
          /\ UNCHANGED record
  /\ UNCHANGED <<changes, spent>>

\* create stores the change, with the key on it.
Execute(c) ==
  /\ At(c, "execute")
  /\ changes' = Append(changes, body[c])
  /\ Become(c, [calls[c] EXCEPT !.pc = "complete", !.result = Len(changes')])
  /\ UNCHANGED <<record, answers, spent>>

\* The input is refused, or the change cannot be saved.
ExecuteFails(c) ==
  /\ At(c, "execute")
  /\ Goto(c, "abort")
  /\ Spend("errors", MaxErrors)
  /\ UNCHANGED <<record, changes, answers>>

\* A PostgreSQL commit whose acknowledgement is lost is an error to the caller.
ExecuteUnacknowledged(c) ==
  /\ At(c, "execute")
  /\ changes' = Append(changes, body[c])
  /\ Goto(c, "abort")
  /\ Spend("acks", MaxLostAcks)
  /\ UNCHANGED <<record, answers>>

\* matchingIdempotencyClaim
Matches(c) ==
  /\ record.status = "PENDING" /\ record.body = body[c]
  /\ record.gen = calls[c].gen /\ record.owner = c

\* The error of the abort is not looked at.
AbortIdempotency(c) ==
  /\ At(c, "abort")
  /\ record' = IF Matches(c) THEN NoRecord ELSE record
  /\ Refuse(c)
  /\ UNCHANGED <<changes, spent>>

Succeed(c) ==
  /\ record' = [record EXCEPT !.status = "SUCCEEDED", !.result = calls[c].result]
  /\ Answer(c, calls[c].result)

\* Mutant: a failed save of the result gives the key back.
CompleteOrRelease(c) ==
  /\ calls[c].pc \in {"complete", "finish"}
  /\ IF Matches(c) THEN Succeed(c) \/ (record' = NoRecord /\ Refuse(c))
                   ELSE Refuse(c) /\ UNCHANGED record
  /\ UNCHANGED <<changes, spent>>

\* By the executor, or by the request that took its claim over.  A result stored
\* by another request never compares equal: the executor's response reference is
\* that of the key's scope, a reconciler's that of the change.
CompleteIdempotency(c) ==
  /\ calls[c].pc \in {"complete", "finish"}
  /\ IF Matches(c) THEN Succeed(c) ELSE Refuse(c) /\ UNCHANGED record
  /\ UNCHANGED <<changes, spent>>

\* A record cannot be saved: the store rolls it back and the request ends.
SaveFails(c) ==
  /\ calls[c].pc \in {"claim", "takeover", "abort", "complete", "finish"}
  /\ Refuse(c)
  /\ Spend("errors", MaxErrors)
  /\ UNCHANGED <<record, changes>>

-----------------------------------------------------------------------------
\* Somebody in flight has the claim.
Held == \E c \in Calls : calls[c].pc \in {"execute", "abort", "complete", "finish"} /\ Matches(c)

GraceOver ==
  /\ record.status = "PENDING" /\ record.fresh
  /\ record' = [record EXCEPT !.fresh = FALSE]
  /\ UNCHANGED <<changes, calls, answers>>

\* The grace ends because its request is lost, or because it is slow.
GraceEnds == GraceOver /\ ~Held /\ UNCHANGED spent
GraceEndsEarly == GraceOver /\ Held /\ Spend("slow", MaxSlow)

Crash ==
  /\ calls' = [c \in Calls |-> Gone]
  /\ Spend("crashes", MaxCrashes)
  /\ UNCHANGED <<record, changes, answers>>

Step(c) ==
  \/ Claim(c)
  \/ Taken(c)
  \/ Reconcile(c)
  \/ TakeoverIdempotency(c)
  \/ Execute(c)
  \/ AbortIdempotency(c)
  \/ CompleteIdempotency(c)

Next ==
  \/ \E c \in Calls : \/ Start(c) \/ Step(c)
                      \/ ExecuteFails(c) \/ ExecuteUnacknowledged(c) \/ SaveFails(c)
  \/ GraceEnds
  \/ GraceEndsEarly
  \/ Crash

Spec == Init /\ [][Next]_vars

\* Clients retry, handlers run, time passes.  Failures owe nothing.
Fairness ==
  /\ \A c \in Calls : WF_vars(Start(c)) /\ WF_vars(Step(c))
  /\ WF_vars(GraceEnds)

FairSpec == Spec /\ Fairness

-----------------------------------------------------------------------------
(* Properties. *)

RecordRec ==
  [status : {"NONE", "PENDING", "SUCCEEDED"}, body : Bodies \cup {None}, gen : Nat,
   owner : Calls \cup {None}, result : Nat, fresh : BOOLEAN]

CallRec ==
  [pc : {"gone", "claim", "reconcile", "takeover", "execute", "abort", "complete", "finish"},
   gen : Nat, result : Nat]

\* The record and what a request in flight carries; a record in use names its body
\* and its claim.
TypeOK ==
  /\ record \in RecordRec
  /\ record.status # "NONE" => record.body \in Bodies /\ record.owner \in Calls
  /\ changes \in Seq(Bodies)
  /\ calls \in [Calls -> CallRec]
  /\ answers \subseteq Bodies \X Nat
  /\ spent \in [{"errors", "acks", "crashes", "slow"} -> Nat]

\* service/idempotency.go: repeated clicks, concurrent arrival, retries after a
\* timeout and after a restart never make a second change.
OneChangePerKey == Len(changes) <= 1

\* Every request that is answered, first or replayed, is answered with the one
\* change of the key, and that was made of the body the request carries: neither a
\* late executor nor a reconciler answers with somebody else's change.
AnswersAgree ==
  \A a \in answers : a[2] = 1 /\ changes # << >> /\ a[1] = changes[1]

\* Why: while a request executes, the key is its own and no change exists; once a
\* change exists the record is of its body and is never given back.
ClaimInv ==
  /\ \A c \in Calls : calls[c].pc \in {"execute", "abort"} => Matches(c) /\ changes = << >>
  /\ \A c \in Calls : calls[c].pc \in {"complete", "finish"} =>
       changes # << >> /\ calls[c].result = 1 /\ record.body = body[c]
  /\ \A c \in Calls : calls[c].pc = "takeover" => changes # << >> /\ calls[c].result = 1
  /\ changes # << >> => record.status # "NONE" /\ changes[1] = record.body
  /\ record.status = "SUCCEEDED" => changes # << >> /\ record.result = 1

\* What holds until the acknowledgement of a creation that was stored is lost.
Acknowledged == spent.acks = 0

\* Concurrent requests, retries, takeovers, failures and crashes make one change.
CreatedOnce == Acknowledged => OneChangePerKey

\* And they are all answered with it.
SameAnswers == Acknowledged => AnswersAgree

\* Claims exclude each other: nobody executes beside the owner, or after it.
ClaimsHold == Acknowledged => ClaimInv

\* A stored change is handed to the client that keeps asking, whatever was lost
\* between storing it and completing the record.
StoredIsReplayed == changes # << >> ~> record.status = "SUCCEEDED"
=============================================================================
