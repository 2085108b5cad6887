----------------------------- MODULE OneTimePass -----------------------------
(***************************************************************************)
(* What docs/adr/0001-idempotent-passport-consume.md promises of the       *)
(* passports of one change, whatever the workflow around them does: at     *)
(* most one pass can be used at any time, a pass is used at most once, by  *)
(* one holder, a withdrawn pass never comes back, and the list of uses     *)
(* only grows.  A use answered again to the same holder changes nothing,   *)
(* so it is a stuttering step.                                             *)
(***************************************************************************)
EXTENDS Naturals, Sequences

CONSTANTS PassportIds, Consumers, None

VARIABLES
  state,   \* "unissued", "usable", "used" or "void", for every pass
  holder,  \* who used it
  uses     \* the passes used, in order

passVars == <<state, holder, uses>>

Init ==
  /\ state = [p \in PassportIds |-> "unissued"]
  /\ holder = [p \in PassportIds |-> None]
  /\ uses = << >>

\* A pass left over from before is withdrawn when a new one is handed out.
Issue(p) ==
  /\ state[p] = "unissued"
  /\ state' = [q \in PassportIds |-> IF q = p THEN "usable"
                                     ELSE IF state[q] = "usable" THEN "void"
                                     ELSE state[q]]
  /\ UNCHANGED <<holder, uses>>

Use(p, k) ==
  /\ state[p] = "usable"
  /\ state' = [state EXCEPT ![p] = "used"]
  /\ holder' = [holder EXCEPT ![p] = k]
  /\ uses' = Append(uses, p)

\* Revocation, or the end of its lifetime.
Withdraw(p) ==
  /\ state[p] = "usable"
  /\ state' = [state EXCEPT ![p] = "void"]
  /\ UNCHANGED <<holder, uses>>

Next ==
  \E p \in PassportIds :
    \/ Issue(p)
    \/ \E k \in Consumers : Use(p, k)
    \/ Withdraw(p)

Spec == Init /\ [][Next]_passVars
=============================================================================
