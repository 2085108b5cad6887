--------------------------- MODULE MCChangeWorkflow ---------------------------
(* Instances of ChangeWorkflow for TLC. *)
EXTENDS ChangeWorkflow, TLC

\* A check passes quietly, or blocks with high risk.
PassOrBlock == {[blocking |-> FALSE, high |-> FALSE], [blocking |-> TRUE, high |-> TRUE]}
PassOnly == {[blocking |-> FALSE, high |-> FALSE]}

Symmetry == Permutations(Calls) \cup Permutations(PassportIds) \cup Permutations(Jobs)
=============================================================================
