--------------------------- MODULE MCSharedState ---------------------------
(* Symmetry of interchangeable identifiers for TLC. *)
EXTENDS SharedState, TLC

Symmetry == Permutations(Instances) \cup Permutations(Passports) \cup Permutations(Consumers)
=============================================================================
