---------------------------- MODULE MCAgentTasks ----------------------------
(* Instances of AgentTasks for TLC. *)
EXTENDS AgentTasks, TLC

\* Requests and contents of drafts are only compared.
TaskSymmetry == Permutations(Calls) \cup Permutations(Materials)
=============================================================================
