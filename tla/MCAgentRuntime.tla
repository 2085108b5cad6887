--------------------------- MODULE MCAgentRuntime ---------------------------
(* Instances of AgentRuntime for TLC. *)
EXTENDS AgentRuntime, TLC

CONSTANTS a1, a2, a3, u1, u2, o1

\* Two analyses of one submitter, a third of a colleague.
SameUser == [a \in Analyses |-> IF a = a3 THEN u2 ELSE u1]
SameOrg == [a \in Analyses |-> o1]

\* A blocked change with SQL and suspicious text, and one without any finding.
TwoChanges ==
  {[blocking |-> TRUE, risk |-> "HIGH", known |-> {"finding"}, failed |-> FALSE,
    sql |-> TRUE, injected |-> FALSE],
   [blocking |-> FALSE, risk |-> "LOW", known |-> {}, failed |-> FALSE,
    sql |-> TRUE, injected |-> TRUE]}

\* An unusable answer, and verdicts that cite what is known, what only a tool
\* can have shown, what nobody has seen, or nothing.
SomeVerdicts ==
  {[valid |-> FALSE, risk |-> "LOW", cites |-> {}]} \cup
  {[valid |-> TRUE, risk |-> "LOW", cites |-> ids] :
     ids \in {{}, {"finding"}, {"scan"}, {"finding", "invented"}}}

TwoSettings == {[mode |-> "loop", backend |-> "memory", threshold |-> 1],
                [mode |-> "oneshot", backend |-> "redis", threshold |-> 2]}
=============================================================================
