--------------------------- MODULE MCAgentGateway ---------------------------
(* Instances of AgentGateway for TLC. *)
EXTENDS AgentGateway

CONSTANTS q1, q2, q3, p1

\* All requests come from one principal, so that they compete for its tokens.
OneCaller == [r \in Requests |-> p1]
\* One operation each.
Mixed == [r \in Requests |-> IF r = q2 THEN "submit-check" ELSE "agent-ask"]
=============================================================================
