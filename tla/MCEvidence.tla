------------------------------ MODULE MCEvidence ------------------------------
(* Instances of Outcomes and EvidenceBundle for TLC. *)
EXTENDS EvidenceBundle

CONSTANTS o1, o2, k1, k2

CallSymmetry == Permutations(Requests)

\* Changes 1 and 2 are o1's, change 3 is o2's; change 2 is made later.
Owners == [c \in Changes |-> IF c = 3 THEN o2 ELSE o1]

Legacy(org, n, c) ==
  [org |-> org, of |-> <<"legacy", n>>, change |-> c, prev |-> NoHash, hash |-> NoHash]

\* Each organisation has a change that an older release left without hashes, o1 with
\* two events.
Start ==
  [now |-> 2,
   changes |-> [c \in Changes |-> IF c = 2 THEN Nil
                                  ELSE [commit |-> k1, created |-> 0, version |-> 1]],
   audits |-> <<Legacy(o1, 1, Nil), Legacy(o2, 1, 3), Legacy(o1, 2, 1)>>]

Pipeline(provider, org, id, build, c, commit, status, occurred, sent) ==
  [auth |-> TRUE, provider |-> provider, org |-> org, id |-> id, build |-> build, change |-> c,
   commit |-> commit, status |-> status, occurred |-> occurred, sent |-> sent]

\* A deployment of change 1 fails and is done again; the other organisation's CI
\* names change 1 by mistake; a Jenkins build tells its status without an identity,
\* a time or a change, only with its commit.
SomePipelines ==
  {Pipeline("GITLAB", o1, 1, 1, 1, Nil, "FAILED", 0, 2),
   Pipeline("GITLAB", o1, 2, 2, 1, Nil, "SUCCESS", 1, 1),
   Pipeline("GITLAB", o2, 1, 1, 1, k1, "SUCCESS", 1, Nil),
   Pipeline("JENKINS", o1, Nil, 3, Nil, k2, "UNSTABLE", Nil, Nil)}

NoSLI == [lower |-> FALSE, base |-> 0, seen |-> 0, objective |-> Nil, tolerance |-> 0]

Signal(source, id, kind, status, c, entity, occurred) ==
  [auth |-> TRUE, org |-> o1, source |-> source, id |-> id, kind |-> kind, status |-> status,
   change |-> c, entity |-> entity, occurred |-> occurred,
   sli |-> NoSLI, baseline |-> <<0, 1>>, observation |-> <<1, 2>>]

\* An incident opens, is resolved and opens again; a rollback is said to have failed
\* and to have succeeded at the same time; a metric where less is better gets worse;
\* the windows of another comparison overlap.
SomeSignals ==
  {Signal("ITSM", 1, "INCIDENT", "OPEN", 1, "inc", 0),
   Signal("ITSM", 2, "INCIDENT", "RESOLVED", 1, "inc", 1),
   Signal("ITSM", 3, "INCIDENT", "TRIGGERED", 1, "inc", 2),
   Signal("CD", 2, "ROLLBACK", "FAILED", 1, "op", 2),
   Signal("CD", 3, "ROLLBACK", "SUCCEEDED", 1, "op", 2),
   [Signal("SLO", 1, "BUSINESS_SLI", "OBSERVED", 1, "p99", 2) EXCEPT
      !.sli = [lower |-> TRUE, base |-> 1, seen |-> 3, objective |-> 3, tolerance |-> 1]],
   [Signal("SLO", 2, "BUSINESS_SLI", "OBSERVED", 1, "p99", 2) EXCEPT !.baseline = <<0, 2>>]}
=============================================================================
