---------------------------- MODULE MCFileStore ----------------------------
\* FileStore for TLC: two of the three originals have one redacted body.
EXTENDS FileStore, TLC

CONSTANTS o1, o2, o3, b1, b2, c1, c2

RedactTwo == (o1 :> b1) @@ (o2 :> b1) @@ (o3 :> b2)
\* One change from before there were digests.
OneLegacy ==
  {(c1 :> [body |-> b1, digest |-> Missing, rev |-> 0]) @@ (c2 :> Absent)}
=============================================================================
