---------------------------- MODULE MCEnterprise ----------------------------
(* Instances of Enterprise for TLC. *)
EXTENDS Enterprise, TLC

CONSTANTS u1, u2, u3, u4, u5, o1, o2, o3, i1, i2, i3, p1, p2, p3, p4, e1, e2, e3, e4, d1, s1, s3,
          t1, t2, t3, n1, n2

OneDomain == [e \in Emails |-> d1]

\* The platform may give s3 the address of a member of the other organisation,
\* and the address of s3 to s1.
Addresses == [s \in Subjects |-> IF s = s3 THEN {e3, e1} ELSE {e4, e3}]

Member(o, e, sub) == [NewUser(o, e, TRUE, sub = None, sub) EXCEPT !.active = TRUE]

\* Two organisations: two administrators with passwords, one with SSO; each is
\* signed in.  An invitation is open, two applications do not depend on each other.
TwoOrgs ==
  [users |-> [u \in Users |-> CASE u = u1 -> Member(o1, e1, None)
                                [] u = u2 -> Member(o1, e2, None)
                                [] u = u3 -> Member(o2, e3, s3)
                                [] OTHER -> None],
   orgs |-> [o \in Orgs |-> IF o = o3 THEN None ELSE
              [domains |-> {d1}, join |-> FALSE, sso |-> FALSE, controlled |-> TRUE]],
   invites |-> [i \in Invites |->
              CASE i = i1 -> [org |-> o1, email |-> e4, status |-> "pending", until |-> 1,
                              by |-> None, hash |-> TRUE]
                [] i = i2 -> [org |-> o1, email |-> e2, status |-> "accepted", until |-> 1,
                              by |-> u2, hash |-> TRUE]
                [] OTHER -> None],
   apps |-> [a \in Apps |-> CASE a = p1 -> [org |-> o1, name |-> n1, deps |-> {}]
                              [] a = p2 -> [org |-> o1, name |-> n2, deps |-> {}]
                              [] a = p3 -> [org |-> o2, name |-> n1, deps |-> {}]
                              [] OTHER -> None],
   joined |-> [u \in Users |-> CASE u \in {u1, u3} -> "founder"
                                 [] u = u2 -> i2
                                 [] OTHER -> None],
   sessions |-> [t \in Tokens |-> CASE t = t1 -> [user |-> u1, until |-> 1]
                                    [] t = t2 -> [user |-> u2, until |-> 0]
                                    [] t = t3 -> [user |-> u3, until |-> 1]
                                    [] OTHER -> None]]

SomeApps == {{}, {p1}, {p2}, {p3}}
=============================================================================
