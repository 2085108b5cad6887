------------------------------ MODULE Accounts ------------------------------
(***************************************************************************)
(* The enterprise tables of internal/store: organisations, members with    *)
(* their credentials, invitations, applications and application grants.    *)
(* Each action below is what a method of Store does between taking the     *)
(* store's lock and its save; the May operators are the checks it makes    *)
(* under that lock, and where they fail it returns ErrConflict or          *)
(* ErrNotFound and changes nothing.                                        *)
(*                                                                         *)
(* A slug is the organisation's identity, an id is taken fresh; names,     *)
(* roles, timestamps of records and audit events are left out.             *)
(***************************************************************************)
EXTENDS Naturals, FiniteSets

CONSTANTS
  Users, Orgs, Invites, Apps,
  Emails, Subjects, Domains,
  DomainOf,      \* the domain of an e-mail address
  AppNames,
  None

ASSUME AccountsAssumption ==
  /\ DomainOf \in [Emails -> Domains]
  /\ None \notin Users \cup Subjects
  /\ {"founder", "domain", None} \cap Invites = {}

\* The records of the tables.
User == [org : Orgs, email : Emails, admin : BOOLEAN, active : BOOLEAN, pwd : BOOLEAN,
         sub : Subjects \cup {None}]
Organization == [domains : SUBSET Domains, join : BOOLEAN, sso : BOOLEAN, controlled : BOOLEAN]
Invitation == [org : Orgs, email : Emails, status : {"pending", "accepted", "revoked"},
               until : Nat, by : Users \cup {None}, hash : BOOLEAN]
Application == [org : Orgs, name : AppNames, deps : SUBSET Apps]

ASSUME NoneIsNoRecord ==
  None \notin User \cup Organization \cup Invitation \cup Application

VARIABLES
  now,
  users,   \* User or None, by id; the other tables likewise
  orgs,
  invites,
  apps,
  grants,  \* pairs of a user and an application
  joined,  \* history: how each user came in
  renamed  \* history: users whose address the identity platform changed

tables == <<users, orgs, invites, apps, grants, joined, renamed>>

Existing(table) == {x \in DOMAIN table : table[x] # None}

\* The records that exist; "new" ids are unused ones.
Members == Existing(users)
Fresh(table) == CHOOSE x \in DOMAIN table : table[x] = None
HasRoom(table) == Existing(table) # DOMAIN table

MembersOf(o) == {u \in Members : users[u].org = o}
Admins(o) == {u \in MembersOf(o) : users[u].active /\ users[u].admin}

\* UserByEmail and every other comparison of addresses (they are lower-cased).
WithEmail(e) == {u \in Members : users[u].email = e}

\* An invitation that may still be used.
IsOpen(i) == invites[i] # None /\ invites[i].status = "pending" /\ now < invites[i].until

Accepted(i, u) == [invites EXCEPT ![i].status = "accepted", ![i].by = u]

NewUser(o, e, admin, pwd, sub) ==
  [org |-> o, email |-> e, admin |-> admin, active |-> TRUE, pwd |-> pwd, sub |-> sub]

-----------------------------------------------------------------------------
(* Organisations and members *)

\* CreateEnterprise refuses a slug or an address in use.
MayCreateEnterprise(o, e) == orgs[o] = None /\ WithEmail(e) = {}

\* CreateEnterprise: the organisation, its founder and the founder's credential.
CreateEnterprise(o, u, e) ==
  /\ MayCreateEnterprise(o, e)
  /\ orgs' = [orgs EXCEPT ![o] = [domains |-> {DomainOf[e]}, join |-> FALSE,
                                  sso |-> FALSE, controlled |-> FALSE]]
  /\ users' = [users EXCEPT ![u] = NewUser(o, e, TRUE, TRUE, None)]
  /\ joined' = [joined EXCEPT ![u] = "founder"]
  /\ UNCHANGED <<invites, apps, grants, renamed>>

\* DomainClaimedByOther: another organisation lets addresses of d join.
ClaimedByOther(o, d) ==
  \E p \in Existing(orgs) \ {o} : orgs[p].join /\ d \in orgs[p].domains

\* HasActiveSSOAdmin: an active administrator has signed in with SSO.
HasActiveSSOAdmin(o) == \E u \in Admins(o) : users[u].sub # None

\* Mutant of MayUpdateOrganization: relies on the handler's look at the domains.
MayUpdateOrganizationUnchecked(o, domains, join) == orgs[o] # None

\* UpdateOrganization looks at the domains again under the lock.
MayUpdateOrganization(o, domains, join) ==
  orgs[o] # None /\ (join => \A d \in domains : ~ClaimedByOther(o, d))

UpdateOrganization(o, domains, join, sso) ==
  /\ MayUpdateOrganization(o, domains, join)
  /\ orgs' = [orgs EXCEPT ![o].domains = domains, ![o].join = join, ![o].sso = sso]
  /\ UNCHANGED <<users, invites, apps, grants, joined, renamed>>

\* Grants must be for applications of the organisation.
MayUpdateMember(o, m, granted) ==
  m \in MembersOf(o) /\ \A a \in granted : apps[a] # None /\ apps[a].org = o

\* UpdateMember replaces the member's grants and switches access control on.
UpdateMember(o, m, active, admin, granted) ==
  /\ MayUpdateMember(o, m, granted)
  /\ users' = [users EXCEPT ![m].active = active, ![m].admin = admin]
  /\ grants' = {g \in grants : g[1] # m} \cup ({m} \X granted)
  /\ orgs' = [orgs EXCEPT ![o].controlled = TRUE]
  /\ UNCHANGED <<invites, apps, joined, renamed>>

-----------------------------------------------------------------------------
(* Invitations *)

\* CreateInvite refuses a second open invitation of the address.
MayCreateInvite(o, e) ==
  ~\E i \in Invites : IsOpen(i) /\ invites[i].org = o /\ invites[i].email = e

CreateInvite(o, i, e, until) ==
  /\ MayCreateInvite(o, e)
  /\ invites' = [invites EXCEPT ![i] =
       [org |-> o, email |-> e, status |-> "pending", until |-> until,
        by |-> None, hash |-> TRUE]]
  /\ UNCHANGED <<users, orgs, apps, grants, joined, renamed>>

MayRevokeInvite(o, i) ==
  invites[i] # None /\ invites[i].org = o /\ invites[i].status = "pending"

RevokeInvite(o, i) ==
  /\ MayRevokeInvite(o, i)
  /\ invites' = [invites EXCEPT ![i].status = "revoked"]
  /\ UNCHANGED <<users, orgs, apps, grants, joined, renamed>>

\* Mutant of MayAcceptInvite: relies on the handler's look at the invitation.
MayAcceptInviteUnchecked(i, e) == WithEmail(e) = {}

\* AcceptInvite: the address is still free and the invitation still pending.
MayAcceptInvite(i, e) ==
  /\ WithEmail(e) = {}
  /\ invites[i].status = "pending" /\ now <= invites[i].until /\ invites[i].email = e

AcceptInvite(i, u, e) ==
  /\ MayAcceptInvite(i, e)
  /\ invites' = Accepted(i, u)
  /\ users' = [users EXCEPT ![u] = NewUser(invites[i].org, e, FALSE, TRUE, None)]
  /\ joined' = [joined EXCEPT ![u] = i]
  /\ UNCHANGED <<orgs, apps, grants, renamed>>

-----------------------------------------------------------------------------
(* UpsertSSOUser: the identity platform vouches for subject s and address e *)

WithSubject(s) == {u \in Members : users[u].sub = s}

\* The member meant is the one with the subject, else one with the address.
Known(s, e) == IF WithSubject(s) # {} THEN WithSubject(s) ELSE WithEmail(e)

\* updateExisting refuses an inactive member and one bound to another subject.
MaySignIn(u, s) == users[u].active /\ users[u].sub \in {None, s}

\* The member takes the subject, and the address as the platform has it now;
\* whether another member has that address is not asked.
SignInExisting(u, s, e) ==
  /\ u \in Known(s, e) /\ MaySignIn(u, s)
  /\ users' = [users EXCEPT ![u].sub = s, ![u].email = e]
  /\ renamed' = IF users[u].email = e THEN renamed ELSE renamed \cup {u}
  /\ UNCHANGED <<orgs, invites, apps, grants, joined>>

\* A stranger: an open invitation, else an organisation that lets the domain join.
InvitesFor(e) == {i \in Invites : IsOpen(i) /\ invites[i].email = e}
OrgsFor(e) == {o \in Existing(orgs) : orgs[o].join /\ DomainOf[e] \in orgs[o].domains}

SignInByInvite(i, u, s, e) ==
  /\ Known(s, e) = {} /\ i \in InvitesFor(e)
  /\ invites' = Accepted(i, u)
  /\ users' = [users EXCEPT ![u] = NewUser(invites[i].org, e, FALSE, FALSE, s)]
  /\ joined' = [joined EXCEPT ![u] = i]
  /\ UNCHANGED <<orgs, apps, grants, renamed>>

SignInByDomain(o, u, s, e) ==
  /\ Known(s, e) = {} /\ InvitesFor(e) = {} /\ o \in OrgsFor(e)
  /\ users' = [users EXCEPT ![u] = NewUser(o, e, FALSE, FALSE, s)]
  /\ joined' = [joined EXCEPT ![u] = "domain"]
  /\ UNCHANGED <<orgs, invites, apps, grants, renamed>>

MayUpsertSSOUser(s, e) ==
  IF Known(s, e) # {} THEN \E u \in Known(s, e) : MaySignIn(u, s)
  ELSE InvitesFor(e) # {} \/ OrgsFor(e) # {}

-----------------------------------------------------------------------------
(* Applications *)

DependenciesWith(a, deps) ==
  [x \in Apps |-> IF x = a THEN deps ELSE IF apps[x] = None THEN {} ELSE apps[x].deps]

\* hasCycle: a walk along dependencies from a that goes on for ever.
LeadsToCycle(graph, a) ==
  \E walk \in SUBSET Apps : a \in walk /\ \A x \in walk : graph[x] \cap walk # {}

\* validateApplicationDependencies: known applications of the organisation, not
\* the application itself, and no cycle through them.
ValidDependencies(o, a, deps) ==
  /\ a \notin deps
  /\ \A d \in deps : apps[d] # None /\ apps[d].org = o
  /\ apps[a] # None => ~LeadsToCycle(DependenciesWith(a, deps), a)

\* CreateApplication and UpdateApplication refuse a name (or a database schema)
\* that another application of the organisation has.
MaySaveApplication(o, a, name) ==
  /\ apps[a] # None => apps[a].org = o
  /\ \A b \in Existing(apps) \ {a} : apps[b].org = o => apps[b].name # name

\* The first also switches access control on.
SaveApplication(o, a, name, deps) ==
  /\ MaySaveApplication(o, a, name)
  /\ apps' = [apps EXCEPT ![a] = [org |-> o, name |-> name, deps |-> deps]]
  /\ orgs' = IF apps[a] = None THEN [orgs EXCEPT ![o].controlled = TRUE] ELSE orgs
  /\ UNCHANGED <<users, invites, grants, joined, renamed>>
=============================================================================
