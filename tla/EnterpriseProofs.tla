-------------------------- MODULE EnterpriseProofs --------------------------
(***************************************************************************)
(* Proofs about Enterprise, for any organisations, members, applications,  *)
(* requests in flight, limits and clocks.                                  *)
(***************************************************************************)
EXTENDS Enterprise, FiniteSetTheorems, TLAPS

-----------------------------------------------------------------------------
(* The tables. *)

\* The part of TypeOK and of KeysHold that is about the tables alone.
TablesHold ==
  /\ users \in [Users -> User \cup {None}]
  /\ orgs \in [Orgs -> Organization \cup {None}]
  /\ invites \in [Invites -> Invitation \cup {None}]
  /\ apps \in [Apps -> Application \cup {None}]
  /\ grants \subseteq Users \X Apps /\ renamed \subseteq Users
  /\ joined \in [Users -> Invites \cup {"founder", "domain", None}]
  /\ \A u \in Members : users[u].org \in Existing(orgs)
  /\ \A i \in Existing(invites) : invites[i].org \in Existing(orgs)
  /\ \A a \in Existing(apps) :
       apps[a].org \in Existing(orgs) /\ Inside(apps[a].org, apps[a].deps)
  /\ EmailsUnique /\ SubjectsUnique /\ DomainsDisjoint /\ GrantsInside /\ ApplicationsDistinct

\* What a method of the store does to the other records: none is lost, and members
\* and applications stay in their organisation.
Grown ==
  /\ \A u \in Members : u \in Members' /\ users'[u].org = users[u].org
  /\ \A o \in Existing(orgs) : o \in Existing(orgs')
  /\ \A i \in Existing(invites) : i \in Existing(invites')
  /\ \A a \in Existing(apps) : a \in Existing(apps') /\ apps'[a].org = apps[a].org

\* What is final about how a member came in.
JoinsKept ==
  /\ \A u \in Members : users[u].sub # None =>
       /\ users'[u].sub = users[u].sub
       /\ \A v \in Users \ {u} : users'[v] # None => users'[v].sub # users[u].sub
  /\ \A i \in Existing(invites) : invites[i].status # "pending" =>
       invites'[i].status = invites[i].status /\ invites'[i].by = invites[i].by
  /\ \A u \in Users : joined'[u] # joined[u] /\ joined'[u] \in Invites =>
       /\ invites'[joined'[u]].status = "accepted" /\ invites'[joined'[u]].by = u
       /\ invites'[joined'[u]].org = users'[u].org

Method == TablesHold' /\ Grown /\ JoinsKept

LEMMA NoneIsNone ==
  /\ None \notin User /\ None \notin Organization
  /\ None \notin Invitation /\ None \notin Application
BY NoneIsNoRecord

\* A record of a table.
LEMMA Rows ==
  ASSUME TablesHold
  PROVE  /\ \A u \in Members : u \in Users /\ users[u] \in User
         /\ \A o \in Existing(orgs) : o \in Orgs /\ orgs[o] \in Organization
         /\ \A i \in Existing(invites) : i \in Invites /\ invites[i] \in Invitation
         /\ \A a \in Existing(apps) : a \in Apps /\ apps[a] \in Application
BY DEF TablesHold, Existing, Members

LEMMA FreshUser ==
  ASSUME TablesHold, HasRoom(users)
  PROVE  Fresh(users) \in Users /\ users[Fresh(users)] = None
BY DEF TablesHold, HasRoom, Existing, Fresh

LEMMA FreshInvite ==
  ASSUME TablesHold, HasRoom(invites)
  PROVE  Fresh(invites) \in Invites /\ invites[Fresh(invites)] = None
BY DEF TablesHold, HasRoom, Existing, Fresh

\* Tables that stay as they are.
LEMMA NoMethod ==
  ASSUME TablesHold, UNCHANGED tables
  PROVE  Method
BY DEF TablesHold, tables, Method, Grown, JoinsKept, EmailsUnique, SubjectsUnique, DomainsDisjoint,
       GrantsInside, ApplicationsDistinct, Members, Existing, Inside, ClaimedByOther

\* A new member with an address and a subject that no member has.
LEMMA Joining ==
  ASSUME TablesHold, NEW u \in Users, users[u] = None, NEW o \in Existing(orgs'),
         NEW e \in Emails, WithEmail(e) = {}, NEW s \in Subjects \cup {None},
         s # None => WithSubject(s) = {}, NEW admin \in BOOLEAN, NEW pwd \in BOOLEAN,
         \A p \in Existing(orgs) : p \in Existing(orgs'),
         orgs' \in [Orgs -> Organization \cup {None}],
         users' = [users EXCEPT ![u] = NewUser(o, e, admin, pwd, s)]
  PROVE  /\ users' \in [Users -> User \cup {None}]
         /\ \A v \in Members' : users'[v].org \in Existing(orgs')
         /\ renamed' = renamed => EmailsUnique'
         /\ SubjectsUnique'
         /\ \A v \in Members : v \in Members' /\ users'[v] = users[v]
         /\ users'[u].org = o
         /\ \A v \in Members : users[v].sub # None =>
              /\ users'[v].sub = users[v].sub
              /\ \A w \in Users \ {v} : users'[w] # None => users'[w].sub # users[v].sub
<1> DEFINE r == NewUser(o, e, admin, pwd, s)
<1>1. r \in User /\ r.org = o /\ r.email = e /\ r.sub = s
  BY DEF NewUser, User, Existing
<1>2. r # None
  BY <1>1, NoneIsNone
<1> HIDE DEF r
<1>3. users \in [Users -> User \cup {None}] /\ users' = [users EXCEPT ![u] = r]
  BY DEF TablesHold, r
<1>4. users' \in [Users -> User \cup {None}]
  BY <1>1, <1>3
<1>5. users'[u] = r /\ \A v \in Users : v # u => users'[v] = users[v]
  BY <1>3
<1>6. Members' = Members \cup {u} /\ u \notin Members
  BY <1>2, <1>3, <1>4, <1>5 DEF Members, Existing
<1>7. \A v \in Members : v \in Users /\ v # u /\ users'[v] = users[v]
  BY <1>5, <1>6, Rows
<1>8. \A v \in Members' : users'[v].org \in Existing(orgs')
  BY <1>1, <1>5, <1>6, <1>7 DEF TablesHold
<1>9. \A v \in Members : users[v].email # e
  BY DEF WithEmail
<1>10. renamed' = renamed => EmailsUnique'
  BY <1>1, <1>5, <1>6, <1>7, <1>9 DEF EmailsUnique, TablesHold
<1>11. \A v \in Members : s # None => users[v].sub # s
  BY DEF WithSubject
<1>12. SubjectsUnique'
  BY <1>1, <1>5, <1>6, <1>7, <1>11 DEF SubjectsUnique, TablesHold
<1>13. \A v \in Members : users[v].sub # None =>
         \A w \in Users \ {v} : users'[w] # None => users'[w].sub # users[v].sub
  <2>1. \A w \in Users : users'[w] # None => w = u \/ w \in Members
    BY <1>3, <1>5 DEF Members, Existing
  <2>2. QED
    BY <2>1, <1>1, <1>5, <1>7, <1>11 DEF SubjectsUnique, TablesHold
<1>14. QED
  BY <1>1, <1>4, <1>5, <1>6, <1>7, <1>8, <1>10, <1>12, <1>13

\* What the other tables keep when members, invitations or applications stay.
LEMMA OthersStay ==
  ASSUME TablesHold
  PROVE  /\ apps' = apps /\ (\A o \in Existing(orgs) : o \in Existing(orgs')) =>
              /\ apps' \in [Apps -> Application \cup {None}] /\ ApplicationsDistinct'
              /\ \A a \in Existing(apps') :
                   apps'[a].org \in Existing(orgs') /\ Inside(apps[a].org, apps[a].deps)'
         /\ orgs' = orgs => DomainsDisjoint'
         /\ grants' = grants /\ apps' = apps
              /\ (\A u \in Members : u \in Members' /\ users'[u].org = users[u].org) =>
              GrantsInside'
         /\ invites' = invites /\ (\A o \in Existing(orgs) : o \in Existing(orgs')) =>
              /\ invites' \in [Invites -> Invitation \cup {None}]
              /\ \A i \in Existing(invites') : invites'[i].org \in Existing(orgs')
<1>1. ASSUME apps' = apps, \A o \in Existing(orgs) : o \in Existing(orgs')
      PROVE  /\ apps' \in [Apps -> Application \cup {None}] /\ ApplicationsDistinct'
             /\ \A a \in Existing(apps') :
                  apps'[a].org \in Existing(orgs') /\ Inside(apps[a].org, apps[a].deps)'
  BY <1>1 DEF TablesHold, ApplicationsDistinct, Inside, Existing
<1>2. ASSUME orgs' = orgs PROVE DomainsDisjoint'
  BY <1>2 DEF TablesHold, DomainsDisjoint, ClaimedByOther, Existing
<1>3. ASSUME grants' = grants, apps' = apps,
             \A u \in Members : u \in Members' /\ users'[u].org = users[u].org
      PROVE  GrantsInside'
  BY <1>3 DEF TablesHold, GrantsInside
<1>4. ASSUME invites' = invites, \A o \in Existing(orgs) : o \in Existing(orgs')
      PROVE  /\ invites' \in [Invites -> Invitation \cup {None}]
             /\ \A i \in Existing(invites') : invites'[i].org \in Existing(orgs')
  BY <1>4 DEF TablesHold, Existing
<1>5. QED
  BY <1>1, <1>2, <1>3, <1>4

-----------------------------------------------------------------------------
(* The methods of the store. *)

LEMMA CreateEnterpriseStep ==
  ASSUME TablesHold, NEW o \in Orgs, NEW u \in Users, users[u] = None, NEW e \in Emails,
         CreateEnterprise(o, u, e)
  PROVE  Method
<1> DEFINE g == [domains |-> {DomainOf[e]}, join |-> FALSE, sso |-> FALSE, controlled |-> FALSE]
<1>1. g \in Organization /\ ~g.join
  BY AccountsAssumption DEF Organization
<1>2. g # None
  BY <1>1, NoneIsNone
<1>3. orgs' = [orgs EXCEPT ![o] = g] /\ orgs[o] = None
  BY DEF CreateEnterprise, MayCreateEnterprise
<1> HIDE DEF g
<1>4. orgs' \in [Orgs -> Organization \cup {None}] /\ orgs'[o] = g
      /\ \A p \in Orgs : p # o => orgs'[p] = orgs[p]
  BY <1>1, <1>3 DEF TablesHold
<1>5. Existing(orgs') = Existing(orgs) \cup {o}
  BY <1>2, <1>3, <1>4 DEF TablesHold, Existing
<1>6. /\ WithEmail(e) = {} /\ users' = [users EXCEPT ![u] = NewUser(o, e, TRUE, TRUE, None)]
      /\ joined' = [joined EXCEPT ![u] = "founder"]
      /\ UNCHANGED <<invites, apps, grants, renamed>>
  BY DEF CreateEnterprise, MayCreateEnterprise
<1>7. /\ users' \in [Users -> User \cup {None}]
      /\ \A v \in Members' : users'[v].org \in Existing(orgs')
      /\ EmailsUnique' /\ SubjectsUnique'
      /\ \A v \in Members : v \in Members' /\ users'[v] = users[v]
      /\ \A v \in Members : users[v].sub # None =>
           /\ users'[v].sub = users[v].sub
           /\ \A w \in Users \ {v} : users'[w] # None => users'[w].sub # users[v].sub
  BY <1>4, <1>5, <1>6, Joining
<1>8. DomainsDisjoint'
  BY <1>1, <1>4, <1>5 DEF DomainsDisjoint, ClaimedByOther, TablesHold, Existing
<1>9. joined' \in [Users -> Invites \cup {"founder", "domain", None}]
      /\ \A v \in Users : joined'[v] # joined[v] => joined'[v] \notin Invites
  BY <1>6, AccountsAssumption DEF TablesHold
<1>10. /\ apps' \in [Apps -> Application \cup {None}] /\ ApplicationsDistinct'
       /\ \A a \in Existing(apps') :
            apps'[a].org \in Existing(orgs') /\ Inside(apps[a].org, apps[a].deps)'
       /\ invites' \in [Invites -> Invitation \cup {None}]
       /\ \A i \in Existing(invites') : invites'[i].org \in Existing(orgs')
       /\ GrantsInside'
  BY <1>5, <1>6, <1>7, OthersStay
<1>11. TablesHold'
  BY <1>4, <1>6, <1>7, <1>8, <1>9, <1>10 DEF TablesHold
<1>12. Grown
  BY <1>5, <1>6, <1>7 DEF Grown
<1>13. JoinsKept
  BY <1>6, <1>7, <1>9 DEF JoinsKept
<1>14. QED
  BY <1>11, <1>12, <1>13 DEF Method

\* The settings of an organisation change.
LEMMA OrganizationSet ==
  ASSUME TablesHold, NEW o \in Existing(orgs), NEW r \in Organization,
         orgs' = [orgs EXCEPT ![o] = r]
  PROVE  /\ orgs' \in [Orgs -> Organization \cup {None}]
         /\ Existing(orgs') = Existing(orgs)
         /\ orgs'[o] = r /\ \A p \in Existing(orgs) : p # o => orgs'[p] = orgs[p]
BY NoneIsNone DEF TablesHold, Existing

LEMMA UpdateOrganizationStep ==
  ASSUME TablesHold, NEW o \in Existing(orgs), NEW domains \in SUBSET Domains,
         NEW join \in BOOLEAN, NEW sso \in BOOLEAN, UpdateOrganization(o, domains, join, sso)
  PROVE  Method
<1>1. PICK r : r = [orgs[o] EXCEPT !.domains = domains, !.join = join, !.sso = sso]
  OBVIOUS
<1>2. orgs[o] \in Organization /\ o \in Orgs
  BY Rows
<1>3. r \in Organization /\ r.domains = domains /\ r.join = join
  BY <1>1, <1>2 DEF Organization
<1>4. /\ orgs' = [orgs EXCEPT ![o] = r]
      /\ UNCHANGED <<users, invites, apps, grants, joined, renamed>>
      /\ join => \A d \in domains : ~ClaimedByOther(o, d)
  BY <1>1 DEF UpdateOrganization, MayUpdateOrganization
<1>5. /\ orgs' \in [Orgs -> Organization \cup {None}] /\ Existing(orgs') = Existing(orgs)
      /\ orgs'[o] = r /\ \A p \in Existing(orgs) : p # o => orgs'[p] = orgs[p]
  BY <1>3, <1>4, OrganizationSet
<1>6. ASSUME NEW p \in Existing(orgs), NEW q \in Existing(orgs), NEW d \in Domains, p # q,
             orgs'[p].join, d \in orgs'[p].domains, orgs'[q].join, d \in orgs'[q].domains
      PROVE  FALSE
  <2>1. CASE p = o
    BY <1>3, <1>4, <1>5, <1>6, <2>1 DEF ClaimedByOther
  <2>2. CASE q = o
    BY <1>3, <1>4, <1>5, <1>6, <2>2 DEF ClaimedByOther
  <2>3. CASE p # o /\ q # o
    BY <1>5, <1>6, <2>3 DEF TablesHold, DomainsDisjoint, ClaimedByOther
  <2>4. QED
    BY <2>1, <2>2, <2>3
<1>7. DomainsDisjoint'
  BY <1>5, <1>6 DEF DomainsDisjoint, ClaimedByOther
<1>8. /\ Members' = Members /\ EmailsUnique' /\ SubjectsUnique'
      /\ \A v \in Members : users[v].org \in Existing(orgs')
  BY <1>4, <1>5 DEF TablesHold, Members, Existing, EmailsUnique, SubjectsUnique
<1>9. /\ apps' \in [Apps -> Application \cup {None}] /\ ApplicationsDistinct'
      /\ \A a \in Existing(apps') :
           apps'[a].org \in Existing(orgs') /\ Inside(apps[a].org, apps[a].deps)'
      /\ invites' \in [Invites -> Invitation \cup {None}]
      /\ \A i \in Existing(invites') : invites'[i].org \in Existing(orgs')
      /\ GrantsInside'
  BY <1>4, <1>5, <1>8, OthersStay
<1>10. TablesHold'
  BY <1>4, <1>5, <1>7, <1>8, <1>9 DEF TablesHold
<1>11. Grown
  BY <1>4, <1>5, <1>8 DEF Grown
<1>12. JoinsKept
  BY <1>4 DEF JoinsKept, TablesHold, SubjectsUnique, Members, Existing
<1>13. QED
  BY <1>10, <1>11, <1>12 DEF Method

LEMMA UpdateMemberStep ==
  ASSUME TablesHold, NEW o \in Existing(orgs), NEW m \in Users, NEW active \in BOOLEAN,
         NEW admin \in BOOLEAN, NEW granted \in SUBSET Apps,
         UpdateMember(o, m, active, admin, granted)
  PROVE  /\ Method
         /\ m \in MembersOf(o) /\ Members' = Members
         /\ users'[m].active = active /\ users'[m].admin = admin
         /\ \A v \in Members : v # m => users'[v] = users[v]
<1>1. /\ m \in Members /\ users[m].org = o /\ users[m] \in User
      /\ \A a \in granted : apps[a] # None /\ apps[a].org = o
  BY Rows DEF UpdateMember, MayUpdateMember, MembersOf
<1>2. PICK r : r = [users[m] EXCEPT !.active = active, !.admin = admin]
  OBVIOUS
<1>3. /\ r \in User /\ r.org = users[m].org /\ r.email = users[m].email /\ r.sub = users[m].sub
      /\ r.active = active /\ r.admin = admin
  BY <1>1, <1>2 DEF User
<1>4. /\ users' = [users EXCEPT ![m] = r]
      /\ grants' = {g \in grants : g[1] # m} \cup ({m} \X granted)
      /\ UNCHANGED <<invites, apps, joined, renamed>>
  BY <1>2 DEF UpdateMember
<1>5. PICK g : g = [orgs[o] EXCEPT !.controlled = TRUE]
  OBVIOUS
<1>6. orgs[o] \in Organization /\ g \in Organization /\ g.join = orgs[o].join
      /\ g.domains = orgs[o].domains /\ orgs' = [orgs EXCEPT ![o] = g]
  BY <1>5, Rows DEF Organization, UpdateMember
<1>7. /\ orgs' \in [Orgs -> Organization \cup {None}] /\ Existing(orgs') = Existing(orgs)
      /\ orgs'[o] = g /\ \A p \in Existing(orgs) : p # o => orgs'[p] = orgs[p]
  BY <1>6, OrganizationSet
<1>8. DomainsDisjoint'
  BY <1>6, <1>7 DEF DomainsDisjoint, ClaimedByOther, TablesHold
<1>9. /\ users' \in [Users -> User \cup {None}] /\ users'[m] = r
      /\ \A v \in Users : v # m => users'[v] = users[v]
  BY <1>3, <1>4 DEF TablesHold
<1>10. Members' = Members
  BY <1>1, <1>3, <1>4, <1>9, NoneIsNone DEF Members, Existing, TablesHold
<1>11. \A v \in Members : /\ v \in Users /\ users'[v].org = users[v].org
                          /\ users'[v].email = users[v].email /\ users'[v].sub = users[v].sub
  BY <1>3, <1>9, Rows
<1>12. EmailsUnique' /\ SubjectsUnique' /\ \A v \in Members : users'[v].org \in Existing(orgs')
  BY <1>4, <1>7, <1>10, <1>11 DEF EmailsUnique, SubjectsUnique, TablesHold
<1>13. grants' \subseteq Users \X Apps /\ GrantsInside'
  BY <1>1, <1>4, <1>10, <1>11 DEF GrantsInside, TablesHold
<1>14. /\ apps' \in [Apps -> Application \cup {None}] /\ ApplicationsDistinct'
       /\ \A a \in Existing(apps') :
            apps'[a].org \in Existing(orgs') /\ Inside(apps[a].org, apps[a].deps)'
       /\ invites' \in [Invites -> Invitation \cup {None}]
       /\ \A i \in Existing(invites') : invites'[i].org \in Existing(orgs')
  BY <1>4, <1>7, OthersStay
<1>15. TablesHold'
  BY <1>4, <1>7, <1>8, <1>9, <1>10, <1>12, <1>13, <1>14 DEF TablesHold
<1>16. Grown
  BY <1>4, <1>7, <1>10, <1>11 DEF Grown
<1>17. \A w \in Users : users'[w] # None => w \in Members
  BY <1>9, <1>10 DEF Members, Existing
<1>18. JoinsKept
  BY <1>4, <1>11, <1>17 DEF JoinsKept, TablesHold, SubjectsUnique
<1>19. QED
  BY <1>1, <1>3, <1>9, <1>10, <1>15, <1>16, <1>18, Rows DEF Method, MembersOf

\* Steps that leave everything but the invitations alone.
LEMMA InvitesOnly ==
  ASSUME TablesHold, UNCHANGED <<users, orgs, apps, grants, joined, renamed>>,
         invites' \in [Invites -> Invitation \cup {None}],
         \A i \in Existing(invites') : invites'[i].org \in Existing(orgs),
         \A i \in Existing(invites) : i \in Existing(invites'),
         \A i \in Existing(invites) : invites[i].status # "pending" =>
           invites'[i].status = invites[i].status /\ invites'[i].by = invites[i].by
  PROVE  Method
<1>1. /\ EmailsUnique' /\ SubjectsUnique' /\ DomainsDisjoint' /\ GrantsInside'
      /\ ApplicationsDistinct' /\ Members' = Members
      /\ \A a \in Existing(apps) : Inside(apps[a].org, apps[a].deps)'
  BY DEF TablesHold, EmailsUnique, SubjectsUnique, DomainsDisjoint, ClaimedByOther, GrantsInside,
         ApplicationsDistinct, Members, Inside, Existing
<1>2. TablesHold'
  BY <1>1 DEF TablesHold
<1>3. Grown
  BY <1>1 DEF Grown
<1>4. JoinsKept
  BY DEF JoinsKept, TablesHold, SubjectsUnique, Members, Existing
<1>5. QED
  BY <1>2, <1>3, <1>4 DEF Method

LEMMA CreateInviteStep ==
  ASSUME TablesHold, NEW o \in Existing(orgs), NEW i \in Invites, invites[i] = None,
         NEW e \in Emails, NEW until \in Nat, CreateInvite(o, i, e, until)
  PROVE  Method
<1> DEFINE r == [org |-> o, email |-> e, status |-> "pending", until |-> until,
                 by |-> None, hash |-> TRUE]
<1>1. r \in Invitation /\ r.org = o
  BY Rows DEF Invitation
<1>2. /\ invites' = [invites EXCEPT ![i] = r]
      /\ UNCHANGED <<users, orgs, apps, grants, joined, renamed>>
  BY DEF CreateInvite
<1> HIDE DEF r
<1>3. /\ invites' \in [Invites -> Invitation \cup {None}]
      /\ \A k \in Existing(invites') : invites'[k].org \in Existing(orgs)
      /\ \A k \in Existing(invites) : k \in Existing(invites') /\ invites'[k] = invites[k]
  BY <1>1, <1>2 DEF TablesHold, Existing
<1>4. QED
  BY <1>2, <1>3, InvitesOnly

LEMMA RevokeInviteStep ==
  ASSUME TablesHold, NEW o, NEW i \in Invites, RevokeInvite(o, i)
  PROVE  Method
<1>1. PICK r : r = [invites[i] EXCEPT !.status = "revoked"]
  OBVIOUS
<1>2. i \in Existing(invites) /\ invites[i] \in Invitation /\ invites[i].status = "pending"
  BY Rows DEF RevokeInvite, MayRevokeInvite, TablesHold, Existing
<1>3. r \in Invitation /\ r.org = invites[i].org
  BY <1>1, <1>2 DEF Invitation
<1>4. /\ invites' = [invites EXCEPT ![i] = r]
      /\ UNCHANGED <<users, orgs, apps, grants, joined, renamed>>
  BY <1>1 DEF RevokeInvite
<1>5. /\ invites' \in [Invites -> Invitation \cup {None}]
      /\ \A k \in Existing(invites') : invites'[k].org \in Existing(orgs)
      /\ \A k \in Existing(invites) : k \in Existing(invites') /\ (k # i => invites'[k] = invites[k])
  BY <1>2, <1>3, <1>4, NoneIsNone DEF TablesHold, Existing
<1>6. QED
  BY <1>2, <1>4, <1>5, InvitesOnly

\* restoreLocked loses the hashes of the invitations and nothing else.
LEMMA ReloadedStep ==
  ASSUME TablesHold, invites' = Reloaded, UNCHANGED <<users, orgs, apps, grants, joined, renamed>>
  PROVE  Method
<1>1. ASSUME NEW i \in Existing(invites)
      PROVE  /\ invites'[i] \in Invitation /\ invites'[i].org = invites[i].org
             /\ invites'[i].status = invites[i].status /\ invites'[i].by = invites[i].by
  <2>1. i \in Invites /\ invites[i] \in Invitation /\ invites[i] # None
    BY Rows DEF Existing
  <2>2. PICK r : r = [invites[i] EXCEPT !.hash = FALSE]
    OBVIOUS
  <2>3. invites'[i] = r
    BY <2>1, <2>2 DEF Reloaded
  <2>4. QED
    BY <2>1, <2>2, <2>3 DEF Invitation
<1>2. \A i \in Invites : invites[i] = None => invites'[i] = None
  BY DEF Reloaded
<1>3. DOMAIN invites' = Invites /\ invites' = [i \in Invites |-> invites'[i]]
  BY DEF Reloaded
<1>4. /\ \A i \in Existing(invites') : i \in Existing(invites)
      /\ \A i \in Existing(invites) : i \in Existing(invites')
  <2>1. DOMAIN invites = Invites
    BY DEF TablesHold
  <2>2. ASSUME NEW i \in Invites, invites[i] # None PROVE invites'[i] # None
    BY <1>1, <2>1, <2>2, NoneIsNone DEF Existing
  <2>3. QED
    BY <1>2, <1>3, <2>1, <2>2 DEF Existing
<1>5. invites' \in [Invites -> Invitation \cup {None}]
  BY <1>1, <1>2, <1>3 DEF Existing, TablesHold
<1>6. QED
  BY <1>1, <1>4, <1>5, InvitesOnly DEF TablesHold

\* An invitation that is pending is accepted by u, who was nobody.
LEMMA Accepting ==
  ASSUME TablesHold, NEW i \in Existing(invites), invites[i].status = "pending",
         NEW u \in Users, users[u] = None, NEW e \in Emails, WithEmail(e) = {},
         NEW s \in Subjects \cup {None}, s # None => WithSubject(s) = {}, NEW pwd \in BOOLEAN,
         invites' = Accepted(i, u),
         users' = [users EXCEPT ![u] = NewUser(invites[i].org, e, FALSE, pwd, s)],
         joined' = [joined EXCEPT ![u] = i], UNCHANGED <<orgs, apps, grants, renamed>>
  PROVE  Method
<1>1. i \in Invites /\ invites[i] \in Invitation /\ invites[i].org \in Existing(orgs)
  BY Rows DEF TablesHold
<1>2. PICK o : o = invites[i].org
  OBVIOUS
<1>3. /\ users' \in [Users -> User \cup {None}]
      /\ \A v \in Members' : users'[v].org \in Existing(orgs')
      /\ EmailsUnique' /\ SubjectsUnique'
      /\ \A v \in Members : v \in Members' /\ users'[v] = users[v]
      /\ users'[u].org = o
      /\ \A v \in Members : users[v].sub # None =>
           /\ users'[v].sub = users[v].sub
           /\ \A w \in Users \ {v} : users'[w] # None => users'[w].sub # users[v].sub
  <2>1. users' = [users EXCEPT ![u] = NewUser(o, e, FALSE, pwd, s)]
    BY <1>2
  <2>2. o \in Existing(orgs') /\ orgs' \in [Orgs -> Organization \cup {None}]
    BY <1>1, <1>2 DEF TablesHold
  <2>3. renamed' = renamed /\ \A p \in Existing(orgs) : p \in Existing(orgs')
    OBVIOUS
  <2>4. /\ users' \in [Users -> User \cup {None}]
        /\ \A v \in Members' : users'[v].org \in Existing(orgs')
        /\ renamed' = renamed => EmailsUnique'
        /\ SubjectsUnique'
        /\ \A v \in Members : v \in Members' /\ users'[v] = users[v]
        /\ users'[u].org = o
        /\ \A v \in Members : users[v].sub # None =>
             /\ users'[v].sub = users[v].sub
             /\ \A w \in Users \ {v} : users'[w] # None => users'[w].sub # users[v].sub
    BY ONLY TablesHold, u \in Users, users[u] = None, e \in Emails, WithEmail(e) = {},
       s \in Subjects \cup {None}, s # None => WithSubject(s) = {}, pwd \in BOOLEAN,
       <2>1, <2>2, <2>3, Joining, Zenon
  <2>5. QED
    BY <2>3, <2>4
<1>4. PICK r : r = [[invites[i] EXCEPT !.status = "accepted"] EXCEPT !.by = u]
  OBVIOUS
<1>5. r \in Invitation /\ r.org = o /\ r.status = "accepted" /\ r.by = u
  BY <1>1, <1>2, <1>4 DEF Invitation
<1>6. invites' = [invites EXCEPT ![i] = r]
  BY <1>1, <1>4 DEF Accepted, TablesHold
<1>7. /\ invites' \in [Invites -> Invitation \cup {None}] /\ invites'[i] = r
      /\ \A k \in Invites : k # i => invites'[k] = invites[k]
      /\ \A k \in Existing(invites') : invites'[k].org \in Existing(orgs)
      /\ \A k \in Existing(invites) : k \in Existing(invites')
  BY <1>1, <1>2, <1>5, <1>6, NoneIsNone DEF TablesHold, Existing
<1>8. /\ joined' \in [Users -> Invites \cup {"founder", "domain", None}] /\ joined'[u] = i
      /\ \A v \in Users : v # u => joined'[v] = joined[v]
  BY <1>1 DEF TablesHold
<1>9. /\ apps' \in [Apps -> Application \cup {None}] /\ ApplicationsDistinct'
      /\ \A a \in Existing(apps') :
           apps'[a].org \in Existing(orgs') /\ Inside(apps[a].org, apps[a].deps)'
      /\ DomainsDisjoint' /\ GrantsInside'
  BY <1>3, OthersStay
<1>10. TablesHold'
  BY <1>3, <1>7, <1>8, <1>9 DEF TablesHold
<1>11. Grown
  BY <1>3, <1>7 DEF Grown
<1>12. \A k \in Existing(invites) : invites[k].status # "pending" =>
         invites'[k].status = invites[k].status /\ invites'[k].by = invites[k].by
  BY <1>7, Rows
<1>13. JoinsKept
  BY <1>3, <1>5, <1>7, <1>8, <1>12 DEF JoinsKept
<1>14. QED
  BY <1>10, <1>11, <1>13 DEF Method

LEMMA AcceptInviteStep ==
  ASSUME TablesHold, NEW i \in Existing(invites), NEW u \in Users, users[u] = None,
         NEW e \in Emails, AcceptInvite(i, u, e)
  PROVE  Method
BY Accepting DEF AcceptInvite, MayAcceptInvite

\* The member with the subject, or else with the address, signs in.
LEMMA SignInExistingStep ==
  ASSUME TablesHold, NEW u \in Users, NEW s \in Subjects, NEW e \in Emails,
         SignInExisting(u, s, e)
  PROVE  /\ Method /\ Members' = Members /\ u \in Members
         /\ \A v \in Members : /\ users'[v].active = users[v].active
                               /\ users'[v].admin = users[v].admin
<1>1. /\ u \in Members /\ users[u] \in User /\ users[u].sub \in {None, s}
      /\ users[u].sub = None => WithSubject(s) = {}
  <2>1. u \in Known(s, e) /\ users[u].sub \in {None, s}
    BY DEF SignInExisting, MaySignIn
  <2>2. s # None
    BY AccountsAssumption
  <2>3. QED
    BY <2>1, <2>2, Rows DEF Known, WithSubject, WithEmail
<1>2. PICK r : r = [[users[u] EXCEPT !.sub = s] EXCEPT !.email = e]
  OBVIOUS
<1>3. /\ r \in User /\ r.org = users[u].org /\ r.sub = s /\ r.email = e
      /\ r.active = users[u].active /\ r.admin = users[u].admin
  BY <1>1, <1>2 DEF User
<1>4. /\ users' = [users EXCEPT ![u] = r] /\ UNCHANGED <<orgs, invites, apps, grants, joined>>
      /\ renamed' = IF users[u].email = e THEN renamed ELSE renamed \cup {u}
  BY <1>1, <1>2 DEF SignInExisting, TablesHold
<1>5. /\ users' \in [Users -> User \cup {None}] /\ users'[u] = r
      /\ \A v \in Users : v # u => users'[v] = users[v]
  BY <1>3, <1>4 DEF TablesHold
<1>6. Members' = Members
  BY <1>1, <1>3, <1>4, <1>5, NoneIsNone DEF Members, Existing, TablesHold
<1>7. \A v \in Members : v \in Users /\ users'[v].org = users[v].org
                         /\ (v # u => users'[v] = users[v])
  BY <1>3, <1>5, Rows
<1>8. EmailsUnique'
  <2>1. ASSUME NEW v \in Members, NEW w \in Members, v # w, users'[v].email = users'[w].email
        PROVE  v \in renamed' \/ w \in renamed'
    <3>1. CASE users[u].email = e
      <4>1. \A x \in Members : users'[x].email = users[x].email
        BY <1>3, <1>5, <1>7, <3>1
      <4>2. QED
        BY <1>4, <2>1, <3>1, <4>1 DEF TablesHold, EmailsUnique
    <3>2. CASE users[u].email # e /\ (v = u \/ w = u)
      BY <1>4, <3>2
    <3>3. CASE users[u].email # e /\ v # u /\ w # u
      BY <1>4, <1>7, <2>1, <3>3 DEF TablesHold, EmailsUnique
    <3>4. QED
      BY <3>1, <3>2, <3>3
  <2>2. QED
    BY <1>6, <2>1 DEF EmailsUnique
<1>9. \A v \in Members : v # u => users[v].sub # s
  BY <1>1 DEF WithSubject, TablesHold, SubjectsUnique
<1>10. SubjectsUnique'
  BY <1>3, <1>5, <1>6, <1>7, <1>9 DEF TablesHold, SubjectsUnique
<1>11. /\ apps' \in [Apps -> Application \cup {None}] /\ ApplicationsDistinct'
       /\ \A a \in Existing(apps') :
            apps'[a].org \in Existing(orgs') /\ Inside(apps[a].org, apps[a].deps)'
       /\ invites' \in [Invites -> Invitation \cup {None}]
       /\ \A i \in Existing(invites') : invites'[i].org \in Existing(orgs')
       /\ DomainsDisjoint' /\ GrantsInside'
  BY <1>4, <1>6, <1>7, OthersStay
<1>12. renamed' \subseteq Users /\ \A v \in Members' : users'[v].org \in Existing(orgs')
  BY <1>4, <1>6, <1>7 DEF TablesHold
<1>13. TablesHold'
  BY <1>4, <1>5, <1>8, <1>10, <1>11, <1>12 DEF TablesHold
<1>14. Grown
  BY <1>4, <1>6, <1>7 DEF Grown
<1>15. \A v \in Members : users[v].sub # None => users'[v].sub = users[v].sub
  BY <1>1, <1>3, <1>5, <1>7
<1>16. \A w \in Users : users'[w] # None => w \in Members'
  BY <1>5 DEF Members, Existing
<1>17. JoinsKept
  BY <1>4, <1>6, <1>10, <1>15, <1>16 DEF JoinsKept, SubjectsUnique
<1>18. \A v \in Members : users'[v].active = users[v].active /\ users'[v].admin = users[v].admin
  BY <1>3, <1>5, <1>7
<1>19. QED
  BY <1>1, <1>6, <1>13, <1>14, <1>17, <1>18 DEF Method

LEMMA SignInByInviteStep ==
  ASSUME TablesHold, NEW i \in Invites, NEW u \in Users, users[u] = None, NEW s \in Subjects,
         NEW e \in Emails, SignInByInvite(i, u, s, e)
  PROVE  Method
<1>1. i \in Existing(invites) /\ invites[i].status = "pending"
  BY DEF SignInByInvite, InvitesFor, IsOpen, Existing, TablesHold
<1>2. WithSubject(s) = {} /\ WithEmail(e) = {}
  BY DEF SignInByInvite, Known
<1>3. QED
  BY <1>1, <1>2, Accepting DEF SignInByInvite

LEMMA SignInByDomainStep ==
  ASSUME TablesHold, NEW o \in Orgs, NEW u \in Users, users[u] = None, NEW s \in Subjects,
         NEW e \in Emails, SignInByDomain(o, u, s, e)
  PROVE  Method
<1>1. WithSubject(s) = {} /\ WithEmail(e) = {}
  BY DEF SignInByDomain, Known
<1>2. /\ o \in Existing(orgs) /\ users' = [users EXCEPT ![u] = NewUser(o, e, FALSE, FALSE, s)]
      /\ joined' = [joined EXCEPT ![u] = "domain"]
      /\ UNCHANGED <<orgs, invites, apps, grants, renamed>>
  BY DEF SignInByDomain, OrgsFor
<1>3. /\ users' \in [Users -> User \cup {None}]
      /\ \A v \in Members' : users'[v].org \in Existing(orgs')
      /\ EmailsUnique' /\ SubjectsUnique'
      /\ \A v \in Members : v \in Members' /\ users'[v] = users[v]
      /\ \A v \in Members : users[v].sub # None =>
           /\ users'[v].sub = users[v].sub
           /\ \A w \in Users \ {v} : users'[w] # None => users'[w].sub # users[v].sub
  <2>1. orgs' \in [Orgs -> Organization \cup {None}] /\ o \in Existing(orgs')
        /\ renamed' = renamed /\ \A p \in Existing(orgs) : p \in Existing(orgs')
    BY <1>2 DEF TablesHold
  <2>2. QED
    BY <1>1, <1>2, <2>1, Joining
<1>4. joined' \in [Users -> Invites \cup {"founder", "domain", None}]
      /\ \A v \in Users : joined'[v] # joined[v] => joined'[v] \notin Invites
  BY <1>2, AccountsAssumption DEF TablesHold
<1>5. /\ apps' \in [Apps -> Application \cup {None}] /\ ApplicationsDistinct'
      /\ \A a \in Existing(apps') :
           apps'[a].org \in Existing(orgs') /\ Inside(apps[a].org, apps[a].deps)'
      /\ invites' \in [Invites -> Invitation \cup {None}]
      /\ \A i \in Existing(invites') : invites'[i].org \in Existing(orgs')
      /\ DomainsDisjoint' /\ GrantsInside'
  BY <1>2, <1>3, OthersStay
<1>6. TablesHold'
  BY <1>2, <1>3, <1>4, <1>5 DEF TablesHold
<1>7. Grown
  BY <1>2, <1>3 DEF Grown
<1>8. JoinsKept
  BY <1>2, <1>3, <1>4 DEF JoinsKept
<1>9. QED
  BY <1>6, <1>7, <1>8 DEF Method

\* An application is saved under a name of its own, with dependencies of its organisation.
LEMMA SaveApplicationStep ==
  ASSUME TablesHold, NEW o \in Existing(orgs), NEW a \in Apps, NEW name \in AppNames,
         NEW deps \in SUBSET Apps, Inside(o, deps), SaveApplication(o, a, name, deps)
  PROVE  /\ Method /\ UNCHANGED users
         /\ Existing(orgs') = Existing(orgs) /\ Existing(apps') = Existing(apps) \cup {a}
         /\ apps'[a].org = o /\ apps'[a].deps = deps
         /\ \A b \in Existing(apps) : b # a => apps'[b] = apps[b]
<1> DEFINE r == [org |-> o, name |-> name, deps |-> deps]
<1>1. r \in Application /\ r.org = o /\ r.name = name /\ r.deps = deps
  BY Rows DEF Application
<1>2. /\ apps' = [apps EXCEPT ![a] = r] /\ UNCHANGED <<users, invites, grants, joined, renamed>>
      /\ apps[a] # None => apps[a].org = o
      /\ \A b \in Existing(apps) \ {a} : apps[b].org = o => apps[b].name # name
  BY DEF SaveApplication, MaySaveApplication
<1> HIDE DEF r
<1>3. PICK g : g = [orgs[o] EXCEPT !.controlled = TRUE]
  OBVIOUS
<1>4. /\ orgs[o] \in Organization /\ g \in Organization /\ g.join = orgs[o].join
      /\ g.domains = orgs[o].domains /\ (orgs' = orgs \/ orgs' = [orgs EXCEPT ![o] = g])
  BY <1>3, Rows DEF Organization, SaveApplication
<1>5. /\ orgs' \in [Orgs -> Organization \cup {None}] /\ Existing(orgs') = Existing(orgs)
      /\ \A p \in Existing(orgs) : orgs'[p].join = orgs[p].join /\ orgs'[p].domains = orgs[p].domains
  <2>1. CASE orgs' = orgs
    BY <2>1 DEF TablesHold
  <2>2. CASE orgs' = [orgs EXCEPT ![o] = g]
    BY <1>4, <2>2, OrganizationSet
  <2>3. QED
    BY <1>4, <2>1, <2>2
<1>6. DomainsDisjoint'
  BY <1>5 DEF DomainsDisjoint, ClaimedByOther, TablesHold
<1>7. /\ apps' \in [Apps -> Application \cup {None}] /\ apps'[a] = r
      /\ \A b \in Apps : b # a => apps'[b] = apps[b]
  BY <1>1, <1>2 DEF TablesHold
<1>8. Existing(apps') = Existing(apps) \cup {a}
  BY <1>1, <1>2, <1>7, NoneIsNone DEF Existing, TablesHold
<1>9. \A b \in Existing(apps) : apps'[b].org = apps[b].org /\ (b # a => apps'[b] = apps[b])
  BY <1>1, <1>2, <1>7, Rows DEF Existing
<1>10. ApplicationsDistinct'
  BY <1>1, <1>2, <1>7, <1>8, <1>9 DEF ApplicationsDistinct, TablesHold
<1>11. \A b \in Existing(apps') :
         apps'[b].org \in Existing(orgs') /\ Inside(apps[b].org, apps[b].deps)'
  BY <1>1, <1>5, <1>7, <1>8, <1>9 DEF Inside, TablesHold
<1>12. GrantsInside'
  <2>1. \A x \in grants : x[2] \in Existing(apps)
    BY DEF TablesHold, GrantsInside, Existing
  <2>2. QED
    BY <1>2, <1>8, <1>9, <2>1 DEF TablesHold, GrantsInside, Members, Existing
<1>13. /\ Members' = Members /\ EmailsUnique' /\ SubjectsUnique'
       /\ \A v \in Members : users[v].org \in Existing(orgs')
  BY <1>2, <1>5 DEF TablesHold, Members, Existing, EmailsUnique, SubjectsUnique
<1>14. /\ invites' \in [Invites -> Invitation \cup {None}]
       /\ \A i \in Existing(invites') : invites'[i].org \in Existing(orgs')
  BY <1>2, <1>5, OthersStay
<1>15. TablesHold'
  BY <1>2, <1>5, <1>6, <1>7, <1>10, <1>11, <1>12, <1>13, <1>14 DEF TablesHold
<1>16. Grown
  BY <1>2, <1>5, <1>8, <1>9, <1>13 DEF Grown
<1>17. JoinsKept
  BY <1>2 DEF JoinsKept, TablesHold, SubjectsUnique, Members, Existing
<1>18. QED
  BY <1>1, <1>2, <1>5, <1>7, <1>8, <1>9, <1>15, <1>16, <1>17 DEF Method

-----------------------------------------------------------------------------
(* The session repository and the calls. *)

RepositoryHolds ==
  /\ now \in 0..MaxTime /\ reloads \in 0..MaxReloads
  /\ sessions \in [Tokens -> Session \cup {None}]
  /\ \A t \in Existing(sessions) : sessions[t].user \in Members
  /\ flows \in [Flows -> Flow] /\ attempts \in [Keys -> Counted]
  /\ overtaken \subseteq Orgs \X {"admins", "dependencies"}

CallsFit == call \in [Calls -> Call] /\ \A c \in Calls : Fits(call[c])

LEMMA Parts == KeysHold <=> TablesHold /\ RepositoryHolds /\ CallsFit
BY DEF KeysHold, TypeOK, References, TablesHold, RepositoryHolds, CallsFit

\* The call c goes on as k.
Turns(c, k) == k \in Call /\ call' = [call EXCEPT ![c] = k] /\ Fits(k)'

\* It has no new flow and no new attempt.
SameMarks(c, k) ==
  /\ k.flow \in {None, call[c].flow}
  /\ k.key = None \/ (k.key = call[c].key /\ k.window = call[c].window)

\* Others cannot take away what a call is about.
LEMMA FitsGrow ==
  ASSUME NEW k, Fits(k), Grown
  PROVE  Fits(k)'
BY DEF Fits, Grown, MembersOf, Inside

LEMMA FitsEnd ==
  ASSUME NEW k, k.pc \in {"idle", "done"}
  PROVE  Fits(k) /\ Fits(k)' /\ Carries(k) /\ Carries(k)'
BY DEF Fits, Carries

LEMMA Turned ==
  ASSUME CallsFit, Grown, NEW c \in Calls, NEW k, Turns(c, k)
  PROVE  CallsFit'
<1>1. /\ call \in [Calls -> Call] /\ k \in Call /\ call' = [call EXCEPT ![c] = k]
      /\ Fits(k)'
  BY DEF CallsFit, Turns
<1>2. call' \in [Calls -> Call] /\ call'[c] = k /\ \A d \in Calls : d # c => call'[d] = call[d]
  BY <1>1
<1>3. ASSUME NEW d \in Calls PROVE Fits(call[d])'
  <2>1. PICK m : m = call[d]
    OBVIOUS
  <2>2. Fits(m)
    BY <2>1 DEF CallsFit
  <2>3. Fits(m)'
    BY <2>2, FitsGrow
  <2>4. call'[d] = IF d = c THEN k ELSE m
    BY <1>2, <2>1
  <2>5. QED
    BY <1>1, <2>3, <2>4 DEF Fits
<1>4. QED
  BY <1>2, <1>3 DEF CallsFit

LEMMA CallsStay ==
  ASSUME CallsFit, Grown, call' = call
  PROVE  CallsFit'
<1>1. ASSUME NEW d \in Calls PROVE Fits(call[d])'
  <2>1. PICK m : m = call[d]
    OBVIOUS
  <2>2. Fits(m)
    BY <2>1 DEF CallsFit
  <2>3. Fits(m)'
    BY <2>2, FitsGrow
  <2>4. QED
    BY <2>1, <2>3 DEF Fits
<1>2. QED
  BY <1>1 DEF CallsFit

\* Before the first step of a call.
LEMMA IdleShape == Idle \in Call
BY DEF Idle, Call, Keys

LEMMA AnsweredShape ==
  ASSUME NEW k \in Call
  PROVE  /\ Answered(k) \in Call /\ Answered(k).pc = "done" /\ Answered(k).flow = k.flow
         /\ Answered(k).compared = k.compared
         /\ Answered(k).key \in {None, k.key}
         /\ Answered(k).key # None => Answered(k).window = k.window
         /\ k.compared => Answered(k).key = k.key /\ Answered(k).window = k.window
<1>1. PICK x : x = IF k.compared THEN k.key ELSE None
  OBVIOUS
<1>2. PICK y : y = IF k.compared THEN k.window ELSE 0
  OBVIOUS
<1>3. /\ k.flow \in Flows \cup {None} /\ k.compared \in BOOLEAN
      /\ x \in Keys \cup {None} /\ y \in Nat
  BY <1>1, <1>2 DEF Call
<1>4. PICK a : a = [Idle EXCEPT !.pc = "done", !.flow = k.flow, !.compared = k.compared,
                                !.key = x, !.window = y]
  OBVIOUS
<1>5. a = Answered(k)
  BY <1>1, <1>2, <1>4 DEF Answered
<1>6. a \in Call
  BY <1>3, <1>4, IdleShape DEF Call
<1>7. /\ a.pc = "done" /\ a.flow = k.flow /\ a.compared = k.compared /\ a.key = x
      /\ a.window = y
  BY <1>4 DEF Idle
<1>8. QED
  BY <1>1, <1>2, <1>5, <1>6, <1>7

LEMMA EndTurns ==
  ASSUME CallsFit, NEW c \in Calls, End(c)
  PROVE  \E k : Turns(c, k) /\ SameMarks(c, k) /\ k.pc = "done"
<1>1. PICK m : m = call[c]
  OBVIOUS
<1>2. PICK k : k = Answered(m)
  OBVIOUS
<1>3. call' = [call EXCEPT ![c] = k] /\ m \in Call
  BY <1>1, <1>2 DEF End, CallsFit
<1>4. /\ k \in Call /\ k.pc = "done" /\ k.flow = m.flow /\ k.key \in {None, m.key}
      /\ k.key # None => k.window = m.window
  BY <1>2, <1>3, AnsweredShape
<1>5. Turns(c, k)
  BY <1>3, <1>4, FitsEnd DEF Turns
<1>6. SameMarks(c, k)
  BY <1>1, <1>4 DEF SameMarks
<1>7. QED
  BY <1>4, <1>5, <1>6

\* A step that leaves the tables alone turns a call into one that fits.
LEMMA StepTo ==
  ASSUME TablesHold, UNCHANGED tables, NEW c \in Calls, NEW k \in Call, Fits(k),
         call' = [call EXCEPT ![c] = k]
  PROVE  Turns(c, k)
BY NoMethod, FitsGrow DEF Turns, Method

LEMMA Called ==
  ASSUME CallsFit, NEW c \in Calls
  PROVE  call[c] \in Call /\ Fits(call[c])
BY DEF CallsFit

\* What a check leaves the call with.
CheckDone(c, k) ==
  /\ Turns(c, k) /\ SameMarks(c, k)
  /\ k.pc = "member" => Carries(k)
  /\ k.pc = "application" =>
       ValidDependencies(k.org, k.arg, k.set) /\ k.graph = DependenciesWith(k.arg, k.set)

LEMMA EndIsDone ==
  ASSUME CallsFit, NEW c \in Calls, End(c)
  PROVE  \E k : CheckDone(c, k)
BY EndTurns DEF CheckDone

LEMMA LoginUserTurns ==
  ASSUME KeysHold, NEW c \in Calls, LoginUser(c)
  PROVE  \E k : CheckDone(c, k)
<1>1. CASE End(c)
  BY <1>1, Parts, EndIsDone
<1>2. ASSUME NEW u \in WithEmail(call[c].email),
             call' = [call EXCEPT ![c].pc = "login_org", ![c].user = u]
      PROVE  \E k : CheckDone(c, k)
  <2>1. PICK m : m = call[c]
    OBVIOUS
  <2>2. m \in Call /\ Fits(m) /\ UNCHANGED tables
    BY <2>1, Parts, Called DEF LoginUser
  <2>3. PICK k : k = [[m EXCEPT !.pc = "login_org"] EXCEPT !.user = u]
    OBVIOUS
  <2>4. call' = [call EXCEPT ![c] = k]
    BY <1>2, <2>1, <2>3, Parts DEF CallsFit
  <2>5. u \in Members /\ u \in Users
    BY Parts, Rows DEF WithEmail
  <2>6. /\ k \in Call /\ k.pc = "login_org" /\ k.user = u /\ k.flow = m.flow
        /\ k.key = m.key /\ k.window = m.window
    BY <2>2, <2>3, <2>5 DEF Call
  <2>7. Fits(k)
    BY <2>5, <2>6 DEF Fits
  <2>8. Turns(c, k)
    BY <2>2, <2>4, <2>6, <2>7, Parts, StepTo
  <2>9. QED
    BY <2>1, <2>6, <2>8 DEF CheckDone, SameMarks
<1>3. QED
  BY <1>1, <1>2 DEF LoginUser

LEMMA LoginOrganizationTurns ==
  ASSUME KeysHold, NEW c \in Calls, LoginOrganization(c)
  PROVE  \E k : CheckDone(c, k)
<1>1. CASE End(c)
  BY <1>1, Parts, EndIsDone
<1>2. CASE Goto(c, "login_password")
  <2>1. PICK m : m = call[c]
    OBVIOUS
  <2>2. m \in Call /\ Fits(m) /\ UNCHANGED tables /\ m.pc = "login_org"
    BY <2>1, Parts, Called DEF LoginOrganization
  <2>3. PICK k : k = [m EXCEPT !.pc = "login_password"]
    OBVIOUS
  <2>4. call' = [call EXCEPT ![c] = k]
    BY <1>2, <2>1, <2>3, Parts DEF CallsFit, Goto
  <2>5. /\ k \in Call /\ k.pc = "login_password" /\ k.user = m.user /\ k.flow = m.flow
        /\ k.key = m.key /\ k.window = m.window
    BY <2>2, <2>3 DEF Call
  <2>6. Fits(k)
    BY <2>2, <2>5 DEF Fits
  <2>7. Turns(c, k)
    BY <2>2, <2>4, <2>5, <2>6, Parts, StepTo
  <2>8. QED
    BY <2>1, <2>5, <2>7 DEF CheckDone, SameMarks
<1>3. QED
  BY <1>1, <1>2 DEF LoginOrganization

LEMMA LoginPasswordTurns ==
  ASSUME KeysHold, NEW c \in Calls, LoginPassword(c)
  PROVE  \E k : CheckDone(c, k)
<1>1. PICK m : m = call[c]
  OBVIOUS
<1>2. m \in Call /\ Fits(m) /\ UNCHANGED tables /\ m.pc = "login_password"
  BY <1>1, Parts, Called DEF LoginPassword
<1>3. PICK k : k = [[m EXCEPT !.compared = TRUE] EXCEPT !.pc = "session"]
  OBVIOUS
<1>4. /\ k \in Call /\ k.pc = "session" /\ k.user = m.user /\ k.flow = m.flow
      /\ k.key = m.key /\ k.window = m.window
  BY <1>2, <1>3 DEF Call
<1>5. Fits(k)
  BY <1>2, <1>4 DEF Fits
<1>6. call' = [call EXCEPT ![c] = k] \/ call' = [call EXCEPT ![c] = Answered(k)]
  BY <1>1, <1>3 DEF LoginPassword
<1>7. CASE call' = [call EXCEPT ![c] = k]
  <2>1. Turns(c, k)
    BY <1>2, <1>4, <1>5, <1>7, Parts, StepTo
  <2>2. QED
    BY <1>1, <1>4, <2>1 DEF CheckDone, SameMarks
<1>8. CASE call' = [call EXCEPT ![c] = Answered(k)]
  <2>1. PICK a : a = Answered(k)
    OBVIOUS
  <2>2. /\ a \in Call /\ a.pc = "done" /\ a.flow = k.flow /\ a.key \in {None, k.key}
        /\ a.key # None => a.window = k.window
    BY <1>4, <2>1, AnsweredShape
  <2>3. Turns(c, a)
    <3>1. Fits(a)
      BY <2>2, FitsEnd
    <3>2. call' = [call EXCEPT ![c] = a]
      BY <1>8, <2>1
    <3>3. QED
      BY <1>2, <2>2, <3>1, <3>2, Parts, StepTo
  <2>4. QED
    BY <1>1, <1>4, <2>2, <2>3 DEF CheckDone, SameMarks
<1>9. QED
  BY <1>6, <1>7, <1>8

LEMMA CheckOrganizationTurns ==
  ASSUME KeysHold, NEW c \in Calls, NEW domains \in SUBSET Domains, NEW join \in BOOLEAN,
         NEW sso \in BOOLEAN, CheckOrganization(c, domains, join, sso)
  PROVE  \E k : CheckDone(c, k)
<1>1. CASE End(c)
  BY <1>1, Parts, EndIsDone
<1>2. PICK m : m = call[c]
  OBVIOUS
<1>3. m \in Call /\ Fits(m) /\ UNCHANGED tables /\ m.pc = "entered"
  BY <1>2, Parts, Called DEF CheckOrganization
<1>4. PICK k : k = [m EXCEPT !.pc = "organization", !.set = domains, !.flag = join, !.flag2 = sso]
  OBVIOUS
<1>5. CASE call' = [call EXCEPT ![c] = k]
  <2>1. /\ k \in Call /\ k.pc = "organization" /\ k.org = m.org /\ k.set = domains
        /\ k.flow = m.flow /\ k.key = m.key /\ k.window = m.window
    BY <1>3, <1>4 DEF Call
  <2>2. Fits(k)
    BY <1>3, <2>1 DEF Fits
  <2>3. Turns(c, k)
    BY <1>3, <1>5, <2>1, <2>2, Parts, StepTo
  <2>4. QED
    BY <1>2, <2>1, <2>3 DEF CheckDone, SameMarks
<1>6. QED
  BY <1>1, <1>2, <1>4, <1>5, Parts DEF CheckOrganization, CallsFit

LEMMA CheckMemberTurns ==
  ASSUME KeysHold, NEW c \in Calls, NEW u \in Users, NEW active \in BOOLEAN,
         NEW admin \in BOOLEAN, NEW granted \in AppSets, CheckMember(c, u, active, admin, granted)
  PROVE  \E k : CheckDone(c, k)
<1>1. CASE End(c)
  BY <1>1, Parts, EndIsDone
<1>2. PICK m : m = call[c]
  OBVIOUS
<1>3. m \in Call /\ Fits(m) /\ UNCHANGED tables /\ m.pc = "entered"
  BY <1>2, Parts, Called DEF CheckMember
<1>4. PICK seen : seen = Admins(m.org)
  OBVIOUS
<1>5. seen \subseteq Users
  BY <1>4, Parts, Rows DEF Admins, MembersOf
<1>6. PICK k : k = [m EXCEPT !.pc = "member", !.arg = u, !.flag = active, !.flag2 = admin,
                             !.set = granted, !.seen = seen]
  OBVIOUS
<1>7. CASE call' = [call EXCEPT ![c] = k] /\ MayCheckMember(c, u, active, admin)
  <2>1. granted \subseteq Apps
    BY EnterpriseAssumption
  <2>2. k \in Call
    BY <1>3, <1>5, <1>6, <2>1 DEF Call
  <2>3. /\ k.pc = "member" /\ k.org = m.org /\ k.arg = u /\ k.flag = active /\ k.flag2 = admin
        /\ k.set = granted /\ k.seen = seen
        /\ k.flow = m.flow /\ k.key = m.key /\ k.window = m.window
    BY <1>3, <1>6 DEF Call
  <2>4. u \in MembersOf(m.org)
    BY <1>2, <1>7 DEF MayCheckMember
  <2>5. Fits(k)
    BY <1>3, <2>1, <2>3, <2>4 DEF Fits
  <2>6. Carries(k)
    BY <1>2, <1>4, <1>7, <2>3 DEF Carries, MayCheckMember, Admins
  <2>7. Turns(c, k)
    BY <1>3, <1>7, <2>2, <2>5, Parts, StepTo
  <2>8. QED
    BY <1>2, <2>3, <2>6, <2>7 DEF CheckDone, SameMarks
<1>8. End(c) \/ (call' = [call EXCEPT ![c] = k] /\ MayCheckMember(c, u, active, admin))
  BY <1>2, <1>4, <1>6, Parts DEF CheckMember, CallsFit
<1>9. QED
  BY <1>1, <1>7, <1>8

LEMMA CheckInviteTurns ==
  ASSUME KeysHold, NEW c \in Calls, NEW e \in Emails, CheckInvite(c, e)
  PROVE  \E k : CheckDone(c, k)
<1>1. CASE End(c)
  BY <1>1, Parts, EndIsDone
<1>2. PICK m : m = call[c]
  OBVIOUS
<1>3. m \in Call /\ Fits(m) /\ UNCHANGED tables /\ m.pc = "entered"
  BY <1>2, Parts, Called DEF CheckInvite
<1>4. PICK k : k = [[m EXCEPT !.pc = "invite"] EXCEPT !.email = e]
  OBVIOUS
<1>5. CASE call' = [call EXCEPT ![c] = k]
  <2>1. /\ k \in Call /\ k.pc = "invite" /\ k.org = m.org /\ k.email = e
        /\ k.flow = m.flow /\ k.key = m.key /\ k.window = m.window
    BY <1>3, <1>4 DEF Call
  <2>2. Fits(k)
    BY <1>3, <2>1 DEF Fits
  <2>3. Turns(c, k)
    BY <1>3, <1>5, <2>1, <2>2, Parts, StepTo
  <2>4. QED
    BY <1>2, <2>1, <2>3 DEF CheckDone, SameMarks
<1>6. End(c) \/ call' = [call EXCEPT ![c] = k]
  BY <1>2, <1>4, Parts DEF CheckInvite, CallsFit
<1>7. QED
  BY <1>1, <1>5, <1>6

LEMMA CheckApplicationTurns ==
  ASSUME KeysHold, NEW c \in Calls, NEW a \in Apps, NEW name \in AppNames,
         NEW deps \in AppSets, CheckApplication(c, a, name, deps)
  PROVE  \E k : CheckDone(c, k)
<1>1. CASE End(c)
  BY <1>1, Parts, EndIsDone
<1>2. PICK m : m = call[c]
  OBVIOUS
<1>3. m \in Call /\ Fits(m) /\ UNCHANGED tables /\ m.pc = "entered"
  BY <1>2, Parts, Called DEF CheckApplication
<1>4. PICK graph : graph = DependenciesWith(a, deps)
  OBVIOUS
<1>5. deps \subseteq Apps
  BY EnterpriseAssumption
<1>6. graph \in [Apps -> SUBSET Apps]
  BY <1>4, <1>5, Parts, Rows DEF DependenciesWith, Application, Existing, TablesHold
<1>7. PICK k : k = [m EXCEPT !.pc = "application", !.arg = a, !.email = name, !.set = deps,
                             !.graph = graph]
  OBVIOUS
<1>8. CASE call' = [call EXCEPT ![c] = k] /\ ValidDependencies(m.org, a, deps)
  <2>1. k \in Call
    BY <1>3, <1>5, <1>6, <1>7 DEF Call
  <2>2. /\ k.pc = "application" /\ k.org = m.org /\ k.arg = a /\ k.email = name
        /\ k.set = deps /\ k.graph = graph
        /\ k.flow = m.flow /\ k.key = m.key /\ k.window = m.window
    BY <1>3, <1>7 DEF Call
  <2>3. a \notin deps /\ Inside(m.org, deps)
    BY <1>5, <1>8, Parts DEF ValidDependencies, Inside, Existing, TablesHold
  <2>4. Fits(k)
    BY <1>3, <2>2, <2>3 DEF Fits
  <2>5. Turns(c, k)
    BY <1>3, <1>8, <2>1, <2>4, Parts, StepTo
  <2>6. QED
    BY <1>2, <1>4, <1>8, <2>2, <2>5 DEF CheckDone, SameMarks
<1>9. End(c) \/ (call' = [call EXCEPT ![c] = k] /\ ValidDependencies(m.org, a, deps))
  BY <1>2, <1>4, <1>7, Parts DEF CheckApplication, CallsFit
<1>10. QED
  BY <1>1, <1>8, <1>9

LEMMA CheckTurns ==
  ASSUME KeysHold, NEW c \in Calls, Check(c)
  PROVE  UNCHANGED <<tables, repository, rest>> /\ \E k : CheckDone(c, k)
<1>1. UNCHANGED <<tables, repository, rest>>
  BY DEF Check, LoginUser, LoginOrganization, LoginPassword, CheckOrganization, CheckMember,
         CheckInvite, CheckApplication
<1>2. QED
  BY <1>1, LoginUserTurns, LoginOrganizationTurns, LoginPasswordTurns, CheckOrganizationTurns,
     CheckMemberTurns, CheckInviteTurns, CheckApplicationTurns DEF Check

\* The answer of the counter: a number for the attempt, in the current window or in
\* a new one.
LEMMA Allowed ==
  ASSUME RepositoryHolds, NEW k \in Keys
  PROVE  /\ Allow(k).allowed \in BOOLEAN /\ Allow(k).next \in Counted
         /\ \/ Allow(k).next.window = attempts[k].window + 1 /\ Allow(k).next.count = 1
            \/ /\ Allow(k).next.window = attempts[k].window
               /\ Allow(k).next.count = attempts[k].count + 1
               /\ Allow(k).allowed => attempts[k].count < Limit
<1>1. attempts[k] \in Counted /\ now \in Nat /\ Window \in Nat /\ Limit \in Nat
  BY EnterpriseAssumption DEF RepositoryHolds
<1>2. PICK n : n = [count |-> 1, until |-> now + Window, window |-> attempts[k].window + 1]
  OBVIOUS
<1>3. n \in Counted /\ n.count = 1 /\ n.window = attempts[k].window + 1
  BY <1>1, <1>2 DEF Counted
<1>4. PICK m : m = [attempts[k] EXCEPT !.count = @ + 1]
  OBVIOUS
<1>5. m \in Counted /\ m.count = attempts[k].count + 1 /\ m.window = attempts[k].window
  BY <1>1, <1>4 DEF Counted
<1>6. \/ Allow(k) = [allowed |-> TRUE, next |-> n]
      \/ Allow(k) = [allowed |-> attempts[k].count < Limit, next |-> m]
  BY <1>2, <1>4 DEF Allow
<1>7. PICK r : r = Allow(k)
  OBVIOUS
<1>8. CASE r = [allowed |-> TRUE, next |-> n]
  BY <1>3, <1>7, <1>8
<1>9. CASE r = [allowed |-> attempts[k].count < Limit, next |-> m]
  <2>1. r.next = m
    BY <1>9
  <2>2. CASE attempts[k].count < Limit
    <3>1. r = [allowed |-> TRUE, next |-> m]
      BY <1>9, <2>2, Zenon
    <3>2. QED
      BY <1>5, <1>7, <2>2, <3>1
  <2>3. CASE ~(attempts[k].count < Limit)
    <3>1. (attempts[k].count < Limit) = FALSE
      BY <1>1, <2>3
    <3>2. r = [allowed |-> FALSE, next |-> m]
      BY <1>9, <3>1, Zenon
    <3>3. QED
      BY <1>5, <1>7, <3>2
  <2>4. QED
    BY <2>2, <2>3
<1>10. r = [allowed |-> TRUE, next |-> n] \/ r = [allowed |-> attempts[k].count < Limit, next |-> m]
  BY <1>6, <1>7
<1>11. QED
  BY <1>8, <1>9, <1>10

\* An attempt that is counted: the call goes on with the number of the window, or ends.
Attempts(c, k, l) ==
  /\ Turns(c, l) /\ l.pc \notin {"member", "application"} /\ l.flow = None
  /\ attempts' = [attempts EXCEPT ![k] = Allow(k).next]
  /\ l.key = None \/ (l.key = k /\ l.window = Allow(k).next.window /\ Allow(k).allowed)

LEMMA AttemptTurns ==
  ASSUME KeysHold, NEW c \in Calls, NEW k \in Keys, NEW m \in Call, Fits(m), m.flow = None,
         m.key = None, m.pc \notin {"member", "application"}, Attempt(c, k, m)
  PROVE  \E l : Attempts(c, k, l)
<1>1. PICK n : n = Allow(k).next
  OBVIOUS
<1>2. n \in Counted
  BY <1>1, Parts, Allowed
<1>3. PICK l : l = [[m EXCEPT !.key = k] EXCEPT !.window = n.window]
  OBVIOUS
<1>4. /\ l \in Call /\ l.pc = m.pc /\ l.user = m.user /\ l.email = m.email /\ l.org = m.org
      /\ l.arg = m.arg /\ l.sub = m.sub /\ l.set = m.set /\ l.flow = m.flow
      /\ l.key = k /\ l.window = n.window
  BY <1>2, <1>3 DEF Call, Counted
<1>5. Fits(l)
  BY <1>4 DEF Fits
<1>6. PICK d : d = [Idle EXCEPT !.pc = "done"]
  OBVIOUS
<1>7. d \in Call /\ d.pc = "done" /\ d.key = None /\ d.flow = None
  BY <1>6, IdleShape DEF Call, Idle
<1>8. Fits(d)
  BY <1>7, FitsEnd
<1>9. /\ UNCHANGED tables /\ attempts' = [attempts EXCEPT ![k] = n]
      /\ call' = [call EXCEPT ![c] = IF Allow(k).allowed THEN l ELSE d]
  BY <1>1, <1>3, <1>6 DEF Attempt
<1>10. CASE Allow(k).allowed
  <2>1. Turns(c, l)
    BY <1>4, <1>5, <1>9, <1>10, Parts, StepTo
  <2>2. QED
    BY <1>1, <1>4, <1>9, <1>10, <2>1 DEF Attempts
<1>11. CASE ~Allow(k).allowed
  <2>1. Turns(c, d)
    BY <1>7, <1>8, <1>9, <1>11, Parts, StepTo
  <2>2. QED
    BY <1>1, <1>7, <1>9, <2>1 DEF Attempts
<1>12. QED
  BY <1>10, <1>11

LEMMA RegisterTurns ==
  ASSUME KeysHold, NEW c \in Calls, NEW o \in Orgs, NEW e \in Emails,
         HandleRegisterEnterprise(c, o, e)
  PROVE  \E k \in Keys : \E l : Attempts(c, k, l)
<1>1. PICK m : m = [Idle EXCEPT !.pc = "register", !.org = o, !.email = e]
  OBVIOUS
<1>2. /\ m \in Call /\ m.pc = "register" /\ m.org = o /\ m.email = e /\ m.flow = None
      /\ m.key = None
  BY <1>1, IdleShape DEF Call, Idle
<1>3. Fits(m)
  BY <1>2 DEF Fits
<1>4. "register" \in Keys /\ Attempt(c, "register", m)
  BY <1>1 DEF Keys, HandleRegisterEnterprise
<1>5. QED
  BY <1>2, <1>3, <1>4, AttemptTurns

LEMMA LocalLoginTurns ==
  ASSUME KeysHold, NEW c \in Calls, NEW e \in Emails, NEW right \in BOOLEAN,
         HandleLocalLogin(c, e, right)
  PROVE  \E k \in Keys : \E l : Attempts(c, k, l)
<1>1. PICK m : m = [Idle EXCEPT !.pc = "login", !.email = e, !.good = right]
  OBVIOUS
<1>2. m \in Call /\ m.pc = "login" /\ m.email = e /\ m.flow = None /\ m.key = None
  BY <1>1, IdleShape DEF Call, Idle
<1>3. Fits(m)
  BY <1>2 DEF Fits
<1>4. e \in Keys /\ Attempt(c, e, m)
  BY <1>1 DEF Keys, HandleLocalLogin
<1>5. QED
  BY <1>2, <1>3, <1>4, AttemptTurns

LEMMA AcceptTurns ==
  ASSUME KeysHold, NEW c \in Calls, NEW i \in Invites, HandleAcceptInvite(c, i)
  PROVE  \E k \in Keys : \E l : Attempts(c, k, l)
<1>1. PICK d : d = [Idle EXCEPT !.pc = "done"]
  OBVIOUS
<1>2. d \in Call /\ d.pc = "done" /\ d.key = None /\ d.flow = None
  BY <1>1, IdleShape DEF Call, Idle
<1>3. PICK e : e = invites[i].email
  OBVIOUS
<1>4. PICK m : m = [Idle EXCEPT !.pc = "accept", !.arg = i, !.email = e]
  OBVIOUS
<1>5. "invite" \in Keys
  BY DEF Keys
<1>6. Attempt(c, "invite", IF IsOpen(i) /\ invites[i].hash THEN m ELSE d)
  BY <1>1, <1>3, <1>4 DEF HandleAcceptInvite
<1>7. CASE IsOpen(i) /\ invites[i].hash
  <2>1. i \in Existing(invites) /\ invites[i] \in Invitation
    BY <1>7, Parts DEF IsOpen, Existing, TablesHold
  <2>2. e \in Emails
    BY <1>3, <2>1 DEF Invitation
  <2>3. /\ m \in Call /\ m.pc = "accept" /\ m.arg = i /\ m.email = e /\ m.flow = None
        /\ m.key = None
    BY <1>4, <2>2, IdleShape DEF Call, Idle
  <2>4. Fits(m)
    BY <2>1, <2>2, <2>3 DEF Fits
  <2>5. Attempt(c, "invite", m)
    BY <1>6, <1>7
  <2>6. QED
    BY <1>5, <2>3, <2>4, <2>5, AttemptTurns
<1>8. CASE ~(IsOpen(i) /\ invites[i].hash)
  <2>1. Attempt(c, "invite", d)
    BY <1>6, <1>8
  <2>2. Fits(d)
    BY <1>2, FitsEnd
  <2>3. QED
    BY <1>2, <1>5, <2>1, <2>2, AttemptTurns
<1>9. QED
  BY <1>7, <1>8

LEMMA CallbackTurns ==
  ASSUME KeysHold, NEW c \in Calls, NEW f \in Flows, NEW s \in Subjects, NEW e \in EmailsOf[s],
         HandleCallback(c, f, s, e)
  PROVE  \E k : /\ Turns(c, k) /\ k.pc \notin {"member", "application"} /\ k.key = None
                /\ k.flow \in {None, f} /\ flows[f].state = "open"
                /\ flows' = [flows EXCEPT ![f].state = "taken"]
<1>1. PICK d : d = [Idle EXCEPT !.pc = "done"]
  OBVIOUS
<1>2. d \in Call /\ d.pc = "done" /\ d.key = None /\ d.flow = None
  BY <1>1, IdleShape DEF Call, Idle
<1>3. e \in Emails
  BY EnterpriseAssumption
<1>4. PICK k : k = [Idle EXCEPT !.pc = "sso", !.flow = f, !.sub = s, !.email = e]
  OBVIOUS
<1>5. /\ k \in Call /\ k.pc = "sso" /\ k.flow = f /\ k.sub = s /\ k.email = e /\ k.key = None
  BY <1>3, <1>4, IdleShape DEF Call, Idle
<1>6. Fits(k)
  BY <1>3, <1>5 DEF Fits
<1>7. Fits(d)
  BY <1>2, FitsEnd
<1>8. /\ UNCHANGED tables /\ flows[f].state = "open"
      /\ flows' = [flows EXCEPT ![f].state = "taken"]
      /\ call' = [call EXCEPT ![c] = k] \/ call' = [call EXCEPT ![c] = d]
  BY <1>1, <1>4 DEF HandleCallback
<1>9. CASE call' = [call EXCEPT ![c] = k]
  BY <1>5, <1>6, <1>8, <1>9, Parts, StepTo
<1>10. CASE call' = [call EXCEPT ![c] = d]
  BY <1>2, <1>7, <1>8, <1>10, Parts, StepTo
<1>11. QED
  BY <1>8, <1>9, <1>10

\* The middleware lets the member of a live session in.
LEMMA EnterTurns ==
  ASSUME KeysHold, NEW c \in Calls, NEW t \in Tokens, Enter(c, t)
  PROVE  /\ \E k : Turns(c, k) /\ SameMarks(c, k) /\ k.pc \notin {"member", "application"}
         /\ sessions' = sessions \/ sessions' = [sessions EXCEPT ![t] = None]
<1>1. CASE End(c) /\ sessions' = [sessions EXCEPT ![t] = None]
  <2>1. PICK k : Turns(c, k) /\ SameMarks(c, k) /\ k.pc = "done"
    BY <1>1, Parts, EndTurns
  <2>2. QED
    BY <1>1, <2>1
<1>2. PICK u : u = sessions[t].user
  OBVIOUS
<1>3. PICK o : o = users[u].org
  OBVIOUS
<1>4. PICK pc : pc = IF users[u].admin THEN "entered" ELSE "done"
  OBVIOUS
<1>5. PICK k : k = [Idle EXCEPT !.user = u, !.org = o, !.pc = pc]
  OBVIOUS
<1>6. sessions[t] # None /\ UNCHANGED tables
  BY DEF Enter
<1>7. u \in Members /\ u \in Users /\ o \in Existing(orgs) /\ o \in Orgs
  BY <1>2, <1>3, <1>6, Parts, Rows DEF RepositoryHolds, TablesHold, Existing
<1>8. /\ k \in Call /\ k.pc \in {"entered", "done"} /\ k.org = o /\ k.user = u
      /\ k.flow = None /\ k.key = None
  <2>1. pc \in {"entered", "done"}
    BY <1>4
  <2>2. k \in Call
    BY <1>5, <1>7, <2>1, IdleShape DEF Call
  <2>3. k.pc = pc /\ k.org = o /\ k.user = u /\ k.flow = None /\ k.key = None
    BY <1>5 DEF Idle
  <2>4. QED
    BY <2>1, <2>2, <2>3
<1>9. Fits(k)
  BY <1>7, <1>8 DEF Fits
<1>10. CASE call' = [call EXCEPT ![c] = k] /\ sessions' = sessions
  <2>1. Turns(c, k)
    BY <1>6, <1>8, <1>9, <1>10, Parts, StepTo
  <2>2. QED
    BY <1>8, <1>10, <2>1 DEF SameMarks
<1>11. \/ End(c) /\ sessions' = [sessions EXCEPT ![t] = None]
       \/ call' = [call EXCEPT ![c] = k] /\ sessions' = sessions
  BY <1>2, <1>3, <1>4, <1>5 DEF Enter
<1>12. QED
  BY <1>1, <1>10, <1>11

\* The repository when the tables grow.
LEMMA RepositoryStays ==
  ASSUME RepositoryHolds, Grown, UNCHANGED <<now, flows>>, reloads' \in 0..MaxReloads,
         sessions' \in [Tokens -> Session \cup {None}], attempts' \in [Keys -> Counted],
         overtaken' \subseteq Orgs \X {"admins", "dependencies"},
         \A t \in Tokens : sessions'[t] # None =>
           sessions'[t] = sessions[t] \/ sessions'[t].user \in Members'
  PROVE  RepositoryHolds'
<1>1. ASSUME NEW t \in Existing(sessions') PROVE sessions'[t].user \in Members'
  <2>1. t \in Tokens /\ sessions'[t] # None
    BY DEF Existing
  <2>2. CASE sessions'[t] = sessions[t]
    <3>1. t \in Existing(sessions)
      BY <2>1, <2>2 DEF Existing, RepositoryHolds
    <3>2. QED
      BY <2>2, <3>1 DEF RepositoryHolds, Grown
  <2>3. QED
    BY <2>1, <2>2
<1>2. QED
  BY <1>1 DEF RepositoryHolds

\* What every step keeps.
Kept == Method /\ RepositoryHolds' /\ CallsFit'

LEMMA CheckKeeps ==
  ASSUME KeysHold, NEW c \in Calls, Check(c)
  PROVE  Kept
<1>1. UNCHANGED <<tables, repository, rest>>
  BY CheckTurns
<1>2. PICK k : Turns(c, k)
  BY CheckTurns DEF CheckDone
<1>3. Method
  BY <1>1, Parts, NoMethod
<1>4. CallsFit'
  BY <1>2, <1>3, Parts, Turned DEF Method
<1>5. RepositoryHolds'
  BY <1>1, <1>3, Parts, RepositoryStays DEF Method, repository, rest, RepositoryHolds
<1>6. QED
  BY <1>3, <1>4, <1>5 DEF Kept

LEMMA AttemptKeeps ==
  ASSUME KeysHold, NEW c \in Calls, NEW k \in Keys, NEW l, Attempts(c, k, l),
         UNCHANGED <<tables, sessions, flows, rest>>
  PROVE  Kept
<1>1. Method
  BY Parts, NoMethod
<1>2. CallsFit'
  BY <1>1, Parts, Turned DEF Method, Attempts
<1>3. attempts' \in [Keys -> Counted]
  BY Parts, Allowed DEF Attempts, RepositoryHolds
<1>4. RepositoryHolds'
  BY <1>1, <1>3, Parts, RepositoryStays DEF Method, rest, RepositoryHolds
<1>5. QED
  BY <1>1, <1>2, <1>4 DEF Kept

LEMMA StartKeeps ==
  ASSUME KeysHold, NEW c \in Calls, Start(c)
  PROVE  Kept
<1>1. ASSUME NEW o \in Orgs, NEW e \in Emails, HandleRegisterEnterprise(c, o, e) PROVE Kept
  BY <1>1, RegisterTurns, AttemptKeeps DEF HandleRegisterEnterprise, Attempt
<1>2. ASSUME NEW e \in Emails, NEW right \in BOOLEAN, HandleLocalLogin(c, e, right) PROVE Kept
  BY <1>2, LocalLoginTurns, AttemptKeeps DEF HandleLocalLogin, Attempt
<1>3. ASSUME NEW i \in Invites, HandleAcceptInvite(c, i) PROVE Kept
  BY <1>3, AcceptTurns, AttemptKeeps DEF HandleAcceptInvite, Attempt
<1>4. ASSUME NEW f \in Flows, NEW s \in Subjects, NEW e \in EmailsOf[s], HandleCallback(c, f, s, e)
      PROVE  Kept
  <2>1. PICK k : /\ Turns(c, k) /\ flows[f].state = "open"
                 /\ flows' = [flows EXCEPT ![f].state = "taken"]
    BY <1>4, CallbackTurns
  <2>2. UNCHANGED <<tables, sessions, attempts, rest>>
    BY <1>4 DEF HandleCallback
  <2>3. Method
    BY <2>2, Parts, NoMethod
  <2>4. CallsFit'
    BY <2>1, <2>3, Parts, Turned DEF Method
  <2>5. flows' \in [Flows -> Flow]
    BY <2>1, Parts DEF RepositoryHolds, Flow
  <2>6. RepositoryHolds'
    BY <2>2, <2>5, Parts DEF RepositoryHolds, rest, tables, Members, Existing
  <2>7. QED
    BY <2>3, <2>4, <2>6 DEF Kept
<1>5. ASSUME NEW t \in Tokens, Enter(c, t) \/ HandleLogout(c, t) PROVE Kept
  <2>1. UNCHANGED <<tables, flows, attempts, rest>>
    BY <1>5 DEF Enter, HandleLogout
  <2>2. PICK k : Turns(c, k)
    BY <1>5, Parts, EnterTurns, EndTurns DEF HandleLogout
  <2>3. sessions' = sessions \/ sessions' = [sessions EXCEPT ![t] = None]
    BY <1>5, EnterTurns DEF HandleLogout
  <2>4. Method
    BY <2>1, Parts, NoMethod
  <2>5. CallsFit'
    BY <2>2, <2>4, Parts, Turned DEF Method
  <2>6. /\ sessions' \in [Tokens -> Session \cup {None}]
        /\ \A s \in Tokens : sessions'[s] # None => sessions'[s] = sessions[s]
    BY <2>3, Parts DEF RepositoryHolds
  <2>7. RepositoryHolds'
    BY <2>1, <2>4, <2>6, Parts, RepositoryStays DEF Method, rest, RepositoryHolds
  <2>8. QED
    BY <2>4, <2>5, <2>7 DEF Kept
<1>6. QED
  BY <1>1, <1>2, <1>3, <1>4, <1>5 DEF Start

\* A method of the store that leaves the session repository alone.
LEMMA MethodKeeps ==
  ASSUME KeysHold, Method, NEW c \in Calls, NEW k, Turns(c, k), UNCHANGED <<repository, now>>,
         reloads' \in 0..MaxReloads, overtaken' \subseteq Orgs \X {"admins", "dependencies"}
  PROVE  Kept
<1>1. CallsFit'
  BY Parts, Turned DEF Method
<1>2. RepositoryHolds'
  BY Parts, RepositoryStays DEF Method, repository, RepositoryHolds
<1>3. QED
  BY <1>1, <1>2 DEF Kept

\* The call is about to create a session for u.
LEMMA SessionTurns ==
  ASSUME KeysHold, NEW c \in Calls, NEW u \in Users, u \in Members',
         call' = [call EXCEPT ![c].pc = "session", ![c].user = u]
  PROVE  \E k : Turns(c, k) /\ SameMarks(c, k) /\ k.pc = "session"
<1>1. PICK m : m = call[c]
  OBVIOUS
<1>2. m \in Call
  BY <1>1, Parts, Called
<1>3. PICK k : k = [[m EXCEPT !.pc = "session"] EXCEPT !.user = u]
  OBVIOUS
<1>4. call' = [call EXCEPT ![c] = k]
  BY <1>1, <1>3, Parts DEF CallsFit
<1>5. /\ k \in Call /\ k.pc = "session" /\ k.user = u /\ k.flow = m.flow /\ k.key = m.key
      /\ k.window = m.window
  BY <1>2, <1>3 DEF Call
<1>6. Fits(k)'
  BY <1>5 DEF Fits
<1>7. QED
  BY <1>1, <1>4, <1>5, <1>6 DEF Turns, SameMarks

\* What a change leaves the call with.
ChangeDone(c) == \E k : Turns(c, k) /\ SameMarks(c, k) /\ k.pc \in {"session", "done"}

LEMMA RegisterStep ==
  ASSUME KeysHold, NEW c \in Calls, RegisterEnterprise(c)
  PROVE  Method /\ ChangeDone(c) /\ Kept
<1>1. PICK m : m = call[c]
  OBVIOUS
<1>2. m \in Call /\ Fits(m) /\ m.pc = "register"
  BY <1>1, Parts, Called DEF RegisterEnterprise
<1>3. m.org \in Orgs /\ m.email \in Emails
  BY <1>2 DEF Fits
<1>4. PICK u : u = Fresh(users)
  OBVIOUS
<1>5. u \in Users /\ users[u] = None
  BY <1>4, Parts, FreshUser DEF RegisterEnterprise
<1>6. CreateEnterprise(m.org, u, m.email)
  BY <1>1, <1>4 DEF RegisterEnterprise
<1>7. Method
  BY <1>3, <1>5, <1>6, Parts, CreateEnterpriseStep
<1>8. u \in Members'
  <2>1. users' = [users EXCEPT ![u] = NewUser(m.org, m.email, TRUE, TRUE, None)]
    BY <1>6 DEF CreateEnterprise
  <2>2. NewUser(m.org, m.email, TRUE, TRUE, None) \in User
    BY <1>3 DEF NewUser, User
  <2>3. QED
    BY <1>5, <2>1, <2>2, Parts, NoneIsNone DEF TablesHold, Members, Existing
<1>9. call' = [call EXCEPT ![c].pc = "session", ![c].user = u]
  BY <1>4 DEF RegisterEnterprise
<1>10. PICK k : Turns(c, k) /\ SameMarks(c, k) /\ k.pc = "session"
  BY <1>5, <1>8, <1>9, SessionTurns
<1>11. UNCHANGED <<repository, rest>>
  BY DEF RegisterEnterprise
<1>12. Kept
  BY <1>7, <1>10, <1>11, Parts, MethodKeeps DEF rest, RepositoryHolds
<1>13. QED
  BY <1>7, <1>10, <1>12 DEF ChangeDone

LEMMA JoinByInviteStep ==
  ASSUME KeysHold, NEW c \in Calls, JoinByInvite(c)
  PROVE  Method /\ ChangeDone(c) /\ Kept
<1>1. PICK m : m = call[c]
  OBVIOUS
<1>2. m \in Call /\ Fits(m) /\ m.pc = "accept"
  BY <1>1, Parts, Called DEF JoinByInvite
<1>3. m.arg \in Existing(invites) /\ m.email \in Emails
  BY <1>2 DEF Fits
<1>4. PICK u : u = Fresh(users)
  OBVIOUS
<1>5. u \in Users /\ users[u] = None
  BY <1>4, Parts, FreshUser DEF JoinByInvite
<1>6. AcceptInvite(m.arg, u, m.email)
  BY <1>1, <1>4 DEF JoinByInvite
<1>7. Method
  BY <1>3, <1>5, <1>6, Parts, AcceptInviteStep
<1>8. u \in Members'
  <2>1. PICK o : o = invites[m.arg].org
    OBVIOUS
  <2>2. users' = [users EXCEPT ![u] = NewUser(o, m.email, FALSE, TRUE, None)]
    BY <1>6, <2>1 DEF AcceptInvite
  <2>3. o \in Orgs
    BY <1>3, <2>1, Parts, Rows DEF Invitation
  <2>4. NewUser(o, m.email, FALSE, TRUE, None) \in User
    BY <1>3, <2>3 DEF NewUser, User
  <2>5. QED
    BY <1>5, <2>2, <2>4, Parts, NoneIsNone DEF TablesHold, Members, Existing
<1>9. call' = [call EXCEPT ![c].pc = "session", ![c].user = u]
  BY <1>4 DEF JoinByInvite
<1>10. PICK k : Turns(c, k) /\ SameMarks(c, k) /\ k.pc = "session"
  BY <1>5, <1>8, <1>9, SessionTurns
<1>11. UNCHANGED <<repository, rest>>
  BY DEF JoinByInvite
<1>12. Kept
  BY <1>7, <1>10, <1>11, Parts, MethodKeeps DEF rest, RepositoryHolds
<1>13. QED
  BY <1>7, <1>10, <1>12 DEF ChangeDone

LEMMA SignInStep ==
  ASSUME KeysHold, NEW c \in Calls, SignIn(c)
  PROVE  Method /\ ChangeDone(c) /\ Kept
<1>1. PICK m : m = call[c]
  OBVIOUS
<1>2. m \in Call /\ Fits(m) /\ m.pc = "sso"
  BY <1>1, Parts, Called DEF SignIn
<1>3. m.sub \in Subjects /\ m.email \in Emails
  BY <1>2 DEF Fits
<1>4. PICK u \in Users :
        /\ \/ SignInExisting(u, m.sub, m.email)
           \/ /\ HasRoom(users) /\ u = Fresh(users)
              /\ \/ \E i \in Invites : SignInByInvite(i, u, m.sub, m.email)
                 \/ \E o \in Orgs : SignInByDomain(o, u, m.sub, m.email)
        /\ call' = [call EXCEPT ![c].pc = "session", ![c].user = u]
  BY <1>1 DEF SignIn
<1>5. Method /\ u \in Members'
  <2>1. CASE SignInExisting(u, m.sub, m.email)
    BY <1>3, <2>1, Parts, SignInExistingStep
  <2>2. ASSUME HasRoom(users), u = Fresh(users), NEW i \in Invites,
               SignInByInvite(i, u, m.sub, m.email)
        PROVE  Method /\ u \in Members'
    <3>1. users[u] = None
      BY <2>2, Parts, FreshUser
    <3>2. PICK o : o = invites[i].org
      OBVIOUS
    <3>3. users' = [users EXCEPT ![u] = NewUser(o, m.email, FALSE, FALSE, m.sub)]
      BY <2>2, <3>2 DEF SignInByInvite
    <3>4. i \in Existing(invites)
      BY <2>2, Parts DEF SignInByInvite, InvitesFor, IsOpen, Existing, TablesHold
    <3>5. o \in Orgs
      BY <3>2, <3>4, Parts, Rows DEF Invitation
    <3>6. NewUser(o, m.email, FALSE, FALSE, m.sub) \in User
      BY <1>3, <3>5 DEF NewUser, User
    <3>7. u \in Members'
      BY <3>3, <3>6, Parts, NoneIsNone DEF TablesHold, Members, Existing
    <3>8. Method
      BY <1>3, <2>2, <3>1, Parts, SignInByInviteStep
    <3>9. QED
      BY <3>7, <3>8
  <2>3. ASSUME HasRoom(users), u = Fresh(users), NEW o \in Orgs,
               SignInByDomain(o, u, m.sub, m.email)
        PROVE  Method /\ u \in Members'
    <3>1. users[u] = None
      BY <2>3, Parts, FreshUser
    <3>2. users' = [users EXCEPT ![u] = NewUser(o, m.email, FALSE, FALSE, m.sub)]
      BY <2>3 DEF SignInByDomain
    <3>3. NewUser(o, m.email, FALSE, FALSE, m.sub) \in User
      BY <1>3 DEF NewUser, User
    <3>4. u \in Members'
      BY <3>2, <3>3, Parts, NoneIsNone DEF TablesHold, Members, Existing
    <3>5. Method
      BY <1>3, <2>3, <3>1, Parts, SignInByDomainStep
    <3>6. QED
      BY <3>4, <3>5
  <2>4. QED
    BY <1>4, <2>1, <2>2, <2>3
<1>6. PICK k : Turns(c, k) /\ SameMarks(c, k) /\ k.pc = "session"
  BY <1>4, <1>5, SessionTurns
<1>7. UNCHANGED <<repository, rest>>
  BY DEF SignIn
<1>8. Kept
  BY <1>5, <1>6, <1>7, Parts, MethodKeeps DEF rest, RepositoryHolds
<1>9. QED
  BY <1>5, <1>6, <1>8 DEF ChangeDone

\* A method after which the request is answered.
LEMMA MethodEnds ==
  ASSUME KeysHold, Method, NEW c \in Calls, End(c), UNCHANGED <<repository, now>>,
         reloads' \in 0..MaxReloads, overtaken' \subseteq Orgs \X {"admins", "dependencies"}
  PROVE  Method /\ ChangeDone(c) /\ Kept
<1>1. PICK k : Turns(c, k) /\ SameMarks(c, k) /\ k.pc = "done"
  BY Parts, EndTurns
<1>2. Kept
  BY <1>1, MethodKeeps
<1>3. QED
  BY <1>1, <1>2 DEF ChangeDone

LEMMA ChangeOrganizationStep ==
  ASSUME KeysHold, NEW c \in Calls, ChangeOrganization(c)
  PROVE  Method /\ ChangeDone(c) /\ Kept
<1>1. PICK m : m = call[c]
  OBVIOUS
<1>2. m \in Call /\ Fits(m) /\ m.pc = "organization"
  BY <1>1, Parts, Called DEF ChangeOrganization
<1>3. /\ m.org \in Existing(orgs) /\ m.set \in SUBSET Domains
      /\ m.flag \in BOOLEAN /\ m.flag2 \in BOOLEAN
  BY <1>2 DEF Fits, Call
<1>4. UpdateOrganization(m.org, m.set, m.flag, m.flag2)
  BY <1>1 DEF ChangeOrganization
<1>5. Method
  BY <1>3, <1>4, Parts, UpdateOrganizationStep
<1>6. End(c) /\ UNCHANGED <<repository, rest>>
  BY DEF ChangeOrganization
<1>7. QED
  BY <1>5, <1>6, Parts, MethodEnds DEF rest, RepositoryHolds

LEMMA ChangeMemberStep ==
  ASSUME KeysHold, NEW c \in Calls, ChangeMember(c)
  PROVE  Method /\ ChangeDone(c) /\ Kept
<1>1. PICK m : m = call[c]
  OBVIOUS
<1>2. m \in Call /\ Fits(m) /\ m.pc = "member"
  BY <1>1, Parts, Called DEF ChangeMember
<1>3. /\ m.org \in Existing(orgs) /\ m.org \in Orgs /\ m.arg \in Users /\ m.set \in SUBSET Apps
      /\ m.flag \in BOOLEAN /\ m.flag2 \in BOOLEAN
  BY <1>2, Parts, Rows DEF Fits, Call, MembersOf
<1>4. UpdateMember(m.org, m.arg, m.flag, m.flag2, m.set)
  BY <1>1 DEF ChangeMember
<1>5. Method
  BY <1>3, <1>4, Parts, UpdateMemberStep
<1>6. End(c) /\ UNCHANGED <<repository, now, reloads>>
  BY DEF ChangeMember
<1>7. overtaken' \subseteq Orgs \X {"admins", "dependencies"}
  BY <1>1, <1>3, Parts DEF ChangeMember, RepositoryHolds
<1>8. QED
  BY <1>5, <1>6, <1>7, Parts, MethodEnds DEF RepositoryHolds

LEMMA InviteStep ==
  ASSUME KeysHold, NEW c \in Calls, Invite(c)
  PROVE  Method /\ ChangeDone(c) /\ Kept
<1>1. PICK m : m = call[c]
  OBVIOUS
<1>2. m \in Call /\ Fits(m) /\ m.pc = "invite"
  BY <1>1, Parts, Called DEF Invite
<1>3. m.org \in Existing(orgs) /\ m.email \in Emails /\ now + InviteTTL \in Nat
  BY <1>2, Parts, EnterpriseAssumption DEF Fits, RepositoryHolds
<1>4. PICK i : i = Fresh(invites)
  OBVIOUS
<1>5. i \in Invites /\ invites[i] = None
  BY <1>4, Parts, FreshInvite DEF Invite
<1>6. CreateInvite(m.org, i, m.email, now + InviteTTL)
  BY <1>1, <1>4 DEF Invite
<1>7. PICK t : t = now + InviteTTL
  OBVIOUS
<1>8. t \in Nat /\ CreateInvite(m.org, i, m.email, t)
  BY <1>3, <1>6, <1>7
<1>9. Method
  BY <1>3, <1>5, <1>8, Parts, CreateInviteStep
<1>10. End(c) /\ UNCHANGED <<repository, rest>>
  BY DEF Invite
<1>11. QED
  BY <1>9, <1>10, Parts, MethodEnds DEF rest, RepositoryHolds

LEMMA RevokeStep ==
  ASSUME KeysHold, NEW c \in Calls, NEW i \in Invites, Revoke(c, i)
  PROVE  Method /\ ChangeDone(c) /\ Kept
<1>1. PICK o : o = call[c].org
  OBVIOUS
<1>2. RevokeInvite(o, i)
  BY <1>1 DEF Revoke
<1>3. Method
  BY <1>2, Parts, RevokeInviteStep
<1>4. End(c) /\ UNCHANGED <<repository, rest>>
  BY DEF Revoke
<1>5. QED
  BY <1>3, <1>4, Parts, MethodEnds DEF rest, RepositoryHolds

LEMMA ChangeApplicationStep ==
  ASSUME KeysHold, NEW c \in Calls, ChangeApplication(c)
  PROVE  Method /\ ChangeDone(c) /\ Kept
<1>1. PICK m : m = call[c]
  OBVIOUS
<1>2. m \in Call /\ Fits(m) /\ m.pc = "application"
  BY <1>1, Parts, Called DEF ChangeApplication
<1>3. /\ m.org \in Existing(orgs) /\ m.org \in Orgs /\ m.arg \in Apps /\ m.email \in AppNames
      /\ m.set \in SUBSET Apps /\ Inside(m.org, m.set)
  BY <1>2, Parts, Rows DEF Fits, Inside
<1>4. SaveApplication(m.org, m.arg, m.email, m.set)
  BY <1>1 DEF ChangeApplication
<1>5. Method
  BY <1>3, <1>4, Parts, SaveApplicationStep
<1>6. End(c) /\ UNCHANGED <<repository, now, reloads>>
  BY DEF ChangeApplication
<1>7. overtaken' \subseteq Orgs \X {"admins", "dependencies"}
  BY <1>1, <1>3, Parts DEF ChangeApplication, RepositoryHolds
<1>8. QED
  BY <1>5, <1>6, <1>7, Parts, MethodEnds DEF RepositoryHolds

LEMMA CreateSessionStep ==
  ASSUME KeysHold, NEW c \in Calls, CreateSession(c)
  PROVE  Method /\ ChangeDone(c) /\ Kept
<1>1. PICK m : m = call[c]
  OBVIOUS
<1>2. m \in Call /\ Fits(m) /\ m.pc = "session"
  BY <1>1, Parts, Called DEF CreateSession
<1>3. m.user \in Members /\ m.user \in Users
  BY <1>2, Parts, Rows DEF Fits
<1>4. UNCHANGED <<tables, flows, rest>> /\ End(c)
  BY DEF CreateSession
<1>5. Method
  BY <1>4, Parts, NoMethod
<1>6. PICK k : Turns(c, k) /\ SameMarks(c, k) /\ k.pc = "done"
  BY <1>4, Parts, EndTurns
<1>7. CallsFit'
  BY <1>5, <1>6, Parts, Turned DEF Method
<1>8. PICK s : s = [user |-> m.user, until |-> now + SessionTTL]
  OBVIOUS
<1>9. s \in Session /\ s.user = m.user
  BY <1>3, <1>8, Parts, EnterpriseAssumption DEF Session, RepositoryHolds
<1>10. sessions' = [sessions EXCEPT ![c] = s]
  BY <1>1, <1>8 DEF CreateSession
<1>11. /\ sessions' \in [Tokens -> Session \cup {None}]
       /\ \A t \in Tokens : sessions'[t] = sessions[t] \/ sessions'[t].user \in Members'
  BY <1>3, <1>5, <1>9, <1>10, Parts DEF RepositoryHolds, Method, Grown
<1>12. attempts' \in [Keys -> Counted]
  <2>1. CASE attempts' = attempts
    BY <2>1, Parts DEF RepositoryHolds
  <2>2. CASE attempts' = [attempts EXCEPT ![m.key].until = None]
    BY <2>2, Parts DEF RepositoryHolds, Counted
  <2>3. QED
    BY <1>1, <2>1, <2>2 DEF CreateSession
<1>13. RepositoryHolds'
  BY <1>4, <1>5, <1>11, <1>12, Parts, RepositoryStays DEF Method, rest, RepositoryHolds
<1>14. QED
  BY <1>5, <1>6, <1>7, <1>13 DEF ChangeDone, Kept

LEMMA RefusedStep ==
  ASSUME KeysHold, NEW c \in Calls, StoreRefuses(c)
  PROVE  Method /\ ChangeDone(c) /\ Kept
<1>1. Method
  BY Parts, NoMethod DEF StoreRefuses
<1>2. QED
  BY <1>1, Parts, MethodEnds DEF StoreRefuses, rest, RepositoryHolds

LEMMA FailedStep ==
  ASSUME KeysHold, NEW c \in Calls, SaveFails(c)
  PROVE  Method /\ ChangeDone(c) /\ Kept
<1>1. Method
  BY Parts, ReloadedStep DEF SaveFails
<1>2. reloads' \in 0..MaxReloads
  BY Parts, EnterpriseAssumption DEF SaveFails, RepositoryHolds
<1>3. QED
  BY <1>1, <1>2, Parts, MethodEnds DEF SaveFails, RepositoryHolds

LEMMA ChangeKeeps ==
  ASSUME KeysHold, NEW c \in Calls, Change(c)
  PROVE  Method /\ ChangeDone(c) /\ Kept
BY RegisterStep, SignInStep, JoinByInviteStep, ChangeOrganizationStep, ChangeMemberStep,
   InviteStep, RevokeStep, ChangeApplicationStep, CreateSessionStep, RefusedStep, FailedStep
   DEF Change

\* A restart ends every call; in-memory repositories are lost with it.
LEMMA RestartKeeps ==
  ASSUME KeysHold, NEW redis \in BOOLEAN, Restart(redis)
  PROVE  Kept
<1>1. Method
  BY Parts, ReloadedStep DEF Restart
<1>2. call' = [c \in Calls |-> IF call[c].pc = "idle" THEN call[c] ELSE Answered(call[c])]
  BY DEF Restart
<1>3. ASSUME NEW c \in Calls
      PROVE  call'[c] \in Call /\ call'[c].pc \in {"idle", "done"}
  <2>1. PICK m : m = call[c]
    OBVIOUS
  <2>2. m \in Call
    BY <2>1, Parts, Called
  <2>3. Answered(m) \in Call /\ Answered(m).pc = "done"
    BY <2>2, AnsweredShape
  <2>4. call'[c] = IF m.pc = "idle" THEN m ELSE Answered(m)
    BY <1>2, <2>1
  <2>5. QED
    BY <2>2, <2>3, <2>4
<1>4. call' \in [Calls -> Call]
  BY <1>2, <1>3
<1>5. \A c \in Calls : Fits(call[c])'
  BY <1>3 DEF Fits
<1>6. now' = now /\ overtaken' = overtaken /\ reloads' \in 0..MaxReloads /\ Members' = Members
  BY Parts, EnterpriseAssumption DEF Restart, RepositoryHolds, Members, Existing
<1>7. ASSUME redis PROVE RepositoryHolds'
  BY <1>6, <1>7, Parts DEF Restart, repository, RepositoryHolds, Existing
<1>8. ASSUME ~redis PROVE RepositoryHolds'
  <2>1. /\ sessions' = [t \in Tokens |-> None]
        /\ flows' = [f \in Flows |-> IF flows[f].state = "none" THEN flows[f]
                                    ELSE [flows[f] EXCEPT !.state = "taken"]]
        /\ attempts' = [k \in Keys |-> [attempts[k] EXCEPT !.until = None]]
    BY <1>8 DEF Restart
  <2>2. flows' \in [Flows -> Flow]
    BY <2>1, Parts DEF RepositoryHolds, Flow
  <2>3. attempts' \in [Keys -> Counted]
    BY <2>1, Parts DEF RepositoryHolds, Counted
  <2>4. QED
    BY <1>6, <2>1, <2>2, <2>3, Parts DEF RepositoryHolds, Existing
<1>9. RepositoryHolds'
  BY <1>7, <1>8
<1>10. QED
  BY <1>1, <1>4, <1>5, <1>9 DEF Kept, CallsFit

LEMMA HandleLoginKeeps ==
  ASSUME KeysHold, NEW f \in Flows, HandleLogin(f)
  PROVE  Kept
<1>1. Method
  BY Parts, NoMethod DEF HandleLogin
<1>2. CallsFit'
  BY <1>1, Parts, CallsStay DEF Method, HandleLogin
<1>3. flows' \in [Flows -> Flow]
  BY Parts, EnterpriseAssumption DEF HandleLogin, RepositoryHolds, Flow
<1>4. RepositoryHolds'
  BY <1>3, Parts DEF HandleLogin, RepositoryHolds, rest, tables, Members, Existing
<1>5. QED
  BY <1>1, <1>2, <1>4 DEF Kept

LEMMA TickKeeps ==
  ASSUME KeysHold, Tick
  PROVE  Kept
<1>1. Method
  BY Parts, NoMethod DEF Tick
<1>2. CallsFit'
  BY <1>1, Parts, CallsStay DEF Method, Tick
<1>3. RepositoryHolds'
  BY Parts, EnterpriseAssumption DEF Tick, RepositoryHolds, repository, tables, Members, Existing
<1>4. QED
  BY <1>1, <1>2, <1>3 DEF Kept

LEMMA StutterKeeps ==
  ASSUME KeysHold, UNCHANGED vars
  PROVE  Kept
<1>1. Method
  BY Parts, NoMethod DEF vars, tables
<1>2. CallsFit'
  BY <1>1, Parts, CallsStay DEF Method, vars
<1>3. RepositoryHolds'
  BY Parts DEF vars, RepositoryHolds, Members, Existing
<1>4. QED
  BY <1>1, <1>2, <1>3 DEF Kept

LEMMA EveryStepKeeps ==
  ASSUME KeysHold, [Next]_vars
  PROVE  Kept
<1>1. ASSUME NEW c \in Calls, Start(c) \/ Check(c) \/ Change(c) PROVE Kept
  BY <1>1, StartKeeps, CheckKeeps, ChangeKeeps
<1>2. ASSUME NEW f \in Flows, HandleLogin(f) PROVE Kept
  BY <1>2, HandleLoginKeeps
<1>3. ASSUME NEW redis \in BOOLEAN, Restart(redis) PROVE Kept
  BY <1>3, RestartKeeps
<1>4. CASE Tick
  BY <1>4, TickKeeps
<1>5. CASE UNCHANGED vars
  BY <1>5, StutterKeeps
<1>6. QED
  BY <1>1, <1>2, <1>3, <1>4, <1>5 DEF Next

LEMMA KeysStep == KeysHold /\ [Next]_vars => KeysHold'
<1> SUFFICES ASSUME KeysHold, [Next]_vars PROVE KeysHold'
  OBVIOUS
<1>1. TablesHold' /\ RepositoryHolds' /\ CallsFit'
  BY EveryStepKeeps DEF Kept, Method
<1>2. QED
  BY <1>1 DEF KeysHold, TypeOK, References, TablesHold, RepositoryHolds, CallsFit

\* The first state: the tables of Seed, and nobody at work.
LEMMA InitKeys == Init => KeysHold
<1> SUFFICES ASSUME Init PROVE KeysHold
  OBVIOUS
<1>1. /\ users = Seed.users /\ orgs = Seed.orgs /\ invites = Seed.invites /\ apps = Seed.apps
      /\ joined = Seed.joined /\ sessions = Seed.sessions /\ grants = {} /\ renamed = {}
      /\ now = 0 /\ reloads = 0 /\ overtaken = {}
  BY DEF Init
<1>2. /\ users \in [Users -> User \cup {None}] /\ orgs \in [Orgs -> Organization \cup {None}]
      /\ invites \in [Invites -> Invitation \cup {None}]
      /\ apps \in [Apps -> Application \cup {None}]
      /\ joined \in [Users -> Invites \cup {"founder", "domain", None}]
      /\ sessions \in [Tokens -> Session \cup {None}]
  BY <1>1, SeedAssumption
<1>3. /\ \A u \in Existing(users) : orgs[users[u].org] # None
      /\ \A i \in Existing(invites) : orgs[invites[i].org] # None
      /\ \A a \in Existing(apps) :
           /\ orgs[apps[a].org] # None
           /\ \A d \in apps[a].deps : d \in Existing(apps) /\ apps[d].org = apps[a].org
      /\ \A t \in Existing(sessions) : sessions[t].user \in Existing(users)
  BY <1>1, SeedAssumption
<1>4. /\ \A u, v \in Existing(users) : users[u].email = users[v].email => u = v
      /\ \A u, v \in Existing(users) :
           users[u].sub = users[v].sub => users[u].sub = None \/ u = v
      /\ \A o, p \in Existing(orgs) : o # p /\ orgs[o].join /\ orgs[p].join =>
           orgs[o].domains \cap orgs[p].domains = {}
      /\ \A a, b \in Existing(apps) :
           a # b /\ apps[a].org = apps[b].org => apps[a].name # apps[b].name
  BY <1>1, SeedAssumption
<1>5. /\ \A u \in Existing(users) : users[u] \in User
      /\ \A i \in Existing(invites) : invites[i] \in Invitation
      /\ \A a \in Existing(apps) : apps[a] \in Application
  BY <1>2 DEF Existing
<1>6. /\ \A u \in Members : users[u].org \in Existing(orgs)
      /\ \A i \in Existing(invites) : invites[i].org \in Existing(orgs)
      /\ \A a \in Existing(apps) :
           apps[a].org \in Existing(orgs) /\ Inside(apps[a].org, apps[a].deps)
  <2>1. \A o \in Orgs : orgs[o] # None => o \in Existing(orgs)
    BY <1>2 DEF Existing
  <2>2. QED
    BY <1>3, <1>5, <2>1 DEF Members, Inside, User, Invitation, Application
<1>7. /\ EmailsUnique /\ SubjectsUnique /\ DomainsDisjoint /\ GrantsInside /\ ApplicationsDistinct
  BY <1>1, <1>4 DEF EmailsUnique, SubjectsUnique, DomainsDisjoint, ClaimedByOther, GrantsInside,
                    ApplicationsDistinct, Members
<1>8. TablesHold
  BY <1>1, <1>2, <1>6, <1>7 DEF TablesHold
<1>9. RepositoryHolds
  BY <1>1, <1>2, <1>3, EnterpriseAssumption DEF RepositoryHolds, Init, Flow, Counted, Members
<1>10. CallsFit
  <2>1. \A c \in Calls : call[c] = Idle
    BY DEF Init
  <2>2. Idle.pc = "idle"
    BY DEF Idle
  <2>3. call \in [Calls -> Call]
    BY IdleShape DEF Init
  <2>4. QED
    BY <2>1, <2>2, <2>3, FitsEnd DEF CallsFit
<1>11. QED
  BY <1>8, <1>9, <1>10, Parts

-----------------------------------------------------------------------------
(* Keys and joins. *)

\* What the store's methods test under the lock holds for any number of requests, however
\* stale what their handlers read: addresses, subjects, domains, names of applications,
\* grants inside one organisation (internal/store/organization.go).
THEOREM KeysAlwaysHold == Spec => []KeysHold
<1>1. KeysHold /\ [Next]_vars => KeysHold'
  BY KeysStep
<1>2. QED
  BY <1>1, InitKeys, PTL DEF Spec

\* A bound subject and an ended invitation are final (UpsertSSOUser, AcceptInvite).
THEOREM JoinsStayFinal == Spec => JoinsAreFinal
<1>1. ASSUME KeysHold, [Next]_vars PROVE JoinsKept
  BY <1>1, EveryStepKeeps DEF Kept, Method
<1>2. KeysHold /\ [Next]_vars =>
        [\A u \in Members : users[u].sub # None =>
           /\ users'[u].sub = users[u].sub
           /\ \A v \in Users \ {u} : users'[v] # None => users'[v].sub # users[u].sub]_vars
  BY <1>1 DEF JoinsKept
<1>3. KeysHold /\ [Next]_vars =>
        [/\ \A i \in Existing(invites) : invites[i].status # "pending" =>
              invites'[i].status = invites[i].status /\ invites'[i].by = invites[i].by
         /\ \A u \in Users : joined'[u] # joined[u] /\ joined'[u] \in Invites =>
              LET i == joined'[u]
              IN  /\ invites'[i].status = "accepted" /\ invites'[i].by = u
                  /\ invites'[i].org = users'[u].org]_vars
  BY <1>1 DEF JoinsKept
<1>4. QED
  BY <1>2, <1>3, KeysAlwaysHold, PTL DEF Spec, JoinsAreFinal, BindingKept, InvitesEndOnce

-----------------------------------------------------------------------------
(* Ways in. *)

LEMMA LetInFinite ==
  ASSUME NEW k, NEW w
  PROVE  IsFiniteSet(LetIn(k, w)) /\ Cardinality(LetIn(k, w)) \in Nat
BY EnterpriseAssumption, FS_Subset, FS_CardinalityType DEF LetIn

\* A smaller set, and one with an element more.
LEMMA Smaller ==
  ASSUME NEW S, NEW T, S \subseteq T, IsFiniteSet(T)
  PROVE  Cardinality(S) <= Cardinality(T) /\ Cardinality(S) \in Nat /\ Cardinality(T) \in Nat
BY FS_Subset, FS_CardinalityType

LEMMA OneMore ==
  ASSUME NEW S, NEW T, NEW x, S \subseteq T \cup {x}, IsFiniteSet(T)
  PROVE  Cardinality(S) <= Cardinality(T) + 1 /\ Cardinality(S) \in Nat
                                              /\ Cardinality(T) \in Nat
<1>1. /\ IsFiniteSet(T \cup {x}) /\ Cardinality(T) \in Nat
      /\ Cardinality(T \cup {x}) <= Cardinality(T) + 1
  BY FS_AddElement, FS_CardinalityType
<1>2. Cardinality(S) <= Cardinality(T \cup {x}) /\ Cardinality(S) \in Nat
      /\ Cardinality(T \cup {x}) \in Nat
  BY <1>1, Smaller
<1>3. QED
  BY <1>1, <1>2

\* No new attempt is let in, and the counters stay.
LEMMA CountersStay ==
  ASSUME KeysHold, CountersCover, call' \in [Calls -> Call], attempts' \in [Keys -> Counted],
         \A k \in Keys : /\ attempts'[k].count = attempts[k].count
                         /\ attempts'[k].window = attempts[k].window,
         \A d \in Calls : \/ call'[d].key = None
                          \/ call'[d].key = call[d].key /\ call'[d].window = call[d].window
  PROVE  CountersCover'
<1>1. ASSUME NEW k \in Keys, NEW w \in 0..attempts[k].window
      PROVE  Cardinality(LetIn(k, w)') <= Cardinality(LetIn(k, w))
             /\ Cardinality(LetIn(k, w)') \in Nat /\ Cardinality(LetIn(k, w)) \in Nat
  <2>1. LetIn(k, w)' \subseteq LetIn(k, w)
    BY EnterpriseAssumption DEF LetIn, Keys
  <2>2. QED
    BY <2>1, LetInFinite, Smaller
<1>2. \A k \in Keys : attempts[k] \in Counted
  BY Parts DEF RepositoryHolds
<1>3. Limit \in Nat
  BY EnterpriseAssumption
<1>4. ASSUME NEW k \in Keys, NEW w \in 0..attempts'[k].window
      PROVE  Cardinality(LetIn(k, w)') <= Limit
  BY <1>1, <1>3 DEF CountersCover
<1>5. ASSUME NEW k \in Keys
      PROVE  Cardinality(LetIn(k, attempts[k].window)') <= attempts'[k].count
  <2>1. PICK w : w = attempts[k].window
    OBVIOUS
  <2>2. w \in 0..attempts[k].window /\ attempts[k].count \in Nat
    BY <1>2, <2>1 DEF Counted
  <2>3. Cardinality(LetIn(k, w)') <= Cardinality(LetIn(k, w))
        /\ Cardinality(LetIn(k, w)') \in Nat /\ Cardinality(LetIn(k, w)) \in Nat
    BY <1>1, <2>2
  <2>4. Cardinality(LetIn(k, w)) <= attempts[k].count
    BY <2>1 DEF CountersCover
  <2>5. Cardinality(LetIn(k, w)') <= attempts'[k].count
    BY <2>2, <2>3, <2>4
  <2>6. attempts'[k].window = w
    BY <2>1
  <2>7. QED
    BY <2>5, <2>6 DEF LetIn
<1>6. ASSUME NEW c \in Calls, call'[c].key # None
      PROVE  call'[c].window <= attempts'[call'[c].key].window
  <2>1. call[c].key \in Keys
    BY <1>6, Parts, Called DEF Call
  <2>2. QED
    BY <1>6, <2>1 DEF CountersCover
<1>7. QED
  BY <1>4, <1>5, <1>6 DEF CountersCover

\* An attempt is let in if its window has room, or into a window of its own.
LEMMA CountersCount ==
  ASSUME KeysHold, CountersCover, NEW c \in Calls, NEW k \in Keys, NEW l, Attempts(c, k, l)
  PROVE  CountersCover'
<1>1. PICK n : n = Allow(k).next
  OBVIOUS
<1>2. /\ n \in Counted
      /\ \/ n.window = attempts[k].window + 1 /\ n.count = 1
         \/ /\ n.window = attempts[k].window /\ n.count = attempts[k].count + 1
            /\ Allow(k).allowed => attempts[k].count < Limit
  BY <1>1, Parts, Allowed
<1>3. /\ attempts' = [attempts EXCEPT ![k] = n] /\ call' = [call EXCEPT ![c] = l] /\ l \in Call
      /\ l.key = None \/ (l.key = k /\ l.window = n.window /\ Allow(k).allowed)
  BY <1>1 DEF Attempts, Turns
<1>4. \A j \in Keys : attempts[j] \in Counted
  BY Parts DEF RepositoryHolds
<1>5. /\ attempts'[k] = n /\ \A j \in Keys : j # k => attempts'[j] = attempts[j]
  BY <1>3, Parts DEF RepositoryHolds
<1>6. /\ call'[c] = l /\ \A d \in Calls : d # c => call'[d] = call[d]
  BY <1>3, Parts DEF CallsFit
<1>7. Limit \in Nat \ {0} /\ None \notin Keys
  BY EnterpriseAssumption DEF Keys
<1>8. attempts[k].window \in Nat /\ attempts[k].count \in Nat /\ n.window \in Nat /\ n.count \in Nat
  BY <1>2, <1>4 DEF Counted
<1>9. ASSUME NEW j \in Keys, NEW w \in Nat, j # k \/ w # n.window
      PROVE  /\ LetIn(j, w)' \subseteq LetIn(j, w)
             /\ Cardinality(LetIn(j, w)') <= Cardinality(LetIn(j, w))
             /\ Cardinality(LetIn(j, w)') \in Nat /\ Cardinality(LetIn(j, w)) \in Nat
  <2>1. LetIn(j, w)' \subseteq LetIn(j, w)
    BY <1>3, <1>6, <1>7, <1>9 DEF LetIn
  <2>2. QED
    BY <2>1, LetInFinite, Smaller
<1>10. Cardinality(LetIn(k, n.window)') <= n.count /\ Cardinality(LetIn(k, n.window)') <= Limit
  <2>1. LetIn(k, n.window)' \subseteq LetIn(k, n.window) \cup {c}
    BY <1>3, <1>6 DEF LetIn
  <2>2. CASE n.window = attempts[k].window + 1 /\ n.count = 1
    <3>1. LetIn(k, n.window) = {}
      <4>1. ASSUME NEW d \in Calls, call[d].key = k, call[d].window = n.window PROVE FALSE
        BY <1>7, <1>8, <2>2, <4>1 DEF CountersCover
      <4>2. QED
        BY <4>1 DEF LetIn
    <3>2. /\ Cardinality(LetIn(k, n.window)') <= Cardinality({}) + 1
          /\ Cardinality(LetIn(k, n.window)') \in Nat
      <4>1. LetIn(k, n.window)' \subseteq {} \cup {c}
        BY <2>1, <3>1
      <4>2. PICK S : S = LetIn(k, n.window)'
        OBVIOUS
      <4>3. Cardinality(S) <= Cardinality({}) + 1 /\ Cardinality(S) \in Nat
        BY <4>1, <4>2, FS_EmptySet, OneMore
      <4>4. QED
        BY <4>2, <4>3
    <3>3. Cardinality({}) = 0
      BY FS_EmptySet
    <3>4. QED
      BY <1>7, <2>2, <3>2, <3>3
  <2>3. CASE /\ n.window = attempts[k].window /\ n.count = attempts[k].count + 1
             /\ Allow(k).allowed => attempts[k].count < Limit
    <3>1. Cardinality(LetIn(k, n.window)) <= attempts[k].count
      BY <2>3 DEF CountersCover
    <3>2. Cardinality(LetIn(k, n.window)) <= Limit
      BY <1>8, <2>3 DEF CountersCover
    <3>3. PICK S : S = LetIn(k, n.window)'
      OBVIOUS
    <3>4. CASE l.key = None
      <4>1. S \subseteq LetIn(k, n.window)
        BY <1>6, <1>7, <3>3, <3>4 DEF LetIn
      <4>2. Cardinality(S) <= Cardinality(LetIn(k, n.window))
            /\ Cardinality(S) \in Nat /\ Cardinality(LetIn(k, n.window)) \in Nat
        BY <4>1, LetInFinite, Smaller
      <4>3. QED
        BY <1>7, <1>8, <2>3, <3>1, <3>2, <3>3, <4>2
    <3>5. CASE Allow(k).allowed
      <4>1. Cardinality(S) <= Cardinality(LetIn(k, n.window)) + 1
            /\ Cardinality(S) \in Nat /\ Cardinality(LetIn(k, n.window)) \in Nat
        BY <2>1, <3>3, LetInFinite, OneMore
      <4>2. QED
        BY <1>7, <1>8, <2>3, <3>1, <3>3, <3>5, <4>1
    <3>6. QED
      BY <1>3, <3>4, <3>5
  <2>4. QED
    BY <1>2, <2>2, <2>3
<1>11. ASSUME NEW j \in Keys, NEW w \in 0..attempts'[j].window
       PROVE  Cardinality(LetIn(j, w)') <= Limit
  <2>1. CASE j = k /\ w = n.window
    BY <1>10, <2>1
  <2>2. CASE j # k \/ w # n.window
    <3>1. w \in 0..attempts[j].window
      BY <1>2, <1>4, <1>5, <1>8, <1>11, <2>2 DEF Counted
    <3>2. QED
      BY <1>7, <1>9, <2>2, <3>1 DEF CountersCover
  <2>3. QED
    BY <2>1, <2>2
<1>12. ASSUME NEW j \in Keys
       PROVE  Cardinality(LetIn(j, attempts[j].window)') <= attempts'[j].count
  <2>1. CASE j = k
    <3>1. PICK w : w = n.window
      OBVIOUS
    <3>2. Cardinality(LetIn(k, w)') <= n.count
      BY <1>10, <3>1
    <3>3. attempts'[k].window = w
      BY <1>5, <3>1
    <3>4. QED
      BY <1>5, <2>1, <3>2, <3>3 DEF LetIn
  <2>2. CASE j # k
    <3>1. PICK w : w = attempts[j].window
      OBVIOUS
    <3>2. w \in Nat /\ attempts[j].count \in Nat
      BY <1>4, <3>1 DEF Counted
    <3>3. Cardinality(LetIn(j, w)') <= Cardinality(LetIn(j, w))
          /\ Cardinality(LetIn(j, w)') \in Nat /\ Cardinality(LetIn(j, w)) \in Nat
      BY <1>9, <2>2, <3>2
    <3>4. Cardinality(LetIn(j, w)) <= attempts[j].count
      BY <3>1 DEF CountersCover
    <3>5. Cardinality(LetIn(j, w)') <= attempts[j].count
      BY <3>2, <3>3, <3>4
    <3>6. attempts'[j].window = w /\ attempts'[j].count = attempts[j].count
      BY <1>5, <2>2, <3>1
    <3>7. QED
      BY <3>5, <3>6 DEF LetIn
  <2>3. QED
    BY <2>1, <2>2
<1>13. ASSUME NEW d \in Calls, call'[d].key # None
       PROVE  call'[d].window <= attempts'[call'[d].key].window
  <2>1. CASE d = c
    BY <1>3, <1>5, <1>6, <1>8, <1>13, <2>1
  <2>2. CASE d # c
    <3>1. /\ call[d].key \in Keys /\ call[d].window \in Nat
          /\ call[d].window <= attempts[call[d].key].window
      BY <1>6, <1>13, <2>2, Parts, Called DEF Call, CountersCover
    <3>2. QED
      BY <1>2, <1>5, <1>6, <1>8, <2>2, <3>1
  <2>3. QED
    BY <2>1, <2>2
<1>14. QED
  BY <1>11, <1>12, <1>13 DEF CountersCover

LoginInv == FlowsAreOnce /\ FlowsAreTaken /\ CountersCover

\* Counters that count on, or start a new window later.
SameCounts ==
  \A k \in Keys : attempts'[k].count = attempts[k].count /\ attempts'[k].window = attempts[k].window

LEMMA FlowsStay ==
  ASSUME KeysHold, FlowsAreOnce, FlowsAreTaken,
         \A d \in Calls : call'[d].flow \in {None, call[d].flow},
         \A f \in Flows : flows[f].state = "taken" => flows'[f].state = "taken"
  PROVE  FlowsAreOnce' /\ FlowsAreTaken'
<1>1. \A d \in Calls : call[d].flow \in Flows \cup {None}
  BY Parts, Called DEF Call
<1>2. FlowsAreOnce'
  BY DEF FlowsAreOnce
<1>3. FlowsAreTaken'
  BY <1>1 DEF FlowsAreTaken
<1>4. QED
  BY <1>2, <1>3

\* A call that goes on without a new attempt or a new flow.
LEMMA LoginsStay ==
  ASSUME KeysHold, LoginInv, NEW c \in Calls, NEW k, Turns(c, k), SameMarks(c, k), Kept,
         SameCounts, flows' = flows
  PROVE  LoginInv'
<1>1. call' = [call EXCEPT ![c] = k] /\ call' \in [Calls -> Call] /\ attempts' \in [Keys -> Counted]
  BY DEF Turns, Kept, CallsFit, RepositoryHolds
<1>2. call'[c] = k /\ \A d \in Calls : d # c => call'[d] = call[d]
  BY <1>1, Parts DEF CallsFit
<1>3. CountersCover'
  BY <1>1, <1>2, CountersStay DEF SameMarks, SameCounts, LoginInv
<1>4. \A d \in Calls : call'[d].flow \in {None, call[d].flow}
  BY <1>2 DEF SameMarks
<1>5. FlowsAreOnce' /\ FlowsAreTaken'
  BY <1>4, FlowsStay DEF LoginInv
<1>6. QED
  BY <1>3, <1>5 DEF LoginInv

LEMMA AttemptLimited ==
  ASSUME KeysHold, LoginInv, NEW c \in Calls, NEW k \in Keys, NEW l, Attempts(c, k, l),
         flows' = flows
  PROVE  LoginInv'
<1>1. CountersCover'
  BY CountersCount DEF LoginInv
<1>2. call' = [call EXCEPT ![c] = l] /\ l.flow = None
  BY DEF Attempts, Turns
<1>3. \A d \in Calls : call'[d].flow \in {None, call[d].flow}
  BY <1>2, Parts DEF CallsFit
<1>4. FlowsAreOnce' /\ FlowsAreTaken'
  BY <1>3, FlowsStay DEF LoginInv
<1>5. QED
  BY <1>1, <1>4 DEF LoginInv

LEMMA CallbackLimited ==
  ASSUME KeysHold, LoginInv, NEW c \in Calls, NEW f \in Flows, NEW s \in Subjects,
         NEW e \in EmailsOf[s], HandleCallback(c, f, s, e), Kept
  PROVE  LoginInv'
<1>1. PICK k : /\ Turns(c, k) /\ k.key = None /\ k.flow \in {None, f} /\ flows[f].state = "open"
               /\ flows' = [flows EXCEPT ![f].state = "taken"]
  BY CallbackTurns
<1>2. /\ call' = [call EXCEPT ![c] = k] /\ call' \in [Calls -> Call]
      /\ attempts' = attempts /\ attempts' \in [Keys -> Counted]
  BY <1>1 DEF Turns, Kept, CallsFit, RepositoryHolds, HandleCallback
<1>3. call'[c] = k /\ \A d \in Calls : d # c => call'[d] = call[d]
  BY <1>2, Parts DEF CallsFit
<1>4. CountersCover'
  BY <1>1, <1>2, <1>3, CountersStay DEF LoginInv
<1>5. \A g \in Flows : flows'[g].state = IF g = f THEN "taken" ELSE flows[g].state
  BY <1>1, Parts DEF RepositoryHolds, Flow
<1>6. \A d \in Calls : call[d].flow # None => call[d].flow # f /\ call[d].flow \in Flows
  BY <1>1, Parts, Called DEF LoginInv, FlowsAreTaken, Call
<1>7. FlowsAreOnce'
  BY <1>1, <1>3, <1>6 DEF LoginInv, FlowsAreOnce
<1>8. FlowsAreTaken'
  BY <1>1, <1>3, <1>5, <1>6 DEF LoginInv, FlowsAreTaken
<1>9. QED
  BY <1>4, <1>7, <1>8 DEF LoginInv

LEMMA StartLimited ==
  ASSUME KeysHold, LoginInv, NEW c \in Calls, Start(c)
  PROVE  LoginInv'
<1>1. Kept
  BY StartKeeps
<1>2. ASSUME NEW o \in Orgs, NEW e \in Emails, HandleRegisterEnterprise(c, o, e) PROVE LoginInv'
  BY <1>2, RegisterTurns, AttemptLimited DEF HandleRegisterEnterprise, Attempt
<1>3. ASSUME NEW e \in Emails, NEW right \in BOOLEAN, HandleLocalLogin(c, e, right) PROVE LoginInv'
  BY <1>3, LocalLoginTurns, AttemptLimited DEF HandleLocalLogin, Attempt
<1>4. ASSUME NEW i \in Invites, HandleAcceptInvite(c, i) PROVE LoginInv'
  BY <1>4, AcceptTurns, AttemptLimited DEF HandleAcceptInvite, Attempt
<1>5. ASSUME NEW f \in Flows, NEW s \in Subjects, NEW e \in EmailsOf[s], HandleCallback(c, f, s, e)
      PROVE  LoginInv'
  BY <1>1, <1>5, CallbackLimited
<1>6. ASSUME NEW t \in Tokens, Enter(c, t) \/ HandleLogout(c, t) PROVE LoginInv'
  <2>1. PICK k : Turns(c, k) /\ SameMarks(c, k)
    BY <1>6, Parts, EnterTurns, EndTurns DEF HandleLogout
  <2>2. flows' = flows /\ SameCounts
    BY <1>6 DEF Enter, HandleLogout, SameCounts
  <2>3. QED
    BY <1>1, <2>1, <2>2, LoginsStay
<1>7. QED
  BY <1>2, <1>3, <1>4, <1>5, <1>6 DEF Start

LEMMA ChangeCounts ==
  ASSUME KeysHold, NEW c \in Calls, Change(c)
  PROVE  SameCounts /\ flows' = flows
<1>1. CASE attempts' = attempts /\ flows' = flows
  BY <1>1 DEF SameCounts
<1>2. CASE CreateSession(c)
  <2>1. PICK k : k = call[c].key
    OBVIOUS
  <2>2. attempts' = attempts \/ attempts' = [attempts EXCEPT ![k].until = None]
    BY <1>2, <2>1 DEF CreateSession
  <2>3. \A j \in Keys : attempts[j] \in Counted
    BY Parts DEF RepositoryHolds
  <2>4. SameCounts
    BY <2>2, <2>3, Parts DEF SameCounts, RepositoryHolds, Counted
  <2>5. QED
    BY <1>2, <2>4 DEF CreateSession
<1>3. CreateSession(c) \/ (attempts' = attempts /\ flows' = flows)
  BY DEF Change, RegisterEnterprise, SignIn, JoinByInvite, ChangeOrganization, ChangeMember, Invite,
         Revoke, ChangeApplication, StoreRefuses, SaveFails, repository
<1>4. QED
  BY <1>1, <1>2, <1>3

LEMMA RestartLimited ==
  ASSUME KeysHold, LoginInv, NEW redis \in BOOLEAN, Restart(redis)
  PROVE  LoginInv'
<1>1. Kept
  BY RestartKeeps
<1>2. call' \in [Calls -> Call] /\ attempts' \in [Keys -> Counted]
  BY <1>1 DEF Kept, CallsFit, RepositoryHolds
<1>3. ASSUME NEW d \in Calls
      PROVE  /\ call'[d].flow \in {None, call[d].flow}
             /\ \/ call'[d].key = None
                \/ call'[d].key = call[d].key /\ call'[d].window = call[d].window
  <2>1. PICK m : m = call[d]
    OBVIOUS
  <2>2. m \in Call
    BY <2>1, Parts, Called
  <2>3. /\ Answered(m).flow = m.flow /\ Answered(m).key \in {None, m.key}
        /\ Answered(m).key # None => Answered(m).window = m.window
    BY <2>2, AnsweredShape
  <2>4. call'[d] = IF m.pc = "idle" THEN m ELSE Answered(m)
    BY <2>1 DEF Restart
  <2>5. QED
    BY <2>1, <2>3, <2>4
<1>4. /\ SameCounts /\ \A f \in Flows : flows[f].state = "taken" => flows'[f].state = "taken"
  <2>1. CASE redis
    BY <2>1 DEF Restart, repository, SameCounts
  <2>2. CASE ~redis
    <3>1. /\ flows' = [f \in Flows |-> IF flows[f].state = "none" THEN flows[f]
                                      ELSE [flows[f] EXCEPT !.state = "taken"]]
          /\ attempts' = [k \in Keys |-> [attempts[k] EXCEPT !.until = None]]
      BY <2>2 DEF Restart
    <3>2. SameCounts
      BY <3>1, Parts DEF SameCounts, RepositoryHolds, Counted
    <3>3. QED
      BY <3>1, <3>2, Parts DEF RepositoryHolds, Flow
  <2>3. QED
    BY <2>1, <2>2
<1>5. CountersCover'
  BY <1>2, <1>3, <1>4, CountersStay DEF SameCounts, LoginInv
<1>6. FlowsAreOnce' /\ FlowsAreTaken'
  BY <1>3, <1>4, FlowsStay DEF LoginInv
<1>7. QED
  BY <1>5, <1>6 DEF LoginInv

LEMMA EveryStepLimited ==
  ASSUME KeysHold, LoginInv, [Next]_vars
  PROVE  LoginInv'
<1>1. Kept
  BY EveryStepKeeps
<1>2. ASSUME NEW c \in Calls, Start(c) PROVE LoginInv'
  BY <1>2, StartLimited
<1>3. ASSUME NEW c \in Calls, Check(c) PROVE LoginInv'
  <2>1. PICK k : Turns(c, k) /\ SameMarks(c, k)
    BY <1>3, CheckTurns DEF CheckDone
  <2>2. flows' = flows /\ SameCounts
    BY <1>3, CheckTurns DEF repository, SameCounts
  <2>3. QED
    BY <1>1, <2>1, <2>2, LoginsStay
<1>4. ASSUME NEW c \in Calls, Change(c) PROVE LoginInv'
  <2>1. PICK k : Turns(c, k) /\ SameMarks(c, k)
    BY <1>4, ChangeKeeps DEF ChangeDone
  <2>2. QED
    BY <1>1, <1>4, <2>1, ChangeCounts, LoginsStay
<1>5. ASSUME NEW redis \in BOOLEAN, Restart(redis) PROVE LoginInv'
  BY <1>5, RestartLimited
<1>6. ASSUME call' = call, attempts' = attempts,
             \A f \in Flows : flows[f].state = "taken" => flows'[f].state = "taken"
      PROVE  LoginInv'
  <2>1. CountersCover'
    BY <1>6 DEF LoginInv, CountersCover, LetIn
  <2>2. \A d \in Calls : call'[d].flow \in {None, call[d].flow}
    BY <1>6
  <2>3. FlowsAreOnce' /\ FlowsAreTaken'
    BY <1>6, <2>2, FlowsStay DEF LoginInv
  <2>4. QED
    BY <2>1, <2>3 DEF LoginInv
<1>7. ASSUME NEW g \in Flows, HandleLogin(g) PROVE LoginInv'
  <2>1. \A f \in Flows : flows[f].state = "taken" => flows'[f].state = "taken"
    BY <1>7, Parts DEF HandleLogin, RepositoryHolds
  <2>2. QED
    BY <1>6, <1>7, <2>1 DEF HandleLogin
<1>8. CASE Tick \/ UNCHANGED vars
  BY <1>6, <1>8 DEF Tick, vars, repository
<1>9. QED
  BY <1>2, <1>3, <1>4, <1>5, <1>7, <1>8 DEF Next

LEMMA InitLimited == Init => LoginInv
<1> SUFFICES ASSUME Init PROVE LoginInv
  OBVIOUS
<1>1. \A c \in Calls : call[c].flow = None /\ call[c].key = None
  BY DEF Init, Idle
<1>2. \A k \in Keys, w \in Nat : LetIn(k, w) = {}
  BY <1>1, EnterpriseAssumption DEF LetIn, Keys
<1>3. \A k \in Keys : attempts[k].count = 0 /\ attempts[k].window = 0
  BY DEF Init
<1>4. Cardinality({}) = 0 /\ Limit \in Nat
  BY FS_EmptySet, EnterpriseAssumption
<1>5. CountersCover
  <2>1. ASSUME NEW k \in Keys, NEW w \in 0..attempts[k].window
        PROVE  Cardinality(LetIn(k, w)) <= Limit
    <3>1. w \in Nat
      BY <1>3, <2>1
    <3>2. QED
      BY <1>2, <1>4, <3>1
  <2>2. ASSUME NEW k \in Keys
        PROVE  Cardinality(LetIn(k, attempts[k].window)) <= attempts[k].count
    BY <1>2, <1>3, <1>4
  <2>3. QED
    BY <1>1, <2>1, <2>2 DEF CountersCover
<1>6. FlowsAreOnce /\ FlowsAreTaken
  BY <1>1 DEF FlowsAreOnce, FlowsAreTaken
<1>7. QED
  BY <1>5, <1>6 DEF LoginInv

\* The passwords that were compared are among the calls let in.
LEMMA Bounded ==
  ASSUME KeysHold, CountersCover
  PROVE  WindowsAreBounded
<1> SUFFICES ASSUME NEW c \in Calls, call[c].key \in Emails
             PROVE  Cardinality({d \in Calls : /\ call[d].key = call[c].key
                                              /\ call[d].window = call[c].window
                                              /\ call[d].compared}) <= Limit
  BY DEF WindowsAreBounded
<1>1. PICK k : k = call[c].key
  OBVIOUS
<1>2. PICK w : w = call[c].window
  OBVIOUS
<1>3. k \in Keys /\ k # None /\ w \in 0..attempts[k].window
  BY <1>1, <1>2, Parts, Called, EnterpriseAssumption DEF CountersCover, Keys, Call, RepositoryHolds,
     Counted
<1>4. Cardinality(LetIn(k, w)) <= Limit /\ Limit \in Nat
  BY <1>3, EnterpriseAssumption DEF CountersCover
<1>5. PICK S : S = {d \in Calls : call[d].key = k /\ call[d].window = w /\ call[d].compared}
  OBVIOUS
<1>6. S \subseteq LetIn(k, w)
  BY <1>5 DEF LetIn
<1>7. /\ Cardinality(S) <= Cardinality(LetIn(k, w)) /\ Cardinality(S) \in Nat
      /\ Cardinality(LetIn(k, w)) \in Nat
  BY <1>6, LetInFinite, Smaller
<1>8. Cardinality(S) <= Limit
  BY <1>4, <1>7
<1>9. QED
  BY <1>1, <1>2, <1>5, <1>8

\* A login flow lets one callback in, and at most Limit passwords of an address are compared
\* in a window, for any number of requests at once and with any restarts (HandleCallback,
\* AllowAttempt).
THEOREM LoginsStayLimited == Spec => []LoginsAreLimited
<1>1. KeysHold /\ LoginInv /\ [Next]_vars => LoginInv'
  BY EveryStepLimited
<1>2. KeysHold /\ LoginInv => LoginsAreLimited
  BY Bounded DEF LoginInv, LoginsAreLimited
<1>3. QED
  BY <1>1, <1>2, InitLimited, KeysAlwaysHold, PTL DEF Spec

-----------------------------------------------------------------------------
(* Administrators and dependencies. *)

CheckInv == KeepsAnAdmin /\ NoDependencyCycle /\ ChecksCarried

\* Nobody stops being an administrator.
LEMMA AdminsStay ==
  ASSUME KeysHold, KeepsAnAdmin, Kept, overtaken \subseteq overtaken',
         \A u \in Members : users'[u].active = users[u].active /\ users'[u].admin = users[u].admin,
         \A o \in Existing(orgs') : o \in Existing(orgs) \/ Admins(o)' # {}
  PROVE  KeepsAnAdmin'
<1>1. ASSUME NEW o \in Existing(orgs'), Admins(o)' = {}
      PROVE  <<o, "admins">> \in overtaken'
  <2>1. o \in Existing(orgs)
    BY <1>1
  <2>2. ASSUME NEW u \in Admins(o) PROVE u \in Admins(o)'
    BY DEF Admins, MembersOf, Kept, Method, Grown
  <2>3. Admins(o) = {}
    BY <1>1, <2>2
  <2>4. QED
    BY <2>1, <2>3 DEF KeepsAnAdmin
<1>2. QED
  BY <1>1 DEF KeepsAnAdmin

\* The applications stay.
LEMMA CyclesStay ==
  ASSUME NoDependencyCycle, overtaken \subseteq overtaken', apps' = apps
  PROVE  NoDependencyCycle'
BY DEF NoDependencyCycle, DependenciesWith, LeadsToCycle, Existing

\* What a call carries is not lost.
LEMMA CarriesStays ==
  ASSUME NEW k, Carries(k), overtaken \subseteq overtaken'
  PROVE  Carries(k)'
BY DEF Carries

LEMMA CarriedStays ==
  ASSUME KeysHold, ChecksCarried, overtaken \subseteq overtaken', NEW c \in Calls, NEW k,
         Turns(c, k), Carries(k)'
  PROVE  ChecksCarried'
<1>1. ASSUME NEW d \in Calls PROVE Carries(call[d])'
  <2>1. PICK m : m = call[d]
    OBVIOUS
  <2>2. Carries(m)'
    BY <2>1, CarriesStays DEF ChecksCarried
  <2>3. call'[d] = IF d = c THEN k ELSE m
    BY <2>1, Parts DEF Turns, CallsFit
  <2>4. CASE d = c
    BY <2>3, <2>4 DEF Carries
  <2>5. CASE d # c
    BY <2>2, <2>3, <2>5 DEF Carries
  <2>6. QED
    BY <2>4, <2>5
<1>2. QED
  BY <1>1 DEF ChecksCarried

\* validateApplicationDependencies finds no cycle.  For an application that does not
\* exist it does not look: nothing depends on one, so a cycle it leads to was there before.
LEMMA NoNewCycle ==
  ASSUME KeysHold, NoDependencyCycle, NEW o, NEW a \in Apps, NEW deps \in SUBSET Apps,
         ValidDependencies(o, a, deps), LeadsToCycle(DependenciesWith(a, deps), a)
  PROVE  <<o, "dependencies">> \in overtaken
<1>1. /\ apps[a] = None /\ a \notin deps
      /\ \A d \in deps : d \in Existing(apps) /\ apps[d].org = o
  BY Parts DEF ValidDependencies, Existing, TablesHold
<1>2. PICK g : g = DependenciesWith(a, deps)
  OBVIOUS
<1>3. g[a] = deps /\ \A x \in Apps : x # a => g[x] = IF apps[x] = None THEN {} ELSE apps[x].deps
  BY <1>2 DEF DependenciesWith
<1>4. PICK walk \in SUBSET Apps : a \in walk /\ \A x \in walk : g[x] \cap walk # {}
  BY <1>2 DEF LeadsToCycle
<1>5. PICK d \in deps : d \in walk
  BY <1>3, <1>4
<1>6. PICK w : w = walk \ {a}
  OBVIOUS
<1>7. PICK h : h = DependenciesWith(d, apps[d].deps)
  OBVIOUS
<1>8. d \in Existing(apps) /\ apps[d].org = o /\ d # a
  BY <1>1, <1>5
<1>9. \A x \in Apps : h[x] = IF apps[x] = None THEN {} ELSE apps[x].deps
  BY <1>7, <1>8 DEF DependenciesWith, Existing
<1>10. ASSUME NEW x \in w PROVE h[x] \cap w # {}
  <2>1. PICK y \in g[x] : y \in walk
    BY <1>4, <1>6
  <2>2. x \in Apps /\ x # a
    BY <1>6
  <2>3. x \in Existing(apps) /\ y \in apps[x].deps
    BY <1>3, <2>1, <2>2, Parts DEF Existing, TablesHold
  <2>4. y \in Existing(apps)
    BY <2>3, Parts DEF TablesHold, Inside
  <2>5. y \in h[x] /\ y # a
    BY <1>1, <1>9, <2>2, <2>3, <2>4 DEF Existing
  <2>6. QED
    BY <1>6, <2>1, <2>5
<1>11. LeadsToCycle(h, d)
  BY <1>5, <1>6, <1>8, <1>10 DEF LeadsToCycle
<1>12. QED
  BY <1>7, <1>8, <1>11 DEF NoDependencyCycle

\* A cycle that saving an application closes was seen, or the dependencies seen were others.
LEMMA CyclesSeen ==
  ASSUME KeysHold, NoDependencyCycle, NEW c \in Calls, Carries(call[c]), ChangeApplication(c)
  PROVE  NoDependencyCycle'
<1>1. PICK m : m = call[c]
  OBVIOUS
<1>2. m \in Call /\ Fits(m) /\ Carries(m) /\ m.pc = "application"
  BY <1>1, Parts, Called DEF ChangeApplication
<1>3. /\ m.org \in Existing(orgs) /\ m.arg \in Apps /\ m.email \in AppNames
      /\ m.set \in SUBSET Apps /\ Inside(m.org, m.set)
  BY <1>2, Parts, Rows DEF Fits, Inside
<1>4. PICK a : a = m.arg
  OBVIOUS
<1>5. SaveApplication(m.org, a, m.email, m.set)
  BY <1>1, <1>4 DEF ChangeApplication
<1>6. /\ Existing(apps') = Existing(apps) \cup {a} /\ TablesHold'
      /\ apps'[a].org = m.org /\ apps'[a].deps = m.set
      /\ \A b \in Existing(apps) : b # a => apps'[b] = apps[b]
  BY <1>3, <1>4, <1>5, Parts, SaveApplicationStep DEF Method
<1>7. PICK g : g = DependenciesWith(a, m.set)
  OBVIOUS
<1>8. overtaken' = overtaken \cup (IF m.graph = g THEN {} ELSE {<<m.org, "dependencies">>})
  BY <1>1, <1>4, <1>7 DEF ChangeApplication
<1>9. \A y \in Apps : g[y] = IF y = a THEN m.set ELSE IF apps[y] = None THEN {} ELSE apps[y].deps
  BY <1>7 DEF DependenciesWith
<1>10. ASSUME NEW y \in Existing(apps')
       PROVE  /\ y \in Apps /\ g[y] = apps'[y].deps
              /\ \A z \in g[y] : z \in Existing(apps') /\ apps'[z].org = apps'[y].org
  <2>1. y \in Apps
    BY <1>3, <1>4, <1>6, Parts, Rows
  <2>2. g[y] = apps'[y].deps
    BY <1>6, <1>9, <2>1 DEF Existing
  <2>3. Inside(apps[y].org, apps[y].deps)'
    BY <1>6, <1>10 DEF TablesHold
  <2>4. QED
    BY <2>1, <2>2, <2>3 DEF Inside
<1>11. ASSUME NEW x \in Existing(apps'), LeadsToCycle(DependenciesWith(x, apps[x].deps), x)'
       PROVE  <<apps'[x].org, "dependencies">> \in overtaken'
  <2>1. DependenciesWith(x, apps[x].deps)' = g
    <3>1. DependenciesWith(x, apps[x].deps)' =
            [y \in Apps |-> IF y = x THEN apps'[x].deps
                            ELSE IF apps'[y] = None THEN {} ELSE apps'[y].deps]
      BY DEF DependenciesWith
    <3>2. DOMAIN apps' = Apps /\ apps' \in [Apps -> Application \cup {None}]
      BY <1>6 DEF TablesHold
    <3>3. \A y \in Apps : apps'[y] = None => apps[y] = None /\ y # a
      BY <1>6, <3>2, Parts DEF Existing, TablesHold
    <3>4. \A y \in Apps : g[y] = IF y = x THEN apps'[x].deps
                                 ELSE IF apps'[y] = None THEN {} ELSE apps'[y].deps
      BY <1>9, <1>10, <3>2, <3>3 DEF Existing
    <3>5. g = [y \in Apps |-> g[y]]
      BY <1>7 DEF DependenciesWith
    <3>6. QED
      BY <3>1, <3>4, <3>5
  <2>2. LeadsToCycle(g, x)
    BY <1>11, <2>1 DEF LeadsToCycle
  <2>3. PICK walk \in SUBSET Apps : x \in walk /\ \A y \in walk : g[y] \cap walk # {}
    BY <2>2 DEF LeadsToCycle
  <2>4. PICK o : o = apps'[x].org
    OBVIOUS
  <2>5. PICK w : w = {y \in walk : y \in Existing(apps') /\ apps'[y].org = o}
    OBVIOUS
  <2>6. w \in SUBSET Apps /\ x \in w
    BY <2>3, <2>4, <2>5
  <2>7. ASSUME NEW y \in w PROVE g[y] \cap w # {}
    <3>1. PICK z \in g[y] : z \in walk
      BY <2>3, <2>5
    <3>2. z \in Existing(apps') /\ apps'[z].org = o
      BY <1>10, <2>5, <3>1
    <3>3. QED
      BY <2>5, <3>1, <3>2
  <2>8. CASE a \notin w
    <3>1. x \in Existing(apps) /\ apps'[x].org = apps[x].org
      BY <1>6, <2>6, <2>8
    <3>2. PICK h : h = DependenciesWith(x, apps[x].deps)
      OBVIOUS
    <3>3. \A y \in w : h[y] = g[y]
      BY <1>9, <2>6, <2>8, <3>1, <3>2 DEF DependenciesWith, Existing
    <3>4. LeadsToCycle(h, x)
      BY <2>6, <2>7, <3>3 DEF LeadsToCycle
    <3>5. <<apps[x].org, "dependencies">> \in overtaken
      BY <3>1, <3>2, <3>4 DEF NoDependencyCycle
    <3>6. QED
      BY <1>8, <3>1, <3>5
  <2>9. CASE a \in w
    <3>1. o = m.org
      BY <1>6, <2>5, <2>9
    <3>2. LeadsToCycle(g, a)
      BY <2>6, <2>7, <2>9 DEF LeadsToCycle
    <3>3. m.graph = g => <<m.org, "dependencies">> \in overtaken
      BY <1>2, <1>4, <3>2 DEF Carries
    <3>4. QED
      BY <1>8, <2>4, <3>1, <3>3
  <2>10. QED
    BY <2>8, <2>9
<1>12. QED
  BY <1>11 DEF NoDependencyCycle

\* A step that leaves the members and the organisations that exist alone.
LEMMA AdminsAlone ==
  ASSUME KeysHold, KeepsAnAdmin, Kept, overtaken \subseteq overtaken', users' = users,
         \A o \in Existing(orgs') : o \in Existing(orgs)
  PROVE  KeepsAnAdmin'
BY AdminsStay

\* A newcomer takes nothing from the administrators; a new organisation has its founder.
LEMMA AdminsJoined ==
  ASSUME KeysHold, KeepsAnAdmin, Kept, overtaken' = overtaken, NEW u \in Users,
         users[u] = None, NEW new \in User, users' = [users EXCEPT ![u] = new],
         \A o \in Existing(orgs') : o \in Existing(orgs) \/
           (new.org = o /\ new.active /\ new.admin)
  PROVE  KeepsAnAdmin'
<1>1. \A v \in Members : users'[v] = users[v]
  BY Parts DEF TablesHold, Members, Existing
<1>2. u \in Members' /\ users'[u] = new
  BY Parts, NoneIsNone DEF TablesHold, Members, Existing
<1>3. ASSUME NEW o \in Existing(orgs'), o \notin Existing(orgs)
      PROVE  Admins(o)' # {}
  <2>1. new.org = o /\ new.active /\ new.admin
    BY <1>3
  <2>2. u \in Admins(o)'
    BY <1>2, <2>1 DEF Admins, MembersOf
  <2>3. QED
    BY <2>2
<1>4. QED
  BY <1>1, <1>3, AdminsStay

\* The last administrator goes only where the administrators seen were others.
LEMMA AdminsSeen ==
  ASSUME KeysHold, KeepsAnAdmin, NEW c \in Calls, Carries(call[c]), ChangeMember(c)
  PROVE  KeepsAnAdmin'
<1>1. PICK m : m = call[c]
  OBVIOUS
<1>2. m \in Call /\ Fits(m) /\ Carries(m) /\ m.pc = "member"
  BY <1>1, Parts, Called DEF ChangeMember
<1>3. /\ m.org \in Existing(orgs) /\ m.org \in Orgs /\ m.arg \in Users /\ m.set \in SUBSET Apps
      /\ m.flag \in BOOLEAN /\ m.flag2 \in BOOLEAN /\ m.seen \subseteq Users
  BY <1>2, Parts, Rows DEF Fits, Call, MembersOf
<1>4. UpdateMember(m.org, m.arg, m.flag, m.flag2, m.set)
  BY <1>1 DEF ChangeMember
<1>5. /\ Method /\ m.arg \in MembersOf(m.org) /\ Members' = Members
      /\ users'[m.arg].active = m.flag /\ users'[m.arg].admin = m.flag2
      /\ \A v \in Members : v # m.arg => users'[v] = users[v]
  BY <1>3, <1>4, Parts, UpdateMemberStep
<1>6. Existing(orgs') \subseteq Existing(orgs)
  <2>1. orgs' = [orgs EXCEPT ![m.org].controlled = TRUE]
    BY <1>4 DEF UpdateMember
  <2>2. QED
    BY <1>3, <2>1, Parts DEF Existing, TablesHold
<1>7. PICK a : a = Admins(m.org)
  OBVIOUS
<1>8. overtaken' = overtaken \cup (IF m.seen = a THEN {} ELSE {<<m.org, "admins">>})
  BY <1>1, <1>7 DEF ChangeMember
<1>9. ASSUME NEW o \in Existing(orgs'), Admins(o)' = {}
      PROVE  <<o, "admins">> \in overtaken'
  <2>1. ASSUME NEW v \in Admins(o), v # m.arg PROVE FALSE
    <3>1. v \in Members /\ users[v].org = o /\ users[v].active /\ users[v].admin
      BY DEF Admins, MembersOf
    <3>2. v \in Admins(o)'
      BY <1>5, <2>1, <3>1 DEF Admins, MembersOf
    <3>3. QED
      BY <1>9, <3>2
  <2>2. CASE Admins(o) = {}
    BY <1>6, <1>8, <2>2 DEF KeepsAnAdmin
  <2>3. CASE Admins(o) # {}
    <3>1. m.arg \in Admins(o) /\ Admins(o) = {m.arg}
      BY <2>1, <2>3
    <3>2. o = m.org
      BY <1>5, <3>1 DEF Admins, MembersOf
    <3>3. ~(m.flag /\ m.flag2)
      <4>1. ASSUME m.flag, m.flag2 PROVE FALSE
        <5>1. m.arg \in Members' /\ users'[m.arg].org = o
          BY <1>5, <3>2 DEF MembersOf, Method, Grown
        <5>2. m.arg \in Admins(o)'
          BY <1>5, <4>1, <5>1 DEF Admins, MembersOf
        <5>3. QED
          BY <1>9, <5>2
      <4>2. QED
        BY <4>1
    <3>4. m.seen # a
      <4>1. ASSUME m.seen = a PROVE FALSE
        <5>1. m.seen = {m.arg}
          BY <1>7, <3>1, <3>2, <4>1
        <5>2. Cardinality(m.seen) = 1
          BY <5>1, FS_Singleton
        <5>3. Cardinality(m.seen) > 1
          BY <1>2, <3>3, <5>1 DEF Carries
        <5>4. QED
          BY <5>2, <5>3
      <4>2. QED
        BY <4>1
    <3>5. QED
      BY <1>8, <3>2, <3>4
  <2>4. QED
    BY <2>2, <2>3
<1>10. QED
  BY <1>9 DEF KeepsAnAdmin

\* A step that leaves the tables alone.
LEMMA ChecksStay ==
  ASSUME KeysHold, CheckInv, UNCHANGED <<tables, overtaken>>, Kept
  PROVE  KeepsAnAdmin' /\ NoDependencyCycle'
<1>1. KeepsAnAdmin'
  BY AdminsAlone DEF CheckInv, tables
<1>2. NoDependencyCycle'
  BY CyclesStay DEF CheckInv, tables
<1>3. QED
  BY <1>1, <1>2

LEMMA AttemptCarries ==
  ASSUME KeysHold, ChecksCarried, NEW c \in Calls, NEW k, NEW l, Attempts(c, k, l),
         overtaken' = overtaken
  PROVE  ChecksCarried'
<1>1. Turns(c, l) /\ Carries(l)'
  BY DEF Attempts, Carries
<1>2. QED
  BY <1>1, CarriedStays

LEMMA StartCarries ==
  ASSUME KeysHold, CheckInv, NEW c \in Calls, Start(c)
  PROVE  CheckInv'
<1>1. UNCHANGED <<tables, overtaken>>
  BY DEF Start, HandleRegisterEnterprise, HandleLocalLogin, HandleCallback, HandleAcceptInvite,
         Attempt, Enter, HandleLogout, rest
<1>2. KeepsAnAdmin' /\ NoDependencyCycle'
  BY <1>1, StartKeeps, ChecksStay
<1>3. ASSUME NEW o \in Orgs, NEW e \in Emails, HandleRegisterEnterprise(c, o, e)
      PROVE  ChecksCarried'
  BY <1>1, <1>3, RegisterTurns, AttemptCarries DEF CheckInv
<1>4. ASSUME NEW e \in Emails, NEW right \in BOOLEAN, HandleLocalLogin(c, e, right)
      PROVE  ChecksCarried'
  BY <1>1, <1>4, LocalLoginTurns, AttemptCarries DEF CheckInv
<1>5. ASSUME NEW i \in Invites, HandleAcceptInvite(c, i) PROVE ChecksCarried'
  BY <1>1, <1>5, AcceptTurns, AttemptCarries DEF CheckInv
<1>6. ASSUME NEW k, Turns(c, k), k.pc \notin {"member", "application"} PROVE ChecksCarried'
  <2>1. Carries(k)'
    BY <1>6 DEF Carries
  <2>2. QED
    BY <1>1, <1>6, <2>1, CarriedStays DEF CheckInv
<1>7. ASSUME NEW f \in Flows, NEW s \in Subjects, NEW e \in EmailsOf[s], HandleCallback(c, f, s, e)
      PROVE  ChecksCarried'
  BY <1>6, <1>7, CallbackTurns
<1>8. ASSUME NEW t \in Tokens, Enter(c, t) PROVE ChecksCarried'
  BY <1>6, <1>8, EnterTurns
<1>9. ASSUME NEW t \in Tokens, HandleLogout(c, t) PROVE ChecksCarried'
  BY <1>6, <1>9, Parts, EndTurns DEF HandleLogout
<1>10. ChecksCarried'
  BY <1>3, <1>4, <1>5, <1>7, <1>8, <1>9 DEF Start
<1>11. QED
  BY <1>2, <1>10 DEF CheckInv

LEMMA CheckCarries ==
  ASSUME KeysHold, CheckInv, NEW c \in Calls, Check(c)
  PROVE  CheckInv'
<1>1. UNCHANGED <<tables, overtaken>>
  BY CheckTurns DEF rest
<1>2. KeepsAnAdmin' /\ NoDependencyCycle'
  BY <1>1, CheckKeeps, ChecksStay
<1>3. PICK k : CheckDone(c, k)
  BY CheckTurns
<1>4. k \in Call /\ Turns(c, k) /\ Fits(k)
  <2>1. Fits(k)' /\ k \in Call /\ Turns(c, k)
    BY <1>3 DEF CheckDone, Turns
  <2>2. QED
    BY <1>1, <2>1 DEF tables, Fits, Members, Existing, MembersOf, Inside
<1>5. Carries(k)
  <2>1. CASE k.pc = "member"
    BY <1>3, <2>1 DEF CheckDone
  <2>2. CASE k.pc = "application"
    <3>1. k.arg \in Apps /\ k.set \subseteq Apps
      BY <1>4, <2>2, Parts, Rows DEF Fits, Inside
    <3>2. ValidDependencies(k.org, k.arg, k.set) /\ k.graph = DependenciesWith(k.arg, k.set)
      BY <1>3, <2>2 DEF CheckDone
    <3>3. LeadsToCycle(k.graph, k.arg) => <<k.org, "dependencies">> \in overtaken
      BY <3>1, <3>2, NoNewCycle DEF CheckInv
    <3>4. QED
      BY <2>2, <3>3 DEF Carries
  <2>3. CASE k.pc \notin {"member", "application"}
    BY <2>3 DEF Carries
  <2>4. QED
    BY <2>1, <2>2, <2>3
<1>6. ChecksCarried'
  BY <1>1, <1>4, <1>5, CarriesStays, CarriedStays DEF CheckInv
<1>7. QED
  BY <1>2, <1>6 DEF CheckInv

LEMMA SignInAdmins ==
  ASSUME KeysHold, KeepsAnAdmin, Kept, NEW c \in Calls, SignIn(c)
  PROVE  KeepsAnAdmin'
<1>1. PICK m : m = call[c]
  OBVIOUS
<1>2. m \in Call /\ Fits(m) /\ m.pc = "sso"
  BY <1>1, Parts, Called DEF SignIn
<1>3. m.sub \in Subjects /\ m.email \in Emails
  BY <1>2 DEF Fits
<1>4. overtaken' = overtaken
  BY DEF SignIn, rest
<1>5. PICK u \in Users :
        \/ SignInExisting(u, m.sub, m.email)
        \/ /\ HasRoom(users) /\ u = Fresh(users)
           /\ \/ \E i \in Invites : SignInByInvite(i, u, m.sub, m.email)
              \/ \E o \in Orgs : SignInByDomain(o, u, m.sub, m.email)
  BY <1>1 DEF SignIn
<1>6. CASE SignInExisting(u, m.sub, m.email)
  <2>1. \A v \in Members : /\ users'[v].active = users[v].active
                           /\ users'[v].admin = users[v].admin
    BY <1>3, <1>6, Parts, SignInExistingStep
  <2>2. orgs' = orgs
    BY <1>6 DEF SignInExisting
  <2>3. QED
    BY <1>4, <2>1, <2>2, AdminsStay
<1>7. ASSUME HasRoom(users), u = Fresh(users), NEW i \in Invites,
             SignInByInvite(i, u, m.sub, m.email)
      PROVE  KeepsAnAdmin'
  <2>1. users[u] = None
    BY <1>7, Parts, FreshUser
  <2>2. i \in Existing(invites)
    BY <1>7, Parts DEF SignInByInvite, InvitesFor, IsOpen, Existing, TablesHold
  <2>3. PICK new : new = NewUser(invites[i].org, m.email, FALSE, FALSE, m.sub)
    OBVIOUS
  <2>4. new \in User
    <3>1. invites[i].org \in Orgs
      BY <2>2, Parts, Rows DEF Invitation
    <3>2. QED
      BY <1>3, <2>3, <3>1 DEF NewUser, User
  <2>5. users' = [users EXCEPT ![u] = new] /\ orgs' = orgs
    BY <1>7, <2>3 DEF SignInByInvite
  <2>6. QED
    BY <1>4, <2>1, <2>4, <2>5, AdminsJoined
<1>8. ASSUME HasRoom(users), u = Fresh(users), NEW o \in Orgs,
             SignInByDomain(o, u, m.sub, m.email)
      PROVE  KeepsAnAdmin'
  <2>1. users[u] = None
    BY <1>8, Parts, FreshUser
  <2>2. PICK new : new = NewUser(o, m.email, FALSE, FALSE, m.sub)
    OBVIOUS
  <2>3. new \in User
    BY <1>3, <2>2 DEF NewUser, User
  <2>4. users' = [users EXCEPT ![u] = new] /\ orgs' = orgs
    BY <1>8, <2>2 DEF SignInByDomain
  <2>5. QED
    BY <1>4, <2>1, <2>3, <2>4, AdminsJoined
<1>9. QED
  BY <1>5, <1>6, <1>7, <1>8

LEMMA RegisterAdmins ==
  ASSUME KeysHold, KeepsAnAdmin, Kept, NEW c \in Calls, RegisterEnterprise(c)
  PROVE  KeepsAnAdmin'
<1>1. PICK m : m = call[c]
  OBVIOUS
<1>2. m \in Call /\ Fits(m) /\ m.pc = "register"
  BY <1>1, Parts, Called DEF RegisterEnterprise
<1>3. m.org \in Orgs /\ m.email \in Emails
  BY <1>2 DEF Fits
<1>4. PICK u : u = Fresh(users)
  OBVIOUS
<1>5. u \in Users /\ users[u] = None
  BY <1>4, Parts, FreshUser DEF RegisterEnterprise
<1>6. CreateEnterprise(m.org, u, m.email) /\ overtaken' = overtaken
  BY <1>1, <1>4 DEF RegisterEnterprise, rest
<1>7. PICK new : new = NewUser(m.org, m.email, TRUE, TRUE, None)
  OBVIOUS
<1>8. new \in User /\ new.org = m.org /\ new.active = TRUE /\ new.admin = TRUE
  BY <1>3, <1>7 DEF NewUser, User
<1>9. users' = [users EXCEPT ![u] = new]
  BY <1>6, <1>7 DEF CreateEnterprise
<1>10. \A o \in Existing(orgs') : o \in Existing(orgs) \/ o = m.org
  BY <1>3, <1>6, Parts DEF CreateEnterprise, Existing, TablesHold
<1>11. QED
  BY <1>5, <1>6, <1>8, <1>9, <1>10, AdminsJoined

LEMMA JoinByInviteAdmins ==
  ASSUME KeysHold, KeepsAnAdmin, Kept, NEW c \in Calls, JoinByInvite(c)
  PROVE  KeepsAnAdmin'
<1>1. PICK m : m = call[c]
  OBVIOUS
<1>2. m \in Call /\ Fits(m) /\ m.pc = "accept"
  BY <1>1, Parts, Called DEF JoinByInvite
<1>3. m.arg \in Existing(invites) /\ m.email \in Emails
  BY <1>2 DEF Fits
<1>4. PICK u : u = Fresh(users)
  OBVIOUS
<1>5. u \in Users /\ users[u] = None
  BY <1>4, Parts, FreshUser DEF JoinByInvite
<1>6. AcceptInvite(m.arg, u, m.email) /\ overtaken' = overtaken
  BY <1>1, <1>4 DEF JoinByInvite, rest
<1>7. PICK new : new = NewUser(invites[m.arg].org, m.email, FALSE, TRUE, None)
  OBVIOUS
<1>8. new \in User
  <2>1. invites[m.arg].org \in Orgs
    BY <1>3, Parts, Rows DEF Invitation
  <2>2. QED
    BY <1>3, <1>7, <2>1 DEF NewUser, User
<1>9. users' = [users EXCEPT ![u] = new] /\ orgs' = orgs
  BY <1>6, <1>7 DEF AcceptInvite
<1>10. QED
  BY <1>5, <1>6, <1>8, <1>9, AdminsJoined

LEMMA OrganizationAdmins ==
  ASSUME KeysHold, KeepsAnAdmin, Kept, NEW c \in Calls, ChangeOrganization(c)
  PROVE  KeepsAnAdmin'
<1>1. PICK m : m = call[c]
  OBVIOUS
<1>2. UpdateOrganization(m.org, m.set, m.flag, m.flag2) /\ overtaken' = overtaken
  BY <1>1 DEF ChangeOrganization, rest
<1>3. /\ orgs[m.org] # None /\ users' = users
      /\ orgs' = [orgs EXCEPT ![m.org].domains = m.set, ![m.org].join = m.flag,
                              ![m.org].sso = m.flag2]
  BY <1>2 DEF UpdateOrganization, MayUpdateOrganization
<1>4. \A o \in Existing(orgs') : o \in Existing(orgs)
  BY <1>3, Parts DEF Existing, TablesHold
<1>5. QED
  BY <1>2, <1>3, <1>4, AdminsAlone

LEMMA ApplicationAdmins ==
  ASSUME KeysHold, KeepsAnAdmin, Kept, NEW c \in Calls, ChangeApplication(c)
  PROVE  KeepsAnAdmin'
<1>1. PICK m : m = call[c]
  OBVIOUS
<1>2. m \in Call /\ Fits(m) /\ m.pc = "application"
  BY <1>1, Parts, Called DEF ChangeApplication
<1>3. m.org \in Existing(orgs)
  BY <1>2 DEF Fits
<1>4. SaveApplication(m.org, m.arg, m.email, m.set) /\ overtaken \subseteq overtaken'
  BY <1>1 DEF ChangeApplication
<1>5. users' = users /\ (orgs' = orgs \/ orgs' = [orgs EXCEPT ![m.org].controlled = TRUE])
  BY <1>4 DEF SaveApplication
<1>6. \A o \in Existing(orgs') : o \in Existing(orgs)
  BY <1>3, <1>5, Parts DEF Existing, TablesHold
<1>7. QED
  BY <1>4, <1>5, <1>6, AdminsAlone

LEMMA ChangeCarries ==
  ASSUME KeysHold, CheckInv, NEW c \in Calls, Change(c)
  PROVE  CheckInv'
<1>1. Kept /\ Carries(call[c]) /\ overtaken \subseteq overtaken'
  <2>1. overtaken \subseteq overtaken'
    BY DEF Change, RegisterEnterprise, SignIn, JoinByInvite, ChangeOrganization, ChangeMember,
           Invite, Revoke, ChangeApplication, CreateSession, StoreRefuses, SaveFails, rest
  <2>2. QED
    BY <2>1, ChangeKeeps DEF CheckInv, ChecksCarried
<1>2. KeepsAnAdmin'
  <2>1. CASE \/ Invite(c) \/ \E i \in Invites : Revoke(c, i)
             \/ CreateSession(c) \/ StoreRefuses(c) \/ SaveFails(c)
    <3>1. users' = users /\ orgs' = orgs
      BY <2>1 DEF Invite, Revoke, CreateSession, StoreRefuses, SaveFails, CreateInvite,
                  RevokeInvite, tables
    <3>2. QED
      BY <1>1, <3>1, AdminsAlone DEF CheckInv
  <2>2. QED
    BY <1>1, <2>1, RegisterAdmins, SignInAdmins, JoinByInviteAdmins, OrganizationAdmins,
       AdminsSeen, ApplicationAdmins DEF CheckInv, Change
<1>3. NoDependencyCycle'
  <2>1. CASE ChangeApplication(c)
    BY <1>1, <2>1, CyclesSeen DEF CheckInv
  <2>2. CASE apps' = apps
    BY <1>1, <2>2, CyclesStay DEF CheckInv
  <2>3. ChangeApplication(c) \/ apps' = apps
    BY DEF Change, RegisterEnterprise, SignIn, JoinByInvite, ChangeOrganization, ChangeMember,
           Invite, Revoke, CreateSession, StoreRefuses, SaveFails, CreateEnterprise,
           SignInExisting, SignInByInvite, SignInByDomain, AcceptInvite, UpdateOrganization,
           UpdateMember, CreateInvite, RevokeInvite, tables
  <2>4. QED
    BY <2>1, <2>2, <2>3
<1>4. ChecksCarried'
  <2>1. PICK k : Turns(c, k) /\ k.pc \in {"session", "done"}
    BY ChangeKeeps DEF ChangeDone
  <2>2. Carries(k)'
    BY <2>1 DEF Carries
  <2>3. QED
    BY <1>1, <2>1, <2>2, CarriedStays DEF CheckInv
<1>5. QED
  BY <1>2, <1>3, <1>4 DEF CheckInv

LEMMA RestartCarries ==
  ASSUME KeysHold, CheckInv, NEW redis \in BOOLEAN, Restart(redis)
  PROVE  CheckInv'
<1>1. UNCHANGED <<users, orgs, apps, overtaken>>
  BY DEF Restart
<1>2. KeepsAnAdmin' /\ NoDependencyCycle'
  BY <1>1, RestartKeeps, AdminsAlone, CyclesStay DEF CheckInv
<1>3. ASSUME NEW c \in Calls PROVE Carries(call[c])'
  <2>1. PICK m : m = call[c]
    OBVIOUS
  <2>2. m \in Call
    BY <2>1, Parts, Called
  <2>3. Answered(m).pc = "done"
    BY <2>2, AnsweredShape
  <2>4. call'[c] = IF m.pc = "idle" THEN m ELSE Answered(m)
    BY <2>1 DEF Restart
  <2>5. call'[c].pc \in {"idle", "done"}
    BY <2>3, <2>4
  <2>6. QED
    BY <2>5 DEF Carries
<1>4. QED
  BY <1>2, <1>3 DEF CheckInv, ChecksCarried

LEMMA EveryStepCarries ==
  ASSUME KeysHold, CheckInv, [Next]_vars
  PROVE  CheckInv'
<1>1. ASSUME NEW c \in Calls, Start(c) \/ Check(c) \/ Change(c) PROVE CheckInv'
  BY <1>1, StartCarries, CheckCarries, ChangeCarries
<1>2. ASSUME NEW redis \in BOOLEAN, Restart(redis) PROVE CheckInv'
  BY <1>2, RestartCarries
<1>3. ASSUME UNCHANGED <<tables, overtaken, call>> PROVE CheckInv'
  <2>1. KeepsAnAdmin' /\ NoDependencyCycle'
    BY <1>3, EveryStepKeeps, ChecksStay
  <2>2. ChecksCarried'
    BY <1>3 DEF CheckInv, ChecksCarried, Carries
  <2>3. QED
    BY <2>1, <2>2 DEF CheckInv
<1>4. ASSUME NEW f \in Flows, HandleLogin(f) PROVE CheckInv'
  BY <1>3, <1>4 DEF HandleLogin, rest
<1>5. CASE Tick \/ UNCHANGED vars
  BY <1>3, <1>5 DEF Tick, vars, tables
<1>6. QED
  BY <1>1, <1>2, <1>4, <1>5 DEF Next

\* Seed's organisations have an administrator, and its dependencies no cycle.
LEMMA InitChecks == Init => CheckInv
<1> SUFFICES ASSUME Init PROVE CheckInv
  OBVIOUS
<1>1. users = Seed.users /\ orgs = Seed.orgs /\ apps = Seed.apps
  BY DEF Init
<1>2. ASSUME NEW o \in Existing(orgs) PROVE Admins(o) # {}
  <2>1. PICK u \in Existing(users) : users[u].org = o /\ users[u].active /\ users[u].admin
    BY <1>1, SeedAssumption
  <2>2. u \in Admins(o)
    BY <2>1 DEF Admins, MembersOf, Members
  <2>3. QED
    BY <2>2
<1>3. ASSUME NEW a \in Existing(apps) PROVE ~LeadsToCycle(DependenciesWith(a, apps[a].deps), a)
  <2>1. PICK g : g = [x \in Apps |-> IF x \in Existing(apps) THEN apps[x].deps ELSE {}]
    OBVIOUS
  <2>2. ~LeadsToCycle(g, a)
    BY <1>1, <2>1, SeedAssumption
  <2>3. DOMAIN apps = Apps
    BY <1>1, SeedAssumption
  <2>4. g = DependenciesWith(a, apps[a].deps)
    BY <2>1, <2>3 DEF DependenciesWith, Existing
  <2>5. QED
    BY <2>2, <2>4
<1>4. KeepsAnAdmin /\ NoDependencyCycle
  BY <1>2, <1>3 DEF KeepsAnAdmin, NoDependencyCycle
<1>5. ChecksCarried
  BY DEF Init, ChecksCarried, Carries, Idle
<1>6. QED
  BY <1>4, <1>5 DEF CheckInv

\* Whatever requests come in between, an organisation loses its last administrator, and its
\* applications get a cycle of dependencies, only where what HandleMember or
\* validateApplicationDependencies had read was out of date when the store saved.
THEOREM ChecksAlwaysHold == Spec => []ChecksHold
<1>1. KeysHold /\ CheckInv /\ [Next]_vars => CheckInv'
  BY EveryStepCarries
<1>2. CheckInv => ChecksHold
  BY DEF CheckInv, ChecksHold
<1>3. QED
  BY <1>1, <1>2, InitChecks, KeysAlwaysHold, PTL DEF Spec
=============================================================================
