----------------------------- MODULE Enterprise -----------------------------
(***************************************************************************)
(* The enterprise handlers of internal/auth and the application handlers   *)
(* of internal/service over the tables of Accounts, with the session       *)
(* repository: sessions, OIDC login flows and attempt counters.            *)
(*                                                                         *)
(* A call is one HTTP request.  A handler reads tables, decides, and only  *)
(* then calls the store method that changes them; each read that a later   *)
(* step relies on and each change is an action, so other calls come in     *)
(* between.  Reads and changes of the session repository that no other     *)
(* call can tell apart from the next step are part of it.  What comes from *)
(* the identity platform after the signature checks is any subject with    *)
(* any address that EmailsOf gives it.                                     *)
(***************************************************************************)
EXTENDS Accounts

CONSTANTS
  Calls, Flows, Tokens,
  EmailsOf,       \* addresses the identity platform may give for a subject
  Seed,           \* the tables and sessions at start, see Init
  AppSets,        \* sets of applications that are granted or depended on
  Limit,          \* attempts per window (8 logins, 12 invitations, 5 registrations)
  Window, SessionTTL, FlowTTL, InviteTTL,
  MaxTime, MaxReloads

ASSUME EnterpriseAssumption ==
  /\ EmailsOf \in [Subjects -> SUBSET Emails]
  /\ Calls \subseteq Tokens /\ IsFiniteSet(Calls) /\ AppSets \subseteq SUBSET Apps
  /\ Limit \in Nat \ {0} /\ Window \in Nat /\ SessionTTL \in Nat
  /\ FlowTTL \in Nat /\ InviteTTL \in Nat /\ MaxTime \in Nat /\ MaxReloads \in Nat
  /\ None \notin Emails \cup {"register", "invite"}

VARIABLES
  sessions,   \* [user, until] or None, by token; a call's own token is its id
  flows,      \* OIDC login flows: [state, until]
  attempts,   \* [count, until, window] by key; window numbers them (history)
  call,       \* requests in progress
  overtaken,  \* history: checks that were out of date when their change was made
  reloads     \* restarts and failed saves so far

vars == <<now, users, orgs, invites, apps, grants, joined, renamed,
          sessions, flows, attempts, call, overtaken, reloads>>

Keys == Emails \cup {"register", "invite"}

\* The records of the session repository.
Session == [user : Users, until : Nat]
Flow == [state : {"none", "open", "taken"}, until : Nat]
Counted == [count : Nat, until : Nat \cup {None}, window : Nat]

ASSUME NoneIsNoSession == None \notin Session

Idle == [pc |-> "idle", user |-> None, org |-> None, email |-> None, arg |-> None,
         sub |-> None, key |-> None, window |-> 0, good |-> FALSE, compared |-> FALSE,
         flow |-> None, set |-> {}, flag |-> FALSE, flag2 |-> FALSE, seen |-> {},
         graph |-> [a \in Apps |-> {}]]

\* What is remembered of a request that has been answered (history): the flow it
\* took, the window its password was compared in.
Answered(k) ==
  [Idle EXCEPT !.pc = "done", !.flow = k.flow, !.compared = k.compared,
               !.key = IF k.compared THEN k.key ELSE None,
               !.window = IF k.compared THEN k.window ELSE 0]

Goto(c, pc) == call' = [call EXCEPT ![c].pc = pc]
End(c) == call' = [call EXCEPT ![c] = Answered(@)]
repository == <<sessions, flows, attempts>>
rest == <<now, overtaken, reloads>>

-----------------------------------------------------------------------------
(* The session repository *)

\* Mutant of Allow: one attempt too many.
AllowOneMore(k) ==
  LET fresh == attempts[k].until = None \/ now > attempts[k].until
  IN  IF fresh THEN [allowed |-> TRUE, next |->
                       [count |-> 1, until |-> now + Window, window |-> attempts[k].window + 1]]
      ELSE [allowed |-> attempts[k].count <= Limit,
            next |-> [attempts[k] EXCEPT !.count = @ + 1]]

\* AllowAttempt: counts refused attempts too; a window opens at the first one
\* after the last has ended or was reset.
Allow(k) ==
  LET fresh == attempts[k].until = None \/ now > attempts[k].until
  IN  IF fresh THEN [allowed |-> TRUE, next |->
                       [count |-> 1, until |-> now + Window, window |-> attempts[k].window + 1]]
      ELSE [allowed |-> attempts[k].count < Limit,
            next |-> [attempts[k] EXCEPT !.count = @ + 1]]

\* sessionData: the session exists, has not ended and its user is active; the
\* middleware deletes it otherwise.
Live(t) ==
  sessions[t] # None /\ now <= sessions[t].until /\ users[sessions[t].user].active

\* createSession, the last step of every way in.
CreateSession(c) ==
  /\ call[c].pc = "session"
  /\ sessions' = [sessions EXCEPT ![c] = [user |-> call[c].user, until |-> now + SessionTTL]]
  /\ attempts' = IF call[c].good THEN [attempts EXCEPT ![call[c].key].until = None]
                 ELSE attempts
  /\ End(c)
  /\ UNCHANGED <<tables, flows, rest>>

\* HandleLogout deletes the session; the token that CSRF protection asks for is given.
HandleLogout(c, t) ==
  /\ call[c].pc = "idle" /\ sessions[t] # None
  /\ sessions' = [sessions EXCEPT ![t] = None]
  /\ End(c)
  /\ UNCHANGED <<tables, flows, attempts, rest>>

\* The first step of a handler that counts attempts.
Attempt(c, k, started) ==
  /\ call[c].pc = "idle"
  /\ attempts' = [attempts EXCEPT ![k] = Allow(k).next]
  /\ call' = [call EXCEPT ![c] =
       IF Allow(k).allowed THEN [started EXCEPT !.key = k, !.window = Allow(k).next.window]
       ELSE [Idle EXCEPT !.pc = "done"]]
  /\ UNCHANGED <<tables, sessions, flows, rest>>

-----------------------------------------------------------------------------
(* Registration and login with a password *)

HandleRegisterEnterprise(c, o, e) ==
  Attempt(c, "register", [Idle EXCEPT !.pc = "register", !.org = o, !.email = e])

RegisterEnterprise(c) ==
  /\ call[c].pc = "register" /\ HasRoom(users)
  /\ CreateEnterprise(call[c].org, Fresh(users), call[c].email)
  /\ call' = [call EXCEPT ![c].pc = "session", ![c].user = Fresh(users)]
  /\ UNCHANGED <<repository, rest>>

\* HandleLocalLogin; right: the password given is the member's.
HandleLocalLogin(c, e, right) ==
  Attempt(c, e, [Idle EXCEPT !.pc = "login", !.email = e, !.good = right])

LoginUser(c) ==
  /\ call[c].pc = "login"
  /\ \/ \E u \in WithEmail(call[c].email) :
          /\ users[u].active
          /\ call' = [call EXCEPT ![c].pc = "login_org", ![c].user = u]
     \/ /\ \E u \in WithEmail(call[c].email) : ~users[u].active
        /\ End(c)
     \/ WithEmail(call[c].email) = {} /\ End(c)
  /\ UNCHANGED <<tables, repository, rest>>

\* Organisations that enforce SSO take no passwords.
LoginOrganization(c) ==
  /\ call[c].pc = "login_org"
  /\ IF orgs[users[call[c].user].org].sso THEN End(c) ELSE Goto(c, "login_password")
  /\ UNCHANGED <<tables, repository, rest>>

\* The password is compared (a slow hash), then UpdateIdentityLogin notes the time.
LoginPassword(c) ==
  /\ call[c].pc = "login_password"
  /\ LET k == [call[c] EXCEPT !.compared = TRUE, !.pc = "session"]
     IN  call' = [call EXCEPT ![c] =
                    IF users[k.user].pwd /\ k.good THEN k ELSE Answered(k)]
  /\ UNCHANGED <<tables, repository, rest>>

-----------------------------------------------------------------------------
(* Single sign-on *)

\* HandleLogin puts a login flow under a fresh state token.
HandleLogin(f) ==
  /\ flows[f].state = "none"
  /\ flows' = [flows EXCEPT ![f] = [state |-> "open", until |-> now + FlowTTL]]
  /\ UNCHANGED <<tables, sessions, attempts, call, rest>>

\* HandleCallback takes the flow, whether it is still good or not; the token
\* endpoint and the checks of the ID token give a subject and an address.
HandleCallback(c, f, s, e) ==
  /\ call[c].pc = "idle" /\ flows[f].state = "open"
  /\ flows' = [flows EXCEPT ![f].state = "taken"]
  /\ call' = [call EXCEPT ![c] =
       IF now <= flows[f].until THEN [Idle EXCEPT !.pc = "sso", !.flow = f, !.sub = s, !.email = e]
       ELSE [Idle EXCEPT !.pc = "done"]]
  /\ UNCHANGED <<tables, sessions, attempts, rest>>

SignIn(c) ==
  /\ call[c].pc = "sso"
  /\ \E u \in Users :
       /\ \/ SignInExisting(u, call[c].sub, call[c].email)
          \/ /\ HasRoom(users) /\ u = Fresh(users)
             /\ \/ \E i \in Invites : SignInByInvite(i, u, call[c].sub, call[c].email)
                \/ \E o \in Orgs : SignInByDomain(o, u, call[c].sub, call[c].email)
       /\ call' = [call EXCEPT ![c].pc = "session", ![c].user = u]
  /\ UNCHANGED <<repository, rest>>

-----------------------------------------------------------------------------
(* Invitations *)

\* HandleAcceptInvite counts the attempt and looks the invitation up by the hash
\* of its token.
HandleAcceptInvite(c, i) ==
  Attempt(c, "invite",
    IF IsOpen(i) /\ invites[i].hash
    THEN [Idle EXCEPT !.pc = "accept", !.arg = i, !.email = invites[i].email]
    ELSE [Idle EXCEPT !.pc = "done"])

JoinByInvite(c) ==
  /\ call[c].pc = "accept" /\ HasRoom(users)
  /\ AcceptInvite(call[c].arg, Fresh(users), call[c].email)
  /\ call' = [call EXCEPT ![c].pc = "session", ![c].user = Fresh(users)]
  /\ UNCHANGED <<repository, rest>>

-----------------------------------------------------------------------------
(* The administrator's handlers *)

\* Middleware and currentEnterprise: the member of a live session; all the
\* handlers below ask for an administrator.
Enter(c, t) ==
  /\ call[c].pc = "idle" /\ sessions[t] # None
  /\ IF Live(t)
     THEN /\ LET u == sessions[t].user
             IN  call' = [call EXCEPT ![c] = [Idle EXCEPT !.user = u, !.org = users[u].org,
                            !.pc = IF users[u].admin THEN "entered" ELSE "done"]]
          /\ UNCHANGED sessions
     ELSE sessions' = [sessions EXCEPT ![t] = None] /\ End(c)
  /\ UNCHANGED <<tables, flows, attempts, rest>>

\* HandleOrganization: domains to join with, free ones; SSO is enforced only once
\* an administrator has used it.
CheckOrganization(c, domains, join, sso) ==
  /\ call[c].pc = "entered"
  /\ IF /\ join => /\ domains # {}
                   /\ \A d \in domains : ~ClaimedByOther(call[c].org, d)
        /\ sso /\ ~orgs[call[c].org].sso => HasActiveSSOAdmin(call[c].org)
     THEN call' = [call EXCEPT ![c] = [@ EXCEPT !.pc = "organization",
                     !.set = domains, !.flag = join, !.flag2 = sso]]
     ELSE End(c)
  /\ UNCHANGED <<tables, repository, rest>>

ChangeOrganization(c) ==
  /\ call[c].pc = "organization"
  /\ UpdateOrganization(call[c].org, call[c].set, call[c].flag, call[c].flag2)
  /\ End(c)
  /\ UNCHANGED <<repository, rest>>

\* Mutant of MayCheckMember: no question about the administrators left.
MayCheckMemberAlways(c, m, active, admin) == m \in MembersOf(call[c].org)

\* HandleMember: nobody stops being an administrator by their own hand, and the
\* last active administrator stays.
MayCheckMember(c, m, active, admin) ==
  /\ m \in MembersOf(call[c].org)
  /\ ~active \/ ~admin => m # call[c].user
  /\ users[m].admin /\ (~active \/ ~admin) => Cardinality(Admins(call[c].org)) > 1

CheckMember(c, m, active, admin, granted) ==
  /\ call[c].pc = "entered" /\ m \in MembersOf(call[c].org)
  /\ IF MayCheckMember(c, m, active, admin)
     THEN call' = [call EXCEPT ![c] = [@ EXCEPT !.pc = "member", !.arg = m, !.flag = active,
                     !.flag2 = admin, !.set = granted, !.seen = Admins(call[c].org)]]
     ELSE End(c)
  /\ UNCHANGED <<tables, repository, rest>>

ChangeMember(c) ==
  /\ call[c].pc = "member"
  /\ UpdateMember(call[c].org, call[c].arg, call[c].flag, call[c].flag2, call[c].set)
  /\ overtaken' = overtaken \cup
       (IF call[c].seen = Admins(call[c].org) THEN {} ELSE {<<call[c].org, "admins">>})
  /\ End(c)
  /\ UNCHANGED <<repository, now, reloads>>

\* HandleInvites: addresses that are not a member's.
CheckInvite(c, e) ==
  /\ call[c].pc = "entered"
  /\ IF WithEmail(e) = {}
     THEN call' = [call EXCEPT ![c].pc = "invite", ![c].email = e]
     ELSE End(c)
  /\ UNCHANGED <<tables, repository, rest>>

Invite(c) ==
  /\ call[c].pc = "invite" /\ HasRoom(invites)
  /\ CreateInvite(call[c].org, Fresh(invites), call[c].email, now + InviteTTL)
  /\ End(c)
  /\ UNCHANGED <<repository, rest>>

\* HandleInvite
Revoke(c, i) ==
  /\ call[c].pc = "entered"
  /\ RevokeInvite(call[c].org, i)
  /\ End(c)
  /\ UNCHANGED <<repository, rest>>

\* The service's CreateApplication and UpdateApplication look at the dependencies.
CheckApplication(c, a, name, deps) ==
  /\ call[c].pc = "entered"
  /\ a \in Existing(apps) \cup (IF HasRoom(apps) THEN {Fresh(apps)} ELSE {})
  /\ IF ValidDependencies(call[c].org, a, deps)
     THEN call' = [call EXCEPT ![c] = [@ EXCEPT !.pc = "application", !.arg = a,
                     !.email = name, !.set = deps, !.graph = DependenciesWith(a, deps)]]
     ELSE End(c)
  /\ UNCHANGED <<tables, repository, rest>>

ChangeApplication(c) ==
  /\ call[c].pc = "application"
  /\ SaveApplication(call[c].org, call[c].arg, call[c].email, call[c].set)
  /\ overtaken' = overtaken \cup
       (IF call[c].graph = DependenciesWith(call[c].arg, call[c].set) THEN {}
        ELSE {<<call[c].org, "dependencies">>})
  /\ End(c)
  /\ UNCHANGED <<repository, now, reloads>>

-----------------------------------------------------------------------------
(* Failure, time *)

Changing == {"register", "accept", "sso", "organization", "member", "invite", "application"}

\* The store's answer to the change a call asks for.
StoreAccepts(c) ==
  LET k == call[c] IN
  CASE k.pc = "register" -> MayCreateEnterprise(k.org, k.email)
    [] k.pc = "accept" -> MayAcceptInvite(k.arg, k.email)
    [] k.pc = "sso" -> MayUpsertSSOUser(k.sub, k.email)
    [] k.pc = "organization" -> MayUpdateOrganization(k.org, k.set, k.flag)
    [] k.pc = "member" -> MayUpdateMember(k.org, k.arg, k.set)
    [] k.pc = "invite" -> MayCreateInvite(k.org, k.email)
    [] k.pc = "application" -> MaySaveApplication(k.org, k.arg, k.email)

StoreRefuses(c) ==
  /\ call[c].pc \in Changing /\ ~StoreAccepts(c)
  /\ End(c)
  /\ UNCHANGED <<tables, repository, rest>>

\* The hash of an invitation's token is not written with the other fields: once
\* the tables are read back, nobody can accept the invitation by its token.
Reloaded == [i \in Invites |-> IF invites[i] = None THEN None
                               ELSE [invites[i] EXCEPT !.hash = FALSE]]

\* The save fails: restoreLocked reads the tables back.
SaveFails(c) ==
  /\ call[c].pc \in Changing /\ StoreAccepts(c) /\ reloads < MaxReloads
  /\ invites' = Reloaded /\ reloads' = reloads + 1
  /\ End(c)
  /\ UNCHANGED <<users, orgs, apps, grants, joined, renamed, repository, now, overtaken>>

\* The process restarts; sessions survive only in Redis.
Restart(redis) ==
  /\ reloads < MaxReloads
  /\ invites' = Reloaded /\ reloads' = reloads + 1
  /\ call' = [c \in Calls |-> IF call[c].pc = "idle" THEN call[c]
                              ELSE Answered(call[c])]
  /\ IF redis THEN UNCHANGED repository
     ELSE /\ sessions' = [t \in Tokens |-> None]
          /\ flows' = [f \in Flows |-> IF flows[f].state = "none" THEN flows[f]
                                    ELSE [flows[f] EXCEPT !.state = "taken"]]
          /\ attempts' = [k \in Keys |-> [attempts[k] EXCEPT !.until = None]]
  /\ UNCHANGED <<users, orgs, apps, grants, joined, renamed, now, overtaken>>

Tick ==
  /\ now < MaxTime
  /\ now' = now + 1
  /\ UNCHANGED <<tables, repository, call, overtaken, reloads>>

-----------------------------------------------------------------------------
\* Seed: organisations as registration, invitations and settings leave them.
ASSUME SeedAssumption ==
  LET us == Seed.users
      os == Seed.orgs
      as == Seed.apps
      U == Existing(us)
      A == Existing(as)
  IN  /\ us \in [Users -> User \cup {None}] /\ os \in [Orgs -> Organization \cup {None}]
      /\ Seed.invites \in [Invites -> Invitation \cup {None}]
      /\ as \in [Apps -> Application \cup {None}]
      /\ Seed.joined \in [Users -> Invites \cup {"founder", "domain", None}]
      /\ Seed.sessions \in [Tokens -> Session \cup {None}]
      /\ \A u \in U : os[us[u].org] # None
      /\ \A i \in Existing(Seed.invites) : os[Seed.invites[i].org] # None
      /\ \A a \in A : /\ os[as[a].org] # None
                      /\ \A d \in as[a].deps : d \in A /\ as[d].org = as[a].org
      /\ \A t \in Existing(Seed.sessions) : Seed.sessions[t].user \in U
      /\ \A u, v \in U : us[u].email = us[v].email => u = v
      /\ \A u, v \in U : us[u].sub = us[v].sub => us[u].sub = None \/ u = v
      /\ \A o, p \in Existing(os) : o # p /\ os[o].join /\ os[p].join =>
           os[o].domains \cap os[p].domains = {}
      /\ \A o \in Existing(os) : \E u \in U : us[u].org = o /\ us[u].active /\ us[u].admin
      /\ \A a, b \in A : a # b /\ as[a].org = as[b].org => as[a].name # as[b].name
      /\ \A a \in A : ~LeadsToCycle([x \in Apps |-> IF x \in A THEN as[x].deps ELSE {}], a)

Init ==
  /\ now = 0
  /\ users = Seed.users /\ orgs = Seed.orgs /\ invites = Seed.invites
  /\ apps = Seed.apps /\ grants = {}
  /\ joined = Seed.joined /\ renamed = {}
  /\ sessions = Seed.sessions
  /\ flows = [f \in Flows |-> [state |-> "none", until |-> 0]]
  /\ attempts = [k \in Keys |-> [count |-> 0, until |-> None, window |-> 0]]
  /\ call = [c \in Calls |-> Idle]
  /\ overtaken = {} /\ reloads = 0

Start(c) ==
  \/ \E o \in Orgs, e \in Emails : HandleRegisterEnterprise(c, o, e)
  \/ \E e \in Emails, right \in BOOLEAN : HandleLocalLogin(c, e, right)
  \/ \E f \in Flows, s \in Subjects : \E e \in EmailsOf[s] : HandleCallback(c, f, s, e)
  \/ \E i \in Invites : HandleAcceptInvite(c, i)
  \/ \E t \in Tokens : Enter(c, t) \/ HandleLogout(c, t)

Check(c) ==
  \/ LoginUser(c) \/ LoginOrganization(c) \/ LoginPassword(c)
  \/ \E domains \in SUBSET Domains, join, sso \in BOOLEAN :
       CheckOrganization(c, domains, join, sso)
  \/ \E m \in Users, active, admin \in BOOLEAN, granted \in AppSets :
       CheckMember(c, m, active, admin, granted)
  \/ \E e \in Emails : CheckInvite(c, e)
  \/ \E a \in Apps, name \in AppNames, deps \in AppSets :
       CheckApplication(c, a, name, deps)

Change(c) ==
  \/ RegisterEnterprise(c) \/ SignIn(c) \/ JoinByInvite(c)
  \/ ChangeOrganization(c) \/ ChangeMember(c) \/ Invite(c)
  \/ \E i \in Invites : Revoke(c, i)
  \/ ChangeApplication(c) \/ CreateSession(c)
  \/ StoreRefuses(c) \/ SaveFails(c)

Next ==
  \/ \E c \in Calls : Start(c) \/ Check(c) \/ Change(c)
  \/ \E f \in Flows : HandleLogin(f)
  \/ \E redis \in BOOLEAN : Restart(redis)
  \/ Tick

Spec == Init /\ [][Next]_vars

-----------------------------------------------------------------------------
(* Properties *)

Call == [pc : {"idle", "done", "register", "login", "login_org", "login_password", "sso",
               "accept", "entered", "organization", "member", "invite", "application",
               "session"},
         user : Users \cup {None}, org : Orgs \cup {None},
         email : Emails \cup AppNames \cup {None},
         arg : Users \cup Invites \cup Apps \cup {None},
         sub : Subjects \cup {None}, key : Keys \cup {None}, window : Nat,
         good : BOOLEAN, compared : BOOLEAN, flow : Flows \cup {None},
         set : SUBSET (Domains \cup Apps), flag : BOOLEAN, flag2 : BOOLEAN,
         seen : SUBSET Users, graph : [Apps -> SUBSET Apps]]

\* The shapes of the tables, of the session repository and of the calls.
TypeOK ==
  /\ now \in 0..MaxTime /\ reloads \in 0..MaxReloads
  /\ users \in [Users -> User \cup {None}]
  /\ orgs \in [Orgs -> Organization \cup {None}]
  /\ invites \in [Invites -> Invitation \cup {None}]
  /\ apps \in [Apps -> Application \cup {None}]
  /\ grants \subseteq Users \X Apps /\ renamed \subseteq Users
  /\ joined \in [Users -> Invites \cup {"founder", "domain", None}]
  /\ sessions \in [Tokens -> Session \cup {None}]
  /\ flows \in [Flows -> Flow]
  /\ attempts \in [Keys -> Counted]
  /\ call \in [Calls -> Call]
  /\ overtaken \subseteq Orgs \X {"admins", "dependencies"}

\* Applications of organisation o.
Inside(o, set) == \A a \in set : a \in Existing(apps) /\ apps[a].org = o

\* What a call is about exists, however long ago the call looked it up.
Fits(k) ==
  /\ k.pc \in {"session", "login_org", "login_password"} => k.user \in Members
  /\ k.pc \in {"register", "login", "sso", "accept", "invite"} => k.email \in Emails
  /\ k.pc = "register" => k.org \in Orgs
  /\ k.pc = "sso" => k.sub \in Subjects
  /\ k.pc = "accept" => k.arg \in Existing(invites)
  /\ k.pc \in {"entered", "organization", "member", "invite", "application"} =>
       k.org \in Existing(orgs)
  /\ k.pc = "organization" => k.set \subseteq Domains
  /\ k.pc = "member" => k.arg \in MembersOf(k.org) /\ k.set \subseteq Apps
  /\ k.pc = "application" =>
       /\ k.arg \in Apps \ k.set /\ k.email \in AppNames /\ Inside(k.org, k.set)

\* Every reference between tables, sessions and calls is to a record that exists.
References ==
  /\ \A u \in Members : users[u].org \in Existing(orgs)
  /\ \A i \in Existing(invites) : invites[i].org \in Existing(orgs)
  /\ \A a \in Existing(apps) :
       apps[a].org \in Existing(orgs) /\ Inside(apps[a].org, apps[a].deps)
  /\ \A t \in Existing(sessions) : sessions[t].user \in Members
  /\ \A c \in Calls : Fits(call[c])

\* No two members are bound to one subject.
SubjectsUnique ==
  \A u, v \in Members : users[u].sub = users[v].sub => users[u].sub = None \/ u = v

\* An organisation keeps an active administrator (HandleMember refuses to remove
\* the last one); it loses its last only where the administrators that
\* HandleMember counted had changed when UpdateMember made the change.
KeepsAnAdmin ==
  \A o \in Existing(orgs) : Admins(o) = {} => <<o, "admins">> \in overtaken

\* Dependencies between applications have no cycle, except where those
\* validateApplicationDependencies saw had changed when the store saved.
NoDependencyCycle ==
  \A a \in Existing(apps) :
    LeadsToCycle(DependenciesWith(a, apps[a].deps), a)
      => <<apps[a].org, "dependencies">> \in overtaken

\* Two members have one address only if the identity platform changed the address
\* of one of them (UpsertSSOUser does not look at the others).
EmailsUnique ==
  \A u, v \in Members : u # v /\ users[u].email = users[v].email
                          => u \in renamed \/ v \in renamed

\* No two organisations let the same domain join, whatever settings are saved at
\* the same time: a stranger's address leads to one organisation.
DomainsDisjoint ==
  \A o \in Existing(orgs), d \in Domains :
    orgs[o].join /\ d \in orgs[o].domains => ~ClaimedByOther(o, d)

\* Grants never cross organisations.
GrantsInside ==
  \A g \in grants : /\ g[1] \in Members /\ apps[g[2]] # None
                     /\ users[g[1]].org = apps[g[2]].org

\* The applications of an organisation have different names.
ApplicationsDistinct ==
  \A a, b \in Existing(apps) :
    a # b /\ apps[a].org = apps[b].org => apps[a].name # apps[b].name

\* What a handler that looked at the administrators, or at the dependencies, found
\* then: another administrator besides the one it takes away, no new cycle.
Carries(k) ==
  /\ k.pc = "member" /\ k.arg \in k.seen /\ ~(k.flag /\ k.flag2) => Cardinality(k.seen) > 1
  /\ k.pc = "application" /\ LeadsToCycle(k.graph, k.arg) =>
       <<k.org, "dependencies">> \in overtaken

ChecksCarried == \A c \in Calls : Carries(call[c])

\* A login flow lets one callback in, however often its URL is opened.
FlowsAreOnce ==
  \A c, d \in Calls : call[c].flow # None /\ call[c].flow = call[d].flow => c = d

\* A callback's flow has been taken.
FlowsAreTaken ==
  \A c \in Calls : call[c].flow # None => flows[call[c].flow].state = "taken"

\* In a window at most Limit passwords of an address are compared, those that
\* were let in before the window ended and are compared after it included.
WindowsAreBounded ==
  \A c \in Calls : call[c].key \in Emails =>
    Cardinality({d \in Calls : /\ call[d].key = call[c].key
                               /\ call[d].window = call[c].window
                               /\ call[d].compared}) <= Limit

\* The calls let in for key k in window w.
LetIn(k, w) == {d \in Calls : call[d].key = k /\ call[d].window = w}

\* The counter has counted every call it let in, and no window is ahead of it.
CountersCover ==
  /\ \A k \in Keys : \A w \in 0..attempts[k].window : Cardinality(LetIn(k, w)) <= Limit
  /\ \A k \in Keys : Cardinality(LetIn(k, attempts[k].window)) <= attempts[k].count
  /\ \A c \in Calls : call[c].key # None => call[c].window <= attempts[call[c].key].window

\* A member bound to a subject stays bound to it, and no other member is.
BindingKept ==
  [][\A u \in Members : users[u].sub # None =>
       /\ users'[u].sub = users[u].sub
       /\ \A v \in Users \ {u} : users'[v] # None => users'[v].sub # users[u].sub]_vars

\* An invitation ends once: accepted, it names the one member who came in by it,
\* in its organisation; accepted or revoked, it admits nobody more, however far a
\* request that saw it open has got.
InvitesEndOnce ==
  [][/\ \A i \in Existing(invites) : invites[i].status # "pending" =>
          invites'[i].status = invites[i].status /\ invites'[i].by = invites[i].by
     /\ \A u \in Users : joined'[u] # joined[u] /\ joined'[u] \in Invites =>
          LET i == joined'[u]
          IN  /\ invites'[i].status = "accepted" /\ invites'[i].by = u
              /\ invites'[i].org = users'[u].org]_vars

\* The keys that the store's methods test under its lock are kept, whatever handlers
\* saw before: addresses, subjects, domains, names, and grants inside one organisation.
KeysHold ==
  /\ TypeOK /\ References
  /\ EmailsUnique /\ SubjectsUnique /\ DomainsDisjoint /\ GrantsInside /\ ApplicationsDistinct

\* What only the handlers test, on an unlocked read, holds unless the read was
\* overtaken: the last administrator and dependencies without a cycle.
ChecksHold == KeepsAnAdmin /\ NoDependencyCycle /\ ChecksCarried

\* Ways in are limited: one callback for a flow, Limit passwords in a window.
LoginsAreLimited == FlowsAreOnce /\ FlowsAreTaken /\ WindowsAreBounded /\ CountersCover

\* How a member came in is final: the bound subject and the one invitation.
JoinsAreFinal == BindingKept /\ InvitesEndOnce
=============================================================================
