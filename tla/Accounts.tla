------------------------------ MODULE Accounts ------------------------------
(***************************************************************************)
(* Accounts (httpapi: auth, members, invitations, password_reset,          *)
(* platform_settings, organization_data): organizations, users, their      *)
(* roles, sessions, invitations, reset tokens, and the requests that act   *)
(* on them.                                                                *)
(*                                                                         *)
(* A request authenticates and reads in one step and writes in a later     *)
(* one, with everybody else in between: no handler takes a lock between    *)
(* the two, except the initial setup.  What it read it keeps in req.  A    *)
(* request may end anywhere without its next write (Refuse): the           *)
(* conditions that the code finds false end it so, and failed queries too. *)
(***************************************************************************)
EXTENDS Integers, FiniteSets, FiniteSetsExt

CONSTANTS Emails, NoEmail,    \* addresses, and the address of an absent row
          MaxUsers,           \* bound: users at a time, ids in order
          MaxOrgs,            \* bound: organizations at a time, ids in order
          Sessions,           \* bound: live sessions at a time
          Invitations,        \* bound: invitations that anybody can still use
          Tokens,             \* bound: reset tokens that anybody can still use
          Callers,            \* requests under way
          Assigned,           \* bound: the roles given to members
          Registering,        \* bound: what registration_enabled is set to
          Verifying,          \* bound: what require_email_verification is set to
          MaxOpen,            \* bound: invitations and tokens open at a time
          MaxRequests         \* bound: requests in all

ASSUME AccountsAssumption ==
  /\ MaxUsers \in Nat /\ MaxOrgs \in Nat
  /\ NoEmail \notin Emails
  /\ Assigned \subseteq {"admin", "editor", "viewer"}
  /\ Registering \subseteq BOOLEAN /\ Verifying \subseteq BOOLEAN
  /\ MaxOpen \in Nat /\ MaxRequests \in Nat

VARIABLES
  orgs,        \* the organizations that exist
  users,       \* the rows of users
  role,        \* memberships
  session,     \* the rows of sessions that are neither revoked nor expired
  invitation,  \* organization_invitations
  token,       \* password_reset_tokens
  settings,    \* platform_settings
  req,         \* what each request has in memory
  begun        \* how many requests began

tables == <<orgs, users, role, session, invitation, token, settings>>
vars == <<orgs, users, role, session, invitation, token, settings, req, begun>>

UserIds == 1..MaxUsers
OrgIds == 1..MaxOrgs
Nobody == 0
Roles == {"owner", "admin", "editor", "viewer"}

NoUser == [email |-> NoEmail, admin |-> FALSE, verified |-> FALSE]
NoSession == [user |-> Nobody, org |-> 0, root |-> Nobody]
NoInvitation == [state |-> "none", org |-> 0, email |-> NoEmail, role |-> "none", joined |-> 0]
NoToken == [state |-> "none", user |-> Nobody, spent |-> 0]
Idle == [op |-> "idle"]

Init ==
  /\ orgs = {}
  /\ users = [u \in UserIds |-> NoUser]
  /\ role = [o \in OrgIds |-> [u \in UserIds |-> "none"]]
  /\ session = [s \in Sessions |-> NoSession]
  /\ invitation = [i \in Invitations |-> NoInvitation]
  /\ token = [t \in Tokens |-> NoToken]
  /\ settings = [registration |-> TRUE, verification |-> FALSE]
  /\ req = [c \in Callers |-> Idle]
  /\ begun = 0

\* One type invariant for the tables and for what a request carries; an address names one user.
AccountsTypeOK ==
  /\ orgs \subseteq OrgIds
  /\ users \in [UserIds -> [email : Emails \union {NoEmail}, admin : BOOLEAN, verified : BOOLEAN]]
  /\ \A u, v \in UserIds : users[u].email = users[v].email /\ users[u] # NoUser => u = v
  /\ role \in [OrgIds -> [UserIds -> Roles \union {"none"}]]
  /\ \A s \in Sessions : \/ session[s] = NoSession
                         \/ session[s] \in [user : UserIds, org : OrgIds, root : Sessions]
  /\ \A i \in Invitations : invitation[i].state \in {"none", "pending", "expired", "accepted", "revoked"}
  /\ \A t \in Tokens : token[t].state \in {"none", "issued", "expired", "consumed"}
  /\ settings \in [registration : BOOLEAN, verification : BOOLEAN]
  /\ begun \in 0..MaxRequests
  /\ \A c \in Callers : req[c].op \in {"idle", "setup", "register", "signin", "switch", "password",
       "forgot", "reset", "invite", "revoke", "resend", "accept", "join", "create", "update",
       "remove", "purge", "settings"}
-----------------------------------------------------------------------------
(***************************************************************************)
(* Rows                                                                    *)
(***************************************************************************)
Exists(u) == u # Nobody /\ users[u] # NoUser
Live(s) == session[s] # NoSession
IsMember(o, u) == role[o][u] # "none"
UserOf(e) == IF \E u \in UserIds : users[u].email = e
             THEN CHOOSE u \in UserIds : users[u].email = e ELSE Nobody
Pending(i) == invitation[i].state \in {"pending", "expired"}
Unconsumed(t) == token[t].state \in {"issued", "expired"}

\* what requests still refer to
HeldBy(C, field) == {req[c][field] : c \in {d \in C : field \in DOMAIN req[d]}}
Held(field) == HeldBy(Callers, field)

\* Ids grow: a new row comes after every row that anything still refers to.
UsersInUse == {u \in UserIds : \/ Exists(u)
                               \/ \E o \in OrgIds : IsMember(o, u)
                               \/ \E s \in Sessions : session[s].user = u
                               \/ \E t \in Tokens : token[t].user = u /\ Unconsumed(t)
                               \/ u \in Held("user") \union UNION Held("users")}
OrgsInUse == orgs \union Held("org") \union {session[s].org : s \in {x \in Sessions : Live(x)}}
             \union {o \in OrgIds : \E u \in UserIds : IsMember(o, u)}
NextUser == 1 + Max(UsersInUse \union {0})
NextOrg == 1 + Max(OrgsInUse \union {0})
FreeSessions(c) == {s \in Sessions : ~Live(s) /\ s \notin HeldBy(Callers \ {c}, "session")}
FreeInvitations == {i \in Invitations : ~Pending(i) /\ i \notin Held("invitation")}
FreeTokens == {t \in Tokens : ~Unconsumed(t) /\ t \notin Held("token")}
Open == Cardinality({i \in Invitations : Pending(i)}) + Cardinality({t \in Tokens : Unconsumed(t)})
FreeRoots == Sessions \ {session[s].root : s \in Sessions}
-----------------------------------------------------------------------------
(***************************************************************************)
(* A request                                                               *)
(***************************************************************************)
Begin(c, r) ==
  /\ req[c] = Idle /\ begun < MaxRequests
  /\ req' = [req EXCEPT ![c] = r]
  /\ begun' = begun + 1
Goto(c, r) == req' = [req EXCEPT ![c] = r] /\ UNCHANGED begun
End(c) == Goto(c, Idle)

\* requireSession, loadActor: the session is good and its user is a member
Authenticated(s) ==
  /\ Live(s)
  /\ Exists(session[s].user)
  /\ session[s].org \in orgs
  /\ IsMember(session[s].org, session[s].user)

ActorOrg(s) == session[s].org
ActorUser(s) == session[s].user
ActorRole(s) == role[ActorOrg(s)][ActorUser(s)]

Administers(s) == Authenticated(s) /\ ActorRole(s) \in {"owner", "admin"}
AssignableRole(actorRole, target) ==
  /\ target \in {"admin", "editor", "viewer"}
  /\ \/ actorRole = "owner"
     \/ actorRole = "admin" /\ target # "admin"

\* every error path: nothing more is written
Refuse(c) == req[c] # Idle /\ End(c) /\ UNCHANGED tables

\* createSessionRecord
OpenSession(s, u, o, root) == session' = [session EXCEPT ![s] = [user |-> u, org |-> o, root |-> root]]

\* createSession, at the end of every way to sign in
SignIn(c) ==
  /\ req[c].op = "signin"
  /\ \E s \in FreeSessions(c), root \in FreeRoots : OpenSession(s, req[c].user, req[c].org, root)
  /\ End(c)
  /\ UNCHANGED <<orgs, users, role, invitation, token, settings>>

\* the sessions that a condition picks are revoked, or deleted
SessionsWithout(S) == [s \in Sessions |-> IF s \in S THEN NoSession ELSE session[s]]
SessionsOf(u) == {s \in Sessions : session[s].user = u}
-----------------------------------------------------------------------------
(***************************************************************************)
(* Setup, registration, sessions (auth.go, platform_settings.go)           *)
(***************************************************************************)
\* a user who owns a new organization
Found(e, admin, verified) ==
  /\ NextUser <= MaxUsers /\ NextOrg <= MaxOrgs
  /\ users' = [users EXCEPT ![NextUser] = [email |-> e, admin |-> admin, verified |-> verified]]
  /\ orgs' = orgs \union {NextOrg}
  /\ role' = [role EXCEPT ![NextOrg][NextUser] = "owner"]

\* createInitialAccount updates platform_settings first: one at a time
SetupLocked_Never == FALSE
SetupLocked == \E c \in Callers : req[c].op = "setup"

SetupBegin(c) ==
  /\ ~SetupLocked
  /\ \A u \in UserIds : ~Exists(u)
  /\ Begin(c, [op |-> "setup"])
  /\ UNCHANGED tables

Setup(c, e) ==
  /\ req[c].op = "setup"
  /\ UserOf(e) = Nobody
  /\ Found(e, TRUE, TRUE)
  /\ Goto(c, [op |-> "signin", user |-> NextUser, org |-> NextOrg])
  /\ UNCHANGED <<session, invitation, token, settings>>

RegisterBegin(c, e) ==
  /\ \E u \in UserIds : Exists(u)
  /\ settings.registration
  /\ Begin(c, [op |-> "register", email |-> e, verification |-> settings.verification])
  /\ UNCHANGED tables

\* a registration that trusts its first look for the address
Register_Unchecked(c) ==
  /\ req[c].op = "register"
  /\ Found(req[c].email, FALSE, ~req[c].verification)
  /\ IF req[c].verification THEN End(c)
     ELSE Goto(c, [op |-> "signin", user |-> NextUser, org |-> NextOrg])
  /\ UNCHANGED <<session, invitation, token, settings>>

Register(c) ==
  /\ req[c].op = "register"
  /\ UserOf(req[c].email) = Nobody
  /\ Found(req[c].email, FALSE, ~req[c].verification)
  /\ IF req[c].verification THEN End(c)
     ELSE Goto(c, [op |-> "signin", user |-> NextUser, org |-> NextOrg])
  /\ UNCHANGED <<session, invitation, token, settings>>

\* verifyLogin: the first membership decides the organization
Login(c, u) ==
  LET joined == {o \in OrgIds : IsMember(o, u)} IN
  /\ Exists(u)
  /\ joined # {} /\ Min(joined) \in orgs
  /\ settings.verification => users[u].verified
  /\ Begin(c, [op |-> "signin", user |-> u, org |-> Min(joined)])
  /\ UNCHANGED tables

\* authLogout, whose update decides whatever happened since the session was
\* read; or expires_at passes
SessionEnds(s) ==
  /\ Live(s)
  /\ session' = SessionsWithout({s})
  /\ UNCHANGED <<orgs, users, role, invitation, token, settings, req, begun>>

SwitchBegin(c, s, o) ==
  /\ Authenticated(s)
  /\ o \in orgs /\ IsMember(o, ActorUser(s))
  /\ Begin(c, [op |-> "switch", session |-> s, user |-> ActorUser(s), org |-> o])
  /\ UNCHANGED tables

\* a switch that does not look whether it ended the old session
Switch_KeepsGoing(c) ==
  /\ req[c].op = "switch"
  /\ \E s \in FreeSessions(c), root \in Sessions :
       /\ root \in {session[t].root : t \in SessionsOf(req[c].user)}
       /\ session' = [SessionsWithout({req[c].session}) EXCEPT
                        ![s] = [user |-> req[c].user, org |-> req[c].org, root |-> root]]
  /\ End(c)
  /\ UNCHANGED <<orgs, users, role, invitation, token, settings>>

\* the transaction: a new session for the old one, or neither
Switch(c) ==
  /\ req[c].op = "switch"
  /\ Live(req[c].session)
  /\ \E s \in FreeSessions(c) :
       session' = [SessionsWithout({req[c].session}) EXCEPT
                     ![s] = [user |-> req[c].user, org |-> req[c].org,
                             root |-> session[req[c].session].root]]
  /\ End(c)
  /\ UNCHANGED <<orgs, users, role, invitation, token, settings>>

SettingsBegin(c, s, registration, verification) ==
  /\ Authenticated(s) /\ users[ActorUser(s)].admin
  /\ Begin(c, [op |-> "settings", registration |-> registration, verification |-> verification])
  /\ UNCHANGED tables

PutPlatformSettings(c) ==
  /\ req[c].op = "settings"
  /\ settings' = [registration |-> req[c].registration, verification |-> req[c].verification]
  /\ End(c)
  /\ UNCHANGED <<orgs, users, role, session, invitation, token>>
-----------------------------------------------------------------------------
(***************************************************************************)
(* Passwords (members.go: authChangePassword; password_reset.go)           *)
(***************************************************************************)
TokensOf(u) == {t \in Tokens : token[t].user = u /\ Unconsumed(t)}
\* nothing reads the user of a consumed token
Spent(n) == [state |-> "consumed", user |-> Nobody, spent |-> n]
Consumed(S) == [t \in Tokens |-> IF t \in S THEN Spent(token[t].spent) ELSE token[t]]

ChangePasswordBegin(c, s) ==
  /\ Authenticated(s)
  /\ Begin(c, [op |-> "password", user |-> ActorUser(s), org |-> ActorOrg(s)])
  /\ UNCHANGED tables

\* the transaction; then the user is signed in again
ChangePassword(c) ==
  LET u == req[c].user IN
  /\ req[c].op = "password"
  /\ token' = Consumed(TokensOf(u))
  /\ session' = SessionsWithout(SessionsOf(u))
  /\ Goto(c, [op |-> "signin", user |-> u, org |-> req[c].org])
  /\ UNCHANGED <<orgs, users, role, invitation, settings>>

\* requestPasswordReset consumes what is outstanding, then issues a token
ForgotBegin(c, u) ==
  /\ Exists(u)
  /\ Begin(c, [op |-> "forgot", user |-> u])
  /\ token' = Consumed(TokensOf(u))
  /\ UNCHANGED <<orgs, users, role, session, invitation, settings>>

\* a token that cannot be delivered is consumed at once
Forgot(c) ==
  /\ req[c].op = "forgot" /\ Open < MaxOpen
  /\ \E t \in FreeTokens, delivered \in BOOLEAN :
       token' = [token EXCEPT ![t] = IF delivered THEN [state |-> "issued", user |-> req[c].user, spent |-> 0]
                                     ELSE Spent(0)]
  /\ End(c)
  /\ UNCHANGED <<orgs, users, role, session, invitation, settings>>

ResetBegin(c, t) ==
  /\ token[t].state = "issued"
  /\ Begin(c, [op |-> "reset", token |-> t, user |-> token[t].user])
  /\ UNCHANGED tables

\* consumePasswordReset, the transaction: it compares expires_at with the time
\* it read the token at, so a token may expire in between
Reset(c) ==
  LET t == req[c].token IN
  /\ req[c].op = "reset"
  /\ Unconsumed(t)
  /\ token' = [token EXCEPT ![t] = Spent(@.spent + 1)]
  /\ session' = SessionsWithout(SessionsOf(req[c].user))
  /\ End(c)
  /\ UNCHANGED <<orgs, users, role, invitation, settings>>

TokenExpires(t) ==
  /\ token[t].state = "issued"
  /\ token' = [token EXCEPT ![t].state = "expired"]
  /\ UNCHANGED <<orgs, users, role, session, invitation, settings, req, begun>>
-----------------------------------------------------------------------------
(***************************************************************************)
(* Invitations (invitations.go)                                            *)
(***************************************************************************)
\* nothing reads the rest of an invitation that is settled
Settled(i, state, n) == [invitation EXCEPT ![i] = [NoInvitation EXCEPT !.state = state, !.joined = n]]
Invite(i, o, e, r) ==
  [invitation EXCEPT ![i] = [state |-> "pending", org |-> o, email |-> e, role |-> r, joined |-> 0]]

InviteBegin(c, s, e, r) ==
  /\ Administers(s) /\ AssignableRole(ActorRole(s), r)
  /\ UserOf(e) # Nobody => ~IsMember(ActorOrg(s), UserOf(e))
  /\ Begin(c, [op |-> "invite", org |-> ActorOrg(s), email |-> e, role |-> r])
  /\ UNCHANGED tables

CreateInvitation(c) ==
  /\ req[c].op = "invite" /\ Open < MaxOpen
  /\ \E i \in FreeInvitations : invitation' = Invite(i, req[c].org, req[c].email, req[c].role)
  /\ End(c)
  /\ UNCHANGED <<orgs, users, role, session, token, settings>>

RevokeBegin(c, s, i) ==
  /\ Administers(s)
  /\ Begin(c, [op |-> "revoke", org |-> ActorOrg(s), invitation |-> i])
  /\ UNCHANGED tables

RevokeInvitation(c) ==
  LET i == req[c].invitation IN
  /\ req[c].op = "revoke"
  /\ Pending(i) /\ invitation[i].org = req[c].org
  /\ invitation' = Settled(i, "revoked", 0)
  /\ End(c)
  /\ UNCHANGED <<orgs, users, role, session, token, settings>>

ResendBegin(c, s, i) ==
  /\ Administers(s)
  /\ Pending(i) /\ invitation[i].org = ActorOrg(s)
  /\ Begin(c, [op |-> "resend", org |-> ActorOrg(s), invitation |-> i,
               email |-> invitation[i].email, role |-> invitation[i].role])
  /\ UNCHANGED tables

\* the transaction: the previous one, if still pending, gives way to a new one
ResendInvitation(c) ==
  LET i == req[c].invitation
      gone == IF Pending(i) THEN Settled(i, "revoked", 0) ELSE invitation IN
  /\ req[c].op = "resend" /\ (Pending(i) \/ Open < MaxOpen)
  /\ \E j \in FreeInvitations :
       invitation' = [gone EXCEPT ![j] = [state |-> "pending", org |-> req[c].org, email |-> req[c].email,
                                          role |-> req[c].role, joined |-> 0]]
  /\ End(c)
  /\ UNCHANGED <<orgs, users, role, session, token, settings>>

\* findInvitation
AcceptBegin(c, i) ==
  /\ invitation[i].state = "pending" /\ invitation[i].org \in orgs
  /\ Begin(c, [op |-> "accept", invitation |-> i, org |-> invitation[i].org,
               email |-> invitation[i].email, role |-> invitation[i].role])
  /\ UNCHANGED tables

\* the transaction reads the user and whether it is a member
AcceptRead(c) ==
  LET u == UserOf(req[c].email) IN
  /\ req[c].op = "accept"
  /\ u # Nobody => ~IsMember(req[c].org, u)
  /\ Goto(c, [op |-> "join", invitation |-> req[c].invitation, org |-> req[c].org,
              email |-> req[c].email, role |-> req[c].role, user |-> u])
  /\ UNCHANGED tables

\* ... and writes: a new user's address and a membership are unique
Joins(c, u) ==
  /\ req[c].op = "join"
  /\ IF req[c].user = Nobody
     THEN /\ UserOf(req[c].email) = Nobody /\ u = NextUser /\ u <= MaxUsers
          /\ users' = [users EXCEPT ![u] = [email |-> req[c].email, admin |-> FALSE, verified |-> FALSE]]
     ELSE u = req[c].user /\ users' = users
  /\ ~IsMember(req[c].org, u)
  /\ role' = [role EXCEPT ![req[c].org][u] = req[c].role]
  /\ invitation' = Settled(req[c].invitation, "accepted", invitation[req[c].invitation].joined + 1)
  /\ Goto(c, [op |-> "signin", user |-> u, org |-> req[c].org])
  /\ UNCHANGED <<orgs, session, token, settings>>

\* the update of the invitation looks at accepted_at only, unlike findInvitation
Accept(c) ==
  /\ req[c].op = "join"
  /\ invitation[req[c].invitation].state \in {"pending", "expired", "revoked"}
  /\ \E u \in UserIds : Joins(c, u)

InvitationExpires(i) ==
  /\ invitation[i].state = "pending"
  /\ invitation' = [invitation EXCEPT ![i].state = "expired"]
  /\ UNCHANGED <<orgs, users, role, session, token, settings, req, begun>>
-----------------------------------------------------------------------------
(***************************************************************************)
(* Members and organizations (members.go, organization_data.go)            *)
(***************************************************************************)
CreateMemberBegin(c, s, e, r) ==
  /\ Administers(s) /\ AssignableRole(ActorRole(s), r)
  /\ Begin(c, [op |-> "create", org |-> ActorOrg(s), email |-> e, role |-> r])
  /\ UNCHANGED tables

\* existing accounts need an invitation
CreateMember(c) ==
  /\ req[c].op = "create"
  /\ UserOf(req[c].email) = Nobody /\ NextUser <= MaxUsers
  /\ users' = [users EXCEPT ![NextUser] = [email |-> req[c].email, admin |-> FALSE, verified |-> FALSE]]
  /\ role' = [role EXCEPT ![req[c].org][NextUser] = req[c].role]
  /\ End(c)
  /\ UNCHANGED <<orgs, session, invitation, token, settings>>

\* an owner is protected, an admin from other admins
Manages(s, u) ==
  LET target == role[ActorOrg(s)][u] IN
  /\ Administers(s)
  /\ target \notin {"none", "owner"}
  /\ target = "admin" => ActorRole(s) = "owner"

UpdateBegin(c, s, u, r) ==
  /\ Manages(s, u) /\ AssignableRole(ActorRole(s), r)
  /\ Begin(c, [op |-> "update", org |-> ActorOrg(s), user |-> u, role |-> r])
  /\ UNCHANGED tables

\* a member removed in between stays removed
UpdateMember(c) ==
  /\ req[c].op = "update"
  /\ IsMember(req[c].org, req[c].user)
  /\ role' = [role EXCEPT ![req[c].org][req[c].user] = req[c].role]
  /\ End(c)
  /\ UNCHANGED <<orgs, users, session, invitation, token, settings>>

RemoveBegin(c, s, u) ==
  /\ Manages(s, u) /\ u # ActorUser(s)
  /\ Begin(c, [op |-> "remove", org |-> ActorOrg(s), user |-> u])
  /\ UNCHANGED tables

RemoveMember(c) ==
  LET o == req[c].org
      u == req[c].user IN
  /\ req[c].op = "remove"
  /\ role' = [role EXCEPT ![o][u] = "none"]
  /\ session' = SessionsWithout({s \in SessionsOf(u) : session[s].org = o})
  /\ End(c)
  /\ UNCHANGED <<orgs, users, invitation, token, settings>>

\* deleteOrganizationData notes the members before its transaction
PurgeBegin(c, s) ==
  LET o == ActorOrg(s) IN
  /\ Authenticated(s) /\ ActorRole(s) = "owner"
  /\ Begin(c, [op |-> "purge", org |-> o, users |-> {u \in UserIds : IsMember(o, u)}])
  /\ UNCHANGED tables

\* of the noted members, those without another membership are deleted
Abandoned_Noted(o, U) == U
Abandoned(o, U) == {u \in U : \A p \in OrgIds \ {o} : ~IsMember(p, u)}

\* purgeOrganization: rows by organization, tokens and users by the noted members
Purge(c) ==
  LET o == req[c].org IN
  /\ req[c].op = "purge"
  /\ o \in orgs
  /\ orgs' = orgs \ {o}
  /\ role' = [role EXCEPT ![o] = [u \in UserIds |-> "none"]]
  /\ session' = SessionsWithout({s \in Sessions : session[s].org = o})
  /\ invitation' = [i \in Invitations |-> IF invitation[i].org = o THEN NoInvitation ELSE invitation[i]]
  /\ token' = [t \in Tokens |-> IF token[t].user \in req[c].users THEN NoToken ELSE token[t]]
  /\ users' = [u \in UserIds |-> IF u \in Abandoned(o, req[c].users) THEN NoUser ELSE users[u]]
  /\ End(c)
  /\ UNCHANGED settings
-----------------------------------------------------------------------------
Signing(c) ==
  \/ SetupBegin(c) \/ \E e \in Emails : Setup(c, e) \/ RegisterBegin(c, e)
  \/ Register(c) \/ SignIn(c) \/ \E u \in UserIds : Login(c, u)
  \/ \E s \in Sessions : \/ \E o \in OrgIds : SwitchBegin(c, s, o)
                         \/ \E on \in Registering, verify \in Verifying : SettingsBegin(c, s, on, verify)
  \/ Switch(c) \/ PutPlatformSettings(c)

Passwords(c) ==
  \/ \E s \in Sessions : ChangePasswordBegin(c, s)
  \/ ChangePassword(c)
  \/ \E u \in UserIds : ForgotBegin(c, u)
  \/ Forgot(c)
  \/ \E t \in Tokens : ResetBegin(c, t)
  \/ Reset(c)

Inviting(c) ==
  \/ \E s \in Sessions : \/ \E e \in Emails, r \in Assigned : InviteBegin(c, s, e, r)
                         \/ \E i \in Invitations : RevokeBegin(c, s, i) \/ ResendBegin(c, s, i)
  \/ CreateInvitation(c) \/ RevokeInvitation(c) \/ ResendInvitation(c)
  \/ \E i \in Invitations : AcceptBegin(c, i)
  \/ AcceptRead(c) \/ Accept(c)

Managing(c) ==
  \/ \E s \in Sessions : \/ \E e \in Emails, r \in Assigned : CreateMemberBegin(c, s, e, r)
                         \/ \E u \in UserIds, r \in Assigned : UpdateBegin(c, s, u, r)
                         \/ \E u \in UserIds : RemoveBegin(c, s, u)
                         \/ PurgeBegin(c, s)
  \/ CreateMember(c) \/ UpdateMember(c) \/ RemoveMember(c) \/ Purge(c)

Next ==
  \/ \E c \in Callers : Signing(c) \/ Passwords(c) \/ Inviting(c) \/ Managing(c) \/ Refuse(c)
  \/ \E s \in Sessions : SessionEnds(s)
  \/ \E t \in Tokens : TokenExpires(t)
  \/ \E i \in Invitations : InvitationExpires(i)

Spec == Init /\ [][Next]_vars
-----------------------------------------------------------------------------
(***************************************************************************)
(* Properties                                                              *)
(***************************************************************************)
\* An organization keeps exactly one owner, whose account exists, whatever
\* members, invitations and the deletion of other organizations do.
OrganizationsKeepTheirOwner ==
  \A o \in orgs : \E u \in UserIds :
    Exists(u) /\ {v \in UserIds : role[o][v] = "owner"} = {u}

\* One sign-in never becomes two sessions: requests that switch the same
\* session at the same time leave one of them, not one each.
OneSessionPerSignIn ==
  \A s, t \in Sessions : Live(s) /\ Live(t) /\ session[s].root = session[t].root => s = t

\* An invitation makes one membership and a reset token changes one password,
\* also when a request read it before another one used it or the member was
\* removed again.
TicketsWorkOnce ==
  /\ \A i \in Invitations : invitation[i].joined <= 1
  /\ \A t \in Tokens : token[t].spent <= 1

\* Whatever may be used once - an invitation, a reset token, a session that is
\* switched - is used once by requests that read it at the same time.
UsedOnce == OneSessionPerSignIn /\ TicketsWorkOnce

\* Concurrent setups make one platform administrator, also after the last
\* organization was deleted and the system is set up again.
OnePlatformAdmin == Cardinality({u \in UserIds : users[u].admin}) <= 1
=============================================================================
