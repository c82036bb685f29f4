--------------------------- MODULE AccountsProofs ---------------------------
(***************************************************************************)
(* Theorems about Accounts, proved by TLAPS for any number of users,       *)
(* organizations, sessions, invitations, tokens and requests under way.    *)
(*                                                                         *)
(* Nothing locks a table between the step in which a request looks and the *)
(* step in which it writes, so the invariant says of every request what is *)
(* still true of what it carries: a member that is about to be changed or  *)
(* removed is not the owner of the organization, although roles, members   *)
(* and organizations may have gone and come since; a setup under way means *)
(* that there is no administrator.                                         *)
(***************************************************************************)
EXTENDS Accounts, FiniteSetTheorems, TLAPS

-----------------------------------------------------------------------------
(* What each table holds.                                                  *)

UsersOK ==
  /\ users \in [UserIds -> [email : Emails \union {NoEmail}, admin : BOOLEAN, verified : BOOLEAN]]
  /\ \A u \in UserIds : users[u] # NoUser => users[u].email \in Emails
  /\ \A u, v \in UserIds : users[u].email = users[v].email /\ users[u] # NoUser => u = v

RolesOK == role \in [OrgIds -> [UserIds -> Roles \union {"none"}]]

SessionsOK ==
  /\ session \in [Sessions -> {NoSession} \union [user : UserIds, org : OrgIds, root : Sessions]]
  /\ OneSessionPerSignIn

InvitationsOK ==
  /\ invitation \in [Invitations ->
       [state : {"none", "pending", "expired", "accepted", "revoked"}, org : OrgIds \union {0},
        email : Emails \union {NoEmail}, role : Assigned \union {"none"}, joined : {0, 1}]]
  /\ \A i \in Invitations :
       /\ invitation[i].state # "accepted" => invitation[i].joined = 0
       /\ Pending(i) => /\ invitation[i].org \in OrgIds
                        /\ invitation[i].email \in Emails
                        /\ invitation[i].role \in Assigned

TokensOK ==
  /\ token \in [Tokens -> [state : {"none", "issued", "expired", "consumed"},
                           user : UserIds \union {Nobody}, spent : {0, 1}]]
  /\ \A t \in Tokens : Unconsumed(t) => token[t].user \in UserIds /\ token[t].spent = 0

SettingsOK == settings \in [registration : BOOLEAN, verification : BOOLEAN] /\ begun \in 0..MaxRequests

OwnersOK == orgs \subseteq OrgIds /\ OrganizationsKeepTheirOwner

-----------------------------------------------------------------------------
(* What a request carries.                                                 *)

ForUser == {"signin", "switch", "password", "forgot", "reset", "update", "remove"}
ForOrg == {"signin", "switch", "password", "invite", "revoke", "resend", "accept", "join", "create",
           "update", "remove", "purge"}
ForEmail == {"register", "invite", "resend", "accept", "join", "create"}
ForRole == {"invite", "resend", "accept", "join", "create", "update"}
ForInvitation == {"revoke", "resend", "accept", "join"}

ReqTyped(r) ==
  /\ r.op \in ForUser \union ForOrg \union ForEmail \union {"idle", "setup", "settings"}
  /\ "user" \in DOMAIN r => r.user \in UserIds \union {Nobody}
  /\ "users" \in DOMAIN r => r.users \subseteq UserIds
  /\ "org" \in DOMAIN r => r.org \in OrgIds
  /\ r.op \in ForUser => r.user \in UserIds
  /\ r.op = "join" => r.user \in UserIds \union {Nobody}
  /\ r.op \in ForOrg => "org" \in DOMAIN r
  /\ r.op \in ForEmail => r.email \in Emails
  /\ r.op \in ForRole => r.role \in Assigned
  /\ r.op \in ForInvitation => r.invitation \in Invitations
  /\ r.op = "switch" => r.session \in Sessions
  /\ r.op = "reset" => r.token \in Tokens
  /\ r.op = "purge" => "users" \in DOMAIN r
  /\ r.op = "register" => r.verification \in BOOLEAN
  /\ r.op = "settings" => r.registration \in BOOLEAN /\ r.verification \in BOOLEAN

SparesOwner(r) == r.op \in {"update", "remove"} => role[r.org][r.user] # "owner"

ReqsOK ==
  /\ DOMAIN req = Callers
  /\ \A c \in Callers : ReqTyped(req[c]) /\ SparesOwner(req[c])

\* At most one administrator; none while the system is being set up, which
\* one request at a time does.
AdminsOK ==
  /\ \A u, v \in UserIds : users[u].admin /\ users[v].admin => u = v
  /\ \A c \in Callers : req[c].op = "setup" =>
       /\ \A u \in UserIds : ~users[u].admin
       /\ \A d \in Callers : req[d].op = "setup" => d = c

AccountsInv ==
  /\ UsersOK /\ RolesOK /\ SessionsOK /\ InvitationsOK /\ TokensOK /\ SettingsOK
  /\ OwnersOK /\ ReqsOK /\ AdminsOK
-----------------------------------------------------------------------------
(* Numbers: a bounded set that is not empty has a maximum.  The library's  *)
(* induction takes the formula as a parameter, which the provers cannot    *)
(* instantiate; its least elements of well-founded sets serve instead.     *)

LEMMA LeastNumber ==
  ASSUME NEW S \in SUBSET Nat, S # {}
  PROVE  \E m \in S : \A n \in S : m <= n
<1> DEFINE Below == {p \in Nat \X Nat : p[1] < p[2]}
<1>1. IsWellFoundedOn(Below, Nat)
  BY NatLessThanWellFounded DEF OpToRel
<1>2. \E x \in S : \A y \in S : ~ (<<y, x>> \in Below)
  <2> HIDE DEF Below
  <2> QED
    BY <1>1, WFMin
<1>3. PICK x \in S : \A y \in S : ~ (<<y, x>> \in Below)
  BY <1>2
<1>4. ASSUME NEW n \in S, n < x PROVE FALSE
  <2>1. <<n, x>> \in Nat \X Nat
    OBVIOUS
  <2> QED
    BY <2>1, <1>3, <1>4
<1> QED
  BY <1>3, <1>4

LEMMA MaxOfBounded ==
  ASSUME NEW n \in Nat, NEW S \in SUBSET (0..n), S # {}
  PROVE  Max(S) \in S /\ \A x \in S : Max(S) >= x
<1> DEFINE Bounds == {m \in Nat : \A x \in S : x <= m}
<1>1. Bounds \in SUBSET Nat /\ n \in Bounds
  OBVIOUS
<1>2. \E m \in Bounds : \A b \in Bounds : m <= b
  <2> HIDE DEF Bounds
  <2> QED
    BY <1>1, LeastNumber
<1>3. PICK m \in Bounds : \A b \in Bounds : m <= b
  BY <1>2
<1>4. m \in S
  <2>1. SUFFICES ASSUME m \notin S PROVE FALSE
    OBVIOUS
  <2>2. \A x \in S : x <= m - 1
    <3>1. \A x \in S : x \in Nat /\ x <= m /\ x # m
      BY <2>1, <1>3
    <3> QED
      BY <3>1, <1>3
  <2>3. m - 1 \in Nat
    <3>1. PICK x \in S : TRUE
      OBVIOUS
    <3>2. x \in Nat /\ x <= m - 1
      BY <2>2
    <3> QED
      BY <3>2, <1>3
  <2>4. m - 1 \in Bounds
    BY <2>2, <2>3
  <2> QED
    BY <2>4, <1>3
<1>5. \E x \in S : \A y \in S : x >= y
  BY <1>3, <1>4
<1> QED
  BY <1>5 DEF Max

-----------------------------------------------------------------------------
(* The id of a new row is one that nothing refers to: no membership, no    *)
(* session and no request under way.                                       *)

LEMMA NewUserIsFresh ==
  ASSUME AccountsInv
  PROVE  /\ NextUser \in Nat \ {0}
         /\ \A u \in UserIds : u \in UsersInUse => u < NextUser
<1> DEFINE InUse == UsersInUse \union {0}
<1>1. MaxUsers \in Nat
  BY AccountsAssumption
<1>2. InUse \in SUBSET (0..MaxUsers) /\ InUse # {}
  BY <1>1 DEF UsersInUse, UserIds
<1>3. Max(InUse) \in InUse /\ \A x \in InUse : Max(InUse) >= x
  <2> HIDE DEF InUse
  <2> QED
    BY <1>1, <1>2, MaxOfBounded
<1>4. Max(InUse) \in Nat
  BY <1>1, <1>2, <1>3
<1>5. NextUser = 1 + Max(InUse)
  BY DEF NextUser
<1> HIDE DEF InUse
<1>6. \A u \in UserIds : u \in UsersInUse => u \in InUse /\ u \in Nat
  BY DEF InUse, UserIds
<1> QED
  BY <1>3, <1>4, <1>5, <1>6

LEMMA NewUser ==
  ASSUME AccountsInv, NextUser <= MaxUsers
  PROVE  /\ NextUser \in UserIds
         /\ users[NextUser] = NoUser
         /\ \A o \in OrgIds : role[o][NextUser] = "none"
<1>1. NextUser \in UserIds /\ NextUser \notin UsersInUse
  BY NewUserIsFresh, AccountsAssumption DEF UserIds
<1> QED
  BY <1>1 DEF UsersInUse, Exists, IsMember, UserIds, Nobody

LEMMA NewOrg ==
  ASSUME AccountsInv, NextOrg <= MaxOrgs
  PROVE  /\ NextOrg \in OrgIds /\ NextOrg \notin orgs
         /\ \A c \in Callers : req[c].op \in ForOrg => req[c].org # NextOrg
         /\ \A u \in UserIds : role[NextOrg][u] = "none"
<1> DEFINE InUse == OrgsInUse \union {0}
<1>1. MaxOrgs \in Nat
  BY AccountsAssumption
<1>2. \A c \in Callers : "org" \in DOMAIN req[c] => req[c].org \in OrgIds
  BY DEF AccountsInv, ReqsOK, ReqTyped
<1>3. \A s \in Sessions : Live(s) => session[s].org \in OrgIds
  BY DEF AccountsInv, SessionsOK, Live
<1>4. OrgsInUse \subseteq OrgIds
  BY <1>2, <1>3 DEF OrgsInUse, Held, HeldBy, AccountsInv, OwnersOK
<1>5. InUse \in SUBSET (0..MaxOrgs) /\ InUse # {}
  BY <1>1, <1>4 DEF OrgIds
<1>6. Max(InUse) \in InUse /\ \A x \in InUse : Max(InUse) >= x
  <2> HIDE DEF InUse
  <2> QED
    BY <1>1, <1>5, MaxOfBounded
<1>7. Max(InUse) \in Nat /\ NextOrg = 1 + Max(InUse)
  BY <1>1, <1>5, <1>6 DEF NextOrg
<1>8. NextOrg \in OrgIds /\ NextOrg \notin OrgsInUse
  BY <1>1, <1>4, <1>6, <1>7 DEF OrgIds
<1>9. \A c \in Callers : req[c].op \in ForOrg => req[c].org \in OrgsInUse
  BY DEF OrgsInUse, Held, HeldBy, AccountsInv, ReqsOK, ReqTyped
<1>10. \A u \in UserIds : IsMember(NextOrg, u) => NextOrg \in OrgsInUse
  BY <1>8 DEF OrgsInUse
<1> QED
  BY <1>8, <1>9, <1>10 DEF OrgsInUse, IsMember

-----------------------------------------------------------------------------
(* What a step keeps.                                                      *)

\* Nobody becomes the owner of an organization that a request carries.
OwnersAreNew ==
  \A o \in OrgIds, u \in UserIds : role'[o][u] = "owner" =>
    role[o][u] = "owner" \/ \A d \in Callers : req[d].op \in ForOrg => req[d].org # o

\* Requests that do not move still spare the owner, and one that moves does.
LEMMA ReqsStay ==
  ASSUME AccountsInv, NEW c \in Callers, NEW r, req' = [req EXCEPT ![c] = r], ReqTyped(r),
         r.op \in {"update", "remove"} => role'[r.org][r.user] # "owner", OwnersAreNew
  PROVE  ReqsOK'
<1>1. DOMAIN req' = Callers /\ \A d \in Callers : req'[d] = IF d = c THEN r ELSE req[d]
  BY DEF AccountsInv, ReqsOK
<1>2. ASSUME NEW d \in Callers, d # c PROVE ReqTyped(req[d]) /\ SparesOwner(req[d])'
  <2>1. ReqTyped(req[d]) /\ SparesOwner(req[d])
    BY DEF AccountsInv, ReqsOK
  <2>2. req[d].op \in {"update", "remove"} =>
           req[d].op \in ForOrg /\ req[d].org \in OrgIds /\ req[d].user \in UserIds
    BY <2>1 DEF ReqTyped, ForOrg, ForUser
  <2>3. req'[d] = req[d]
    BY <1>1, <1>2
  <2> QED
    BY <2>1, <2>2, <2>3 DEF SparesOwner, OwnersAreNew
<1>3. ASSUME NEW d \in Callers PROVE (ReqTyped(req[d]) /\ SparesOwner(req[d]))'
  <2>1. CASE d = c
    <3>1. req'[d] = r
      BY <1>1, <2>1
    <3> QED
      BY <3>1 DEF SparesOwner, ReqTyped
  <2>2. CASE d # c
    <3>1. req'[d] = req[d]
      BY <1>1, <2>2
    <3> QED
      BY <3>1, <2>2, <1>2 DEF ReqTyped
  <2> QED
    BY <2>1, <2>2
<1> QED
  BY <1>1, <1>3 DEF ReqsOK

\* A step that makes nobody an administrator and begins no setup.
LEMMA AdminsStay ==
  ASSUME AccountsInv, \A u \in UserIds : users'[u].admin => users[u].admin,
         \A d \in Callers : req'[d].op = "setup" => req[d].op = "setup"
  PROVE  AdminsOK'
BY DEF AccountsInv, AdminsOK

\* A request that moves on and writes nothing.
LEMMA RequestMoves ==
  ASSUME AccountsInv, UNCHANGED tables, begun' \in 0..MaxRequests,
         NEW c \in Callers, NEW r, req' = [req EXCEPT ![c] = r],
         ReqTyped(r), SparesOwner(r), r.op # "setup"
  PROVE  AccountsInv'
<1>1. ReqsOK'
  BY ReqsStay DEF tables, OwnersAreNew, SparesOwner
<1>2. AdminsOK'
  BY AdminsStay DEF tables, AccountsInv, ReqsOK
<1>3. UsersOK' /\ RolesOK' /\ SessionsOK' /\ InvitationsOK' /\ TokensOK' /\ SettingsOK'
  BY DEF tables, AccountsInv, UsersOK, RolesOK, SessionsOK, InvitationsOK, TokensOK, SettingsOK,
         OneSessionPerSignIn, Live, Pending, Unconsumed
<1>4. OwnersOK'
  BY DEF tables, AccountsInv, OwnersOK, OrganizationsKeepTheirOwner, Exists
<1> QED
  BY <1>1, <1>2, <1>3, <1>4 DEF AccountsInv

LEMMA RequestBegins ==
  ASSUME AccountsInv, UNCHANGED tables, NEW c \in Callers, NEW r, Begin(c, r),
         ReqTyped(r), SparesOwner(r), r.op # "setup"
  PROVE  AccountsInv'
<1>1. begun' \in 0..MaxRequests
  BY AccountsAssumption DEF Begin, AccountsInv, SettingsOK
<1> QED
  BY <1>1, RequestMoves DEF Begin

\* What a session that is authenticated says of its user and organization.
LEMMA ActorTypes ==
  ASSUME AccountsInv, NEW s \in Sessions, Authenticated(s)
  PROVE  ActorUser(s) \in UserIds /\ ActorOrg(s) \in OrgIds
BY DEF AccountsInv, SessionsOK, Authenticated, Live, ActorUser, ActorOrg

-----------------------------------------------------------------------------
(* The requests that look: they begin, or go on, with what they found.     *)

LEMMA SigningBegins ==
  ASSUME AccountsInv, NEW c \in Callers,
         \/ SetupBegin(c) \/ \E e \in Emails : RegisterBegin(c, e)
         \/ \E u \in UserIds : Login(c, u)
         \/ \E s \in Sessions, o \in OrgIds : SwitchBegin(c, s, o)
         \/ \E s \in Sessions, on \in Registering, verify \in Verifying : SettingsBegin(c, s, on, verify)
  PROVE  AccountsInv'
<1> USE DEF ForUser, ForOrg, ForEmail, ForRole, ForInvitation
<1>1. CASE SetupBegin(c)
  <2>1. req' = [req EXCEPT ![c] = [op |-> "setup"]] /\ UNCHANGED tables /\ req[c] = Idle
    BY <1>1 DEF SetupBegin, Begin
  <2>2. begun' \in 0..MaxRequests
    BY <1>1, AccountsAssumption DEF SetupBegin, Begin, AccountsInv, SettingsOK
  <2>3. ReqTyped([op |-> "setup"]) /\ ReqsOK'
    <3>1. ReqTyped([op |-> "setup"])
      BY DEF ReqTyped
    <3>2. OwnersAreNew
      BY <2>1 DEF tables, OwnersAreNew
    <3> QED
      BY <2>1, <3>1, <3>2, ReqsStay
  <2>4. \A u \in UserIds : ~users[u].admin
    BY <1>1 DEF SetupBegin, Exists, NoUser, UserIds, Nobody
  <2>5. \A d \in Callers : req'[d].op = "setup" => d = c
    BY <1>1, <2>1 DEF SetupBegin, SetupLocked, AccountsInv, ReqsOK
  <2>6. AdminsOK'
    BY <2>1, <2>4, <2>5 DEF tables, AccountsInv, AdminsOK
  <2>7. UsersOK' /\ RolesOK' /\ SessionsOK' /\ InvitationsOK' /\ TokensOK' /\ SettingsOK'
    BY <2>1, <2>2 DEF tables, AccountsInv, UsersOK, RolesOK, SessionsOK, InvitationsOK, TokensOK,
         SettingsOK, OneSessionPerSignIn, Live, Pending, Unconsumed
  <2>8. OwnersOK'
    BY <2>1 DEF tables, AccountsInv, OwnersOK, OrganizationsKeepTheirOwner, Exists
  <2> QED
    BY <2>3, <2>6, <2>7, <2>8 DEF AccountsInv
<1>2. ASSUME NEW e \in Emails, RegisterBegin(c, e) PROVE AccountsInv'
  <2> DEFINE r == [op |-> "register", email |-> e, verification |-> settings.verification]
  <2>1. Begin(c, r) /\ UNCHANGED tables
    BY <1>2 DEF RegisterBegin
  <2>2. ReqTyped(r) /\ SparesOwner(r) /\ r.op # "setup"
    BY DEF ReqTyped, SparesOwner, AccountsInv, SettingsOK
  <2> HIDE DEF r
  <2> QED
    BY <2>1, <2>2, RequestBegins
<1>3. ASSUME NEW u \in UserIds, Login(c, u) PROVE AccountsInv'
  <2>1. PICK o \in OrgIds : Begin(c, [op |-> "signin", user |-> u, org |-> o])
    BY <1>3 DEF Login, AccountsInv, OwnersOK
  <2> DEFINE r == [op |-> "signin", user |-> u, org |-> o]
  <2>2. ReqTyped(r) /\ SparesOwner(r) /\ r.op # "setup"
    BY DEF ReqTyped, SparesOwner
  <2>3. UNCHANGED tables /\ Begin(c, r)
    BY <1>3, <2>1 DEF Login
  <2> HIDE DEF r
  <2> QED
    BY <2>2, <2>3, RequestBegins
<1>4. ASSUME NEW s \in Sessions, NEW o \in OrgIds, SwitchBegin(c, s, o) PROVE AccountsInv'
  <2> DEFINE r == [op |-> "switch", session |-> s, user |-> ActorUser(s), org |-> o]
  <2>1. Begin(c, r) /\ UNCHANGED tables /\ Authenticated(s)
    BY <1>4 DEF SwitchBegin
  <2>2. ActorUser(s) \in UserIds
    BY <2>1, ActorTypes
  <2>3. ReqTyped(r) /\ SparesOwner(r) /\ r.op # "setup"
    BY <2>2 DEF ReqTyped, SparesOwner
  <2> HIDE DEF r
  <2> QED
    BY <2>1, <2>3, RequestBegins
<1>5. ASSUME NEW s \in Sessions, NEW on \in Registering, NEW verify \in Verifying,
             SettingsBegin(c, s, on, verify)
      PROVE  AccountsInv'
  <2> DEFINE r == [op |-> "settings", registration |-> on, verification |-> verify]
  <2>1. Begin(c, r) /\ UNCHANGED tables
    BY <1>5 DEF SettingsBegin
  <2>2. ReqTyped(r) /\ SparesOwner(r) /\ r.op # "setup"
    BY AccountsAssumption DEF ReqTyped, SparesOwner
  <2> HIDE DEF r
  <2> QED
    BY <2>1, <2>2, RequestBegins
<1> QED
  BY <1>1, <1>2, <1>3, <1>4, <1>5

LEMMA PasswordsBegin ==
  ASSUME AccountsInv, NEW c \in Callers,
         \/ \E s \in Sessions : ChangePasswordBegin(c, s)
         \/ \E t \in Tokens : ResetBegin(c, t)
  PROVE  AccountsInv'
<1> USE DEF ForUser, ForOrg, ForEmail, ForRole, ForInvitation
<1>1. ASSUME NEW s \in Sessions, ChangePasswordBegin(c, s) PROVE AccountsInv'
  <2> DEFINE r == [op |-> "password", user |-> ActorUser(s), org |-> ActorOrg(s)]
  <2>1. Begin(c, r) /\ UNCHANGED tables /\ Authenticated(s)
    BY <1>1 DEF ChangePasswordBegin
  <2>2. ActorUser(s) \in UserIds /\ ActorOrg(s) \in OrgIds
    BY <2>1, ActorTypes
  <2>3. ReqTyped(r) /\ SparesOwner(r) /\ r.op # "setup"
    BY <2>2 DEF ReqTyped, SparesOwner
  <2> HIDE DEF r
  <2> QED
    BY <2>1, <2>3, RequestBegins
<1>2. ASSUME NEW t \in Tokens, ResetBegin(c, t) PROVE AccountsInv'
  <2> DEFINE r == [op |-> "reset", token |-> t, user |-> token[t].user]
  <2>1. Begin(c, r) /\ UNCHANGED tables
    BY <1>2 DEF ResetBegin
  <2>3. ReqTyped(r) /\ SparesOwner(r) /\ r.op # "setup"
    BY <1>2 DEF ReqTyped, SparesOwner, AccountsInv, TokensOK, Unconsumed, ResetBegin
  <2> HIDE DEF r
  <2> QED
    BY <2>1, <2>3, RequestBegins
<1> QED
  BY <1>1, <1>2

LEMMA InvitingBegins ==
  ASSUME AccountsInv, NEW c \in Callers,
         \/ \E s \in Sessions, e \in Emails, r \in Assigned : InviteBegin(c, s, e, r)
         \/ \E s \in Sessions, i \in Invitations : RevokeBegin(c, s, i) \/ ResendBegin(c, s, i)
         \/ \E i \in Invitations : AcceptBegin(c, i)
         \/ AcceptRead(c)
  PROVE  AccountsInv'
<1> USE DEF ForUser, ForOrg, ForEmail, ForRole, ForInvitation
<1>1. ASSUME NEW s \in Sessions, NEW e \in Emails, NEW a \in Assigned, InviteBegin(c, s, e, a) PROVE AccountsInv'
  <2> DEFINE r == [op |-> "invite", org |-> ActorOrg(s), email |-> e, role |-> a]
  <2>1. Begin(c, r) /\ UNCHANGED tables /\ Authenticated(s)
    BY <1>1 DEF InviteBegin, Administers
  <2>2. ActorUser(s) \in UserIds /\ ActorOrg(s) \in OrgIds
    BY <2>1, ActorTypes
  <2>3. ReqTyped(r) /\ SparesOwner(r) /\ r.op # "setup"
    BY <2>2 DEF ReqTyped, SparesOwner
  <2> HIDE DEF r
  <2> QED
    BY <2>1, <2>3, RequestBegins
<1>2. ASSUME NEW s \in Sessions, NEW i \in Invitations, RevokeBegin(c, s, i) PROVE AccountsInv'
  <2> DEFINE r == [op |-> "revoke", org |-> ActorOrg(s), invitation |-> i]
  <2>1. Begin(c, r) /\ UNCHANGED tables /\ Authenticated(s)
    BY <1>2 DEF RevokeBegin, Administers
  <2>2. ActorUser(s) \in UserIds /\ ActorOrg(s) \in OrgIds
    BY <2>1, ActorTypes
  <2>3. ReqTyped(r) /\ SparesOwner(r) /\ r.op # "setup"
    BY <2>2 DEF ReqTyped, SparesOwner
  <2> HIDE DEF r
  <2> QED
    BY <2>1, <2>3, RequestBegins
<1>3. ASSUME NEW s \in Sessions, NEW i \in Invitations, ResendBegin(c, s, i) PROVE AccountsInv'
  <2> DEFINE r == [op |-> "resend", org |-> ActorOrg(s), invitation |-> i,
                  email |-> invitation[i].email, role |-> invitation[i].role]
  <2>1. Begin(c, r) /\ UNCHANGED tables /\ Authenticated(s)
    BY <1>3 DEF ResendBegin, Administers
  <2>2. ActorUser(s) \in UserIds /\ ActorOrg(s) \in OrgIds
    BY <2>1, ActorTypes
  <2>3. ReqTyped(r) /\ SparesOwner(r) /\ r.op # "setup"
    BY <2>2, <1>3 DEF ReqTyped, SparesOwner, ResendBegin, AccountsInv, InvitationsOK
  <2> HIDE DEF r
  <2> QED
    BY <2>1, <2>3, RequestBegins
<1>4. ASSUME NEW i \in Invitations, AcceptBegin(c, i) PROVE AccountsInv'
  <2> DEFINE r == [op |-> "accept", invitation |-> i, org |-> invitation[i].org,
                  email |-> invitation[i].email, role |-> invitation[i].role]
  <2>1. Begin(c, r) /\ UNCHANGED tables
    BY <1>4 DEF AcceptBegin
  <2>3. ReqTyped(r) /\ SparesOwner(r) /\ r.op # "setup"
    BY <1>4 DEF ReqTyped, SparesOwner, AcceptBegin, AccountsInv, InvitationsOK, Pending
  <2> HIDE DEF r
  <2> QED
    BY <2>1, <2>3, RequestBegins
<1>5. CASE AcceptRead(c)
  <2> DEFINE r == [op |-> "join", invitation |-> req[c].invitation, org |-> req[c].org,
                   email |-> req[c].email, role |-> req[c].role, user |-> UserOf(req[c].email)]
  <2>1. req' = [req EXCEPT ![c] = r] /\ UNCHANGED <<tables, begun>> /\ req[c].op = "accept"
    BY <1>5 DEF AcceptRead, Goto
  <2>2. UserOf(req[c].email) \in UserIds \union {Nobody}
    BY DEF UserOf
  <2>3. ReqTyped(req[c])
    BY DEF AccountsInv, ReqsOK
  <2>4. ReqTyped(r) /\ SparesOwner(r) /\ r.op # "setup"
    BY <2>1, <2>2, <2>3 DEF ReqTyped, SparesOwner
  <2>5. begun' \in 0..MaxRequests
    BY <2>1 DEF AccountsInv, SettingsOK
  <2> HIDE DEF r
  <2> QED
    BY <2>1, <2>4, <2>5, RequestMoves
<1> QED
  BY <1>1, <1>2, <1>3, <1>4, <1>5

LEMMA ManagingBegins ==
  ASSUME AccountsInv, NEW c \in Callers,
         \/ \E s \in Sessions, e \in Emails, r \in Assigned : CreateMemberBegin(c, s, e, r)
         \/ \E s \in Sessions, u \in UserIds, r \in Assigned : UpdateBegin(c, s, u, r)
         \/ \E s \in Sessions, u \in UserIds : RemoveBegin(c, s, u)
         \/ \E s \in Sessions : PurgeBegin(c, s)
         \/ Refuse(c)
  PROVE  AccountsInv'
<1> USE DEF ForUser, ForOrg, ForEmail, ForRole, ForInvitation
<1>1. ASSUME NEW s \in Sessions, NEW e \in Emails, NEW a \in Assigned, CreateMemberBegin(c, s, e, a) PROVE AccountsInv'
  <2> DEFINE r == [op |-> "create", org |-> ActorOrg(s), email |-> e, role |-> a]
  <2>1. Begin(c, r) /\ UNCHANGED tables /\ Authenticated(s)
    BY <1>1 DEF CreateMemberBegin, Administers
  <2>2. ActorUser(s) \in UserIds /\ ActorOrg(s) \in OrgIds
    BY <2>1, ActorTypes
  <2>3. ReqTyped(r) /\ SparesOwner(r) /\ r.op # "setup"
    BY <2>2 DEF ReqTyped, SparesOwner
  <2> HIDE DEF r
  <2> QED
    BY <2>1, <2>3, RequestBegins
<1>2. ASSUME NEW s \in Sessions, NEW u \in UserIds, NEW a \in Assigned, UpdateBegin(c, s, u, a) PROVE AccountsInv'
  <2> DEFINE r == [op |-> "update", org |-> ActorOrg(s), user |-> u, role |-> a]
  <2>1. Begin(c, r) /\ UNCHANGED tables /\ Authenticated(s)
    BY <1>2 DEF UpdateBegin, Manages, Administers
  <2>2. ActorUser(s) \in UserIds /\ ActorOrg(s) \in OrgIds
    BY <2>1, ActorTypes
  <2>3. ReqTyped(r) /\ SparesOwner(r) /\ r.op # "setup"
    BY <2>2, <1>2 DEF ReqTyped, SparesOwner, UpdateBegin, Manages
  <2> HIDE DEF r
  <2> QED
    BY <2>1, <2>3, RequestBegins
<1>3. ASSUME NEW s \in Sessions, NEW u \in UserIds, RemoveBegin(c, s, u) PROVE AccountsInv'
  <2> DEFINE r == [op |-> "remove", org |-> ActorOrg(s), user |-> u]
  <2>1. Begin(c, r) /\ UNCHANGED tables /\ Authenticated(s)
    BY <1>3 DEF RemoveBegin, Manages, Administers
  <2>2. ActorUser(s) \in UserIds /\ ActorOrg(s) \in OrgIds
    BY <2>1, ActorTypes
  <2>3. ReqTyped(r) /\ SparesOwner(r) /\ r.op # "setup"
    BY <2>2, <1>3 DEF ReqTyped, SparesOwner, RemoveBegin, Manages
  <2> HIDE DEF r
  <2> QED
    BY <2>1, <2>3, RequestBegins
<1>4. ASSUME NEW s \in Sessions, PurgeBegin(c, s) PROVE AccountsInv'
  <2> DEFINE r == [op |-> "purge", org |-> ActorOrg(s),
                  users |-> {u \in UserIds : IsMember(ActorOrg(s), u)}]
  <2>1. Begin(c, r) /\ UNCHANGED tables /\ Authenticated(s)
    BY <1>4 DEF PurgeBegin
  <2>2. ActorUser(s) \in UserIds /\ ActorOrg(s) \in OrgIds
    BY <2>1, ActorTypes
  <2>3. ReqTyped(r) /\ SparesOwner(r) /\ r.op # "setup"
    BY <2>2 DEF ReqTyped, SparesOwner
  <2> HIDE DEF r
  <2> QED
    BY <2>1, <2>3, RequestBegins
<1>5. CASE Refuse(c)
  <2>1. req' = [req EXCEPT ![c] = Idle] /\ UNCHANGED <<tables, begun>>
    BY <1>5 DEF Refuse, End, Goto
  <2>2. ReqTyped(Idle) /\ SparesOwner(Idle) /\ Idle.op # "setup"
    BY DEF ReqTyped, SparesOwner, Idle
  <2>3. begun' \in 0..MaxRequests
    BY <2>1 DEF AccountsInv, SettingsOK
  <2> QED
    BY <2>1, <2>2, <2>3, RequestMoves
<1> QED
  BY <1>1, <1>2, <1>3, <1>4, <1>5

-----------------------------------------------------------------------------
(* The requests that write: each table apart.                              *)

LEMMA Untouched ==
  ASSUME AccountsInv
  PROVE  /\ UNCHANGED users => UsersOK'
         /\ UNCHANGED role => RolesOK'
         /\ UNCHANGED session => SessionsOK'
         /\ UNCHANGED invitation => InvitationsOK'
         /\ UNCHANGED token => TokensOK'
         /\ UNCHANGED <<settings, begun>> => SettingsOK'
         /\ UNCHANGED <<orgs, users, role>> => OwnersOK'
         /\ UNCHANGED role => OwnersAreNew
<1>1. /\ UNCHANGED users => UsersOK'
      /\ UNCHANGED role => RolesOK'
      /\ UNCHANGED <<settings, begun>> => SettingsOK'
      /\ UNCHANGED role => OwnersAreNew
  BY DEF AccountsInv, UsersOK, RolesOK, SettingsOK, OwnersAreNew
<1>2. UNCHANGED session => SessionsOK'
  BY DEF AccountsInv, SessionsOK, OneSessionPerSignIn, Live
<1>3. UNCHANGED invitation => InvitationsOK'
  BY DEF AccountsInv, InvitationsOK, Pending
<1>4. UNCHANGED token => TokensOK'
  BY DEF AccountsInv, TokensOK, Unconsumed
<1>5. UNCHANGED <<orgs, users, role>> => OwnersOK'
  BY DEF AccountsInv, OwnersOK, OrganizationsKeepTheirOwner, Exists
<1> QED
  BY <1>1, <1>2, <1>3, <1>4, <1>5

LEMMA RequestEnds ==
  ASSUME AccountsInv, NEW c \in Callers, End(c), OwnersAreNew,
         \A u \in UserIds : users'[u].admin => users[u].admin
  PROVE  ReqsOK' /\ AdminsOK'
<1>1. req' = [req EXCEPT ![c] = Idle]
  BY DEF End, Goto
<1>2. ReqTyped(Idle) /\ Idle.op = "idle"
  BY DEF ReqTyped, Idle, ForUser, ForOrg, ForEmail, ForRole, ForInvitation
<1>3. ReqsOK'
  BY <1>1, <1>2, ReqsStay
<1>4. \A d \in Callers : req'[d].op = "setup" => req[d].op = "setup"
  BY <1>1, <1>2 DEF AccountsInv, ReqsOK
<1> QED
  BY <1>3, <1>4, AdminsStay

LEMMA RequestSignsIn ==
  ASSUME AccountsInv, NEW c \in Callers, NEW u \in UserIds, NEW o \in OrgIds, OwnersAreNew,
         req' = [req EXCEPT ![c] = [op |-> "signin", user |-> u, org |-> o]]
  PROVE  ReqsOK' /\ (\A d \in Callers : req'[d].op = "setup" => req[d].op = "setup" /\ d # c)
<1> DEFINE r == [op |-> "signin", user |-> u, org |-> o]
<1>1. ReqTyped(r) /\ r.op = "signin"
  BY DEF ReqTyped, ForUser, ForOrg, ForEmail, ForRole, ForInvitation
<1>2. req' = [req EXCEPT ![c] = r]
  OBVIOUS
<1> HIDE DEF r
<1>3. ReqsOK'
  BY <1>1, <1>2, ReqsStay
<1> QED
  BY <1>1, <1>2, <1>3 DEF AccountsInv, ReqsOK

-----------------------------------------------------------------------------
(* Sessions.                                                               *)

\* Sessions that go take no other one's sign-in.
LEMMA SessionsGo ==
  ASSUME AccountsInv, NEW S, session' = SessionsWithout(S)
  PROVE  SessionsOK'
BY DEF AccountsInv, SessionsOK, OneSessionPerSignIn, Live, SessionsWithout

\* A new session has a sign-in of its own, or takes the place of the one it
\* was switched from.
LEMMA SessionComes ==
  ASSUME AccountsInv, NEW S, NEW s \in Sessions, NEW u \in UserIds, NEW o \in OrgIds, NEW root \in Sessions,
         session' = [SessionsWithout(S) EXCEPT ![s] = [user |-> u, org |-> o, root |-> root]],
         \A t \in Sessions : Live(t) /\ session[t].root = root => t \in S
  PROVE  SessionsOK'
<1> DEFINE new == [user |-> u, org |-> o, root |-> root]
<1>1. new \in [user : UserIds, org : OrgIds, root : Sessions] /\ new.root = root
  OBVIOUS
<1> HIDE DEF new
<1>2. session' \in [Sessions -> {NoSession} \union [user : UserIds, org : OrgIds, root : Sessions]]
  BY <1>1 DEF AccountsInv, SessionsOK, SessionsWithout, new
<1>3. \A t \in Sessions : session'[t] = IF t = s THEN new ELSE IF t \in S THEN NoSession ELSE session[t]
  BY DEF SessionsWithout, new
<1>4. \A t \in Sessions : t # s /\ Live(t)' => session'[t] = session[t] /\ Live(t) /\ t \notin S
  BY <1>3 DEF Live
<1>5. \A t \in Sessions : t # s /\ Live(t)' => session'[t].root # root
  BY <1>4
<1>6. session'[s].root = root
  BY <1>1, <1>3
<1>7. \A t, x \in Sessions : t # s /\ x # s /\ Live(t)' /\ Live(x)' /\ session'[t].root = session'[x].root => t = x
  BY <1>4 DEF AccountsInv, SessionsOK, OneSessionPerSignIn
<1> QED
  BY <1>2, <1>5, <1>6, <1>7 DEF SessionsOK, OneSessionPerSignIn

LEMMA SessionSteps ==
  ASSUME AccountsInv, NEW c \in Callers, SignIn(c) \/ Switch(c) \/ PutPlatformSettings(c)
  PROVE  AccountsInv'
<1>1. End(c) /\ UNCHANGED <<orgs, users, role, invitation, token, begun>>
  BY DEF SignIn, Switch, PutPlatformSettings, End, Goto
<1>2. ReqsOK' /\ AdminsOK'
  BY <1>1, Untouched, RequestEnds
<1>3. ReqTyped(req[c])
  BY DEF AccountsInv, ReqsOK
<1>4. CASE SignIn(c)
  <2>1. PICK s \in FreeSessions(c), root \in FreeRoots : OpenSession(s, req[c].user, req[c].org, root)
    BY <1>4 DEF SignIn
  <2>2. req[c].user \in UserIds /\ req[c].org \in OrgIds
    BY <1>3, <1>4 DEF SignIn, ReqTyped, ForUser, ForOrg
  <2>3. s \in Sessions /\ root \in Sessions /\ \A t \in Sessions : session[t].root # root
    BY <2>1 DEF FreeSessions, FreeRoots
  <2>4. SessionsWithout({}) = session
    BY DEF SessionsWithout, AccountsInv, SessionsOK
  <2>5. session' = [SessionsWithout({}) EXCEPT ![s] = [user |-> req[c].user, org |-> req[c].org, root |-> root]]
    BY <2>1, <2>4 DEF OpenSession
  <2>6. SessionsOK'
    BY <2>2, <2>3, <2>5, SessionComes
  <2>7. UNCHANGED settings
    BY <1>4 DEF SignIn
  <2> QED
    BY <1>1, <1>2, <2>6, <2>7, Untouched DEF AccountsInv
<1>5. CASE Switch(c)
  <2> DEFINE old == req[c].session
  <2>1. PICK s \in FreeSessions(c) :
          session' = [SessionsWithout({old}) EXCEPT
                        ![s] = [user |-> req[c].user, org |-> req[c].org, root |-> session[old].root]]
    BY <1>5 DEF Switch
  <2>2. req[c].user \in UserIds /\ req[c].org \in OrgIds /\ old \in Sessions /\ Live(old)
    BY <1>3, <1>5 DEF Switch, ReqTyped, ForUser, ForOrg
  <2>3. s \in Sessions /\ session[old].root \in Sessions
    BY <2>1, <2>2 DEF FreeSessions, Live, AccountsInv, SessionsOK
  <2>4. \A t \in Sessions : Live(t) /\ session[t].root = session[old].root => t \in {old}
    BY <2>2 DEF AccountsInv, SessionsOK, OneSessionPerSignIn
  <2>5. SessionsOK'
    BY <2>1, <2>2, <2>3, <2>4, SessionComes
  <2>6. UNCHANGED settings
    BY <1>5 DEF Switch
  <2> QED
    BY <1>1, <1>2, <2>5, <2>6, Untouched DEF AccountsInv
<1>6. CASE PutPlatformSettings(c)
  <2>1. SettingsOK'
    BY <1>1, <1>3, <1>6 DEF PutPlatformSettings, ReqTyped, SettingsOK, AccountsInv
  <2>2. UNCHANGED session
    BY <1>6 DEF PutPlatformSettings
  <2> QED
    BY <1>1, <1>2, <2>1, <2>2, Untouched DEF AccountsInv
<1> QED
  BY <1>4, <1>5, <1>6

LEMMA SessionEndsKeeps ==
  ASSUME AccountsInv, NEW s \in Sessions, SessionEnds(s)
  PROVE  AccountsInv'
<1>1. UNCHANGED <<orgs, users, role, invitation, token, settings, req, begun>> /\ SessionsOK'
  BY SessionsGo DEF SessionEnds
<1>2. ReqsOK' /\ AdminsOK'
  BY <1>1 DEF AccountsInv, ReqsOK, AdminsOK, ReqTyped, SparesOwner
<1> QED
  BY <1>1, <1>2, Untouched DEF AccountsInv

-----------------------------------------------------------------------------
(* Passwords.                                                              *)

\* Tokens that are consumed without being used stay unused.
LEMMA TokensConsumed ==
  ASSUME AccountsInv, NEW u, token' = Consumed(TokensOf(u))
  PROVE  TokensOK'
<1>1. ASSUME NEW t \in Tokens PROVE token'[t] = token[t] \/ token'[t] = Spent(0)
  BY <1>1 DEF AccountsInv, TokensOK, TokensOf, Consumed
<1>2. Spent(0) = [state |-> "consumed", user |-> Nobody, spent |-> 0]
  BY DEF Spent
<1>3. DOMAIN token' = Tokens
  BY DEF Consumed
<1>4. token' = [t \in Tokens |-> token'[t]]
  BY DEF Consumed
<1> QED
  BY <1>1, <1>2, <1>4 DEF AccountsInv, TokensOK, Unconsumed

LEMMA ChangePasswordKeeps ==
  ASSUME AccountsInv, NEW c \in Callers, ChangePassword(c)
  PROVE  AccountsInv'
<1>1. UNCHANGED <<orgs, users, role, invitation, settings, begun>>
  BY DEF ChangePassword, Goto
<1>2. TokensOK' /\ SessionsOK'
  BY TokensConsumed, SessionsGo DEF ChangePassword
<1>3. req[c].user \in UserIds /\ req[c].org \in OrgIds
  BY DEF AccountsInv, ReqsOK, ReqTyped, ChangePassword, ForUser, ForOrg
<1>4. /\ ReqsOK'
      /\ \A d \in Callers : req'[d].op = "setup" => req[d].op = "setup" /\ d # c
  BY <1>1, <1>3, RequestSignsIn, Untouched DEF ChangePassword, Goto
<1>5. AdminsOK'
  BY <1>1, <1>4, AdminsStay
<1> QED
  BY <1>1, <1>2, <1>4, <1>5, Untouched DEF AccountsInv

LEMMA ForgotBeginKeeps ==
  ASSUME AccountsInv, NEW c \in Callers, NEW u \in UserIds, ForgotBegin(c, u)
  PROVE  AccountsInv'
<1> DEFINE r == [op |-> "forgot", user |-> u]
<1>1. /\ UNCHANGED <<orgs, users, role, session, invitation, settings>>
      /\ req' = [req EXCEPT ![c] = r] /\ begun' = begun + 1 /\ begun < MaxRequests
  BY DEF ForgotBegin, Begin
<1>2. ReqTyped(r) /\ r.op = "forgot"
  BY DEF ReqTyped, ForUser, ForOrg, ForEmail, ForRole, ForInvitation
<1> HIDE DEF r
<1>3. SettingsOK'
  BY <1>1, AccountsAssumption DEF AccountsInv, SettingsOK
<1>4. ReqsOK'
  BY <1>1, <1>2, ReqsStay, Untouched
<1>5. AdminsOK'
  BY <1>1, <1>2, AdminsStay DEF AccountsInv, ReqsOK
<1>6. TokensOK'
  BY TokensConsumed DEF ForgotBegin
<1> QED
  BY <1>1, <1>3, <1>4, <1>5, <1>6, Untouched DEF AccountsInv

LEMMA TokenSteps ==
  ASSUME AccountsInv, NEW c \in Callers, Forgot(c) \/ Reset(c)
  PROVE  AccountsInv'
<1>1. End(c) /\ UNCHANGED <<orgs, users, role, invitation, settings, begun>>
  BY DEF Forgot, Reset, End, Goto
<1>2. ReqsOK' /\ AdminsOK'
  BY <1>1, Untouched, RequestEnds
<1>3. ReqTyped(req[c])
  BY DEF AccountsInv, ReqsOK
<1>4. CASE Forgot(c)
  <2>1. req[c].user \in UserIds
    BY <1>3, <1>4 DEF Forgot, ReqTyped, ForUser
  <2>2. PICK t \in FreeTokens, delivered \in BOOLEAN :
          token' = [token EXCEPT ![t] = IF delivered THEN [state |-> "issued", user |-> req[c].user, spent |-> 0]
                                        ELSE Spent(0)]
    BY <1>4 DEF Forgot
  <2>3. t \in Tokens
    BY DEF FreeTokens
  <2>4. TokensOK'
    BY <2>1, <2>2, <2>3 DEF AccountsInv, TokensOK, Unconsumed, Spent
  <2>5. UNCHANGED session
    BY <1>4 DEF Forgot
  <2> QED
    BY <1>1, <1>2, <2>4, <2>5, Untouched DEF AccountsInv
<1>5. CASE Reset(c)
  <2>1. req[c].token \in Tokens /\ Unconsumed(req[c].token)
    BY <1>3, <1>5 DEF Reset, ReqTyped
  <2>2. token' = [token EXCEPT ![req[c].token] = Spent(token[req[c].token].spent + 1)]
    BY <1>5 DEF Reset
  <2>3. Spent(token[req[c].token].spent + 1) = [state |-> "consumed", user |-> Nobody, spent |-> 1]
    BY <2>1 DEF Spent, AccountsInv, TokensOK
  <2>4. TokensOK'
    BY <2>1, <2>2, <2>3 DEF AccountsInv, TokensOK, Unconsumed
  <2>5. SessionsOK'
    BY <1>5, SessionsGo DEF Reset
  <2> QED
    BY <1>1, <1>2, <2>4, <2>5, Untouched DEF AccountsInv
<1> QED
  BY <1>4, <1>5

LEMMA TokenExpiresKeeps ==
  ASSUME AccountsInv, NEW t \in Tokens, TokenExpires(t)
  PROVE  AccountsInv'
<1>1. UNCHANGED <<orgs, users, role, session, invitation, settings, req, begun>>
  BY DEF TokenExpires
<1>2. TokensOK'
  BY DEF TokenExpires, AccountsInv, TokensOK, Unconsumed
<1>3. ReqsOK' /\ AdminsOK'
  BY <1>1 DEF AccountsInv, ReqsOK, AdminsOK, ReqTyped, SparesOwner
<1> QED
  BY <1>1, <1>2, <1>3, Untouched DEF AccountsInv

-----------------------------------------------------------------------------
(* Invitations.                                                            *)

\* An invitation that is written is open, or settled and used as it says.
LEMMA InvitationWritten ==
  ASSUME AccountsInv, NEW i \in Invitations, NEW row, invitation' = [invitation EXCEPT ![i] = row],
         \/ \E o \in OrgIds, e \in Emails, a \in Assigned :
               row = [state |-> "pending", org |-> o, email |-> e, role |-> a, joined |-> 0]
         \/ row = [NoInvitation EXCEPT !.state = "revoked", !.joined = 0]
         \/ row = [NoInvitation EXCEPT !.state = "accepted", !.joined = 1]
  PROVE  InvitationsOK'
<1>1. /\ row \in [state : {"none", "pending", "expired", "accepted", "revoked"}, org : OrgIds \union {0},
                  email : Emails \union {NoEmail}, role : Assigned \union {"none"}, joined : {0, 1}]
      /\ row.state # "accepted" => row.joined = 0
      /\ row.state \in {"pending", "expired"} => row.org \in OrgIds /\ row.email \in Emails /\ row.role \in Assigned
  <2>1. CASE \E o \in OrgIds, e \in Emails, a \in Assigned :
               row = [state |-> "pending", org |-> o, email |-> e, role |-> a, joined |-> 0]
    BY <2>1
  <2>2. CASE row = [NoInvitation EXCEPT !.state = "revoked", !.joined = 0]
    <3>1. row = [state |-> "revoked", org |-> 0, email |-> NoEmail, role |-> "none", joined |-> 0]
      BY <2>2 DEF NoInvitation
    <3> QED
      BY <3>1
  <2>3. CASE row = [NoInvitation EXCEPT !.state = "accepted", !.joined = 1]
    <3>1. row = [state |-> "accepted", org |-> 0, email |-> NoEmail, role |-> "none", joined |-> 1]
      BY <2>3 DEF NoInvitation
    <3> QED
      BY <3>1
  <2> QED
    BY <2>1, <2>2, <2>3
<1> QED
  BY <1>1 DEF AccountsInv, InvitationsOK, Pending

LEMMA InvitationSteps ==
  ASSUME AccountsInv, NEW c \in Callers, CreateInvitation(c) \/ RevokeInvitation(c) \/ ResendInvitation(c)
  PROVE  AccountsInv'
<1>1. End(c) /\ UNCHANGED <<orgs, users, role, session, token, settings, begun>>
  BY DEF CreateInvitation, RevokeInvitation, ResendInvitation, End, Goto
<1>2. ReqsOK' /\ AdminsOK'
  BY <1>1, Untouched, RequestEnds
<1>3. ReqTyped(req[c])
  BY DEF AccountsInv, ReqsOK
<1>4. ASSUME CreateInvitation(c) PROVE InvitationsOK'
  <2>1. PICK i \in FreeInvitations : invitation' = Invite(i, req[c].org, req[c].email, req[c].role)
    BY <1>4 DEF CreateInvitation
  <2>2. req[c].org \in OrgIds /\ req[c].email \in Emails /\ req[c].role \in Assigned
    BY <1>3, <1>4 DEF CreateInvitation, ReqTyped, ForOrg, ForEmail, ForRole
  <2>3. i \in Invitations
    BY DEF FreeInvitations
  <2> QED
    BY <2>1, <2>2, <2>3, InvitationWritten DEF Invite
<1>5. ASSUME RevokeInvitation(c) PROVE InvitationsOK'
  <2>1. req[c].invitation \in Invitations
    BY <1>3, <1>5 DEF RevokeInvitation, ReqTyped, ForInvitation
  <2> QED
    BY <1>5, <2>1, InvitationWritten DEF RevokeInvitation, Settled
<1>6. ASSUME ResendInvitation(c) PROVE InvitationsOK'
  <2> DEFINE i == req[c].invitation
             gone == IF Pending(i) THEN Settled(i, "revoked", 0) ELSE invitation
             row == [state |-> "pending", org |-> req[c].org, email |-> req[c].email,
                     role |-> req[c].role, joined |-> 0]
  <2>1. PICK j \in FreeInvitations : invitation' = [gone EXCEPT ![j] = row]
    BY <1>6 DEF ResendInvitation
  <2>2. /\ req[c].org \in OrgIds /\ req[c].email \in Emails /\ req[c].role \in Assigned
        /\ i \in Invitations /\ j \in Invitations
    BY <1>3, <1>6 DEF ResendInvitation, ReqTyped, ForOrg, ForEmail, ForRole, ForInvitation, FreeInvitations
  <2> DEFINE Rows == [state : {"none", "pending", "expired", "accepted", "revoked"}, org : OrgIds \union {0},
                      email : Emails \union {NoEmail}, role : Assigned \union {"none"}, joined : {0, 1}]
             Good(x) == /\ x \in Rows
                        /\ x.state # "accepted" => x.joined = 0
                        /\ x.state \in {"pending", "expired"} =>
                             x.org \in OrgIds /\ x.email \in Emails /\ x.role \in Assigned
  <2>3. invitation \in [Invitations -> Rows] /\ \A x \in Invitations : Good(invitation[x])
    BY DEF AccountsInv, InvitationsOK, Pending
  <2>4. Good(row) /\ Good([NoInvitation EXCEPT !.state = "revoked", !.joined = 0])
    BY <2>2 DEF NoInvitation
  <2> HIDE DEF Good, Rows, row
  <2>5. gone \in [Invitations -> Rows] /\ \A x \in Invitations : Good(gone[x])
    BY <2>2, <2>3, <2>4 DEF Settled, Good
  <2> HIDE DEF gone
  <2>6. invitation' \in [Invitations -> Rows] /\ \A x \in Invitations : Good(invitation'[x])
    BY <2>1, <2>2, <2>4, <2>5 DEF Good
  <2> QED
    BY <2>6 DEF InvitationsOK, Pending, Good, Rows
<1> QED
  BY <1>1, <1>2, <1>4, <1>5, <1>6, Untouched DEF AccountsInv

LEMMA InvitationExpiresKeeps ==
  ASSUME AccountsInv, NEW i \in Invitations, InvitationExpires(i)
  PROVE  AccountsInv'
<1>1. UNCHANGED <<orgs, users, role, session, token, settings, req, begun>>
  BY DEF InvitationExpires
<1>2. InvitationsOK'
  BY DEF InvitationExpires, AccountsInv, InvitationsOK, Pending
<1>3. ReqsOK' /\ AdminsOK'
  BY <1>1 DEF AccountsInv, ReqsOK, AdminsOK, ReqTyped, SparesOwner
<1> QED
  BY <1>1, <1>2, <1>3, Untouched DEF AccountsInv

-----------------------------------------------------------------------------
(* Users, members and organizations.                                       *)

\* An organization keeps the owner it had, as long as nobody is made or
\* unmade an owner and no owner is deleted.
LEMMA OwnersStay ==
  ASSUME AccountsInv, orgs' \subseteq orgs,
         \A o \in orgs', u \in UserIds : role'[o][u] = "owner" <=> role[o][u] = "owner",
         \A o \in orgs', u \in UserIds : role[o][u] = "owner" => users'[u] = users[u]
  PROVE  OwnersOK'
<1>1. ASSUME NEW o \in orgs'
      PROVE  \E u \in UserIds : Exists(u)' /\ {v \in UserIds : role'[o][v] = "owner"} = {u}
  <2>1. PICK u \in UserIds : Exists(u) /\ {v \in UserIds : role[o][v] = "owner"} = {u}
    BY DEF AccountsInv, OwnersOK, OrganizationsKeepTheirOwner
  <2>2. role[o][u] = "owner" /\ {v \in UserIds : role'[o][v] = "owner"} = {u}
    BY <2>1
  <2> QED
    BY <2>1, <2>2 DEF Exists
<1> QED
  BY <1>1 DEF OwnersOK, OrganizationsKeepTheirOwner, AccountsInv

\* A new account has an address nobody had.
LEMMA UserComes ==
  ASSUME AccountsInv, NEW e \in Emails, NEW admin \in BOOLEAN, NEW verified \in BOOLEAN,
         UserOf(e) = Nobody, NextUser <= MaxUsers,
         users' = [users EXCEPT ![NextUser] = [email |-> e, admin |-> admin, verified |-> verified]]
  PROVE  /\ UsersOK' /\ NextUser \in UserIds /\ users'[NextUser] # NoUser
         /\ \A u \in UserIds : users[u] # NoUser => users'[u] = users[u]
         /\ \A u \in UserIds : u # NextUser => users'[u] = users[u]
         /\ users'[NextUser].admin = admin
<1> DEFINE new == [email |-> e, admin |-> admin, verified |-> verified]
<1>1. NextUser \in UserIds /\ users[NextUser] = NoUser
  BY NewUser
<1>2. \A u \in UserIds : users[u].email # e
  BY DEF UserOf, Nobody, UserIds
<1>3. /\ new \in [email : Emails \union {NoEmail}, admin : BOOLEAN, verified : BOOLEAN]
      /\ new.email = e /\ new.admin = admin /\ new # NoUser
  BY AccountsAssumption DEF NoUser
<1> HIDE DEF new
<1>4. users' = [users EXCEPT ![NextUser] = new]
  BY DEF new
<1>5. users' \in [UserIds -> [email : Emails \union {NoEmail}, admin : BOOLEAN, verified : BOOLEAN]]
  BY <1>1, <1>3, <1>4 DEF AccountsInv, UsersOK
<1>6. \A u \in UserIds : users'[u] = IF u = NextUser THEN new ELSE users[u]
  BY <1>1, <1>4 DEF AccountsInv, UsersOK
<1>7. \A u \in UserIds : users'[u] # NoUser => users'[u].email \in Emails
  BY <1>3, <1>6 DEF AccountsInv, UsersOK
<1>8. \A u, v \in UserIds : users'[u].email = users'[v].email /\ users'[u] # NoUser => u = v
  BY <1>2, <1>3, <1>6 DEF AccountsInv, UsersOK
<1>9. users'[NextUser] # NoUser
  BY <1>1, <1>3, <1>6
<1> QED
  BY <1>1, <1>3, <1>5, <1>6, <1>7, <1>8, <1>9 DEF UsersOK

\* A new organization comes with its owner.
LEMMA FoundKeeps ==
  ASSUME AccountsInv, NEW e \in Emails, NEW admin \in BOOLEAN, NEW verified \in BOOLEAN,
         UserOf(e) = Nobody, Found(e, admin, verified)
  PROVE  /\ UsersOK' /\ RolesOK' /\ OwnersOK' /\ OwnersAreNew
         /\ NextUser \in UserIds /\ NextOrg \in OrgIds
         /\ \A u \in UserIds : users'[u].admin => users[u].admin \/ (u = NextUser /\ admin)
<1>1. NextUser <= MaxUsers /\ NextOrg <= MaxOrgs
  BY DEF Found
<1>2. /\ NextOrg \in OrgIds /\ NextOrg \notin orgs
      /\ \A c \in Callers : req[c].op \in ForOrg => req[c].org # NextOrg
      /\ \A u \in UserIds : role[NextOrg][u] = "none"
  BY <1>1, NewOrg
<1>3. /\ UsersOK' /\ NextUser \in UserIds /\ users'[NextUser] # NoUser
      /\ \A u \in UserIds : users[u] # NoUser => users'[u] = users[u]
      /\ \A u \in UserIds : u # NextUser => users'[u] = users[u]
      /\ users'[NextUser].admin = admin
  BY <1>1, UserComes DEF Found
<1>4. role' = [role EXCEPT ![NextOrg] = [role[NextOrg] EXCEPT ![NextUser] = "owner"]]
  BY DEF Found
<1>5. RolesOK'
  BY <1>2, <1>3, <1>4 DEF AccountsInv, RolesOK, Roles
<1>6. \A o \in OrgIds, u \in UserIds :
        role'[o][u] = IF o = NextOrg /\ u = NextUser THEN "owner" ELSE role[o][u]
  BY <1>2, <1>3, <1>4 DEF AccountsInv, RolesOK
<1>7. OwnersAreNew
  BY <1>2, <1>6 DEF OwnersAreNew
<1>8. orgs' = orgs \union {NextOrg} /\ orgs' \subseteq OrgIds
  BY <1>2 DEF Found, AccountsInv, OwnersOK
<1>9. ASSUME NEW o \in orgs'
      PROVE  \E u \in UserIds : Exists(u)' /\ {v \in UserIds : role'[o][v] = "owner"} = {u}
  <2>1. CASE o = NextOrg
    <3>1. {v \in UserIds : role'[o][v] = "owner"} = {NextUser}
      BY <1>2, <1>3, <1>6, <2>1
    <3>2. NextUser # Nobody /\ NextUser \in UserIds /\ users'[NextUser] # NoUser
      BY <1>3 DEF UserIds, Nobody
    <3> QED
      BY <3>1, <3>2 DEF Exists
  <2>2. CASE o # NextOrg
    <3>1. o \in orgs /\ o \in OrgIds
      BY <1>8, <2>2
    <3>2. PICK u \in UserIds : Exists(u) /\ {v \in UserIds : role[o][v] = "owner"} = {u}
      BY <3>1 DEF AccountsInv, OwnersOK, OrganizationsKeepTheirOwner
    <3>3. {v \in UserIds : role'[o][v] = "owner"} = {v \in UserIds : role[o][v] = "owner"}
      BY <1>6, <2>2, <3>1
    <3>4. Exists(u)'
      BY <1>3, <3>2 DEF Exists
    <3> QED
      BY <3>2, <3>3, <3>4
  <2> QED
    BY <2>1, <2>2
<1>10. OwnersOK'
  BY <1>8, <1>9 DEF OwnersOK, OrganizationsKeepTheirOwner
<1>11. \A u \in UserIds : users'[u].admin => users[u].admin \/ (u = NextUser /\ admin)
  BY <1>3
<1> QED
  BY <1>2, <1>3, <1>5, <1>7, <1>10, <1>11

\* The setup makes the first administrator, a registration makes none.
LEMMA SetupKeeps ==
  ASSUME AccountsInv, NEW c \in Callers, NEW e \in Emails, Setup(c, e)
  PROVE  AccountsInv'
<1>1. /\ UserOf(e) = Nobody /\ Found(e, TRUE, TRUE) /\ req[c].op = "setup"
      /\ req' = [req EXCEPT ![c] = [op |-> "signin", user |-> NextUser, org |-> NextOrg]]
      /\ UNCHANGED <<session, invitation, token, settings, begun>>
  BY DEF Setup, Goto
<1>2. /\ UsersOK' /\ RolesOK' /\ OwnersOK' /\ OwnersAreNew
      /\ NextUser \in UserIds /\ NextOrg \in OrgIds
      /\ \A u \in UserIds : users'[u].admin => users[u].admin \/ u = NextUser
  BY <1>1, FoundKeeps
<1>3. ReqsOK' /\ (\A d \in Callers : req'[d].op = "setup" => req[d].op = "setup" /\ d # c)
  BY <1>1, <1>2, RequestSignsIn
<1>4. AdminsOK'
  BY <1>1, <1>2, <1>3 DEF AccountsInv, AdminsOK
<1> QED
  BY <1>1, <1>2, <1>3, <1>4, Untouched DEF AccountsInv

LEMMA RegisterKeeps ==
  ASSUME AccountsInv, NEW c \in Callers, Register(c)
  PROVE  AccountsInv'
<1>1. req[c].email \in Emails /\ req[c].verification \in BOOLEAN
  BY DEF AccountsInv, ReqsOK, ReqTyped, Register, ForEmail
<1>2. /\ UserOf(req[c].email) = Nobody /\ Found(req[c].email, FALSE, ~req[c].verification)
      /\ UNCHANGED <<session, invitation, token, settings, begun>>
  BY DEF Register, End, Goto
<1>3. /\ UsersOK' /\ RolesOK' /\ OwnersOK' /\ OwnersAreNew
      /\ NextUser \in UserIds /\ NextOrg \in OrgIds
      /\ \A u \in UserIds : users'[u].admin => users[u].admin
  <2>1. (~req[c].verification) \in BOOLEAN
    OBVIOUS
  <2> QED
    BY <1>1, <1>2, <2>1, FoundKeeps
<1>4. ReqsOK' /\ AdminsOK'
  <2>1. CASE End(c)
    BY <1>3, <2>1, RequestEnds
  <2>2. CASE req' = [req EXCEPT ![c] = [op |-> "signin", user |-> NextUser, org |-> NextOrg]]
    BY <1>3, <2>2, RequestSignsIn, AdminsStay
  <2> QED
    BY <2>1, <2>2 DEF Register, Goto
<1> QED
  BY <1>2, <1>3, <1>4, Untouched DEF AccountsInv

\* Whoever accepts is a new account or was not a member, and joins with a
\* role that can be assigned.
LEMMA AcceptKeeps ==
  ASSUME AccountsInv, NEW c \in Callers, Accept(c)
  PROVE  AccountsInv'
<1> DEFINE i == req[c].invitation
           o == req[c].org
<1>1. PICK u \in UserIds : Joins(c, u)
  BY DEF Accept
<1>2. /\ i \in Invitations /\ o \in OrgIds /\ req[c].email \in Emails /\ req[c].role \in Assigned
      /\ invitation[i].state # "accepted"
  BY DEF AccountsInv, ReqsOK, ReqTyped, Accept, ForOrg, ForEmail, ForRole, ForInvitation
<1>3. /\ UNCHANGED <<orgs, session, token, settings, begun>> /\ role[o][u] = "none"
      /\ role' = [role EXCEPT ![o] = [role[o] EXCEPT ![u] = req[c].role]]
      /\ invitation' = Settled(i, "accepted", invitation[i].joined + 1)
      /\ req' = [req EXCEPT ![c] = [op |-> "signin", user |-> u, org |-> o]]
  BY <1>1 DEF Joins, Goto, IsMember
<1>4. /\ UsersOK' /\ \A v \in UserIds : users[v] # NoUser => users'[v] = users[v]
      /\ \A v \in UserIds : users'[v].admin => users[v].admin
  <2>1. CASE req[c].user = Nobody
    <3>1. /\ UserOf(req[c].email) = Nobody /\ NextUser <= MaxUsers
          /\ users' = [users EXCEPT ![NextUser] = [email |-> req[c].email, admin |-> FALSE, verified |-> FALSE]]
      BY <1>1, <2>1 DEF Joins
    <3> QED
      BY <1>2, <3>1, UserComes
  <2>2. CASE req[c].user # Nobody
    BY <1>1, <2>2, Untouched DEF Joins
  <2> QED
    BY <2>1, <2>2
<1>5. Assigned \subseteq Roles /\ "owner" \notin Assigned
  BY AccountsAssumption DEF Roles
<1>6. RolesOK'
  BY <1>2, <1>3, <1>5 DEF AccountsInv, RolesOK
<1>7. \A p \in OrgIds, v \in UserIds : role'[p][v] = IF p = o /\ v = u THEN req[c].role ELSE role[p][v]
  BY <1>2, <1>3 DEF AccountsInv, RolesOK
<1>8. \A p \in OrgIds, v \in UserIds : role'[p][v] = "owner" <=> role[p][v] = "owner"
  BY <1>2, <1>3, <1>5, <1>7
<1>9. OwnersAreNew
  BY <1>8 DEF OwnersAreNew
<1>10. OwnersOK'
  <2>1. \A p \in orgs, v \in UserIds : role[p][v] = "owner" => users[v] # NoUser
    BY DEF AccountsInv, OwnersOK, OrganizationsKeepTheirOwner, Exists
  <2>2. orgs' = orgs /\ orgs \subseteq OrgIds
    BY <1>3 DEF AccountsInv, OwnersOK
  <2> QED
    BY <1>4, <1>8, <2>1, <2>2, OwnersStay
<1>11. InvitationsOK'
  <2>1. invitation[i].joined = 0
    BY <1>2 DEF AccountsInv, InvitationsOK
  <2>2. invitation' = [invitation EXCEPT ![i] = [NoInvitation EXCEPT !.state = "accepted", !.joined = 1]]
    BY <1>3, <2>1 DEF Settled
  <2> QED
    BY <1>2, <2>2, InvitationWritten
<1>12. ReqsOK' /\ AdminsOK'
  BY <1>2, <1>3, <1>4, <1>9, RequestSignsIn, AdminsStay
<1> QED
  BY <1>3, <1>4, <1>6, <1>10, <1>11, <1>12, Untouched DEF AccountsInv

LEMMA CreateMemberKeeps ==
  ASSUME AccountsInv, NEW c \in Callers, CreateMember(c)
  PROVE  AccountsInv'
<1> DEFINE o == req[c].org
<1>1. o \in OrgIds /\ req[c].email \in Emails /\ req[c].role \in Assigned
  BY DEF AccountsInv, ReqsOK, ReqTyped, CreateMember, ForOrg, ForEmail, ForRole
<1>2. /\ UserOf(req[c].email) = Nobody /\ NextUser <= MaxUsers /\ End(c)
      /\ users' = [users EXCEPT ![NextUser] = [email |-> req[c].email, admin |-> FALSE, verified |-> FALSE]]
      /\ role' = [role EXCEPT ![o] = [role[o] EXCEPT ![NextUser] = req[c].role]]
      /\ UNCHANGED <<orgs, session, invitation, token, settings, begun>>
  BY DEF CreateMember, End, Goto
<1>3. /\ UsersOK' /\ NextUser \in UserIds
      /\ \A u \in UserIds : users[u] # NoUser => users'[u] = users[u]
      /\ \A u \in UserIds : u # NextUser => users'[u] = users[u]
      /\ users'[NextUser].admin = FALSE
  BY <1>1, <1>2, UserComes
<1>4. role[o][NextUser] = "none"
  BY <1>1, <1>2, NewUser
<1>5. Assigned \subseteq Roles /\ "owner" \notin Assigned
  BY AccountsAssumption DEF Roles
<1>6. RolesOK'
  BY <1>1, <1>2, <1>3, <1>5 DEF AccountsInv, RolesOK
<1>7. \A p \in OrgIds, v \in UserIds : role'[p][v] = IF p = o /\ v = NextUser THEN req[c].role ELSE role[p][v]
  BY <1>1, <1>2, <1>3 DEF AccountsInv, RolesOK
<1>8. \A p \in OrgIds, v \in UserIds : role'[p][v] = "owner" <=> role[p][v] = "owner"
  BY <1>1, <1>4, <1>5, <1>7
<1>9. OwnersAreNew
  BY <1>8 DEF OwnersAreNew
<1>10. OwnersOK'
  <2>1. \A p \in orgs, v \in UserIds : role[p][v] = "owner" => users[v] # NoUser
    BY DEF AccountsInv, OwnersOK, OrganizationsKeepTheirOwner, Exists
  <2>2. orgs' = orgs /\ orgs \subseteq OrgIds
    BY <1>2 DEF AccountsInv, OwnersOK
  <2> QED
    BY <1>3, <1>8, <2>1, <2>2, OwnersStay
<1>11. \A u \in UserIds : users'[u].admin => users[u].admin
  BY <1>3
<1>12. ReqsOK' /\ AdminsOK'
  BY <1>2, <1>9, <1>11, RequestEnds
<1> QED
  BY <1>2, <1>3, <1>6, <1>10, <1>12, Untouched DEF AccountsInv

\* A member that is updated or removed was not the owner when the request
\* looked, and is not now.
LEMMA MemberChanges ==
  ASSUME AccountsInv, NEW c \in Callers, UpdateMember(c) \/ RemoveMember(c)
  PROVE  AccountsInv'
<1> DEFINE o == req[c].org
           u == req[c].user
<1>1. o \in OrgIds /\ u \in UserIds /\ role[o][u] # "owner" /\ (req[c].op = "update" => req[c].role \in Assigned)
  <2>1. ReqTyped(req[c]) /\ SparesOwner(req[c])
    BY DEF AccountsInv, ReqsOK
  <2> QED
    BY <2>1 DEF ReqTyped, SparesOwner, UpdateMember, RemoveMember, ForOrg, ForUser, ForRole
<1>2. Assigned \subseteq Roles /\ "owner" \notin Assigned
  BY AccountsAssumption DEF Roles
<1>3. PICK a \in (Roles \ {"owner"}) \union {"none"} : role' = [role EXCEPT ![o] = [role[o] EXCEPT ![u] = a]]
  <2>1. CASE UpdateMember(c)
    BY <1>1, <1>2, <2>1 DEF UpdateMember
  <2>2. CASE RemoveMember(c)
    BY <1>1, <1>2, <2>2 DEF RemoveMember
  <2> QED
    BY <2>1, <2>2
<1>4. RolesOK'
  BY <1>1, <1>3 DEF AccountsInv, RolesOK
<1>5. \A p \in OrgIds, v \in UserIds : role'[p][v] = IF p = o /\ v = u THEN a ELSE role[p][v]
  BY <1>1, <1>3 DEF AccountsInv, RolesOK
<1>6. \A p \in OrgIds, v \in UserIds : role'[p][v] = "owner" <=> role[p][v] = "owner"
  BY <1>1, <1>3, <1>5
<1>7. End(c) /\ UNCHANGED <<orgs, users, invitation, token, settings, begun>>
  BY DEF UpdateMember, RemoveMember, End, Goto
<1>8. OwnersOK'
  BY <1>6, <1>7, OwnersStay DEF AccountsInv, OwnersOK
<1>9. SessionsOK'
  BY Untouched, SessionsGo DEF UpdateMember, RemoveMember
<1>10. ReqsOK' /\ AdminsOK'
  BY <1>6, <1>7, RequestEnds DEF OwnersAreNew
<1> QED
  BY <1>4, <1>7, <1>8, <1>9, <1>10, Untouched DEF AccountsInv

\* The deletion of an organization deletes no owner of another one.
LEMMA PurgeKeeps ==
  ASSUME AccountsInv, NEW c \in Callers, Purge(c)
  PROVE  AccountsInv'
<1> DEFINE o == req[c].org
           gone == Abandoned(o, req[c].users)
<1>1. o \in OrgIds /\ req[c].users \subseteq UserIds
  BY DEF AccountsInv, ReqsOK, ReqTyped, Purge, ForOrg
<1>2. /\ o \in orgs /\ orgs' = orgs \ {o} /\ End(c) /\ UNCHANGED <<settings, begun>>
      /\ role' = [role EXCEPT ![o] = [u \in UserIds |-> "none"]]
      /\ session' = SessionsWithout({s \in Sessions : session[s].org = o})
      /\ invitation' = [i \in Invitations |-> IF invitation[i].org = o THEN NoInvitation ELSE invitation[i]]
      /\ token' = [t \in Tokens |-> IF token[t].user \in req[c].users THEN NoToken ELSE token[t]]
      /\ users' = [u \in UserIds |-> IF u \in gone THEN NoUser ELSE users[u]]
  BY DEF Purge, End, Goto
<1>3. UsersOK'
  BY <1>2, AccountsAssumption DEF AccountsInv, UsersOK, NoUser
<1>4. RolesOK'
  BY <1>1, <1>2 DEF AccountsInv, RolesOK
<1>5. SessionsOK'
  BY <1>2, SessionsGo
<1>6. InvitationsOK'
  BY <1>2 DEF AccountsInv, InvitationsOK, Pending, NoInvitation
<1>7. TokensOK'
  BY <1>2 DEF AccountsInv, TokensOK, Unconsumed, NoToken, Nobody
<1>8. \A p \in OrgIds, u \in UserIds : role'[p][u] = IF p = o THEN "none" ELSE role[p][u]
  BY <1>1, <1>2 DEF AccountsInv, RolesOK
<1>9. orgs \subseteq OrgIds
  BY DEF AccountsInv, OwnersOK
<1>10. \A p \in orgs', u \in UserIds : role[p][u] = "owner" => u \notin gone
  BY <1>2, <1>9 DEF Abandoned, IsMember
<1>11. OwnersOK'
  BY <1>2, <1>8, <1>9, <1>10, OwnersStay
<1>12. OwnersAreNew
  BY <1>8 DEF OwnersAreNew
<1>13. \A u \in UserIds : users'[u].admin => users[u].admin
  BY <1>2 DEF NoUser
<1>14. ReqsOK' /\ AdminsOK'
  BY <1>2, <1>12, <1>13, RequestEnds
<1> QED
  BY <1>2, <1>3, <1>4, <1>5, <1>6, <1>7, <1>11, <1>14, Untouched DEF AccountsInv

-----------------------------------------------------------------------------
(* The invariant, and what follows from it.                                *)

LEMMA AccountsInit == Init => AccountsInv
<1> SUFFICES ASSUME Init PROVE AccountsInv
  OBVIOUS
<1>1. UsersOK /\ RolesOK /\ SettingsOK
  BY AccountsAssumption DEF Init, UsersOK, RolesOK, SettingsOK, NoUser, Roles
<1>2. SessionsOK
  BY DEF Init, SessionsOK, OneSessionPerSignIn, Live
<1>3. InvitationsOK /\ TokensOK
  BY DEF Init, InvitationsOK, TokensOK, Pending, Unconsumed, NoInvitation, NoToken
<1>4. OwnersOK
  BY DEF Init, OwnersOK, OrganizationsKeepTheirOwner
<1>5. ReqTyped(Idle) /\ Idle.op = "idle"
  BY DEF ReqTyped, Idle, ForUser, ForOrg, ForEmail, ForRole, ForInvitation
<1>6. ReqsOK /\ AdminsOK
  BY <1>5 DEF Init, ReqsOK, AdminsOK, SparesOwner, NoUser
<1> QED
  BY <1>1, <1>2, <1>3, <1>4, <1>6 DEF AccountsInv

LEMMA AccountsNext == AccountsInv /\ [Next]_vars => AccountsInv'
<1> SUFFICES ASSUME AccountsInv, [Next]_vars PROVE AccountsInv'
  OBVIOUS
<1>1. ASSUME NEW c \in Callers, Signing(c) PROVE AccountsInv'
  BY <1>1, SigningBegins, SetupKeeps, RegisterKeeps, SessionSteps DEF Signing
<1>2. ASSUME NEW c \in Callers, Passwords(c) PROVE AccountsInv'
  BY <1>2, PasswordsBegin, ChangePasswordKeeps, ForgotBeginKeeps, TokenSteps DEF Passwords
<1>3. ASSUME NEW c \in Callers, Inviting(c) PROVE AccountsInv'
  BY <1>3, InvitingBegins, InvitationSteps, AcceptKeeps DEF Inviting
<1>4. ASSUME NEW c \in Callers, Managing(c) \/ Refuse(c) PROVE AccountsInv'
  BY <1>4, ManagingBegins, CreateMemberKeeps, MemberChanges, PurgeKeeps DEF Managing
<1>5. CASE UNCHANGED vars
  BY <1>5, Untouched DEF vars, AccountsInv, ReqsOK, AdminsOK, ReqTyped, SparesOwner
<1> QED
  BY <1>1, <1>2, <1>3, <1>4, <1>5, SessionEndsKeeps, TokenExpiresKeeps, InvitationExpiresKeeps DEF Next

\* What every table holds and what every request under way carries is kept by
\* every handler, in any interleaving of their two halves.
THEOREM AccountsAreSound == Spec => []AccountsInv
  BY AccountsInit, AccountsNext, PTL DEF Spec

\* The rows keep their types, and an address names one account.
THEOREM AccountsTypes == Spec => []AccountsTypeOK
<1>1. ASSUME AccountsInv PROVE AccountsTypeOK
  <2>1. /\ orgs \subseteq OrgIds
        /\ users \in [UserIds -> [email : Emails \union {NoEmail}, admin : BOOLEAN, verified : BOOLEAN]]
        /\ \A u, v \in UserIds : users[u].email = users[v].email /\ users[u] # NoUser => u = v
        /\ role \in [OrgIds -> [UserIds -> Roles \union {"none"}]]
    BY <1>1 DEF AccountsInv, OwnersOK, UsersOK, RolesOK
  <2>2. \A s \in Sessions : session[s] = NoSession \/ session[s] \in [user : UserIds, org : OrgIds, root : Sessions]
    BY <1>1 DEF AccountsInv, SessionsOK
  <2>3. /\ \A i \in Invitations : invitation[i].state \in {"none", "pending", "expired", "accepted", "revoked"}
        /\ \A t \in Tokens : token[t].state \in {"none", "issued", "expired", "consumed"}
        /\ settings \in [registration : BOOLEAN, verification : BOOLEAN]
        /\ begun \in 0..MaxRequests
    BY <1>1 DEF AccountsInv, InvitationsOK, TokensOK, SettingsOK
  <2>4. ASSUME NEW c \in Callers
        PROVE  req[c].op \in ForUser \union ForOrg \union ForEmail \union {"idle", "setup", "settings"}
    BY <1>1 DEF AccountsInv, ReqsOK, ReqTyped
  <2> QED
    BY <2>1, <2>2, <2>3, <2>4 DEF AccountsTypeOK, ForUser, ForOrg, ForEmail
<1> QED
  BY <1>1, AccountsAreSound, PTL

\* An organization keeps exactly one owner, whose account exists.
THEOREM OwnersAreKept == Spec => []OrganizationsKeepTheirOwner
<1>1. AccountsInv => OrganizationsKeepTheirOwner
  BY DEF AccountsInv, OwnersOK
<1> QED
  BY <1>1, AccountsAreSound, PTL

\* One sign-in is one session, an invitation makes one membership and a reset
\* token changes one password, however many requests read them first.
THEOREM NothingIsUsedTwice == Spec => []UsedOnce
<1>1. ASSUME AccountsInv PROVE UsedOnce
  BY <1>1 DEF AccountsInv, SessionsOK, InvitationsOK, TokensOK, UsedOnce, TicketsWorkOnce
<1> QED
  BY <1>1, AccountsAreSound, PTL

\* Setups that run at the same time make one administrator.
THEOREM OneAdministrator == Spec => []OnePlatformAdmin
<1>1. ASSUME AccountsInv PROVE OnePlatformAdmin
  <2> DEFINE A == {u \in UserIds : users[u].admin}
  <2>1. CASE A = {}
    BY <2>1, FS_EmptySet DEF OnePlatformAdmin
  <2>2. CASE A # {}
    <3>1. PICK u : A = {u}
      BY <1>1, <2>2 DEF AccountsInv, AdminsOK
    <3>2. Cardinality({u}) = 1
      BY FS_Singleton
    <3>3. Cardinality(A) = 1
      <4> HIDE DEF A
      <4> QED
        BY <3>1, <3>2
    <3> QED
      BY <3>3 DEF OnePlatformAdmin
  <2> QED
    BY <2>1, <2>2
<1> QED
  BY <1>1, AccountsAreSound, PTL
=============================================================================
