------------------------------- MODULE Accounts -------------------------------
(***************************************************************************)
(* Who may do what: accounts, roles, tenants, group mappings and browser   *)
(* sessions (auth/*, settings/routes.py, `dosm user`, `dosm tenant`).      *)
(*                                                                         *)
(* A session is a signed cookie the browser holds: every response sends    *)
(* the session its request came with, as the handler changed it, so a slow *)
(* response brings an older session back.  Nothing about rights is in it:  *)
(* get_current_user reads the account and its tenant at every request.     *)
(*                                                                         *)
(* A person is named by the browser used.  Names, passwords and tokens are *)
(* opaque: a person knows the passwords of the accounts made for him or    *)
(* her and signs in to Okta as himself or herself.  users.is_active is     *)
(* never cleared by any code and is left out, and so are tenant names,     *)
(* whose uniqueness only refuses requests.                                 *)
(***************************************************************************)
EXTENDS Naturals, Sequences, FiniteSets, SequencesExt

CONSTANTS
  Browsers, Groups,
  TenantIds,       \* tenants.id, the Default tenant being 1
  UserIds,         \* users.id
  Legacy,          \* config.yaml rbac.group_role_map: the groups, in order
  NoId,            \* NULL, or an absent session key
  Switchable,      \* bound: the tenants chosen as active
  MaxEdits,        \* bound: administrative steps
  MaxFlights       \* bound: requests being awaited at a time

DEFAULT_TENANT == 1

ASSUME AccountsAssumption ==
  /\ TenantIds \subseteq Nat /\ UserIds \subseteq Nat /\ {1, 2} \subseteq UserIds
  /\ DEFAULT_TENANT \in TenantIds
  /\ NoId \notin TenantIds \cup UserIds
  /\ Legacy \in Seq(Groups) /\ Switchable \subseteq TenantIds
  /\ MaxEdits \in Nat /\ MaxFlights \in Nat

VARIABLES
  tenants,      \* tenants: id -> is_active
  users,        \* users: id -> [owner, name, okta, password, role, tenant, locked]
  mappings,     \* group_mappings by id: a sequence of [group, tenant]
  defaultRole,  \* cfg.rbac.default_role
  claims,       \* Okta: the groups of each person
  cookie,       \* browser -> [user, active, state]
  flight,       \* browser -> the request being awaited, or NoId
  audit,        \* the row about an account's access the last step wrote
  edits         \* administrative steps taken

vars == <<tenants, users, mappings, defaultRole, claims, cookie, flight, audit, edits>>

ROLES == {"viewer", "operator", "tenant_admin"}

NoRow == [action |-> "none", actor |-> NoId, target |-> NoId]

NoCookie == [user |-> NoId, active |-> NoId, state |-> FALSE]

----------------------------------------------------------------------------
(* auth/deps.py and auth/tenancy.py *)

\* The tenant condition of get_current_user and login_submit.
MayEnter(u) ==
  \/ users[u].role = "platform_admin"
  \/ users[u].tenant \in DOMAIN tenants /\ tenants[users[u].tenant]

\* Mutant: the tenant is looked at when there is one.
CurrentUserFallsThrough(session) ==
  IF session.user \in DOMAIN users
     /\ (users[session.user].tenant = NoId \/ MayEnter(session.user))
  THEN session.user ELSE NoId

CurrentUser(session) ==
  IF session.user \in DOMAIN users /\ MayEnter(session.user) THEN session.user ELSE NoId

IsPlatformAdmin(u) == u # NoId /\ users[u].role = "platform_admin"

\* require_admin
IsAdmin(u) == u # NoId /\ users[u].role \in {"tenant_admin", "platform_admin"}

\* resolve_tenant_id for a signed-in user
Scope(session) ==
  LET u == CurrentUser(session)
  IN  IF IsPlatformAdmin(u) THEN session.active ELSE users[u].tenant

----------------------------------------------------------------------------
(* Sessions *)

\* A browser sends its next request when the last is answered, or from a second
\* tab: one request at a time is awaited by its handler, others run meanwhile.
SessionsOnly == UNCHANGED <<tenants, users, mappings, defaultRole, claims, edits>> /\ audit' = NoRow

\* b may send a request that will be awaited.
Idle(b) == flight[b] = NoId /\ Cardinality({x \in Browsers : flight[x] # NoId}) < MaxFlights

LoginSubmit(b, u) ==
  /\ u \in DOMAIN users
  /\ users[u].owner = b /\ users[u].password
  /\ MayEnter(u)
  /\ cookie' = [cookie EXCEPT ![b].user = u]
  /\ SessionsOnly /\ UNCHANGED flight

Logout(b) ==
  /\ cookie[b] # NoCookie
  /\ cookie' = [cookie EXCEPT ![b] = NoCookie]
  /\ SessionsOnly /\ UNCHANGED flight

SetActiveTenant(b, t) ==
  /\ IsPlatformAdmin(CurrentUser(cookie[b]))
  /\ t \in DOMAIN tenants \cup {NoId}
  /\ cookie' = [cookie EXCEPT ![b].active = t]
  /\ SessionsOnly /\ UNCHANGED flight

\* Any page whose handler awaits: it keeps the session it came with ...
PageBegins(b) ==
  /\ Idle(b)
  /\ cookie[b] # NoCookie
  /\ flight' = [flight EXCEPT ![b] = [kind |-> "page", session |-> cookie[b]]]
  /\ SessionsOnly /\ UNCHANGED cookie

\* ... and its response sends that session back.
PageEnds(b) ==
  /\ flight[b] # NoId /\ flight[b].kind = "page"
  /\ cookie' = [cookie EXCEPT ![b] = flight[b].session]
  /\ flight' = [flight EXCEPT ![b] = NoId]
  /\ SessionsOnly

----------------------------------------------------------------------------
(* Okta *)

OktaLogin(b) ==
  /\ Idle(b)
  /\ flight' = [flight EXCEPT ![b] = [kind |-> "login", session |-> cookie[b]]]
  /\ SessionsOnly /\ UNCHANGED cookie

\* Discovery answered: a fresh state is stashed and the browser sent to Okta.
OktaLoginRedirects(b) ==
  /\ flight[b] # NoId /\ flight[b].kind = "login"
  /\ cookie' = [cookie EXCEPT ![b] = [flight[b].session EXCEPT !.state = TRUE]]
  /\ flight' = [flight EXCEPT ![b] = NoId]
  /\ SessionsOnly

\* Discovery failed, or the exchange or the token was refused.
OktaFails(b) ==
  /\ flight[b] # NoId /\ flight[b].kind \in {"login", "callback"}
  /\ cookie' = [cookie EXCEPT ![b] = flight[b].session]
  /\ flight' = [flight EXCEPT ![b] = NoId]
  /\ SessionsOnly

\* The redirect back from Okta: the handshake values are popped, and the handler
\* goes on only if there is a state and it is the one of the redirect; that of an
\* earlier sign-in, or of a reload, is not.
OktaCallback(b, expected) ==
  /\ Idle(b)
  /\ cookie[b].state
  /\ LET popped == [cookie[b] EXCEPT !.state = FALSE]
     IN  IF expected
         THEN /\ flight' = [flight EXCEPT ![b] = [kind |-> "callback", session |-> popped]]
              /\ UNCHANGED cookie
         ELSE /\ cookie' = [cookie EXCEPT ![b] = popped]
              /\ UNCHANGED flight
  /\ SessionsOnly

NoGrant == [tenant |-> NoId, role |-> "none"]

\* pick_grant: the first mapping of one of the groups; the role is always viewer.
PickGrant(groups) ==
  LET mine == {i \in DOMAIN mappings : mappings[i].group \in groups}
      first == CHOOSE i \in mine : \A j \in mine : i <= j
  IN  CASE mine # {} -> [tenant |-> mappings[first].tenant, role |-> "viewer"]
        [] mine = {} /\ defaultRole \in ROLES -> [tenant |-> DEFAULT_TENANT, role |-> defaultRole]
        [] OTHER -> NoGrant

Named(name) == {u \in DOMAIN users : users[u].name = name}

\* _unique_username: a name another account has gets a suffix made of the subject.
UniqueUsername(b, name) == IF Named(<<name>>) = {} THEN <<name>> ELSE <<name, b>>

\* Mutant: an account of the desired name is taken for the person's own.
AccountsOfByName(b, name) == {u \in DOMAIN users : (users[u].okta /\ users[u].owner = b)
                                                   \/ users[u].name = <<name>>}

\* The account with the token's subject.
AccountsOf(b, name) == {u \in DOMAIN users : users[u].okta /\ users[u].owner = b}

NewUserId == Cardinality(DOMAIN users) + 1

AddUser(row) ==
  /\ NewUserId \in UserIds
  /\ Named(row.name) = {}
  /\ users' = [u \in DOMAIN users \cup {NewUserId} |-> IF u = NewUserId THEN row ELSE users[u]]

\* provision_user for an account there is.
Recomputed(u, grant) ==
  IF users[u].locked THEN [users[u] EXCEPT !.okta = TRUE]
  ELSE [users[u] EXCEPT !.okta = TRUE, !.role = grant.role, !.tenant = grant.tenant]

\* The exchange, the token and the grant: everything after the last await.
OktaSignsIn(b, name) ==
  LET f == flight[b]
      grant == PickGrant(claims[b])
      mine == AccountsOf(b, name)
      u == IF mine = {} THEN NewUserId ELSE CHOOSE v \in mine : TRUE
  IN  /\ f # NoId /\ f.kind = "callback"
      /\ grant # NoGrant
      /\ IF mine = {}
         THEN AddUser([owner |-> b, name |-> UniqueUsername(b, name), okta |-> TRUE, password |-> FALSE,
                       role |-> grant.role, tenant |-> grant.tenant, locked |-> FALSE])
         ELSE users' = [users EXCEPT ![u] = Recomputed(u, grant)]
      /\ cookie' = [cookie EXCEPT ![b] = [f.session EXCEPT !.user = u]]
      /\ flight' = [flight EXCEPT ![b] = NoId]
      /\ audit' = [action |-> "auth.login.okta", actor |-> u, target |-> u]
      /\ UNCHANGED <<tenants, mappings, defaultRole, claims, edits>>

\* No group with a mapping and no default: refused, and no account is made.
OktaDenied(b) ==
  /\ flight[b] # NoId /\ flight[b].kind = "callback"
  /\ PickGrant(claims[b]) = NoGrant
  /\ cookie' = [cookie EXCEPT ![b] = flight[b].session]
  /\ flight' = [flight EXCEPT ![b] = NoId]
  /\ SessionsOnly

----------------------------------------------------------------------------
(* Administration *)

\* An administrative step, counted against the bound.
Edit ==
  /\ edits < MaxEdits
  /\ edits' = edits + 1
  /\ UNCHANGED <<cookie, flight>>

AddTenant ==
  /\ \E t \in TenantIds \ DOMAIN tenants :
       tenants' = [x \in DOMAIN tenants \cup {t} |-> x = t \/ tenants[x]]
  /\ Edit /\ UNCHANGED <<users, mappings, defaultRole, claims>> /\ audit' = NoRow

TenantCreate(b) == IsPlatformAdmin(CurrentUser(cookie[b])) /\ AddTenant

TenantCreateCli == AddTenant

TenantToggle(b, t) ==
  /\ IsPlatformAdmin(CurrentUser(cookie[b]))
  /\ t \in DOMAIN tenants
  /\ tenants' = [tenants EXCEPT ![t] = ~@]
  /\ Edit /\ UNCHANGED <<users, mappings, defaultRole, claims>> /\ audit' = NoRow

\* _resolve_mapping_tenant
MappingTenants(u) == IF IsPlatformAdmin(u) THEN DOMAIN tenants ELSE {users[u].tenant}

RbacMappingSave(b, g, t) ==
  LET u == CurrentUser(cookie[b])
      row == [group |-> g, tenant |-> t]
  IN  /\ IsAdmin(u)
      /\ t \in MappingTenants(u)
      /\ ~Contains(mappings, row)      \* otherwise the row is written as it was
      /\ mappings' = Append(mappings, row)
      /\ Edit /\ UNCHANGED <<tenants, users, defaultRole, claims>> /\ audit' = NoRow

RbacMappingDelete(b, i) ==
  LET u == CurrentUser(cookie[b])
  IN  /\ IsAdmin(u)
      /\ i \in DOMAIN mappings
      /\ mappings[i].tenant \in MappingTenants(u)
      /\ mappings' = RemoveAt(mappings, i)
      /\ Edit /\ UNCHANGED <<tenants, users, defaultRole, claims>> /\ audit' = NoRow

RbacDefaultSave(b, role) ==
  /\ IsPlatformAdmin(CurrentUser(cookie[b]))
  /\ role \in {"none", "viewer"}
  /\ defaultRole' = role
  /\ Edit /\ UNCHANGED <<tenants, users, mappings, claims>> /\ audit' = NoRow

\* Mutant: an administrator of a tenant may hand out every role there is.
MayAssignAnyRole(a, u, role, t) ==
  IF IsPlatformAdmin(a)
  THEN role = "platform_admin" \/ t \in DOMAIN tenants
  ELSE t = NoId /\ users[u].tenant = users[a].tenant

\* What member_set_role refuses; t is the tenant of the form, NoId if left out.
MayAssign(a, u, role, t) ==
  IF IsPlatformAdmin(a)
  THEN \/ role = "platform_admin"
       \/ role \in ROLES /\ (t \in DOMAIN tenants \/ (t = NoId /\ users[u].tenant # NoId))
  ELSE t = NoId /\ users[u].tenant = users[a].tenant /\ role \in ROLES

MemberSetRole(b, u, role, t) ==
  LET a == CurrentUser(cookie[b])
  IN  /\ IsAdmin(a)
      /\ u \in DOMAIN users
      /\ MayAssign(a, u, role, t)
      /\ users' = [users EXCEPT ![u].role = role, ![u].locked = TRUE,
                                ![u].tenant = IF role = "platform_admin" /\ IsPlatformAdmin(a) THEN NoId
                                              ELSE IF t # NoId THEN t ELSE @]
      /\ audit' = [action |-> "user.set_role", actor |-> a, target |-> u]
      /\ Edit /\ UNCHANGED <<tenants, mappings, defaultRole, claims>>

LocalUser(owner, name, role, t) ==
  [owner |-> owner, name |-> <<name>>, okta |-> FALSE, password |-> TRUE,
   role |-> role, tenant |-> t, locked |-> FALSE]

UserCreate(owner, name, role, t) ==
  /\ IF role = "platform_admin" THEN t = NoId ELSE t \in DOMAIN tenants
  /\ AddUser(LocalUser(owner, name, role, t))
  /\ Edit /\ UNCHANGED <<tenants, mappings, defaultRole, claims>> /\ audit' = NoRow

\* `dosm user set-role`: the tenant stays, the lock changes when an option says so,
\* and the audit row names the account itself as the actor.
UserSetRole(u, role, locked) ==
  /\ u \in DOMAIN users
  /\ role \in ROLES
  /\ users' = [users EXCEPT ![u].role = role, ![u].locked = locked]
  /\ audit' = [action |-> "user.set_role", actor |-> u, target |-> u]
  /\ Edit /\ UNCHANGED <<tenants, mappings, defaultRole, claims>>

\* `dosm user passwd` gives an Okta account a password too.
UserPasswd(u) ==
  /\ u \in DOMAIN users
  /\ ~users[u].password
  /\ users' = [users EXCEPT ![u].password = TRUE]
  /\ Edit /\ UNCHANGED <<tenants, mappings, defaultRole, claims>> /\ audit' = NoRow

\* Okta moves a person into or out of a group.
Regroup(b, g) ==
  /\ claims' = [claims EXCEPT ![b] = IF g \in @ THEN @ \ {g} ELSE @ \cup {g}]
  /\ Edit /\ UNCHANGED <<tenants, users, mappings, defaultRole>> /\ audit' = NoRow

\* The server starts again: the requests in flight are lost, and an empty table of
\* mappings is filled from the old configuration.
Restart ==
  /\ edits < MaxEdits /\ edits' = edits + 1
  /\ flight' = [b \in Browsers |-> NoId]
  /\ mappings' = IF mappings = << >>
                 THEN [i \in DOMAIN Legacy |-> [group |-> Legacy[i], tenant |-> DEFAULT_TENANT]]
                 ELSE mappings
  /\ UNCHANGED <<tenants, users, defaultRole, claims, cookie>> /\ audit' = NoRow

----------------------------------------------------------------------------
\* After `dosm db init` and `dosm user create --platform-admin` for one person, or
\* also `dosm tenant create` and `dosm user create` for another.
Init ==
  /\ \E b, c \in Browsers :
       \/ /\ tenants = [t \in {DEFAULT_TENANT} |-> TRUE]
          /\ users = <<LocalUser(b, b, "platform_admin", NoId)>>
       \/ /\ b # c
          /\ tenants = [t \in TenantIds |-> TRUE]
          /\ users = <<LocalUser(b, b, "platform_admin", NoId),
                       LocalUser(c, c, "tenant_admin", DEFAULT_TENANT)>>
  /\ mappings = [i \in DOMAIN Legacy |-> [group |-> Legacy[i], tenant |-> DEFAULT_TENANT]]
  /\ defaultRole = "none"
  /\ claims = [b \in Browsers |-> Groups]
  /\ cookie = [b \in Browsers |-> NoCookie]
  /\ flight = [b \in Browsers |-> NoId]
  /\ audit = NoRow
  /\ edits = 0

AllRoles == ROLES \cup {"platform_admin"}

SessionNext ==
  \E b \in Browsers :
    \/ \E u \in DOMAIN users : LoginSubmit(b, u)
    \/ Logout(b)
    \/ \E t \in Switchable \cup {NoId} : SetActiveTenant(b, t)
    \/ PageBegins(b) \/ PageEnds(b)
    \/ OktaLogin(b) \/ OktaLoginRedirects(b) \/ OktaFails(b) \/ OktaDenied(b)
    \/ \E expected \in BOOLEAN : OktaCallback(b, expected)
    \/ \E name \in Browsers : OktaSignsIn(b, name)

AdminNext ==
  \/ \E b \in Browsers :
       \/ TenantCreate(b)
       \/ \E t \in TenantIds : TenantToggle(b, t)
       \/ \E g \in Groups, t \in TenantIds : RbacMappingSave(b, g, t)
       \/ \E i \in DOMAIN mappings : RbacMappingDelete(b, i)
       \/ \E role \in {"none", "viewer"} : RbacDefaultSave(b, role)
       \/ \E u \in DOMAIN users, role \in AllRoles, t \in TenantIds \cup {NoId} :
            MemberSetRole(b, u, role, t)
  \/ TenantCreateCli
  \/ \E b, name \in Browsers, role \in AllRoles, t \in TenantIds \cup {NoId} :
       UserCreate(b, name, role, t)
  \/ \E u \in DOMAIN users, role \in ROLES, locked \in BOOLEAN : UserSetRole(u, role, locked)
  \/ \E u \in DOMAIN users : UserPasswd(u)
  \/ \E b \in Browsers, g \in Groups : Regroup(b, g)
  \/ Restart

Next == SessionNext \/ AdminNext

Spec == Init /\ [][Next]_vars

----------------------------------------------------------------------------
\* The rows have their shape, and accounts, mappings and cookies only name
\* tenants and accounts that there are.
TypeOK ==
  /\ DOMAIN tenants \subseteq TenantIds
  /\ DOMAIN users = 1..Cardinality(DOMAIN users)
  /\ \A u \in DOMAIN users :
       /\ users[u].owner \in Browsers
       /\ users[u].role \in AllRoles
       /\ users[u].tenant \in DOMAIN tenants \cup {NoId}
  /\ \A i \in DOMAIN mappings : mappings[i].tenant \in DOMAIN tenants
  /\ \A b \in Browsers :
       /\ cookie[b].user \in DOMAIN users \cup {NoId}
       /\ cookie[b].active \in DOMAIN tenants \cup {NoId}
       /\ cookie[b].state \in BOOLEAN

(***************************************************************************)
(* A browser is only ever signed in to an account of the person using it:  *)
(* through name clashes between local and Okta accounts, accounts that     *)
(* have both, repeated callbacks and sessions brought back by late answers.*)
(***************************************************************************)
SignedInAsSelf ==
  \A b \in Browsers : cookie[b].user # NoId => users[cookie[b].user].owner = b

\* What a cookie names exists and is its browser's own.
SessionsSound == TypeOK /\ SignedInAsSelf

(***************************************************************************)
(* active_tenant_id: "None only ever happens for a platform admin who has  *)
(* not selected an active tenant [...] Regular users always get a concrete *)
(* id."  Also after `dosm user set-role` took the role of a platform admin *)
(* who stays signed in and has no tenant.                                  *)
(***************************************************************************)
RegularPinned ==
  \A b \in Browsers :
    LET u == CurrentUser(cookie[b])
    IN  u # NoId /\ users[u].role # "platform_admin" => Scope(cookie[b]) # NoId

Access(row) == <<row.role, row.tenant, row.locked>>

(***************************************************************************)
(* When the access of an account changes, its audit row names somebody     *)
(* entitled to the change at that moment: a platform admin; an admin of    *)
(* the account's own, active tenant, who leaves it there and below         *)
(* platform admin; or the account itself, which a sign-in never moves when *)
(* its role is pinned and never raises above viewer, and which the command *)
(* line leaves in its tenant.                                              *)
(***************************************************************************)
ChangesEntitled ==
  [][\A u \in DOMAIN users : Access(users'[u]) # Access(users[u]) =>
       LET a == audit'.actor
           new == users'[u]
       IN  /\ audit'.target = u
           /\ \/ users[a].role = "platform_admin" /\ audit'.action = "user.set_role"
              \/ /\ users[a].role = "tenant_admin" /\ audit'.action = "user.set_role"
                 /\ users[a].tenant = users[u].tenant /\ MayEnter(a)
                 /\ new.tenant = users[u].tenant /\ new.role # "platform_admin"
              \/ /\ a = u /\ audit'.action = "user.set_role"
                 /\ new.tenant = users[u].tenant /\ new.role # "platform_admin"
              \/ /\ a = u /\ audit'.action = "auth.login.okta"
                 /\ ~users[u].locked /\ new.role = "viewer"]_vars
=============================================================================
