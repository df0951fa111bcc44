--------------------------- MODULE AccountsProofs ----------------------------
(***************************************************************************)
(* For every number of people, accounts, tenants, groups and requests in   *)
(* flight: a browser is signed in only to accounts of the person using it, *)
(* a regular user is in a tenant, and an account's access changes only     *)
(* through somebody entitled to change it.                                 *)
(***************************************************************************)
EXTENDS Accounts, WellFoundedInduction, SequenceTheorems, FiniteSetTheorems, TLAPS

UserRows ==
  [owner : Browsers, name : Seq(Browsers), okta : BOOLEAN, password : BOOLEAN,
   role : AllRoles, tenant : TenantIds \cup {NoId}, locked : BOOLEAN]

Cookies == [user : UserIds \cup {NoId}, active : TenantIds \cup {NoId}, state : BOOLEAN]

Flights == [kind : {"page", "login", "callback"}, session : Cookies]

\* Rows of group_mappings over the tenants ts.
MappingRows(ts) == [group : Groups, tenant : DOMAIN ts]

\* Tables and cookies have their shape; users.id counts up.
Shapes ==
  /\ tenants \in [DOMAIN tenants -> BOOLEAN] /\ DOMAIN tenants \subseteq TenantIds
  /\ DEFAULT_TENANT \in DOMAIN tenants
  /\ users \in [DOMAIN users -> UserRows] /\ DOMAIN users \subseteq UserIds
  /\ \E n \in Nat : DOMAIN users = 1 .. n
  /\ defaultRole \in {"none", "viewer"}
  /\ cookie \in [Browsers -> Cookies]
  /\ flight \in [Browsers -> Flights \cup {NoId}]

\* Session s is one that browser b may hold, over these accounts and tenants.
Own(b, s, us, ts) ==
  /\ s.user \in DOMAIN us \cup {NoId}
  /\ s.active \in DOMAIN ts \cup {NoId}
  /\ s.user # NoId => us[s.user].owner = b

\* The sessions that late responses will bring back are the browser's own too.
SessionsOwn ==
  \A b \in Browsers :
    /\ Own(b, cookie[b], users, tenants)
    /\ flight[b] # NoId => Own(b, flight[b].session, users, tenants)

\* Accounts and mappings name tenants that there are.
TenantsKnown ==
  /\ \A u \in DOMAIN users : users[u].tenant \in DOMAIN tenants \cup {NoId}
  /\ mappings \in Seq(MappingRows(tenants))

AccountsInv == Shapes /\ SessionsOwn /\ TenantsKnown

----------------------------------------------------------------------------
(* Helpers *)

\* A non-empty set of natural numbers has a least element.
LEMMA LeastNatural ==
  ASSUME NEW S \in SUBSET Nat, S # {}
  PROVE  \E m \in S : \A n \in S : m <= n
<1> DEFINE R == {ss \in Nat \X Nat : ss[1] < ss[2]}
<1>1. IsWellFoundedOn(R, Nat)
  BY NatLessThanWellFounded DEF OpToRel
<1>2. \A m, n \in Nat : n < m => <<n, m>> \in R
  OBVIOUS
<1> HIDE DEF R
<1>3. PICK m \in S : \A n \in S : ~ (<<n, m>> \in R)
  BY <1>1, WFMin
<1>4. ASSUME NEW n \in S PROVE m <= n
  <2>1. m \in Nat /\ n \in Nat
    OBVIOUS
  <2>2. ~ (n < m)
    BY <1>2, <1>3, <2>1
  <2> QED BY <2>1, <2>2
<1> QED BY <1>4

\* A sequence without its element at i is a sequence of the same elements.
LEMMA RemoveAtSeq ==
  ASSUME NEW S, NEW s \in Seq(S), NEW i \in 1 .. Len(s)
  PROVE  RemoveAt(s, i) \in Seq(S)
<1>1. Len(s) \in Nat /\ \A j \in 1 .. Len(s) : s[j] \in S
  BY LenProperties, ElementOfSeq
<1>2. SubSeq(s, 1, i - 1) \in Seq(S)
  <2>1. \A j \in 1 .. i - 1 : s[j] \in S
    BY <1>1
  <2> QED BY <1>1, <2>1, SubSeqProperties
<1>3. SubSeq(s, i + 1, Len(s)) \in Seq(S)
  <2>1. \A j \in i + 1 .. Len(s) : s[j] \in S
    BY <1>1
  <2> QED BY <1>1, <2>1, SubSeqProperties
<1> QED BY <1>2, <1>3, ConcatProperties DEF RemoveAt

\* The mappings of the old configuration are rows of the Default tenant.
LEMMA LegacyRows ==
  ASSUME Shapes
  PROVE  [i \in DOMAIN Legacy |-> [group |-> Legacy[i], tenant |-> DEFAULT_TENANT]]
           \in Seq(MappingRows(tenants))
<1>1. Legacy \in [1 .. Len(Legacy) -> Groups] /\ Len(Legacy) \in Nat
      /\ DOMAIN Legacy = 1 .. Len(Legacy)
  BY AccountsAssumption, LenProperties
<1>2. [i \in DOMAIN Legacy |-> [group |-> Legacy[i], tenant |-> DEFAULT_TENANT]]
        \in [1 .. Len(Legacy) -> MappingRows(tenants)]
  BY <1>1 DEF Shapes, MappingRows
<1> QED BY <1>1, <1>2, SeqDef

\* What pick_grant gives: the viewer's role, in a tenant that there is.
LEMMA GrantViewer ==
  ASSUME AccountsInv, NEW groups, PickGrant(groups) # NoGrant
  PROVE  PickGrant(groups).role = "viewer" /\ PickGrant(groups).tenant \in DOMAIN tenants
<1> DEFINE mine == {i \in DOMAIN mappings : mappings[i].group \in groups}
           first == CHOOSE i \in mine : \A j \in mine : i <= j
<1>1. /\ mappings \in Seq(MappingRows(tenants)) /\ Len(mappings) \in Nat
      /\ DOMAIN mappings = 1 .. Len(mappings)
      /\ \A i \in 1 .. Len(mappings) : mappings[i] \in MappingRows(tenants)
  BY LenProperties, ElementOfSeq DEF AccountsInv, TenantsKnown
<1>2. CASE mine # {}
  <2>1. mine \in SUBSET Nat
    BY <1>1
  <2>2. first \in mine
    BY <1>2, <2>1, LeastNatural
  <2>3. mappings[first].tenant \in DOMAIN tenants
    BY <1>1, <2>2 DEF MappingRows
  <2>4. PickGrant(groups) = [tenant |-> mappings[first].tenant, role |-> "viewer"]
    BY <1>2 DEF PickGrant
  <2> QED BY <2>3, <2>4
<1>3. CASE mine = {} /\ defaultRole \in ROLES
  <2>1. PickGrant(groups) = [tenant |-> DEFAULT_TENANT, role |-> defaultRole]
    BY <1>3 DEF PickGrant
  <2>2. defaultRole = "viewer" /\ DEFAULT_TENANT \in DOMAIN tenants
    BY <1>3 DEF AccountsInv, Shapes, ROLES
  <2> QED BY <2>1, <2>2
<1>4. CASE mine = {} /\ defaultRole \notin ROLES
  BY <1>4 DEF PickGrant
<1> QED BY <1>2, <1>3, <1>4

\* A new account gets the next id and leaves the others alone.
LEMMA AddUserEffect ==
  ASSUME Shapes, NEW row \in UserRows, AddUser(row)
  PROVE  /\ NewUserId \notin DOMAIN users /\ DOMAIN users' = DOMAIN users \cup {NewUserId}
         /\ users' \in [DOMAIN users' -> UserRows] /\ DOMAIN users' \subseteq UserIds
         /\ \E n \in Nat : DOMAIN users' = 1 .. n
         /\ users'[NewUserId] = row
         /\ \A u \in DOMAIN users : users'[u] = users[u]
<1>1. PICK n \in Nat : DOMAIN users = 1 .. n
  BY DEF Shapes
<1>2. Cardinality(1 .. n) = n
  BY FS_Interval
<1>3. NewUserId = n + 1
  BY <1>1, <1>2 DEF NewUserId
<1>4. NewUserId \notin DOMAIN users /\ 1 .. n + 1 = DOMAIN users \cup {NewUserId}
  BY <1>1, <1>3
<1>5. /\ NewUserId \in UserIds
      /\ users' = [u \in DOMAIN users \cup {NewUserId} |-> IF u = NewUserId THEN row ELSE users[u]]
  BY DEF AddUser
<1>6. users \in [DOMAIN users -> UserRows] /\ DOMAIN users \subseteq UserIds
  BY DEF Shapes
<1> HIDE DEF NewUserId
<1>7. DOMAIN users' = 1 .. n + 1 /\ n + 1 \in Nat
  BY <1>4, <1>5
<1>8. users' \in [DOMAIN users' -> UserRows]
  BY <1>5, <1>6
<1> QED BY <1>4, <1>5, <1>6, <1>7, <1>8

----------------------------------------------------------------------------
(* Steps *)

\* No row that a session names disappears or changes hands.
Grown == /\ DOMAIN users \subseteq DOMAIN users' /\ DOMAIN tenants \subseteq DOMAIN tenants'
         /\ \A u \in DOMAIN users : users'[u].owner = users[u].owner

\* A session stays the browser's own while accounts and tenants only grow.
LEMMA OwnGrows ==
  ASSUME Shapes, Grown, NEW b, NEW s, Own(b, s, users, tenants)
  PROVE  Own(b, s, users', tenants')
BY AccountsAssumption DEF Own, Grown, Shapes

\* Steps without a response keep every session the browser's own.
LEMMA AdminKeepsSessions ==
  ASSUME AccountsInv, Grown, UNCHANGED cookie,
         \A b \in Browsers : flight'[b] # NoId => flight'[b] = flight[b]
  PROVE  SessionsOwn'
BY OwnGrows DEF AccountsInv, SessionsOwn

\* An answer to browser b brings a session of its own and the request is over.
LEMMA AnswerKeepsSessions ==
  ASSUME AccountsInv, Grown, NEW b \in Browsers, NEW s \in Cookies,
         Own(b, s, users', tenants'),
         cookie' = [cookie EXCEPT ![b] = s],
         flight' = flight \/ flight' = [flight EXCEPT ![b] = NoId]
  PROVE  /\ cookie' \in [Browsers -> Cookies] /\ flight' \in [Browsers -> Flights \cup {NoId}]
         /\ SessionsOwn'
<1>1. cookie \in [Browsers -> Cookies] /\ flight \in [Browsers -> Flights \cup {NoId}]
  BY DEF AccountsInv, Shapes
<1>2. cookie' \in [Browsers -> Cookies] /\ flight' \in [Browsers -> Flights \cup {NoId}]
  BY <1>1
<1>3. ASSUME NEW c \in Browsers
      PROVE  /\ Own(c, cookie'[c], users', tenants')
             /\ flight'[c] # NoId => Own(c, flight'[c].session, users', tenants')
  <2>1. /\ Own(c, cookie[c], users', tenants')
        /\ flight[c] # NoId => Own(c, flight[c].session, users', tenants')
    BY OwnGrows DEF AccountsInv, SessionsOwn
  <2>2. cookie'[c] = IF c = b THEN s ELSE cookie[c]
    BY <1>1
  <2>3. flight'[c] = NoId \/ flight'[c] = flight[c]
    BY <1>1
  <2> QED BY <2>1, <2>2, <2>3
<1> QED BY <1>2, <1>3 DEF SessionsOwn

\* A request that begins keeps the cookie it came with, or one made from it.
LEMMA RequestKeepsSessions ==
  ASSUME AccountsInv, SessionsOnly, UNCHANGED cookie, NEW b \in Browsers,
         NEW f \in Flights, Own(b, f.session, users, tenants),
         flight' = [flight EXCEPT ![b] = f]
  PROVE  AccountsInv'
<1>1. UNCHANGED <<tenants, users, mappings, defaultRole>>
  BY DEF SessionsOnly
<1>2. flight \in [Browsers -> Flights \cup {NoId}]
  BY DEF AccountsInv, Shapes
<1>3. flight' \in [Browsers -> Flights \cup {NoId}]
  BY <1>2
<1>4. \A c \in Browsers : flight'[c] = IF c = b THEN f ELSE flight[c]
  BY <1>2
<1>5. SessionsOwn'
  BY <1>1, <1>4 DEF AccountsInv, SessionsOwn
<1> QED BY <1>1, <1>3, <1>5 DEF AccountsInv, Shapes, TenantsKnown

\* A response that writes no row.
LEMMA AnswerOnly ==
  ASSUME AccountsInv, SessionsOnly, NEW b \in Browsers, NEW s \in Cookies,
         Own(b, s, users, tenants), cookie' = [cookie EXCEPT ![b] = s],
         flight' = flight \/ flight' = [flight EXCEPT ![b] = NoId]
  PROVE  AccountsInv'
<1>1. UNCHANGED <<tenants, users, mappings, defaultRole>>
  BY DEF SessionsOnly
<1>2. Grown /\ Own(b, s, users', tenants')
  BY <1>1 DEF Grown
<1>3. /\ cookie' \in [Browsers -> Cookies] /\ flight' \in [Browsers -> Flights \cup {NoId}]
      /\ SessionsOwn'
  BY <1>2, AnswerKeepsSessions
<1> QED BY <1>1, <1>3 DEF AccountsInv, Shapes, TenantsKnown

\* Every step of a browser's session keeps the invariant.
LEMMA SessionStep ==
  ASSUME AccountsInv, NEW b \in Browsers,
         \/ \E u \in DOMAIN users : LoginSubmit(b, u)
         \/ Logout(b)
         \/ \E t \in Switchable \cup {NoId} : SetActiveTenant(b, t)
         \/ PageBegins(b) \/ PageEnds(b)
         \/ OktaLogin(b) \/ OktaLoginRedirects(b) \/ OktaFails(b) \/ OktaDenied(b)
         \/ \E expected \in BOOLEAN : OktaCallback(b, expected)
  PROVE  AccountsInv'
<1>1. /\ cookie \in [Browsers -> Cookies] /\ cookie[b] \in Cookies
      /\ Own(b, cookie[b], users, tenants)
  BY DEF AccountsInv, Shapes, SessionsOwn
<1>2. ASSUME flight[b] # NoId
      PROVE  flight[b].session \in Cookies /\ Own(b, flight[b].session, users, tenants)
  BY <1>2 DEF AccountsInv, Shapes, SessionsOwn, Flights
<1>3. ASSUME NEW u \in DOMAIN users, LoginSubmit(b, u) PROVE AccountsInv'
  <2> DEFINE s == [cookie[b] EXCEPT !.user = u]
  <2>1. s \in Cookies /\ s.user = u /\ s.active = cookie[b].active
    BY <1>1 DEF Cookies, AccountsInv, Shapes
  <2>2. Own(b, s, users, tenants)
    BY <1>1, <1>3, <2>1 DEF Own, LoginSubmit
  <2>3. cookie' = [cookie EXCEPT ![b] = s] /\ flight' = flight /\ SessionsOnly
    BY <1>3 DEF LoginSubmit
  <2> QED BY <2>1, <2>2, <2>3, AnswerOnly
<1>4. CASE Logout(b)
  <2>1. NoCookie \in Cookies /\ Own(b, NoCookie, users, tenants)
    BY DEF NoCookie, Cookies, Own
  <2> QED BY <1>4, <2>1, AnswerOnly DEF Logout
<1>5. ASSUME NEW t, SetActiveTenant(b, t) PROVE AccountsInv'
  <2> DEFINE s == [cookie[b] EXCEPT !.active = t]
  <2>1. t \in DOMAIN tenants \cup {NoId}
    BY <1>5 DEF SetActiveTenant
  <2>2. s \in Cookies /\ s.user = cookie[b].user /\ s.active = t
    BY <1>1, <2>1 DEF Cookies, AccountsInv, Shapes
  <2>3. Own(b, s, users, tenants)
    BY <1>1, <2>1, <2>2 DEF Own
  <2>4. cookie' = [cookie EXCEPT ![b] = s] /\ flight' = flight /\ SessionsOnly
    BY <1>5 DEF SetActiveTenant
  <2> QED BY <2>2, <2>3, <2>4, AnswerOnly
<1>6. CASE PageBegins(b) \/ OktaLogin(b)
  <2>1. PICK k \in {"page", "login"} : flight' = [flight EXCEPT ![b] = [kind |-> k, session |-> cookie[b]]]
    BY <1>6 DEF PageBegins, OktaLogin
  <2> DEFINE f == [kind |-> k, session |-> cookie[b]]
  <2>2. f \in Flights /\ f.session = cookie[b]
    BY <1>1 DEF Flights
  <2>3. Own(b, f.session, users, tenants)
    BY <1>1, <2>2
  <2>4. SessionsOnly /\ UNCHANGED cookie /\ flight' = [flight EXCEPT ![b] = f]
    BY <1>6, <2>1 DEF PageBegins, OktaLogin
  <2> QED BY <2>2, <2>3, <2>4, RequestKeepsSessions
<1>7. CASE PageEnds(b) \/ OktaFails(b) \/ OktaDenied(b)
  BY <1>2, <1>7, AnswerOnly DEF PageEnds, OktaFails, OktaDenied
<1>8. CASE OktaLoginRedirects(b)
  <2> DEFINE s == [flight[b].session EXCEPT !.state = TRUE]
  <2>0. flight[b].session \in Cookies /\ Own(b, flight[b].session, users, tenants)
    BY <1>2, <1>8 DEF OktaLoginRedirects
  <2>1. s \in Cookies /\ s.user = flight[b].session.user /\ s.active = flight[b].session.active
    BY <2>0 DEF Cookies
  <2>2. Own(b, s, users, tenants)
    BY <2>0, <2>1 DEF Own
  <2>3. /\ cookie' = [cookie EXCEPT ![b] = s] /\ flight' = [flight EXCEPT ![b] = NoId]
        /\ SessionsOnly
    BY <1>8 DEF OktaLoginRedirects
  <2> QED BY <2>1, <2>2, <2>3, AnswerOnly
<1>9. ASSUME NEW expected \in BOOLEAN, OktaCallback(b, expected) PROVE AccountsInv'
  <2> DEFINE s == [cookie[b] EXCEPT !.state = FALSE]
             f == [kind |-> "callback", session |-> s]
  <2>1. s \in Cookies /\ s.user = cookie[b].user /\ s.active = cookie[b].active
    BY <1>1 DEF Cookies
  <2>2. Own(b, s, users, tenants)
    BY <1>1, <2>1 DEF Own
  <2>3. CASE flight' = [flight EXCEPT ![b] = f] /\ UNCHANGED cookie /\ SessionsOnly
    <3>1. f \in Flights /\ f.session = s
      BY <2>1 DEF Flights
    <3>2. Own(b, f.session, users, tenants)
      BY <2>2, <3>1
    <3> HIDE DEF f
    <3> QED BY <2>3, <3>1, <3>2, RequestKeepsSessions
  <2>4. CASE cookie' = [cookie EXCEPT ![b] = s] /\ UNCHANGED flight /\ SessionsOnly
    BY <2>1, <2>2, <2>4, AnswerOnly
  <2> QED BY <1>9, <2>3, <2>4 DEF OktaCallback
<1> QED BY <1>3, <1>4, <1>5, <1>6, <1>7, <1>8, <1>9

\* What a change of rows leaves to show, when accounts keep their owners.
LEMMA RowsChange ==
  ASSUME AccountsInv, Grown, UNCHANGED <<cookie, mappings, defaultRole>>,
         tenants' \in [DOMAIN tenants' -> BOOLEAN], DOMAIN tenants' \subseteq TenantIds,
         users' \in [DOMAIN users' -> UserRows], DOMAIN users' \subseteq UserIds,
         \E n \in Nat : DOMAIN users' = 1 .. n,
         \A u \in DOMAIN users' : users'[u].tenant \in DOMAIN tenants' \cup {NoId},
         UNCHANGED flight
  PROVE  AccountsInv'
<1>1. SessionsOwn'
  BY AdminKeepsSessions
<1>2. Shapes'
  BY DEF AccountsInv, Shapes, Grown
<1>3. mappings \in Seq(MappingRows(tenants'))
  <2>1. MappingRows(tenants) \subseteq MappingRows(tenants')
    BY DEF Grown, MappingRows
  <2>2. mappings \in Seq(MappingRows(tenants))
    BY DEF AccountsInv, TenantsKnown
  <2> QED BY <2>1, <2>2, SeqMonotonic
<1>4. TenantsKnown'
  BY <1>3 DEF TenantsKnown, MappingRows
<1> QED BY <1>1, <1>2, <1>4 DEF AccountsInv

\* One account's row is replaced.
LEMMA RowReplaced ==
  ASSUME AccountsInv, NEW u \in DOMAIN users, NEW row \in UserRows,
         users' = [users EXCEPT ![u] = row],
         row.owner = users[u].owner, row.tenant \in DOMAIN tenants \cup {NoId}, UNCHANGED tenants
  PROVE  /\ Grown
         /\ users' \in [DOMAIN users' -> UserRows] /\ DOMAIN users' = DOMAIN users
         /\ \A v \in DOMAIN users' : users'[v].tenant \in DOMAIN tenants' \cup {NoId}
<1>1. users \in [DOMAIN users -> UserRows]
  BY DEF AccountsInv, Shapes
<1>2. DOMAIN users' = DOMAIN users /\ users'[u] = row
      /\ \A v \in DOMAIN users \ {u} : users'[v] = users[v]
  BY <1>1
<1> QED BY <1>1, <1>2 DEF Grown, AccountsInv, TenantsKnown

\* A sign-in through Okta, to account u.
SignsInTo(b, u) ==
  /\ users'[u].owner = b
  /\ cookie' = [cookie EXCEPT ![b] = [flight[b].session EXCEPT !.user = u]]
  /\ audit' = [action |-> "auth.login.okta", actor |-> u, target |-> u]
  /\ \A v \in DOMAIN users \ {u} : users'[v] = users[v]
  /\ u \in DOMAIN users =>
       \/ Access(users'[u]) = Access(users[u])
       \/ ~ users[u].locked /\ users'[u].role = "viewer"

\* It writes the person's own account, or makes one, and no other.
LEMMA SignInWrites ==
  ASSUME AccountsInv, NEW b \in Browsers, NEW name \in Browsers, OktaSignsIn(b, name)
  PROVE  /\ Grown /\ UNCHANGED <<tenants, mappings, defaultRole>>
         /\ users' \in [DOMAIN users' -> UserRows] /\ DOMAIN users' \subseteq UserIds
         /\ \E n \in Nat : DOMAIN users' = 1 .. n
         /\ \A u \in DOMAIN users' : users'[u].tenant \in DOMAIN tenants' \cup {NoId}
         /\ \E u \in DOMAIN users' : SignsInTo(b, u)
<1> DEFINE grant == PickGrant(claims[b])
           mine == AccountsOf(b, name)
           fresh == [owner |-> b, name |-> UniqueUsername(b, name), okta |-> TRUE, password |-> FALSE,
                     role |-> grant.role, tenant |-> grant.tenant, locked |-> FALSE]
<1>1. grant.role = "viewer" /\ grant.tenant \in DOMAIN tenants
  BY GrantViewer DEF OktaSignsIn
<1>2. UNCHANGED <<tenants, mappings, defaultRole>>
  BY DEF OktaSignsIn
<1>3. /\ users \in [DOMAIN users -> UserRows] /\ DOMAIN users \subseteq UserIds
      /\ \E n \in Nat : DOMAIN users = 1 .. n /\ DOMAIN tenants \subseteq TenantIds
      /\ \A u \in DOMAIN users : users[u].tenant \in DOMAIN tenants \cup {NoId}
  BY DEF AccountsInv, Shapes, TenantsKnown
<1>4. CASE mine = {}
  <2>1. fresh \in UserRows
    <3>1. UniqueUsername(b, name) \in Seq(Browsers)
      BY DEF UniqueUsername
    <3> QED BY <1>1, <1>3, <3>1 DEF UserRows, AllRoles, ROLES
  <2>2. /\ AddUser(fresh)
        /\ cookie' = [cookie EXCEPT ![b] = [flight[b].session EXCEPT !.user = NewUserId]]
        /\ audit' = [action |-> "auth.login.okta", actor |-> NewUserId, target |-> NewUserId]
    BY <1>4 DEF OktaSignsIn
  <2>3. fresh.owner = b /\ fresh.tenant = grant.tenant
    OBVIOUS
  <2> HIDE DEF fresh, grant, mine
  <2>4. /\ NewUserId \notin DOMAIN users /\ DOMAIN users' = DOMAIN users \cup {NewUserId}
        /\ users' \in [DOMAIN users' -> UserRows] /\ DOMAIN users' \subseteq UserIds
        /\ \E n \in Nat : DOMAIN users' = 1 .. n
        /\ users'[NewUserId] = fresh
        /\ \A u \in DOMAIN users : users'[u] = users[u]
    BY <2>1, <2>2, AddUserEffect DEF AccountsInv
  <2>5. Grown
    BY <1>2, <2>4 DEF Grown
  <2>6. \A u \in DOMAIN users' : users'[u].tenant \in DOMAIN tenants' \cup {NoId}
    BY <1>1, <1>2, <1>3, <2>3, <2>4
  <2>7. SignsInTo(b, NewUserId)
    BY <2>2, <2>3, <2>4 DEF SignsInTo
  <2> QED BY <1>2, <2>4, <2>5, <2>6, <2>7
<1>5. CASE mine # {}
  <2> DEFINE u == CHOOSE v \in mine : TRUE
             row == Recomputed(u, grant)
  <2>1. u \in mine
    BY <1>5
  <2>2. u \in DOMAIN users /\ users[u].owner = b
    BY <2>1 DEF AccountsOf
  <2>3. /\ users' = [users EXCEPT ![u] = row]
        /\ cookie' = [cookie EXCEPT ![b] = [flight[b].session EXCEPT !.user = u]]
        /\ audit' = [action |-> "auth.login.okta", actor |-> u, target |-> u]
    BY <1>5 DEF OktaSignsIn
  <2> HIDE DEF u, mine, grant
  <2>4. /\ row \in UserRows /\ row.owner = users[u].owner
        /\ row.tenant \in DOMAIN tenants \cup {NoId}
    <3>1. CASE users[u].locked
      BY <1>3, <2>2, <3>1 DEF Recomputed, UserRows
    <3>2. CASE ~ users[u].locked
      BY <1>1, <1>3, <2>2, <3>2 DEF Recomputed, UserRows, AllRoles, ROLES
    <3> QED BY <3>1, <3>2
  <2>5. Access(row) = Access(users[u]) \/ (~ users[u].locked /\ row.role = "viewer")
    <3>1. CASE users[u].locked
      BY <1>3, <2>2, <3>1 DEF Recomputed, UserRows, Access
    <3>2. CASE ~ users[u].locked
      BY <1>1, <1>3, <2>2, <3>2 DEF Recomputed, UserRows
    <3> QED BY <3>1, <3>2
  <2> HIDE DEF row
  <2>6. /\ Grown
        /\ users' \in [DOMAIN users' -> UserRows] /\ DOMAIN users' = DOMAIN users
        /\ \A v \in DOMAIN users' : users'[v].tenant \in DOMAIN tenants' \cup {NoId}
    BY <1>2, <2>2, <2>3, <2>4, RowReplaced
  <2>7. users'[u] = row /\ \A v \in DOMAIN users \ {u} : users'[v] = users[v]
    BY <1>3, <2>2, <2>3
  <2>8. /\ u \in DOMAIN users' /\ users'[u].owner = b
        /\ \/ Access(users'[u]) = Access(users[u])
           \/ ~ users[u].locked /\ users'[u].role = "viewer"
    BY <2>2, <2>4, <2>5, <2>6, <2>7
  <2>9. SignsInTo(b, u)
    BY <2>3, <2>7, <2>8 DEF SignsInTo
  <2>10. \E n \in Nat : DOMAIN users' = 1 .. n
    BY <1>3, <2>6
  <2> QED BY <1>2, <1>3, <2>6, <2>8, <2>9, <2>10
<1> QED BY <1>4, <1>5

\* A sign-in through Okta keeps the invariant.
LEMMA SignInStep ==
  ASSUME AccountsInv, NEW b \in Browsers, NEW name \in Browsers, OktaSignsIn(b, name)
  PROVE  AccountsInv'
<1>1. PICK u \in DOMAIN users' :
         /\ users'[u].owner = b
         /\ cookie' = [cookie EXCEPT ![b] = [flight[b].session EXCEPT !.user = u]]
  BY SignInWrites DEF SignsInTo
<1>2. /\ Grown /\ UNCHANGED <<tenants, mappings, defaultRole>>
      /\ users' \in [DOMAIN users' -> UserRows] /\ DOMAIN users' \subseteq UserIds
      /\ \E n \in Nat : DOMAIN users' = 1 .. n
      /\ \A v \in DOMAIN users' : users'[v].tenant \in DOMAIN tenants' \cup {NoId}
  BY SignInWrites
<1> DEFINE s == [flight[b].session EXCEPT !.user = u]
<1>3. flight[b].session \in Cookies /\ Own(b, flight[b].session, users, tenants)
  BY DEF OktaSignsIn, AccountsInv, Shapes, SessionsOwn, Flights
<1>4. s \in Cookies /\ s.user = u /\ s.active = flight[b].session.active
  BY <1>2, <1>3 DEF Cookies
<1>5. Own(b, s, users', tenants')
  BY <1>1, <1>2, <1>3, <1>4 DEF Own
<1>6. cookie' = [cookie EXCEPT ![b] = s] /\ flight' = [flight EXCEPT ![b] = NoId]
  BY <1>1 DEF OktaSignsIn
<1> HIDE DEF s
<1>7. /\ cookie' \in [Browsers -> Cookies] /\ flight' \in [Browsers -> Flights \cup {NoId}]
      /\ SessionsOwn'
  BY <1>2, <1>4, <1>5, <1>6, AnswerKeepsSessions
<1>8. Shapes'
  BY <1>2, <1>7 DEF AccountsInv, Shapes
<1>9. TenantsKnown'
  BY <1>2 DEF AccountsInv, TenantsKnown
<1> QED BY <1>7, <1>8, <1>9 DEF AccountsInv

\* Whoever passes require_admin has an account.
LEMMA AdminKnown ==
  ASSUME NEW session, IsAdmin(CurrentUser(session)) \/ IsPlatformAdmin(CurrentUser(session))
  PROVE  /\ CurrentUser(session) = session.user /\ session.user # NoId
         /\ session.user \in DOMAIN users /\ MayEnter(session.user)
BY DEF IsAdmin, IsPlatformAdmin, CurrentUser

FormRow(u, role, x) == [users[u] EXCEPT !.role = role, !.locked = TRUE, !.tenant = x]

\* The row that member_set_role writes: the role of the form, pinned, in a tenant
\* that there is or none.
LEMMA RoleFormRow ==
  ASSUME Shapes, TenantsKnown, NEW b \in Browsers, NEW u \in DOMAIN users, NEW role, NEW t,
         MemberSetRole(b, u, role, t)
  PROVE  \E x \in DOMAIN tenants \cup {NoId} :
           users' = [users EXCEPT ![u] = FormRow(u, role, x)]
<1> DEFINE a == CurrentUser(cookie[b])
           x == IF role = "platform_admin" /\ IsPlatformAdmin(a) THEN NoId
                ELSE IF t # NoId THEN t ELSE users[u].tenant
<1>1. t \in DOMAIN tenants \cup {NoId} \/ x = NoId
  BY DEF MemberSetRole, MayAssign
<1>2. x \in DOMAIN tenants \cup {NoId}
  BY <1>1 DEF TenantsKnown
<1>3. users' = [users EXCEPT ![u] = FormRow(u, role, x)]
  <2>1. users[u] \in UserRows
    BY DEF Shapes
  <2> QED BY <2>1 DEF MemberSetRole, Shapes, UserRows, FormRow
<1> QED BY <1>2, <1>3

\* Every administrative step keeps the invariant.
LEMMA AdminStep == AccountsInv /\ AdminNext => AccountsInv'
<1> SUFFICES ASSUME AccountsInv, AdminNext PROVE AccountsInv'
  OBVIOUS
<1> USE DEF Edit
<1>0. /\ tenants \in [DOMAIN tenants -> BOOLEAN] /\ DOMAIN tenants \subseteq TenantIds
      /\ users \in [DOMAIN users -> UserRows] /\ DOMAIN users \subseteq UserIds
      /\ \E n \in Nat : DOMAIN users = 1 .. n
      /\ \A u \in DOMAIN users : users[u].tenant \in DOMAIN tenants \cup {NoId}
  BY DEF AccountsInv, Shapes, TenantsKnown
<1>1. ASSUME UNCHANGED <<cookie, flight, users, mappings, defaultRole>>,
             tenants' \in [DOMAIN tenants' -> BOOLEAN], DOMAIN tenants' \subseteq TenantIds,
             DOMAIN tenants \subseteq DOMAIN tenants'
      PROVE  AccountsInv'
  <2>1. Grown
    BY <1>1 DEF Grown
  <2>2. \A u \in DOMAIN users' : users'[u].tenant \in DOMAIN tenants' \cup {NoId}
    BY <1>0, <1>1
  <2> QED BY <1>0, <1>1, <2>1, <2>2, RowsChange
<1>2. CASE AddTenant
  <2>1. PICK t \in TenantIds :
          tenants' = [x \in DOMAIN tenants \cup {t} |-> x = t \/ tenants[x]]
    BY <1>2 DEF AddTenant
  <2>2. DOMAIN tenants' = DOMAIN tenants \cup {t}
    BY <2>1
  <2>3. tenants' \in [DOMAIN tenants' -> BOOLEAN]
    BY <1>0, <2>1, <2>2, Zenon
  <2> QED BY <1>0, <1>1, <1>2, <2>2, <2>3 DEF AddTenant
<1>3. ASSUME NEW b \in Browsers, NEW t \in TenantIds, TenantToggle(b, t) PROVE AccountsInv'
  <2>1. DOMAIN tenants' = DOMAIN tenants
    BY <1>3 DEF TenantToggle
  <2>2. tenants' \in [DOMAIN tenants' -> BOOLEAN]
    BY <1>0, <1>3, <2>1 DEF TenantToggle
  <2> QED BY <1>0, <1>1, <1>3, <2>1, <2>2 DEF TenantToggle
<1>4. ASSUME UNCHANGED <<cookie, users, tenants, defaultRole>>,
             \A b \in Browsers : flight'[b] # NoId => flight'[b] = flight[b],
             flight' \in [Browsers -> Flights \cup {NoId}],
             mappings' \in Seq(MappingRows(tenants))
      PROVE  AccountsInv'
  <2>1. Grown
    BY <1>4 DEF Grown
  <2>2. SessionsOwn'
    BY <1>4, <2>1, AdminKeepsSessions
  <2> QED BY <1>4, <2>2 DEF AccountsInv, Shapes, TenantsKnown
<1>5. ASSUME NEW b \in Browsers, NEW g \in Groups, NEW t \in TenantIds, RbacMappingSave(b, g, t)
      PROVE  AccountsInv'
  <2> DEFINE a == CurrentUser(cookie[b])
  <2>1. IsAdmin(a) /\ t \in MappingTenants(a)
    BY <1>5 DEF RbacMappingSave
  <2>2. a \in DOMAIN users /\ MayEnter(a)
    BY <2>1, AdminKnown
  <2>3. t \in DOMAIN tenants
    <3>1. CASE IsPlatformAdmin(a)
      BY <2>1, <3>1 DEF MappingTenants
    <3>2. CASE ~ IsPlatformAdmin(a)
      BY <2>1, <2>2, <3>2 DEF MappingTenants, MayEnter, IsAdmin, IsPlatformAdmin
    <3> QED BY <3>1, <3>2
  <2>4. [group |-> g, tenant |-> t] \in MappingRows(tenants)
    BY <2>3 DEF MappingRows
  <2>5. mappings' \in Seq(MappingRows(tenants))
    BY <1>5, <2>4 DEF RbacMappingSave, AccountsInv, TenantsKnown
  <2> QED BY <1>4, <1>5, <2>5 DEF RbacMappingSave, AccountsInv, Shapes
<1>6. ASSUME NEW b \in Browsers, NEW i \in DOMAIN mappings, RbacMappingDelete(b, i)
      PROVE  AccountsInv'
  <2>1. mappings \in Seq(MappingRows(tenants)) /\ i \in 1 .. Len(mappings)
    BY LenProperties DEF AccountsInv, TenantsKnown
  <2>2. mappings' \in Seq(MappingRows(tenants))
    BY <1>6, <2>1, RemoveAtSeq DEF RbacMappingDelete
  <2> QED BY <1>4, <1>6, <2>2 DEF RbacMappingDelete, AccountsInv, Shapes
<1>7. ASSUME NEW b \in Browsers, NEW role \in {"none", "viewer"}, RbacDefaultSave(b, role)
      PROVE  AccountsInv'
  BY <1>7 DEF RbacDefaultSave, AccountsInv, Shapes, SessionsOwn, TenantsKnown
<1>8. ASSUME NEW u \in DOMAIN users, NEW row \in UserRows, users' = [users EXCEPT ![u] = row],
             row.owner = users[u].owner, row.tenant \in DOMAIN tenants \cup {NoId},
             UNCHANGED <<cookie, flight, tenants, mappings, defaultRole>>
      PROVE  AccountsInv'
  <2>1. /\ Grown
        /\ users' \in [DOMAIN users' -> UserRows] /\ DOMAIN users' = DOMAIN users
        /\ \A v \in DOMAIN users' : users'[v].tenant \in DOMAIN tenants' \cup {NoId}
    BY <1>8, RowReplaced
  <2>2. \E n \in Nat : DOMAIN users' = 1 .. n
    BY <1>0, <2>1
  <2> QED BY <1>0, <1>8, <2>1, <2>2, RowsChange
<1>9. ASSUME NEW b \in Browsers, NEW u \in DOMAIN users, NEW role \in AllRoles,
             NEW t \in TenantIds \cup {NoId}, MemberSetRole(b, u, role, t)
      PROVE  AccountsInv'
  <2>1. Shapes /\ TenantsKnown
    BY DEF AccountsInv
  <2>2. PICK x \in DOMAIN tenants \cup {NoId} : users' = [users EXCEPT ![u] = FormRow(u, role, x)]
    BY <1>9, <2>1, RoleFormRow
  <2>3. FormRow(u, role, x) \in UserRows
    BY <1>0 DEF UserRows, FormRow
  <2>4. FormRow(u, role, x).owner = users[u].owner /\ FormRow(u, role, x).tenant = x
    BY <1>0 DEF UserRows, FormRow
  <2>5. UNCHANGED <<cookie, flight, tenants, mappings, defaultRole>>
    BY <1>9 DEF MemberSetRole
  <2> QED BY <1>8, <2>2, <2>3, <2>4, <2>5
<1>10. ASSUME NEW b \in Browsers, NEW name \in Browsers, NEW role \in AllRoles,
              NEW t \in TenantIds \cup {NoId}, UserCreate(b, name, role, t)
       PROVE  AccountsInv'
  <2> DEFINE row == LocalUser(b, name, role, t)
  <2>1. t \in DOMAIN tenants \cup {NoId}
    BY <1>10 DEF UserCreate
  <2>2. row \in UserRows /\ row.tenant = t
    <3>1. <<name>> \in Seq(Browsers)
      OBVIOUS
    <3> QED BY <3>1 DEF LocalUser, UserRows
  <2>3. AddUser(row) /\ UNCHANGED <<cookie, flight, tenants, mappings, defaultRole>>
    BY <1>10 DEF UserCreate
  <2> HIDE DEF row
  <2>4. /\ NewUserId \notin DOMAIN users /\ DOMAIN users' = DOMAIN users \cup {NewUserId}
        /\ users' \in [DOMAIN users' -> UserRows] /\ DOMAIN users' \subseteq UserIds
        /\ \E n \in Nat : DOMAIN users' = 1 .. n
        /\ users'[NewUserId] = row
        /\ \A u \in DOMAIN users : users'[u] = users[u]
    BY <2>2, <2>3, AddUserEffect DEF AccountsInv
  <2>5. Grown
    BY <2>3, <2>4 DEF Grown
  <2>6. \A u \in DOMAIN users' : users'[u].tenant \in DOMAIN tenants' \cup {NoId}
    BY <1>0, <2>1, <2>2, <2>3, <2>4
  <2> QED BY <1>0, <2>3, <2>4, <2>5, <2>6, RowsChange
<1>11. ASSUME NEW u \in DOMAIN users, NEW role \in ROLES, NEW locked \in BOOLEAN,
              UserSetRole(u, role, locked)
       PROVE  AccountsInv'
  <2> DEFINE row == [users[u] EXCEPT !.role = role, !.locked = locked]
  <2>1. /\ row \in UserRows /\ row.owner = users[u].owner
        /\ row.tenant \in DOMAIN tenants \cup {NoId}
    BY <1>0 DEF UserRows, AllRoles
  <2>2. users' = [users EXCEPT ![u] = row]
    BY <1>0, <1>11 DEF UserSetRole
  <2>3. UNCHANGED <<cookie, flight, tenants, mappings, defaultRole>>
    BY <1>11 DEF UserSetRole
  <2> HIDE DEF row
  <2> QED BY <1>8, <2>1, <2>2, <2>3
<1>12. ASSUME NEW u \in DOMAIN users, UserPasswd(u) PROVE AccountsInv'
  <2> DEFINE row == [users[u] EXCEPT !.password = TRUE]
  <2>1. /\ row \in UserRows /\ row.owner = users[u].owner
        /\ row.tenant \in DOMAIN tenants \cup {NoId}
    BY <1>0 DEF UserRows
  <2>2. users' = [users EXCEPT ![u] = row]
    BY <1>0, <1>12 DEF UserPasswd
  <2>3. UNCHANGED <<cookie, flight, tenants, mappings, defaultRole>>
    BY <1>12 DEF UserPasswd
  <2> HIDE DEF row
  <2> QED BY <1>8, <2>1, <2>2, <2>3
<1>13. ASSUME NEW b \in Browsers, NEW g \in Groups, Regroup(b, g) PROVE AccountsInv'
  BY <1>13 DEF Regroup, AccountsInv, Shapes, SessionsOwn, TenantsKnown
<1>14. CASE Restart
  <2>1. mappings' \in Seq(MappingRows(tenants))
    BY <1>14, LegacyRows DEF Restart, AccountsInv, TenantsKnown
  <2> QED BY <1>4, <1>14, <2>1 DEF Restart
<1> QED BY <1>2, <1>3, <1>5, <1>6, <1>7, <1>9, <1>10, <1>11, <1>12, <1>13, <1>14
     DEF AdminNext, TenantCreate, TenantCreateCli

----------------------------------------------------------------------------
(* Who changes an account's access *)

\* The body of ChangesEntitled for account u.
Entitled(u) ==
  LET a == audit'.actor
      new == users'[u]
  IN  /\ audit'.target = u
      /\ \/ users[a].role = "platform_admin" /\ audit'.action = "user.set_role"
         \/ /\ users[a].role = "tenant_admin" /\ audit'.action = "user.set_role"
            /\ users[a].tenant = users[u].tenant /\ MayEnter(a)
            /\ new.tenant = users[u].tenant /\ new.role # "platform_admin"
         \/ /\ a = u /\ audit'.action = "user.set_role"
            /\ new.tenant = users[u].tenant /\ new.role # "platform_admin"
         \/ /\ a = u /\ audit'.action = "auth.login.okta"
            /\ ~ users[u].locked /\ new.role = "viewer"

\* Each step that changes an account's access is one its audit row accounts for.
LEMMA EntitledStep ==
  ASSUME AccountsInv, [Next]_vars, NEW w \in DOMAIN users, Access(users'[w]) # Access(users[w])
  PROVE  Entitled(w)
<1>0. users \in [DOMAIN users -> UserRows] /\ Shapes
  BY DEF AccountsInv, Shapes
<1>1. users'[w] # users[w]
  OBVIOUS
<1>2. ASSUME NEW b \in Browsers, NEW name \in Browsers, OktaSignsIn(b, name) PROVE Entitled(w)
  <2>1. PICK u \in DOMAIN users' : SignsInTo(b, u)
    BY <1>2, SignInWrites
  <2>2. w = u
    BY <1>1, <2>1 DEF SignsInTo
  <2>3. ~ users[w].locked /\ users'[w].role = "viewer"
    BY <2>1, <2>2 DEF SignsInTo
  <2>4. audit'.actor = w /\ audit'.target = w /\ audit'.action = "auth.login.okta"
    BY <2>1, <2>2 DEF SignsInTo
  <2> QED BY <2>3, <2>4 DEF Entitled
<1>3. ASSUME NEW b \in Browsers, NEW u \in DOMAIN users, NEW role \in AllRoles,
             NEW t \in TenantIds \cup {NoId}, MemberSetRole(b, u, role, t)
      PROVE  Entitled(w)
  <2> DEFINE a == CurrentUser(cookie[b])
  <2>1. /\ IsAdmin(a) /\ MayAssign(a, u, role, t)
        /\ audit' = [action |-> "user.set_role", actor |-> a, target |-> u]
    BY <1>3 DEF MemberSetRole
  <2>2. w = u
    BY <1>0, <1>1, <1>3 DEF MemberSetRole
  <2>3. a \in DOMAIN users /\ MayEnter(a)
    BY <2>1, AdminKnown
  <2> HIDE DEF a
  <2>4. audit'.actor = a /\ audit'.target = w /\ audit'.action = "user.set_role"
    BY <2>1, <2>2
  <2>5. CASE users[a].role = "platform_admin"
    BY <2>4, <2>5 DEF Entitled
  <2>6. CASE users[a].role # "platform_admin"
    <3>1. users[a].role = "tenant_admin" /\ ~ IsPlatformAdmin(a)
      BY <2>1, <2>6 DEF IsAdmin, IsPlatformAdmin
    <3>2. t = NoId /\ users[u].tenant = users[a].tenant /\ role \in ROLES
      BY <2>1, <3>1 DEF MayAssign
    <3>3. users'[u].tenant = users[u].tenant /\ users'[u].role = role
      <4>1. users[u] \in UserRows /\ role # "platform_admin"
        BY <1>0, <3>2 DEF ROLES
      <4> QED BY <1>0, <1>3, <3>2, <4>1 DEF MemberSetRole, UserRows
    <3> QED BY <2>2, <2>3, <2>4, <3>1, <3>2, <3>3 DEF Entitled, ROLES
  <2> QED BY <2>5, <2>6
<1>4. ASSUME NEW b \in Browsers, NEW name \in Browsers, NEW role \in AllRoles,
             NEW t \in TenantIds \cup {NoId}, UserCreate(b, name, role, t)
      PROVE  FALSE
  <2> DEFINE row == LocalUser(b, name, role, t)
  <2>1. t \in TenantIds \cup {NoId} /\ AddUser(row)
    BY <1>4 DEF UserCreate
  <2>2. row \in UserRows
    <3>1. <<name>> \in Seq(Browsers)
      OBVIOUS
    <3> QED BY <3>1 DEF LocalUser, UserRows
  <2> HIDE DEF row
  <2> QED BY <1>0, <1>1, <2>1, <2>2, AddUserEffect
<1>5. ASSUME NEW u \in DOMAIN users, NEW role \in ROLES, NEW locked \in BOOLEAN,
             UserSetRole(u, role, locked)
      PROVE  Entitled(w)
  <2>1. w = u
    BY <1>0, <1>1, <1>5 DEF UserSetRole
  <2>2. users'[u].tenant = users[u].tenant /\ users'[u].role = role
    BY <1>0, <1>5 DEF UserSetRole, UserRows
  <2>3. audit'.actor = u /\ audit'.target = u /\ audit'.action = "user.set_role"
    BY <1>5 DEF UserSetRole
  <2> QED BY <2>1, <2>2, <2>3 DEF Entitled, ROLES
<1>6. ASSUME NEW u \in DOMAIN users, UserPasswd(u) PROVE FALSE
  <2>1. users[w] \in UserRows /\ users[u] \in UserRows
    BY <1>0
  <2>2. users'[w] = users[w] \/ users'[w] = [users[w] EXCEPT !.password = TRUE]
    BY <1>0, <1>6 DEF UserPasswd
  <2>3. Access(users'[w]) = Access(users[w])
    BY <2>1, <2>2 DEF Access, UserRows
  <2> QED BY <2>3
<1>7. CASE UNCHANGED users
  BY <1>1, <1>7
<1>8. SessionNext => UNCHANGED users \/ \E b, name \in Browsers : OktaSignsIn(b, name)
  BY DEF SessionNext, LoginSubmit, Logout, SetActiveTenant, PageBegins, PageEnds, OktaLogin,
         OktaLoginRedirects, OktaFails, OktaDenied, OktaCallback, SessionsOnly
<1>9. AdminNext =>
        \/ UNCHANGED users
        \/ \E b \in Browsers, u \in DOMAIN users, role \in AllRoles, t \in TenantIds \cup {NoId} :
             MemberSetRole(b, u, role, t)
        \/ \E b, name \in Browsers, role \in AllRoles, t \in TenantIds \cup {NoId} :
             UserCreate(b, name, role, t)
        \/ \E u \in DOMAIN users, role \in ROLES, locked \in BOOLEAN : UserSetRole(u, role, locked)
        \/ \E u \in DOMAIN users : UserPasswd(u)
  BY DEF AdminNext, TenantCreate, TenantCreateCli, AddTenant, TenantToggle, RbacMappingSave,
         RbacMappingDelete, RbacDefaultSave, Regroup, Restart
<1> QED BY <1>2, <1>3, <1>4, <1>5, <1>6, <1>7, <1>8, <1>9 DEF Next, vars

----------------------------------------------------------------------------
(* The theorems *)

\* The installation starts with one or two accounts, nobody signed in.
LEMMA AccountsInit == Init => AccountsInv
<1> SUFFICES ASSUME Init PROVE AccountsInv
  OBVIOUS
<1>1. \A b \in Browsers : LocalUser(b, b, "platform_admin", NoId) \in UserRows
  BY DEF LocalUser, UserRows, AllRoles
<1>2. \A b \in Browsers : LocalUser(b, b, "tenant_admin", DEFAULT_TENANT) \in UserRows
  BY AccountsAssumption DEF LocalUser, UserRows, AllRoles, ROLES
<1>3. /\ tenants \in [DOMAIN tenants -> BOOLEAN] /\ DOMAIN tenants \subseteq TenantIds
      /\ DEFAULT_TENANT \in DOMAIN tenants
  BY AccountsAssumption DEF Init
<1>4. PICK b, c \in Browsers :
         \/ users = <<LocalUser(b, b, "platform_admin", NoId)>>
         \/ users = <<LocalUser(b, b, "platform_admin", NoId),
                      LocalUser(c, c, "tenant_admin", DEFAULT_TENANT)>>
  BY DEF Init
<1>5. \E n \in 1 .. 2 : users \in [1 .. n -> UserRows]
  BY <1>1, <1>2, <1>4
<1>6. \A u \in DOMAIN users : users[u].tenant \in {NoId, DEFAULT_TENANT}
  <2>1. CASE users = <<LocalUser(b, b, "platform_admin", NoId)>>
    BY <2>1 DEF LocalUser
  <2>2. CASE users = <<LocalUser(b, b, "platform_admin", NoId),
                       LocalUser(c, c, "tenant_admin", DEFAULT_TENANT)>>
    <3>1. \A u \in DOMAIN users : u = 1 \/ u = 2
      BY <2>2
    <3>2. users[1].tenant = NoId /\ users[2].tenant = DEFAULT_TENANT
      BY <2>2 DEF LocalUser
    <3> QED BY <3>1, <3>2
  <2> QED BY <1>4, <2>1, <2>2
<1>7. NoCookie \in Cookies /\ \A b1 \in Browsers : Own(b1, NoCookie, users, tenants)
  BY DEF NoCookie, Cookies, Own
<1>8. Shapes
  <2>1. PICK n \in 1 .. 2 : users \in [1 .. n -> UserRows]
    BY <1>5
  <2>2. DOMAIN users = 1 .. n /\ n \in Nat /\ DOMAIN users \subseteq UserIds
    BY <2>1, AccountsAssumption
  <2>3. users \in [DOMAIN users -> UserRows]
    BY <2>1, <2>2
  <2>4. defaultRole \in {"none", "viewer"} /\ cookie \in [Browsers -> Cookies]
        /\ flight \in [Browsers -> Flights \cup {NoId}]
    BY <1>7 DEF Init
  <2> QED BY <1>3, <2>2, <2>3, <2>4 DEF Shapes
<1>9. SessionsOwn
  BY <1>7 DEF Init, SessionsOwn
<1>10. TenantsKnown
  BY <1>3, <1>6, <1>8, LegacyRows DEF Init, TenantsKnown
<1> QED BY <1>8, <1>9, <1>10 DEF AccountsInv

\* Accounts, mappings and all sessions, also those of requests in flight, fit
\* together for ever.
THEOREM AccountsInvariant == Spec => []AccountsInv
<1>1. AccountsInv /\ [Next]_vars => AccountsInv'
  <2> SUFFICES ASSUME AccountsInv, [Next]_vars PROVE AccountsInv'
    OBVIOUS
  <2>1. CASE SessionNext
    BY <2>1, SessionStep, SignInStep DEF SessionNext
  <2>2. CASE AdminNext
    BY <2>2, AdminStep
  <2>3. CASE UNCHANGED vars
    BY <2>3 DEF vars, AccountsInv, Shapes, SessionsOwn, TenantsKnown
  <2> QED BY <2>1, <2>2, <2>3 DEF Next
<1> QED BY AccountsInit, <1>1, PTL DEF Spec

\* What a cookie names exists and belongs to the person using the browser, whatever
\* a late response brings back.
THEOREM SessionsAreOwn == Spec => []SessionsSound
<1>1. AccountsInv => SessionsSound
  <2> SUFFICES ASSUME AccountsInv PROVE SessionsSound
    OBVIOUS
  <2>1. DOMAIN users = 1 .. Cardinality(DOMAIN users)
    <3>1. PICK n \in Nat : DOMAIN users = 1 .. n
      BY DEF AccountsInv, Shapes
    <3> QED BY <3>1, FS_Interval
  <2>2. \A u \in DOMAIN users : users[u].owner \in Browsers /\ users[u].role \in AllRoles
    BY DEF AccountsInv, Shapes, UserRows
  <2>3. \A i \in DOMAIN mappings : mappings[i].tenant \in DOMAIN tenants
    <3>1. mappings \in Seq(MappingRows(tenants))
      BY DEF AccountsInv, TenantsKnown
    <3>2. mappings \in [1 .. Len(mappings) -> MappingRows(tenants)]
      BY <3>1, LenProperties
    <3> QED BY <3>2 DEF MappingRows
  <2>4. \A b \in Browsers : cookie[b].state \in BOOLEAN
    BY DEF AccountsInv, Shapes, Cookies
  <2>5. TypeOK
    BY <2>1, <2>2, <2>3, <2>4
       DEF AccountsInv, Shapes, SessionsOwn, Own, TenantsKnown, TypeOK
  <2>6. SignedInAsSelf
    BY DEF AccountsInv, SessionsOwn, Own, SignedInAsSelf
  <2> QED BY <2>5, <2>6 DEF SessionsSound
<1> QED BY AccountsInvariant, <1>1, PTL

\* resolve_tenant_id gives None to nobody but a platform admin.
THEOREM RegularsArePinned == Spec => []RegularPinned
<1>1. AccountsInv => RegularPinned
  BY AccountsAssumption
     DEF AccountsInv, Shapes, RegularPinned, Scope, CurrentUser, MayEnter, IsPlatformAdmin
<1> QED BY AccountsInvariant, <1>1, PTL

\* No account's role, tenant or pin changes but through a platform admin, an admin
\* of its own tenant, the command line, or a sign-in that gives at most viewer.
THEOREM OnlyEntitledChanges == Spec => ChangesEntitled
<1>1. AccountsInv /\ [Next]_vars =>
        [\A u \in DOMAIN users : Access(users'[u]) # Access(users[u]) => Entitled(u)]_vars
  BY EntitledStep
<1> QED BY AccountsInvariant, <1>1, PTL DEF Spec, ChangesEntitled, Entitled
=============================================================================
