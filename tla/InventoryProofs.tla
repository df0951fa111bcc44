--------------------------- MODULE InventoryProofs ---------------------------
(***************************************************************************)
(* For every number of tenants, names, rows and users, and whichever of    *)
(* the three doors is used: rows stay within their tenant, names, paths    *)
(* and slugs are found once, jump chains are one hop long, an automatic    *)
(* secret path belongs to one tenant and a token to the source it was      *)
(* stored for.                                                             *)
(***************************************************************************)
EXTENDS Inventory, FiniteSetTheorems, NaturalsInduction, WellFoundedInduction, TLAPS

\* The ids of a table have an upper bound: MAX(id) exists, and the table is finite.
Bounded(table) == \E n \in Nat : \A x \in DOMAIN table : x <= n

UnitRow(r) ==
  /\ DOMAIN r = {"tenant", "name", "slug", "tier", "parent"}
  /\ r.tenant \in Tenants /\ r.name \in Names /\ r.tier \in Tiers

UnitsTyped ==
  /\ DOMAIN units \subseteq UnitIds /\ Bounded(units)
  /\ asked \in UnitIds \cup {NoId}
  /\ \A u \in DOMAIN units : UnitRow(units[u])

\* What create_unit and update_unit check: siblings differ in their lower-case names.
SiblingsNamed ==
  \A u, v \in DOMAIN units :
    /\ units[u].tenant = units[v].tenant
    /\ units[u].parent = units[v].parent
    /\ Lower[units[u].name] = Lower[units[v].name]
    => u = v

TreeInv == UnitsTyped /\ TreeSound /\ SiblingsNamed /\ SlugsDistinct

\* A path of the backend.
IsPath(p) == DOMAIN p = {"area", "of", "slug", "user"}

\* The path of a profile is one of the operator's, or lies in the area of the
\* profile's own tenant.
CredRow(r) ==
  /\ DOMAIN r = {"tenant", "name", "kind", "ref"}
  /\ r.tenant \in Tenants /\ r.name \in CredNames /\ r.kind \in Kinds
  /\ IsPath(r.ref)
  /\ \/ r.ref \in CustomRefs
     \/ r.ref.area = "credentials" /\ r.ref.of = r.tenant

SourceRow(r) == DOMAIN r = {"tenant", "token"} /\ r.tenant \in Tenants /\ r.token \in BOOLEAN

\* A secret in the automatic area was written for the tenant its path names.
SecretRow(p, r) ==
  /\ DOMAIN r = {"tenant", "source"}
  /\ r.tenant \in Tenants
  /\ r.source \in DOMAIN sources \cup {NoId}
  /\ p.area = "credentials" => r.tenant = p.of

CredsInv ==
  /\ DOMAIN creds \subseteq CredIds /\ Bounded(creds)
  /\ \A c \in DOMAIN creds : CredRow(creds[c])

SourcesInv ==
  /\ DOMAIN sources \subseteq SourceIds /\ Bounded(sources)
  /\ \A s \in DOMAIN sources : SourceRow(sources[s])

SecretsInv ==
  /\ \A p \in DOMAIN secrets : SecretRow(p, secrets[p])
  /\ TokenIsOwn

VaultInv == CredsInv /\ SourcesInv /\ SecretsInv

HostShape(r) ==
  /\ DOMAIN r = {"tenant", "box", "jump", "cred", "ft", "unit"}
  /\ r.tenant \in Tenants /\ r.box \in BOOLEAN

HostInv ==
  /\ DOMAIN hosts \subseteq HostIds /\ Bounded(hosts)
  /\ \A h \in DOMAIN hosts : HostShape(hosts[h])
  /\ HostsClosed
  /\ JumpsDirect

PipeInv ==
  /\ DOMAIN pipes \subseteq PipeIds /\ Bounded(pipes)
  /\ \A p \in DOMAIN pipes :
       /\ DOMAIN pipes[p] = {"tenant", "cred", "unit"}
       /\ Exists(creds, pipes[p].cred) /\ Exists(units, pipes[p].unit)

PayloadInv ==
  /\ DOMAIN payloads \subseteq PayloadIds /\ Bounded(payloads)
  /\ \A l \in DOMAIN payloads :
       /\ DOMAIN payloads[l] = {"pipe", "name"}
       /\ payloads[l].pipe \in DOMAIN pipes
       /\ IsSequence(payloads[l].name)
  /\ PayloadsDistinct

\* The inductive invariant.
InventoryInv == TreeInv /\ VaultInv /\ HostInv /\ PipeInv /\ PayloadInv

----------------------------------------------------------------------------
(* Tables *)

\* A non-empty set of natural numbers has a least element.
LEMMA LeastNumber ==
  ASSUME NEW S \in SUBSET Nat, S # {}
  PROVE  \E m \in S : \A n \in S : m <= n
<1> DEFINE R == {ss \in Nat \X Nat : ss[1] < ss[2]}
<1>1. IsWellFoundedOn(R, Nat)
  BY NatLessThanWellFounded DEF OpToRel
<1>2. \A m, n \in Nat : n < m => <<n, m>> \in R
  OBVIOUS
<1> HIDE DEF R
<1>3. PICK m \in S : \A n \in S : ~ (<<n, m>> \in R)
  BY <1>1, WFMin
<1>4. ASSUME NEW n \in S PROVE m <= n
  <2>1. m \in Nat /\ n \in Nat /\ ~ (n < m)
    BY <1>2, <1>3
  <2> QED BY <2>1
<1> QED BY <1>4

\* The id of a new row is past the ids in use.
LEMMA NewIdFresh ==
  ASSUME NEW table, DOMAIN table \subseteq Nat, Bounded(table)
  PROVE  /\ NewId(table) \in Nat
         /\ \A x \in DOMAIN table : x < NewId(table)
<1>1. CASE DOMAIN table = {}
  BY <1>1 DEF NewId
<1>2. CASE DOMAIN table # {}
  <2> DEFINE bounds == {n \in Nat : \A x \in DOMAIN table : x <= n}
  <2>1. bounds \in SUBSET Nat /\ bounds # {}
    BY DEF Bounded
  <2>2. PICK m \in bounds : \A n \in bounds : m <= n
    BY <2>1, LeastNumber
  <2>3. m \in DOMAIN table
    <3> SUFFICES ASSUME m \notin DOMAIN table PROVE FALSE
      OBVIOUS
    <3>1. PICK x : x \in DOMAIN table
      BY <1>2
    <3>2. \A y \in DOMAIN table : y \in Nat /\ y <= m /\ y # m
      BY <2>2
    <3>3. m \in Nat /\ m # 0
      BY <2>2, <3>1, <3>2
    <3>4. m - 1 \in bounds
      BY <3>2, <3>3
    <3>5. m <= m - 1
      BY <2>2, <3>4
    <3> QED BY <3>3, <3>5
  <2>4. \E k \in DOMAIN table : \A x \in DOMAIN table : x <= k
    BY <2>2, <2>3
  <2> DEFINE k == CHOOSE k \in DOMAIN table : \A x \in DOMAIN table : x <= k
  <2>5. k \in DOMAIN table /\ \A x \in DOMAIN table : x <= k
    BY <2>4
  <2>6. NewId(table) = 1 + k
    BY <1>2 DEF NewId
  <2> HIDE DEF k
  <2> QED BY <2>5, <2>6
<1> QED BY <1>1, <1>2

\* An INSERT under a new id leaves the other rows alone.
LEMMA Inserted ==
  ASSUME NEW table, DOMAIN table \subseteq Nat, Bounded(table), NEW row,
         NEW table2, table2 = Put(table, NewId(table), row)
  PROVE  /\ NewId(table) \notin DOMAIN table
         /\ DOMAIN table2 = DOMAIN table \cup {NewId(table)}
         /\ table2[NewId(table)] = row
         /\ \A x \in DOMAIN table : table2[x] = table[x]
         /\ Bounded(table2)
<1>1. NewId(table) \in Nat /\ \A x \in DOMAIN table : x < NewId(table)
  BY NewIdFresh
<1>2. NewId(table) \notin DOMAIN table
  BY <1>1
<1>3. /\ DOMAIN table2 = DOMAIN table \cup {NewId(table)}
      /\ table2[NewId(table)] = row
      /\ \A x \in DOMAIN table : table2[x] = table[x]
  BY <1>2 DEF Put
<1>4. \A x \in DOMAIN table2 : x <= NewId(table)
  BY <1>1, <1>3
<1> QED BY <1>1, <1>2, <1>3, <1>4 DEF Bounded

\* A DELETE leaves the other rows alone.
LEMMA Deleted ==
  ASSUME NEW table, NEW ids
  PROVE  /\ DOMAIN Without(table, ids) = DOMAIN table \ ids
         /\ \A x \in DOMAIN table \ ids : Without(table, ids)[x] = table[x]
         /\ Bounded(table) => Bounded(Without(table, ids))
BY DEF Without, Restrict, Bounded

\* The rows of a table are finitely many.
LEMMA TableFinite ==
  ASSUME NEW table, DOMAIN table \subseteq Nat, Bounded(table)
  PROVE  IsFiniteSet(DOMAIN table) /\ Cardinality(DOMAIN table) \in Nat
<1>1. PICK n \in Nat : \A x \in DOMAIN table : x <= n
  BY DEF Bounded
<1>2. DOMAIN table \subseteq 0..n
  BY <1>1
<1>3. IsFiniteSet(0..n)
  BY FS_Interval
<1>4. IsFiniteSet(DOMAIN table)
  BY <1>2, <1>3, FS_Subset
<1> QED BY <1>4, FS_CardinalityType

\* What is appended to a sequence can be told from the result.
LEMMA SuffixTells ==
  ASSUME NEW s, IsSequence(s), NEW i, NEW j, Append(s, i) = Append(s, j)
  PROVE  i = j
<1> DEFINE S == {s[k] : k \in 1..Len(s)} \cup {i, j}
<1>1. s \in Seq(S)
  <2>1. Len(s) \in Nat /\ s \in [1..Len(s) -> S]
    BY DEF IsSequence
  <2> QED BY <2>1
<1>2. i \in S /\ j \in S
  OBVIOUS
<1> HIDE DEF S
<1>3. Append(s, i)[Len(s) + 1] = i /\ Append(s, j)[Len(s) + 1] = j
  BY <1>1, <1>2
<1> QED BY <1>3

\* A sequence stays one when it is extended, and a name alone is one.
LEMMA SequencesGrow ==
  ASSUME NEW s, IsSequence(s), NEW e
  PROVE  IsSequence(Append(s, e)) /\ IsSequence(<<e>>)
<1> DEFINE S == {s[k] : k \in 1..Len(s)} \cup {e}
<1>1. s \in Seq(S)
  <2>1. Len(s) \in Nat /\ s \in [1..Len(s) -> S]
    BY DEF IsSequence
  <2> QED BY <2>1
<1>2. Append(s, e) \in Seq(S) /\ <<e>> \in Seq(S)
  BY <1>1
<1> HIDE DEF S
<1>3. ASSUME NEW q \in Seq(S) PROVE IsSequence(q)
  <2>1. Len(q) \in Nat /\ DOMAIN q = 1..Len(q)
    OBVIOUS
  <2>2. q \in [1..Len(q) -> S]
    BY <2>1
  <2> QED BY <2>1, <2>2 DEF IsSequence
<1> QED BY <1>2, <1>3

\* The loops of _unique_slug and of the payload copy end: among one more suffixes
\* than there are names taken, one is free, and so there is a first.
LEMMA FirstFree ==
  ASSUME NEW base, IsSequence(base), NEW taken, IsFiniteSet(taken),
         NEW a \in Nat, NEW b \in Nat, b - a >= Cardinality(taken)
  PROVE  \E i \in a..b : /\ Append(base, i) \notin taken
                         /\ \A j \in a..(i - 1) : Append(base, j) \in taken
<1>0. Cardinality(taken) \in Nat
  BY FS_CardinalityType
<1> DEFINE f == [i \in a..b |-> Append(base, i)]
           free == {i \in a..b : Append(base, i) \notin taken}
<1>1. free # {}
  <2> SUFFICES ASSUME free = {} PROVE FALSE
    OBVIOUS
  <2>1. f \in [a..b -> taken]
    OBVIOUS
  <2>2. IsFiniteSet(a..b) /\ Cardinality(taken) < Cardinality(a..b)
    <3>1. a \in Int /\ b \in Int /\ ~ (a > b) /\ Cardinality(taken) < b - a + 1
      BY <1>0
    <3>2. IsFiniteSet(a..b) /\ Cardinality(a..b) = b - a + 1
      BY <3>1, FS_Interval
    <3> QED BY <3>1, <3>2
  <2>3. \E x, y \in a..b : x # y /\ f[x] = f[y]
    <3> HIDE DEF f
    <3> QED BY <1>0, <2>1, <2>2, FS_PigeonHole
  <2> QED BY <2>3, SuffixTells
<1>2. free \in SUBSET Nat
  OBVIOUS
<1>3. PICK i \in free : \A j \in free : i <= j
  BY <1>1, <1>2, LeastNumber
<1> QED BY <1>3

----------------------------------------------------------------------------
(* The tree *)

\* The slug _unique_slug returns is not a sibling's.
LEMMA UniqueSlugFree ==
  ASSUME UnitsTyped, NEW p, NEW n \in Names, NEW t, NEW except
  PROVE  \A u \in ChildrenOf(p, t) \ {except} : units[u].slug # UniqueSlug(p, SlugOf[n], t, except)
<1> DEFINE base == SlugOf[n]
           kids == ChildrenOf(p, t) \ {except}
           taken == {units[u].slug : u \in kids}
           Free(i) == Append(base, i) \notin taken
           first == CHOOSE i \in 2..(Cardinality(taken) + 2) :
                      Free(i) /\ \A j \in 2..(i - 1) : ~Free(j)
<1>1. IsFiniteSet(kids)
  <2>1. DOMAIN units \subseteq Nat /\ Bounded(units) /\ kids \subseteq DOMAIN units
    BY OrgTreeAssumption DEF UnitsTyped, ChildrenOf
  <2>2. IsFiniteSet(DOMAIN units)
    BY <2>1, TableFinite
  <2> QED BY <2>1, <2>2, FS_Subset
<1>2. IsFiniteSet(taken) /\ Cardinality(taken) \in Nat
  <2> DEFINE g == [u \in kids |-> units[u].slug]
  <2>1. g \in Surjection(kids, taken)
    BY DEF Surjection
  <2>2. IsFiniteSet(taken)
    <3> HIDE DEF g, kids, taken
    <3> QED BY <1>1, <2>1, FS_Surjection
  <2> QED BY <2>2, FS_CardinalityType
<1>3. IsSequence(base)
  BY OrgTreeAssumption
<1> HIDE DEF base, kids, taken
<1>4. \E i \in 2..(Cardinality(taken) + 2) : Free(i) /\ \A j \in 2..(i - 1) : ~Free(j)
  <2>1. 2 \in Nat /\ Cardinality(taken) + 2 \in Nat
        /\ (Cardinality(taken) + 2) - 2 >= Cardinality(taken)
    BY <1>2
  <2> QED BY <1>2, <1>3, <2>1, FirstFree
<1>5. Append(base, first) \notin taken
  BY <1>4
<1>6. UniqueSlug(p, SlugOf[n], t, except) = IF base \in taken THEN Append(base, first) ELSE base
  BY DEF UniqueSlug, base, kids, taken
<1>7. UniqueSlug(p, SlugOf[n], t, except) \notin taken
  <2> HIDE DEF first
  <2> QED BY <1>5, <1>6
<1> QED BY <1>7 DEF kids, taken

\* A step of the tree never moves a node to another tenant.
UnitsStay == \A u \in DOMAIN units \cap DOMAIN units' : units'[u].tenant = units[u].tenant

\* A row hangs where its tier belongs.
PlacedRow(table, r) ==
  IF ParentTier[r.tier] = "" THEN r.parent = NoId
  ELSE /\ r.parent \in DOMAIN table
       /\ table[r.parent].tenant = r.tenant
       /\ table[r.parent].tier = ParentTier[r.tier]

\* TreeSound says so of every row, before a step and after it.
LEMMA TreeRows ==
  /\ TreeSound <=> \A u \in DOMAIN units : PlacedRow(units, units[u])
  /\ TreeSound' <=> \A u \in DOMAIN units' : PlacedRow(units', units'[u])
BY DEF TreeSound, Placed, PlacedRow

\* create_unit.
LEMMA CreateUnitKeeps ==
  ASSUME TreeInv, NEW t \in Tenants, NEW n \in Names, NEW tier \in Tiers, NEW p,
         CreateUnit(t, n, tier, p)
  PROVE  TreeInv' /\ UnitsStay
<1> DEFINE id == NewId(units)
           row == [tenant |-> t, name |-> n, tier |-> tier, parent |-> p,
                   slug |-> UniqueSlug(p, SlugOf[n], t, NoId)]
<1>0. UnitsTyped /\ TreeSound /\ SiblingsNamed /\ SlugsDistinct
  BY DEF TreeInv
<1>1. /\ id \in UnitIds /\ Placed(tier, p, t) /\ NameFree(p, n, t, NoId)
      /\ units' = Put(units, id, row) /\ asked' = asked
  BY DEF CreateUnit
<1>2. DOMAIN units \subseteq Nat /\ Bounded(units)
  BY <1>0, OrgTreeAssumption DEF UnitsTyped
<1>3. /\ row.tenant = t /\ row.name = n /\ row.tier = tier /\ row.parent = p
      /\ row.slug = UniqueSlug(p, SlugOf[n], t, NoId) /\ UnitRow(row)
  BY DEF UnitRow
<1>4. \A u \in ChildrenOf(p, t) \ {NoId} : units[u].slug # row.slug
  BY <1>0, <1>3, UniqueSlugFree
<1> HIDE DEF id, row
<1>5. /\ id \notin DOMAIN units
      /\ DOMAIN units' = DOMAIN units \cup {id}
      /\ units'[id] = row
      /\ \A x \in DOMAIN units : units'[x] = units[x]
      /\ Bounded(units')
  BY <1>1, <1>2, Inserted DEF id
<1>6. UnitsTyped'
  <2>1. DOMAIN units' \subseteq UnitIds /\ asked' \in UnitIds \cup {NoId}
    BY <1>0, <1>1, <1>5 DEF UnitsTyped
  <2>2. \A u \in DOMAIN units' : UnitRow(units'[u])
    BY <1>0, <1>3, <1>5 DEF UnitsTyped
  <2> QED BY <1>5, <2>1, <2>2 DEF UnitsTyped, Bounded
<1>7. \A u \in DOMAIN units : u # NoId
  BY <1>0, OrgTreeAssumption DEF UnitsTyped
<1>8. TreeSound'
  <2>1. PlacedRow(units', row)
    BY <1>1, <1>3, <1>5 DEF Placed, PlacedRow
  <2>2. ASSUME NEW u \in DOMAIN units PROVE PlacedRow(units', units[u])
    <3>1. PlacedRow(units, units[u])
      BY <1>0, TreeRows
    <3> QED BY <1>5, <3>1 DEF PlacedRow
  <2>3. \A u \in DOMAIN units' : PlacedRow(units', units'[u])
    BY <1>5, <2>1, <2>2
  <2> QED BY <2>3, TreeRows
<1>9. SiblingsNamed'
  <2>1. \A u \in DOMAIN units : units[u].tenant = t /\ units[u].parent = p
          => Lower[units[u].name] # Lower[n]
    BY <1>1, <1>7 DEF NameFree, ChildrenOf
  <2> QED BY <1>0, <1>3, <1>5, <2>1 DEF SiblingsNamed
<1>10. SlugsDistinct'
  <2>1. \A u \in DOMAIN units : units[u].tenant = t /\ units[u].parent = p
          => units[u].slug # row.slug
    BY <1>4, <1>7 DEF ChildrenOf
  <2> QED BY <1>0, <1>3, <1>5, <2>1 DEF SlugsDistinct
<1>11. UnitsStay
  BY <1>5 DEF UnitsStay
<1> QED BY <1>6, <1>8, <1>9, <1>10, <1>11 DEF TreeInv

\* update_unit.
LEMMA UpdateUnitKeeps ==
  ASSUME TreeInv, NEW u \in DOMAIN units, NEW n \in Names, UpdateUnit(u, n)
  PROVE  TreeInv' /\ UnitsStay
<1> DEFINE row == units[u]
           slug == IF Lower[n] = Lower[row.name] THEN row.slug
                   ELSE UniqueSlug(row.parent, SlugOf[n], row.tenant, u)
<1>0. UnitsTyped /\ TreeSound /\ SiblingsNamed /\ SlugsDistinct
  BY DEF TreeInv
<1>1. /\ NameFree(row.parent, n, row.tenant, u)
      /\ units' = [units EXCEPT ![u].name = n, ![u].slug = slug]
      /\ asked' = asked
  BY DEF UpdateUnit
<1>2. \A v \in ChildrenOf(row.parent, row.tenant) \ {u} : units[v].slug # slug
  <2>1. CASE Lower[n] = Lower[row.name]
    BY <1>0, <2>1 DEF ChildrenOf, SlugsDistinct
  <2>2. CASE Lower[n] # Lower[row.name]
    BY <1>0, <2>2, UniqueSlugFree
  <2> QED BY <2>1, <2>2
<1> HIDE DEF slug
<1>3. UnitRow(row)
  BY <1>0 DEF UnitsTyped
<1>4. /\ DOMAIN units' = DOMAIN units
      /\ \A v \in DOMAIN units \ {u} : units'[v] = units[v]
      /\ units'[u].name = n /\ units'[u].slug = slug
      /\ units'[u].tenant = row.tenant /\ units'[u].parent = row.parent
      /\ units'[u].tier = row.tier /\ DOMAIN units'[u] = DOMAIN row
  BY <1>1, <1>3 DEF UnitRow
<1>5. UnitsTyped'
  <2>1. \A v \in DOMAIN units' : UnitRow(units'[v])
    BY <1>0, <1>3, <1>4 DEF UnitsTyped, UnitRow
  <2> QED BY <1>0, <1>1, <1>4, <2>1 DEF UnitsTyped, Bounded
<1>6. \A v \in DOMAIN units : /\ units'[v].tenant = units[v].tenant
                              /\ units'[v].parent = units[v].parent
                              /\ units'[v].tier = units[v].tier
  BY <1>4
<1>7. TreeSound'
  <2>1. ASSUME NEW v \in DOMAIN units' PROVE PlacedRow(units', units'[v])
    <3>1. PlacedRow(units, units[v])
      BY <1>0, <1>4, TreeRows
    <3> QED BY <1>4, <1>6, <3>1 DEF PlacedRow
  <2> QED BY <2>1, TreeRows
<1>8. \A v \in DOMAIN units \ {u} :
        units[v].tenant = row.tenant /\ units[v].parent = row.parent
          => Lower[units[v].name] # Lower[n] /\ units[v].slug # slug
  BY <1>1, <1>2 DEF NameFree, ChildrenOf
<1>9. SiblingsNamed'
  BY <1>0, <1>4, <1>6, <1>8 DEF SiblingsNamed
<1>10. SlugsDistinct'
  BY <1>0, <1>4, <1>6, <1>8 DEF SlugsDistinct
<1>11. UnitsStay
  BY <1>6 DEF UnitsStay
<1> QED BY <1>5, <1>7, <1>9, <1>10, <1>11 DEF TreeInv

\* ON DELETE CASCADE takes the whole subtree: below a node there are two tiers.
LEMMA RemoveUnitKeeps ==
  ASSUME TreeInv, NEW u \in DOMAIN units, RemoveUnit(u), asked' \in UnitIds \cup {NoId}
  PROVE  TreeInv' /\ UnitsStay
<1>0. UnitsTyped /\ TreeSound /\ SiblingsNamed /\ SlugsDistinct
  BY DEF TreeInv
<1>1. /\ DOMAIN units' = DOMAIN units \ Subtree(u)
      /\ \A v \in DOMAIN units' : units'[v] = units[v]
      /\ Bounded(units')
  <2>1. units' = Without(units, Subtree(u)) /\ Bounded(units)
    BY <1>0 DEF RemoveUnit, UnitsTyped
  <2>2. /\ DOMAIN units' = DOMAIN units \ Subtree(u)
        /\ \A v \in DOMAIN units' : units'[v] = units[v]
    BY <2>1 DEF Without, Restrict
  <2> QED BY <2>1, <2>2 DEF Bounded
<1>2. UnitsTyped'
  BY <1>0, <1>1 DEF UnitsTyped
<1>3. ASSUME NEW v \in DOMAIN units', ParentTier[units[v].tier] # ""
      PROVE  units[v].parent \in DOMAIN units'
  <2>0. /\ \A x \in DOMAIN units : units[x].tier \in {"application", "environment", "unit"}
        /\ \A x \in DOMAIN units : units[x].tier = "environment" =>
             units[x].parent \in DOMAIN units /\ units[units[x].parent].tier = "application"
        /\ \A x \in DOMAIN units : units[x].tier = "unit" =>
             units[x].parent \in DOMAIN units /\ units[units[x].parent].tier = "environment"
        /\ \A x \in DOMAIN units : units[x].tier = "application" => units[x].parent = NoId
    <3>1. \A x \in DOMAIN units : units[x].tier \in Tiers /\ PlacedRow(units, units[x])
      BY <1>0, TreeRows DEF UnitsTyped, UnitRow
    <3>2. /\ ParentTier["application"] = "" /\ ParentTier["environment"] = "application"
          /\ ParentTier["unit"] = "environment"
      BY DEF ParentTier
    <3>3. \A x \in DOMAIN units : units[x].tier = "environment" =>
             units[x].parent \in DOMAIN units /\ units[units[x].parent].tier = "application"
      BY <3>1, <3>2 DEF PlacedRow
    <3>4. \A x \in DOMAIN units : units[x].tier = "unit" =>
             units[x].parent \in DOMAIN units /\ units[units[x].parent].tier = "environment"
      BY <3>1, <3>2 DEF PlacedRow
    <3>5. \A x \in DOMAIN units : units[x].tier = "application" => units[x].parent = NoId
      BY <3>1, <3>2 DEF PlacedRow
    <3> QED BY <3>1, <3>3, <3>4, <3>5 DEF Tiers
  <2>1. units[v].tier # "application" /\ v \in DOMAIN units /\ v \notin Subtree(u)
    <3>1. ParentTier["application"] = ""
      BY DEF ParentTier
    <3> QED BY <1>1, <1>3, <3>1
  <2>2. units[v].parent \in DOMAIN units
    BY <2>0, <2>1
  <2>3. NoId \notin DOMAIN units
    BY <1>0, OrgTreeAssumption DEF UnitsTyped
  <2>4. ASSUME units[v].parent \in Subtree(u) PROVE FALSE
    <3>1. units[v].parent # u /\ units[v].parent \notin Kids({u})
      BY <2>1 DEF Subtree, Kids
    <3>2. PICK w \in Kids({u}) : units[units[v].parent].parent = w
      BY <2>4, <3>1 DEF Subtree, Kids
    <3>3. w \in DOMAIN units /\ units[w].parent = u
      BY <3>2 DEF Kids
    <3> QED BY <2>0, <2>1, <2>2, <2>3, <3>2, <3>3
  <2> QED BY <1>1, <2>2, <2>4
<1>4. TreeSound'
  <2>1. ASSUME NEW v \in DOMAIN units' PROVE PlacedRow(units', units'[v])
    <3>1. PlacedRow(units, units[v])
      BY <1>0, <1>1, TreeRows
    <3> QED BY <1>1, <1>3, <3>1 DEF PlacedRow
  <2> QED BY <2>1, TreeRows
<1>5. SiblingsNamed' /\ SlugsDistinct' /\ UnitsStay
  BY <1>0, <1>1 DEF SiblingsNamed, SlugsDistinct, UnitsStay
<1> QED BY <1>2, <1>4, <1>5 DEF TreeInv

\* The steps of the tree, with the rows they unfile.
LEMMA TreeNextKeeps ==
  ASSUME TreeInv, TreeNext
  PROVE  /\ TreeInv' /\ UnitsStay
         /\ hosts' = Unfiled(hosts) /\ pipes' = Unfiled(pipes)
         /\ UNCHANGED <<vaultVars, payloads>>
<1>0. UnitsTyped
  BY DEF TreeInv
<1>1. hosts' = Unfiled(hosts) /\ pipes' = Unfiled(pipes) /\ UNCHANGED <<vaultVars, payloads>>
  BY DEF TreeNext, TreeStep
<1>2. ASSUME NEW t \in Tenants, NEW n \in Names, NEW p, NEW tier \in Tiers,
             WebCreateUnit(t, n, tier, p)
      PROVE  TreeInv' /\ UnitsStay
  BY <1>2, CreateUnitKeeps DEF WebCreateUnit
<1>3. ASSUME NEW t \in Tenants, NEW n \in Names, NEW p, ApplicationAdd(t, n, p)
      PROVE  TreeInv' /\ UnitsStay
  <2> DEFINE tier == IF p = NoId THEN "application" ELSE ChildTier[units[p].tier]
  <2>1. CreateUnit(t, n, tier, p)
    BY <1>3 DEF ApplicationAdd
  <2>2. p # NoId => units[p].tier \in {"application", "environment"}
    BY <1>0, <1>3 DEF ApplicationAdd, UnitsTyped, UnitRow, Tiers
  <2>3. tier \in Tiers
    <3>1. ChildTier["application"] = "environment" /\ ChildTier["environment"] = "unit"
      BY DEF ChildTier
    <3> QED BY <2>2, <3>1 DEF Tiers
  <2> HIDE DEF tier
  <2> QED BY <2>1, <2>3, CreateUnitKeeps
<1>4. ASSUME NEW u \in DOMAIN units, NEW n \in Names, EditUnit(u, n) \/ ApplicationRename(u, n)
      PROVE  TreeInv' /\ UnitsStay
  BY <1>4, UpdateUnitKeeps DEF EditUnit, ApplicationRename
<1>5. ASSUME NEW u \in DOMAIN units, DeleteUnit(u)
      PROVE  TreeInv' /\ UnitsStay
  <2>1. RemoveUnit(u) /\ asked' \in UnitIds \cup {NoId}
    BY <1>0, <1>5 DEF DeleteUnit, UnitsTyped
  <2> QED BY <2>1, RemoveUnitKeeps
<1>6. ASSUME units' = units, asked' \in UnitIds \cup {NoId}
      PROVE  TreeInv' /\ UnitsStay
  BY <1>6 DEF TreeInv, UnitsTyped, TreeSound, Placed, SiblingsNamed, SlugsDistinct,
              UnitsStay, Bounded
<1>7. ASSUME NEW u \in DOMAIN units, ApplicationRmAsks(u)
      PROVE  TreeInv' /\ UnitsStay
  BY <1>0, <1>6, <1>7 DEF ApplicationRmAsks, UnitsTyped
<1>8. ASSUME NEW yes, ApplicationRmAnswered(yes)
      PROVE  TreeInv' /\ UnitsStay
  <2>1. asked' = NoId /\ (units' = units \/ (asked \in DOMAIN units /\ RemoveUnit(asked)))
    BY <1>8 DEF ApplicationRmAnswered
  <2>2. asked' \in UnitIds \cup {NoId}
    BY <2>1
  <2> QED BY <1>6, <2>1, <2>2, RemoveUnitKeeps
<1>9. \/ \E t \in Tenants, n \in Names, p \in Ref(units) :
            (\E tier \in Tiers : WebCreateUnit(t, n, tier, p)) \/ ApplicationAdd(t, n, p)
      \/ \E u \in DOMAIN units :
            \/ \E n \in Names : EditUnit(u, n) \/ ApplicationRename(u, n)
            \/ DeleteUnit(u)
            \/ ApplicationRmAsks(u)
      \/ \E yes \in BOOLEAN : ApplicationRmAnswered(yes)
  BY DEF TreeNext, TreeStep
<1>10. TreeInv' /\ UnitsStay
  BY <1>2, <1>3, <1>4, <1>5, <1>7, <1>8, <1>9
<1> QED BY <1>1, <1>10

\* Equal paths are equal name by name.
LEMMA TuplesTell ==
  /\ \A a, b : <<a>> = <<b>> => a = b
  /\ \A a1, a2, b1, b2 : <<a1, a2>> = <<b1, b2>> => a1 = b1 /\ a2 = b2
  /\ \A a1, a2, a3, b1, b2, b3 :
       <<a1, a2, a3>> = <<b1, b2, b3>> => a1 = b1 /\ a2 = b2 /\ a3 = b3
OBVIOUS

\* Names distinct among siblings make paths distinct, tier by tier.
LEMMA PathsApart == TreeInv => PathsDistinct
<1> SUFFICES ASSUME TreeInv, NEW u \in DOMAIN units, NEW v \in DOMAIN units,
                    units[u].tenant = units[v].tenant, Path(u) = Path(v)
             PROVE  u = v
  BY DEF PathsDistinct
<1> DEFINE name(x) == Lower[units[x].name]
           up(x) == units[x].parent
<1>0. UnitsTyped /\ TreeSound /\ SiblingsNamed
  BY DEF TreeInv
<1>1. \A x \in DOMAIN units : units[x].tier \in Tiers /\ PlacedRow(units, units[x])
  BY <1>0, TreeRows DEF UnitsTyped, UnitRow
<1>2. /\ ParentTier["application"] = "" /\ ParentTier["environment"] = "application"
      /\ ParentTier["unit"] = "environment"
  BY DEF ParentTier
<1>3. \A x \in DOMAIN units : units[x].tier = "application" => up(x) = NoId
  BY <1>1, <1>2 DEF PlacedRow
<1>4. \A x \in DOMAIN units : units[x].tier = "environment" =>
        /\ up(x) \in DOMAIN units /\ units[up(x)].tier = "application"
        /\ units[up(x)].tenant = units[x].tenant
  <2> SUFFICES ASSUME NEW x \in DOMAIN units, units[x].tier = "environment"
               PROVE  /\ up(x) \in DOMAIN units /\ units[up(x)].tier = "application"
                      /\ units[up(x)].tenant = units[x].tenant
    OBVIOUS
  <2>1. ParentTier[units[x].tier] = "application" /\ PlacedRow(units, units[x])
    BY <1>1, <1>2
  <2> QED BY <2>1 DEF PlacedRow
<1>5. \A x \in DOMAIN units : units[x].tier = "unit" =>
        /\ up(x) \in DOMAIN units /\ units[up(x)].tier = "environment"
        /\ units[up(x)].tenant = units[x].tenant
  <2> SUFFICES ASSUME NEW x \in DOMAIN units, units[x].tier = "unit"
               PROVE  /\ up(x) \in DOMAIN units /\ units[up(x)].tier = "environment"
                      /\ units[up(x)].tenant = units[x].tenant
    OBVIOUS
  <2>1. ParentTier[units[x].tier] = "environment" /\ PlacedRow(units, units[x])
    BY <1>1, <1>2
  <2> QED BY <2>1 DEF PlacedRow
<1>6. \A x, y \in DOMAIN units :
        units[x].tenant = units[y].tenant /\ up(x) = up(y) /\ name(x) = name(y) => x = y
  BY <1>0 DEF SiblingsNamed
<1>7. \A x \in DOMAIN units :
        /\ units[x].tier = "application" => Path(x) = <<name(x)>>
        /\ units[x].tier = "environment" => Path(x) = <<name(up(x)), name(x)>>
        /\ units[x].tier = "unit" => Path(x) = <<name(up(up(x))), name(up(x)), name(x)>>
  BY DEF Path
<1>8. units[u].tier \in {"application", "environment", "unit"}
      /\ units[v].tier \in {"application", "environment", "unit"}
  BY <1>1 DEF Tiers
<1> HIDE DEF name, up
<1>9. CASE units[u].tier = "application"
  <2>1. Path(u) = <<name(u)>>
    BY <1>7, <1>9
  <2>2. units[v].tier = "application"
    <3>1. Path(v) # <<name(up(v)), name(v)>> /\ Path(v) # <<name(up(up(v))), name(up(v)), name(v)>>
      BY <2>1
    <3> QED BY <1>7, <1>8, <3>1
  <2>3. Path(v) = <<name(v)>>
    BY <1>7, <2>2
  <2>4. name(u) = name(v)
    <3>1. <<name(u)>> = <<name(v)>>
      BY <2>1, <2>3
    <3> QED BY <3>1, TuplesTell
  <2> QED BY <1>3, <1>6, <1>9, <2>2, <2>4
<1>10. CASE units[u].tier = "environment"
  <2>1. Path(u) = <<name(up(u)), name(u)>>
    BY <1>7, <1>10
  <2>2. units[v].tier = "environment"
    <3>1. Path(v) # <<name(v)>> /\ Path(v) # <<name(up(up(v))), name(up(v)), name(v)>>
      BY <2>1
    <3> QED BY <1>7, <1>8, <3>1
  <2>3. Path(v) = <<name(up(v)), name(v)>>
    BY <1>7, <2>2
  <2>4. name(u) = name(v) /\ name(up(u)) = name(up(v))
    <3>1. <<name(up(u)), name(u)>> = <<name(up(v)), name(v)>>
      BY <2>1, <2>3
    <3> QED BY <3>1, TuplesTell
  <2>5. up(u) = up(v)
    BY <1>3, <1>4, <1>6, <1>10, <2>2, <2>4
  <2> QED BY <1>6, <2>4, <2>5
<1>11. CASE units[u].tier = "unit"
  <2>1. Path(u) = <<name(up(up(u))), name(up(u)), name(u)>>
    BY <1>7, <1>11
  <2>2. units[v].tier = "unit"
    <3>1. Path(v) # <<name(v)>> /\ Path(v) # <<name(up(v)), name(v)>>
      BY <2>1
    <3> QED BY <1>7, <1>8, <3>1
  <2>3. Path(v) = <<name(up(up(v))), name(up(v)), name(v)>>
    BY <1>7, <2>2
  <2>4. name(u) = name(v) /\ name(up(u)) = name(up(v)) /\ name(up(up(u))) = name(up(up(v)))
    <3>1. <<name(up(up(u))), name(up(u)), name(u)>> = <<name(up(up(v))), name(up(v)), name(v)>>
      BY <2>1, <2>3
    <3> QED BY <3>1, TuplesTell
  <2>5. /\ up(u) \in DOMAIN units /\ units[up(u)].tier = "environment"
        /\ up(v) \in DOMAIN units /\ units[up(v)].tier = "environment"
        /\ units[up(u)].tenant = units[up(v)].tenant
    BY <1>5, <1>11, <2>2
  <2>6. up(up(u)) = up(up(v))
    BY <1>3, <1>4, <1>6, <2>4, <2>5
  <2>7. up(u) = up(v)
    BY <1>6, <2>4, <2>5, <2>6
  <2> QED BY <1>6, <2>4, <2>7
<1> QED BY <1>8, <1>9, <1>10, <1>11

----------------------------------------------------------------------------
(* The vault *)

\* A step of the vault never moves a profile to another tenant.
CredsStay == \A c \in DOMAIN creds \cap DOMAIN creds' : creds'[c].tenant = creds[c].tenant

\* Where a tenant's material may go: anywhere but to a token's path or into the area
\* of another tenant.
WritablePath(path, t) ==
  IsPath(path) /\ path.area # "monitoring" /\ (path.area = "credentials" => path.of = t)

\* set() on such a path, stored or failed.
LEMMA SetKeeps ==
  ASSUME SecretsInv, NEW t \in Tenants, NEW path, WritablePath(path, t), NEW stored,
         Set(path, t, NoId, stored), sources' = sources
  PROVE  SecretsInv'
<1> DEFINE row == [tenant |-> t, source |-> NoId]
<1>1. \/ secrets' = secrets
      \/ secrets' = Put(secrets, path, row)
  BY DEF Set
<1>2. CASE secrets' = secrets
  BY <1>2 DEF SecretsInv, SecretRow, TokenIsOwn, TokenPath
<1>3. CASE secrets' = Put(secrets, path, row)
  <2>1. /\ DOMAIN secrets' = DOMAIN secrets \cup {path} /\ secrets'[path] = row
        /\ \A p \in DOMAIN secrets \ {path} : secrets'[p] = secrets[p]
    BY <1>3 DEF Put
  <2>2. path.area # "monitoring" /\ (path.area = "credentials" => path.of = t)
    BY DEF WritablePath
  <2>5. \A p \in DOMAIN secrets' : SecretRow(p, secrets[p])'
    BY <2>1, <2>2 DEF SecretsInv, SecretRow
  <2>6. \A s : TokenPath(s).area = "monitoring"
    BY DEF TokenPath
  <2>7. TokenIsOwn'
    <3> SUFFICES ASSUME NEW s \in DOMAIN sources, sources[s].token,
                        TokenPath(s) \in DOMAIN secrets'
                 PROVE  secrets'[TokenPath(s)].source = s
      BY DEF TokenIsOwn, TokenPath
    <3>1. TokenPath(s) # path
      BY <2>2, <2>6
    <3> QED BY <2>1, <3>1 DEF SecretsInv, TokenIsOwn
  <2> QED BY <2>5, <2>7 DEF SecretsInv
<1> QED BY <1>1, <1>2, <1>3

\* delete(), or nothing at all.
LEMMA DropKeeps ==
  ASSUME SecretsInv, sources' = sources,
         secrets' = secrets \/ \E paths : secrets' = Without(secrets, paths)
  PROVE  SecretsInv'
<1>1. /\ DOMAIN secrets' \subseteq DOMAIN secrets
      /\ \A p \in DOMAIN secrets' : secrets'[p] = secrets[p]
  BY DEF Without, Restrict
<1>2. \A p \in DOMAIN secrets' : SecretRow(p, secrets[p])'
  BY <1>1 DEF SecretsInv, SecretRow
<1>3. TokenIsOwn'
  BY <1>1 DEF SecretsInv, TokenIsOwn, TokenPath
<1> QED BY <1>2, <1>3 DEF SecretsInv

\* A profile's own path, and its users' paths below it.
LEMMA OwnPaths ==
  ASSUME CredsInv, NEW c \in DOMAIN creds, NEW u
  PROVE  /\ creds[c].tenant \in Tenants
         /\ WritablePath(creds[c].ref, creds[c].tenant)
         /\ WritablePath(UserPath(c, u), creds[c].tenant)
         /\ UserPath(c, u).area = creds[c].ref.area /\ UserPath(c, u).of = creds[c].ref.of
<1>1. CredRow(creds[c])
  BY DEF CredsInv
<1>2. WritablePath(creds[c].ref, creds[c].tenant)
  BY <1>1, VaultAssumption DEF CredRow, WritablePath
<1>3. /\ IsPath(UserPath(c, u)) /\ UserPath(c, u).area = creds[c].ref.area
      /\ UserPath(c, u).of = creds[c].ref.of
  BY <1>1 DEF CredRow, IsPath, UserPath
<1> QED BY <1>1, <1>2, <1>3 DEF CredRow, WritablePath

\* An automatic path lies in its tenant's area.
LEMMA AutoPaths ==
  ASSUME NEW t, NEW n, NEW ref \in CustomRefs \cup {AutoRef(t, n)}
  PROVE  WritablePath(ref, t)
BY VaultAssumption DEF WritablePath, IsPath, AutoRef

\* A profile is created.
LEMMA AddCredKeeps ==
  ASSUME CredsInv, NEW t \in Tenants, NEW n \in CredNames, NEW kind \in Kinds,
         NEW ref \in CustomRefs \cup {AutoRef(t, n)}, AddCred(t, n, kind, ref)
  PROVE  CredsInv' /\ CredsStay /\ sources' = sources
<1> DEFINE id == NewId(creds)
           row == [tenant |-> t, name |-> n, kind |-> kind, ref |-> ref]
<1>1. id \in CredIds /\ creds' = Put(creds, id, row) /\ sources' = sources
  BY DEF AddCred
<1>2. DOMAIN creds \subseteq Nat /\ Bounded(creds)
  BY VaultAssumption DEF CredsInv
<1>3. CredRow(row)
  BY VaultAssumption DEF CredRow, IsPath, AutoRef
<1> HIDE DEF id, row
<1>4. /\ id \notin DOMAIN creds
      /\ DOMAIN creds' = DOMAIN creds \cup {id}
      /\ creds'[id] = row
      /\ \A x \in DOMAIN creds : creds'[x] = creds[x]
      /\ Bounded(creds')
  BY <1>1, <1>2, Inserted DEF id
<1>5. \A c \in DOMAIN creds' : CredRow(creds'[c])
  BY <1>3, <1>4 DEF CredsInv
<1>6. CredsInv'
  BY <1>1, <1>4, <1>5 DEF CredsInv
<1> QED BY <1>1, <1>4, <1>6 DEF CredsStay

\* Name and kind of a profile change; its path does not.
LEMMA EditCredKeeps ==
  ASSUME CredsInv, NEW c \in DOMAIN creds, NEW n \in CredNames, NEW kind \in Kinds,
         \/ creds' = [creds EXCEPT ![c].name = n, ![c].kind = kind]
         \/ creds' = [creds EXCEPT ![c].name = n]
  PROVE  CredsInv' /\ CredsStay
<1>1. CredRow(creds[c])
  BY DEF CredsInv
<1>2. /\ DOMAIN creds' = DOMAIN creds
      /\ \A x \in DOMAIN creds \ {c} : creds'[x] = creds[x]
      /\ DOMAIN creds'[c] = DOMAIN creds[c]
      /\ creds'[c].name = n /\ creds'[c].kind \in Kinds
      /\ creds'[c].tenant = creds[c].tenant /\ creds'[c].ref = creds[c].ref
  BY <1>1 DEF CredRow
<1>3. CredRow(creds'[c])
  BY <1>1, <1>2 DEF CredRow
<1>4. \A x \in DOMAIN creds' : CredRow(creds'[x])
  BY <1>2, <1>3 DEF CredsInv
<1>5. CredsInv'
  BY <1>2, <1>4 DEF CredsInv, Bounded
<1> QED BY <1>2, <1>5 DEF CredsStay

\* A profile goes.
LEMMA RemoveCredKeeps ==
  ASSUME CredsInv, NEW c, RemoveCred(c)
  PROVE  CredsInv' /\ CredsStay /\ sources' = sources
<1>1. creds' = Without(creds, {c}) /\ sources' = sources
  BY DEF RemoveCred
<1>2. /\ DOMAIN creds' = DOMAIN creds \ {c}
      /\ \A x \in DOMAIN creds' : creds'[x] = creds[x]
  BY <1>1 DEF Without, Restrict
<1> QED BY <1>1, <1>2 DEF CredsInv, CredsStay, Bounded

\* The token is stored and the row points at it, with a failure between the writes.
LEMMA StoreTokenKeeps ==
  ASSUME SourcesInv, SecretsInv, NEW s \in SourceIds, NEW t \in Tenants,
         NEW given \in BOOLEAN, NEW failed \in Outcomes, StoreToken(s, t, given, failed)
  PROVE  SourcesInv' /\ SecretsInv'
<1> DEFINE row == [tenant |-> t, source |-> s]
           has == (given /\ failed = "none") \/ (s \in DOMAIN sources /\ sources[s].token)
<1>1. /\ DOMAIN sources' = DOMAIN sources \cup {s}
      /\ \A x \in DOMAIN sources \ {s} : sources'[x] = sources[x]
      /\ sources'[s] = [tenant |-> t, token |-> has]
  BY DEF StoreToken
<1>2. has \in BOOLEAN
  OBVIOUS
<1> HIDE DEF has
<1>3. SourceRow(sources'[s]) /\ sources'[s].token = has
  BY <1>1, <1>2 DEF SourceRow
<1>4. SourcesInv'
  <2>1. s \in Nat
    BY VaultAssumption
  <2>2. PICK n \in Nat : \A x \in DOMAIN sources : x <= n
    BY DEF SourcesInv, Bounded
  <2>3. DOMAIN sources \subseteq Nat
    BY VaultAssumption DEF SourcesInv
  <2>4. n + s \in Nat /\ \A x \in DOMAIN sources' : x <= n + s
    BY <1>1, <2>1, <2>2, <2>3
  <2>5. Bounded(sources')
    BY <2>4 DEF Bounded
  <2>6. \A x \in DOMAIN sources' : SourceRow(sources'[x])
    BY <1>1, <1>3 DEF SourcesInv
  <2> QED BY <1>1, <2>5, <2>6 DEF SourcesInv
<1>5. /\ \A x : TokenPath(x).area = "monitoring"
      /\ \A x, y : TokenPath(x) = TokenPath(y) => x = y
  BY DEF TokenPath
<1>6. CASE given /\ failed # "secret"
  <2>1. /\ DOMAIN secrets' = DOMAIN secrets \cup {TokenPath(s)} /\ secrets'[TokenPath(s)] = row
        /\ \A p \in DOMAIN secrets \ {TokenPath(s)} : secrets'[p] = secrets[p]
    BY <1>6 DEF StoreToken, Set, Put
  <2>2. \A p \in DOMAIN secrets' : SecretRow(p, secrets[p])'
    BY <1>1, <1>5, <2>1 DEF SecretsInv, SecretRow
  <2>3. TokenIsOwn'
    <3> SUFFICES ASSUME NEW x \in DOMAIN sources', sources'[x].token,
                        TokenPath(x) \in DOMAIN secrets'
                 PROVE  secrets'[TokenPath(x)].source = x
      BY DEF TokenIsOwn, TokenPath
    <3>1. CASE x = s
      BY <2>1, <3>1
    <3>2. CASE x # s
      BY <1>1, <1>5, <2>1, <3>2 DEF SecretsInv, TokenIsOwn
    <3> QED BY <3>1, <3>2
  <2> QED BY <1>4, <2>2, <2>3 DEF SecretsInv
<1>7. CASE ~ (given /\ failed # "secret")
  <2>1. secrets' = secrets
    BY <1>7 DEF StoreToken, Set
  <2>2. \A p \in DOMAIN secrets' : SecretRow(p, secrets[p])'
    BY <1>1, <2>1 DEF SecretsInv, SecretRow
  <2>3. TokenIsOwn'
    <3> SUFFICES ASSUME NEW x \in DOMAIN sources', sources'[x].token,
                        TokenPath(x) \in DOMAIN secrets
                 PROVE  secrets[TokenPath(x)].source = x
      BY <2>1 DEF TokenIsOwn, TokenPath
    <3>1. x \in DOMAIN sources /\ sources[x].token
      <4>1. CASE x = s
        BY <1>3, <1>7, <4>1 DEF has
      <4>2. CASE x # s
        BY <1>1, <4>2
      <4> QED BY <4>1, <4>2
    <3> QED BY <3>1 DEF SecretsInv, TokenIsOwn
  <2> QED BY <1>4, <2>2, <2>3 DEF SecretsInv
<1> QED BY <1>4, <1>6, <1>7

\* The source goes; a token that stays behind belongs to no row.
LEMMA RemoveSourceKeeps ==
  ASSUME SourcesInv, SecretsInv, NEW s \in DOMAIN sources, NEW done, RemoveSource(s, done)
  PROVE  SourcesInv' /\ SecretsInv'
<1>1. /\ DOMAIN sources' = DOMAIN sources \ {s}
      /\ \A x \in DOMAIN sources' : sources'[x] = sources[x]
  BY DEF RemoveSource, Without, Restrict
<1>2. PICK left : /\ left = secrets \/ left = Without(secrets, {TokenPath(s)})
                  /\ secrets' = [p \in DOMAIN left |->
                       IF left[p].source = s THEN [left[p] EXCEPT !.source = NoId] ELSE left[p]]
  BY DEF RemoveSource
<1>3. /\ DOMAIN left \subseteq DOMAIN secrets
      /\ \A p \in DOMAIN left : left[p] = secrets[p]
  BY <1>2 DEF Without, Restrict
<1>4. SourcesInv'
  BY <1>1 DEF SourcesInv, Bounded
<1>5. \A p \in DOMAIN secrets' : /\ p \in DOMAIN secrets
                                 /\ secrets[p].source # s => secrets'[p] = secrets[p]
                                 /\ secrets[p].source = s =>
                                      secrets'[p] = [secrets[p] EXCEPT !.source = NoId]
  BY <1>2, <1>3
<1>6. \A p \in DOMAIN secrets' : SecretRow(p, secrets[p])'
  <2> SUFFICES ASSUME NEW p \in DOMAIN secrets' PROVE SecretRow(p, secrets[p])'
    OBVIOUS
  <2>1. SecretRow(p, secrets[p])
    BY <1>5 DEF SecretsInv
  <2>2. CASE secrets[p].source = s
    BY <1>5, <2>1, <2>2 DEF SecretRow
  <2>3. CASE secrets[p].source # s
    BY <1>1, <1>5, <2>1, <2>3 DEF SecretRow
  <2> QED BY <2>2, <2>3
<1>7. TokenIsOwn'
  <2> SUFFICES ASSUME NEW x \in DOMAIN sources', sources'[x].token,
                      TokenPath(x) \in DOMAIN secrets'
               PROVE  secrets'[TokenPath(x)].source = x
    BY DEF TokenIsOwn, TokenPath
  <2>1. secrets[TokenPath(x)].source = x /\ x # s
    BY <1>1, <1>5 DEF SecretsInv, TokenIsOwn
  <2> QED BY <1>5, <2>1
<1> QED BY <1>4, <1>6, <1>7 DEF SecretsInv

\* Which rows of other tables a step of the vault touches.
VaultFrame ==
  /\ hosts' = [h \in DOMAIN hosts |-> [hosts[h] EXCEPT !.cred = Unbound(@), !.ft = Unbound(@)]]
  /\ pipes' = [p \in DOMAIN pipes |-> [pipes[p] EXCEPT !.cred = Unbound(@)]]
  /\ UNCHANGED <<orgVars, payloads>>

VaultKept == VaultInv' /\ CredsStay

\* The sources stay as they are while profiles and secrets change.
LEMMA SourcesStay ==
  ASSUME VaultInv, sources' = sources, CredsInv', CredsStay, SecretsInv'
  PROVE  VaultKept
BY DEF VaultInv, VaultKept, SourcesInv, Bounded

\* The doors to credential profiles and their material.
LEMMA CredentialNextKeeps ==
  ASSUME VaultInv, CredentialNext
  PROVE  VaultKept /\ VaultFrame
<1>0. CredsInv /\ SecretsInv
  BY DEF VaultInv
<1>1. VaultFrame
  BY DEF CredentialNext, VaultStep, VaultFrame
<1>2. ASSUME creds' = creds PROVE CredsInv' /\ CredsStay
  BY <1>0, <1>2 DEF CredsInv, CredsStay, Bounded
<1>3. ASSUME NEW t \in Tenants, NEW n \in CredNames, NEW kind \in Kinds,
             NEW ref \in CustomRefs \cup {AutoRef(t, n)}, NEW given, NEW stored,
             VaultStep(CredentialsCreate(t, n, kind, ref, given, stored))
               \/ VaultStep(CredentialAdd(t, n, kind, ref, given, stored))
      PROVE  VaultKept
  <2>1. AddCred(t, n, kind, ref) /\ Set(ref, t, NoId, given /\ stored /\ kind # "dynamic")
    BY <1>3 DEF VaultStep, CredentialsCreate, CredentialAdd
  <2>2. WritablePath(ref, t)
    BY AutoPaths
  <2>3. CredsInv' /\ CredsStay /\ sources' = sources
    BY <1>0, <2>1, AddCredKeeps
  <2>4. SecretsInv'
    BY <1>0, <2>1, <2>2, <2>3, SetKeeps
  <2> QED BY <2>3, <2>4, SourcesStay
<1>4. ASSUME NEW t \in Tenants, NEW n \in CredNames, NEW stored,
             VaultStep(MyCredentialsNew(t, n)) \/ VaultStep(AgentCreateCredential(t, n, stored))
      PROVE  VaultKept
  <2>1. PICK kind \in Kinds : AddCred(t, n, kind, AutoRef(t, n))
    BY <1>4 DEF VaultStep, MyCredentialsNew, AgentCreateCredential, Kinds
  <2>2. AutoRef(t, n) \in CustomRefs \cup {AutoRef(t, n)}
    OBVIOUS
  <2>3. WritablePath(AutoRef(t, n), t)
    BY <2>2, AutoPaths
  <2>4. CredsInv' /\ CredsStay /\ sources' = sources
    BY <1>0, <2>1, <2>2, AddCredKeeps
  <2>5. CASE secrets' = secrets
    BY <1>0, <2>4, <2>5, DropKeeps, SourcesStay
  <2>6. CASE Set(AutoRef(t, n), t, NoId, stored)
    BY <1>0, <2>3, <2>4, <2>6, SetKeeps, SourcesStay
  <2> QED BY <1>4, <2>5, <2>6 DEF VaultStep, MyCredentialsNew, AgentCreateCredential
<1>5. ASSUME NEW c \in DOMAIN creds, NEW n \in CredNames, NEW kind \in Kinds, NEW given, NEW stored,
             VaultStep(CredentialsUpdate(c, n, kind, given, stored))
      PROVE  VaultKept
  <2>1. /\ creds' = [creds EXCEPT ![c].name = n, ![c].kind = kind] /\ sources' = sources
        /\ Set(creds[c].ref, creds[c].tenant, NoId, given /\ stored)
    BY <1>5 DEF VaultStep, CredentialsUpdate
  <2>2. CredsInv' /\ CredsStay
    BY <1>0, <2>1, EditCredKeeps
  <2>3. SecretsInv'
    BY <1>0, <2>1, OwnPaths, SetKeeps
  <2> QED BY <2>1, <2>2, <2>3, SourcesStay
<1>6. ASSUME NEW c \in DOMAIN creds, NEW n \in CredNames,
             VaultStep(CredentialsRename(c, n)) \/ VaultStep(CredentialRename(c, n))
      PROVE  VaultKept
  <2>1. creds' = [creds EXCEPT ![c].name = n] /\ sources' = sources /\ secrets' = secrets
    BY <1>6 DEF VaultStep, CredentialsRename, CredentialRename, Rename
  <2>2. "login" \in Kinds
    BY DEF Kinds
  <2>3. CredsInv' /\ CredsStay
    BY <1>0, <2>1, <2>2, EditCredKeeps
  <2> QED BY <1>0, <2>1, <2>3, DropKeeps, SourcesStay
<1>7. ASSUME NEW c \in DOMAIN creds, NEW stored, VaultStep(AgentUpdateCredential(c, stored))
      PROVE  VaultKept
  <2>1. /\ Set(creds[c].ref, creds[c].tenant, NoId, stored)
        /\ creds' = creds /\ sources' = sources
    BY <1>7 DEF VaultStep, AgentUpdateCredential
  <2>2. SecretsInv'
    BY <1>0, <2>1, OwnPaths, SetKeeps
  <2> QED BY <1>2, <2>1, <2>2, SourcesStay
<1>8. ASSUME NEW c \in DOMAIN creds, NEW u \in Users,
             VaultStep(MyCredentialsSet(c, u)) \/ VaultStep(CredentialSetUserSecret(c, u))
      PROVE  VaultKept
  <2>1. /\ Set(UserPath(c, u), creds[c].tenant, NoId, TRUE)
        /\ creds' = creds /\ sources' = sources
    BY <1>8 DEF VaultStep, MyCredentialsSet, CredentialSetUserSecret, SetUserMaterial
  <2>2. SecretsInv'
    BY <1>0, <2>1, OwnPaths, SetKeeps
  <2> QED BY <1>2, <2>1, <2>2, SourcesStay
<1>9. ASSUME NEW c \in DOMAIN creds, NEW u \in Users,
             VaultStep(MyCredentialsClear(c, u)) \/ VaultStep(CredentialClearUserSecret(c, u))
      PROVE  VaultKept
  <2>1. /\ secrets' = Without(secrets, {UserPath(c, u)})
        /\ creds' = creds /\ sources' = sources
    BY <1>9 DEF VaultStep, MyCredentialsClear, CredentialClearUserSecret, ClearUserMaterial
  <2> QED BY <1>0, <1>2, <2>1, DropKeeps, SourcesStay
<1>10. ASSUME NEW c \in DOMAIN creds, NEW done,
              VaultStep(CredentialsDelete(c)) \/ VaultStep(AgentDeleteCredential(c, done))
       PROVE  VaultKept
  <2>1. /\ RemoveCred(c)
        /\ secrets' = secrets \/ secrets' = Without(secrets, {creds[c].ref})
    BY <1>10 DEF VaultStep, CredentialsDelete, AgentDeleteCredential
  <2>2. CredsInv' /\ CredsStay /\ sources' = sources
    BY <1>0, <2>1, RemoveCredKeeps
  <2> QED BY <1>0, <2>1, <2>2, DropKeeps, SourcesStay
<1>11. ASSUME NEW path \in CustomRefs, NEW t \in Tenants, VaultStep(SecretSet(path, t))
       PROVE  VaultKept
  <2>1. Set(path, t, NoId, TRUE) /\ creds' = creds /\ sources' = sources
    BY <1>11 DEF VaultStep, SecretSet
  <2>2. WritablePath(path, t)
    BY VaultAssumption DEF WritablePath, IsPath
  <2> QED BY <1>0, <1>2, <2>1, <2>2, SetKeeps, SourcesStay
<1>12. ASSUME NEW path, VaultStep(SecretDelete(path))
       PROVE  VaultKept
  <2>1. secrets' = Without(secrets, {path}) /\ creds' = creds /\ sources' = sources
    BY <1>12 DEF VaultStep, SecretDelete
  <2> QED BY <1>0, <1>2, <2>1, DropKeeps, SourcesStay
<1>13. VaultKept
  BY <1>3, <1>4, <1>5, <1>6, <1>7, <1>8, <1>9, <1>10, <1>11, <1>12 DEF CredentialNext
<1> QED BY <1>1, <1>13

\* The doors to monitoring sources.
LEMMA SourceNextKeeps ==
  ASSUME VaultInv, SourceNext
  PROVE  VaultKept /\ VaultFrame
<1>0. CredsInv /\ SourcesInv /\ SecretsInv
  BY DEF VaultInv
<1>1. VaultFrame
  BY DEF SourceNext, VaultStep, VaultFrame
<1>2. ASSUME creds' = creds, SourcesInv', SecretsInv' PROVE VaultKept
  BY <1>0, <1>2 DEF VaultKept, VaultInv, CredsInv, CredsStay, Bounded
<1>3. ASSUME NEW t \in Tenants, NEW given \in BOOLEAN, NEW failed \in Outcomes,
             CreateSource(t, given, failed) \/ AgentCreateSource(t, given, failed)
      PROVE  VaultKept
  <2>1. /\ NewId(sources) \in SourceIds /\ creds' = creds
        /\ StoreToken(NewId(sources), t, given, failed)
    BY <1>3 DEF CreateSource, AgentCreateSource
  <2> QED BY <1>0, <1>2, <2>1, StoreTokenKeeps
<1>4. ASSUME NEW s \in DOMAIN sources, NEW given \in BOOLEAN, NEW failed \in Outcomes,
             UpdateSource(s, given, failed) \/ AgentUpdateSource(s, given, failed)
      PROVE  VaultKept
  <2>1. StoreToken(s, sources[s].tenant, given, failed) /\ creds' = creds
    BY <1>4 DEF UpdateSource, AgentUpdateSource
  <2>2. s \in SourceIds /\ sources[s].tenant \in Tenants
    BY <1>0 DEF SourcesInv, SourceRow
  <2> QED BY <1>0, <1>2, <2>1, <2>2, StoreTokenKeeps
<1>5. ASSUME NEW s \in DOMAIN sources, NEW done, DeleteSource(s, done) \/ AgentDeleteSource(s, done)
      PROVE  VaultKept
  <2>1. RemoveSource(s, done) /\ creds' = creds
    BY <1>5 DEF DeleteSource, AgentDeleteSource, RemoveSource
  <2> QED BY <1>0, <1>2, <2>1, RemoveSourceKeeps
<1>6. VaultKept
  BY <1>3, <1>4, <1>5 DEF SourceNext, VaultStep
<1> QED BY <1>1, <1>6

\* A path in the area of a tenant, its users' paths included, holds what was written
\* for that tenant.
LEMMA AreasApart == VaultInv => TenantsApart
<1> SUFFICES ASSUME VaultInv, NEW c \in DOMAIN creds, creds[c].ref \notin CustomRefs,
                    NEW p \in DOMAIN secrets,
                    p \in {creds[c].ref} \cup {UserPath(c, u) : u \in Users}
             PROVE  secrets[p].tenant = creds[c].tenant
  BY DEF TenantsApart
<1>0. CredsInv /\ SecretsInv
  BY DEF VaultInv
<1>1. creds[c].ref.area = "credentials" /\ creds[c].ref.of = creds[c].tenant
  BY <1>0 DEF CredsInv, CredRow
<1>2. p.area = "credentials" /\ p.of = creds[c].tenant
  BY <1>0, <1>1, OwnPaths
<1> QED BY <1>0, <1>2 DEF SecretsInv, SecretRow

----------------------------------------------------------------------------
(* Hosts *)

\* The chain _validate_jump walks is well defined, and starts at the jump host given.
LEMMA HopStarts ==
  ASSUME NEW j
  PROVE  0 \in DOMAIN Hop(j) /\ Hop(j)[0] = j
<1> DEFINE D == JUMP_CHAIN_MAX_DEPTH + 1
           step(x) == IF x \in DOMAIN hosts THEN hosts[x].jump ELSE NoId
           F(n, f) == [k \in 0..n |-> IF k = 0 THEN j ELSE step(f[k - 1])]
           Bad == {n \in Nat : ~ \E f : f = F(n, f)}
<1>0. D \in Nat
  BY InventoryAssumption
<1>1. Bad = {}
  <2> SUFFICES ASSUME Bad # {} PROVE FALSE
    OBVIOUS
  <2>1. PICK m \in Bad : \A n \in Bad : m <= n
    BY LeastNumber
  <2>2. m \in Nat /\ ~ \E f : f = F(m, f)
    BY <2>1
  <2>3. CASE m = 0
    <3> DEFINE f == [k \in 0..0 |-> j]
    <3>1. f = F(0, f)
      OBVIOUS
    <3> QED BY <2>2, <2>3, <3>1
  <2>4. CASE m # 0
    <3>1. m - 1 \in Nat /\ m - 1 \notin Bad
      BY <2>1, <2>2, <2>4
    <3>2. PICK f : f = F(m - 1, f)
      BY <3>1
    <3> DEFINE g == [k \in 0..m |-> IF k = m THEN step(f[m - 1]) ELSE f[k]]
    <3>3. \A k \in 0..(m - 1) : f[k] = IF k = 0 THEN j ELSE step(f[k - 1])
      BY <3>2
    <3>4. \A k \in 0..m : g[k] = IF k = 0 THEN j ELSE step(g[k - 1])
      <4> HIDE DEF step
      <4> SUFFICES ASSUME NEW k \in 0..m PROVE g[k] = IF k = 0 THEN j ELSE step(g[k - 1])
        OBVIOUS
      <4>1. CASE k = m
        BY <2>2, <2>4, <4>1
      <4>2. CASE k # m
        <5>1. k \in 0..(m - 1) /\ g[k] = f[k] /\ (k # 0 => g[k - 1] = f[k - 1])
          BY <2>2, <4>2
        <5> QED BY <3>3, <5>1
      <4> QED BY <4>1, <4>2
    <3>5. g = F(m, g)
      <4> HIDE DEF step
      <4> QED BY <3>4
    <3> QED BY <2>2, <3>5
  <2> QED BY <2>3, <2>4
<1>2. \E f : f = F(D, f)
  BY <1>0, <1>1
<1>3. Hop(j) = CHOOSE f : f = F(D, f)
  BY DEF Hop
<1>4. Hop(j) = F(D, Hop(j))
  <2> HIDE DEF F
  <2> QED BY <1>2, <1>3
<1> QED BY <1>0, <1>4

\* What a row is bound to, in the given tables, is of its tenant.
Fits(r, ct, ut) ==
  /\ InTenant(ct, r.cred, r.tenant) /\ InTenant(ct, r.ft, r.tenant)
  /\ InTenant(ut, r.unit, r.tenant)

\* Its jump host is a directly reached jumpbox of its tenant.
Jumps(r, ht) ==
  r.jump # NoId => /\ r.box = FALSE
                   /\ r.jump \in DOMAIN ht
                   /\ ht[r.jump].box = TRUE
                   /\ ht[r.jump].jump = NoId
                   /\ ht[r.jump].tenant = r.tenant

HostTable(ht) == DOMAIN ht \subseteq HostIds /\ Bounded(ht) /\ \A h \in DOMAIN ht : HostShape(ht[h])

\* HostInv, row by row, before a step and after it.
LEMMA HostRows ==
  /\ HostInv <=> /\ HostTable(hosts)
                 /\ \A h \in DOMAIN hosts : Fits(hosts[h], creds, units) /\ Jumps(hosts[h], hosts)
  /\ HostInv' <=> /\ HostTable(hosts')
                  /\ \A h \in DOMAIN hosts' :
                       Fits(hosts'[h], creds', units') /\ Jumps(hosts'[h], hosts')
<1>1. ASSUME NEW ht, HostTable(ht), NEW h \in DOMAIN ht
      PROVE  ht[h].box \in BOOLEAN /\ h # NoId
  BY <1>1, InventoryAssumption DEF HostTable, HostShape
<1>2. HostInv <=> /\ HostTable(hosts)
                  /\ \A h \in DOMAIN hosts : Fits(hosts[h], creds, units) /\ Jumps(hosts[h], hosts)
  <2>1. ASSUME HostTable(hosts)
        PROVE  HostsClosed /\ JumpsDirect
                 <=> \A h \in DOMAIN hosts : Fits(hosts[h], creds, units) /\ Jumps(hosts[h], hosts)
    BY <1>1, <2>1 DEF HostsClosed, JumpsDirect, Fits, Jumps, InTenant
  <2> QED BY <2>1 DEF HostInv, HostTable
<1>3. HostInv' <=> /\ HostTable(hosts')
                   /\ \A h \in DOMAIN hosts' :
                        Fits(hosts'[h], creds', units') /\ Jumps(hosts'[h], hosts')
  <2>1. ASSUME HostTable(hosts')
        PROVE  HostsClosed' /\ JumpsDirect'
                 <=> \A h \in DOMAIN hosts' :
                       Fits(hosts'[h], creds', units') /\ Jumps(hosts'[h], hosts')
    BY <1>1, <2>1 DEF HostsClosed, JumpsDirect, Fits, Jumps, InTenant
  <2> QED BY <2>1 DEF HostInv, HostTable
<1> QED BY <1>2, <1>3

\* Rows rewritten without touching tenant, flag and jump keep the jumps.
LEMMA HostsRewritten ==
  ASSUME HostInv, DOMAIN hosts' = DOMAIN hosts,
         \A h \in DOMAIN hosts : /\ DOMAIN hosts'[h] = DOMAIN hosts[h]
                                 /\ hosts'[h].tenant = hosts[h].tenant
                                 /\ hosts'[h].box = hosts[h].box
                                 /\ hosts'[h].jump = hosts[h].jump
                                 /\ Fits(hosts'[h], creds', units')
  PROVE  HostInv'
<1>1. HostTable(hosts) /\ \A h \in DOMAIN hosts : Jumps(hosts[h], hosts)
  BY HostRows
<1>2. HostTable(hosts')
  BY <1>1 DEF HostTable, HostShape, Bounded
<1>3. \A h \in DOMAIN hosts' : Jumps(hosts'[h], hosts')
  BY <1>1 DEF Jumps
<1> QED BY <1>2, <1>3, HostRows

\* ON DELETE SET NULL of org_unit_id
LEMMA TreeKeepsHosts ==
  ASSUME HostInv, UnitsStay, hosts' = Unfiled(hosts), creds' = creds
  PROVE  HostInv'
<1>1. /\ \A h \in DOMAIN hosts : HostShape(hosts[h])
      /\ \A h \in DOMAIN hosts : Fits(hosts[h], creds, units)
  BY HostRows DEF HostTable
<1>2. DOMAIN hosts' = DOMAIN hosts
  BY DEF Unfiled
<1>3. ASSUME NEW h \in DOMAIN hosts
      PROVE  /\ DOMAIN hosts'[h] = DOMAIN hosts[h]
             /\ hosts'[h].tenant = hosts[h].tenant
             /\ hosts'[h].box = hosts[h].box
             /\ hosts'[h].jump = hosts[h].jump
             /\ Fits(hosts'[h], creds', units')
  <2>1. HostShape(hosts[h]) /\ Fits(hosts[h], creds, units)
    BY <1>1
  <2>2. CASE hosts[h].unit \in DOMAIN units'
    <3>1. hosts'[h] = hosts[h]
      BY <2>2 DEF Unfiled
    <3> QED BY <2>1, <2>2, <3>1 DEF Fits, InTenant, UnitsStay
  <2>3. CASE hosts[h].unit \notin DOMAIN units'
    <3>1. hosts'[h] = [hosts[h] EXCEPT !.unit = NoId]
      BY <2>3 DEF Unfiled
    <3>2. /\ DOMAIN hosts'[h] = DOMAIN hosts[h] /\ hosts'[h].unit = NoId
          /\ hosts'[h].tenant = hosts[h].tenant /\ hosts'[h].box = hosts[h].box
          /\ hosts'[h].jump = hosts[h].jump /\ hosts'[h].cred = hosts[h].cred
          /\ hosts'[h].ft = hosts[h].ft
      BY <2>1, <3>1 DEF HostShape
    <3> QED BY <2>1, <3>2 DEF Fits, InTenant
  <2> QED BY <2>2, <2>3
<1> QED BY <1>2, <1>3, HostsRewritten

\* ON DELETE SET NULL of credential_id and ft_credential_id
LEMMA VaultKeepsHosts ==
  ASSUME HostInv, CredsStay, VaultFrame
  PROVE  HostInv'
<1>0. units' = units
  BY DEF VaultFrame, orgVars
<1>1. /\ \A h \in DOMAIN hosts : HostShape(hosts[h])
      /\ \A h \in DOMAIN hosts : Fits(hosts[h], creds, units)
  BY HostRows DEF HostTable
<1>2. /\ DOMAIN hosts' = DOMAIN hosts
      /\ \A h \in DOMAIN hosts :
           hosts'[h] = [hosts[h] EXCEPT !.cred = Unbound(@), !.ft = Unbound(@)]
  BY DEF VaultFrame
<1>3. ASSUME NEW h \in DOMAIN hosts
      PROVE  /\ DOMAIN hosts'[h] = DOMAIN hosts[h]
             /\ hosts'[h].tenant = hosts[h].tenant
             /\ hosts'[h].box = hosts[h].box
             /\ hosts'[h].jump = hosts[h].jump
             /\ Fits(hosts'[h], creds', units')
  <2>1. HostShape(hosts[h]) /\ Fits(hosts[h], creds, units)
    BY <1>1
  <2>2. /\ DOMAIN hosts'[h] = DOMAIN hosts[h] /\ hosts'[h].unit = hosts[h].unit
        /\ hosts'[h].tenant = hosts[h].tenant /\ hosts'[h].box = hosts[h].box
        /\ hosts'[h].jump = hosts[h].jump /\ hosts'[h].cred = Unbound(hosts[h].cred)
        /\ hosts'[h].ft = Unbound(hosts[h].ft)
    BY <1>2, <2>1 DEF HostShape
  <2>3. ASSUME NEW ref, InTenant(creds, ref, hosts[h].tenant)
        PROVE  InTenant(creds', Unbound(ref), hosts[h].tenant)
    BY <2>3 DEF InTenant, Unbound, CredsStay
  <2>4. /\ InTenant(creds', hosts'[h].cred, hosts'[h].tenant)
        /\ InTenant(creds', hosts'[h].ft, hosts'[h].tenant)
    BY <2>1, <2>2, <2>3 DEF Fits
  <2>5. InTenant(units', hosts'[h].unit, hosts'[h].tenant)
    BY <1>0, <2>1, <2>2 DEF Fits
  <2> QED BY <2>2, <2>4, <2>5 DEF Fits
<1> QED BY <1>2, <1>3, HostsRewritten

\* What create_host and update_host store: a jumpbox has no jump host.
LEMMA HostRowShape ==
  ASSUME NEW t \in Tenants, NEW box \in BOOLEAN, NEW jump, NEW cred, NEW ft, NEW unit
  PROVE  LET row == HostRow(t, box, jump, cred, ft, unit)
         IN  HostShape(row) /\ row.tenant = t /\ (row.jump # NoId => row.box = FALSE)
BY DEF HostRow, HostShape

\* What passes the validation fits, and its jump host is a directly reached jumpbox.
LEMMA ValidHostFits ==
  ASSUME HostInv, NEW h, NEW row, HostShape(row), row.jump # NoId => row.box = FALSE,
         ValidHost(h, row)
  PROVE  /\ Fits(row, creds, units)
         /\ Jumps(row, hosts)
         /\ row.jump # NoId => row.jump # h
<1>1. Fits(row, creds, units)
  BY DEF ValidHost, Fits
<1>2. SUFFICES ASSUME row.jump # NoId PROVE Jumps(row, hosts) /\ row.jump # h
  BY <1>1 DEF Jumps
<1>3. 0 \in DOMAIN Hop(row.jump) /\ Hop(row.jump)[0] = row.jump
  BY HopStarts
<1>4. row.jump # h /\ InTenant(hosts, row.jump, row.tenant) /\ hosts[row.jump].box
  <2> HIDE DEF Hop
  <2> QED BY <1>2, <1>3 DEF ValidHost, ValidJump
<1>5. row.jump \in DOMAIN hosts /\ hosts[row.jump].tenant = row.tenant
  BY <1>2, <1>4 DEF InTenant
<1>6. HostShape(hosts[row.jump]) /\ Jumps(hosts[row.jump], hosts)
  BY <1>5, HostRows DEF HostTable
<1>7. hosts[row.jump].box = TRUE
  BY <1>4, <1>6 DEF HostShape
<1>8. hosts[row.jump].jump = NoId
  BY <1>6, <1>7 DEF Jumps
<1> QED BY <1>2, <1>4, <1>5, <1>7, <1>8 DEF Jumps

\* create_host, through whichever door.
LEMMA CreateHostKeeps ==
  ASSUME HostInv, NEW row, HostShape(row), row.jump # NoId => row.box = FALSE, CreateHost(row)
  PROVE  HostInv'
<1>1. /\ NewId(hosts) \in HostIds /\ ValidHost(NoId, row)
      /\ hosts' = Put(hosts, NewId(hosts), row) /\ creds' = creds /\ units' = units
  BY DEF CreateHost, HostUnchanged, orgVars, vaultVars
<1>2. /\ HostTable(hosts)
      /\ \A h \in DOMAIN hosts : Fits(hosts[h], creds, units) /\ Jumps(hosts[h], hosts)
  BY HostRows
<1>3. DOMAIN hosts \subseteq Nat /\ Bounded(hosts)
  BY <1>2, InventoryAssumption DEF HostTable
<1>4. /\ NewId(hosts) \notin DOMAIN hosts
      /\ DOMAIN hosts' = DOMAIN hosts \cup {NewId(hosts)}
      /\ hosts'[NewId(hosts)] = row
      /\ \A x \in DOMAIN hosts : hosts'[x] = hosts[x]
      /\ Bounded(hosts')
  BY <1>1, <1>3, Inserted
<1>5. Fits(row, creds, units) /\ Jumps(row, hosts)
  BY <1>1, ValidHostFits
<1>6. HostTable(hosts')
  BY <1>1, <1>2, <1>4 DEF HostTable
<1>7. \A h \in DOMAIN hosts' : Fits(hosts'[h], creds', units')
  BY <1>1, <1>2, <1>4, <1>5
<1>8. \A h \in DOMAIN hosts' : Jumps(hosts'[h], hosts')
  BY <1>2, <1>4, <1>5 DEF Jumps
<1> QED BY <1>6, <1>7, <1>8, HostRows

\* update_host: a jumpbox others go through keeps its flag, and then jumps nowhere.
LEMMA UpdateHostKeeps ==
  ASSUME HostInv, NEW h \in DOMAIN hosts, NEW row, HostShape(row),
         row.jump # NoId => row.box = FALSE, row.tenant = hosts[h].tenant, UpdateHost(h, row)
  PROVE  HostInv'
<1>1. /\ ValidHost(h, row)
      /\ hosts[h].box /\ ~ row.box => \A g \in DOMAIN hosts : hosts[g].jump # h
      /\ hosts' = [hosts EXCEPT ![h] = row] /\ creds' = creds /\ units' = units
  BY DEF UpdateHost, HostUnchanged, orgVars, vaultVars
<1>2. /\ HostTable(hosts)
      /\ \A g \in DOMAIN hosts : Fits(hosts[g], creds, units) /\ Jumps(hosts[g], hosts)
  BY HostRows
<1>3. /\ DOMAIN hosts' = DOMAIN hosts /\ hosts'[h] = row
      /\ \A g \in DOMAIN hosts \ {h} : hosts'[g] = hosts[g]
  BY <1>1
<1>4. Fits(row, creds, units) /\ Jumps(row, hosts) /\ (row.jump # NoId => row.jump # h)
  BY <1>1, ValidHostFits
<1>5. HostTable(hosts')
  BY <1>2, <1>3 DEF HostTable, Bounded
<1>6. \A g \in DOMAIN hosts' : Fits(hosts'[g], creds', units')
  BY <1>1, <1>2, <1>3, <1>4
<1>7. ASSUME NEW g \in DOMAIN hosts' PROVE Jumps(hosts'[g], hosts')
  <2>1. CASE g = h
    BY <1>3, <1>4, <2>1 DEF Jumps
  <2>2. CASE g # h /\ hosts[g].jump # h
    <3>1. Jumps(hosts[g], hosts) /\ hosts'[g] = hosts[g]
      BY <1>2, <1>3, <2>2
    <3> QED BY <1>3, <2>2, <3>1 DEF Jumps
  <2>3. CASE g # h /\ hosts[g].jump = h
    <3>1. Jumps(hosts[g], hosts) /\ hosts'[g] = hosts[g] /\ g \in DOMAIN hosts
      BY <1>2, <1>3, <2>3
    <3>2. h # NoId
      BY <1>2, InventoryAssumption DEF HostTable
    <3>3. hosts[h].box = TRUE /\ hosts[h].tenant = hosts[g].tenant /\ hosts[g].box = FALSE
      BY <2>3, <3>1, <3>2 DEF Jumps
    <3>4. row.box \in BOOLEAN
      BY DEF HostShape
    <3>5. row.box = TRUE
      BY <1>1, <2>3, <3>1, <3>3, <3>4
    <3>6. row.jump = NoId
      BY <3>5
    <3> QED BY <1>3, <2>3, <3>1, <3>3, <3>5, <3>6 DEF Jumps
  <2> QED BY <2>1, <2>2, <2>3
<1> QED BY <1>5, <1>6, <1>7, HostRows

\* assign_org
LEMMA AssignHostKeeps ==
  ASSUME HostInv, NEW h, NEW unit, AssignHost(h, unit)
  PROVE  HostInv'
<1>1. /\ h \in DOMAIN hosts /\ InTenant(units, unit, hosts[h].tenant)
      /\ hosts' = [hosts EXCEPT ![h].unit = unit] /\ creds' = creds /\ units' = units
  BY DEF AssignHost, HostUnchanged, orgVars, vaultVars
<1>2. \A g \in DOMAIN hosts : HostShape(hosts[g]) /\ Fits(hosts[g], creds, units)
  BY HostRows DEF HostTable
<1>3. ASSUME NEW g \in DOMAIN hosts
      PROVE  /\ DOMAIN hosts'[g] = DOMAIN hosts[g]
             /\ hosts'[g].tenant = hosts[g].tenant
             /\ hosts'[g].box = hosts[g].box
             /\ hosts'[g].jump = hosts[g].jump
             /\ Fits(hosts'[g], creds', units')
  <2>1. CASE g # h
    BY <1>1, <1>2, <2>1
  <2>2. CASE g = h
    <3>1. /\ DOMAIN hosts'[g] = DOMAIN hosts[g] /\ hosts'[g].unit = unit
          /\ hosts'[g].tenant = hosts[g].tenant /\ hosts'[g].box = hosts[g].box
          /\ hosts'[g].jump = hosts[g].jump /\ hosts'[g].cred = hosts[g].cred
          /\ hosts'[g].ft = hosts[g].ft
      BY <1>1, <1>2, <2>2 DEF HostShape
    <3>2. Fits(hosts[g], creds, units)
      BY <1>2
    <3> QED BY <1>1, <2>2, <3>1, <3>2 DEF Fits
  <2> QED BY <2>1, <2>2
<1> QED BY <1>1, <1>3, HostsRewritten

\* ON DELETE SET NULL of jump_host_id
LEMMA RemoveHostKeeps ==
  ASSUME HostInv, NEW h, RemoveHost(h)
  PROVE  HostInv'
<1>1. /\ hosts' = [g \in DOMAIN hosts \ {h} |->
            IF hosts[g].jump = h THEN [hosts[g] EXCEPT !.jump = NoId] ELSE hosts[g]]
      /\ creds' = creds /\ units' = units
  BY DEF RemoveHost, HostUnchanged, orgVars, vaultVars
<1>2. /\ HostTable(hosts)
      /\ \A g \in DOMAIN hosts : Fits(hosts[g], creds, units) /\ Jumps(hosts[g], hosts)
  BY HostRows
<1>3. DOMAIN hosts' = DOMAIN hosts \ {h}
  BY <1>1
<1>4. ASSUME NEW g \in DOMAIN hosts'
      PROVE  /\ HostShape(hosts'[g])
             /\ hosts'[g].tenant = hosts[g].tenant /\ hosts'[g].box = hosts[g].box
             /\ hosts'[g].cred = hosts[g].cred /\ hosts'[g].ft = hosts[g].ft
             /\ hosts'[g].unit = hosts[g].unit
             /\ hosts'[g].jump = IF hosts[g].jump = h THEN NoId ELSE hosts[g].jump
  <2>1. HostShape(hosts[g])
    BY <1>2, <1>3 DEF HostTable
  <2>2. CASE hosts[g].jump = h
    <3>1. hosts'[g] = [hosts[g] EXCEPT !.jump = NoId]
      BY <1>1, <1>3, <2>2
    <3> QED BY <2>1, <2>2, <3>1 DEF HostShape
  <2>3. CASE hosts[g].jump # h
    BY <1>1, <1>3, <2>1, <2>3
  <2> QED BY <2>2, <2>3
<1>5. HostTable(hosts')
  BY <1>2, <1>3, <1>4 DEF HostTable, Bounded
<1>6. \A g \in DOMAIN hosts' : Fits(hosts'[g], creds', units')
  BY <1>1, <1>2, <1>3, <1>4 DEF Fits
<1>7. \A g \in DOMAIN hosts' : Jumps(hosts'[g], hosts')
  <2> SUFFICES ASSUME NEW g \in DOMAIN hosts', hosts'[g].jump # NoId
               PROVE  Jumps(hosts'[g], hosts')
    BY DEF Jumps
  <2>1. hosts[g].jump # h /\ hosts'[g].jump = hosts[g].jump /\ Jumps(hosts[g], hosts)
    BY <1>2, <1>3, <1>4
  <2>2. hosts[g].jump \in DOMAIN hosts' /\ hosts[hosts[g].jump].jump = NoId
    BY <1>3, <2>1 DEF Jumps
  <2>3. hosts'[hosts[g].jump].jump = NoId
    BY <1>4, <2>2
  <2> QED BY <1>4, <2>1, <2>2, <2>3 DEF Jumps
<1> QED BY <1>5, <1>6, <1>7, HostRows

\* The doors to hosts.
LEMMA HostNextKeeps ==
  ASSUME HostInv, HostNext
  PROVE  HostInv' /\ HostUnchanged
<1>1. ASSUME NEW t \in Tenants, NEW box \in BOOLEAN, NEW jump, NEW cred, NEW ft, NEW unit,
             CreateHost(HostRow(t, box, jump, cred, ft, unit))
      PROVE  HostInv' /\ HostUnchanged
  <2> DEFINE row == HostRow(t, box, jump, cred, ft, unit)
  <2>1. HostShape(row) /\ (row.jump # NoId => row.box = FALSE)
    BY HostRowShape
  <2>2. CreateHost(row)
    BY <1>1
  <2> HIDE DEF row
  <2>3. HostUnchanged
    BY <2>2 DEF CreateHost
  <2> QED BY <2>1, <2>2, <2>3, CreateHostKeeps
<1>2. ASSUME NEW t \in Tenants, NEW box \in BOOLEAN, NEW jump, NEW cred, NEW ft, NEW unit,
             \/ HostsCreate(t, box, jump, cred, ft, unit)
             \/ HostAdd(t, cred, ft, unit)
             \/ AgentCreateHost(t, box, jump, cred)
      PROVE  HostInv' /\ HostUnchanged
  BY <1>1, <1>2 DEF HostsCreate, HostAdd, AgentCreateHost
<1>3. ASSUME NEW h \in DOMAIN hosts, NEW box \in BOOLEAN, NEW jump, NEW cred, NEW ft, NEW unit,
             UpdateHost(h, HostRow(hosts[h].tenant, box, jump, cred, ft, unit))
      PROVE  HostInv' /\ HostUnchanged
  <2> DEFINE row == HostRow(hosts[h].tenant, box, jump, cred, ft, unit)
  <2>1. hosts[h].tenant \in Tenants
    BY HostRows DEF HostTable, HostShape
  <2>2. HostShape(row) /\ row.tenant = hosts[h].tenant /\ (row.jump # NoId => row.box = FALSE)
    BY <2>1, HostRowShape
  <2>3. UpdateHost(h, row)
    BY <1>3
  <2> HIDE DEF row
  <2>4. HostUnchanged
    BY <2>3 DEF UpdateHost
  <2> QED BY <2>2, <2>3, <2>4, UpdateHostKeeps
<1>4. ASSUME NEW h \in DOMAIN hosts, NEW box \in BOOLEAN, NEW jump, NEW cred, NEW ft, NEW unit,
             HostsUpdate(h, box, jump, cred, ft, unit) \/ AgentUpdateHost(h, box, jump, cred)
      PROVE  HostInv' /\ HostUnchanged
  BY <1>3, <1>4 DEF HostsUpdate, AgentUpdateHost
<1>5. ASSUME NEW h, NEW unit, HostsAssignOrg(h, unit) \/ ApplicationAssign(h, unit)
      PROVE  HostInv' /\ HostUnchanged
  <2>1. AssignHost(h, unit) /\ HostUnchanged
    BY <1>5 DEF HostsAssignOrg, ApplicationAssign, AssignHost
  <2> QED BY <2>1, AssignHostKeeps
<1>6. ASSUME NEW h, HostsDelete(h) \/ AgentDeleteHost(h)
      PROVE  HostInv' /\ HostUnchanged
  <2>1. RemoveHost(h) /\ HostUnchanged
    BY <1>6 DEF HostsDelete, AgentDeleteHost, RemoveHost
  <2> QED BY <2>1, RemoveHostKeeps
<1>7. FALSE \in BOOLEAN
  OBVIOUS
<1> QED BY <1>2, <1>4, <1>5, <1>6, <1>7 DEF HostNext

----------------------------------------------------------------------------
(* Pipelines and payloads *)

PipeRow(r, ct, ut) ==
  DOMAIN r = {"tenant", "cred", "unit"} /\ Exists(ct, r.cred) /\ Exists(ut, r.unit)

PayloadShape(r, pt) == DOMAIN r = {"pipe", "name"} /\ r.pipe \in DOMAIN pt /\ IsSequence(r.name)

\* The same, with the tables named, before a step and after it.
LEMMA PipeRows ==
  /\ PipeInv <=> /\ DOMAIN pipes \subseteq PipeIds /\ Bounded(pipes)
                 /\ \A p \in DOMAIN pipes : PipeRow(pipes[p], creds, units)
  /\ PipeInv' <=> /\ DOMAIN pipes' \subseteq PipeIds /\ Bounded(pipes')
                  /\ \A p \in DOMAIN pipes' : PipeRow(pipes'[p], creds', units')
  /\ PayloadInv <=> /\ DOMAIN payloads \subseteq PayloadIds /\ Bounded(payloads)
                    /\ \A l \in DOMAIN payloads : PayloadShape(payloads[l], pipes)
                    /\ PayloadsDistinct
  /\ PayloadInv' <=> /\ DOMAIN payloads' \subseteq PayloadIds /\ Bounded(payloads')
                     /\ \A l \in DOMAIN payloads' : PayloadShape(payloads'[l], pipes')
                     /\ PayloadsDistinct'
BY DEF PipeInv, PayloadInv, PipeRow, PayloadShape

\* Payloads outlive any step that keeps their pipelines.
LEMMA PayloadsStay ==
  ASSUME PayloadInv, payloads' = payloads, DOMAIN pipes \subseteq DOMAIN pipes'
  PROVE  PayloadInv'
BY DEF PayloadInv, PayloadsDistinct, Bounded

\* ON DELETE SET NULL of org_unit_id
LEMMA TreeKeepsPipes ==
  ASSUME PipeInv, pipes' = Unfiled(pipes), creds' = creds
  PROVE  PipeInv' /\ DOMAIN pipes' = DOMAIN pipes
<1>1. DOMAIN pipes' = DOMAIN pipes
  BY DEF Unfiled
<1>2. ASSUME NEW p \in DOMAIN pipes PROVE PipeRow(pipes'[p], creds', units')
  <2>1. PipeRow(pipes[p], creds, units)
    BY PipeRows
  <2>2. CASE pipes[p].unit \in DOMAIN units'
    <3>1. pipes'[p] = pipes[p]
      BY <2>2 DEF Unfiled
    <3> QED BY <2>1, <2>2, <3>1 DEF PipeRow, Exists
  <2>3. CASE pipes[p].unit \notin DOMAIN units'
    <3>1. pipes'[p] = [pipes[p] EXCEPT !.unit = NoId]
      BY <2>3 DEF Unfiled
    <3> QED BY <2>1, <3>1 DEF PipeRow, Exists
  <2> QED BY <2>2, <2>3
<1> QED BY <1>1, <1>2, PipeRows DEF Bounded

\* ON DELETE SET NULL of credential_id
LEMMA VaultKeepsPipes ==
  ASSUME PipeInv, VaultFrame
  PROVE  PipeInv' /\ DOMAIN pipes' = DOMAIN pipes
<1>1. /\ DOMAIN pipes' = DOMAIN pipes /\ units' = units
      /\ \A p \in DOMAIN pipes : pipes'[p] = [pipes[p] EXCEPT !.cred = Unbound(@)]
  BY DEF VaultFrame, orgVars
<1>2. ASSUME NEW p \in DOMAIN pipes PROVE PipeRow(pipes'[p], creds', units')
  <2>1. PipeRow(pipes[p], creds, units)
    BY PipeRows
  <2>2. /\ DOMAIN pipes'[p] = DOMAIN pipes[p] /\ pipes'[p].unit = pipes[p].unit
        /\ pipes'[p].cred = Unbound(pipes[p].cred)
    BY <1>1, <2>1 DEF PipeRow
  <2> QED BY <1>1, <2>1, <2>2 DEF PipeRow, Exists, Unbound
<1> QED BY <1>1, <1>2, PipeRows DEF Bounded

PipesKept == PipeInv' /\ PayloadInv' /\ PipeUnchanged

\* A pipeline is registered.
LEMMA AddPipelineKeeps ==
  ASSUME PipeInv, PayloadInv, NEW t, NEW cred, NEW unit, AddPipeline(t, cred, unit)
  PROVE  PipesKept
<1> DEFINE row == [tenant |-> t, cred |-> cred, unit |-> unit]
<1>1. /\ NewId(pipes) \in PipeIds /\ Exists(creds, cred) /\ Exists(units, unit)
      /\ pipes' = Put(pipes, NewId(pipes), row)
      /\ PipeUnchanged /\ payloads' = payloads /\ creds' = creds /\ units' = units
  BY DEF AddPipeline, PipeUnchanged, orgVars, vaultVars
<1>2. PipeRow(row, creds, units)
  BY <1>1 DEF PipeRow
<1> HIDE DEF row
<1>3. DOMAIN pipes \subseteq Nat /\ Bounded(pipes)
  BY InventoryAssumption DEF PipeInv
<1>4. /\ DOMAIN pipes' = DOMAIN pipes \cup {NewId(pipes)}
      /\ pipes'[NewId(pipes)] = row
      /\ \A x \in DOMAIN pipes : pipes'[x] = pipes[x]
      /\ Bounded(pipes')
  BY <1>1, <1>3, Inserted
<1>5. \A p \in DOMAIN pipes : PipeRow(pipes[p], creds, units)
  BY PipeRows
<1>6. \A p \in DOMAIN pipes' : PipeRow(pipes'[p], creds', units')
  BY <1>1, <1>2, <1>4, <1>5
<1>7. DOMAIN pipes' \subseteq PipeIds
  BY <1>1, <1>4 DEF PipeInv
<1>8. PipeInv'
  BY <1>4, <1>6, <1>7, PipeRows
<1>9. PayloadInv'
  BY <1>1, <1>4, PayloadsStay
<1> QED BY <1>1, <1>8, <1>9 DEF PipesKept

\* A pipeline's credential and place are set.
LEMMA SetPipelineKeeps ==
  ASSUME PipeInv, PayloadInv, NEW p \in DOMAIN pipes, NEW cred, NEW unit,
         Exists(units, unit), PipeUnchanged, payloads' = payloads,
         \/ Exists(creds, cred) /\ pipes' = [pipes EXCEPT ![p].cred = cred, ![p].unit = unit]
         \/ pipes' = [pipes EXCEPT ![p].unit = unit]
  PROVE  PipesKept
<1>1. creds' = creds /\ units' = units
  BY DEF PipeUnchanged, orgVars, vaultVars
<1>2. \A x \in DOMAIN pipes : PipeRow(pipes[x], creds, units)
  BY PipeRows
<1>3. /\ DOMAIN pipes' = DOMAIN pipes
      /\ \A x \in DOMAIN pipes \ {p} : pipes'[x] = pipes[x]
  OBVIOUS
<1>4. PipeRow(pipes'[p], creds, units)
  <2>1. PipeRow(pipes[p], creds, units)
    BY <1>2
  <2>2. /\ DOMAIN pipes'[p] = DOMAIN pipes[p] /\ pipes'[p].unit = unit
        /\ pipes'[p].cred = pipes[p].cred \/ (Exists(creds, cred) /\ pipes'[p].cred = cred)
    BY <2>1 DEF PipeRow
  <2> QED BY <2>1, <2>2 DEF PipeRow
<1>5. \A x \in DOMAIN pipes' : PipeRow(pipes'[x], creds', units')
  BY <1>1, <1>2, <1>3, <1>4
<1>6. PipeInv'
  BY <1>3, <1>5, PipeRows DEF Bounded
<1>7. PayloadInv'
  BY <1>3, PayloadsStay
<1> QED BY <1>6, <1>7 DEF PipesKept

\* ON DELETE CASCADE of pipeline_payloads.pipeline_id
LEMMA RemovePipelineKeeps ==
  ASSUME PipeInv, PayloadInv, NEW p, RemovePipeline(p)
  PROVE  PipesKept
<1>1. PipeUnchanged /\ creds' = creds /\ units' = units
  BY DEF RemovePipeline, PipeUnchanged, orgVars, vaultVars
<1>2. /\ DOMAIN pipes' = DOMAIN pipes \ {p}
      /\ \A x \in DOMAIN pipes' : pipes'[x] = pipes[x]
  BY DEF RemovePipeline, Without, Restrict
<1>3. /\ DOMAIN payloads' = {l \in DOMAIN payloads : payloads[l].pipe # p}
      /\ \A l \in DOMAIN payloads' : payloads'[l] = payloads[l]
  BY DEF RemovePipeline, Without, Restrict
<1>4. PipeInv'
  <2>1. \A x \in DOMAIN pipes' : PipeRow(pipes'[x], creds', units')
    BY <1>1, <1>2, PipeRows
  <2>2. DOMAIN pipes' \subseteq PipeIds /\ Bounded(pipes')
    BY <1>2 DEF PipeInv, Bounded
  <2> QED BY <2>1, <2>2, PipeRows
<1>5. PayloadInv'
  <2>1. \A l \in DOMAIN payloads' : PayloadShape(payloads'[l], pipes')
    BY <1>2, <1>3 DEF PayloadInv, PayloadShape
  <2>2. DOMAIN payloads' \subseteq PayloadIds /\ Bounded(payloads')
    BY <1>3 DEF PayloadInv, Bounded
  <2>3. PayloadsDistinct'
    BY <1>3 DEF PayloadInv, PayloadsDistinct
  <2> QED BY <2>1, <2>2, <2>3, PipeRows
<1> QED BY <1>1, <1>4, <1>5 DEF PipesKept

\* A payload is added under a name that is free.
LEMMA AddPayloadKeeps ==
  ASSUME PipeInv, PayloadInv, NEW p \in DOMAIN pipes, NEW name, IsSequence(name),
         PayloadNameFree(p, name, NoId), AddPayload(p, name)
  PROVE  PipesKept
<1> DEFINE row == [pipe |-> p, name |-> name]
<1>1. /\ NewId(payloads) \in PayloadIds /\ payloads' = Put(payloads, NewId(payloads), row)
      /\ PipeUnchanged /\ pipes' = pipes /\ creds' = creds /\ units' = units
  BY DEF AddPayload, PipeUnchanged, orgVars, vaultVars
<1>2. PayloadShape(row, pipes) /\ row.pipe = p /\ row.name = name
  BY DEF PayloadShape
<1> HIDE DEF row
<1>3. DOMAIN payloads \subseteq Nat /\ Bounded(payloads) /\ NoId \notin DOMAIN payloads
  BY InventoryAssumption DEF PayloadInv
<1>4. /\ DOMAIN payloads' = DOMAIN payloads \cup {NewId(payloads)}
      /\ payloads'[NewId(payloads)] = row
      /\ \A x \in DOMAIN payloads : payloads'[x] = payloads[x]
      /\ Bounded(payloads')
  BY <1>1, <1>3, Inserted
<1>5. \A l \in DOMAIN payloads : PayloadShape(payloads[l], pipes)
  BY PipeRows
<1>6. \A l \in DOMAIN payloads' : PayloadShape(payloads'[l], pipes')
  BY <1>1, <1>2, <1>4, <1>5
<1>7. DOMAIN payloads' \subseteq PayloadIds
  BY <1>1, <1>4 DEF PayloadInv
<1>8. PayloadsDistinct'
  <2>1. \A l \in DOMAIN payloads : payloads[l].pipe = p => payloads[l].name # name
    BY <1>3 DEF PayloadNameFree
  <2> QED BY <1>2, <1>4, <2>1 DEF PayloadInv, PayloadsDistinct
<1>9. PayloadInv'
  BY <1>4, <1>6, <1>7, <1>8, PipeRows
<1>10. PipeInv'
  BY <1>1 DEF PipeInv, Bounded, Exists
<1> QED BY <1>1, <1>9, <1>10 DEF PipesKept

\* The name derived for a copy is free on the pipeline.
LEMMA CopyNameFree ==
  ASSUME PayloadInv, NEW l \in DOMAIN payloads
  PROVE  /\ IsSequence(CopyName(l))
         /\ PayloadNameFree(payloads[l].pipe, CopyName(l), NoId)
<1> DEFINE p == payloads[l].pipe
           base == payloads[l].name
           mine == {m \in DOMAIN payloads \ {NoId} : payloads[m].pipe = p}
           taken == {payloads[m].name : m \in mine}
           Free(k) == PayloadNameFree(p, Append(base, k), NoId)
           n == Cardinality(DOMAIN payloads)
           first == CHOOSE k \in 1..(n + 1) : Free(k) /\ \A i \in 1..(k - 1) : ~Free(i)
<1>1. IsFiniteSet(DOMAIN payloads) /\ n \in Nat
  <2>1. DOMAIN payloads \subseteq Nat /\ Bounded(payloads)
    BY InventoryAssumption DEF PayloadInv
  <2> QED BY <2>1, TableFinite
<1>2. IsFiniteSet(mine) /\ Cardinality(mine) <= n
  <2>1. mine \in SUBSET DOMAIN payloads
    OBVIOUS
  <2> QED BY <1>1, <2>1, FS_Subset
<1>3. IsFiniteSet(taken) /\ Cardinality(taken) <= Cardinality(mine)
  <2> DEFINE g == [m \in mine |-> payloads[m].name]
  <2>1. g \in Surjection(mine, taken)
    BY DEF Surjection
  <2> HIDE DEF g, mine, taken
  <2> QED BY <1>2, <2>1, FS_Surjection
<1>4. Cardinality(taken) \in Nat /\ Cardinality(mine) \in Nat
  BY <1>2, <1>3, FS_CardinalityType
<1>5. IsSequence(base)
  BY DEF PayloadInv
<1>6. \A k : Free(k) <=> Append(base, k) \notin taken
  BY DEF PayloadNameFree
<1>7. CopyName(l) = Append(base, first)
  BY DEF CopyName
<1> HIDE DEF taken, mine, n, base, Free
<1>8. \E k \in 1..(n + 1) : Free(k) /\ \A i \in 1..(k - 1) : ~Free(i)
  <2>1. 1 \in Nat /\ n + 1 \in Nat /\ (n + 1) - 1 >= Cardinality(taken)
    BY <1>1, <1>2, <1>3, <1>4
  <2>2. \E k \in 1..(n + 1) : /\ Append(base, k) \notin taken
                              /\ \A i \in 1..(k - 1) : Append(base, i) \in taken
    BY <1>3, <1>5, <2>1, FirstFree
  <2> QED BY <1>6, <2>2
<1>9. Free(first)
  BY <1>8
<1> HIDE DEF first
<1>10. IsSequence(CopyName(l))
  BY <1>5, <1>7, SequencesGrow
<1>11. PayloadNameFree(p, Append(base, first), NoId)
  BY <1>9 DEF Free
<1> QED BY <1>7, <1>10, <1>11

\* A payload's name changes to one that is free beside its own.
LEMMA UpdatePayloadKeeps ==
  ASSUME PipeInv, PayloadInv, NEW l, NEW n, IsSequence(<<n>>), UpdatePayload(l, n)
  PROVE  PipesKept
<1>1. /\ l \in DOMAIN payloads /\ PayloadNameFree(payloads[l].pipe, <<n>>, l)
      /\ payloads' = [payloads EXCEPT ![l].name = <<n>>]
      /\ PipeUnchanged /\ pipes' = pipes /\ creds' = creds /\ units' = units
  BY DEF UpdatePayload, PipeUnchanged, orgVars, vaultVars
<1>2. \A m \in DOMAIN payloads : PayloadShape(payloads[m], pipes)
  BY PipeRows
<1>3. /\ DOMAIN payloads' = DOMAIN payloads
      /\ \A m \in DOMAIN payloads \ {l} : payloads'[m] = payloads[m]
      /\ payloads'[l].name = <<n>> /\ payloads'[l].pipe = payloads[l].pipe
      /\ DOMAIN payloads'[l] = DOMAIN payloads[l]
  BY <1>1, <1>2 DEF PayloadShape
<1>4. PayloadShape(payloads'[l], pipes)
  BY <1>1, <1>2, <1>3 DEF PayloadShape
<1>5. \A m \in DOMAIN payloads' : PayloadShape(payloads'[m], pipes')
  BY <1>1, <1>2, <1>3, <1>4
<1>6. PayloadsDistinct'
  <2>1. \A m \in DOMAIN payloads \ {l} :
          payloads[m].pipe = payloads[l].pipe => payloads[m].name # <<n>>
    BY <1>1 DEF PayloadNameFree
  <2> QED BY <1>1, <1>3, <2>1 DEF PayloadInv, PayloadsDistinct
<1>7. DOMAIN payloads' \subseteq PayloadIds /\ Bounded(payloads')
  BY <1>3 DEF PayloadInv, Bounded
<1>8. PayloadInv'
  BY <1>5, <1>6, <1>7, PipeRows
<1>9. PipeInv'
  BY <1>1 DEF PipeInv, Bounded, Exists
<1> QED BY <1>1, <1>8, <1>9 DEF PipesKept

\* A payload goes.
LEMMA DeletePayloadKeeps ==
  ASSUME PipeInv, PayloadInv, NEW l, DeletePayload(l)
  PROVE  PipesKept
<1>1. PipeUnchanged /\ pipes' = pipes /\ creds' = creds /\ units' = units
  BY DEF DeletePayload, PipeUnchanged, orgVars, vaultVars
<1>2. /\ DOMAIN payloads' = DOMAIN payloads \ {l}
      /\ \A m \in DOMAIN payloads' : payloads'[m] = payloads[m]
  BY DEF DeletePayload, Without, Restrict
<1>3. \A m \in DOMAIN payloads' : PayloadShape(payloads'[m], pipes')
  BY <1>1, <1>2, PipeRows
<1>4. /\ DOMAIN payloads' \subseteq PayloadIds /\ Bounded(payloads')
      /\ PayloadsDistinct'
  BY <1>2 DEF PayloadInv, Bounded, PayloadsDistinct
<1>5. PayloadInv'
  BY <1>3, <1>4, PipeRows
<1>6. PipeInv'
  BY <1>1 DEF PipeInv, Bounded, Exists
<1> QED BY <1>1, <1>5, <1>6 DEF PipesKept

\* The doors to pipelines and payloads.
LEMMA PipeNextKeeps ==
  ASSUME PipeInv, PayloadInv, PipeNext
  PROVE  PipesKept
<1>0. ASSUME NEW e PROVE IsSequence(<<e>>)
  <2>1. << >> \in Seq({}) /\ Len(<< >>) = 0
    OBVIOUS
  <2>2. IsSequence(<< >>)
    BY <2>1 DEF IsSequence
  <2> QED BY <2>2, SequencesGrow
<1>1. ASSUME NEW t, NEW cred, NEW unit,
             \/ PipelinesCreate(t, cred, unit) \/ PipelineAdd(t, cred, unit)
             \/ AgentCreatePipeline(t, cred)
      PROVE  PipesKept
  BY <1>1, AddPipelineKeeps DEF PipelinesCreate, PipelineAdd, AgentCreatePipeline
<1>2. ASSUME NEW p, NEW cred, NEW unit,
             PipelinesUpdate(p, cred, unit) \/ AgentUpdatePipeline(p, cred)
      PROVE  PipesKept
  <2>1. PICK u : SetPipeline(p, cred, u)
    BY <1>2 DEF PipelinesUpdate, AgentUpdatePipeline
  <2> QED BY <2>1, SetPipelineKeeps DEF SetPipeline
<1>3. ASSUME NEW p, NEW unit, PipelinesAssignOrg(p, unit)
      PROVE  PipesKept
  <2>1. /\ p \in DOMAIN pipes /\ InTenant(units, unit, pipes[p].tenant)
        /\ pipes' = [pipes EXCEPT ![p].unit = unit]
        /\ PipeUnchanged /\ payloads' = payloads
    BY <1>3 DEF PipelinesAssignOrg
  <2>2. Exists(units, unit)
    BY <2>1 DEF InTenant, Exists
  <2> QED BY <2>1, <2>2, SetPipelineKeeps
<1>4. ASSUME NEW p, PipelinesDelete(p) \/ AgentDeletePipeline(p)
      PROVE  PipesKept
  BY <1>4, RemovePipelineKeeps DEF PipelinesDelete, AgentDeletePipeline
<1>5. ASSUME NEW p, NEW n, PayloadCreate(p, n) \/ PayloadAdd(p, n)
      PROVE  PipesKept
  <2>1. p \in DOMAIN pipes /\ PayloadNameFree(p, <<n>>, NoId) /\ AddPayload(p, <<n>>)
    BY <1>5 DEF PayloadCreate, PayloadAdd, CreatePayload
  <2>2. IsSequence(<<n>>)
    BY <1>0
  <2> QED BY <2>1, <2>2, AddPayloadKeeps
<1>6. ASSUME NEW l, NEW n, PayloadUpdate(l, n) \/ PayloadRename(l, n)
      PROVE  PipesKept
  <2>1. UpdatePayload(l, n)
    BY <1>6 DEF PayloadUpdate, PayloadRename
  <2>2. IsSequence(<<n>>)
    BY <1>0
  <2> QED BY <2>1, <2>2, UpdatePayloadKeeps
<1>7. ASSUME NEW l, PayloadCopy(l) \/ PayloadCopyCli(l)
      PROVE  PipesKept
  <2>1. l \in DOMAIN payloads /\ AddPayload(payloads[l].pipe, CopyName(l))
    BY <1>7 DEF PayloadCopy, PayloadCopyCli, CopyPayload
  <2>2. payloads[l].pipe \in DOMAIN pipes
    BY <2>1 DEF PayloadInv
  <2>3. IsSequence(CopyName(l)) /\ PayloadNameFree(payloads[l].pipe, CopyName(l), NoId)
    BY <2>1, CopyNameFree
  <2> QED BY <2>1, <2>2, <2>3, AddPayloadKeeps
<1>8. ASSUME NEW l, PayloadDelete(l) \/ PayloadRm(l)
      PROVE  PipesKept
  BY <1>8, DeletePayloadKeeps DEF PayloadDelete, PayloadRm
<1> QED BY <1>1, <1>2, <1>3, <1>4, <1>5, <1>6, <1>7, <1>8 DEF PipeNext

----------------------------------------------------------------------------
(* The inventory as a whole *)

\* A table that does not change keeps what only depends on it.
LEMMA TreeStays ==
  ASSUME TreeInv, UNCHANGED orgVars
  PROVE  TreeInv'
BY DEF TreeInv, UnitsTyped, TreeSound, Placed, SiblingsNamed, SlugsDistinct, Bounded, orgVars

\* Nor do the vault's tables change by themselves.
LEMMA VaultStays ==
  ASSUME VaultInv, UNCHANGED vaultVars
  PROVE  VaultInv'
BY DEF VaultInv, CredsInv, SourcesInv, SecretsInv, SecretRow, TokenIsOwn, TokenPath,
       Bounded, vaultVars

\* Hosts depend on their own table, the tree and the profiles.
LEMMA HostsStay ==
  ASSUME HostInv, UNCHANGED <<orgVars, vaultVars, hosts>>
  PROVE  HostInv'
BY DEF HostInv, HostsClosed, JumpsDirect, InTenant, Bounded, orgVars, vaultVars

\* Pipelines and payloads depend on their own tables, the tree and the profiles.
LEMMA PipesStay ==
  ASSUME PipeInv, PayloadInv, UNCHANGED <<orgVars, vaultVars, pipes, payloads>>
  PROVE  PipeInv' /\ PayloadInv'
BY DEF PipeInv, PayloadInv, PayloadsDistinct, Exists, Bounded, orgVars, vaultVars

\* Every table is empty.
LEMMA InventoryInit == Init => InventoryInv
<1> SUFFICES ASSUME Init PROVE InventoryInv
  OBVIOUS
<1>1. /\ DOMAIN units = {} /\ DOMAIN creds = {} /\ DOMAIN sources = {} /\ DOMAIN secrets = {}
      /\ DOMAIN hosts = {} /\ DOMAIN pipes = {} /\ DOMAIN payloads = {} /\ asked = NoId
  BY DEF Init
<1>2. \A table : DOMAIN table = {} => Bounded(table)
  BY DEF Bounded
<1>3. TreeInv
  BY <1>1, <1>2 DEF TreeInv, UnitsTyped, TreeSound, SiblingsNamed, SlugsDistinct
<1>4. VaultInv
  BY <1>1, <1>2 DEF VaultInv, CredsInv, SourcesInv, SecretsInv, TokenIsOwn
<1>5. HostInv
  BY <1>1, <1>2 DEF HostInv, HostsClosed, JumpsDirect
<1>6. PipeInv /\ PayloadInv
  BY <1>1, <1>2 DEF PipeInv, PayloadInv, PayloadsDistinct
<1> QED BY <1>3, <1>4, <1>5, <1>6 DEF InventoryInv

\* Every door preserves the invariant.
LEMMA InventoryNext == InventoryInv /\ [Next]_vars => InventoryInv'
<1> SUFFICES ASSUME InventoryInv, [Next]_vars PROVE InventoryInv'
  OBVIOUS
<1>0. TreeInv /\ VaultInv /\ HostInv /\ PipeInv /\ PayloadInv
  BY DEF InventoryInv
<1>1. CASE TreeNext
  <2>1. /\ TreeInv' /\ UnitsStay
        /\ hosts' = Unfiled(hosts) /\ pipes' = Unfiled(pipes)
        /\ UNCHANGED <<vaultVars, payloads>>
    BY <1>0, <1>1, TreeNextKeeps
  <2>2. creds' = creds
    BY <2>1 DEF vaultVars
  <2>3. VaultInv' /\ HostInv'
    BY <1>0, <2>1, <2>2, VaultStays, TreeKeepsHosts
  <2>4. PipeInv' /\ DOMAIN pipes' = DOMAIN pipes
    BY <1>0, <2>1, <2>2, TreeKeepsPipes
  <2>5. PayloadInv'
    BY <1>0, <2>1, <2>4, PayloadsStay
  <2> QED BY <2>1, <2>3, <2>4, <2>5 DEF InventoryInv
<1>2. CASE CredentialNext \/ SourceNext
  <2>1. VaultInv' /\ CredsStay /\ VaultFrame
    BY <1>0, <1>2, CredentialNextKeeps, SourceNextKeeps DEF VaultKept
  <2>2. UNCHANGED orgVars /\ payloads' = payloads
    BY <2>1 DEF VaultFrame
  <2>3. TreeInv' /\ HostInv'
    BY <1>0, <2>1, <2>2, TreeStays, VaultKeepsHosts
  <2>4. PipeInv' /\ DOMAIN pipes' = DOMAIN pipes
    BY <1>0, <2>1, VaultKeepsPipes
  <2>5. PayloadInv'
    BY <1>0, <2>2, <2>4, PayloadsStay
  <2> QED BY <2>1, <2>3, <2>4, <2>5 DEF InventoryInv
<1>3. CASE HostNext
  <2>1. HostInv' /\ UNCHANGED <<orgVars, vaultVars, pipes, payloads>>
    BY <1>0, <1>3, HostNextKeeps DEF HostUnchanged
  <2> QED BY <1>0, <2>1, TreeStays, VaultStays, PipesStay DEF InventoryInv
<1>4. CASE PipeNext
  <2>1. PipeInv' /\ PayloadInv' /\ UNCHANGED <<orgVars, vaultVars, hosts>>
    BY <1>0, <1>4, PipeNextKeeps DEF PipesKept, PipeUnchanged
  <2> QED BY <1>0, <2>1, TreeStays, VaultStays, HostsStay DEF InventoryInv
<1>5. CASE UNCHANGED vars
  <2>1. UNCHANGED orgVars /\ UNCHANGED vaultVars
        /\ hosts' = hosts /\ pipes' = pipes /\ payloads' = payloads
    BY <1>5 DEF vars, orgVars, vaultVars
  <2> QED BY <1>0, <2>1, TreeStays, VaultStays, HostsStay, PipesStay DEF InventoryInv
<1> QED BY <1>1, <1>2, <1>3, <1>4, <1>5 DEF Next

\* Every reachable state of the inventory satisfies the inductive invariant.
THEOREM InventoryInvariant == Spec => []InventoryInv
BY InventoryInit, InventoryNext, PTL DEF Spec

\* "Every operational row belongs to exactly one tenant": whichever door was used and
\* whatever was deleted, the tree, what hosts are bound to and every reference lead to
\* a row of the same tenant (hosts/repo.py, applications/repo.py, the ON DELETE rules).
THEOREM RowsStayInTenant == Spec => []TenantsClosed
<1>1. InventoryInv => TenantsClosed
  <2> SUFFICES ASSUME InventoryInv PROVE TenantsClosed
    OBVIOUS
  <2>0. TreeInv /\ VaultInv /\ HostInv /\ PipeInv /\ PayloadInv
    BY DEF InventoryInv
  <2>1. OrgTypeOK
    <3>1. \A u \in DOMAIN units : units[u].parent \in UnitIds \cup {NoId}
      <4>1. \A u \in DOMAIN units : PlacedRow(units, units[u])
        BY <2>0, TreeRows DEF TreeInv
      <4> QED BY <2>0, <4>1 DEF PlacedRow, TreeInv, UnitsTyped
    <3> QED BY <2>0, <3>1 DEF TreeInv, UnitsTyped, UnitRow, OrgTypeOK
  <2>2. VaultTypeOK
    <3>1. \A c \in DOMAIN creds :
            creds[c].tenant \in Tenants /\ creds[c].name \in CredNames /\ creds[c].kind \in Kinds
      BY <2>0 DEF VaultInv, CredsInv, CredRow
    <3>2. \A s \in DOMAIN sources :
            sources[s].tenant \in Tenants /\ sources[s].token \in BOOLEAN
      BY <2>0 DEF VaultInv, SourcesInv, SourceRow
    <3>3. \A p \in DOMAIN secrets : /\ secrets[p].tenant \in Tenants
                                    /\ secrets[p].source \in DOMAIN sources \cup {NoId}
      BY <2>0 DEF VaultInv, SecretsInv, SecretRow
    <3>4. DOMAIN creds \subseteq CredIds /\ DOMAIN sources \subseteq SourceIds
      BY <2>0 DEF VaultInv, CredsInv, SourcesInv
    <3> QED BY <3>1, <3>2, <3>3, <3>4 DEF VaultTypeOK
  <2>3. TypeOK
    <3>1. /\ DOMAIN hosts \subseteq HostIds
          /\ \A h \in DOMAIN hosts : hosts[h].tenant \in Tenants /\ hosts[h].box \in BOOLEAN
      BY <2>0 DEF HostInv, HostShape
    <3> QED BY <2>0, <2>1, <2>2, <3>1 DEF PipeInv, PayloadInv, TypeOK
  <2> QED BY <2>0, <2>3 DEF TreeInv, HostInv, TenantsClosed
<1> QED BY <1>1, InventoryInvariant, PTL

\* get_by_path, the slugs and uq_payload_pipeline_name: what is looked up by name is
\* found once, the suffixed slugs and the derived names of copies included.
THEOREM NamesFoundOnce == Spec => []NamesDistinct
<1>1. InventoryInv => NamesDistinct
  BY PathsApart DEF InventoryInv, TreeInv, PayloadInv, NamesDistinct
<1> QED BY <1>1, InventoryInvariant, PTL

\* The walk of resolve_jump_chain ends after one hop: a jump host is a jumpbox of the
\* host's tenant and has no jump host of its own.
THEOREM JumpsEnd == Spec => []JumpsDirect
<1>1. InventoryInv => JumpsDirect
  BY DEF InventoryInv, HostInv
<1> QED BY <1>1, InventoryInvariant, PTL

\* An automatic secret path, its users' paths included, only ever holds what was
\* written for the profile's tenant, also after renames, deletions that leave the
\* secret behind, and profiles made anew under the same name.
THEOREM SecretsStayInTenant == Spec => []TenantsApart
<1>1. InventoryInv => TenantsApart
  BY AreasApart DEF InventoryInv
<1> QED BY <1>1, InventoryInvariant, PTL

\* A monitoring source's row never leads to the token of an earlier source with the
\* same id, whichever write failed and whichever deletion was ignored.
THEOREM TokensAreOwn == Spec => []TokenIsOwn
<1>1. InventoryInv => TokenIsOwn
  BY DEF InventoryInv, VaultInv, SecretsInv
<1> QED BY <1>1, InventoryInvariant, PTL
=============================================================================
