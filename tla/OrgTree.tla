------------------------------- MODULE OrgTree -------------------------------
(***************************************************************************)
(* The application -> environment -> unit tree that hosts and pipelines    *)
(* are filed in (applications/repo.py, its web routes and the              *)
(* `dosm application` commands).  Rows of org_units are a partial function *)
(* from ids to records.  A name is an opaque value with two projections    *)
(* the code compares: its lower-case form and the slug made of it; a slug  *)
(* is the sequence of its dash-separated parts, so that the suffix added   *)
(* by _unique_slug is an Append and "a" + "-2" meets the slug of "a 2".    *)
(***************************************************************************)
EXTENDS Naturals, Sequences, FiniteSets, Tables

CONSTANTS UnitIds, Names, Lower

IsSequence(s) == Len(s) \in Nat /\ s = [i \in 1..Len(s) |-> s[i]]

ASSUME OrgTreeAssumption ==
  /\ UnitIds \subseteq Nat \ {0}
  /\ NoId \notin UnitIds
  /\ Lower \in [Names -> Names]
  /\ Names \subseteq DOMAIN SlugOf
  /\ \A n \in Names : IsSequence(SlugOf[n])

VARIABLES
  units,    \* org_units: id -> [tenant, name, slug, tier, parent]
  asked     \* the node a `dosm application rm` asks about, or NoId

Tiers == {"application", "environment", "unit"}

ParentTier == [application |-> "", environment |-> "application",
               unit |-> "environment"]

ChildTier == [application |-> "environment", environment |-> "unit", unit |-> ""]

ChildrenOf(p, t) ==
  {u \in DOMAIN units : units[u].parent = p /\ units[u].tenant = t}

NameFree(p, n, t, except) ==
  \A u \in ChildrenOf(p, t) \ {except} : Lower[units[u].name] # Lower[n]

\* Mutant: the first suffix is taken without looking whether it is free.
UniqueSlugOnce(p, base, t, except) ==
  LET taken == {units[u].slug : u \in ChildrenOf(p, t) \ {except}}
  IN  IF base \in taken THEN Append(base, 2) ELSE base

UniqueSlug(p, base, t, except) ==
  LET taken == {units[u].slug : u \in ChildrenOf(p, t) \ {except}}
      Free(i) == Append(base, i) \notin taken
      first   == CHOOSE i \in 2..(Cardinality(taken) + 2) :
                   Free(i) /\ \A j \in 2..(i - 1) : ~Free(j)
  IN  IF base \in taken THEN Append(base, first) ELSE base

Placed(tier, p, t) ==
  IF ParentTier[tier] = "" THEN p = NoId
  ELSE /\ p \in DOMAIN units
       /\ units[p].tenant = t
       /\ units[p].tier = ParentTier[tier]

CreateUnit(t, n, tier, p) ==
  /\ NewId(units) \in UnitIds
  /\ Placed(tier, p, t)
  /\ NameFree(p, n, t, NoId)
  /\ units' = Put(units, NewId(units),
                  [tenant |-> t, name |-> n, tier |-> tier, parent |-> p,
                   slug |-> UniqueSlug(p, SlugOf[n], t, NoId)])
  /\ UNCHANGED asked

WebCreateUnit(t, n, tier, p) == CreateUnit(t, n, tier, p)

\* `dosm application add`: the tier is inferred from the parent when it is left out.
ApplicationAdd(t, n, p) ==
  /\ p # NoId => /\ p \in DOMAIN units
                 /\ units[p].tenant = t
                 /\ units[p].tier # "unit"
  /\ CreateUnit(t, n, IF p = NoId THEN "application" ELSE ChildTier[units[p].tier], p)

UpdateUnit(u, n) ==
  LET row == units[u]
  IN  /\ NameFree(row.parent, n, row.tenant, u)
      /\ units' = [units EXCEPT ![u].name = n,
                                ![u].slug = IF Lower[n] = Lower[row.name] THEN row.slug
                                            ELSE UniqueSlug(row.parent, SlugOf[n], row.tenant, u)]
      /\ UNCHANGED asked

EditUnit(u, n) == u \in DOMAIN units /\ UpdateUnit(u, n)

ApplicationRename(u, n) == u \in DOMAIN units /\ UpdateUnit(u, n)

Kids(S) == {u \in DOMAIN units : units[u].parent \in S}

\* Three tiers, so two generations below a node are its whole subtree.
Subtree(u) == {u} \cup Kids({u}) \cup Kids(Kids({u}))

RemoveUnit(u) == units' = Without(units, Subtree(u))

DeleteUnit(u) ==
  /\ u \in DOMAIN units
  /\ RemoveUnit(u)
  /\ UNCHANGED asked

\* `dosm application rm` resolves the node, then waits for the operator.
ApplicationRmAsks(u) ==
  /\ asked = NoId
  /\ u \in DOMAIN units
  /\ asked' = u
  /\ UNCHANGED units

\* The answer: the row with that id is deleted, if there still is one.
ApplicationRmAnswered(yes) ==
  /\ asked # NoId
  /\ asked' = NoId
  /\ IF yes /\ asked \in DOMAIN units THEN RemoveUnit(asked) ELSE UNCHANGED units

\* OrgUnit.path, the chain from the application down to the node.
Path(u) ==
  LET up(v) == units[v].parent
      name(v) == Lower[units[v].name]
  IN  CASE units[u].tier = "application" -> <<name(u)>>
        [] units[u].tier = "environment" -> <<name(up(u)), name(u)>>
        [] units[u].tier = "unit" -> <<name(up(up(u))), name(up(u)), name(u)>>

OrgTypeOK ==
  /\ DOMAIN units \subseteq UnitIds
  /\ asked \in UnitIds \cup {NoId}
  /\ \A u \in DOMAIN units :
       /\ units[u].tenant \in Tenants
       /\ units[u].name \in Names
       /\ units[u].tier \in Tiers
       /\ units[u].parent \in UnitIds \cup {NoId}

(***************************************************************************)
(* The hierarchy the repo layer enforces: an application has no parent, an *)
(* environment hangs under an application and a unit under an environment, *)
(* in the same tenant, and no cascade leaves a node without its parent.    *)
(***************************************************************************)
TreeSound ==
  \A u \in DOMAIN units : Placed(units[u].tier, units[u].parent, units[u].tenant)

(***************************************************************************)
(* get_by_path finds a node by its names, in any case, and fails when two  *)
(* rows answer: no two nodes of a tenant have the same path.               *)
(***************************************************************************)
PathsDistinct ==
  \A u, v \in DOMAIN units :
    units[u].tenant = units[v].tenant /\ Path(u) = Path(v) => u = v

(***************************************************************************)
(* No two siblings have the same slug, whatever suffixes renames and       *)
(* creations added: the database does not check slugs at all.              *)
(***************************************************************************)
SlugsDistinct ==
  \A u, v \in DOMAIN units :
    /\ units[u].tenant = units[v].tenant
    /\ units[u].parent = units[v].parent
    /\ units[u].slug = units[v].slug
    => u = v
=============================================================================
