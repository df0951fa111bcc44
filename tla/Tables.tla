------------------------------- MODULE Tables --------------------------------
(***************************************************************************)
(* What the inventory's tables have in common: a table is a partial        *)
(* function from row ids to records, a reference is an id or NoId (NULL),  *)
(* and a new row gets the id after the greatest in use: SQLite gives the   *)
(* id of a deleted last row again, the keys being plain integers.          *)
(***************************************************************************)
EXTENDS Naturals, Functions

CONSTANTS
  Tenants,   \* tenants.id
  SlugOf,    \* the slug of a name
  NoId       \* NULL

Put(table, id, row) ==
  [x \in DOMAIN table \cup {id} |-> IF x = id THEN row ELSE table[x]]

NewId(table) ==
  IF DOMAIN table = {} THEN 1
  ELSE 1 + CHOOSE m \in DOMAIN table : \A x \in DOMAIN table : x <= m

Without(table, ids) == Restrict(table, DOMAIN table \ ids)
=============================================================================
