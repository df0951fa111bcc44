---------------------------- MODULE MirrorState -----------------------------
(***************************************************************************)
(* One Confluence listener: the space, the files mirrored from it into the *)
(* docs store, the ConfluenceSyncItem rows, the syncs, and what must       *)
(* always hold of them.  ConfluenceSync has the steps.                     *)
(***************************************************************************)
EXTENDS Naturals, Sequences, FiniteSets

CONSTANTS
  Pages, Attachments,
  Parent,     \* the page of each attachment
  Titles,     \* page titles, part of the file's path
  Poller,
  Users,      \* requests for sync-now
  MaxVersion, \* bound: edits of one page or attachment
  MaxFailures \* bound: failures and crashes

ASSUME MirrorAssumption ==
  /\ IsFiniteSet(Pages) /\ IsFiniteSet(Attachments) /\ Titles # {}
  /\ Parent \in [Attachments -> Pages]
  /\ MaxVersion \in Nat \ {0} /\ MaxFailures \in Nat
  /\ Poller \notin Users

VARIABLES
  remote,   \* the space: version (0: never created) and title of each item
  trashed,  \* items that were removed from it
  row,      \* the committed sync items, version 0 when there is none
  file,     \* file[i][t]: the version whose text the file of i under title t has
  listener, \* "on", "off" (disabled), "gone"
  job,      \* what each syncer is doing
  failures  \* failures so far

Items == Pages \cup Attachments
Syncers == Users \cup {Poller}
NoItem == [ver |-> 0, title |-> CHOOSE t \in Titles : TRUE]
At(y, pc) == job[y].pc = pc

----------------------------------------------------------------------------
(* Properties. *)

ItemType == [ver : 0..MaxVersion, title : Titles]

\* The state has its shape, and every job carries the rows it loaded.
MirrorTyped ==
  /\ remote \in [Items -> ItemType] /\ row \in [Items -> ItemType]
  /\ file \in [Items -> [Titles -> 0..MaxVersion]]
  /\ trashed \subseteq Items
  /\ listener \in {"on", "off", "gone"}
  /\ failures \in 0..MaxFailures
  /\ \A y \in Syncers :
       /\ job[y].pc \in {"idle", "list", "work", "write", "commit"}
       /\ ~At(y, "idle") => job[y].had \in [Items -> ItemType]

\* A committed row never claims more than its file holds: the file under the
\* row's path, when it is there, has the text of the row's version or a later
\* one, across failures, crashes, retitles and edits in the middle of a sync.
RowNotAhead ==
  \A i \in Items : row[i].ver # 0 /\ file[i][row[i].title] # 0 => file[i][row[i].title] >= row[i].ver

\* The mirror between two syncs and within one.
MirrorSound == MirrorTyped /\ RowNotAhead
=============================================================================
