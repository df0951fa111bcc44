--------------------------- MODULE ConfluenceSync ---------------------------
(***************************************************************************)
(* One Confluence listener: the space, the files mirrored from it into the *)
(* docs store, and the ConfluenceSyncItem rows that say which version of   *)
(* what was mirrored.  A sync reads the rows, lists the space, fetches     *)
(* what changed and removes what is gone: files at once, rows when its     *)
(* session commits at the end.  Everything between may fail, the process   *)
(* may die, and the space goes on being edited.                            *)
(*                                                                         *)
(* The poller never runs two syncs of a listener; a user's sync-now may    *)
(* run beside it (Syncers).                                                *)
(***************************************************************************)
EXTENDS MirrorState, SequencesExt

vars == <<remote, trashed, row, file, listener, job, failures>>

Idle == [pc |-> "idle"]

\* What a listing can show: an attachment only with its page.
Present(i) ==
  /\ remote[i].ver # 0 /\ i \notin trashed
  /\ i \in Attachments => Parent[i] \notin trashed

Init ==
  /\ remote = [i \in Items |-> NoItem]
  /\ trashed = {}
  /\ row = [i \in Items |-> NoItem]
  /\ file = [i \in Items |-> [t \in Titles |-> 0]]
  /\ listener = "on"
  /\ job = [y \in Syncers |-> Idle]
  /\ failures = 0

----------------------------------------------------------------------------
(* The space and the listener. *)

\* Creating, editing and retitling all make a new version; only a page's
\* title is part of its path.
Edit(i, t) ==
  /\ remote[i].ver < MaxVersion /\ i \notin trashed
  /\ i \in Attachments => t = NoItem.title /\ Present(Parent[i])
  /\ remote' = [remote EXCEPT ![i] = [ver |-> @.ver + 1, title |-> t]]
  /\ UNCHANGED <<trashed, row, file, listener, job, failures>>

\* Removed for good: an id is not used again.
Trash(i) ==
  /\ remote[i].ver # 0 /\ i \notin trashed
  /\ trashed' = trashed \cup {i}
  /\ UNCHANGED <<remote, row, file, listener, job, failures>>

confluence_toggle ==
  /\ listener \in {"on", "off"}
  /\ listener' = IF listener = "on" THEN "off" ELSE "on"
  /\ UNCHANGED <<remote, trashed, row, file, job, failures>>

\* The rows go with the listener, the files stay.
confluence_delete ==
  /\ listener # "gone"
  /\ listener' = "gone"
  /\ row' = [i \in Items |-> NoItem]
  /\ UNCHANGED <<remote, trashed, file, job, failures>>

confluence_create ==
  /\ listener = "gone"
  /\ listener' = "on"
  /\ UNCHANGED <<remote, trashed, row, file, job, failures>>

\* `dosm confluence add` and `rm` do the same from a process of their own.
ConfluenceAdd == confluence_create
ConfluenceRm == confluence_delete

----------------------------------------------------------------------------
(* A sync. *)

Fault == failures < MaxFailures /\ failures' = failures + 1

\* The poller checks enabled; sync-now does not.  The rows are loaded here.
Begin(y) ==
  /\ job[y] = Idle
  /\ listener = "on" \/ (y # Poller /\ listener = "off")
  /\ job' = [job EXCEPT ![y] = [pc |-> "list", had |-> row]]
  /\ UNCHANGED <<remote, trashed, row, file, listener, failures>>

\* A unit of work: a page to compare, a page's attachments to list, an
\* attachment to compare; with the version and title the listing showed.
Unit(kind, i) == [kind |-> kind, item |-> i, ver |-> remote[i].ver, title |-> remote[i].title]
Listing(shown) ==
  [k \in 1..(2 * Cardinality(shown)) |->
     Unit(IF k % 2 = 1 THEN "page" ELSE "attachments", SetToSeq(shown)[(k + 1) \div 2])]

\* A sync in the middle of the space: the units left, the items seen, the rows
\* pending in its session.
Doing(y, pc, units, seen, put) ==
  [pc |-> pc, had |-> job[y].had, units |-> units, seen |-> seen, put |-> put]

Listed(y, shown) ==
  job' = [job EXCEPT ![y] = Doing(y, "work", Listing(shown), {}, [i \in {} |-> NoItem])]

ListPages(y) ==
  /\ At(y, "list")
  /\ Listed(y, {p \in Pages : Present(p)})
  /\ UNCHANGED <<remote, trashed, row, file, listener, failures>>

\* Pages are listed by offset: one that moves across a boundary while the
\* listing is read is not in it.
ListPagesMisses(y) ==
  /\ At(y, "list") /\ Fault
  /\ \E p \in Pages : Present(p) /\ Listed(y, {q \in Pages \ {p} : Present(q)})
  /\ UNCHANGED <<remote, trashed, row, file, listener>>

\* list_pages raises, or the credential is refused: nothing has changed.
ListPagesFails(y) ==
  /\ At(y, "list") /\ Fault
  /\ job' = [job EXCEPT ![y] = Idle]
  /\ UNCHANGED <<remote, trashed, row, file, listener>>

Work(y, kinds) == At(y, "work") /\ job[y].units # <<>> /\ Head(job[y].units).kind \in kinds
Unchanged(y) ==
  LET u == Head(job[y].units) IN
    job[y].had[u.item] = [ver |-> u.ver, title |-> u.title]
\* The first unit is through, and its item seen.
See(y, put) ==
  Doing(y, "work", Tail(job[y].units), job[y].seen \cup {Head(job[y].units).item}, put)

\* The same version under the same path: only last_seen_at is touched.
SkipUnchanged(y) ==
  /\ Work(y, {"page", "attachment"}) /\ Unchanged(y)
  /\ job' = [job EXCEPT ![y] = See(y, job[y].put)]
  /\ UNCHANGED <<remote, trashed, row, file, listener, failures>>

\* get_page_html or download: the text of now, which may be newer than the
\* version listed.
Fetch(y) ==
  /\ Work(y, {"page", "attachment"}) /\ ~Unchanged(y)
  /\ Present(Head(job[y].units).item)
  /\ job' = [job EXCEPT ![y] = [pc |-> "write", had |-> @.had, units |-> @.units, seen |-> @.seen,
                                put |-> @.put, text |-> remote[Head(@.units).item].ver]]
  /\ UNCHANGED <<remote, trashed, row, file, listener, failures>>

\* One bad page does not sink the run; the item counts as seen.  An item that
\* was removed after it was listed is such a failure.
FetchFails(y) ==
  /\ Work(y, {"page", "attachment"}) /\ ~Unchanged(y)
  /\ IF Present(Head(job[y].units).item) THEN Fault ELSE UNCHANGED failures
  /\ job' = [job EXCEPT ![y] = See(y, job[y].put)]
  /\ UNCHANGED <<remote, trashed, row, file, listener>>

\* The pending rows with that of an item.
Pending(y, i, ver, title) ==
  [j \in DOMAIN job[y].put \cup {i} |->
     IF j = i THEN [ver |-> ver, title |-> title] ELSE job[y].put[j]]

\* Mutant: the row gets the version the space has when the file is written.
WriteStampsLatest(y) ==
  /\ At(y, "write")
  /\ LET u == Head(job[y].units) IN
       /\ file' = [file EXCEPT ![u.item][u.title] = job[y].text]
       /\ job' = [job EXCEPT ![y] = See(y, Pending(y, u.item, remote[u.item].ver, u.title))]
  /\ UNCHANGED <<remote, trashed, row, listener, failures>>

\* The files of an item once a text is stored under a title: that of an old
\* title is gone.
Rewritten(i, title, old, text) ==
  [t \in Titles |-> IF t = title THEN text
                    ELSE IF old.ver # 0 /\ t = old.title THEN 0 ELSE file[i][t]]

\* The file of an old title goes, the new one is written, the row is pending.
Write(y) ==
  /\ At(y, "write")
  /\ LET u == Head(job[y].units)
         old == job[y].had[u.item] IN
       /\ file' = [file EXCEPT ![u.item] = Rewritten(u.item, u.title, old, job[y].text)]
       /\ job' = [job EXCEPT ![y] = See(y, Pending(y, u.item, u.ver, u.title))]
  /\ UNCHANGED <<remote, trashed, row, listener, failures>>

\* The store refuses the file after the old title's was deleted.
WriteFails(y) ==
  /\ At(y, "write") /\ Fault
  /\ LET u == Head(job[y].units)
         old == job[y].had[u.item] IN
       /\ file' = IF old.ver # 0 /\ old.title # u.title
                  THEN [file EXCEPT ![u.item][old.title] = 0] ELSE file
       /\ job' = [job EXCEPT ![y] = See(y, job[y].put)]
  /\ UNCHANGED <<remote, trashed, row, listener>>

ListAttachments(y) ==
  /\ Work(y, {"attachments"})
  /\ LET p == Head(job[y].units).item
         here == {a \in Attachments : Parent[a] = p /\ Present(a)}
         units == [k \in 1..Cardinality(here) |-> Unit("attachment", SetToSeq(here)[k])] IN
       job' = [job EXCEPT ![y] =
                 Doing(y, "work", units \o Tail(job[y].units), job[y].seen, job[y].put)]
  /\ UNCHANGED <<remote, trashed, row, file, listener, failures>>

\* A failed list is an empty one: the page's attachments are not seen.
ListAttachmentsFails(y) ==
  /\ Work(y, {"attachments"}) /\ Fault
  /\ job' = [job EXCEPT ![y] = Doing(y, "work", Tail(job[y].units), job[y].seen, job[y].put)]
  /\ UNCHANGED <<remote, trashed, row, file, listener>>

\* What was loaded and not seen loses its file now and its row at the commit.
Unseen(y) == {i \in Items : job[y].had[i].ver # 0 /\ i \notin job[y].seen}
MirrorDelete(y) ==
  /\ At(y, "work") /\ job[y].units = <<>>
  /\ file' = [i \in Items |-> IF i \in Unseen(y)
                              THEN [file[i] EXCEPT ![job[y].had[i].title] = 0] ELSE file[i]]
  /\ job' = [job EXCEPT ![y] = Doing(y, "commit", <<>>, job[y].seen, job[y].put)]
  /\ UNCHANGED <<remote, trashed, row, listener, failures>>

\* The flush: an INSERT of a row that exists, or an UPDATE of one that is
\* gone, fails the transaction; so does the listener's own row when it is gone.
Conflict(y) ==
  \/ listener = "gone"
  \/ \E i \in DOMAIN job[y].put : job[y].had[i].ver = 0 /\ row[i].ver # 0
  \/ \E i \in job[y].seen : job[y].had[i].ver # 0 /\ row[i].ver = 0

Column(y, i, c) ==
  IF job[y].put[i][c] # job[y].had[i][c] THEN job[y].put[i][c] ELSE row[i][c]
\* Mutant: the rows of what was not seen are kept.
CommitKeepsUnseen(y) ==
  /\ At(y, "commit")
  /\ row' = IF Conflict(y) THEN row
            ELSE [i \in Items |->
                   IF i \in DOMAIN job[y].put
                   THEN [ver |-> Column(y, i, "ver"), title |-> Column(y, i, "title")]
                   ELSE row[i]]
  /\ job' = [job EXCEPT ![y] = Idle]
  /\ UNCHANGED <<remote, trashed, file, listener, failures>>

\* The transaction's rows: pending ones by the columns that changed.
Commit(y) ==
  /\ At(y, "commit")
  /\ row' = IF Conflict(y) THEN row
            ELSE [i \in Items |->
                   IF i \in DOMAIN job[y].put
                   THEN [ver |-> Column(y, i, "ver"), title |-> Column(y, i, "title")]
                   ELSE IF i \in Unseen(y) THEN NoItem ELSE row[i]]
  /\ job' = [job EXCEPT ![y] = Idle]
  /\ UNCHANGED <<remote, trashed, file, listener, failures>>

\* The write lock is not to be had, or the session fails: the files stay as
\* they are, the rows too.
CommitFails(y) ==
  /\ At(y, "commit") /\ Fault
  /\ job' = [job EXCEPT ![y] = Idle]
  /\ UNCHANGED <<remote, trashed, row, file, listener>>

\* The process dies with every sync in it.
Crash ==
  /\ \E y \in Syncers : job[y] # Idle
  /\ Fault
  /\ job' = [y \in Syncers |-> Idle]
  /\ UNCHANGED <<remote, trashed, row, file, listener>>

Step(y) ==
  \/ Begin(y) \/ ListPages(y) \/ ListPagesMisses(y) \/ ListPagesFails(y)
  \/ SkipUnchanged(y) \/ Fetch(y) \/ FetchFails(y) \/ Write(y) \/ WriteFails(y)
  \/ ListAttachments(y) \/ ListAttachmentsFails(y)
  \/ MirrorDelete(y) \/ Commit(y) \/ CommitFails(y)

Next ==
  \/ \E i \in Items, t \in Titles : Edit(i, t)
  \/ \E i \in Items : Trash(i)
  \/ confluence_toggle \/ confluence_delete \/ confluence_create
  \/ ConfluenceAdd \/ ConfluenceRm
  \/ \E y \in Syncers : Step(y)
  \/ Crash

\* The poller's loop never ends and every call it awaits has a timeout.
Spec == Init /\ [][Next]_vars /\ WF_vars(Step(Poller))

----------------------------------------------------------------------------
(* Properties. *)

RowsRight ==
  \A i \in Items : row[i] = IF Present(i) THEN remote[i] ELSE NoItem

\* When edits and failures end (their bounds) and the listener stays on, the
\* rows come to describe the space exactly, removals included.
Reconciled == <>[](listener = "on") => <>[]RowsRight
=============================================================================
