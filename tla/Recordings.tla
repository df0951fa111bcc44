----------------------------- MODULE Recordings -----------------------------
(***************************************************************************)
(* Session recordings: dosm/recording (routes, state and journal).         *)
(*                                                                         *)
(* A recording is a row, a journal file and an entry of the registry in    *)
(* memory.  While it runs the journal is in tmp_dir; recording_stop moves  *)
(* it to sessions_dir and writes the row; abort_stale_recordings does the  *)
(* same at startup for the rows a dead process left "active".  The         *)
(* handlers never await, so they exclude each other on the event loop;     *)
(* what cuts one short is an exception or the death of the process.        *)
(***************************************************************************)
EXTENDS Integers

CONSTANTS Users,
          Tenants,
          NoTenant,    \* active_tenant_id of the all-tenants view
          TenantsOf,   \* what active_tenant_id may answer each user
          Slugs,       \* the minute and the cleaned user name: names row and files
          SlugsOf,     \* the slugs _slug may give each user
          None,        \* no recording
          MaxEvents    \* bound: events written to one journal

ASSUME RecordingAssumption ==
    /\ NoTenant \notin Tenants /\ None \notin Slugs
    /\ Tenants # {} /\ Users # {}
    /\ TenantsOf \in [Users -> SUBSET (Tenants \cup {NoTenant})]
    /\ SlugsOf \in [Users -> SUBSET Slugs]
    /\ MaxEvents \in Nat

VARIABLES
    row,       \* RecordingSession.status by slug, "none" without a row
    owner,     \* RecordingSession.user_id
    tenant,    \* RecordingSession.tenant_id
    path,      \* the slugs whose row has a journal_path
    options,   \* RecordingSession.options_json: whether events are wanted
    tmp,       \* the file in tmp_dir by slug
    final,     \* the file in sessions_dir by slug
    registry,  \* state._registry: each user's active recording
    wanted,    \* rec.options of each user's active recording
    handler,   \* what the event loop is in the middle of
    boot,      \* abort_stale_recordings of the starting process
    inDocs,    \* whether sessions_dir lies in the docs tree
    logged,    \* history: events that writers have written for each slug
    mine       \* history: slugs whose recording the running process started

rowVars == <<row, owner, tenant, path, options>>
fileVars == <<tmp, final>>
memVars == <<registry, wanted>>
vars == <<rowVars, fileVars, memVars, handler, boot, inDocs, logged, mine>>

NoFile == [there |-> FALSE, events |-> 0, ends |-> {}]
Header == [there |-> TRUE, events |-> 0, ends |-> {}]
Files == [there : BOOLEAN, events : Nat, ends : SUBSET {"finalized", "aborted"}]
Statuses == {"none", "active", "finalized", "aborted"}

\* The journal f with one event more, and with the footer w.
AddEvent(f) == [there |-> f.there, events |-> f.events + 1, ends |-> f.ends]
AddFooter(f, w) == [there |-> f.there, events |-> f.events, ends |-> f.ends \cup {w}]

\* Where a handler is, for which user, recording and active tenant.
At(p, u, s, t) == [pc |-> p, user |-> u, slug |-> s, tid |-> t]
Idle == At("idle", None, None, NoTenant)

\* Where the startup is: the stale rows, the ones left to do, the ones whose
\* journal has been moved, and the one it is at.
Booting(p, rows, todo, moved, s) ==
    [pc |-> p, rows |-> rows, todo |-> todo, moved |-> moved, slug |-> s]
Up == Booting("up", {}, {}, {}, None)

Init ==
    /\ row = [s \in Slugs |-> "none"]
    /\ owner = [s \in Slugs |-> CHOOSE u \in Users : TRUE]
    /\ tenant = [s \in Slugs |-> CHOOSE t \in Tenants : TRUE]
    /\ path = {}
    /\ options = [s \in Slugs |-> TRUE]
    /\ tmp = [s \in Slugs |-> NoFile] /\ final = [s \in Slugs |-> NoFile]
    /\ registry = [u \in Users |-> None]
    /\ wanted = [u \in Users |-> TRUE]
    /\ handler = Idle
    /\ boot = Up
    /\ inDocs \in BOOLEAN
    /\ logged = [s \in Slugs |-> 0]
    /\ mine = {}

Ready == boot = Up /\ handler = Idle

-----------------------------------------------------------------------------
(* recording_start *)

\* Mutant: a slug is taken again once its recording has ended.
StartAnySlug(u) ==
    /\ Ready
    /\ registry[u] = None
    /\ \E t \in TenantsOf[u] \ {NoTenant}, s \in SlugsOf[u], want \in BOOLEAN :
          /\ row[s] # "active"
          /\ row' = [row EXCEPT ![s] = "active"]
          /\ owner' = [owner EXCEPT ![s] = u]
          /\ tenant' = [tenant EXCEPT ![s] = t]
          /\ options' = [options EXCEPT ![s] = want]
          /\ handler' = At("writer", u, s, t)
          /\ mine' = mine \cup {s}
    /\ UNCHANGED <<path, fileVars, memVars, boot, inDocs, logged>>

\* The row is committed; the slug is unique among all rows, old ones included.
Start(u) ==
    /\ Ready
    /\ registry[u] = None
    /\ \E t \in TenantsOf[u] \ {NoTenant}, s \in SlugsOf[u], want \in BOOLEAN :
          /\ row[s] = "none"
          /\ row' = [row EXCEPT ![s] = "active"]
          /\ owner' = [owner EXCEPT ![s] = u]
          /\ tenant' = [tenant EXCEPT ![s] = t]
          /\ options' = [options EXCEPT ![s] = want]
          /\ handler' = At("writer", u, s, t)
          /\ mine' = mine \cup {s}
    /\ UNCHANGED <<path, fileVars, memVars, boot, inDocs, logged>>

\* JournalWriter opens (and truncates) the file, and the registry learns of it.
OpenWriter ==
    /\ handler.pc = "writer"
    /\ LET s == handler.slug
           u == handler.user
       IN  /\ tmp' = [tmp EXCEPT ![s] = Header]
           /\ registry' = [registry EXCEPT ![u] = s]
           /\ wanted' = [wanted EXCEPT ![u] = options[s]]
    /\ handler' = Idle
    /\ UNCHANGED <<rowVars, final, boot, inDocs, logged, mine>>

\* The file cannot be created: the row stays, and nobody can stop it.
OpenWriterFails ==
    /\ handler.pc = "writer"
    /\ handler' = Idle
    /\ UNCHANGED <<rowVars, fileVars, memVars, boot, inDocs, logged, mine>>

-----------------------------------------------------------------------------
(* Events and options *)

\* One of the record_... helpers, for the user's active recording.
WriteEvent(u) ==
    /\ Ready
    /\ registry[u] # None
    /\ wanted[u]
    /\ logged[registry[u]] < MaxEvents
    /\ tmp' = [tmp EXCEPT ![registry[u]] = AddEvent(@)]
    /\ logged' = [logged EXCEPT ![registry[u]] = @ + 1]
    /\ UNCHANGED <<rowVars, final, memVars, handler, boot, inDocs, mine>>

\* The row a request may touch: the caller's, in the request's tenant.
Permitted(s, u, t) == owner[s] = u /\ (t # NoTenant => tenant[s] = t)

\* recording_update_options
UpdateOptions(u) ==
    /\ Ready
    /\ registry[u] # None
    /\ \E t \in TenantsOf[u], want \in BOOLEAN :
          /\ Permitted(registry[u], u, t)
          /\ wanted' = [wanted EXCEPT ![u] = want]
          /\ options' = [options EXCEPT ![registry[u]] = want]
    /\ UNCHANGED <<row, owner, tenant, path, fileVars, registry, handler, boot, inDocs,
                   logged, mine>>

-----------------------------------------------------------------------------
(* _finalize_journal, in the steps a crash can separate *)

\* In the docs tree the docs store writes a copy (atomically); elsewhere the
\* file is renamed.
Deliver(s) ==
    /\ final' = [final EXCEPT ![s] = tmp[s]]
    /\ tmp' = IF inDocs THEN tmp ELSE [tmp EXCEPT ![s] = NoFile]

\* The copy in tmp_dir is unlinked; an error in doing so is ignored.
Unlink(s) == tmp' \in {tmp, [tmp EXCEPT ![s] = NoFile]}

-----------------------------------------------------------------------------
(* recording_stop *)

\* The recording leaves the registry and its journal gets the footer.
Stop(u) ==
    /\ Ready
    /\ registry[u] # None
    /\ \E t \in TenantsOf[u] :
          handler' = At("deliver", u, registry[u], t)
    /\ tmp' = [tmp EXCEPT ![registry[u]] = AddFooter(@, "finalized")]
    /\ registry' = [registry EXCEPT ![u] = None]
    /\ UNCHANGED <<rowVars, final, wanted, boot, inDocs, logged, mine>>

StopDelivers ==
    /\ handler.pc = "deliver"
    /\ Deliver(handler.slug)
    /\ handler' = At(IF inDocs THEN "unlink" ELSE "row",
                      handler.user, handler.slug, handler.tid)
    /\ UNCHANGED <<rowVars, memVars, boot, inDocs, logged, mine>>

\* Mutant: an error handler tidies tmp_dir up.
StopFailsTidy ==
    /\ handler.pc \in {"deliver", "row"}
    /\ tmp' = [tmp EXCEPT ![handler.slug] = NoFile]
    /\ handler' = Idle
    /\ UNCHANGED <<rowVars, final, memVars, boot, inDocs, logged, mine>>

\* The docs store, the file system or the commit fails: the request ends there.
StopFails ==
    /\ handler.pc \in {"deliver", "row"}
    /\ handler' = Idle
    /\ UNCHANGED <<rowVars, fileVars, memVars, boot, inDocs, logged, mine>>

StopUnlinks ==
    /\ handler.pc = "unlink"
    /\ Unlink(handler.slug)
    /\ handler' = At("row", handler.user, handler.slug, handler.tid)
    /\ UNCHANGED <<rowVars, final, memVars, boot, inDocs, logged, mine>>

\* The row is written.
StopCommits ==
    /\ handler.pc = "row"
    /\ Permitted(handler.slug, handler.user, handler.tid)
    /\ row' = [row EXCEPT ![handler.slug] = "finalized"]
    /\ path' = path \cup {handler.slug}
    /\ handler' = Idle
    /\ UNCHANGED <<owner, tenant, options, fileVars, memVars, boot, inDocs, logged, mine>>

\* 404 when the row is of another tenant than the request's.
StopRefused ==
    /\ handler.pc = "row"
    /\ ~ Permitted(handler.slug, handler.user, handler.tid)
    /\ handler' = Idle
    /\ UNCHANGED <<rowVars, fileVars, memVars, boot, inDocs, logged, mine>>

-----------------------------------------------------------------------------
(* The process dies, and abort_stale_recordings when it comes back *)

\* Any time, in the middle of a handler or of the startup.
Crash ==
    /\ boot' = Booting("down", {}, {}, {}, None)
    /\ handler' = Idle
    /\ registry' = [u \in Users |-> None]
    /\ mine' = {}
    /\ UNCHANGED <<rowVars, fileVars, wanted, inDocs, logged>>

\* Mutant: startup does not look for recordings of a dead process.
BootReadsNothing ==
    /\ boot.pc = "down"
    /\ boot' = Booting("next", {}, {}, {}, None)
    /\ UNCHANGED <<rowVars, fileVars, memVars, handler, inDocs, logged, mine>>

\* The rows still "active" are read.
BootReads ==
    /\ boot.pc = "down"
    /\ LET stale == {s \in Slugs : row[s] = "active"} IN
       boot' = Booting("next", stale, stale, {}, None)
    /\ UNCHANGED <<rowVars, fileVars, memVars, handler, inDocs, logged, mine>>

\* The next row's journal is not in tmp_dir, or opening it raises.
BootSkips(s) ==
    /\ boot.pc = "next" /\ s \in boot.todo
    /\ boot' = Booting("next", boot.rows, boot.todo \ {s}, boot.moved, None)
    /\ UNCHANGED <<rowVars, fileVars, memVars, handler, inDocs, logged, mine>>

\* The next row's journal gets the note that it was aborted.
BootAppends(s) ==
    /\ boot.pc = "next" /\ s \in boot.todo
    /\ tmp[s].there
    /\ tmp' = [tmp EXCEPT ![s] = AddFooter(@, "aborted")]
    /\ boot' = Booting("deliver", boot.rows, boot.todo, boot.moved, s)
    /\ UNCHANGED <<rowVars, final, memVars, handler, inDocs, logged, mine>>

\* Back to the loop, with or without a journal_path for the row.
BootNext(moved) ==
    boot' = Booting("next", boot.rows, boot.todo \ {boot.slug}, moved, None)

\* _finalize_journal raises; `except Exception: pass`.
BootFails ==
    /\ boot.pc = "deliver"
    /\ BootNext(boot.moved)
    /\ UNCHANGED <<rowVars, fileVars, memVars, handler, inDocs, logged, mine>>

BootDelivers ==
    /\ boot.pc = "deliver"
    /\ Deliver(boot.slug)
    /\ IF inDocs
       THEN boot' = Booting("unlink", boot.rows, boot.todo, boot.moved, boot.slug)
       ELSE BootNext(boot.moved \cup {boot.slug})
    /\ UNCHANGED <<rowVars, memVars, handler, inDocs, logged, mine>>

BootUnlinks ==
    /\ boot.pc = "unlink"
    /\ Unlink(boot.slug)
    /\ BootNext(boot.moved \cup {boot.slug})
    /\ UNCHANGED <<rowVars, final, memVars, handler, inDocs, logged, mine>>

\* One commit for all rows; then the application serves requests.
BootCommits ==
    /\ boot.pc = "next" /\ boot.todo = {}
    /\ row' = [s \in Slugs |-> IF s \in boot.rows THEN "aborted" ELSE row[s]]
    /\ path' = path \cup boot.moved
    /\ boot' = Up
    /\ UNCHANGED <<owner, tenant, options, fileVars, memVars, handler, inDocs, logged, mine>>

Next ==
    \/ \E u \in Users : Start(u) \/ WriteEvent(u) \/ UpdateOptions(u) \/ Stop(u)
    \/ OpenWriter \/ OpenWriterFails
    \/ StopDelivers \/ StopFails \/ StopUnlinks \/ StopCommits \/ StopRefused
    \/ Crash
    \/ BootReads \/ BootFails \/ BootDelivers \/ BootUnlinks \/ BootCommits
    \/ \E s \in Slugs : BootSkips(s) \/ BootAppends(s)

Spec == Init /\ [][Next]_vars

-----------------------------------------------------------------------------
(* Properties *)

Handlers ==
    [pc : {"idle", "writer", "deliver", "unlink", "row"}, user : Users \cup {None},
     slug : Slugs \cup {None}, tid : Tenants \cup {NoTenant}]

Boots ==
    [pc : {"up", "down", "next", "deliver", "unlink"}, rows : SUBSET Slugs,
     todo : SUBSET Slugs, moved : SUBSET Slugs, slug : Slugs \cup {None}]

\* Rows, files, the registry and the progress of a handler or of the startup have
\* the shapes the code gives them.
TypeOK ==
    /\ row \in [Slugs -> Statuses]
    /\ owner \in [Slugs -> Users] /\ tenant \in [Slugs -> Tenants]
    /\ path \subseteq Slugs
    /\ options \in [Slugs -> BOOLEAN]
    /\ tmp \in [Slugs -> Files] /\ final \in [Slugs -> Files]
    /\ registry \in [Users -> Slugs \cup {None}]
    /\ wanted \in [Users -> BOOLEAN]
    /\ handler \in Handlers /\ (handler.pc = "idle" <=> handler = Idle)
    /\ handler.pc # "idle" => handler.user \in Users /\ handler.slug \in Slugs
    /\ boot \in Boots /\ (boot.pc = "up" <=> boot = Up)
    /\ boot.pc \in {"deliver", "unlink"} => boot.slug \in Slugs
    /\ inDocs \in BOOLEAN
    /\ logged \in [Slugs -> 0 .. MaxEvents]
    /\ mine \subseteq Slugs

\* A journal is never lost: whatever fails or dies in a start, a stop or a
\* startup, a complete copy of what was recorded is in tmp_dir or sessions_dir.
NothingLost ==
    \A s \in Slugs : logged[s] > 0 =>
        \E f \in {tmp[s], final[s]} : f.there /\ f.events = logged[s]

\* A journal_path is only ever committed for a journal that is complete, closed
\* by a footer and at that path.
PathHasJournal ==
    \A s \in path :
        final[s].there /\ final[s].events = logged[s] /\ final[s].ends # {}

\* A recording in the registry has an active row of the same user, and an open
\* journal that no other user's recording writes to.
RegistryBacked ==
    \A u \in Users : registry[u] # None =>
        LET s == registry[u] IN
        /\ row[s] = "active" /\ owner[s] = u
        /\ tmp[s].there /\ tmp[s].ends = {}
        /\ \A v \in Users \ {u} : registry[v] # s

\* Once the application serves requests no row of an earlier process is left
\* "active", however often the process died while it was starting.
StaleAborted ==
    boot = Up => \A s \in Slugs : row[s] = "active" => s \in mine

\* What a recording ended as is final: neither its row nor the journal in
\* sessions_dir changes any more, whatever later recordings do.
EndedStays ==
    [][\A s \in Slugs : row[s] \in {"finalized", "aborted"} =>
          row'[s] = row[s] /\ final'[s] = final[s]]_vars

\* Rows, files and registry agree at every point where the process may die: the
\* journal is complete somewhere, where its row says once the row says so, and a
\* recording in the registry is one that is still being written.
JournalsSafe == NothingLost /\ PathHasJournal /\ RegistryBacked
=============================================================================
