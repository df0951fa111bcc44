----------------------------- MODULE DocsIndex -----------------------------
(***************************************************************************)
(* The documentation index: dosm/docs_index/indexer.py (reindex,           *)
(* reindex_async and _index_one), the triggers of watcher.py, the vault's  *)
(* saves and deletions, and the stores of store.py as far as the indexer   *)
(* can tell them apart.                                                    *)
(*                                                                         *)
(* The content of a file is its version, a number no two edits share; size *)
(* and mtime, the SHA-256 and the text that is chunked are each the version*)
(* they were taken from.                                                   *)
(***************************************************************************)
EXTENDS Naturals, FiniteSets

CONSTANTS Files,      \* rel paths, in the order reindex sorts them
          Workers,    \* threads that may run reindex
          Free,       \* the status lock is free
          MaxEdits,   \* bound: versions of the docs source
          MaxFaults,  \* bound: failures of a read, the share or a credential
          MaxRestarts \* bound: restarts of the server

ASSUME IndexAssumption ==
    /\ Files \subseteq Nat \ {0} /\ IsFiniteSet(Files)
    /\ IsFiniteSet(Workers) /\ Workers # {}
    /\ Free \notin Workers
    /\ MaxEdits \in Nat \ {0} /\ MaxFaults \in Nat /\ MaxRestarts \in Nat

VARIABLES
    smb,       \* docs_index.source == "smb"
    disk,      \* version of each file in the source, 0 when it does not exist
    edits,     \* the last version used
    share,     \* whether the SMB share answers
    session,   \* no SMB store yet, one built, its session registered
    rows,      \* the documents table, with its chunks
    pc,        \* where each worker is
    force,     \* reindex's argument
    todo,      \* files the worker still has to index
    listed,    \* on_disk: the files the worker's scan found
    work,      \* _index_one's local variables
    running,   \* _status.running
    lock,      \* holder of _status_lock where it is not released at once
    timer,     \* the watcher's debounce timer is pending
    faults,    \* failures so far
    restarts   \* restarts so far

sourceVars == <<disk, edits, share, faults>>
procVars == <<session, running, lock, timer>>
workVars == <<pc, force, todo, listed, work>>
vars == <<smb, sourceVars, procVars, workVars, rows, restarts>>

PCs == {"none", "starting", "scan", "next", "load", "hash", "read", "commit",
        "finish", "stuck"}
Versions == 0 .. MaxEdits
Rows == [stat : Versions, sha : Versions, text : Versions, ok : BOOLEAN]
NoRow == [stat |-> 0, sha |-> 0, text |-> 0, ok |-> FALSE]
NoWork == [file |-> 0, stat |-> 0, sha |-> 0, text |-> 0]

\* Inside reindex, between the claim of _status.running and its `finally`.
Active(w) == pc[w] \in PCs \ {"none", "starting", "stuck"}

\* The source answers.
Answers == ~ smb \/ share

\* The threads after app startup: the startup reindex (auto_index_on_startup).
Starting == {[v \in Workers |-> IF v = w THEN "starting" ELSE "none"] : w \in Workers}

Init ==
    /\ smb \in BOOLEAN
    /\ disk \in [Files -> {0, 1}] /\ edits = 1
    /\ share = TRUE
    /\ session = "none"
    /\ rows = [f \in Files |-> NoRow]
    /\ pc \in Starting
    /\ force = [w \in Workers |-> FALSE]
    /\ todo = [w \in Workers |-> {}]
    /\ listed = [w \in Workers |-> {}]
    /\ work = [w \in Workers |-> NoWork]
    /\ running = FALSE
    /\ lock = Free
    /\ timer = FALSE
    /\ faults = 0 /\ restarts = 0

Fault == faults < MaxFaults /\ faults' = faults + 1

-----------------------------------------------------------------------------
(* The docs source *)

\* The file becomes `version`, 0 when it is deleted.  The watcher (re)starts its
\* timer; over SMB there are no events.
Change(f, version) ==
    /\ edits < MaxEdits
    /\ edits' = edits + 1
    /\ disk' = [disk EXCEPT ![f] = version]
    /\ timer' = (timer \/ ~ smb)

\* The store's atomic write and its delete.
WriteBytes(f) == Change(f, edits + 1)
Delete(f) == disk[f] # 0 /\ Change(f, 0)

\* A file is created, changed or deleted behind the vault, or by a handler that
\* fails before it asks for a reindex.
Edit(f) ==
    /\ \/ WriteBytes(f)
       \/ Delete(f)
    /\ UNCHANGED <<smb, share, faults, session, running, lock, workVars, rows, restarts>>

\* The share stops answering ...
ShareDown ==
    /\ smb /\ share
    /\ Fault
    /\ share' = FALSE
    /\ UNCHANGED <<smb, disk, edits, procVars, workVars, rows, restarts>>

\* ... and comes back.
ShareUp ==
    /\ ~ share
    /\ share' = TRUE
    /\ UNCHANGED <<smb, disk, edits, faults, procVars, workVars, rows, restarts>>

-----------------------------------------------------------------------------
(* Triggers *)

\* reindex_async: with a reindex running nothing happens, else a thread starts.
ReindexAsync(forced) ==
    /\ lock = Free
    /\ IF running
       THEN UNCHANGED <<pc, force>>
       ELSE \E w \in Workers :
               /\ pc[w] = "none"
               /\ pc' = [pc EXCEPT ![w] = "starting"]
               /\ force' = [force EXCEPT ![w] = forced]

\* docs_save: a document under a free name, or one whose mtime is still the one its
\* page was loaded with (another is refused), then the reindex.
DocsSave(f) ==
    /\ Answers
    /\ WriteBytes(f)
    /\ ReindexAsync(FALSE)
    /\ session' = IF smb THEN "registered" ELSE session
    /\ UNCHANGED <<smb, share, faults, running, lock, todo, listed, work, rows,
                   restarts>>

\* docs_delete
DocsDelete(f) ==
    /\ Answers
    /\ Delete(f)
    /\ ReindexAsync(FALSE)
    /\ session' = IF smb THEN "registered" ELSE session
    /\ UNCHANGED <<smb, share, faults, running, lock, todo, listed, work, rows,
                   restarts>>

\* The Reindex button (perhaps forced), an org, recording or Confluence sync, an
\* agent action.
Asked ==
    /\ \E forced \in BOOLEAN : ReindexAsync(forced)
    /\ UNCHANGED <<smb, sourceVars, procVars, todo, listed, work, rows, restarts>>

\* The watcher's timer.
TimerFires ==
    /\ timer
    /\ timer' = FALSE
    /\ ReindexAsync(FALSE)
    /\ UNCHANGED <<smb, sourceVars, session, running, lock, todo, listed, work,
                   rows, restarts>>

\* The poll of an SMB source.
PollFires ==
    /\ smb
    /\ ReindexAsync(FALSE)
    /\ UNCHANGED <<smb, sourceVars, procVars, todo, listed, work, rows, restarts>>

-----------------------------------------------------------------------------
(* reindex *)

\* Mutant: the check of _status.running is left to reindex_async.
ClaimUnchecked(w) ==
    /\ pc[w] = "starting"
    /\ lock = Free
    /\ running' = TRUE
    /\ pc' = [pc EXCEPT ![w] = "scan"]
    /\ UNCHANGED <<smb, sourceVars, session, lock, timer, force, todo, listed, work, rows, restarts>>

\* Take _status_lock and claim _status.running.  When it is taken, the call of
\* get_index_status asks for the lock its caller holds.
Claim(w) ==
    /\ pc[w] = "starting"
    /\ lock = Free
    /\ IF running
       THEN /\ lock' = w
            /\ pc' = [pc EXCEPT ![w] = "stuck"]
            /\ UNCHANGED running
       ELSE /\ running' = TRUE
            /\ pc' = [pc EXCEPT ![w] = "scan"]
            /\ UNCHANGED lock
    /\ UNCHANGED <<smb, sourceVars, session, timer, force, todo, listed, work,
                   rows, restarts>>

\* The listing comes back as `found`.
Listed(w, found) ==
    /\ listed' = [listed EXCEPT ![w] = found]
    /\ todo' = [todo EXCEPT ![w] = found]
    /\ pc' = [pc EXCEPT ![w] = "next"]

\* make_docs_store and _iter_doc_files with a source that answers.
Scan(w) ==
    /\ pc[w] = "scan"
    /\ Answers
    /\ Listed(w, {f \in Files : disk[f] # 0})
    /\ session' = IF smb THEN "registered" ELSE session
    /\ UNCHANGED <<smb, sourceVars, running, lock, timer, force, work, rows, restarts>>

\* The share does not answer.  The first use of the store fails to register a
\* session, and that error ends the reindex; with a session, exists() answers
\* False and the listing is empty.
ScanUnreachable(w) ==
    /\ pc[w] = "scan"
    /\ ~ Answers
    /\ IF session = "registered"
       THEN Listed(w, {}) /\ UNCHANGED session
       ELSE /\ pc' = [pc EXCEPT ![w] = "finish"]
            /\ session' = "built"
            /\ UNCHANGED <<todo, listed>>
    /\ UNCHANGED <<smb, sourceVars, running, lock, timer, force, work, rows, restarts>>

\* No SMB store could be built so far and again not (the credential or the
\* secrets backend fails): the local docs directory is listed, and it is empty.
ScanFallsBack(w) ==
    /\ pc[w] = "scan"
    /\ smb /\ session = "none"
    /\ Fault
    /\ Listed(w, {})
    /\ UNCHANGED <<smb, disk, edits, share, procVars, force, work, rows, restarts>>

-----------------------------------------------------------------------------
(* _index_one, for the first file of `todo` *)

FirstFile(w) == CHOOSE f \in todo[w] : \A g \in todo[w] : f <= g

FileDone(w) ==
    /\ todo' = [todo EXCEPT ![w] = @ \ {work[w].file}]
    /\ work' = [work EXCEPT ![w] = NoWork]
    /\ pc' = [pc EXCEPT ![w] = "next"]

\* store.stat; its failure is an "error" outcome that leaves the row as it is.
Stat(w) ==
    LET f == FirstFile(w)
    IN  /\ pc[w] = "next" /\ todo[w] # {}
        /\ lock = Free
        /\ IF disk[f] = 0 \/ ~ Answers
           THEN todo' = [todo EXCEPT ![w] = @ \ {f}] /\ UNCHANGED <<pc, work>>
           ELSE /\ work' = [work EXCEPT ![w] = [NoWork EXCEPT !.file = f, !.stat = disk[f]]]
                /\ pc' = [pc EXCEPT ![w] = "load"]
                /\ UNCHANGED todo
        /\ UNCHANGED <<smb, sourceVars, procVars, force, listed, rows, restarts>>

\* Mutant: the fast path does not look at the status, so an error row stays one.
LoadAnyStatus(w) ==
    /\ pc[w] = "load"
    /\ IF rows[work[w].file].stat = work[w].stat /\ ~ force[w]
       THEN FileDone(w)
       ELSE pc' = [pc EXCEPT ![w] = "hash"] /\ UNCHANGED <<todo, work>>
    /\ UNCHANGED <<smb, sourceVars, procVars, force, listed, rows, restarts>>

\* Read the row; with size and mtime unchanged there is nothing to do.
Load(w) ==
    LET row == rows[work[w].file]
    IN  /\ pc[w] = "load"
        /\ IF row.ok /\ row.stat = work[w].stat /\ ~ force[w]
           THEN FileDone(w)
           ELSE pc' = [pc EXCEPT ![w] = "hash"] /\ UNCHANGED <<todo, work>>
        /\ UNCHANGED <<smb, sourceVars, procVars, force, listed, rows, restarts>>

\* store.sha256.  The same content under another stat only refreshes the stat.
Hash(w) ==
    LET f == work[w].file
    IN  /\ pc[w] = "hash"
        /\ IF disk[f] = 0 \/ ~ Answers
           THEN FileDone(w) /\ UNCHANGED rows
           ELSE IF rows[f].ok /\ rows[f].sha = disk[f] /\ ~ force[w]
           THEN FileDone(w) /\ rows' = [rows EXCEPT ![f].stat = work[w].stat]
           ELSE /\ work' = [work EXCEPT ![w].sha = disk[f]]
                /\ pc' = [pc EXCEPT ![w] = "read"]
                /\ UNCHANGED <<todo, rows>>
        /\ UNCHANGED <<smb, sourceVars, procVars, force, listed, restarts>>

\* parse: the text is read, or cannot be any more: a ParseError, text 0.
Read(w) ==
    /\ pc[w] = "read"
    /\ work' = [work EXCEPT ![w].text = IF Answers THEN disk[work[w].file] ELSE 0]
    /\ pc' = [pc EXCEPT ![w] = "commit"]
    /\ UNCHANGED <<smb, sourceVars, procVars, force, todo, listed, rows, restarts>>

\* The file is there and cannot be parsed, or not read at this moment.
ReadFails(w) ==
    /\ pc[w] = "read"
    /\ Fault
    /\ pc' = [pc EXCEPT ![w] = "commit"]
    /\ UNCHANGED <<smb, disk, edits, share, procVars, force, todo, listed, work,
                   rows, restarts>>

\* Mutant: the stat that is stored is taken after the text was read.
CommitRestats(w) ==
    /\ pc[w] = "commit"
    /\ FileDone(w)
    /\ rows' = [rows EXCEPT ![work[w].file] =
                  [stat |-> disk[work[w].file], sha |-> work[w].sha, text |-> work[w].text,
                   ok |-> work[w].text # 0]]
    /\ UNCHANGED <<smb, sourceVars, procVars, force, listed, restarts>>

\* The end of the session: the row and its chunks in one transaction, with status
\* "error" and no chunks after a ParseError.
Commit(w) ==
    /\ pc[w] = "commit"
    /\ FileDone(w)
    /\ rows' = [rows EXCEPT ![work[w].file] =
                  [stat |-> work[w].stat, sha |-> work[w].sha, text |-> work[w].text,
                   ok |-> work[w].text # 0]]
    /\ UNCHANGED <<smb, sourceVars, procVars, force, listed, restarts>>

-----------------------------------------------------------------------------
(* The end of reindex *)

\* _remove_deleted
Prune(w) ==
    /\ pc[w] = "next" /\ todo[w] = {}
    /\ lock = Free
    /\ rows' = [f \in Files |-> IF f \in listed[w] THEN rows[f] ELSE NoRow]
    /\ pc' = [pc EXCEPT ![w] = "finish"]
    /\ UNCHANGED <<smb, sourceVars, procVars, force, todo, listed, work, restarts>>

\* Mutant: running is cleared at the end of a complete scan, not in a `finally`.
FinishNoFinally(w) ==
    /\ pc[w] = "finish"
    /\ lock = Free
    /\ running' = (session = "built")
    /\ pc' = [pc EXCEPT ![w] = "none"]
    /\ listed' = [listed EXCEPT ![w] = {}]
    /\ UNCHANGED <<smb, sourceVars, session, lock, timer, force, todo, work, rows, restarts>>

\* The `finally`.
Finish(w) ==
    /\ pc[w] = "finish"
    /\ lock = Free
    /\ running' = FALSE
    /\ pc' = [pc EXCEPT ![w] = "none"]
    /\ listed' = [listed EXCEPT ![w] = {}]
    /\ UNCHANGED <<smb, sourceVars, session, lock, timer, force, todo, work, rows, restarts>>

\* The server dies and starts again: its threads, status and timer are gone, the
\* startup reindex is on its way.
Restart ==
    /\ restarts < MaxRestarts
    /\ restarts' = restarts + 1
    /\ pc' \in Starting
    /\ force' = [w \in Workers |-> FALSE]
    /\ todo' = [w \in Workers |-> {}]
    /\ listed' = [w \in Workers |-> {}]
    /\ work' = [w \in Workers |-> NoWork]
    /\ running' = FALSE
    /\ lock' = Free
    /\ session' = "none"
    /\ timer' = FALSE
    /\ UNCHANGED <<smb, sourceVars, rows>>

Reindexing(w) ==
    \/ Claim(w) \/ Scan(w) \/ ScanUnreachable(w) \/ Stat(w) \/ Load(w) \/ Hash(w)
    \/ Read(w) \/ Commit(w) \/ Prune(w) \/ Finish(w)

Next ==
    \/ \E f \in Files : Edit(f) \/ DocsSave(f) \/ DocsDelete(f)
    \/ ShareDown \/ ShareUp
    \/ Asked \/ TimerFires \/ PollFires
    \/ \E w \in Workers : ScanFallsBack(w) \/ ReadFails(w) \/ Reindexing(w)
    \/ Restart

Spec == Init /\ [][Next]_vars

\* A thread that can run does; the timer fires, and the poll again and again.
Fairness ==
    /\ \A w \in Workers : WF_vars(Reindexing(w))
    /\ WF_vars(TimerFires)
    /\ SF_vars(PollFires)

FairSpec == Spec /\ Fairness

-----------------------------------------------------------------------------
(* Properties *)

\* A thread waits for the status lock that it holds itself.
Wedged == \E w \in Workers : pc[w] = "stuck"

\* Every variable has its type; no stored stat, hash or text is of a version that
\* never was.
TypeOK ==
    /\ smb \in BOOLEAN
    /\ disk \in [Files -> Versions] /\ edits \in Versions
    /\ share \in BOOLEAN
    /\ session \in {"none", "built", "registered"}
    /\ rows \in [Files -> Rows]
    /\ pc \in [Workers -> PCs]
    /\ force \in [Workers -> BOOLEAN]
    /\ todo \in [Workers -> SUBSET Files]
    /\ listed \in [Workers -> SUBSET Files]
    /\ work \in [Workers -> [file : Files \cup {0}, stat : Versions, sha : Versions,
                             text : Versions]]
    /\ running \in BOOLEAN
    /\ lock \in Workers \cup {Free}
    /\ timer \in BOOLEAN
    /\ faults \in 0 .. MaxFaults /\ restarts \in 0 .. MaxRestarts

\* At most one reindex is at work, and only while _status.running says so: not even
\* triggers that both saw it FALSE make two (reindex's own check).
OneReindex ==
    /\ \A v, w \in Workers : Active(v) /\ Active(w) => v = w
    /\ (\E w \in Workers : Active(w)) => running

\* The fast path is sound: a row that says "indexed" under the size and mtime the
\* file has now holds the text the file has now, whatever was edited between the
\* stat, the hash and the read of an earlier _index_one.
FastPathSound ==
    \A f \in Files : rows[f].ok /\ rows[f].stat = disk[f] => rows[f].text = disk[f]

\* So is the comparison of hashes: a row that is indexed under the hash of the
\* file as it is holds its text ("content identical, only the stat changed").
HashPathSound ==
    \A f \in Files : rows[f].ok /\ rows[f].sha = disk[f] => rows[f].text = disk[f]

\* A reindex that runs comes to its end, whatever fails on the way, unless a second
\* one has wedged the status lock.
ReindexEnds == running ~> (~ running \/ Wedged)

Fresh(f) == rows[f].text = disk[f] /\ (disk[f] = 0 => rows[f] = NoRow)

\* Once an SMB source is left alone and answers, the index is the source: polling
\* makes up for every edit, failure and fallback of a reindex before.
CatchesUp == smb /\ <>[] share => <>[] (Wedged \/ \A f \in Files : Fresh(f))

\* Both ways of _index_one to skip a file are sound, over rows that only ever hold
\* stats, hashes and texts the file has had.
IndexSound == TypeOK /\ FastPathSound /\ HashPathSound
=============================================================================
