-------------------------- MODULE RecordingsProofs --------------------------
(***************************************************************************)
(* For every number of users, tenants and recordings, and however often    *)
(* the process dies: no journal is lost, a journal_path points at a        *)
(* complete journal, the registry is backed by rows and files, startup     *)
(* leaves no stale row, and an ended recording stays as it is.             *)
(***************************************************************************)
EXTENDS Recordings, TLAPS

\* Each file is a complete copy, and a slug without a row has no files.
FilesComplete ==
    \A s \in Slugs :
        /\ tmp[s].there => tmp[s].events = logged[s]
        /\ final[s].there => final[s].events = logged[s] /\ final[s].ends # {}
        /\ logged[s] > 0 => tmp[s].there \/ final[s].there
        /\ row[s] = "none" => logged[s] = 0 /\ ~ tmp[s].there /\ ~ final[s].there
        /\ s \in path => final[s].there /\ row[s] # "active"

\* A recording that can still be written to has not been delivered.
RegistryOpen ==
    \A u \in Users : registry[u] # None =>
        /\ row[registry[u]] = "active" /\ owner[registry[u]] = u
        /\ tmp[registry[u]].there /\ tmp[registry[u]].ends = {}
        /\ ~ final[registry[u]].there

\* The recording a handler works on is active and in nobody's registry.
HandlerOwns ==
    handler.pc # "idle" =>
        /\ boot.pc = "up"
        /\ row[handler.slug] = "active"
        /\ \A u \in Users : registry[u] # handler.slug
        /\ handler.pc = "writer" =>
               /\ owner[handler.slug] = handler.user
               /\ logged[handler.slug] = 0 /\ ~ final[handler.slug].there
        /\ handler.pc = "deliver" =>
               tmp[handler.slug].there /\ tmp[handler.slug].ends # {}
        /\ handler.pc \in {"unlink", "row"} => final[handler.slug].there

\* While the process is down or starting nothing else runs; startup works on
\* exactly the active rows, and has delivered the ones it will give a path.
BootAlone ==
    /\ boot.pc # "up" => handler.pc = "idle" /\ \A u \in Users : registry[u] = None
    /\ boot.pc \in {"next", "deliver", "unlink"} =>
           /\ boot.rows = {s \in Slugs : row[s] = "active"}
           /\ boot.todo \subseteq boot.rows /\ boot.moved \subseteq boot.rows
           /\ \A s \in boot.moved : final[s].there
    /\ boot.pc \in {"deliver", "unlink"} => boot.slug \in boot.todo
    /\ boot.pc = "deliver" => tmp[boot.slug].there /\ tmp[boot.slug].ends # {}
    /\ boot.pc = "unlink" => final[boot.slug].there

RecInv ==
    TypeOK /\ FilesComplete /\ RegistryOpen /\ HandlerOwns /\ BootAlone /\ StaleAborted


-----------------------------------------------------------------------------
(* Every action preserves the types *)

\* An unlink takes away at most the file it names, even if it fails.
LEMMA UnlinkEffect ==
    ASSUME tmp \in [Slugs -> Files], NEW s \in Slugs, Unlink(s)
    PROVE  /\ tmp' \in [Slugs -> Files]
           /\ \A x \in Slugs \ {s} : tmp'[x] = tmp[x]
           /\ tmp'[s].there => tmp'[s] = tmp[s]
<1>1. tmp' = tmp \/ tmp' = [tmp EXCEPT ![s] = NoFile]
    BY DEF Unlink
<1>2. NoFile \in Files /\ ~ NoFile.there
    BY DEF NoFile, Files
<1> QED BY <1>1, <1>2

\* Every action keeps the shapes of rows, files, registry and progress.
LEMMA TypeStep == TypeOK /\ [Next]_vars => TypeOK'
<1> SUFFICES ASSUME TypeOK, [Next]_vars PROVE TypeOK'
    OBVIOUS
<1> USE RecordingAssumption
        DEF TypeOK, Handlers, Boots, Files, Statuses, At, Idle, Booting, Up, Ready,
            rowVars, fileVars, memVars, vars
<1>1. ASSUME NEW u \in Users, Start(u) PROVE TypeOK'
    BY <1>1 DEF Start
<1>2. ASSUME NEW u \in Users, WriteEvent(u) PROVE TypeOK'
    BY <1>2 DEF WriteEvent, AddEvent
<1>3. ASSUME NEW u \in Users, UpdateOptions(u) PROVE TypeOK'
    BY <1>3 DEF UpdateOptions
<1>4. ASSUME NEW u \in Users, Stop(u) PROVE TypeOK'
    BY <1>4 DEF Stop, AddFooter
<1>5. CASE OpenWriter
    BY <1>5 DEF OpenWriter, Header
<1>6. CASE OpenWriterFails
    BY <1>6 DEF OpenWriterFails
<1>7. CASE StopDelivers
    BY <1>7 DEF StopDelivers, Deliver, NoFile
<1>8. CASE StopFails
    BY <1>8 DEF StopFails
<1>9. CASE StopUnlinks
    <2>1. tmp' \in [Slugs -> Files]
        BY <1>9, UnlinkEffect DEF StopUnlinks
    <2> QED BY <1>9, <2>1 DEF StopUnlinks
<1>10. CASE StopCommits
    BY <1>10 DEF StopCommits
<1>11. CASE StopRefused
    BY <1>11 DEF StopRefused
<1>12. CASE Crash
    BY <1>12 DEF Crash
<1>13. CASE BootReads
    BY <1>13 DEF BootReads
<1>14. CASE BootFails
    BY <1>14 DEF BootFails, BootNext
<1>15. CASE BootDelivers
    BY <1>15 DEF BootDelivers, Deliver, BootNext, NoFile
<1>16. CASE BootUnlinks
    <2>1. tmp' \in [Slugs -> Files]
        BY <1>16, UnlinkEffect DEF BootUnlinks
    <2> QED BY <1>16, <2>1 DEF BootUnlinks, BootNext
<1>17. CASE BootCommits
    BY <1>17 DEF BootCommits
<1>18. ASSUME NEW s \in Slugs, BootSkips(s) PROVE TypeOK'
    BY <1>18 DEF BootSkips
<1>19. ASSUME NEW s \in Slugs, BootAppends(s) PROVE TypeOK'
    BY <1>19 DEF BootAppends, AddFooter
<1>20. CASE UNCHANGED vars
    BY <1>20
<1> QED
    BY <1>1, <1>2, <1>3, <1>4, <1>5, <1>6, <1>7, <1>8, <1>9, <1>10, <1>11, <1>12, <1>13, <1>14, <1>15, <1>16, <1>17, <1>18, <1>19, <1>20 DEF Next

-----------------------------------------------------------------------------
(* Every action preserves the invariant *)

\* One step per action; the parts of the invariant quantify over all recordings,
\* so each action may disturb all of them.
LEMMA InvStep == RecInv /\ [Next]_vars => RecInv'
<1> SUFFICES ASSUME RecInv, [Next]_vars PROVE RecInv'
    OBVIOUS
<1>0. TypeOK /\ TypeOK'
    BY TypeStep DEF RecInv
<1> DEFINE Parts == FilesComplete /\ RegistryOpen /\ HandlerOwns /\ BootAlone /\ StaleAborted
<1>p. Parts
    BY DEF RecInv
<1> USE RecordingAssumption, <1>0, <1>p
        DEF TypeOK, Handlers, Boots, Files, Statuses, At, Idle, Booting, Up, Ready,
            FilesComplete, RegistryOpen, HandlerOwns, BootAlone, StaleAborted
<1>1. ASSUME NEW u \in Users, Start(u) PROVE Parts'
    BY <1>1 DEF Start, rowVars, fileVars, memVars
<1>2. ASSUME NEW u \in Users, WriteEvent(u) PROVE Parts'
    BY <1>2 DEF WriteEvent, rowVars, fileVars, memVars, AddEvent
<1>3. ASSUME NEW u \in Users, UpdateOptions(u) PROVE Parts'
    BY <1>3 DEF UpdateOptions, rowVars, fileVars, memVars
<1>4. ASSUME NEW u \in Users, Stop(u) PROVE Parts'
    BY <1>4 DEF Stop, rowVars, fileVars, memVars, AddFooter
<1>5. ASSUME OpenWriter PROVE Parts'
    BY <1>5 DEF OpenWriter, rowVars, fileVars, memVars, Header
<1>6. ASSUME OpenWriterFails PROVE Parts'
    BY <1>6 DEF OpenWriterFails, rowVars, fileVars, memVars
<1>7. ASSUME StopDelivers PROVE Parts'
    BY <1>7 DEF StopDelivers, rowVars, fileVars, memVars, Deliver, NoFile
<1>8. ASSUME StopFails PROVE Parts'
    BY <1>8 DEF StopFails, rowVars, fileVars, memVars
<1>9. ASSUME StopUnlinks PROVE Parts'
    <2>1. /\ handler.slug \in Slugs /\ final[handler.slug].there
          /\ \A x \in Slugs \ {handler.slug} : tmp'[x] = tmp[x]
          /\ tmp'[handler.slug].there => tmp'[handler.slug] = tmp[handler.slug]
        BY <1>9, UnlinkEffect DEF StopUnlinks
    <2>2. UNCHANGED <<row, path, final, logged>>
        BY <1>9 DEF StopUnlinks, rowVars
    <2>3. FilesComplete'
        <3> SUFFICES ASSUME NEW s \in Slugs
                     PROVE  /\ tmp'[s].there => tmp'[s].events = logged[s]
                            /\ logged[s] > 0 => tmp'[s].there \/ final[s].there
                            /\ row[s] = "none" => ~ tmp'[s].there
            BY <2>2
        <3>1. CASE s = handler.slug
            BY <2>1, <3>1
        <3>2. CASE s # handler.slug
            BY <2>1, <3>2
        <3> QED BY <3>1, <3>2
    <2>4. RegistryOpen' /\ HandlerOwns' /\ BootAlone' /\ StaleAborted'
        BY <1>9, <2>1 DEF StopUnlinks, rowVars, memVars
    <2> QED BY <2>3, <2>4
<1>10. ASSUME StopCommits PROVE Parts'
    BY <1>10 DEF StopCommits, rowVars, fileVars, memVars
<1>11. ASSUME StopRefused PROVE Parts'
    BY <1>11 DEF StopRefused, rowVars, fileVars, memVars
<1>12. ASSUME Crash PROVE Parts'
    BY <1>12 DEF Crash, rowVars, fileVars, memVars
<1>13. ASSUME BootReads PROVE Parts'
    BY <1>13 DEF BootReads, rowVars, fileVars, memVars
<1>14. ASSUME BootFails PROVE Parts'
    BY <1>14 DEF BootFails, rowVars, fileVars, memVars, BootNext
<1>15. ASSUME BootDelivers PROVE Parts'
    BY <1>15 DEF BootDelivers, rowVars, fileVars, memVars, Deliver, BootNext, NoFile
<1>16. ASSUME BootUnlinks PROVE Parts'
    BY <1>16, UnlinkEffect DEF BootUnlinks, rowVars, fileVars, memVars, BootNext
<1>17. ASSUME BootCommits PROVE Parts'
    BY <1>17 DEF BootCommits, rowVars, fileVars, memVars
<1>18. ASSUME NEW s \in Slugs, BootSkips(s) PROVE Parts'
    BY <1>18 DEF BootSkips, rowVars, fileVars, memVars
<1>19. ASSUME NEW s \in Slugs, BootAppends(s) PROVE Parts'
    BY <1>19 DEF BootAppends, rowVars, fileVars, memVars, AddFooter
<1>20. ASSUME UNCHANGED vars PROVE Parts'
    BY <1>20 DEF vars, rowVars, fileVars, memVars
<1>q. Parts'
    BY <1>1, <1>2, <1>3, <1>4, <1>5, <1>6, <1>7, <1>8, <1>9, <1>10, <1>11, <1>12, <1>13, <1>14, <1>15, <1>16, <1>17, <1>18, <1>19, <1>20 DEF Next
<1> QED BY <1>q DEF RecInv

\* The inductive invariant holds.
THEOREM RecordingInvariant == Spec => []RecInv
<1>1. Init => RecInv
    <2> SUFFICES ASSUME Init PROVE RecInv
        OBVIOUS
    <2>0. (CHOOSE u \in Users : TRUE) \in Users /\ (CHOOSE t \in Tenants : TRUE) \in Tenants
        BY RecordingAssumption
    <2>a. NoFile \in Files
        BY DEF NoFile, Files
    <2>b. /\ handler \in Handlers /\ handler.pc = "idle" /\ handler = Idle
          /\ boot \in Boots /\ boot.pc = "up" /\ boot = Up
        BY DEF Init, Handlers, Boots, At, Idle, Booting, Up
    <2>c. /\ owner \in [Slugs -> Users] /\ tenant \in [Slugs -> Tenants]
          /\ tmp \in [Slugs -> Files] /\ final \in [Slugs -> Files]
        BY <2>0, <2>a DEF Init
    <2>d. /\ row \in [Slugs -> Statuses] /\ path \subseteq Slugs /\ mine \subseteq Slugs
          /\ registry \in [Users -> Slugs \cup {None}]
          /\ logged \in [Slugs -> 0 .. MaxEvents]
        BY RecordingAssumption DEF Init, Statuses
    <2>e. options \in [Slugs -> BOOLEAN] /\ wanted \in [Users -> BOOLEAN] /\ inDocs \in BOOLEAN
        BY DEF Init
    <2>1. TypeOK
        BY <2>b, <2>c, <2>d, <2>e DEF TypeOK
    <2>2. FilesComplete /\ RegistryOpen /\ HandlerOwns /\ BootAlone /\ StaleAborted
        BY RecordingAssumption
        DEF Init, FilesComplete, RegistryOpen, HandlerOwns, BootAlone, StaleAborted,
            At, Idle, Booting, Up, NoFile
    <2> QED BY <2>1, <2>2 DEF RecInv
<1> QED BY <1>1, InvStep, PTL DEF Spec

-----------------------------------------------------------------------------
(* What it shows *)

\* Rows, files, registry and progress have their types.
THEOREM RecordingTypes == Spec => []TypeOK
<1>1. RecInv => TypeOK
    BY DEF RecInv
<1> QED BY <1>1, RecordingInvariant, PTL

\* No journal is lost, whatever fails and whenever the process dies: a file is
\* removed from tmp_dir only once its complete copy is in sessions_dir.
THEOREM JournalsKept == Spec => []NothingLost
<1>1. RecInv => NothingLost
    BY DEF RecInv, FilesComplete, NothingLost
<1> QED BY <1>1, RecordingInvariant, PTL

\* A journal_path points at a complete, closed journal.
THEOREM PathsSound == Spec => []PathHasJournal
<1>1. RecInv => PathHasJournal
    BY DEF RecInv, TypeOK, FilesComplete, PathHasJournal
<1> QED BY <1>1, RecordingInvariant, PTL

\* The registry is backed by active rows and open journals, one user each.
THEOREM RegistrySound == Spec => []RegistryBacked
<1>1. RecInv => RegistryBacked
    BY RecordingAssumption DEF RecInv, TypeOK, RegistryOpen, RegistryBacked
<1> QED BY <1>1, RecordingInvariant, PTL

\* The three together, which is what the run checks: at every point where the process
\* may die or the docs store may refuse, rows, files and registry agree.
THEOREM RecordsAgree == Spec => []JournalsSafe
BY JournalsKept, PathsSound, RegistrySound, PTL DEF JournalsSafe

\* A process that serves requests has left no row of an earlier one active.
THEOREM StartupRecovers == Spec => []StaleAborted
<1>1. RecInv => StaleAborted
    BY DEF RecInv
<1> QED BY <1>1, RecordingInvariant, PTL

\* Ended recordings never change: only the recording a handler or the startup
\* works on is written, and that one is active.
THEOREM EndedRecordingsStay == Spec => EndedStays
<1> DEFINE Stays == \A s \in Slugs : row[s] \in {"finalized", "aborted"} =>
                       row'[s] = row[s] /\ final'[s] = final[s]
<1>1. ASSUME RecInv, [Next]_vars PROVE Stays
    <2> SUFFICES ASSUME NEW s \in Slugs, row[s] \in {"finalized", "aborted"}
                 PROVE  row'[s] = row[s] /\ final'[s] = final[s]
        OBVIOUS
    <2> USE DEF rowVars, fileVars
    <2>1. TypeOK /\ HandlerOwns /\ BootAlone
        BY <1>1 DEF RecInv
    <2>2. ASSUME NEW u \in Users, Start(u) \/ WriteEvent(u) \/ UpdateOptions(u) \/ Stop(u)
          PROVE  row'[s] = row[s] /\ final'[s] = final[s]
        BY <2>1, <2>2 DEF TypeOK, Start, WriteEvent, UpdateOptions, Stop
    <2>3. CASE StopDelivers \/ StopCommits
        BY <2>1, <2>3 DEF TypeOK, HandlerOwns, StopDelivers, Deliver, StopCommits
    <2>4. CASE BootDelivers \/ BootCommits
        BY <2>1, <2>4 DEF TypeOK, BootAlone, BootDelivers, Deliver, BootCommits
    <2>5. CASE \/ OpenWriter \/ OpenWriterFails \/ StopFails \/ StopUnlinks
               \/ StopRefused \/ Crash \/ BootReads \/ BootFails \/ BootUnlinks
        BY <2>5 DEF OpenWriter, OpenWriterFails, StopFails, StopUnlinks, StopRefused,
                    Crash, BootReads, BootFails, BootUnlinks
    <2>6. ASSUME NEW x \in Slugs, BootSkips(x) \/ BootAppends(x)
          PROVE  row'[s] = row[s] /\ final'[s] = final[s]
        BY <2>6 DEF BootSkips, BootAppends
    <2>7. CASE UNCHANGED vars
        BY <2>7 DEF vars
    <2> QED BY <1>1, <2>2, <2>3, <2>4, <2>5, <2>6, <2>7 DEF Next
<1>2. RecInv /\ [Next]_vars => [Stays]_vars
    BY <1>1
<1> QED BY <1>2, RecordingInvariant, PTL DEF Spec, EndedStays
=============================================================================
