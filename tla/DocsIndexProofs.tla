--------------------------- MODULE DocsIndexProofs ---------------------------
(***************************************************************************)
(* For every set of files, every number of threads, edits, failures and    *)
(* restarts: at most one reindex is at work, and both ways in which        *)
(* _index_one skips a file are sound.                                      *)
(***************************************************************************)
EXTENDS DocsIndex, MirrorState, Sequences, WellFoundedInduction,
        FiniteSetTheorems, TLAPS

\* A version that some read of the source gave, and no later one.
Seen(v) == v # 0 /\ v <= edits

\* Nothing is newer than the last edit.
DiskDated == \A f \in Files : disk[f] <= edits

\* An indexed row was taken from versions that the file had.
RowsSeen == \A f \in Files : rows[f].ok =>
    Seen(rows[f].stat) /\ Seen(rows[f].sha) /\ Seen(rows[f].text)

\* What _index_one holds at each of its steps: the text is read last, so if the
\* stat or the hash is still the file's, so is the text.
InHand == {"load", "hash", "read", "commit"}

HeldSound(w) == LET held == work[w] IN
    /\ held.file \in Files
    /\ Seen(held.stat)
    /\ pc[w] \in {"read", "commit"} => Seen(held.sha)
    /\ pc[w] # "commit" => held.text = 0
    /\ held.text <= edits
    /\ held.text # 0 =>
           /\ held.stat = disk[held.file] => held.text = disk[held.file]
           /\ held.sha = disk[held.file] => held.text = disk[held.file]

WorkSound == \A w \in Workers : pc[w] \in InHand => HeldSound(w)

VersionInv == DiskDated /\ RowsSeen /\ WorkSound /\ FastPathSound /\ HashPathSound

IndexInv == TypeOK /\ OneReindex /\ VersionInv

-----------------------------------------------------------------------------
(* Helpers *)

\* A non-empty set of natural numbers has a least element.
LEMMA LeastNatural ==
    ASSUME NEW S \in SUBSET Nat, S # {}
    PROVE  \E m \in S : \A n \in S : m <= n
<1> DEFINE R == {ss \in Nat \X Nat : ss[1] < ss[2]}
<1>1. IsWellFoundedOn(R, Nat)
    BY NatLessThanWellFounded DEF OpToRel
<1>2. \A m, n \in Nat : n < m => <<n, m>> \in R
    OBVIOUS
<1> HIDE DEF R
<1>3. PICK m \in S : \A n \in S : ~ (<<n, m>> \in R)
    BY <1>1, WFMin
<1>4. ASSUME NEW n \in S PROVE m <= n
    <2>1. m \in Nat /\ n \in Nat
        OBVIOUS
    <2>2. ~ (n < m)
        BY <1>2, <1>3, <2>1
    <2> QED BY <2>1, <2>2
<1> QED BY <1>4

\* The file that Stat takes is one the scan listed.
LEMMA FirstFileIn ==
    ASSUME TypeOK, NEW w \in Workers, todo[w] # {}
    PROVE  FirstFile(w) \in todo[w] /\ FirstFile(w) \in Files
<1>1. todo[w] \in SUBSET Nat /\ todo[w] \subseteq Files
    BY IndexAssumption DEF TypeOK
<1>2. \E m \in todo[w] : \A n \in todo[w] : m <= n
    BY <1>1, LeastNatural
<1> QED BY <1>1, <1>2 DEF FirstFile

\* A trigger at most brings a thread from nowhere to the door of reindex.
LEMMA AsyncEffect ==
    ASSUME TypeOK, NEW forced \in BOOLEAN, ReindexAsync(forced)
    PROVE  /\ pc' \in [Workers -> PCs] /\ force' \in [Workers -> BOOLEAN]
           /\ \A w \in Workers : pc'[w] = pc[w] \/ (pc'[w] = "starting" /\ pc[w] = "none")
<1>0. pc \in [Workers -> PCs] /\ force \in [Workers -> BOOLEAN]
    BY DEF TypeOK
<1>1. CASE UNCHANGED <<pc, force>>
    BY <1>0, <1>1
<1>2. ASSUME NEW v \in Workers, pc[v] = "none", pc' = [pc EXCEPT ![v] = "starting"],
             force' = [force EXCEPT ![v] = forced]
      PROVE  /\ pc' \in [Workers -> PCs] /\ force' \in [Workers -> BOOLEAN]
             /\ \A w \in Workers : pc'[w] = pc[w] \/ (pc'[w] = "starting" /\ pc[w] = "none")
    <2>1. force' \in [Workers -> BOOLEAN]
        BY <1>0, <1>2, Zenon
    <2>2. /\ pc' \in [Workers -> PCs]
          /\ \A w \in Workers : pc'[w] = pc[w] \/ (pc'[w] = "starting" /\ pc[w] = "none")
        BY <1>0, <1>2 DEF PCs
    <2> QED BY <2>1, <2>2
<1>3. UNCHANGED <<pc, force>> \/ \E v \in Workers : /\ pc[v] = "none"
                                                   /\ pc' = [pc EXCEPT ![v] = "starting"]
                                                   /\ force' = [force EXCEPT ![v] = forced]
    BY DEF ReindexAsync
<1> QED BY <1>1, <1>2, <1>3

\* After startup one thread is at the door and the others are nowhere.
LEMMA StartingShape ==
    ASSUME NEW p \in Starting
    PROVE  p \in [Workers -> {"none", "starting"}]
BY DEF Starting

-----------------------------------------------------------------------------
(* Types *)

Works == [file : Files \cup {0}, stat : Versions, sha : Versions, text : Versions]

\* _index_one starts, and ends, with nothing in hand.
LEMMA NoWorkTyped == NoWork \in Works /\ 0 \in Versions
BY IndexAssumption DEF NoWork, Works, Versions

\* The end of _index_one keeps the types.
LEMMA DoneTyped ==
    ASSUME TypeOK, NEW w \in Workers, FileDone(w)
    PROVE  /\ todo' \in [Workers -> SUBSET Files] /\ pc' \in [Workers -> PCs]
           /\ work' \in [Workers -> Works]
<1>1. todo' \in [Workers -> SUBSET Files] /\ pc' \in [Workers -> PCs]
    BY DEF FileDone, TypeOK, PCs
<1>2. work' \in [Workers -> Works]
    BY NoWorkTyped DEF FileDone, TypeOK, Works
<1> QED BY <1>1, <1>2

\* A change of the source keeps versions within the bound.
LEMMA ChangeTypes ==
    ASSUME TypeOK, NEW f \in Files, WriteBytes(f) \/ Delete(f)
    PROVE  disk' \in [Files -> Versions] /\ edits' \in Versions /\ timer' \in BOOLEAN
<1>1. PICK v \in {0, edits + 1} : Change(f, v)
    BY DEF WriteBytes, Delete
<1>2. v \in Versions /\ edits + 1 \in Versions
    BY <1>1, IndexAssumption DEF Change, TypeOK, Versions
<1> QED BY <1>1, <1>2 DEF Change, TypeOK

\* Every action keeps the types, and every version is one that was used.
LEMMA TypeStep == TypeOK /\ WorkSound /\ [Next]_vars => TypeOK'
<1> SUFFICES ASSUME TypeOK, WorkSound, [Next]_vars PROVE TypeOK'
    OBVIOUS
<1> USE DEF vars, sourceVars, procVars, workVars
<1>1. ASSUME NEW f \in Files, Edit(f) PROVE TypeOK'
    BY <1>1, ChangeTypes DEF Edit, TypeOK
<1>2. ASSUME NEW f \in Files, DocsSave(f) PROVE TypeOK'
    BY <1>2, ChangeTypes, AsyncEffect DEF DocsSave, TypeOK
<1>3. ASSUME NEW f \in Files, DocsDelete(f) PROVE TypeOK'
    BY <1>3, ChangeTypes, AsyncEffect DEF DocsDelete, TypeOK
<1>4. CASE ShareDown
    <2>1. faults' \in 0 .. MaxFaults
        BY <1>4, IndexAssumption DEF ShareDown, Fault, TypeOK
    <2> QED BY <1>4, <2>1 DEF ShareDown, TypeOK
<1>5. CASE ShareUp
    BY <1>5 DEF ShareUp, TypeOK
<1>6. CASE Asked
    BY <1>6, AsyncEffect DEF Asked, TypeOK
<1>7. CASE TimerFires
    BY <1>7, AsyncEffect DEF TimerFires, TypeOK
<1>8. CASE PollFires
    BY <1>8, AsyncEffect DEF PollFires, TypeOK
<1>9. ASSUME NEW w \in Workers, ScanFallsBack(w) PROVE TypeOK'
    BY <1>9, IndexAssumption DEF ScanFallsBack, Fault, Listed, TypeOK, PCs
<1>10. ASSUME NEW w \in Workers, ReadFails(w) PROVE TypeOK'
    BY <1>10, IndexAssumption DEF ReadFails, Fault, TypeOK, PCs
<1>11. ASSUME NEW w \in Workers, Claim(w) PROVE TypeOK'
    BY <1>11 DEF Claim, TypeOK, PCs
<1>12. ASSUME NEW w \in Workers, Scan(w) PROVE TypeOK'
    BY <1>12 DEF Scan, Listed, TypeOK, PCs
<1>13. ASSUME NEW w \in Workers, ScanUnreachable(w) PROVE TypeOK'
    BY <1>13 DEF ScanUnreachable, Listed, TypeOK, PCs
<1>14. ASSUME NEW w \in Workers, Stat(w) PROVE TypeOK'
    <2>1. FirstFile(w) \in Files
        BY <1>14, FirstFileIn DEF Stat
    <2>2. disk[FirstFile(w)] \in Versions
        BY <2>1 DEF TypeOK
    <2>3. todo' \in [Workers -> SUBSET Files] /\ pc' \in [Workers -> PCs]
        BY <1>14 DEF Stat, TypeOK, PCs
    <2>4. work' \in [Workers -> Works]
        <3>1. [NoWork EXCEPT !.file = FirstFile(w), !.stat = disk[FirstFile(w)]] \in Works
            BY <2>1, <2>2, NoWorkTyped DEF Works, NoWork
        <3> QED BY <1>14, <3>1 DEF Stat, TypeOK, Works
    <2> QED BY <1>14, <2>3, <2>4 DEF Stat, TypeOK, Works
<1>15. ASSUME NEW w \in Workers, Load(w) PROVE TypeOK'
    <2>1. CASE FileDone(w)
        BY <1>15, <2>1, DoneTyped DEF Load, TypeOK, Works
    <2>2. CASE pc' = [pc EXCEPT ![w] = "hash"] /\ UNCHANGED <<todo, work>>
        BY <1>15, <2>2 DEF Load, TypeOK, PCs
    <2> QED BY <1>15, <2>1, <2>2 DEF Load
<1>16. ASSUME NEW w \in Workers, Hash(w) PROVE TypeOK'
    <2>1. work[w].file \in Files
        BY <1>16 DEF Hash, WorkSound, HeldSound, InHand
    <2>2. rows' \in [Files -> Rows]
        <3>1. rows \in [Files -> Rows] /\ work[w].stat \in Versions
            BY DEF TypeOK
        <3>2. [rows EXCEPT ![work[w].file].stat = work[w].stat] \in [Files -> Rows]
            BY <2>1, <3>1 DEF Rows
        <3> QED BY <1>16, <3>1, <3>2 DEF Hash
    <2>3. CASE FileDone(w)
        BY <1>16, <2>2, <2>3, DoneTyped DEF Hash, TypeOK, Works
    <2>4. CASE /\ work' = [work EXCEPT ![w].sha = disk[work[w].file]]
               /\ pc' = [pc EXCEPT ![w] = "read"] /\ UNCHANGED todo
        <3>1. work' \in [Workers -> Works]
            BY <2>1, <2>4 DEF TypeOK, Works
        <3> QED BY <1>16, <2>2, <2>4, <3>1 DEF Hash, TypeOK, PCs, Works
    <2> QED BY <1>16, <2>3, <2>4 DEF Hash
<1>17. ASSUME NEW w \in Workers, Read(w) PROVE TypeOK'
    <2>1. work[w].file \in Files
        BY <1>17 DEF Read, WorkSound, HeldSound, InHand
    <2> QED BY <1>17, <2>1, IndexAssumption DEF Read, TypeOK, PCs, Versions
<1>18. ASSUME NEW w \in Workers, Commit(w) PROVE TypeOK'
    <2>1. rows' \in [Files -> Rows]
        BY <1>18 DEF Commit, TypeOK, Rows
    <2> QED BY <1>18, <2>1, DoneTyped DEF Commit, TypeOK, Works
<1>19. ASSUME NEW w \in Workers, Prune(w) PROVE TypeOK'
    <2>1. NoRow \in Rows
        BY IndexAssumption DEF NoRow, Rows, Versions
    <2> QED BY <1>19, <2>1 DEF Prune, TypeOK, PCs
<1>20. ASSUME NEW w \in Workers, Finish(w) PROVE TypeOK'
    BY <1>20 DEF Finish, TypeOK, PCs
<1>21. CASE Restart
    <2>1. pc' \in [Workers -> PCs]
        BY <1>21, StartingShape DEF Restart, PCs
    <2>2. work' \in [Workers -> Works]
        BY <1>21, NoWorkTyped DEF Restart
    <2>3. restarts' \in 0 .. MaxRestarts
        BY <1>21, IndexAssumption DEF Restart, TypeOK
    <2> QED BY <1>21, <2>1, <2>2, <2>3 DEF Restart, TypeOK, Works
<1>22. CASE UNCHANGED vars
    BY <1>22 DEF TypeOK
<1> QED BY <1>1, <1>2, <1>3, <1>4, <1>5, <1>6, <1>7, <1>8, <1>9, <1>10, <1>11, <1>12,
           <1>13, <1>14, <1>15, <1>16, <1>17, <1>18, <1>19, <1>20, <1>21, <1>22
         DEF Next, Reindexing

-----------------------------------------------------------------------------
(* One reindex *)

\* No step but a claim makes a thread active: where the claimed status stays and the
\* active threads were active before, OneReindex stays.
LEMMA NoNewReindex ==
    ASSUME OneReindex, \A v \in Workers : Active(v)' => Active(v), running' = running
    PROVE  OneReindex'
BY DEF OneReindex

\* Only Claim begins a reindex and only Finish ends one, each for one thread.
LEMMA OneStep == TypeOK /\ OneReindex /\ [Next]_vars => OneReindex'
<1> SUFFICES ASSUME TypeOK, OneReindex, [Next]_vars PROVE OneReindex'
    OBVIOUS
<1> USE DEF vars, sourceVars, procVars, workVars
<1>0. pc \in [Workers -> PCs]
    BY DEF TypeOK
<1>1. CASE UNCHANGED <<pc, running>>
    BY <1>1, NoNewReindex DEF Active
<1>2. ASSUME NEW forced \in BOOLEAN, ReindexAsync(forced), running' = running
      PROVE  OneReindex'
    BY <1>2, AsyncEffect, NoNewReindex DEF Active
<1>3. ASSUME NEW w \in Workers, Active(w), NEW p \in PCs \ {"none", "starting", "stuck"},
             pc' = [pc EXCEPT ![w] = p], running' = running
      PROVE  OneReindex'
    BY <1>0, <1>3, NoNewReindex DEF Active
<1>4. ASSUME NEW w \in Workers, Claim(w) PROVE OneReindex'
    <2>1. CASE running /\ pc' = [pc EXCEPT ![w] = "stuck"] /\ UNCHANGED running
        BY <1>0, <2>1, NoNewReindex DEF Active
    <2>2. CASE ~ running /\ pc' = [pc EXCEPT ![w] = "scan"] /\ running' = TRUE
        <3>1. \A v \in Workers : ~ Active(v)
            BY <2>2 DEF OneReindex
        <3>2. \A v \in Workers : Active(v)' => v = w
            BY <1>0, <2>2, <3>1 DEF Active
        <3> QED BY <2>2, <3>2 DEF OneReindex
    <2> QED BY <1>4, <2>1, <2>2 DEF Claim
<1>5. ASSUME NEW w \in Workers, Finish(w) PROVE OneReindex'
    <2>1. pc[w] = "finish" /\ pc' = [pc EXCEPT ![w] = "none"]
        BY <1>5 DEF Finish
    <2>2. Active(w)
        BY <2>1 DEF Active, PCs
    <2>3. \A v \in Workers : ~ Active(v)'
        BY <1>0, <2>1, <2>2 DEF OneReindex, Active
    <2> QED BY <2>3 DEF OneReindex
<1>6. CASE Restart
    <2>1. pc' \in [Workers -> {"none", "starting"}]
        BY <1>6, StartingShape DEF Restart
    <2> QED BY <2>1 DEF OneReindex, Active
<1>7. CASE \/ \E f \in Files : Edit(f) \/ DocsSave(f) \/ DocsDelete(f)
           \/ ShareDown \/ ShareUp \/ Asked \/ TimerFires \/ PollFires
    BY <1>7, <1>1, <1>2
       DEF Edit, DocsSave, DocsDelete, ShareDown, ShareUp, Asked, TimerFires, PollFires
<1>8. ASSUME NEW w \in Workers,
             \/ ScanFallsBack(w) \/ ReadFails(w) \/ Scan(w) \/ ScanUnreachable(w) \/ Stat(w)
             \/ Load(w) \/ Hash(w) \/ Read(w) \/ Commit(w) \/ Prune(w)
      PROVE  OneReindex'
    <2>1. Active(w) /\ running' = running
        BY <1>8 DEF ScanFallsBack, ReadFails, Scan, ScanUnreachable, Stat, Load, Hash, Read,
                    Commit, Prune, Active, PCs
    <2>2. pc' = pc \/ \E p \in PCs \ {"none", "starting", "stuck"} : pc' = [pc EXCEPT ![w] = p]
        BY <1>8 DEF ScanFallsBack, ReadFails, Scan, ScanUnreachable, Stat, Load, Hash, Read,
                    Commit, Prune, Listed, FileDone, PCs
    <2> QED BY <1>1, <1>3, <2>1, <2>2
<1>9. CASE UNCHANGED vars
    BY <1>9, <1>1
<1> QED BY <1>4, <1>5, <1>6, <1>7, <1>8, <1>9 DEF Next, Reindexing

-----------------------------------------------------------------------------
(* Versions *)

\* A step that touches neither the source nor the rows nor what _index_one holds.
LEMMA VersionsIdle ==
    ASSUME VersionInv, UNCHANGED <<disk, edits, rows, work>>,
           \A w \in Workers : pc'[w] \in InHand => pc'[w] = pc[w]
    PROVE  VersionInv'
BY DEF VersionInv, DiskDated, RowsSeen, WorkSound, HeldSound, FastPathSound, HashPathSound,
       Seen, InHand

\* A change of the source gives the file a version nobody has seen, or none: what
\* was taken from it before no longer looks like it.
LEMMA VersionsChange ==
    ASSUME TypeOK, VersionInv, NEW f \in Files, WriteBytes(f) \/ Delete(f),
           UNCHANGED <<rows, work>>,
           \A w \in Workers : pc'[w] \in InHand => pc'[w] = pc[w]
    PROVE  VersionInv'
<1> USE DEF Seen
<1>1. PICK v \in {0, edits + 1} : edits' = edits + 1 /\ disk' = [disk EXCEPT ![f] = v]
    BY DEF WriteBytes, Delete, Change
<1>2. /\ edits \in Nat /\ disk \in [Files -> Nat]
      /\ \A g \in Files : rows[g].stat \in Nat /\ rows[g].sha \in Nat /\ rows[g].text \in Nat
      /\ \A w \in Workers : work[w].stat \in Nat /\ work[w].sha \in Nat /\ work[w].text \in Nat
    BY DEF TypeOK, Versions, Rows
<1>3. \A g \in Files : disk'[g] = disk[g] \/ disk'[g] = 0 \/ disk'[g] > edits
    BY <1>1, <1>2
<1>4. DiskDated'
    BY <1>1, <1>2 DEF VersionInv, DiskDated
<1>5. RowsSeen'
    BY <1>1, <1>2 DEF VersionInv, RowsSeen
<1>6. FastPathSound' /\ HashPathSound'
    BY <1>2, <1>3 DEF VersionInv, RowsSeen, FastPathSound, HashPathSound
<1>7. WorkSound'
    <2> SUFFICES ASSUME NEW w \in Workers, pc'[w] \in InHand
                 PROVE  HeldSound(w)'
        BY DEF WorkSound
    <2> QED BY <1>1, <1>2, <1>3 DEF VersionInv, WorkSound, HeldSound, InHand
<1> QED BY <1>4, <1>5, <1>6, <1>7 DEF VersionInv

\* Each step of _index_one keeps the other threads' work and leaves its own sound.
LEMMA HeldElsewhere ==
    ASSUME VersionInv, NEW w \in Workers, UNCHANGED <<disk, edits>>,
           \A v \in Workers \ {w} : work'[v] = work[v] /\ pc'[v] = pc[v],
           pc'[w] \in InHand => HeldSound(w)'
    PROVE  DiskDated' /\ WorkSound'
BY DEF VersionInv, DiskDated, WorkSound, HeldSound, Seen

\* The end of _index_one.
LEMMA HeldDone ==
    ASSUME TypeOK, VersionInv, NEW w \in Workers, UNCHANGED <<disk, edits>>, FileDone(w)
    PROVE  DiskDated' /\ WorkSound'
<1>1. pc'[w] = "next" /\ \A v \in Workers \ {w} : work'[v] = work[v] /\ pc'[v] = pc[v]
    BY DEF FileDone, TypeOK
<1> QED BY <1>1, HeldElsewhere DEF InHand

\* Every step keeps what rows and threads hold in line with the source.
LEMMA VersionStep == TypeOK /\ VersionInv /\ [Next]_vars => VersionInv'
<1> SUFFICES ASSUME TypeOK, VersionInv, [Next]_vars PROVE VersionInv'
    OBVIOUS
<1> USE DEF vars, sourceVars, procVars, workVars
<1>0. /\ edits \in Nat /\ disk \in [Files -> Nat] /\ pc \in [Workers -> PCs]
      /\ \A g \in Files : rows[g].stat \in Nat /\ rows[g].sha \in Nat /\ rows[g].text \in Nat
      /\ \A w \in Workers : work[w].stat \in Nat /\ work[w].sha \in Nat /\ work[w].text \in Nat
      /\ work \in [Workers -> Works] /\ rows \in [Files -> Rows]
    BY DEF TypeOK, Versions, Rows, Works
<1>1. ASSUME NEW forced \in BOOLEAN, ReindexAsync(forced)
      PROVE  \A w \in Workers : pc'[w] \in InHand => pc'[w] = pc[w]
    BY <1>1, AsyncEffect DEF InHand
<1>2. ASSUME NEW f \in Files, Edit(f) \/ DocsSave(f) \/ DocsDelete(f) PROVE VersionInv'
    <2>1. (WriteBytes(f) \/ Delete(f)) /\ UNCHANGED <<rows, work>>
        BY <1>2 DEF Edit, DocsSave, DocsDelete
    <2>2. \A w \in Workers : pc'[w] \in InHand => pc'[w] = pc[w]
        BY <1>1, <1>2 DEF Edit, DocsSave, DocsDelete
    <2> QED BY <2>1, <2>2, VersionsChange
<1>3. CASE ShareDown \/ ShareUp \/ Asked \/ TimerFires \/ PollFires
    <2>1. \A w \in Workers : pc'[w] \in InHand => pc'[w] = pc[w]
        BY <1>1, <1>3 DEF ShareDown, ShareUp, Asked, TimerFires, PollFires
    <2> QED BY <1>3, <2>1, VersionsIdle DEF ShareDown, ShareUp, Asked, TimerFires, PollFires
<1>4. ASSUME NEW w \in Workers,
             ScanFallsBack(w) \/ Claim(w) \/ Scan(w) \/ ScanUnreachable(w) \/ Finish(w)
      PROVE  VersionInv'
    <2>1. UNCHANGED <<disk, edits, rows, work>>
        BY <1>4 DEF ScanFallsBack, Claim, Scan, ScanUnreachable, Finish
    <2>2. PICK p \in {"none", "scan", "stuck", "next", "finish"} : pc' = [pc EXCEPT ![w] = p]
        BY <1>4 DEF ScanFallsBack, Claim, Scan, ScanUnreachable, Finish, Listed
    <2> QED BY <1>0, <2>1, <2>2, VersionsIdle DEF InHand
<1>5. ASSUME NEW w \in Workers, Stat(w) PROVE VersionInv'
    <2> DEFINE f == FirstFile(w)
    <2>1. f \in Files
        BY <1>5, FirstFileIn DEF Stat
    <2>2. CASE UNCHANGED <<pc, work>>
        BY <1>5, <2>2, VersionsIdle DEF Stat
    <2>3. CASE /\ disk[f] # 0 /\ pc' = [pc EXCEPT ![w] = "load"]
               /\ work' = [work EXCEPT ![w] = [NoWork EXCEPT !.file = f, !.stat = disk[f]]]
        <3>1. /\ \A v \in Workers \ {w} : work'[v] = work[v] /\ pc'[v] = pc[v]
              /\ pc'[w] = "load"
              /\ work'[w].file = f /\ work'[w].stat = disk[f] /\ work'[w].text = 0
            BY <1>0, <2>3 DEF NoWork
        <3>2. HeldSound(w)'
            BY <1>0, <1>5, <2>1, <2>3, <3>1 DEF Stat, HeldSound, Seen, VersionInv, DiskDated
        <3> QED BY <1>5, <3>1, <3>2, HeldElsewhere
             DEF Stat, VersionInv, RowsSeen, Seen, FastPathSound, HashPathSound
    <2> QED BY <1>5, <2>2, <2>3 DEF Stat
<1>6. ASSUME NEW w \in Workers, Load(w) PROVE VersionInv'
    <2>1. CASE FileDone(w)
        BY <1>6, <2>1, HeldDone DEF Load, VersionInv, RowsSeen, Seen, FastPathSound, HashPathSound
    <2>2. CASE pc' = [pc EXCEPT ![w] = "hash"] /\ UNCHANGED work
        <3>1. HeldSound(w)'
            BY <1>0, <1>6, <2>2 DEF Load, HeldSound, Seen, VersionInv, WorkSound, InHand
        <3> QED BY <1>0, <1>6, <2>2, <3>1, HeldElsewhere
             DEF Load, VersionInv, RowsSeen, Seen, FastPathSound, HashPathSound
    <2> QED BY <1>6, <2>1, <2>2 DEF Load
<1>7. ASSUME NEW w \in Workers, Hash(w) PROVE VersionInv'
    <2> DEFINE f == work[w].file
    <2>1. f \in Files /\ HeldSound(w)
        BY <1>7 DEF Hash, VersionInv, WorkSound, HeldSound, InHand
    <2>2. CASE FileDone(w) /\ UNCHANGED rows
        BY <1>7, <2>2, HeldDone DEF Hash, VersionInv, RowsSeen, Seen, FastPathSound, HashPathSound
    <2>3. CASE /\ rows[f].ok /\ rows[f].sha = disk[f] /\ FileDone(w)
               /\ rows' = [rows EXCEPT ![f].stat = work[w].stat]
        <3>1. rows[f].text = disk[f]
            BY <2>1, <2>3 DEF VersionInv, HashPathSound
        <3>2. /\ \A g \in Files \ {f} : rows'[g] = rows[g]
              /\ rows'[f].ok = rows[f].ok /\ rows'[f].sha = rows[f].sha
              /\ rows'[f].text = rows[f].text /\ rows'[f].stat = work[w].stat
            BY <1>0, <2>1, <2>3 DEF Rows
        <3>3. UNCHANGED <<disk, edits>>
            BY <1>7 DEF Hash
        <3>4. RowsSeen'
            BY <2>1, <3>2, <3>3 DEF VersionInv, RowsSeen, HeldSound, Seen
        <3>5. FastPathSound' /\ HashPathSound'
            BY <3>1, <3>2, <3>3 DEF VersionInv, FastPathSound, HashPathSound
        <3> QED BY <2>3, <3>3, <3>4, <3>5, HeldDone DEF VersionInv
    <2>4. CASE /\ disk[f] # 0 /\ work' = [work EXCEPT ![w].sha = disk[f]]
               /\ pc' = [pc EXCEPT ![w] = "read"] /\ UNCHANGED rows
        <3>1. /\ \A v \in Workers \ {w} : work'[v] = work[v] /\ pc'[v] = pc[v]
              /\ pc[w] = "hash" /\ pc'[w] = "read"
              /\ work'[w].file = f /\ work'[w].stat = work[w].stat
              /\ work'[w].sha = disk[f] /\ work'[w].text = work[w].text
            BY <1>0, <1>7, <2>4 DEF Hash, Works
        <3>2. HeldSound(w)'
            BY <1>0, <1>7, <2>1, <2>4, <3>1 DEF Hash, HeldSound, Seen, VersionInv, DiskDated
        <3> QED BY <1>7, <2>4, <3>1, <3>2, HeldElsewhere
             DEF Hash, VersionInv, RowsSeen, Seen, FastPathSound, HashPathSound
    <2> QED BY <1>7, <2>2, <2>3, <2>4 DEF Hash
<1>8. ASSUME NEW w \in Workers, Read(w) \/ ReadFails(w) PROVE VersionInv'
    <2> DEFINE f == work[w].file
    <2>1. /\ f \in Files /\ HeldSound(w) /\ pc[w] = "read" /\ work[w].text = 0
          /\ UNCHANGED <<disk, edits, rows>>
        BY <1>8 DEF Read, ReadFails, VersionInv, WorkSound, HeldSound, InHand
    <2>2. PICK x \in {0, disk[f]} : work' = [work EXCEPT ![w].text = x]
        <3>1. work = [work EXCEPT ![w].text = 0]
            BY <1>0, <2>1 DEF Works
        <3> QED BY <1>8, <3>1 DEF Read, ReadFails
    <2>3. pc' = [pc EXCEPT ![w] = "commit"]
        BY <1>8 DEF Read, ReadFails
    <2>4. /\ \A v \in Workers \ {w} : work'[v] = work[v] /\ pc'[v] = pc[v]
          /\ pc'[w] = "commit"
          /\ work'[w].file = f /\ work'[w].stat = work[w].stat
          /\ work'[w].sha = work[w].sha /\ work'[w].text = x
        BY <1>0, <2>2, <2>3 DEF Works
    <2>5. HeldSound(w)'
        BY <1>0, <2>1, <2>4 DEF HeldSound, Seen, VersionInv, DiskDated
    <2> QED BY <2>1, <2>4, <2>5, HeldElsewhere
         DEF VersionInv, RowsSeen, Seen, FastPathSound, HashPathSound
<1>9. ASSUME NEW w \in Workers, Commit(w) PROVE VersionInv'
    <2> DEFINE f == work[w].file
    <2>1. /\ f \in Files /\ HeldSound(w) /\ pc[w] = "commit"
          /\ FileDone(w) /\ UNCHANGED <<disk, edits>>
        BY <1>9 DEF Commit, VersionInv, WorkSound, HeldSound, InHand
    <2>2. /\ \A g \in Files \ {f} : rows'[g] = rows[g]
          /\ rows'[f].ok <=> work[w].text # 0
          /\ rows'[f].sha = work[w].sha
          /\ rows'[f].text = work[w].text /\ rows'[f].stat = work[w].stat
        BY <1>0, <1>9, <2>1 DEF Commit
    <2>3. RowsSeen'
        BY <2>1, <2>2 DEF VersionInv, RowsSeen, HeldSound, Seen
    <2>4. FastPathSound' /\ HashPathSound'
        BY <2>1, <2>2 DEF VersionInv, FastPathSound, HashPathSound, HeldSound
    <2> QED BY <2>1, <2>3, <2>4, HeldDone DEF VersionInv
<1>10. ASSUME NEW w \in Workers, Prune(w) PROVE VersionInv'
    <2>1. \A g \in Files : rows'[g] = rows[g] \/ ~ rows'[g].ok
        BY <1>10 DEF Prune, NoRow
    <2>2. /\ UNCHANGED <<disk, edits>>
          /\ \A v \in Workers \ {w} : work'[v] = work[v] /\ pc'[v] = pc[v]
          /\ pc'[w] = "finish"
        BY <1>0, <1>10 DEF Prune
    <2>3. DiskDated' /\ WorkSound'
        BY <2>2, HeldElsewhere DEF InHand
    <2> QED BY <2>1, <2>2, <2>3 DEF VersionInv, RowsSeen, Seen, FastPathSound, HashPathSound
<1>11. CASE Restart
    <2>1. pc' \in [Workers -> {"none", "starting"}]
        BY <1>11, StartingShape DEF Restart
    <2> QED BY <1>11, <2>1 DEF Restart, VersionInv, DiskDated, RowsSeen, Seen, WorkSound, InHand,
                               FastPathSound, HashPathSound
<1>12. CASE UNCHANGED vars
    BY <1>12, VersionsIdle
<1> QED BY <1>2, <1>3, <1>4, <1>5, <1>6, <1>7, <1>8, <1>9, <1>10, <1>11, <1>12
     DEF Next, Reindexing

-----------------------------------------------------------------------------
(* The theorems *)

\* The index starts with no row and no thread inside reindex.
LEMMA IndexInit == Init => IndexInv
<1> SUFFICES ASSUME Init PROVE IndexInv
    OBVIOUS
<1>1. pc \in [Workers -> {"none", "starting"}]
    BY StartingShape DEF Init
<1>2. NoRow \in Rows /\ ~ NoRow.ok /\ 0 \in Versions /\ 1 \in Versions
    BY IndexAssumption DEF NoRow, Rows, Versions
<1>3. TypeOK
    <2>1. pc \in [Workers -> PCs]
        BY <1>1 DEF PCs
    <2>2. work \in [Workers -> Works]
        BY NoWorkTyped DEF Init
    <2>3. disk \in [Files -> Versions] /\ edits \in Versions
        BY <1>2 DEF Init
    <2>4. faults \in 0 .. MaxFaults /\ restarts \in 0 .. MaxRestarts
        BY IndexAssumption DEF Init
    <2> QED BY <1>2, <2>1, <2>2, <2>3, <2>4 DEF Init, TypeOK, Works
<1>4. OneReindex
    BY <1>1 DEF OneReindex, Active
<1>5. DiskDated /\ RowsSeen /\ FastPathSound /\ HashPathSound
    BY <1>2 DEF Init, DiskDated, RowsSeen, FastPathSound, HashPathSound
<1>6. WorkSound
    BY <1>1 DEF WorkSound, InHand
<1> QED BY <1>3, <1>4, <1>5, <1>6 DEF IndexInv, VersionInv

\* The invariant from which the results follow holds for ever.
THEOREM IndexInvariant == Spec => []IndexInv
<1>1. IndexInv /\ [Next]_vars => IndexInv'
    BY TypeStep, OneStep, VersionStep DEF IndexInv, VersionInv
<1> QED BY IndexInit, <1>1, PTL DEF Spec

\* At most one reindex is at work, and only while _status.running says so, however
\* the triggers of reindex_async interleave.
THEOREM ReindexIsAlone == Spec => []OneReindex
BY IndexInvariant, PTL DEF IndexInv

\* Neither the size-and-mtime check nor the comparison of hashes makes _index_one
\* skip a file whose text the index does not hold, whatever is edited between the
\* stat, the hash and the read.
THEOREM SkipsAreSound == Spec => []IndexSound
<1>1. IndexInv => IndexSound
    BY DEF IndexInv, VersionInv, IndexSound
<1> QED BY IndexInvariant, <1>1, PTL

-----------------------------------------------------------------------------
(***************************************************************************)
(* The Confluence mirror, which writes its pages into the docs store that  *)
(* the index reads: for every space, every number of syncs beside each     *)
(* other, of edits, failures and crashes, nothing the mirror has is ahead  *)
(* of the space; and while the poller syncs alone, no committed row claims *)
(* more than its file holds.                                               *)
(***************************************************************************)

M == INSTANCE ConfluenceSync

Units == [kind : {"page", "attachments", "attachment"}, item : M!Items, ver : 0..MaxVersion, title : Titles]

UnitsSound(rem, units) ==
  /\ units \in Seq(Units)
  /\ \A k \in DOMAIN units : units[k].ver # 0 /\ units[k].ver <= rem[units[k].item].ver

PutSound(rem, put, seen) ==
  /\ DOMAIN put \subseteq M!Items \cap seen
  /\ \A i \in DOMAIN put : put[i] \in M!ItemType /\ put[i].ver # 0 /\ put[i].ver <= rem[i].ver

\* A row that claims no version is none.
Blank(x) == x.ver = 0 => x = M!NoItem

\* What a sync carries was read from the space and is not ahead of it: the rows it
\* loaded, the units of its listing, its pending rows and the text it fetched, which is
\* no older than what the listing and the loaded row say of its item.
JobSound(rem, j) ==
  /\ j.pc \in {"idle", "list", "work", "write", "commit"}
  /\ j.pc # "idle" =>
       /\ j.had \in [M!Items -> M!ItemType]
       /\ \A i \in M!Items : j.had[i].ver <= rem[i].ver /\ Blank(j.had[i])
  /\ j.pc \in {"work", "write", "commit"} =>
       /\ UnitsSound(rem, j.units)
       /\ PutSound(rem, j.put, j.seen)
  /\ j.pc = "write" =>
       /\ j.units # <<>> /\ j.text \in 0..MaxVersion
       /\ j.text >= Head(j.units).ver /\ j.text >= j.had[Head(j.units).item].ver

\* The types, and nothing is ahead of the space, whoever syncs.
MirrorBase ==
  /\ remote \in [M!Items -> M!ItemType] /\ row \in [M!Items -> M!ItemType]
  /\ file \in [M!Items -> [Titles -> 0..MaxVersion]]
  /\ trashed \subseteq M!Items /\ listener \in {"on", "off", "gone"} /\ failures \in 0..MaxFailures
  /\ \A i \in M!Items : row[i].ver <= remote[i].ver /\ Blank(row[i])
  /\ DOMAIN job = M!Syncers /\ \A y \in M!Syncers : JobSound(remote, job[y])

\* The file under the path of an item is not older than the item says.
Backed(fil, i, x) == fil[i][x.title] # 0 => fil[i][x.title] >= x.ver

\* While the poller syncs alone the rows are those it loaded, or gone, and its pending
\* rows are backed as the committed ones are.
PollerAlone ==
  /\ \A i \in M!Items : row[i].ver # 0 => Backed(file, i, row[i])
  /\ job[Poller].pc # "idle" => \A i \in M!Items : row[i] \in {job[Poller].had[i], M!NoItem}
  /\ job[Poller].pc \in {"work", "write", "commit"} =>
       \A i \in DOMAIN job[Poller].put : Backed(file, i, job[Poller].put[i])

----------------------------------------------------------------------------
(* Listings *)

LEMMA SameCount == ASSUME NEW A PROVE M!Cardinality(A) = Cardinality(A)
BY DEF M!Cardinality, Cardinality

LEMMA SameFinite == ASSUME NEW A PROVE M!IsFiniteSet(A) <=> IsFiniteSet(A)
BY DEF M!IsFiniteSet, IsFiniteSet

\* SetToSeq lists members of its set.
LEMMA SetToSeqIn ==
  ASSUME NEW A, IsFiniteSet(A)
  PROVE  /\ Cardinality(A) \in Nat
         /\ \A k \in 1..Cardinality(A) : M!SetToSeq(A)[k] \in A
<1> DEFINE n == Cardinality(A)
<1>1. n \in Nat /\ ExistsBijection(1..n, A)
  BY FS_CardinalityType
<1>2. \E f \in [1..n -> A] : \A a, b \in 1..n : f[a] = f[b] => a = b
  BY <1>1 DEF ExistsBijection, Bijection, Injection, IsInjective
<1>3. M!SetToSeq(A) = CHOOSE f \in [1..n -> A] : M!IsInjective(f)
  BY SameCount DEF M!SetToSeq
<1> HIDE DEF n
<1>4. PICK f \in [1..n -> A] : \A a, b \in 1..n : f[a] = f[b] => a = b
  BY <1>2
<1>5. M!IsInjective(f)
  BY <1>4 DEF M!IsInjective
<1>6. M!SetToSeq(A) \in [1..n -> A]
  BY <1>3, <1>5
<1> QED BY <1>1, <1>6 DEF n

LEMMA ItemsFinite ==
  ASSUME M!MirrorAssumption, NEW A \in SUBSET M!Items
  PROVE  IsFiniteSet(A)
<1>1. IsFiniteSet(M!Items)
  BY SameFinite, FS_Union DEF M!MirrorAssumption, M!Items
<1> QED BY <1>1, FS_Subset

LEMMA NoItemIs == ASSUME M!MirrorAssumption PROVE M!NoItem \in M!ItemType /\ M!NoItem.ver = 0 /\ Blank(M!NoItem)
<1>1. (CHOOSE t \in Titles : TRUE) \in Titles
  BY DEF M!MirrorAssumption
<1>2. 0 \in 0..MaxVersion
  BY DEF M!MirrorAssumption
<1> QED BY <1>1, <1>2 DEF M!NoItem, M!ItemType, Blank

\* A unit of work shows what the space has.
LEMMA UnitIs ==
  ASSUME MirrorBase, NEW i \in M!Items, NEW kind \in {"page", "attachments", "attachment"}
  PROVE  M!Unit(kind, i) \in Units /\ M!Unit(kind, i).item = i /\ M!Unit(kind, i).ver = remote[i].ver
<1>1. remote[i] \in M!ItemType
  BY DEF MirrorBase
<1>2. remote[i].ver \in 0..MaxVersion /\ remote[i].title \in Titles
  BY <1>1 DEF M!ItemType
<1> QED BY <1>2 DEF M!Unit, Units

\* The listing of pages, and of the attachments of one.
LEMMA ListingSound ==
  ASSUME M!MirrorAssumption, MirrorBase, NEW shown \in SUBSET Pages,
         \A i \in shown : remote[i].ver # 0
  PROVE  UnitsSound(remote, M!Listing(shown))
<1> DEFINE n == 2 * Cardinality(shown)
           kind(k) == IF k % 2 = 1 THEN "page" ELSE "attachments"
           at(k) == M!SetToSeq(shown)[(k + 1) \div 2]
<1>1. IsFiniteSet(shown) /\ \A i \in shown : i \in M!Items
  BY ItemsFinite DEF M!Items
<1>2. Cardinality(shown) \in Nat /\ \A k \in 1..Cardinality(shown) : M!SetToSeq(shown)[k] \in shown
  BY <1>1, SetToSeqIn
<1>3. n \in Nat /\ \A k \in 1..n : (k + 1) \div 2 \in 1..Cardinality(shown)
  BY <1>2
<1>4. \A k \in 1..n : at(k) \in M!Items /\ remote[at(k)].ver # 0 /\ kind(k) \in {"page", "attachments", "attachment"}
  BY <1>1, <1>2, <1>3
<1>5. M!Listing(shown) = [k \in 1..n |-> M!Unit(kind(k), at(k))]
  BY SameCount DEF M!Listing
<1> HIDE DEF n, kind, at
<1>6. \A k \in 1..n : /\ M!Listing(shown)[k] \in Units /\ M!Listing(shown)[k].item = at(k)
                      /\ M!Listing(shown)[k].ver = remote[at(k)].ver
  BY <1>4, <1>5, UnitIs
<1>7. \A k \in 1..n : remote[at(k)].ver \in Int
  BY <1>4 DEF MirrorBase, M!ItemType
<1>8. DOMAIN M!Listing(shown) = 1..n /\ M!Listing(shown) \in [1..n -> Units]
  BY <1>5, <1>6
<1>9. M!Listing(shown) \in Seq(Units)
  BY <1>3, <1>8
<1> QED BY <1>4, <1>6, <1>7, <1>8, <1>9 DEF UnitsSound

LEMMA AttachmentsSound ==
  ASSUME M!MirrorAssumption, MirrorBase, NEW here \in SUBSET Attachments,
         \A i \in here : remote[i].ver # 0
  PROVE  UnitsSound(remote, [k \in 1..M!Cardinality(here) |-> M!Unit("attachment", M!SetToSeq(here)[k])])
<1> DEFINE n == Cardinality(here)
           at(k) == M!SetToSeq(here)[k]
           list == [k \in 1..n |-> M!Unit("attachment", at(k))]
<1>1. IsFiniteSet(here) /\ \A i \in here : i \in M!Items
  BY ItemsFinite DEF M!Items
<1>2. n \in Nat /\ \A k \in 1..n : at(k) \in here
  BY <1>1, SetToSeqIn
<1>3. \A k \in 1..n : at(k) \in M!Items /\ remote[at(k)].ver # 0
  BY <1>1, <1>2
<1> HIDE DEF n, at
<1>4. \A k \in 1..n : list[k] \in Units /\ list[k].item = at(k) /\ list[k].ver = remote[at(k)].ver
  BY <1>3, UnitIs
<1>5. \A k \in 1..n : remote[at(k)].ver \in Int
  BY <1>3 DEF MirrorBase, M!ItemType
<1>6. DOMAIN list = 1..n /\ list \in [1..n -> Units]
  BY <1>4
<1>7. list \in Seq(Units)
  BY <1>2, <1>6
<1>8. UnitsSound(remote, list)
  BY <1>3, <1>4, <1>5, <1>6, <1>7 DEF UnitsSound
<1> QED BY <1>8, SameCount DEF n, at

\* What is left of the units, and more units before them.
LEMMA UnitsLeft ==
  ASSUME NEW rem, NEW units, UnitsSound(rem, units), units # <<>>
  PROVE  /\ Head(units) \in Units /\ Head(units).ver # 0
         /\ Head(units).ver <= rem[Head(units).item].ver
         /\ UnitsSound(rem, Tail(units))
<1>1. /\ units \in Seq(Units)
      /\ \A k \in DOMAIN units : units[k].ver # 0 /\ units[k].ver <= rem[units[k].item].ver
  BY DEF UnitsSound
<1>2. Len(units) \in Nat \ {0} /\ DOMAIN units = 1..Len(units) /\ Head(units) = units[1] /\ 1 \in DOMAIN units
  BY <1>1
<1>3. Tail(units) \in Seq(Units) /\ DOMAIN Tail(units) = 1..(Len(units) - 1)
  BY <1>1, <1>2
<1>4. \A k \in 1..(Len(units) - 1) : Tail(units)[k] = units[k + 1] /\ k + 1 \in DOMAIN units
  BY <1>1, <1>2, <1>3
<1>5. units[1] \in Units
  BY <1>1, <1>2
<1> QED BY <1>1, <1>2, <1>3, <1>4, <1>5 DEF UnitsSound

LEMMA UnitsMore ==
  ASSUME NEW rem, NEW a, NEW b, UnitsSound(rem, a), UnitsSound(rem, b)
  PROVE  UnitsSound(rem, a \o b)
<1>1. a \in Seq(Units) /\ b \in Seq(Units)
  BY DEF UnitsSound
<1>2. a \o b \in Seq(Units) /\ Len(a \o b) = Len(a) + Len(b) /\ DOMAIN (a \o b) = 1..(Len(a) + Len(b))
  BY <1>1
<1>3. ASSUME NEW k \in DOMAIN (a \o b)
      PROVE  (a \o b)[k].ver # 0 /\ (a \o b)[k].ver <= rem[(a \o b)[k].item].ver
  <2>1. CASE k <= Len(a)
    <3>1. k \in DOMAIN a /\ (a \o b)[k] = a[k]
      BY <1>1, <1>2, <2>1
    <3> QED BY <3>1 DEF UnitsSound
  <2>2. CASE ~ (k <= Len(a))
    <3>1. k - Len(a) \in DOMAIN b /\ (a \o b)[k] = b[k - Len(a)]
      BY <1>1, <1>2, <2>2
    <3> QED BY <3>1 DEF UnitsSound
  <2> QED BY <2>1, <2>2
<1> QED BY <1>2, <1>3 DEF UnitsSound

----------------------------------------------------------------------------
(* Steps of a sync *)

LEMMA IdleSound == ASSUME NEW rem PROVE JobSound(rem, M!Idle) /\ M!Idle.pc = "idle"
BY DEF JobSound, M!Idle

\* The space only gets newer.
LEMMA JobMono ==
  ASSUME NEW rem \in [M!Items -> M!ItemType], NEW new \in [M!Items -> M!ItemType],
         \A i \in M!Items : rem[i].ver <= new[i].ver, NEW j, JobSound(rem, j), M!MirrorAssumption
  PROVE  JobSound(new, j)
<1>1. \A i \in M!Items : rem[i].ver \in Int /\ new[i].ver \in Int
  BY DEF M!ItemType
<1>2. ASSUME j.pc # "idle" PROVE \A i \in M!Items : j.had[i].ver <= new[i].ver /\ Blank(j.had[i])
  <2>1. \A i \in M!Items : j.had[i].ver \in Int /\ j.had[i].ver <= rem[i].ver /\ Blank(j.had[i])
    BY <1>2 DEF JobSound, M!ItemType
  <2> QED BY <1>1, <2>1
<1>3. ASSUME j.pc \in {"work", "write", "commit"} PROVE UnitsSound(new, j.units)
  <2>1. UnitsSound(rem, j.units)
    BY <1>3 DEF JobSound
  <2>2. \A k \in DOMAIN j.units : j.units[k] \in Units
    BY <2>1 DEF UnitsSound
  <2>3. \A k \in DOMAIN j.units : j.units[k].ver \in Int /\ j.units[k].item \in M!Items
    BY <2>2 DEF Units
  <2>4. \A k \in DOMAIN j.units : j.units[k].ver # 0 /\ j.units[k].ver <= rem[j.units[k].item].ver
    BY <2>1 DEF UnitsSound
  <2> QED BY <1>1, <2>1, <2>3, <2>4 DEF UnitsSound
<1>4. ASSUME j.pc \in {"work", "write", "commit"} PROVE PutSound(new, j.put, j.seen)
  <2>1. PutSound(rem, j.put, j.seen)
    BY <1>4 DEF JobSound
  <2>2. \A i \in DOMAIN j.put : j.put[i].ver \in Int /\ j.put[i].ver # 0 /\ j.put[i].ver <= rem[i].ver /\ i \in M!Items
    BY <2>1 DEF PutSound, M!ItemType
  <2> QED BY <1>1, <2>1, <2>2 DEF PutSound
<1> QED BY <1>2, <1>3, <1>4 DEF JobSound

\* A sync carries on with j.
LEMMA BaseStep ==
  ASSUME MirrorBase, NEW y \in M!Syncers, NEW j, job' = [job EXCEPT ![y] = j], JobSound(remote, j),
         UNCHANGED <<remote, trashed, listener>>, row' \in [M!Items -> M!ItemType],
         \A i \in M!Items : row'[i].ver <= remote[i].ver /\ Blank(row'[i]),
         file' \in [M!Items -> [Titles -> 0..MaxVersion]], failures' \in 0..MaxFailures
  PROVE  MirrorBase'
<1>1. DOMAIN job' = M!Syncers /\ \A z \in M!Syncers : job'[z] = IF z = y THEN j ELSE job[z]
  BY DEF MirrorBase
<1>2. \A z \in M!Syncers : JobSound(remote', job'[z])
  BY <1>1 DEF MirrorBase
<1> QED BY <1>1, <1>2 DEF MirrorBase

\* The rows, files and failures of now.
LEMMA BaseStays ==
  ASSUME MirrorBase
  PROVE  /\ row \in [M!Items -> M!ItemType] /\ \A i \in M!Items : row[i].ver <= remote[i].ver /\ Blank(row[i])
         /\ file \in [M!Items -> [Titles -> 0..MaxVersion]] /\ failures \in 0..MaxFailures
         /\ remote \in [M!Items -> M!ItemType]
BY DEF MirrorBase

LEMMA FaultType ==
  ASSUME M!MirrorAssumption, MirrorBase, M!Fault
  PROVE  failures' \in 0..MaxFailures
BY DEF M!Fault, MirrorBase, M!MirrorAssumption

\* What a sync in the middle of the space knows.
LEMMA AtWork ==
  ASSUME MirrorBase, NEW y \in M!Syncers, job[y].pc \in {"list", "work", "write", "commit"}
  PROVE  /\ job[y].had \in [M!Items -> M!ItemType]
         /\ \A i \in M!Items : job[y].had[i].ver <= remote[i].ver /\ Blank(job[y].had[i])
         /\ job[y].pc # "list" => /\ UnitsSound(remote, job[y].units)
                                  /\ PutSound(remote, job[y].put, job[y].seen)
BY DEF MirrorBase, JobSound

LEMMA DoingSound ==
  ASSUME MirrorBase, NEW y \in M!Syncers, job[y].pc \in {"list", "work", "write", "commit"},
         NEW step \in {"work", "commit"}, NEW units, UnitsSound(remote, units),
         NEW seen, NEW put, PutSound(remote, put, seen)
  PROVE  /\ JobSound(remote, M!Doing(y, step, units, seen, put)) /\ M!Doing(y, step, units, seen, put).pc = step
         /\ M!Doing(y, step, units, seen, put).had = job[y].had /\ M!Doing(y, step, units, seen, put).put = put
<1>1. PICK j : j = M!Doing(y, step, units, seen, put)
  OBVIOUS
<1>2. j.pc = step /\ j.had = job[y].had /\ j.units = units /\ j.seen = seen /\ j.put = put
  BY <1>1 DEF M!Doing
<1>3. JobSound(remote, j)
  BY <1>2, AtWork DEF JobSound
<1> QED BY <1>1, <1>2, <1>3

\* The first unit is through.
LEMMA SeeSound ==
  ASSUME MirrorBase, NEW y \in M!Syncers, job[y].pc \in {"work", "write"}, job[y].units # <<>>,
         NEW put, PutSound(remote, put, job[y].seen \cup {Head(job[y].units).item})
  PROVE  /\ JobSound(remote, M!See(y, put)) /\ M!See(y, put).pc = "work"
         /\ M!See(y, put).had = job[y].had /\ M!See(y, put).put = put
<1>1. UnitsSound(remote, Tail(job[y].units))
  BY AtWork, UnitsLeft
<1> QED BY <1>1, DoingSound DEF M!See

LEMMA PutStays ==
  ASSUME MirrorBase, NEW y \in M!Syncers, job[y].pc \in {"work", "write", "commit"}, NEW more
  PROVE  /\ PutSound(remote, job[y].put, job[y].seen \cup more)
         /\ PutSound(remote, job[y].put, job[y].seen)
<1>1. PutSound(remote, job[y].put, job[y].seen)
  BY AtWork
<1> QED BY <1>1 DEF PutSound

\* The poller alone carries on with j, with the rows it loaded.
LEMMA AloneStep ==
  ASSUME MirrorBase, PollerAlone, Users = {}, NEW y \in M!Syncers, NEW j,
         job' = [job EXCEPT ![y] = j], job[y].pc # "idle", UNCHANGED row,
         j.pc # "idle" => j.had = job[y].had,
         j.pc \in {"work", "write", "commit"} => \A i \in DOMAIN j.put : Backed(file', i, j.put[i]),
         \A i \in M!Items : row[i].ver # 0 => Backed(file', i, row[i])
  PROVE  PollerAlone'
<1>1. y = Poller /\ Poller \in DOMAIN job
  BY DEF M!Syncers, MirrorBase
<1>2. job'[Poller] = j
  BY <1>1
<1> QED BY <1>1, <1>2 DEF PollerAlone

\* Files that stay or go leave every row backed.
LEMMA FilesFall ==
  ASSUME MirrorBase, \A i \in M!Items, t \in Titles : file'[i][t] \in {file[i][t], 0}
  PROVE  \A i \in M!Items, x \in M!ItemType : Backed(file, i, x) => Backed(file', i, x)
<1> SUFFICES ASSUME NEW i \in M!Items, NEW x \in M!ItemType, Backed(file, i, x)
             PROVE  Backed(file', i, x)
  OBVIOUS
<1>1. x.title \in Titles
  BY DEF M!ItemType
<1> QED BY <1>1 DEF Backed

\* The same for the poller's step.
LEMMA AloneFalls ==
  ASSUME M!MirrorAssumption, MirrorBase, PollerAlone, Users = {}, NEW y \in M!Syncers, NEW j,
         job' = [job EXCEPT ![y] = j], job[y].pc # "idle", UNCHANGED row,
         \A i \in M!Items, t \in Titles : file'[i][t] \in {file[i][t], 0},
         j.pc # "idle" => j.had = job[y].had,
         j.pc \in {"work", "write", "commit"} =>
           \/ DOMAIN j.put = {}
           \/ job[y].pc \in {"work", "write", "commit"} /\ j.put = job[y].put
  PROVE  PollerAlone'
<1>1. y = Poller
  BY DEF M!Syncers
<1>2. \A i \in M!Items : row[i].ver # 0 => Backed(file', i, row[i])
  <2>1. \A i \in M!Items : row[i] \in M!ItemType
    BY BaseStays
  <2> QED BY <2>1, FilesFall DEF PollerAlone
<1>3. ASSUME j.pc \in {"work", "write", "commit"}, NEW i \in DOMAIN j.put
      PROVE  Backed(file', i, j.put[i])
  <2>1. job[y].pc \in {"work", "write", "commit"} /\ j.put = job[y].put
    BY <1>3
  <2>2. PutSound(remote, job[y].put, job[y].seen)
    BY <2>1, AtWork
  <2>3. i \in M!Items /\ j.put[i] \in M!ItemType
    BY <1>3, <2>1, <2>2 DEF PutSound
  <2>4. Backed(file, i, j.put[i])
    BY <1>1, <1>3, <2>1 DEF PollerAlone
  <2> QED BY <2>3, <2>4, FilesFall
<1> QED BY <1>2, <1>3, AloneStep

----------------------------------------------------------------------------
(* The actions *)

\* The rest of the state, when only the job and the failures change.
LEMMA JobOnly ==
  ASSUME M!MirrorAssumption, MirrorBase, NEW y \in M!Syncers, NEW j, job' = [job EXCEPT ![y] = j],
         JobSound(remote, j), job[y].pc # "idle",
         UNCHANGED <<remote, trashed, row, file, listener>>, failures' \in 0..MaxFailures,
         j.pc # "idle" => j.had = job[y].had,
         j.pc \in {"work", "write", "commit"} =>
           \/ DOMAIN j.put = {}
           \/ job[y].pc \in {"work", "write", "commit"} /\ j.put = job[y].put
  PROVE  MirrorBase' /\ (Users = {} /\ PollerAlone => PollerAlone')
<1>1. MirrorBase'
  BY BaseStays, BaseStep
<1>2. \A i \in M!Items, t \in Titles : file'[i][t] \in {file[i][t], 0}
  OBVIOUS
<1>3. Users = {} /\ PollerAlone => PollerAlone'
  BY <1>2, AloneFalls
<1> QED BY <1>1, <1>3

LEMMA ListedKeeps ==
  ASSUME M!MirrorAssumption, MirrorBase, NEW y \in M!Syncers, M!At(y, "list"),
         NEW shown \in SUBSET Pages, \A i \in shown : remote[i].ver # 0, M!Listed(y, shown),
         UNCHANGED <<remote, trashed, row, file, listener>>, failures' \in 0..MaxFailures
  PROVE  MirrorBase' /\ (Users = {} /\ PollerAlone => PollerAlone')
<1>1. PICK put : put = [i \in {} |-> M!NoItem]
  OBVIOUS
<1>2. DOMAIN put = {} /\ PutSound(remote, put, {})
  BY <1>1 DEF PutSound
<1>3. UnitsSound(remote, M!Listing(shown)) /\ job[y].pc = "list"
  BY ListingSound DEF M!At
<1>4. PICK j : j = M!Doing(y, "work", M!Listing(shown), {}, put)
  OBVIOUS
<1>5. JobSound(remote, j) /\ j.pc = "work" /\ j.had = job[y].had /\ j.put = put
  BY <1>2, <1>3, <1>4, DoingSound
<1>6. job' = [job EXCEPT ![y] = j]
  BY <1>1, <1>4 DEF M!Listed
<1> QED BY <1>2, <1>3, <1>5, <1>6, JobOnly

LEMMA ListPagesKeeps ==
  ASSUME M!MirrorAssumption, MirrorBase, NEW y \in M!Syncers, M!ListPages(y)
  PROVE  MirrorBase' /\ (Users = {} /\ PollerAlone => PollerAlone')
<1>1. /\ {p \in Pages : M!Present(p)} \in SUBSET Pages
      /\ \A i \in {p \in Pages : M!Present(p)} : remote[i].ver # 0
  BY DEF M!Present
<1> QED BY <1>1, BaseStays, ListedKeeps DEF M!ListPages

LEMMA ListPagesMissesKeeps ==
  ASSUME M!MirrorAssumption, MirrorBase, NEW y \in M!Syncers, M!ListPagesMisses(y)
  PROVE  MirrorBase' /\ (Users = {} /\ PollerAlone => PollerAlone')
<1>1. PICK p \in Pages : M!Listed(y, {q \in Pages \ {p} : M!Present(q)})
  BY DEF M!ListPagesMisses
<1>2. /\ {q \in Pages \ {p} : M!Present(q)} \in SUBSET Pages
      /\ \A i \in {q \in Pages \ {p} : M!Present(q)} : remote[i].ver # 0
  BY DEF M!Present
<1>3. failures' \in 0..MaxFailures
  BY FaultType DEF M!ListPagesMisses
<1> QED BY <1>1, <1>2, <1>3, ListedKeeps DEF M!ListPagesMisses

LEMMA EndsKeeps ==
  ASSUME M!MirrorAssumption, MirrorBase, NEW y \in M!Syncers, M!ListPagesFails(y) \/ M!CommitFails(y)
  PROVE  MirrorBase' /\ (Users = {} /\ PollerAlone => PollerAlone')
<1>1. /\ job' = [job EXCEPT ![y] = M!Idle] /\ job[y].pc # "idle" /\ M!Fault
      /\ UNCHANGED <<remote, trashed, row, file, listener>>
  BY DEF M!ListPagesFails, M!CommitFails, M!At
<1>2. JobSound(remote, M!Idle) /\ M!Idle.pc = "idle"
  BY IdleSound
<1> QED BY <1>1, <1>2, FaultType, JobOnly

LEMMA BeginKeeps ==
  ASSUME M!MirrorAssumption, MirrorBase, NEW y \in M!Syncers, M!Begin(y)
  PROVE  MirrorBase' /\ (Users = {} /\ PollerAlone => PollerAlone')
<1>1. PICK j : j = [pc |-> "list", had |-> row]
  OBVIOUS
<1>2. j.pc = "list" /\ j.had = row
  BY <1>1
<1>3. JobSound(remote, j)
  BY <1>2, BaseStays DEF JobSound
<1>4. job' = [job EXCEPT ![y] = j] /\ UNCHANGED <<remote, trashed, row, file, listener, failures>>
  BY <1>1 DEF M!Begin
<1>5. MirrorBase'
  BY <1>3, <1>4, BaseStays, BaseStep
<1>6. ASSUME Users = {}, PollerAlone PROVE PollerAlone'
  <2>1. job'[Poller] = j
    BY <1>4, <1>6 DEF M!Syncers, MirrorBase
  <2> QED BY <1>2, <1>4, <1>6, <2>1 DEF PollerAlone
<1> QED BY <1>5, <1>6

LEMMA SkipKeeps ==
  ASSUME M!MirrorAssumption, MirrorBase, NEW y \in M!Syncers, M!SkipUnchanged(y) \/ M!FetchFails(y)
  PROVE  MirrorBase' /\ (Users = {} /\ PollerAlone => PollerAlone')
<1>1. PICK j : j = M!See(y, job[y].put)
  OBVIOUS
<1>2. /\ job' = [job EXCEPT ![y] = j] /\ job[y].pc = "work" /\ job[y].units # <<>>
      /\ UNCHANGED <<remote, trashed, row, file, listener>>
  BY <1>1 DEF M!SkipUnchanged, M!FetchFails, M!Work, M!At
<1>3. failures' \in 0..MaxFailures
  BY FaultType, BaseStays DEF M!SkipUnchanged, M!FetchFails
<1>4. JobSound(remote, j) /\ j.pc = "work" /\ j.had = job[y].had /\ j.put = job[y].put
  <2>1. PutSound(remote, job[y].put, job[y].seen \cup {Head(job[y].units).item})
    BY <1>2, PutStays
  <2> QED BY <1>1, <1>2, <2>1, SeeSound
<1> QED BY <1>2, <1>3, <1>4, JobOnly

LEMMA FetchKeeps ==
  ASSUME M!MirrorAssumption, MirrorBase, NEW y \in M!Syncers, M!Fetch(y)
  PROVE  MirrorBase' /\ (Users = {} /\ PollerAlone => PollerAlone')
<1>1. PICK j : j = [pc |-> "write", had |-> job[y].had, units |-> job[y].units, seen |-> job[y].seen,
                    put |-> job[y].put, text |-> remote[Head(job[y].units).item].ver]
  OBVIOUS
<1>2. /\ job' = [job EXCEPT ![y] = j] /\ job[y].pc = "work" /\ job[y].units # <<>>
      /\ UNCHANGED <<remote, trashed, row, file, listener, failures>>
  BY <1>1 DEF M!Fetch, M!Work, M!At
<1>3. /\ j.pc = "write" /\ j.had = job[y].had /\ j.units = job[y].units /\ j.seen = job[y].seen
      /\ j.put = job[y].put /\ j.text = remote[Head(job[y].units).item].ver
  BY <1>1
<1>4. /\ UnitsSound(remote, j.units) /\ PutSound(remote, j.put, j.seen)
      /\ j.had \in [M!Items -> M!ItemType] /\ \A i \in M!Items : j.had[i].ver <= remote[i].ver /\ Blank(j.had[i])
  BY <1>2, <1>3, AtWork
<1>5. Head(j.units) \in Units /\ Head(j.units).ver <= remote[Head(j.units).item].ver
  BY <1>2, <1>3, <1>4, UnitsLeft
<1>6. /\ Head(j.units).item \in M!Items /\ remote[Head(j.units).item].ver \in 0..MaxVersion
      /\ Head(j.units).ver \in Int /\ j.had[Head(j.units).item].ver \in Int
  BY <1>4, <1>5, BaseStays DEF Units, M!ItemType
<1>7. JobSound(remote, j)
  BY <1>2, <1>3, <1>4, <1>5, <1>6 DEF JobSound
<1> QED BY <1>2, <1>3, <1>7, BaseStays, JobOnly

LEMMA AttachmentsKeep ==
  ASSUME M!MirrorAssumption, MirrorBase, NEW y \in M!Syncers,
         M!ListAttachments(y) \/ M!ListAttachmentsFails(y)
  PROVE  MirrorBase' /\ (Users = {} /\ PollerAlone => PollerAlone')
<1>1. /\ job[y].pc = "work" /\ job[y].units # <<>> /\ UNCHANGED <<remote, trashed, row, file, listener>>
  BY DEF M!ListAttachments, M!ListAttachmentsFails, M!Work, M!At
<1>2. failures' \in 0..MaxFailures
  BY FaultType, BaseStays DEF M!ListAttachments, M!ListAttachmentsFails
<1>3. UnitsSound(remote, Tail(job[y].units)) /\ PutSound(remote, job[y].put, job[y].seen)
  BY <1>1, AtWork, UnitsLeft
<1>4. PICK units : /\ UnitsSound(remote, units)
                   /\ job' = [job EXCEPT ![y] = M!Doing(y, "work", units, job[y].seen, job[y].put)]
  <2>1. CASE M!ListAttachmentsFails(y)
    BY <1>3, <2>1 DEF M!ListAttachmentsFails
  <2>2. CASE M!ListAttachments(y)
    <3>1. PICK here : here = {a \in Attachments : Parent[a] = Head(job[y].units).item /\ M!Present(a)}
      OBVIOUS
    <3>2. here \in SUBSET Attachments /\ \A i \in here : remote[i].ver # 0
      BY <3>1 DEF M!Present
    <3>3. PICK list : list = [k \in 1..M!Cardinality(here) |-> M!Unit("attachment", M!SetToSeq(here)[k])]
      OBVIOUS
    <3>4. UnitsSound(remote, list)
      BY <3>2, <3>3, AttachmentsSound
    <3>5. UnitsSound(remote, list \o Tail(job[y].units))
      BY <1>3, <3>4, UnitsMore
    <3>6. job' = [job EXCEPT ![y] =
                    M!Doing(y, "work", list \o Tail(job[y].units), job[y].seen, job[y].put)]
      BY <2>2, <3>1, <3>3 DEF M!ListAttachments
    <3> QED BY <3>5, <3>6
  <2> QED BY <2>1, <2>2
<1>5. PICK j : j = M!Doing(y, "work", units, job[y].seen, job[y].put)
  OBVIOUS
<1>6. JobSound(remote, j) /\ j.pc = "work" /\ j.had = job[y].had /\ j.put = job[y].put
  BY <1>1, <1>3, <1>4, <1>5, DoingSound
<1>7. job' = [job EXCEPT ![y] = j]
  BY <1>4, <1>5
<1> QED BY <1>1, <1>2, <1>6, <1>7, JobOnly

LEMMA MirrorDeleteKeeps ==
  ASSUME M!MirrorAssumption, MirrorBase, NEW y \in M!Syncers, M!MirrorDelete(y)
  PROVE  MirrorBase' /\ (Users = {} /\ PollerAlone => PollerAlone')
<1>1. PICK j : j = M!Doing(y, "commit", <<>>, job[y].seen, job[y].put)
  OBVIOUS
<1>2. /\ job[y].pc = "work" /\ job[y].units = <<>> /\ job' = [job EXCEPT ![y] = j]
      /\ UNCHANGED <<remote, trashed, row, listener, failures>>
  BY <1>1 DEF M!MirrorDelete, M!At
<1>3. /\ UnitsSound(remote, <<>>) /\ PutSound(remote, job[y].put, job[y].seen)
      /\ job[y].had \in [M!Items -> M!ItemType]
  BY <1>2, AtWork
<1>4. JobSound(remote, j) /\ j.pc = "commit" /\ j.had = job[y].had /\ j.put = job[y].put
  BY <1>1, <1>2, <1>3, DoingSound
<1>5. file' = [i \in M!Items |-> IF i \in M!Unseen(y) THEN [file[i] EXCEPT ![job[y].had[i].title] = 0]
                               ELSE file[i]]
  BY DEF M!MirrorDelete
<1>6. \A i \in M!Items, t \in Titles : file'[i][t] \in {file[i][t], 0}
  BY <1>5, BaseStays
<1>7. file' \in [M!Items -> [Titles -> 0..MaxVersion]]
  <2>1. 0 \in 0..MaxVersion
    BY DEF M!MirrorAssumption
  <2>2. \A i \in M!Items : file[i] \in [Titles -> 0..MaxVersion]
    BY BaseStays
  <2>3. \A i \in M!Items : file'[i] \in [Titles -> 0..MaxVersion]
    BY <1>5, <2>1, <2>2
  <2> QED BY <1>5, <2>3
<1>8. MirrorBase'
  BY <1>2, <1>4, <1>7, BaseStays, BaseStep
<1>9. Users = {} /\ PollerAlone => PollerAlone'
  BY <1>2, <1>4, <1>6, AloneFalls
<1> QED BY <1>8, <1>9

\* What a sync has when it is about to write.
LEMMA AtWrite ==
  ASSUME M!MirrorAssumption, MirrorBase, NEW y \in M!Syncers, M!At(y, "write")
  PROVE  /\ job[y].pc = "write" /\ job[y].units # <<>> /\ job[y].text \in 0..MaxVersion
         /\ Head(job[y].units) \in Units /\ Head(job[y].units).item \in M!Items
         /\ Head(job[y].units).title \in Titles /\ Head(job[y].units).ver \in 0..MaxVersion
         /\ Head(job[y].units).ver # 0
         /\ Head(job[y].units).ver <= remote[Head(job[y].units).item].ver
         /\ job[y].text >= Head(job[y].units).ver
         /\ job[y].text >= job[y].had[Head(job[y].units).item].ver
         /\ job[y].had[Head(job[y].units).item] \in M!ItemType
<1>1. job[y].pc = "write"
  BY DEF M!At
<1>2. /\ job[y].units # <<>> /\ job[y].text \in 0..MaxVersion
      /\ job[y].text >= Head(job[y].units).ver
      /\ job[y].text >= job[y].had[Head(job[y].units).item].ver
  BY <1>1 DEF MirrorBase, JobSound
<1>3. UnitsSound(remote, job[y].units) /\ job[y].had \in [M!Items -> M!ItemType]
  BY <1>1, AtWork
<1>4. /\ Head(job[y].units) \in Units /\ Head(job[y].units).ver # 0
      /\ Head(job[y].units).ver <= remote[Head(job[y].units).item].ver
  BY <1>2, <1>3, UnitsLeft
<1>5. /\ Head(job[y].units).item \in M!Items /\ Head(job[y].units).title \in Titles
      /\ Head(job[y].units).ver \in 0..MaxVersion
  BY <1>4 DEF Units
<1> QED BY <1>1, <1>2, <1>3, <1>4, <1>5

LEMMA WriteKeeps ==
  ASSUME M!MirrorAssumption, MirrorBase, NEW y \in M!Syncers, M!Write(y)
  PROVE  MirrorBase' /\ (Users = {} /\ PollerAlone => PollerAlone')
<1>1. PICK u : u = Head(job[y].units)
  OBVIOUS
<1>2. PICK old : old = job[y].had[u.item]
  OBVIOUS
<1>3. PICK put : put = M!Pending(y, u.item, u.ver, u.title)
  OBVIOUS
<1>4. PICK j : j = M!See(y, put)
  OBVIOUS
<1>5. /\ job[y].pc = "write" /\ job[y].units # <<>> /\ job[y].text \in 0..MaxVersion
      /\ u.item \in M!Items /\ u.title \in Titles /\ u.ver \in 0..MaxVersion /\ u.ver # 0
      /\ u.ver <= remote[u.item].ver /\ job[y].text >= u.ver /\ job[y].text >= old.ver /\ old \in M!ItemType
  <2>1. M!At(y, "write")
    BY DEF M!Write
  <2>2. /\ job[y].pc = "write" /\ job[y].units # <<>> /\ job[y].text \in 0..MaxVersion
        /\ u.item \in M!Items /\ u.title \in Titles /\ u.ver \in 0..MaxVersion /\ u.ver # 0
        /\ u.ver <= remote[u.item].ver /\ job[y].text >= u.ver
    BY <1>1, <2>1, AtWrite
  <2>3. job[y].text >= old.ver /\ old \in M!ItemType
    BY <1>1, <1>2, <2>1, AtWrite
  <2> QED BY <2>2, <2>3
<1>6. /\ job' = [job EXCEPT ![y] = j] /\ UNCHANGED <<remote, trashed, row, listener, failures>>
      /\ file' = [file EXCEPT ![u.item] =
                    [t \in Titles |-> IF t = u.title THEN job[y].text
                                      ELSE IF old.ver # 0 /\ t = old.title THEN 0 ELSE file[u.item][t]]]
  <2>1. /\ job' = [job EXCEPT ![y] = M!See(y, M!Pending(y, Head(job[y].units).item, Head(job[y].units).ver,
                                                   Head(job[y].units).title))]
        /\ UNCHANGED <<remote, trashed, row, listener, failures>>
        /\ file' = [file EXCEPT ![Head(job[y].units).item] =
                      M!Rewritten(Head(job[y].units).item, Head(job[y].units).title,
                                job[y].had[Head(job[y].units).item], job[y].text)]
    BY DEF M!Write
  <2>2. file' = [file EXCEPT ![u.item] = M!Rewritten(u.item, u.title, old, job[y].text)]
    BY <1>1, <1>2, <2>1
  <2>3. job' = [job EXCEPT ![y] = j]
    BY <1>1, <1>3, <1>4, <2>1
  <2>4. M!Rewritten(u.item, u.title, old, job[y].text)
          = [t \in Titles |-> IF t = u.title THEN job[y].text
                              ELSE IF old.ver # 0 /\ t = old.title THEN 0 ELSE file[u.item][t]]
    BY DEF M!Rewritten
  <2>5. UNCHANGED <<remote, trashed, row, listener, failures>>
    BY <2>1
  <2>6. file' = [file EXCEPT ![u.item] =
                  [t \in Titles |-> IF t = u.title THEN job[y].text
                                    ELSE IF old.ver # 0 /\ t = old.title THEN 0 ELSE file[u.item][t]]]
    BY <2>2, <2>4, Zenon
  <2> QED BY <2>3, <2>5, <2>6, Zenon
<1>7. \A i \in M!Items : /\ i # u.item => file'[i] = file[i]
                       /\ file[i] \in [Titles -> 0..MaxVersion]
  BY <1>6, BaseStays
<1>8. \A t \in Titles : file'[u.item][t] = IF t = u.title THEN job[y].text
                                           ELSE IF old.ver # 0 /\ t = old.title THEN 0 ELSE file[u.item][t]
  BY <1>5, <1>6, BaseStays
<1>9. file' \in [M!Items -> [Titles -> 0..MaxVersion]]
  <2>1. 0 \in 0..MaxVersion
    BY DEF M!MirrorAssumption
  <2>2. [t \in Titles |-> IF t = u.title THEN job[y].text
                          ELSE IF old.ver # 0 /\ t = old.title THEN 0 ELSE file[u.item][t]]
          \in [Titles -> 0..MaxVersion]
    BY <1>5, <1>7, <2>1
  <2> QED BY <1>6, <2>2, BaseStays
<1>10. PutSound(remote, job[y].put, job[y].seen)
  BY <1>5, PutStays
<1>11. /\ DOMAIN put = DOMAIN job[y].put \cup {u.item}
       /\ put[u.item] = [ver |-> u.ver, title |-> u.title]
       /\ \A i \in DOMAIN job[y].put : i # u.item => put[i] = job[y].put[i]
  BY <1>3 DEF M!Pending
<1>12. put[u.item] \in M!ItemType /\ put[u.item].ver = u.ver /\ put[u.item].title = u.title
  BY <1>5, <1>11 DEF M!ItemType
<1>13. PutSound(remote, put, job[y].seen \cup {u.item})
  BY <1>5, <1>10, <1>11, <1>12 DEF PutSound
<1>14. JobSound(remote, j) /\ j.pc = "work" /\ j.had = job[y].had /\ j.put = put
  BY <1>1, <1>4, <1>5, <1>13, SeeSound
<1>15. MirrorBase'
  BY <1>6, <1>9, <1>14, BaseStays, BaseStep
<1>16. ASSUME Users = {}, PollerAlone PROVE PollerAlone'
  <2>1. y = Poller
    BY <1>16 DEF M!Syncers
  <2>2. ASSUME NEW i \in M!Items, row[i].ver # 0 PROVE Backed(file', i, row[i])
    <3>1. Backed(file, i, row[i])
      BY <1>16, <2>2 DEF PollerAlone
    <3>2. CASE i # u.item
      BY <1>7, <3>1, <3>2 DEF Backed
    <3>3. CASE i = u.item
      <4>1. row[i] \in {job[y].had[i], M!NoItem}
        BY <1>5, <1>16, <2>1 DEF PollerAlone
      <4>2. row[i] = old
        BY <1>2, <2>2, <3>3, <4>1, NoItemIs
      <4>3. old.title \in Titles
        BY <1>5 DEF M!ItemType
      <4>4. file'[i][old.title] = job[y].text \/ file'[i][old.title] = 0
        BY <1>8, <2>2, <3>3, <4>2, <4>3
      <4> QED BY <1>5, <4>2, <4>4 DEF Backed
    <3> QED BY <3>2, <3>3
  <2>3. ASSUME NEW i \in DOMAIN put PROVE Backed(file', i, put[i])
    <3>1. CASE i = u.item
      <4>1. file'[i][u.title] = job[y].text
        BY <1>5, <1>8, <3>1
      <4> QED BY <1>5, <1>12, <3>1, <4>1 DEF Backed
    <3>2. CASE i # u.item
      <4>1. i \in DOMAIN job[y].put /\ put[i] = job[y].put[i] /\ i \in M!Items
        BY <1>10, <1>11, <3>2 DEF PutSound
      <4>2. Backed(file, i, put[i])
        BY <1>5, <1>16, <2>1, <4>1 DEF PollerAlone
      <4> QED BY <1>7, <3>2, <4>1, <4>2 DEF Backed
    <3> QED BY <3>1, <3>2
  <2> QED BY <1>5, <1>6, <1>14, <1>16, <2>2, <2>3, AloneStep
<1> QED BY <1>15, <1>16

LEMMA WriteFailsKeeps ==
  ASSUME M!MirrorAssumption, MirrorBase, NEW y \in M!Syncers, M!WriteFails(y)
  PROVE  MirrorBase' /\ (Users = {} /\ PollerAlone => PollerAlone')
<1>1. PICK u : u = Head(job[y].units)
  OBVIOUS
<1>2. PICK old : old = job[y].had[u.item]
  OBVIOUS
<1>3. PICK j : j = M!See(y, job[y].put)
  OBVIOUS
<1>4. /\ job[y].pc = "write" /\ job[y].units # <<>> /\ u.item \in M!Items /\ old \in M!ItemType
  <2>1. M!At(y, "write")
    BY Zenon DEF M!WriteFails
  <2>2. job[y].pc = "write" /\ job[y].units # <<>> /\ u.item \in M!Items
    BY <1>1, <2>1, AtWrite
  <2>3. old \in M!ItemType
    BY <1>1, <1>2, <2>1, AtWrite
  <2> QED BY <2>2, <2>3
<1>5. /\ job' = [job EXCEPT ![y] = j] /\ UNCHANGED <<remote, trashed, row, listener>> /\ M!Fault
      /\ file' = IF old.ver # 0 /\ old.title # u.title
                 THEN [file EXCEPT ![u.item][old.title] = 0] ELSE file
  <2>1. /\ job' = [job EXCEPT ![y] = M!See(y, job[y].put)]
        /\ UNCHANGED <<remote, trashed, row, listener>> /\ M!Fault
    BY Zenon DEF M!WriteFails
  <2>2. file' = IF /\ job[y].had[Head(job[y].units).item].ver # 0
                   /\ job[y].had[Head(job[y].units).item].title # Head(job[y].units).title
                THEN [file EXCEPT ![Head(job[y].units).item]
                                   [job[y].had[Head(job[y].units).item].title] = 0] ELSE file
    BY Zenon DEF M!WriteFails
  <2>3. file' = IF old.ver # 0 /\ old.title # u.title
                THEN [file EXCEPT ![u.item][old.title] = 0] ELSE file
    BY <1>1, <1>2, <2>2, Zenon
  <2> QED BY <1>3, <2>1, <2>3, Zenon
<1>6. failures' \in 0..MaxFailures
  BY <1>5, FaultType
<1>7. file \in [M!Items -> [Titles -> 0..MaxVersion]] /\ 0 \in 0..MaxVersion /\ old.title \in Titles
  BY <1>4, BaseStays DEF M!MirrorAssumption, M!ItemType
<1>8. file' \in [M!Items -> [Titles -> 0..MaxVersion]]
  BY <1>4, <1>5, <1>7
<1>9. \A i \in M!Items, t \in Titles : file'[i][t] \in {file[i][t], 0}
  BY <1>4, <1>5, <1>7
<1>10. JobSound(remote, j) /\ j.pc = "work" /\ j.had = job[y].had /\ j.put = job[y].put
  <2>1. PutSound(remote, job[y].put, job[y].seen \cup {Head(job[y].units).item})
    BY <1>4, PutStays
  <2> QED BY <1>3, <1>4, <2>1, SeeSound
<1>11. MirrorBase'
  BY <1>5, <1>6, <1>8, <1>10, BaseStays, BaseStep
<1>12. Users = {} /\ PollerAlone => PollerAlone'
  BY <1>4, <1>5, <1>9, <1>10, AloneFalls
<1> QED BY <1>11, <1>12

\* The rows a commit leaves.
LEMMA CommitRows ==
  ASSUME M!MirrorAssumption, MirrorBase, NEW y \in M!Syncers, M!Commit(y), NEW i \in M!Items
  PROVE  /\ row'[i] \in M!ItemType /\ row'[i].ver <= remote[i].ver /\ Blank(row'[i])
         /\ \/ row'[i] = row[i] \/ row'[i] = M!NoItem
            \/ /\ i \in DOMAIN job[y].put /\ ~M!Conflict(y)
               /\ row'[i] = [ver |-> M!Column(y, i, "ver"), title |-> M!Column(y, i, "title")]
<1>1. job[y].pc = "commit"
  BY DEF M!Commit, M!At
<1>2. /\ row[i] \in M!ItemType /\ row[i].ver <= remote[i].ver /\ Blank(row[i]) /\ remote[i].ver \in Nat
      /\ row[i].ver \in 0..MaxVersion /\ row[i].title \in Titles
  BY BaseStays DEF M!ItemType
<1>3. PutSound(remote, job[y].put, job[y].seen)
  BY <1>1, PutStays
<1>4. ASSUME i \in DOMAIN job[y].put
      PROVE  /\ M!Column(y, i, "ver") \in {job[y].put[i].ver, row[i].ver}
             /\ M!Column(y, i, "title") \in {job[y].put[i].title, row[i].title}
             /\ job[y].put[i].ver \in 0..MaxVersion /\ job[y].put[i].title \in Titles
             /\ job[y].put[i].ver <= remote[i].ver /\ i \in job[y].seen
             /\ ~M!Conflict(y) => M!Column(y, i, "ver") # 0
  <2>1. /\ job[y].put[i] \in M!ItemType /\ job[y].put[i].ver <= remote[i].ver
        /\ job[y].put[i].ver # 0 /\ i \in job[y].seen
    BY <1>3, <1>4 DEF PutSound
  <2>2. M!Column(y, i, "ver") \in {job[y].put[i]["ver"], row[i]["ver"]}
    BY DEF M!Column
  <2>3. M!Column(y, i, "title") \in {job[y].put[i]["title"], row[i]["title"]}
    BY DEF M!Column
  <2>4. ASSUME ~M!Conflict(y) PROVE M!Column(y, i, "ver") # 0
    <3>1. /\ ~\E k \in DOMAIN job[y].put : job[y].had[k].ver = 0 /\ row[k].ver # 0
          /\ ~\E k \in job[y].seen : job[y].had[k].ver # 0 /\ row[k].ver = 0
      BY <2>4 DEF M!Conflict
    <3>2. job[y].had[i].ver = 0 <=> row[i].ver = 0
      BY <1>4, <2>1, <3>1
    <3>3. M!Column(y, i, "ver") = IF job[y].put[i].ver # job[y].had[i].ver THEN job[y].put[i].ver ELSE row[i].ver
      BY DEF M!Column
    <3> QED BY <2>1, <3>2, <3>3
  <2> QED BY <2>1, <2>2, <2>3, <2>4 DEF M!ItemType
<1>5. row' = IF M!Conflict(y) THEN row
             ELSE [k \in M!Items |->
                    IF k \in DOMAIN job[y].put
                    THEN [ver |-> M!Column(y, k, "ver"), title |-> M!Column(y, k, "title")]
                    ELSE IF k \in M!Unseen(y) THEN M!NoItem ELSE row[k]]
  BY DEF M!Commit
<1>6. CASE ~M!Conflict(y) /\ i \in DOMAIN job[y].put
  <2>1. row'[i] = [ver |-> M!Column(y, i, "ver"), title |-> M!Column(y, i, "title")]
    BY <1>5, <1>6
  <2>2. row'[i].ver = M!Column(y, i, "ver") /\ row'[i].title = M!Column(y, i, "title")
    BY <2>1
  <2>3. M!Column(y, i, "ver") \in 0..MaxVersion /\ M!Column(y, i, "title") \in Titles
    BY <1>2, <1>4, <1>6
  <2>4. row'[i] \in M!ItemType
    BY <2>1, <2>3 DEF M!ItemType
  <2>5. row'[i].ver <= remote[i].ver
    BY <1>2, <1>4, <1>6, <2>2
  <2>6. Blank(row'[i])
    BY <1>4, <1>6, <2>2 DEF Blank
  <2> QED BY <1>6, <2>1, <2>4, <2>5, <2>6
<1>7. CASE M!Conflict(y) \/ i \notin DOMAIN job[y].put
  <2>1. row'[i] = row[i] \/ row'[i] = M!NoItem
    BY <1>5, <1>7
  <2> QED BY <1>2, <2>1, NoItemIs
<1> QED BY <1>6, <1>7

LEMMA CommitKeeps ==
  ASSUME M!MirrorAssumption, MirrorBase, NEW y \in M!Syncers, M!Commit(y)
  PROVE  MirrorBase' /\ (Users = {} /\ PollerAlone => PollerAlone')
<1>1. job[y].pc = "commit" /\ job' = [job EXCEPT ![y] = M!Idle] /\ UNCHANGED <<remote, trashed, file, listener, failures>>
  BY DEF M!Commit, M!At
<1>2. row' \in [M!Items -> M!ItemType] /\ \A i \in M!Items : row'[i].ver <= remote[i].ver /\ Blank(row'[i])
  <2>1. \A i \in M!Items : row'[i] \in M!ItemType /\ row'[i].ver <= remote[i].ver /\ Blank(row'[i])
    BY CommitRows
  <2>2. row \in [M!Items -> M!ItemType]
    BY BaseStays
  <2>3. DOMAIN row' = M!Items /\ row' = [i \in M!Items |-> row'[i]]
    BY <2>2 DEF M!Commit
  <2> QED BY <2>1, <2>3
<1>3. MirrorBase'
  BY <1>1, <1>2, BaseStays, BaseStep, IdleSound
<1>4. ASSUME Users = {}, PollerAlone PROVE PollerAlone'
  <2>1. y = Poller /\ job'[Poller].pc = "idle"
    BY <1>1, <1>4, IdleSound DEF M!Syncers, MirrorBase
  <2>2. PutSound(remote, job[y].put, job[y].seen)
    BY <1>1, PutStays
  <2>3. ASSUME NEW i \in M!Items, row'[i].ver # 0 PROVE Backed(file, i, row'[i])
    <3>1. CASE row'[i] = row[i]
      BY <1>4, <2>3, <3>1 DEF PollerAlone
    <3>2. CASE row'[i] = M!NoItem
      BY <2>3, <3>2, NoItemIs
    <3>3. CASE /\ i \in DOMAIN job[y].put /\ ~M!Conflict(y)
               /\ row'[i] = [ver |-> M!Column(y, i, "ver"), title |-> M!Column(y, i, "title")]
      <4>1. Backed(file, i, job[y].put[i]) /\ row[i] \in {job[y].had[i], M!NoItem}
        BY <1>1, <1>4, <2>1, <3>3 DEF PollerAlone
      <4>2. i \in job[y].seen /\ job[y].put[i] \in M!ItemType
        BY <2>2, <3>3 DEF PutSound
      <4>3. row[i] = job[y].had[i]
        <5> SUFFICES ASSUME row[i] # job[y].had[i] PROVE FALSE
          OBVIOUS
        <5>1. row[i] = M!NoItem /\ row[i].ver = 0
          BY <4>1, NoItemIs
        <5>2. ~\E k \in job[y].seen : job[y].had[k].ver # 0 /\ row[k].ver = 0
          BY <3>3 DEF M!Conflict
        <5>3. job[y].had[i].ver = 0
          BY <4>2, <5>1, <5>2
        <5>4. job[y].had[i] = M!NoItem
          BY <1>1, <5>3, AtWork DEF Blank
        <5> QED BY <5>1, <5>4
      <4>4. M!Column(y, i, "ver") = job[y].put[i]["ver"] /\ M!Column(y, i, "title") = job[y].put[i]["title"]
        BY <4>3 DEF M!Column
      <4>5. row'[i].ver = job[y].put[i].ver /\ row'[i].title = job[y].put[i].title
        BY <3>3, <4>2, <4>4 DEF M!ItemType
      <4> QED BY <4>1, <4>5 DEF Backed
    <3> QED BY <3>1, <3>2, <3>3, CommitRows
  <2> QED BY <1>1, <2>1, <2>3 DEF PollerAlone
<1> QED BY <1>3, <1>4

----------------------------------------------------------------------------
(* The space, the listener and the process *)

LEMMA EditKeeps ==
  ASSUME M!MirrorAssumption, MirrorBase, NEW i \in M!Items, NEW t \in Titles, M!Edit(i, t)
  PROVE  MirrorBase' /\ (Users = {} /\ PollerAlone => PollerAlone')
<1>1. /\ remote' = [remote EXCEPT ![i] = [ver |-> remote[i].ver + 1, title |-> t]]
      /\ UNCHANGED <<trashed, row, file, listener, job, failures>> /\ remote[i].ver < MaxVersion
  BY DEF M!Edit
<1>2. \A k \in M!Items : remote[k] \in M!ItemType /\ remote[k].ver \in 0..MaxVersion
  BY BaseStays DEF M!ItemType
<1>3. PICK x : x = [ver |-> remote[i].ver + 1, title |-> t]
  OBVIOUS
<1>4. x \in M!ItemType /\ x.ver = remote[i].ver + 1
  BY <1>1, <1>2, <1>3 DEF M!ItemType, M!MirrorAssumption
<1>5. remote' \in [M!Items -> M!ItemType] /\ \A k \in M!Items : remote'[k] = IF k = i THEN x ELSE remote[k]
  BY <1>1, <1>3, <1>4, BaseStays
<1>6. \A k \in M!Items : remote[k].ver <= remote'[k].ver
  BY <1>2, <1>4, <1>5
<1>7. \A y \in M!Syncers : JobSound(remote', job[y])
  BY <1>5, <1>6, BaseStays, JobMono DEF MirrorBase
<1>8. \A k \in M!Items : row[k].ver <= remote'[k].ver /\ Blank(row[k])
  <2>1. \A k \in M!Items : row[k].ver \in Int /\ row[k].ver <= remote[k].ver /\ Blank(row[k])
    BY BaseStays DEF M!ItemType
  <2> QED BY <1>2, <1>4, <1>5, <1>6, <2>1
<1>9. MirrorBase'
  BY <1>1, <1>5, <1>7, <1>8 DEF MirrorBase
<1>10. PollerAlone => PollerAlone'
  BY <1>1 DEF PollerAlone
<1> QED BY <1>9, <1>10

LEMMA ListenerKeeps ==
  ASSUME M!MirrorAssumption, MirrorBase, M!confluence_toggle \/ M!confluence_create
  PROVE  MirrorBase' /\ (Users = {} /\ PollerAlone => PollerAlone')
<1>1. UNCHANGED <<remote, trashed, row, file, job, failures>> /\ listener' \in {"on", "off", "gone"}
  BY DEF M!confluence_toggle, M!confluence_create
<1> QED BY <1>1 DEF MirrorBase, PollerAlone

LEMMA DeleteKeeps ==
  ASSUME M!MirrorAssumption, MirrorBase, M!confluence_delete
  PROVE  MirrorBase' /\ (Users = {} /\ PollerAlone => PollerAlone')
<1>1. UNCHANGED <<remote, trashed, file, job, failures>> /\ listener' = "gone" /\ row' = [i \in M!Items |-> M!NoItem]
  BY DEF M!confluence_delete
<1>2. M!NoItem \in M!ItemType /\ M!NoItem.ver = 0 /\ Blank(M!NoItem)
  BY NoItemIs
<1>3. row' \in [M!Items -> M!ItemType] /\ \A i \in M!Items : row'[i] = M!NoItem
  BY <1>1, <1>2
<1>4. \A i \in M!Items : row'[i].ver <= remote[i].ver /\ Blank(row'[i])
  <2>1. \A i \in M!Items : remote[i].ver \in Nat
    BY BaseStays DEF M!ItemType
  <2> QED BY <1>2, <1>3, <2>1
<1>5. MirrorBase'
  BY <1>1, <1>3, <1>4 DEF MirrorBase
<1>6. PollerAlone => PollerAlone'
  BY <1>1, <1>2, <1>3 DEF PollerAlone
<1> QED BY <1>5, <1>6

LEMMA CrashKeeps ==
  ASSUME M!MirrorAssumption, MirrorBase, M!Crash
  PROVE  MirrorBase' /\ (Users = {} /\ PollerAlone => PollerAlone')
<1>1. /\ UNCHANGED <<remote, trashed, row, file, listener>> /\ M!Fault
      /\ job' = [y \in M!Syncers |-> M!Idle]
  BY DEF M!Crash
<1>2. \A y \in M!Syncers : job'[y] = M!Idle
  BY <1>1
<1>3. MirrorBase'
  BY <1>1, <1>2, IdleSound, FaultType DEF MirrorBase
<1>4. job'[Poller].pc = "idle"
  BY <1>2, IdleSound DEF M!Syncers
<1>5. PollerAlone => PollerAlone'
  BY <1>1, <1>4 DEF PollerAlone
<1> QED BY <1>3, <1>5

LEMMA InitMirror ==
  ASSUME M!MirrorAssumption, M!Init
  PROVE  MirrorBase /\ PollerAlone
<1>1. M!NoItem \in M!ItemType /\ M!NoItem.ver = 0 /\ Blank(M!NoItem) /\ 0 \in 0..MaxVersion /\ 0 \in 0..MaxFailures
  BY NoItemIs DEF M!MirrorAssumption
<1>2. /\ remote \in [M!Items -> M!ItemType] /\ row \in [M!Items -> M!ItemType]
      /\ \A i \in M!Items : row[i] = M!NoItem /\ remote[i] = M!NoItem
  BY <1>1 DEF M!Init
<1>3. file \in [M!Items -> [Titles -> 0..MaxVersion]]
  BY <1>1 DEF M!Init
<1>4. DOMAIN job = M!Syncers /\ \A y \in M!Syncers : job[y] = M!Idle
  BY DEF M!Init
<1>5. MirrorBase
  BY <1>1, <1>2, <1>3, <1>4, IdleSound DEF MirrorBase, M!Init
<1>6. job[Poller].pc = "idle"
  BY <1>4, IdleSound DEF M!Syncers
<1>7. PollerAlone
  BY <1>1, <1>2, <1>6 DEF PollerAlone
<1> QED BY <1>5, <1>7

LEMMA NextKeepsMirror ==
  ASSUME M!MirrorAssumption, MirrorBase, [M!Next]_(M!vars)
  PROVE  MirrorBase' /\ (Users = {} /\ PollerAlone => PollerAlone')
<1> DEFINE Goal == MirrorBase' /\ (Users = {} /\ PollerAlone => PollerAlone')
<1>1. ASSUME NEW i \in M!Items, NEW t \in Titles, M!Edit(i, t) PROVE Goal
  BY <1>1, EditKeeps
<1>2. ASSUME NEW i \in M!Items, M!Trash(i) PROVE Goal
  <2>1. UNCHANGED <<remote, row, file, listener, job, failures>> /\ trashed' \subseteq M!Items
    BY <1>2 DEF M!Trash, MirrorBase
  <2> QED BY <2>1 DEF MirrorBase, PollerAlone
<1>3. ASSUME M!confluence_toggle \/ M!confluence_create \/ M!ConfluenceAdd PROVE Goal
  BY <1>3, ListenerKeeps DEF M!ConfluenceAdd
<1>4. ASSUME M!confluence_delete \/ M!ConfluenceRm PROVE Goal
  BY <1>4, DeleteKeeps DEF M!ConfluenceRm
<1>5. ASSUME NEW y \in M!Syncers, M!Step(y) PROVE Goal
  BY <1>5, BeginKeeps, ListPagesKeeps, ListPagesMissesKeeps, EndsKeeps, SkipKeeps, FetchKeeps, WriteKeeps,
     WriteFailsKeeps, AttachmentsKeep, MirrorDeleteKeeps, CommitKeeps DEF M!Step
<1>6. ASSUME M!Crash PROVE Goal
  BY <1>6, CrashKeeps
<1>7. ASSUME UNCHANGED M!vars PROVE Goal
  BY <1>7 DEF M!vars, MirrorBase, PollerAlone
<1> HIDE DEF Goal
<1>8. Goal
  BY <1>1, <1>2, <1>3, <1>4, <1>5, <1>6, <1>7 DEF M!Next
<1> QED BY <1>8 DEF Goal

\* The assumption about the constants, as the instance states it.
LEMMA MirrorConstants == M!MirrorAssumption
BY MirrorAssumption, SameFinite DEF MirrorAssumption, M!MirrorAssumption

\* The types, as the module of the state gives them.
LEMMA TypedIsTyped == M!MirrorTyped => MirrorTyped
<1>1. M!ItemType = ItemType /\ M!Items = Items /\ M!Syncers = Syncers
  BY DEF M!ItemType, M!Items, M!Syncers, ItemType, Items, Syncers
<1> QED BY <1>1 DEF M!MirrorTyped, M!At, MirrorTyped, At

\* However many syncs run beside each other, the state has its types and neither the
\* rows nor what a sync carries is ahead of the space.
THEOREM MirrorNotAhead == M!Spec => [](MirrorTyped /\ MirrorBase)
<1>1. M!Init => MirrorBase
  BY InitMirror, MirrorConstants
<1>2. MirrorBase /\ [M!Next]_(M!vars) => MirrorBase'
  BY NextKeepsMirror, MirrorConstants
<1>3. MirrorBase => MirrorTyped
  BY TypedIsTyped DEF MirrorBase, JobSound, M!MirrorTyped, M!At
<1> QED BY <1>1, <1>2, <1>3, PTL DEF M!Spec

\* While the poller syncs alone, a committed row never claims more than its file
\* holds, across failures, crashes, retitles and edits in the middle of a sync.
THEOREM MirrorIsSound == ASSUME Users = {} PROVE M!Spec => []MirrorSound
<1>1. M!Init => MirrorBase /\ PollerAlone
  BY InitMirror, MirrorConstants
<1>2. MirrorBase /\ PollerAlone /\ [M!Next]_(M!vars) => (MirrorBase /\ PollerAlone)'
  BY NextKeepsMirror, MirrorConstants
<1>3. MirrorBase /\ PollerAlone => MirrorSound
  <2> SUFFICES ASSUME MirrorBase, PollerAlone PROVE MirrorSound
    OBVIOUS
  <2>1. MirrorTyped
    BY TypedIsTyped DEF MirrorBase, JobSound, M!MirrorTyped, M!At
  <2>2. RowNotAhead
    BY DEF PollerAlone, Backed, RowNotAhead, Items, M!Items
  <2> QED BY <2>1, <2>2 DEF MirrorSound
<1> QED BY <1>1, <1>2, <1>3, PTL DEF M!Spec
=============================================================================
