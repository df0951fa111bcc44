------------------------- MODULE JumpTunnelsProofs -------------------------
(***************************************************************************)
(* For every number of clients, chains and targets: the lease counters are *)
(* right, a lease is backed for as long as it is not released, and the     *)
(* pool implements LeasePool.                                              *)
(***************************************************************************)
EXTENDS JumpTunnels, ScanTables, Sequences, WellFoundedInduction, FiniteSetTheorems,
        TLAPS

\* TypeOK without the bound on the counters, which needs CountsLeases.
TypeBase ==
    /\ lock \in Clients \cup {NoOne}
    /\ pc \in [Clients -> PCs]
    /\ kind \in [Clients -> Kinds]
    /\ key \in [Clients -> Keys]
    /\ lease \in [Clients -> LeaseStates]
    /\ hop \in Nat
    /\ pooled \subseteq Sigs /\ dead \subseteq pooled /\ stale \subseteq pooled
    /\ gcStale \subseteq pooled
    /\ open \subseteq Keys
    /\ count \in [Keys -> Nat]
    /\ gcpc \in {"sleep", "wait"}
    /\ sessions \subseteq Clients /\ ttl \subseteq Clients
    /\ tab \subseteq Clients /\ beacon \subseteq Clients
    /\ leaked \subseteq Sigs

\* Where a slot is says what its lease is.
LeaseFits ==
    \A c \in Clients :
        /\ pc[c] \in {"idle", "want", "holding"} <=> lease[c] = "none"
        /\ pc[c] \in {"using", "registering", "session", "raised"}
              => lease[c] = "live"
        /\ c \in sessions => pc[c] = "session"

\* A listener sits on a pooled connection.
ListenersPooled == \A k \in open : k[1] \in pooled

PoolInv == TypeBase /\ LeaseFits /\ ListenersPooled /\ CountsLeases

-----------------------------------------------------------------------------
(* Facts about the holders of a key *)

\* Holders are clients, so there are finitely many.
LEMMA HoldersFinite ==
    \A k : /\ IsFiniteSet(Holders(k))
           /\ Cardinality(Holders(k)) \in Nat
           /\ Cardinality(Holders(k)) <= Cardinality(Clients)
<1> SUFFICES ASSUME NEW k
             PROVE /\ IsFiniteSet(Holders(k))
                   /\ Cardinality(Holders(k)) \in Nat
                   /\ Cardinality(Holders(k)) <= Cardinality(Clients)
    OBVIOUS
<1>1. Holders(k) \subseteq Clients
    BY DEF Holders
<1> QED BY <1>1, ConstantsAssumption, FS_Subset, FS_CardinalityType

\* A key with a holder has a positive count.
LEMMA HolderCounts ==
    ASSUME CountsLeases, NEW k \in Keys, NEW c \in Holders(k)
    PROVE  count[k] > 0 /\ k \in open
<1>1. Holders(k) # {}
    OBVIOUS
<1>2. Cardinality(Holders(k)) # 0
    BY <1>1, HoldersFinite, FS_EmptySet
<1> QED BY <1>2, HoldersFinite DEF CountsLeases

\* A step that leaves every lease a holder of the same key, or of none, leaves
\* counters and listeners right if it leaves them alone.
LEMMA SameHolders ==
    ASSUME CountsLeases, UNCHANGED <<open, count>>,
           \A c \in Clients :
               /\ lease[c] \in {"live", "closing"}
                     <=> lease'[c] \in {"live", "closing"}
               /\ lease[c] \in {"live", "closing"} => key'[c] = key[c]
    PROVE  CountsLeases'
<1>1. \A k : Holders(k)' = Holders(k)
    BY DEF Holders
<1> QED BY <1>1 DEF CountsLeases

\* Two actions do change the holders.  Granting adds one, under a key whose
\* counter goes up by one and whose listener is then open.
LEMMA GrantCounts ==
    ASSUME PoolInv, NEW c \in Clients, Grant(c)
    PROVE  CountsLeases'
<1>0. PICK k \in Keys : k = key[c]
    BY DEF PoolInv, TypeBase
<1>1. k \in Keys /\ c \notin Holders(k) /\ lease[c] = "none"
    BY <1>0 DEF PoolInv, TypeBase, LeaseFits, Grant, Holders
<1>2. Holders(k)' = Holders(k) \cup {c}
    BY <1>0, <1>1 DEF Holders, Grant, PoolInv, TypeBase
<1>3. \A j \in Keys : j # k => Holders(j)' = Holders(j)
    BY <1>0, <1>1 DEF Holders, Grant, PoolInv, TypeBase
<1>4. Cardinality(Holders(k)') = Cardinality(Holders(k)) + 1
    BY <1>1, <1>2, HoldersFinite, FS_AddElement
<1>5. count' = [count EXCEPT ![k] = @ + 1] /\ open' = open \cup {k}
    BY <1>0 DEF Grant
<1>6. count \in [Keys -> Nat] /\ CountsLeases
    BY DEF PoolInv, TypeBase
<1>7. count'[k] = count[k] + 1 /\ \A j \in Keys : j # k => count'[j] = count[j]
    BY <1>1, <1>5, <1>6
<1>8. count'[k] = Cardinality(Holders(k)') /\ k \in open' /\ count'[k] > 0
    BY <1>1, <1>4, <1>5, <1>6, <1>7 DEF CountsLeases
<1>9. \A j \in Keys : j # k => /\ count'[j] = Cardinality(Holders(j)')
                               /\ j \in open' <=> count'[j] > 0
    BY <1>3, <1>5, <1>6, <1>7 DEF CountsLeases
<1> QED BY <1>8, <1>9 DEF CountsLeases

\* Counting down removes one; the early returns of _release never apply, and the
\* listener closes exactly with the last holder.
LEMMA CountdownCounts ==
    ASSUME PoolInv, NEW c \in Clients, Countdown(c)
    PROVE  /\ CountsLeases'
           /\ count'[key[c]] = count[key[c]] - 1
           /\ open' = IF count[key[c]] = 1 THEN open \ {key[c]} ELSE open
<1>0. PICK k \in Keys : k = key[c]
    BY DEF PoolInv, TypeBase
<1>1. k \in Keys /\ c \in Holders(k)
    BY <1>0 DEF PoolInv, TypeBase, Countdown, Holders
<1>2. count[k] > 0 /\ k \in open /\ k[1] \in pooled /\ count[k] \in Nat
    BY <1>1, HolderCounts DEF PoolInv, ListenersPooled, TypeBase
<1>3. Holders(k)' = Holders(k) \ {c}
    BY <1>0, <1>1 DEF Holders, Countdown, PoolInv, TypeBase
<1>4. \A j \in Keys : j # k => Holders(j)' = Holders(j)
    BY <1>0, <1>1 DEF Holders, Countdown, PoolInv, TypeBase
<1>5. Cardinality(Holders(k)') = Cardinality(Holders(k)) - 1
    BY <1>1, <1>3, HoldersFinite, FS_RemoveElement
<1>6. /\ count' = [count EXCEPT ![k] = IF count[k] <= 1 THEN 0 ELSE @ - 1]
      /\ open' = IF count[k] <= 1 THEN open \ {k} ELSE open
    BY <1>0, <1>2 DEF Countdown, Sig
<1>7. count \in [Keys -> Nat] /\ CountsLeases
    BY DEF PoolInv, TypeBase
<1>8. /\ count'[k] = count[k] - 1
      /\ \A j \in Keys : j # k => count'[j] = count[j]
      /\ open' = IF count[k] = 1 THEN open \ {k} ELSE open
    BY <1>1, <1>2, <1>6, <1>7
<1>9. count'[k] = Cardinality(Holders(k)') /\ (k \in open' <=> count'[k] > 0)
    BY <1>1, <1>2, <1>5, <1>7, <1>8 DEF CountsLeases
<1>10. \A j \in Keys : j # k => /\ count'[j] = Cardinality(Holders(j)')
                                /\ j \in open' <=> count'[j] > 0
    BY <1>4, <1>7, <1>8 DEF CountsLeases
<1>11. CountsLeases'
    BY <1>9, <1>10 DEF CountsLeases
<1> QED BY <1>0, <1>8, <1>11

-----------------------------------------------------------------------------
(* The inductive invariant *)

\* The pool starts empty.
LEMMA InitPoolInv == Init => PoolInv
<1> SUFFICES ASSUME Init PROVE PoolInv
    OBVIOUS
<1>1. TypeBase
    <2>1. PICK s \in Sigs : TRUE
        BY ConstantsAssumption
    <2>2. <<s, Socks>> \in Keys
        BY DEF Keys
    <2>3. (CHOOSE k \in Keys : TRUE) \in Keys
        BY <2>2
    <2> QED BY <2>3 DEF Init, TypeBase, PCs, Kinds, LeaseStates
<1>2. LeaseFits /\ ListenersPooled
    BY DEF Init, LeaseFits, ListenersPooled
<1>3. CountsLeases
    <2>1. \A k : Holders(k) = {}
        BY DEF Init, Holders
    <2> QED BY <2>1, FS_EmptySet DEF Init, CountsLeases
<1> QED BY <1>1, <1>2, <1>3 DEF PoolInv

\* Steps of one slot.
LEMMA ClientStepPoolInv ==
    ASSUME PoolInv, NEW c \in Clients, ClientStep(c)
    PROVE  PoolInv'
<1> USE DEF poolVars, callVars, sessVars
<1>0. Sig(c) \in Sigs
    BY DEF PoolInv, TypeBase, Keys, Sig
<1>1. ASSUME Begin(c) PROVE PoolInv'
    <2>1. TypeBase'
        BY <1>1 DEF PoolInv, TypeBase, PCs, Kinds, LeaseStates, Begin
    <2>2. LeaseFits'
        BY <1>1 DEF PoolInv, TypeBase, LeaseFits, Begin
    <2>3. ListenersPooled'
        BY <1>1 DEF PoolInv, ListenersPooled, Begin
    <2>4. CountsLeases'
        BY <1>1, SameHolders DEF PoolInv, TypeBase, LeaseFits, Begin
    <2> QED BY <2>1, <2>2, <2>3, <2>4 DEF PoolInv
<1>2. ASSUME AcquireLock(c) PROVE PoolInv'
    <2>1. TypeBase'
        BY <1>2 DEF PoolInv, TypeBase, PCs, Kinds, LeaseStates, AcquireLock
    <2>2. LeaseFits'
        BY <1>2 DEF PoolInv, TypeBase, LeaseFits, AcquireLock
    <2>3. ListenersPooled'
        BY <1>2 DEF PoolInv, ListenersPooled, AcquireLock
    <2>4. CountsLeases'
        BY <1>2, SameHolders DEF PoolInv, TypeBase, LeaseFits, AcquireLock
    <2> QED BY <2>1, <2>2, <2>3, <2>4 DEF PoolInv
<1>3. ASSUME OpenHop(c) PROVE PoolInv'
    <2>1. TypeBase'
        BY <1>0, <1>3 DEF PoolInv, TypeBase, OpenHop, Touch
    <2>2. LeaseFits'
        BY <1>3 DEF PoolInv, TypeBase, LeaseFits, OpenHop, Touch, Sig
    <2>3. ListenersPooled'
        BY <1>3 DEF PoolInv, ListenersPooled, OpenHop, Touch, Sig
    <2>4. CountsLeases'
        BY <1>3, SameHolders DEF PoolInv, TypeBase, LeaseFits, OpenHop, Touch, Sig
    <2> QED BY <2>1, <2>2, <2>3, <2>4 DEF PoolInv
<1>4. ASSUME OpenFails(c) PROVE PoolInv'
    <2>1. TypeBase'
        BY <1>0, <1>4 DEF PoolInv, TypeBase, PCs, OpenFails
    <2>2. LeaseFits'
        BY <1>4 DEF PoolInv, TypeBase, LeaseFits, OpenFails, Sig
    <2>3. ListenersPooled'
        BY <1>4 DEF PoolInv, ListenersPooled, OpenFails, Sig
    <2>4. CountsLeases'
        BY <1>4, SameHolders DEF PoolInv, TypeBase, LeaseFits, OpenFails, Sig
    <2> QED BY <2>1, <2>2, <2>3, <2>4 DEF PoolInv
<1>5. ASSUME ListenFails(c) PROVE PoolInv'
    <2>1. TypeBase'
        BY <1>5 DEF PoolInv, TypeBase, PCs, Kinds, LeaseStates, ListenFails
    <2>2. LeaseFits'
        BY <1>5 DEF PoolInv, TypeBase, LeaseFits, ListenFails
    <2>3. ListenersPooled'
        BY <1>5 DEF PoolInv, ListenersPooled, ListenFails
    <2>4. CountsLeases'
        BY <1>5, SameHolders DEF PoolInv, TypeBase, LeaseFits, ListenFails
    <2> QED BY <2>1, <2>2, <2>3, <2>4 DEF PoolInv
<1>6. ASSUME ScopeEnds(c) PROVE PoolInv'
    <2>1. TypeBase'
        BY <1>6 DEF PoolInv, TypeBase, PCs, Kinds, LeaseStates, ScopeEnds, Release
    <2>2. LeaseFits'
        BY <1>6 DEF PoolInv, TypeBase, LeaseFits, ScopeEnds, Release
    <2>3. ListenersPooled'
        BY <1>6 DEF PoolInv, ListenersPooled, ScopeEnds, Release
    <2>4. CountsLeases'
        BY <1>6, SameHolders DEF PoolInv, TypeBase, LeaseFits, ScopeEnds, Release
    <2> QED BY <2>1, <2>2, <2>3, <2>4 DEF PoolInv
<1>7. ASSUME Return(c) PROVE PoolInv'
    <2>1. TypeBase'
        BY <1>7 DEF PoolInv, TypeBase, PCs, Kinds, LeaseStates, Return
    <2>2. LeaseFits'
        BY <1>7 DEF PoolInv, TypeBase, LeaseFits, Return
    <2>3. ListenersPooled'
        BY <1>7 DEF PoolInv, ListenersPooled, Return
    <2>4. CountsLeases'
        BY <1>7, SameHolders DEF PoolInv, TypeBase, LeaseFits, Return
    <2> QED BY <2>1, <2>2, <2>3, <2>4 DEF PoolInv
<1>8. ASSUME ProbeFails(c) PROVE PoolInv'
    <2>1. TypeBase'
        BY <1>8 DEF PoolInv, TypeBase, PCs, Kinds, LeaseStates, ProbeFails, Release
    <2>2. LeaseFits'
        BY <1>8 DEF PoolInv, TypeBase, LeaseFits, ProbeFails, Release
    <2>3. ListenersPooled'
        BY <1>8 DEF PoolInv, ListenersPooled, ProbeFails, Release
    <2>4. CountsLeases'
        BY <1>8, SameHolders DEF PoolInv, TypeBase, LeaseFits, ProbeFails, Release
    <2> QED BY <2>1, <2>2, <2>3, <2>4 DEF PoolInv
<1>9. ASSUME Unwind(c) PROVE PoolInv'
    <2>1. TypeBase'
        BY <1>9 DEF PoolInv, TypeBase, PCs, Kinds, LeaseStates, Unwind, Release
    <2>2. LeaseFits'
        BY <1>9 DEF PoolInv, TypeBase, LeaseFits, Unwind, Release
    <2>3. ListenersPooled'
        BY <1>9 DEF PoolInv, ListenersPooled, Unwind, Release
    <2>4. CountsLeases'
        BY <1>9, SameHolders DEF PoolInv, TypeBase, LeaseFits, Unwind, Release
    <2> QED BY <2>1, <2>2, <2>3, <2>4 DEF PoolInv
<1>10. ASSUME TokenFails(c) PROVE PoolInv'
    <2>1. TypeBase'
        BY <1>10 DEF PoolInv, TypeBase, PCs, Kinds, LeaseStates, TokenFails, Release
    <2>2. LeaseFits'
        BY <1>10 DEF PoolInv, TypeBase, LeaseFits, TokenFails, Release
    <2>3. ListenersPooled'
        BY <1>10 DEF PoolInv, ListenersPooled, TokenFails, Release
    <2>4. CountsLeases'
        BY <1>10, SameHolders DEF PoolInv, TypeBase, LeaseFits, TokenFails, Release
    <2> QED BY <2>1, <2>2, <2>3, <2>4 DEF PoolInv
<1>11. ASSUME Raises(c) PROVE PoolInv'
    <2>1. TypeBase'
        BY <1>11 DEF PoolInv, TypeBase, PCs, Kinds, LeaseStates, Raises
    <2>2. LeaseFits'
        BY <1>11 DEF PoolInv, TypeBase, LeaseFits, Raises
    <2>3. ListenersPooled'
        BY <1>11 DEF PoolInv, ListenersPooled, Raises
    <2>4. CountsLeases'
        BY <1>11, SameHolders DEF PoolInv, TypeBase, LeaseFits, Raises
    <2> QED BY <2>1, <2>2, <2>3, <2>4 DEF PoolInv
<1>12. ASSUME TokenOk(c) PROVE PoolInv'
    <2>1. TypeBase'
        BY <1>12 DEF PoolInv, TypeBase, PCs, Kinds, LeaseStates, TokenOk
    <2>2. LeaseFits'
        BY <1>12 DEF PoolInv, TypeBase, LeaseFits, TokenOk
    <2>3. ListenersPooled'
        BY <1>12 DEF PoolInv, ListenersPooled, TokenOk
    <2>4. CountsLeases'
        BY <1>12, SameHolders DEF PoolInv, TypeBase, LeaseFits, TokenOk
    <2> QED BY <2>1, <2>2, <2>3, <2>4 DEF PoolInv
<1>13. ASSUME Register(c) PROVE PoolInv'
    <2>1. TypeBase'
        BY <1>13 DEF PoolInv, TypeBase, PCs, Kinds, LeaseStates, Register
    <2>2. LeaseFits'
        BY <1>13 DEF PoolInv, TypeBase, LeaseFits, Register
    <2>3. ListenersPooled'
        BY <1>13 DEF PoolInv, ListenersPooled, Register
    <2>4. CountsLeases'
        BY <1>13, SameHolders DEF PoolInv, TypeBase, LeaseFits, Register
    <2> QED BY <2>1, <2>2, <2>3, <2>4 DEF PoolInv
<1>14. ASSUME TtlFires(c) PROVE PoolInv'
    <2>1. TypeBase'
        BY <1>14 DEF PoolInv, TypeBase, PCs, Kinds, LeaseStates, TtlFires, ReleaseSession, Release
    <2>2. LeaseFits'
        BY <1>14 DEF PoolInv, TypeBase, LeaseFits, TtlFires, ReleaseSession, Release
    <2>3. ListenersPooled'
        BY <1>14 DEF PoolInv, ListenersPooled, TtlFires, ReleaseSession, Release
    <2>4. CountsLeases'
        BY <1>14, SameHolders DEF PoolInv, TypeBase, LeaseFits, TtlFires, ReleaseSession, Release
    <2> QED BY <2>1, <2>2, <2>3, <2>4 DEF PoolInv
<1>15. ASSUME TabCloses(c) PROVE PoolInv'
    <2>1. TypeBase'
        BY <1>15 DEF PoolInv, TypeBase, PCs, Kinds, LeaseStates, TabCloses
    <2>2. LeaseFits'
        BY <1>15 DEF PoolInv, TypeBase, LeaseFits, TabCloses
    <2>3. ListenersPooled'
        BY <1>15 DEF PoolInv, ListenersPooled, TabCloses
    <2>4. CountsLeases'
        BY <1>15, SameHolders DEF PoolInv, TypeBase, LeaseFits, TabCloses
    <2> QED BY <2>1, <2>2, <2>3, <2>4 DEF PoolInv
<1>16. ASSUME Disconnect(c) PROVE PoolInv'
    <2>1. TypeBase'
        BY <1>16 DEF PoolInv, TypeBase, PCs, Kinds, LeaseStates, Disconnect, ReleaseSession, Release
    <2>2. LeaseFits'
        BY <1>16 DEF PoolInv, TypeBase, LeaseFits, Disconnect, ReleaseSession, Release
    <2>3. ListenersPooled'
        BY <1>16 DEF PoolInv, ListenersPooled, Disconnect, ReleaseSession, Release
    <2>4. CountsLeases'
        BY <1>16, SameHolders DEF PoolInv, TypeBase, LeaseFits, Disconnect, ReleaseSession, Release
    <2> QED BY <2>1, <2>2, <2>3, <2>4 DEF PoolInv
<1>17. ASSUME Grant(c) PROVE PoolInv'
    <2>1. TypeBase'
        BY <1>17 DEF PoolInv, TypeBase, PCs, Kinds, LeaseStates, Grant, Touch, Sig
    <2>2. LeaseFits'
        BY <1>17 DEF PoolInv, TypeBase, LeaseFits, Grant, Touch, Sig
    <2>3. ListenersPooled'
        BY <1>17 DEF PoolInv, TypeBase, ListenersPooled, Grant, Touch, Sig
    <2>4. CountsLeases'
        BY <1>17, GrantCounts
    <2> QED BY <2>1, <2>2, <2>3, <2>4 DEF PoolInv
<1>18. ASSUME Countdown(c) PROVE PoolInv'
    <2>1. TypeBase'
        BY <1>18 DEF PoolInv, TypeBase, PCs, Kinds, LeaseStates, Countdown, Touch, Sig
    <2>2. LeaseFits'
        BY <1>18 DEF PoolInv, TypeBase, LeaseFits, Countdown, Touch, Sig
    <2>3. ListenersPooled'
        BY <1>18 DEF PoolInv, TypeBase, ListenersPooled, Countdown, Touch, Sig
    <2>4. CountsLeases'
        BY <1>18, CountdownCounts
    <2> QED BY <2>1, <2>2, <2>3, <2>4 DEF PoolInv
<1> QED BY <1>1, <1>2, <1>3, <1>4, <1>5, <1>6, <1>7, <1>8, <1>9, <1>10, <1>11, <1>12, <1>13, <1>14, <1>15, <1>16, <1>17, <1>18 DEF ClientStep

\* The reaper's entries have no listener, so no lease is counted on them.
LEMMA GcRunsPoolInv ==
    ASSUME PoolInv, GcRuns
    PROVE  PoolInv' /\ UNCHANGED <<open, count, lease, key>>
<1>1. PICK reaped \in SUBSET pooled :
          /\ reaped = {s \in pooled \cap gcStale : \A k \in open : k[1] # s}
          /\ pooled' = pooled \ reaped
          /\ dead' = dead \ reaped
          /\ stale' = stale \ reaped
          /\ open' = {k \in open : k[1] \notin reaped}
          /\ count' = [k \in Keys |-> IF k[1] \in reaped THEN 0 ELSE count[k]]
    BY DEF GcRuns
<1>2. open' = open
    BY <1>1
<1>3. \A k \in Keys : k[1] \in reaped => count[k] = 0
    BY <1>1 DEF PoolInv, CountsLeases, TypeBase
<1>4. count' = count
    BY <1>1, <1>3 DEF PoolInv, TypeBase
<1>5. TypeBase'
    BY <1>1, <1>2, <1>4 DEF GcRuns, PoolInv, TypeBase, callVars, sessVars
<1>6. LeaseFits'
    BY DEF GcRuns, PoolInv, LeaseFits, callVars, sessVars
<1>7. ListenersPooled'
    BY <1>1, <1>2 DEF PoolInv, ListenersPooled
<1>8. CountsLeases'
    BY <1>2, <1>4, SameHolders DEF GcRuns, PoolInv, callVars
<1> QED BY <1>2, <1>4, <1>5, <1>6, <1>7, <1>8 DEF PoolInv, GcRuns, callVars

\* Every step of the pool preserves the invariant.
LEMMA NextPoolInv == PoolInv /\ [Next]_vars => PoolInv'
<1> SUFFICES ASSUME PoolInv, [Next]_vars PROVE PoolInv'
    OBVIOUS
<1>1. ASSUME NEW c \in Clients, ClientStep(c) PROVE PoolInv'
    BY <1>1, ClientStepPoolInv
<1>2. ASSUME NEW s \in Sigs, ConnDrops(s) \/ IdleElapses(s) PROVE PoolInv'
    <2>1. TypeBase' /\ LeaseFits' /\ ListenersPooled'
        BY <1>2 DEF ConnDrops, IdleElapses, PoolInv, TypeBase, LeaseFits,
                    ListenersPooled, callVars, sessVars
    <2>2. CountsLeases'
        BY <1>2, SameHolders DEF ConnDrops, IdleElapses, PoolInv, callVars
    <2> QED BY <2>1, <2>2 DEF PoolInv
<1>3. ASSUME GcWakes PROVE PoolInv'
    <2>1. TypeBase' /\ LeaseFits' /\ ListenersPooled'
        BY <1>3 DEF GcWakes, PoolInv, TypeBase, LeaseFits, ListenersPooled,
                    callVars, sessVars
    <2>2. CountsLeases'
        BY <1>3, SameHolders DEF GcWakes, PoolInv, callVars
    <2> QED BY <2>1, <2>2 DEF PoolInv
<1>4. ASSUME GcRuns PROVE PoolInv'
    BY <1>4, GcRunsPoolInv
<1>5. ASSUME UNCHANGED vars PROVE PoolInv'
    <2>1. TypeBase' /\ LeaseFits' /\ ListenersPooled'
        BY <1>5 DEF PoolInv, TypeBase, LeaseFits, ListenersPooled, vars,
                    poolVars, callVars, sessVars
    <2>2. CountsLeases'
        BY <1>5, SameHolders DEF PoolInv, vars, poolVars, callVars
    <2> QED BY <2>1, <2>2 DEF PoolInv
<1> QED BY <1>1, <1>2, <1>3, <1>4, <1>5 DEF Next

\* Every reachable state of the pool satisfies the inductive invariant.
THEOREM PoolInvariant == Spec => []PoolInv
    BY InitPoolInv, NextPoolInv, PTL DEF Spec

-----------------------------------------------------------------------------
(* What follows from it *)

\* Type correctness: the counters stay within the number of client slots.
THEOREM TypeCorrect == Spec => []TypeOK
<1>1. PoolInv => TypeOK
    <2> SUFFICES ASSUME PoolInv PROVE TypeOK
        OBVIOUS
    <2>1. \A k \in Keys : count[k] \in 0 .. Cardinality(Clients)
        BY HoldersFinite, ConstantsAssumption, FS_CardinalityType
           DEF PoolInv, CountsLeases
    <2>2. count \in [Keys -> 0 .. Cardinality(Clients)]
        BY <2>1 DEF PoolInv, TypeBase
    <2> QED BY <2>2 DEF PoolInv, TypeBase, TypeOK
<1> QED BY <1>1, PoolInvariant, PTL

\* lease_count and socks_lease_count are exact, and listeners open and close
\* with them.
THEOREM CountsExact == Spec => []CountsLeases
<1>1. PoolInv => CountsLeases
    BY DEF PoolInv
<1> QED BY <1>1, PoolInvariant, PTL

\* A lease keeps its listener and its connection until it is released.
THEOREM LeasesBacked == Spec => []LeaseBacked
<1>1. PoolInv => LeaseBacked
    <2> SUFFICES ASSUME PoolInv, NEW c \in Clients, lease[c] = "live"
                 PROVE  key[c] \in open /\ Sig(c) \in pooled
        BY DEF LeaseBacked
    <2>1. key[c] \in Keys /\ c \in Holders(key[c])
        BY DEF PoolInv, TypeBase, Holders
    <2>2. key[c] \in open
        BY <2>1, HolderCounts DEF PoolInv
    <2> QED BY <2>2 DEF PoolInv, ListenersPooled, Sig
<1> QED BY <1>1, PoolInvariant, PTL

-----------------------------------------------------------------------------
(* The pool implements LeasePool *)

\* Granting a lease is a Take of the abstract pool.
LEMMA GrantIsTake ==
    ASSUME PoolInv, NEW c \in Clients, Grant(c)
    PROVE  Pool!Next
<1>1. key[c] \in Keys /\ lease[c] = "none"
    BY DEF PoolInv, TypeBase, LeaseFits, Grant
<1>2. Held' = Held \cup {<<c, key[c]>>}
    BY DEF Held, Grant, PoolInv, TypeBase
<1>3. \A l \in Held : l[1] # c
    BY <1>1 DEF Held
<1>4. Pool!Take(c, key[c])
    BY <1>2, <1>3 DEF Pool!Take, Grant, Sig
<1> QED BY <1>1, <1>4 DEF Pool!Next, Pool!Keys, Keys

\* Counting a lease down is a Give.
LEMMA CountdownIsGive ==
    ASSUME PoolInv, NEW c \in Clients, Countdown(c)
    PROVE  Pool!Next
<1>1. PICK k \in Keys : k = key[c]
    BY DEF PoolInv, TypeBase
<1>2. PICK l : l = <<c, k>>
    OBVIOUS
<1>3. l \in Held /\ Held' = Held \ {l}
    BY <1>1, <1>2 DEF Held, Countdown, PoolInv, TypeBase
<1>4. c \in Holders(k)
    BY <1>1 DEF Holders, Countdown, PoolInv, TypeBase
<1>5. (\E m \in Held \ {l} : m[2] = k) <=> Holders(k) \ {c} # {}
    <2>1. ASSUME NEW m \in Held \ {l}, m[2] = k PROVE Holders(k) \ {c} # {}
        <3>1. PICK d \in Clients : /\ lease[d] \in {"live", "closing"}
                                   /\ m = <<d, key[d]>>
            BY DEF Held
        <3> QED BY <1>1, <1>2, <2>1, <3>1 DEF Holders
    <2>2. ASSUME NEW d \in Holders(k) \ {c} PROVE \E m \in Held \ {l} : m[2] = k
        <3>1. <<d, key[d]>> \in Held \ {l} /\ <<d, key[d]>>[2] = k
            BY <1>1, <1>2, <2>2 DEF Held, Holders
        <3> QED BY <3>1
    <2> QED BY <2>1, <2>2
<1>6. Holders(k) \ {c} # {} <=> Cardinality(Holders(k)) # 1
    <2>1. /\ IsFiniteSet(Holders(k) \ {c})
          /\ Cardinality(Holders(k) \ {c}) = Cardinality(Holders(k)) - 1
        BY <1>4, HoldersFinite, FS_RemoveElement
    <2>2. Holders(k) \ {c} = {} <=> Cardinality(Holders(k) \ {c}) = 0
        BY <2>1, FS_EmptySet
    <2> QED BY <2>1, <2>2, HoldersFinite
<1>7. count[k] = Cardinality(Holders(k))
    BY DEF PoolInv, CountsLeases
<1>8. open' = IF count[k] = 1 THEN open \ {k} ELSE open
    BY <1>1, CountdownCounts
<1>9. open' = IF \E m \in Held \ {l} : m[2] = l[2] THEN open ELSE open \ {l[2]}
    BY <1>2, <1>5, <1>6, <1>7, <1>8
<1>10. pooled' = pooled
    BY DEF Countdown
<1>11. Pool!Give(l)
    BY <1>3, <1>9, <1>10 DEF Pool!Give
<1> QED BY <1>3, <1>11 DEF Pool!Next

\* Reaping is a Down: no lease is held on a reaped connection.
LEMMA GcRunsIsDown ==
    ASSUME PoolInv, GcRuns
    PROVE  Pool!Next
<1>1. PICK reaped \in SUBSET pooled :
          /\ reaped = {s \in pooled \cap gcStale : \A k \in open : k[1] # s}
          /\ pooled' = pooled \ reaped
    BY DEF GcRuns
<1>2. UNCHANGED <<open, lease, key>>
    BY GcRunsPoolInv
<1>3. \A l \in Held : l[2][1] \notin reaped
    <2> SUFFICES ASSUME NEW c \in Clients, lease[c] \in {"live", "closing"}
                 PROVE  key[c][1] \notin reaped
        BY DEF Held
    <2>1. key[c] \in Keys /\ c \in Holders(key[c])
        BY DEF PoolInv, TypeBase, Holders
    <2>2. key[c] \in open
        BY <2>1, HolderCounts DEF PoolInv
    <2> QED BY <1>1, <2>2
<1>4. Pool!Down(reaped)
    BY <1>1, <1>2, <1>3 DEF Pool!Down, Held
<1>5. reaped \in SUBSET Sigs
    BY <1>1 DEF PoolInv, TypeBase
<1> QED BY <1>4, <1>5 DEF Pool!Next

\* Every other step of a slot leaves the abstract pool alone, or brings a
\* connection up.
LEMMA ClientStepRefines ==
    ASSUME PoolInv, NEW c \in Clients, ClientStep(c)
    PROVE  Pool!Next \/ UNCHANGED <<Held, open, pooled>>
<1> USE DEF poolVars, callVars, sessVars
<1>1. CASE Grant(c)
    BY <1>1, GrantIsTake
<1>2. CASE Countdown(c)
    BY <1>2, CountdownIsGive
<1>3. CASE OpenHop(c)
    <2>1. Held' = Held /\ open' = open
        BY <1>3 DEF OpenHop, Held
    <2>2. pooled' = pooled \/ pooled' = pooled \cup {Sig(c)}
        BY <1>3 DEF OpenHop
    <2>3. Sig(c) \in Sigs
        BY DEF PoolInv, TypeBase, Keys, Sig
    <2> QED BY <2>1, <2>2, <2>3 DEF Pool!Next, Pool!Up
<1>4. CASE Begin(c)
    <2>1. lease[c] = "none"
        BY <1>4 DEF Begin, PoolInv, LeaseFits
    <2>2. \A d \in Clients : lease[d] \in {"live", "closing"} => key'[d] = key[d]
        BY <1>4, <2>1 DEF Begin, PoolInv, TypeBase
    <2> QED BY <1>4, <2>2 DEF Begin, Held
<1>5. CASE \/ AcquireLock(c) \/ OpenFails(c) \/ ListenFails(c) \/ Raises(c)
           \/ TokenOk(c) \/ Register(c) \/ TabCloses(c)
    BY <1>5 DEF AcquireLock, OpenFails, ListenFails, Raises, TokenOk, Register,
                TabCloses, Held
<1>6. CASE \/ ScopeEnds(c) \/ ProbeFails(c) \/ Unwind(c) \/ TokenFails(c)
           \/ TtlFires(c) \/ Disconnect(c) \/ Return(c)
    <2>1. /\ key' = key /\ open' = open /\ pooled' = pooled
          /\ \A d \in Clients : lease[d] \in {"live", "closing"}
                                   <=> lease'[d] \in {"live", "closing"}
        BY <1>6 DEF ScopeEnds, ProbeFails, Unwind, TokenFails, TtlFires,
                    Disconnect, Return, ReleaseSession, Release, PoolInv, TypeBase
    <2> QED BY <2>1 DEF Held
<1> QED BY <1>1, <1>2, <1>3, <1>4, <1>5, <1>6 DEF ClientStep

\* JumpTunnels implements LeasePool, for all constants.
THEOREM PoolRefines == Spec => ImplementsLeasePool
<1>1. Init => Pool!Init
    BY DEF Init, Pool!Init, Held
<1>2. PoolInv /\ [Next]_vars => [Pool!Next]_(Pool!vars)
    <2> SUFFICES ASSUME PoolInv, [Next]_vars
                 PROVE  Pool!Next \/ UNCHANGED <<Held, open, pooled>>
        BY DEF Pool!vars
    <2>1. ASSUME NEW s \in Sigs, ConnDrops(s) \/ IdleElapses(s)
          PROVE  UNCHANGED <<Held, open, pooled>>
        BY <2>1 DEF ConnDrops, IdleElapses, callVars, Held
    <2>2. ASSUME GcWakes \/ UNCHANGED vars PROVE UNCHANGED <<Held, open, pooled>>
        BY <2>2 DEF GcWakes, vars, poolVars, callVars, Held
    <2> QED BY <2>1, <2>2, GcRunsIsDown, ClientStepRefines DEF Next
<1> QED BY <1>1, <1>2, PoolInvariant, PTL DEF Spec, ImplementsLeasePool, Pool!Spec

-----------------------------------------------------------------------------
(***************************************************************************)
(* Network scans, whose checks of a host behind a jump chain go through a  *)
(* lease of the pool: for every number of scans, rows, tasks and sources,  *)
(* rows, tasks and registry belong together, and a completed scan has a    *)
(* result in every row it could check.                                     *)
(***************************************************************************)

S == INSTANCE Scans

\* The rows of the tables and the tasks have their fields.
IsScan(x) == x = [status |-> x.status, config |-> x.config]
IsRow(x) == x = [scan |-> x.scan, src |-> x.src, label |-> x.label, dst |-> x.dst,
                 port |-> x.port, found |-> x.found]
IsTask(x) == x = [scan |-> x.scan, pc |-> x.pc, work |-> x.work, orphan |-> x.orphan]
IsWork(w) == w = [pc |-> w.pc, ids |-> w.ids, params |-> w.params, next |-> w.next,
                  seen |-> w.seen]

\* The states have their shape, and no result outlives its scan.
Shape ==
  /\ DOMAIN scan = 1..MaxScans /\ DOMAIN result = 1..MaxRows
  /\ \A s \in S!Used(scan) :
       /\ IsScan(scan[s]) /\ scan[s].config \in Requests
       /\ scan[s].status \in {"pending", "running", "completed", "failed"}
  /\ \A r \in S!Used(result) : IsRow(result[r]) /\ result[r].scan \in S!Used(scan)
  /\ hosts \subseteq Hosts
  /\ task \in Seq(S!Range(task))
  /\ \A t \in DOMAIN task :
       /\ IsTask(task[t]) /\ task[t].scan \in 1..MaxScans /\ task[t].orphan \in BOOLEAN
       /\ task[t].pc \in {"new", "checks", "done", "reaped", "dead"}
       /\ \A src \in DOMAIN task[t].work :
            /\ IsWork(task[t].work[src])
            /\ task[t].work[src].pc \in {"queued", "checking", "end", "raised"}
  /\ active \in [1..MaxScans -> 0..Len(task)]
  /\ edits \in Nat /\ faults \in Nat

\* A row's source is its label until the host is deleted.
Labels ==
  \A r \in S!Used(result) :
    /\ result[r].label \in Hosts \cup {Server}
    /\ result[r].src = IF result[r].label \in hosts \cup {Server} THEN result[r].label ELSE S!NoSource

\* A task that is not over has a scan of its own.
Owners ==
  \A t \in DOMAIN task : S!Alive(t) =>
    /\ task[t].scan \in S!Used(scan)
    /\ \A u \in DOMAIN task : S!Alive(u) /\ task[u].scan = task[t].scan => u = t

\* The rows of scan s with source src.
Mine(res, s, src) == {r \in S!Used(res) : res[r].scan = s /\ res[r].label = src}

\* The parameters of checks are those of rows of the source.
ParamsOwn(res, s, src, params) ==
  \A i \in DOMAIN params :
    /\ params[i].id \in Mine(res, s, src)
    /\ params[i].dst = res[params[i].id].dst /\ params[i].port = res[params[i].id].port

\* What a task knows of the rows of a source is true, and a source that is through has
\* a result in every row or noted the row's check as reported.
WorkSound(res, s, src, w) ==
  /\ S!Range(w.ids) = Mine(res, s, src)
  /\ ParamsOwn(res, s, src, w.params)
  /\ w.pc = "queued" => /\ \E n \in 0..MaxRows : DOMAIN w.ids = 1..n
                        /\ w.next = 1 /\ w.seen = {}
  /\ w.pc = "checking" =>
       /\ DOMAIN w.params = 1..Len(w.params) /\ Len(w.params) \in Nat
       /\ w.next \in DOMAIN w.params /\ w.seen = 1..(w.next - 1)
       /\ \A r \in Mine(res, s, src) : \E i \in DOMAIN w.params : w.params[i].id = r
  /\ w.pc = "end" =>
       \A r \in Mine(res, s, src) : res[r].found # S!Pending \/ \E i \in w.seen : w.params[i].id = r

TasksSound ==
  \A t \in DOMAIN task : S!Alive(t) =>
    \A src \in DOMAIN task[t].work : WorkSound(result, task[t].scan, src, task[t].work[src])

\* A task that completed its scan is through with every source.
DoneSound ==
  \A t \in DOMAIN task :
    task[t].pc = "done" /\ scan[task[t].scan].status = "completed" =>
      \A src \in DOMAIN task[t].work : task[t].work[src].pc \in {"end", "raised"}

RegistryIs ==
  \A s \in 1..MaxScans :
    (active[s] # 0) <=> \E t \in DOMAIN task : S!Alive(t) /\ task[t].scan = s

Strong == Owners /\ RegistryIs /\ S!OwnFinding /\ TasksSound /\ DoneSound

ScansInv == Shape /\ Labels /\ (S!Undisturbed => Strong)

----------------------------------------------------------------------------
(* Ids and rows *)

\* A non-empty set of natural numbers has a least element.
LEMMA LeastNumber ==
  ASSUME NEW T \in SUBSET Nat, T # {}
  PROVE  \E m \in T : \A n \in T : m <= n
<1> DEFINE R == {ss \in Nat \X Nat : ss[1] < ss[2]}
<1>1. IsWellFoundedOn(R, Nat)
  BY NatLessThanWellFounded DEF OpToRel
<1>2. \A m, n \in Nat : n < m => <<n, m>> \in R
  OBVIOUS
<1> HIDE DEF R
<1>3. PICK m \in T : \A n \in T : ~ (<<n, m>> \in R)
  BY <1>1, WFMin
<1>4. ASSUME NEW n \in T PROVE m <= n
  <2>1. m \in Nat /\ n \in Nat
    OBVIOUS
  <2>2. ~ (n < m)
    BY <1>2, <1>3, <2>1
  <2> QED BY <2>1, <2>2
<1> QED BY <1>4

LEMMA SameCardinality == ASSUME NEW A PROVE S!Cardinality(A) = Cardinality(A)
BY DEF S!Cardinality, Cardinality

\* The members of a set of numbers up to i.
UpTo(A, i) == {j \in A : j <= i}

LEMMA UpToCounts ==
  ASSUME NEW N \in Nat, NEW A \in SUBSET (1..N)
  PROVE  /\ IsFiniteSet(A) /\ Cardinality(A) \in 0..N
         /\ \A i \in 0..N : IsFiniteSet(UpTo(A, i)) /\ Cardinality(UpTo(A, i)) \in 0..Cardinality(A)
         /\ Cardinality(UpTo(A, 0)) = 0 /\ Cardinality(UpTo(A, N)) = Cardinality(A)
         /\ \A i \in 1..N : i \notin A => UpTo(A, i) = UpTo(A, i - 1)
         /\ \A i \in A : Cardinality(UpTo(A, i)) = Cardinality(UpTo(A, i - 1)) + 1
<1>0. \A j \in A : j \in Int /\ 1 <= j /\ j <= N
  OBVIOUS
<1>1. IsFiniteSet(1..N) /\ Cardinality(1..N) = N
  BY FS_Interval
<1>2. IsFiniteSet(A) /\ Cardinality(A) \in Nat /\ Cardinality(A) <= N
  BY <1>1, FS_Subset, FS_CardinalityType
<1>3. ASSUME NEW i \in 0..N
      PROVE  IsFiniteSet(UpTo(A, i)) /\ Cardinality(UpTo(A, i)) \in 0..Cardinality(A)
  <2>1. UpTo(A, i) \subseteq A
    BY DEF UpTo
  <2>2. IsFiniteSet(UpTo(A, i)) /\ Cardinality(UpTo(A, i)) <= Cardinality(A)
    BY <1>2, <2>1, FS_Subset
  <2>3. Cardinality(UpTo(A, i)) \in Nat
    BY <2>2, FS_CardinalityType
  <2> QED BY <1>2, <2>2, <2>3
<1>4. Cardinality(UpTo(A, 0)) = 0
  <2>1. UpTo(A, 0) = {}
    <3>1. \A j \in A : ~ (j <= 0)
      BY <1>0
    <3> QED BY <3>1 DEF UpTo
  <2> QED BY <2>1, FS_EmptySet
<1>5. UpTo(A, N) = A
  BY <1>0 DEF UpTo
<1>6. ASSUME NEW i \in 1..N, i \notin A
      PROVE  UpTo(A, i) = UpTo(A, i - 1)
  <2>1. i \in Int /\ \A j \in A : j # i
    BY <1>6
  <2>2. \A j \in A : j <= i <=> j <= i - 1
    BY <1>0, <2>1
  <2> QED BY <2>2 DEF UpTo
<1>7. ASSUME NEW i \in A
      PROVE  Cardinality(UpTo(A, i)) = Cardinality(UpTo(A, i - 1)) + 1
  <2>1. UpTo(A, i) = UpTo(A, i - 1) \cup {i} /\ i \notin UpTo(A, i - 1)
    <3>1. \A j \in A : (j <= i <=> j <= i - 1 \/ j = i) /\ ~(i <= i - 1)
      BY <1>0
    <3> QED BY <3>1 DEF UpTo
  <2>2. IsFiniteSet(UpTo(A, i - 1))
    BY <1>0, <1>3
  <2> QED BY <2>1, <2>2, FS_AddElement
<1> QED BY <1>2, <1>3, <1>4, <1>5, <1>6, <1>7

\* Ascending enumerates its set.
LEMMA AscendingSound ==
  ASSUME NEW N \in Nat, NEW A \in SUBSET (1..N)
  PROVE  /\ Cardinality(A) \in Nat /\ DOMAIN S!Ascending(A) = 1..Cardinality(A)
         /\ S!Range(S!Ascending(A)) = A
<1> DEFINE C(i) == Cardinality(UpTo(A, i))
           D(i) == S!Cardinality({j \in A : j <= i})
           n == Cardinality(A)
<1>0. \A j \in A : j \in Int /\ 1 <= j /\ j <= N
  OBVIOUS
<1>a. n \in Nat /\ C(0) = 0 /\ C(N) = n /\ \A i \in 0..N : C(i) \in 0..n
  BY UpToCounts
<1>b. \A i \in 1..N : IF i \in A THEN C(i) = C(i - 1) + 1 ELSE C(i) = C(i - 1)
  BY UpToCounts
<1>c. \A i, j \in 0..N : UpTo(A, i) \subseteq UpTo(A, j) => C(i) <= C(j)
  BY UpToCounts, FS_Subset
<1>d. S!Ascending(A) = [k \in 1..S!Cardinality(A) |-> CHOOSE i \in A : D(i) = k]
  BY DEF S!Ascending
<1>e. S!Cardinality(A) = n /\ \A i : D(i) = C(i)
  BY SameCardinality DEF UpTo
<1> HIDE DEF C, D, n
<1>1. ASSUME NEW k \in 1..n
      PROVE  \E i \in A : C(i) = k
  <2> DEFINE T == {i \in 0..N : C(i) >= k}
  <2>1. N \in T /\ T \in SUBSET Nat
    BY <1>a
  <2>2. PICK m \in T : \A i \in T : m <= i
    <3> HIDE DEF T
    <3> QED BY <2>1, LeastNumber
  <2>3. m \in 1..N /\ C(m) >= k
    BY <1>a
  <2>4. m - 1 \in 0..N /\ ~ (C(m - 1) >= k)
    <3>1. m - 1 \in 0..N /\ ~ (m <= m - 1)
      BY <2>3
    <3>2. m - 1 \notin T
      BY <2>2, <3>1
    <3> QED BY <3>1, <3>2
  <2>5. C(m) \in Nat /\ C(m - 1) \in Nat
    BY <1>a, <2>3, <2>4
  <2>6. m \in A /\ C(m) = C(m - 1) + 1
    BY <1>b, <2>3, <2>4, <2>5
  <2> QED BY <2>3, <2>4, <2>5, <2>6
<1>2. ASSUME NEW i \in A PROVE C(i) \in 1..n
  <2>1. i \in 1..N /\ i \in 0..N /\ i - 1 \in 0..N
    BY <1>0
  <2>2. C(i) \in 0..n /\ C(i - 1) \in 0..n /\ C(i) = C(i - 1) + 1
    BY <1>a, <1>b, <2>1
  <2> QED BY <1>a, <2>2
<1>3. ASSUME NEW i \in A, NEW j \in A, i < j
      PROVE  C(i) < C(j)
  <2>1. i \in 0..N /\ j \in 1..N /\ j - 1 \in 0..N
    BY <1>0
  <2>2. UpTo(A, i) \subseteq UpTo(A, j - 1)
    <3>1. \A a \in A : a <= i => a <= j - 1
      BY <1>0, <1>3, <2>1
    <3> QED BY <3>1 DEF UpTo
  <2>3. C(i) <= C(j - 1) /\ C(j) = C(j - 1) + 1
    BY <1>b, <1>c, <2>1, <2>2
  <2>4. C(i) \in Nat /\ C(j - 1) \in Nat
    BY <1>a, <2>1
  <2> QED BY <2>3, <2>4
<1>4. ASSUME NEW i \in A, NEW j \in A, C(i) = C(j)
      PROVE  i = j
  <2>1. C(i) \in Nat
    BY <1>2
  <2>2. i \in Int /\ j \in Int
    BY <1>0
  <2> QED BY <1>3, <1>4, <2>1, <2>2
<1>5. DOMAIN S!Ascending(A) = 1..n
  BY <1>d, <1>e
<1>6. ASSUME NEW k \in 1..n
      PROVE  S!Ascending(A)[k] \in A /\ C(S!Ascending(A)[k]) = k
  <2>1. \E i \in A : D(i) = k
    BY <1>1, <1>e
  <2>2. S!Ascending(A)[k] = CHOOSE i \in A : D(i) = k
    BY <1>d, <1>e
  <2> QED BY <1>e, <2>1, <2>2
<1>7. ASSUME NEW i \in A PROVE S!Ascending(A)[C(i)] = i
  BY <1>2, <1>4, <1>6
<1>8. S!Range(S!Ascending(A)) = A
  BY <1>2, <1>5, <1>6, <1>7 DEF S!Range
<1> QED BY <1>a, <1>5, <1>8 DEF n

LEMMA SequenceOf ==
  ASSUME NEW f, NEW n \in Nat, DOMAIN f = 1..n, f = [k \in 1..n |-> f[k]]
  PROVE  f \in Seq(S!Range(f)) /\ Len(f) = n
BY DEF S!Range

\* Kept has the members of the sequence that are in the set.
LEMMA KeptSound ==
  ASSUME NEW n \in Nat, NEW q, DOMAIN q = 1..n, NEW X
  PROVE  /\ Len(S!Kept(q, X)) \in Nat /\ DOMAIN S!Kept(q, X) = 1..Len(S!Kept(q, X))
         /\ \A k \in DOMAIN S!Kept(q, X) : S!Kept(q, X)[k] \in X
         /\ \A i \in 1..n : q[i] \in X => \E k \in DOMAIN S!Kept(q, X) : S!Kept(q, X)[k] = q[i]
         /\ \A k \in DOMAIN S!Kept(q, X) : \E i \in 1..n : S!Kept(q, X)[k] = q[i]
<1> DEFINE A == {i \in 1..n : q[i] \in X}
           at == S!Ascending(A)
           c == Cardinality(A)
<1>1. c \in Nat /\ DOMAIN at = 1..c /\ S!Range(at) = A
  BY AscendingSound
<1>2. S!Kept(q, X) = [k \in 1..c |-> q[at[k]]]
  BY <1>1 DEF S!Kept
<1> HIDE DEF c, at
<1>3. Len(S!Kept(q, X)) = c
  BY <1>1, <1>2, SequenceOf
<1>4. \A k \in 1..c : at[k] \in A
  BY <1>1 DEF S!Range
<1>5. \A i \in A : \E k \in 1..c : at[k] = i
  BY <1>1 DEF S!Range
<1>6. DOMAIN S!Kept(q, X) = 1..c /\ \A k \in 1..c : S!Kept(q, X)[k] = q[at[k]]
  BY <1>2
<1>7. \A i \in 1..n : q[i] \in X => i \in A
  OBVIOUS
<1>8. \A i \in A : q[i] \in X /\ i \in 1..n
  OBVIOUS
<1> HIDE DEF A
<1> QED BY <1>1, <1>3, <1>4, <1>5, <1>6, <1>7, <1>8

\* The next id of a table is above every id in use.
LEMMA NextIsFree ==
  ASSUME NEW n \in Nat, NEW f, DOMAIN f = 1..n
  PROVE  /\ S!NextId(f) \in Nat \ {0}
         /\ \A i \in S!Used(f) : i < S!NextId(f)
<1> DEFINE U == S!Used(f)
<1>1. U \subseteq 1..n
  BY DEF S!Used
<1>2. CASE U = {}
  BY <1>2 DEF S!NextId
<1>3. CASE U # {}
  <2> DEFINE T == {m \in 0..n : \A u \in U : u <= m}
  <2>1. n \in T
    BY <1>1
  <2>2. PICK m \in T : \A k \in T : m <= k
    <3>1. T # {} /\ \A k \in T : k \in 0..n
      BY <2>1
    <3> HIDE DEF T
    <3>2. \A k \in T : k \in Nat
      BY <3>1
    <3>3. T \in SUBSET Nat
      BY <3>2
    <3> QED BY <3>1, <3>3, LeastNumber
  <2>3. m \in U
    <3> SUFFICES ASSUME m \notin U PROVE FALSE
      OBVIOUS
    <3>1. \A u \in U : u <= m - 1 /\ u \in 1..n
      BY <1>1
    <3>2. m - 1 \in T
      BY <1>3, <3>1
    <3> QED BY <2>2, <3>2
  <2> HIDE DEF U
  <2>4. \E x \in U : \A y \in U : x >= y
    BY <1>1, <2>3
  <2>5. S!Max(U) \in U /\ \A y \in U : S!Max(U) >= y
    BY <2>4 DEF S!Max
  <2>6. S!NextId(f) = S!Max(U) + 1
    BY <1>3 DEF S!NextId, U
  <2> QED BY <1>1, <2>5, <2>6 DEF U
<1> QED BY <1>2, <1>3

----------------------------------------------------------------------------
(* Steps of the rows and of a task *)

\* Rows stay, with their scan, source, destination and port; a result that is written
\* is the row's own.
RowsStep ==
  /\ DOMAIN result' = DOMAIN result
  /\ \A r \in DOMAIN result :
       IF result[r] = S!NoRow THEN result'[r] = S!NoRow
       ELSE /\ IsRow(result'[r])
            /\ result'[r].scan = result[r].scan /\ result'[r].label = result[r].label
            /\ result'[r].dst = result[r].dst /\ result'[r].port = result[r].port
            /\ \/ result'[r].found = result[r].found
               \/ /\ result'[r].found # S!Pending
                  /\ S!Undisturbed =>
                       result'[r].found.probe = <<result[r].label, result[r].dst, result[r].port>>

LEMMA RowIsThere == ASSUME NEW x, IsRow(x) PROVE x # S!NoRow
<1>1. DOMAIN x = {"scan", "src", "label", "dst", "port", "found"}
  BY DEF IsRow
<1>2. DOMAIN S!NoRow = {"gone"}
  BY DEF S!NoRow
<1> QED BY <1>1, <1>2

LEMMA ScanIsThere == ASSUME NEW x, IsScan(x) PROVE x # S!NoRow
<1>1. DOMAIN x = {"status", "config"}
  BY DEF IsScan
<1>2. DOMAIN S!NoRow = {"gone"}
  BY DEF S!NoRow
<1> QED BY <1>1, <1>2

LEMMA RowsKept ==
  ASSUME RowsStep
  PROVE  /\ S!Used(result') = S!Used(result)
         /\ \A r \in S!Used(result) : /\ IsRow(result'[r])
                                    /\ result'[r].scan = result[r].scan
                                    /\ result'[r].label = result[r].label
         /\ \A s, src : Mine(result', s, src) = Mine(result, s, src)
         /\ \A s, src, w : WorkSound(result, s, src, w) => WorkSound(result', s, src, w)
         /\ S!Undisturbed /\ S!OwnFinding => S!OwnFinding'
<1>1. S!Used(result') = S!Used(result)
  BY RowIsThere DEF RowsStep, S!Used
<1>2. ASSUME NEW r \in S!Used(result)
      PROVE  /\ IsRow(result'[r])
             /\ result'[r].scan = result[r].scan /\ result'[r].label = result[r].label
             /\ result'[r].dst = result[r].dst /\ result'[r].port = result[r].port
             /\ \/ result'[r].found = result[r].found
                \/ /\ result'[r].found # S!Pending
                   /\ S!Undisturbed =>
                        result'[r].found.probe = <<result[r].label, result[r].dst, result[r].port>>
  BY DEF RowsStep, S!Used
<1>3. ASSUME NEW s, NEW src PROVE Mine(result', s, src) = Mine(result, s, src)
  BY <1>1, <1>2 DEF Mine
<1>4. ASSUME NEW s, NEW src, NEW w, WorkSound(result, s, src, w)
      PROVE  WorkSound(result', s, src, w)
  <2>1. \A r \in Mine(result, s, src) : r \in S!Used(result)
    BY DEF Mine
  <2>2. \A i \in DOMAIN w.params :
          /\ w.params[i].id \in Mine(result', s, src)
          /\ w.params[i].dst = result'[w.params[i].id].dst
          /\ w.params[i].port = result'[w.params[i].id].port
    BY <1>2, <1>3, <1>4, <2>1 DEF WorkSound, ParamsOwn
  <2>3. w.pc = "end" =>
          \A r \in Mine(result', s, src) :
            result'[r].found # S!Pending \/ \E i \in w.seen : w.params[i].id = r
    BY <1>2, <1>3, <1>4, <2>1 DEF WorkSound
  <2> QED BY <1>3, <1>4, <2>2, <2>3 DEF WorkSound, ParamsOwn
<1>5. ASSUME S!Undisturbed, S!OwnFinding PROVE S!OwnFinding'
  <2> SUFFICES ASSUME NEW r \in S!Used(result'), result'[r].found # S!Pending
               PROVE  result'[r].found.probe = <<result'[r].label, result'[r].dst, result'[r].port>>
    BY DEF S!OwnFinding
  <2>1. r \in S!Used(result)
    BY <1>1
  <2> QED BY <1>2, <1>5, <2>1 DEF S!OwnFinding
<1> QED BY <1>1, <1>2, <1>3, <1>4, <1>5

\* The indices of the tasks.
LEMMA TasksAre ==
  ASSUME Shape
  PROVE  Len(task) \in Nat /\ DOMAIN task = 1..Len(task) /\ task = [t \in 1..Len(task) |-> task[t]]
BY DEF Shape

\* One task becomes x, with the scan it had.
TaskStep(t, x) ==
  /\ IsTask(x) /\ x.scan = task[t].scan /\ x.orphan = task[t].orphan
  /\ x.pc \in {"new", "checks", "done", "reaped", "dead"}
  /\ \A src \in DOMAIN x.work :
       IsWork(x.work[src]) /\ x.work[src].pc \in {"queued", "checking", "end", "raised"}
  /\ task' = [task EXCEPT ![t] = x]

LEMMA TaskKept ==
  ASSUME Shape, NEW t \in DOMAIN task, NEW x, TaskStep(t, x)
  PROVE  /\ task' \in Seq(S!Range(task')) /\ Len(task') = Len(task) /\ DOMAIN task' = DOMAIN task
         /\ task'[t] = x /\ \A u \in DOMAIN task : u # t => task'[u] = task[u]
         /\ \A u \in DOMAIN task : task'[u].scan = task[u].scan
         /\ S!Undisturbed' => S!Undisturbed
<1>1. DOMAIN task' = DOMAIN task /\ task'[t] = x /\ \A u \in DOMAIN task : u # t => task'[u] = task[u]
  BY DEF TaskStep
<1>2. task' = [u \in 1..Len(task) |-> task'[u]]
  BY TasksAre DEF TaskStep
<1>3. task' \in Seq(S!Range(task')) /\ Len(task') = Len(task)
  BY <1>1, <1>2, TasksAre, SequenceOf
<1>4. \A u \in DOMAIN task : task'[u].scan = task[u].scan /\ task'[u].orphan = task[u].orphan
  BY <1>1 DEF TaskStep
<1> QED BY <1>1, <1>3, <1>4 DEF S!Undisturbed

LEMMA TaskShape ==
  ASSUME Shape, NEW t \in DOMAIN task, NEW x, TaskStep(t, x)
  PROVE  \A u \in DOMAIN task' :
           /\ IsTask(task'[u]) /\ task'[u].scan \in 1..MaxScans /\ task'[u].orphan \in BOOLEAN
           /\ task'[u].pc \in {"new", "checks", "done", "reaped", "dead"}
           /\ \A z \in DOMAIN task'[u].work :
                /\ IsWork(task'[u].work[z])
                /\ task'[u].work[z].pc \in {"queued", "checking", "end", "raised"}
<1> SUFFICES ASSUME NEW u \in DOMAIN task
             PROVE  /\ IsTask(task'[u]) /\ task'[u].scan \in 1..MaxScans /\ task'[u].orphan \in BOOLEAN
                    /\ task'[u].pc \in {"new", "checks", "done", "reaped", "dead"}
                    /\ \A z \in DOMAIN task'[u].work :
                         /\ IsWork(task'[u].work[z])
                         /\ task'[u].work[z].pc \in {"queued", "checking", "end", "raised"}
  BY TaskKept
<1>1. task'[t] = x /\ (u # t => task'[u] = task[u])
  BY TaskKept
<1>2. CASE u = t
  <2>1. x.scan \in 1..MaxScans /\ x.orphan \in BOOLEAN
    BY DEF Shape, TaskStep
  <2> QED BY <1>1, <1>2, <2>1 DEF TaskStep
<1>3. CASE u # t
  BY <1>1, <1>3 DEF Shape
<1> QED BY <1>2, <1>3

\* A step of a source: its rows and what its task knows of them.
LEMMA SourceStepKeeps ==
  ASSUME S!ScansAssumption, ScansInv, NEW t \in DOMAIN task, task[t].pc = "checks",
         NEW src \in DOMAIN task[t].work, NEW w, IsWork(w),
         w.pc \in {"queued", "checking", "end", "raised"},
         task' = [task EXCEPT ![t].work[src] = w], RowsStep,
         \A r \in S!Used(result) : result'[r].src = result[r].src,
         S!Undisturbed => WorkSound(result', task[t].scan, src, w),
         UNCHANGED <<scan, hosts, ports, active, edits>>, faults' \in Nat
  PROVE  ScansInv'
<1> DEFINE x == [scan |-> task[t].scan, pc |-> "checks", work |-> [task[t].work EXCEPT ![src] = w],
                 orphan |-> task[t].orphan]
<1>1. Shape /\ Labels /\ (S!Undisturbed => Strong)
  BY DEF ScansInv
<1>2. IsTask(task[t])
  BY <1>1 DEF Shape
<1>3. task' = [task EXCEPT ![t] = x]
  <2>1. task'[t] = [task[t] EXCEPT !.work[src] = w]
    OBVIOUS
  <2>2. task'[t] = x
    BY <1>2, <2>1 DEF IsTask
  <2> HIDE DEF x
  <2> QED BY <2>2
<1>4. /\ x.scan = task[t].scan /\ x.orphan = task[t].orphan /\ x.pc = "checks" /\ IsTask(x)
      /\ DOMAIN x.work = DOMAIN task[t].work /\ x.work[src] = w
      /\ \A z \in DOMAIN task[t].work : z # src => x.work[z] = task[t].work[z]
  BY DEF IsTask
<1> HIDE DEF x
<1>5. TaskStep(t, x)
  <2>1. \A z \in DOMAIN x.work :
          IsWork(x.work[z]) /\ x.work[z].pc \in {"queued", "checking", "end", "raised"}
    <3> SUFFICES ASSUME NEW z \in DOMAIN task[t].work
                 PROVE  IsWork(x.work[z]) /\ x.work[z].pc \in {"queued", "checking", "end", "raised"}
      BY <1>4
    <3>1. CASE z = src
      BY <1>4, <3>1
    <3>2. CASE z # src
      BY <1>1, <1>4, <3>2 DEF Shape
    <3> QED BY <3>1, <3>2
  <2> QED BY <1>3, <1>4, <2>1 DEF TaskStep
<1>6. Shape'
  <2>1. S!Used(result') = S!Used(result) /\ S!Used(scan') = S!Used(scan)
    BY RowsKept
  <2>2. \A r \in S!Used(result') : IsRow(result'[r]) /\ result'[r].scan \in S!Used(scan')
    BY <1>1, <2>1, RowsKept DEF Shape
  <2>3. DOMAIN result' = 1..MaxRows
    BY <1>1 DEF RowsStep, Shape
  <2>4. \A u \in DOMAIN task' :
          /\ IsTask(task'[u]) /\ task'[u].scan \in 1..MaxScans /\ task'[u].orphan \in BOOLEAN
          /\ task'[u].pc \in {"new", "checks", "done", "reaped", "dead"}
          /\ \A z \in DOMAIN task'[u].work :
               /\ IsWork(task'[u].work[z])
               /\ task'[u].work[z].pc \in {"queued", "checking", "end", "raised"}
    BY <1>1, <1>5, TaskShape
  <2> QED BY <1>1, <1>5, <2>1, <2>2, <2>3, <2>4, TaskKept DEF Shape
<1>7. Labels'
  BY <1>1, RowsKept DEF Labels
<1>8. ASSUME S!Undisturbed' PROVE Strong'
  <2>1. S!Undisturbed /\ Strong
    BY <1>1, <1>5, <1>8, TaskKept
  <2>2. \A u \in DOMAIN task : /\ task'[u].scan = task[u].scan /\ S!Alive(u)' <=> S!Alive(u)
                               /\ u # t => task'[u] = task[u]
    BY <1>1, <1>4, <1>5, TaskKept DEF S!Alive
  <2>3. DOMAIN task' = DOMAIN task /\ task'[t] = x /\ S!Alive(t)
    BY <1>1, <1>5, TaskKept DEF S!Alive
  <2>4. Owners' /\ RegistryIs'
    BY <2>1, <2>2, <2>3 DEF Strong, Owners, RegistryIs, S!Used
  <2>5. S!OwnFinding'
    BY <2>1, RowsKept DEF Strong
  <2>6. TasksSound'
    <3> SUFFICES ASSUME NEW u \in DOMAIN task, S!Alive(u), NEW z \in DOMAIN task'[u].work
                 PROVE  WorkSound(result', task[u].scan, z, task'[u].work[z])
      BY <2>2, <2>3 DEF TasksSound
    <3>1. CASE u = t /\ z = src
      BY <1>4, <2>1, <2>3, <3>1
    <3>2. CASE u = t /\ z # src
      <4>1. task'[u].work[z] = task[t].work[z] /\ z \in DOMAIN task[t].work
        BY <1>4, <2>3, <3>2
      <4>2. WorkSound(result, task[t].scan, z, task[t].work[z])
        BY <2>1, <2>3, <4>1 DEF Strong, TasksSound
      <4> QED BY <3>2, <4>1, <4>2, RowsKept
    <3>3. CASE u # t
      <4>1. task'[u] = task[u]
        BY <2>2, <3>3
      <4>2. WorkSound(result, task[u].scan, z, task[u].work[z])
        BY <2>1, <4>1 DEF Strong, TasksSound
      <4> QED BY <4>1, <4>2, RowsKept
    <3> QED BY <3>1, <3>2, <3>3
  <2>7. DoneSound'
    BY <1>4, <2>1, <2>2, <2>3 DEF Strong, DoneSound
  <2> QED BY <2>4, <2>5, <2>6, <2>7 DEF Strong
<1> QED BY <1>6, <1>7, <1>8 DEF ScansInv

\* A step of _run: the scan's status and its task.
LEMMA RunStepKeeps ==
  ASSUME S!ScansAssumption, ScansInv, NEW t \in DOMAIN task, S!Alive(t), NEW x, TaskStep(t, x),
         x.pc \in {"checks", "done"},
         DOMAIN scan' = DOMAIN scan,
         \A s \in DOMAIN scan : s # task[t].scan \/ scan[s] = S!NoRow => scan'[s] = scan[s],
         scan[x.scan] # S!NoRow =>
           /\ IsScan(scan'[x.scan]) /\ scan'[x.scan].config = scan[x.scan].config
           /\ scan'[x.scan].status \in {"pending", "running", "completed", "failed"},
         S!Undisturbed => \A src \in DOMAIN x.work : WorkSound(result, x.scan, src, x.work[src]),
         S!Undisturbed /\ x.pc = "done" /\ scan'[x.scan].status = "completed" =>
           \A src \in DOMAIN x.work : x.work[src].pc \in {"end", "raised"},
         UNCHANGED <<result, hosts, ports, active, edits>>, faults' \in Nat
  PROVE  ScansInv'
<1>1. Shape /\ Labels /\ (S!Undisturbed => Strong)
  BY DEF ScansInv
<1>2. x.scan = task[t].scan /\ x.scan \in DOMAIN scan
  BY <1>1 DEF TaskStep, Shape
<1>3. S!Used(scan') = S!Used(scan)
  BY <1>2, ScanIsThere DEF S!Used
<1>4. S!Used(result') = S!Used(result)
  OBVIOUS
<1>5. Shape'
  <2>1. \A s \in S!Used(scan') :
          /\ IsScan(scan'[s]) /\ scan'[s].config \in Requests
          /\ scan'[s].status \in {"pending", "running", "completed", "failed"}
    <3> SUFFICES ASSUME NEW s \in S!Used(scan)
                 PROVE  /\ IsScan(scan'[s]) /\ scan'[s].config \in Requests
                        /\ scan'[s].status \in {"pending", "running", "completed", "failed"}
      BY <1>3
    <3>1. s \in DOMAIN scan /\ scan[s] # S!NoRow
      BY DEF S!Used
    <3>2. CASE s = x.scan
      BY <1>1, <3>1, <3>2 DEF Shape
    <3>3. CASE s # x.scan
      BY <1>1, <1>2, <3>1, <3>3 DEF Shape
    <3> QED BY <3>2, <3>3
  <2>2. \A u \in DOMAIN task' :
          /\ IsTask(task'[u]) /\ task'[u].scan \in 1..MaxScans /\ task'[u].orphan \in BOOLEAN
          /\ task'[u].pc \in {"new", "checks", "done", "reaped", "dead"}
          /\ \A z \in DOMAIN task'[u].work :
               /\ IsWork(task'[u].work[z])
               /\ task'[u].work[z].pc \in {"queued", "checking", "end", "raised"}
    BY <1>1, TaskShape
  <2> QED BY <1>1, <1>3, <2>1, <2>2, TaskKept DEF Shape
<1>6. Labels'
  BY <1>1 DEF Labels, S!Used
<1>7. ASSUME S!Undisturbed' PROVE Strong'
  <2>1. S!Undisturbed /\ Strong
    BY <1>1, <1>7, TaskKept
  <2>2. DOMAIN task' = DOMAIN task /\ task'[t] = x /\ \A u \in DOMAIN task : u # t => task'[u] = task[u]
    BY <1>1, TaskKept
  <2>3. \A u \in DOMAIN task : task'[u].scan = task[u].scan /\ (S!Alive(u)' <=> S!Alive(u))
    BY <1>2, <2>2 DEF S!Alive
  <2>4. Owners' /\ RegistryIs'
    <3>1. Owners'
      BY <1>3, <2>1, <2>2, <2>3 DEF Strong, Owners
    <3>2. RegistryIs'
      <4>1. RegistryIs /\ active' = active
        BY <2>1 DEF Strong
      <4>2. \A s : (\E u \in DOMAIN task' : S!Alive(u)' /\ task'[u].scan = s)
                     <=> \E u \in DOMAIN task : S!Alive(u) /\ task[u].scan = s
        BY <2>2, <2>3
      <4> QED BY <4>1, <4>2 DEF RegistryIs
    <3> QED BY <3>1, <3>2
  <2>5. S!OwnFinding'
    BY <2>1 DEF Strong, S!OwnFinding, S!Used
  <2>6. TasksSound'
    <3> SUFFICES ASSUME NEW u \in DOMAIN task, S!Alive(u), NEW z \in DOMAIN task'[u].work
                 PROVE  WorkSound(result, task[u].scan, z, task'[u].work[z])
      BY <2>2, <2>3 DEF TasksSound
    <3>1. CASE u = t
      BY <1>2, <2>1, <2>2, <3>1
    <3>2. CASE u # t
      BY <2>1, <2>2, <3>2 DEF Strong, TasksSound
    <3> QED BY <3>1, <3>2
  <2>7. DoneSound'
    <3> SUFFICES ASSUME NEW u \in DOMAIN task, task'[u].pc = "done",
                        scan'[task[u].scan].status = "completed"
                 PROVE  \A z \in DOMAIN task'[u].work : task'[u].work[z].pc \in {"end", "raised"}
      BY <2>2, <2>3 DEF DoneSound
    <3>1. CASE u = t
      BY <1>2, <2>1, <2>2, <3>1
    <3>2. CASE u # t
      <4>1. task'[u] = task[u] /\ S!Alive(u)
        BY <2>2, <3>2 DEF S!Alive
      <4>2. task[u].scan # task[t].scan /\ task[u].scan \in DOMAIN scan
        BY <2>1, <3>2, <4>1 DEF Strong, Owners, S!Used
      <4>3. scan'[task[u].scan] = scan[task[u].scan]
        BY <4>2
      <4> QED BY <2>1, <4>1, <4>3 DEF Strong, DoneSound
    <3> QED BY <3>1, <3>2
  <2> QED BY <2>4, <2>5, <2>6, <2>7 DEF Strong
<1> QED BY <1>5, <1>6, <1>7 DEF ScansInv

----------------------------------------------------------------------------
(* The sources of a task *)

\* Writing findings of the rows' own checks.
FoundOwn(found, is) ==
  /\ \A i \in is : found[i].what # S!Pending
  /\ S!Undisturbed => \A i \in is : found[i].id \in S!Used(result) =>
       found[i].what.probe = <<result[found[i].id].label, result[found[i].id].dst,
                               result[found[i].id].port>>

LEMMA WrittenStep ==
  ASSUME Shape, NEW found, NEW is, result' = S!Written(found, is), FoundOwn(found, is)
  PROVE  /\ RowsStep /\ \A r \in S!Used(result) : result'[r].src = result[r].src
         /\ \A i \in is : found[i].id \in S!Used(result) => result'[found[i].id].found # S!Pending
<1>0. /\ \A i \in is : found[i].what # S!Pending
      /\ S!Undisturbed => \A i \in is : found[i].id \in S!Used(result) =>
           found[i].what.probe = <<result[found[i].id].label, result[found[i].id].dst,
                                   result[found[i].id].port>>
  BY DEF FoundOwn
<1> DEFINE at(r) == CHOOSE i \in is : found[i].id = r
<1>1. ASSUME NEW r \in DOMAIN result, result[r] # S!NoRow, NEW j \in is, found[j].id = r
      PROVE  /\ at(r) \in is /\ found[at(r)].id = r
             /\ result'[r] = [result[r] EXCEPT !.found = found[at(r)].what]
  <2>1. at(r) \in is /\ found[at(r)].id = r
    BY <1>1
  <2> HIDE DEF at
  <2>2. result' = [x \in DOMAIN result |->
                     IF result[x] # S!NoRow /\ x \in {found[i].id : i \in is}
                       THEN [result[x] EXCEPT !.found = found[at(x)].what] ELSE result[x]]
    BY DEF S!Written, at
  <2>3. r \in {found[i].id : i \in is}
    BY <1>1
  <2> QED BY <1>1, <2>1, <2>2, <2>3
<1>2. \A r \in DOMAIN result :
        result[r] = S!NoRow \/ (\A i \in is : found[i].id # r) => result'[r] = result[r]
  BY DEF S!Written
<1>3. DOMAIN result' = DOMAIN result
  BY DEF S!Written
<1>4. \A r \in DOMAIN result : result[r] # S!NoRow => IsRow(result[r]) /\ r \in S!Used(result)
  BY DEF Shape, S!Used
<1> HIDE DEF at
<1>5. ASSUME NEW r \in DOMAIN result, result[r] # S!NoRow, NEW j \in is, found[j].id = r
      PROVE  /\ IsRow(result'[r]) /\ result'[r].found = found[at(r)].what
             /\ result'[r].scan = result[r].scan /\ result'[r].label = result[r].label
             /\ result'[r].dst = result[r].dst /\ result'[r].port = result[r].port
             /\ result'[r].src = result[r].src
  <2>1. IsRow(result[r])
    BY <1>4, <1>5
  <2>2. result'[r] = [scan |-> result[r].scan, src |-> result[r].src, label |-> result[r].label,
                      dst |-> result[r].dst, port |-> result[r].port, found |-> found[at(r)].what]
    BY <1>1, <1>5, <2>1 DEF IsRow
  <2> QED BY <2>2 DEF IsRow
<1>6. ASSUME NEW r \in DOMAIN result, result[r] # S!NoRow, NEW j \in is, found[j].id = r
      PROVE  /\ result'[r].found # S!Pending
             /\ S!Undisturbed =>
                  result'[r].found.probe = <<result[r].label, result[r].dst, result[r].port>>
  <2>1. at(r) \in is /\ found[at(r)].id = r /\ r \in S!Used(result)
    BY <1>1, <1>4, <1>6
  <2>2. result'[r].found = found[at(r)].what
    BY <1>5, <1>6
  <2> QED BY <1>0, <2>1, <2>2
<1>7. RowsStep
  <2> SUFFICES ASSUME NEW r \in DOMAIN result, result[r] # S!NoRow
               PROVE  /\ IsRow(result'[r])
                      /\ result'[r].scan = result[r].scan /\ result'[r].label = result[r].label
                      /\ result'[r].dst = result[r].dst /\ result'[r].port = result[r].port
                      /\ \/ result'[r].found = result[r].found
                         \/ /\ result'[r].found # S!Pending
                            /\ S!Undisturbed => result'[r].found.probe =
                                 <<result[r].label, result[r].dst, result[r].port>>
    BY <1>2, <1>3 DEF RowsStep
  <2>1. CASE \E j \in is : found[j].id = r
    BY <1>5, <1>6, <2>1
  <2>2. CASE \A j \in is : found[j].id # r
    BY <1>2, <1>4, <2>2
  <2> QED BY <2>1, <2>2
<1>8. \A r \in S!Used(result) : result'[r].src = result[r].src
  <2> SUFFICES ASSUME NEW r \in DOMAIN result, result[r] # S!NoRow
               PROVE  result'[r].src = result[r].src
    BY DEF S!Used
  <2> QED BY <1>2, <1>5
<1>9. \A i \in is : found[i].id \in S!Used(result) => result'[found[i].id].found # S!Pending
  BY <1>6 DEF S!Used
<1> QED BY <1>7, <1>8, <1>9

\* Nothing written.
LEMMA RowsStay ==
  ASSUME Shape, UNCHANGED result
  PROVE  RowsStep /\ \A r \in S!Used(result) : result'[r].src = result[r].src
BY DEF Shape, RowsStep, S!Used

\* The parameters of the rows that are still there.
LEMMA ParamsSound ==
  ASSUME NEW n \in Nat, NEW ids, DOMAIN ids = 1..n
  PROVE  /\ Len(S!Params(ids)) \in Nat /\ DOMAIN S!Params(ids) = 1..Len(S!Params(ids))
         /\ \A k \in DOMAIN S!Params(ids) :
              /\ S!Params(ids)[k].id \in S!Used(result) /\ S!Params(ids)[k].id \in S!Range(ids)
              /\ S!Params(ids)[k].dst = result[S!Params(ids)[k].id].dst
              /\ S!Params(ids)[k].port = result[S!Params(ids)[k].id].port
         /\ \A r \in S!Range(ids) : r \in S!Used(result) =>
              \E k \in DOMAIN S!Params(ids) : S!Params(ids)[k].id = r
<1> DEFINE there == S!Kept(ids, S!Used(result))
           m == Len(there)
<1>1. /\ m \in Nat /\ DOMAIN there = 1..m
      /\ \A k \in 1..m : there[k] \in S!Used(result)
      /\ \A i \in 1..n : ids[i] \in S!Used(result) => \E k \in 1..m : there[k] = ids[i]
      /\ \A k \in 1..m : \E i \in 1..n : there[k] = ids[i]
  BY KeptSound
<1>2. S!Params(ids) = [k \in DOMAIN there |-> [id |-> there[k], dst |-> result[there[k]].dst,
                                             port |-> result[there[k]].port]]
  BY DEF S!Params
<1> HIDE DEF there, m
<1>3. /\ DOMAIN S!Params(ids) = 1..m
      /\ \A k \in 1..m : /\ S!Params(ids)[k].id = there[k] /\ S!Params(ids)[k].dst = result[there[k]].dst
                         /\ S!Params(ids)[k].port = result[there[k]].port
  BY <1>1, <1>2
<1>4. Len(S!Params(ids)) = m
  BY <1>1, <1>2, SequenceOf
<1>5. \A k \in 1..m : there[k] \in S!Range(ids)
  BY <1>1 DEF S!Range
<1>6. \A r \in S!Range(ids) : \E i \in 1..n : r = ids[i]
  BY DEF S!Range
<1>7. ASSUME NEW r \in S!Range(ids), r \in S!Used(result)
      PROVE  \E k \in DOMAIN S!Params(ids) : S!Params(ids)[k].id = r
  <2>1. PICK i \in 1..n : r = ids[i]
    BY <1>6
  <2>2. PICK k \in 1..m : there[k] = ids[i]
    BY <1>1, <1>7, <2>1
  <2>3. k \in DOMAIN S!Params(ids) /\ S!Params(ids)[k].id = there[k]
    BY <1>3, <2>2
  <2> QED BY <2>1, <2>2, <2>3
<1>8. ASSUME NEW k \in DOMAIN S!Params(ids)
      PROVE  /\ S!Params(ids)[k].id \in S!Used(result) /\ S!Params(ids)[k].id \in S!Range(ids)
             /\ S!Params(ids)[k].dst = result[S!Params(ids)[k].id].dst
             /\ S!Params(ids)[k].port = result[S!Params(ids)[k].id].port
  <2>1. k \in 1..m
    BY <1>3
  <2>2. there[k] \in S!Used(result)
    BY <1>1, <2>1
  <2> QED BY <1>3, <1>5, <2>1, <2>2
<1> QED BY <1>1, <1>3, <1>4, <1>7, <1>8

\* What a step of a source starts from.
LEMMA AtSource ==
  ASSUME ScansInv, NEW t \in DOMAIN task, NEW src, S!Works(t, src)
  PROVE  /\ Shape /\ task[t].pc = "checks" /\ src \in DOMAIN task[t].work
         /\ IsTask(task[t]) /\ IsWork(task[t].work[src])
         /\ S!Undisturbed => WorkSound(result, task[t].scan, src, task[t].work[src])
<1>1. task[t].pc = "checks" /\ src \in DOMAIN task[t].work
  BY DEF S!Works
<1>2. Shape /\ IsTask(task[t]) /\ IsWork(task[t].work[src])
  BY <1>1 DEF ScansInv, Shape
<1>3. S!Undisturbed => WorkSound(result, task[t].scan, src, task[t].work[src])
  BY <1>1 DEF ScansInv, Strong, TasksSound, S!Alive
<1> QED BY <1>1, <1>2, <1>3

\* The results of a source's own checks.
LEMMA FailuresAre ==
  ASSUME NEW src, NEW params, NEW i \in DOMAIN params
  PROVE  /\ S!Failures(src, params)[i].what # S!Pending
         /\ S!Failures(src, params)[i].id = params[i].id
         /\ S!Failures(src, params)[i].what.probe = <<src, params[i].dst, params[i].port>>
<1>1. S!Failures(src, params)[i] =
        [id |-> params[i].id, what |-> [probe |-> <<src, params[i].dst, params[i].port>>, by |-> "failure"]]
  BY DEF S!Failures, S!Failure
<1>2. S!Failures(src, params)[i].what.by = "failure" /\ S!Pending.by = "nobody"
  BY <1>1 DEF S!Pending
<1> QED BY <1>1, <1>2

LEMMA FailuresOwn ==
  ASSUME NEW src, NEW p, NEW s, S!Undisturbed => ParamsOwn(result, s, src, p),
         NEW is \in SUBSET DOMAIN p
  PROVE  FoundOwn(S!Failures(src, p), is)
<1>1. ASSUME S!Undisturbed, NEW i \in is
      PROVE  S!Failures(src, p)[i].what.probe =
                <<result[S!Failures(src, p)[i].id].label, result[S!Failures(src, p)[i].id].dst,
                  result[S!Failures(src, p)[i].id].port>>
  <2>1. /\ p[i].id \in Mine(result, s, src)
        /\ p[i].dst = result[p[i].id].dst /\ p[i].port = result[p[i].id].port
    BY <1>1 DEF ParamsOwn
  <2>2. result[p[i].id].label = src
    BY <2>1 DEF Mine
  <2>3. S!Failures(src, p)[i].id = p[i].id
    BY FailuresAre
  <2>4. S!Failures(src, p)[i].what.probe = <<src, p[i].dst, p[i].port>>
    BY FailuresAre
  <2> QED BY <2>1, <2>2, <2>3, <2>4
<1> QED BY <1>1, FailuresAre DEF FoundOwn

LEMMA CheckedIs ==
  ASSUME NEW src, NEW p
  PROVE  /\ S!Checked(src, p).what # S!Pending /\ S!Checked(src, p).id = p.id
         /\ S!Checked(src, p).what.probe = <<src, p.dst, p.port>>
<1>1. S!Checked(src, p).what.by = "check" /\ S!Pending.by = "nobody"
  BY DEF S!Checked, S!Pending
<1> QED BY <1>1 DEF S!Checked

LEMMA CheckSourceKeeps ==
  ASSUME S!ScansAssumption, ScansInv, NEW t \in DOMAIN task, NEW src, S!CheckSource(t, src)
  PROVE  ScansInv'
<1> DEFINE v == task[t].work[src]
           p == S!Params(v.ids)
           state == IF p = <<>> THEN "end" ELSE "checking"
<1>1. PICK w : w = [pc |-> state, ids |-> v.ids, params |-> p, next |-> v.next, seen |-> v.seen]
  OBVIOUS
<1>2. /\ Shape /\ task[t].pc = "checks" /\ src \in DOMAIN task[t].work /\ IsTask(task[t])
      /\ IsWork(v) /\ (S!Undisturbed => WorkSound(result, task[t].scan, src, v)) /\ v.pc = "queued"
  BY AtSource DEF S!CheckSource
<1>3. IsWork(w) /\ [[v EXCEPT !.pc = state] EXCEPT !.params = p] = w
  <2> HIDE DEF v, p, state
  <2>1. v = [pc |-> v.pc, ids |-> v.ids, params |-> v.params, next |-> v.next, seen |-> v.seen]
    BY <1>2 DEF IsWork
  <2>a. PICK u : u = [pc |-> state, ids |-> v.ids, params |-> v.params, next |-> v.next, seen |-> v.seen]
    OBVIOUS
  <2>b. [v EXCEPT !.pc = state] = u
    BY <2>1, <2>a
  <2>c. [u EXCEPT !.params = p] = w
    BY <1>1, <2>a
  <2>2. IsWork(w)
    BY <1>1 DEF IsWork
  <2> QED BY <2>2, <2>b, <2>c
<1>4. task' = [task EXCEPT ![t].work[src] = w]
  <2>1. task' = [task EXCEPT ![t].work[src] = [[v EXCEPT !.pc = state] EXCEPT !.params = p]]
    BY <1>2 DEF S!CheckSource
  <2> QED BY <1>3, <2>1
<1>5. RowsStep /\ \A r \in S!Used(result) : result'[r].src = result[r].src
  BY <1>2, RowsStay DEF S!CheckSource
<1>6. w.pc = state /\ w.params = p /\ w.ids = v.ids /\ w.next = v.next /\ w.seen = v.seen
  BY <1>1
<1>7. ASSUME S!Undisturbed PROVE WorkSound(result, task[t].scan, src, w)
  <2> DEFINE mine == Mine(result, task[t].scan, src)
  <2>1. PICK n \in 0..MaxRows : DOMAIN v.ids = 1..n
    BY <1>2, <1>7 DEF WorkSound
  <2>2. S!Range(v.ids) = mine /\ v.next = 1 /\ v.seen = {}
    BY <1>2, <1>7 DEF WorkSound
  <2>3. n \in Nat /\ mine \subseteq S!Used(result)
    BY DEF Mine
  <2>4. /\ Len(p) \in Nat /\ DOMAIN p = 1..Len(p) /\ ParamsOwn(result, task[t].scan, src, p)
        /\ \A r \in mine : \E k \in DOMAIN p : p[k].id = r
    BY <2>1, <2>2, <2>3, ParamsSound DEF ParamsOwn
  <2> HIDE DEF p, v
  <2>5. CASE p = <<>>
    <3>1. DOMAIN p = {}
      BY <2>5
    <3>2. mine = {}
      BY <2>4, <3>1
    <3> QED BY <1>6, <2>2, <2>4, <2>5, <3>1, <3>2 DEF WorkSound
  <2>6. CASE p # <<>>
    <3>1. 1 \in DOMAIN p
      <4> SUFFICES ASSUME Len(p) = 0 PROVE p = <<>>
        BY <2>4, <2>6
      <4>1. p = [k \in DOMAIN p |-> p[k]]
        BY DEF p, S!Params
      <4> QED BY <2>4, <4>1
    <3> QED BY <1>6, <2>2, <2>4, <2>6, <3>1 DEF WorkSound
  <2> QED BY <2>5, <2>6
<1>8. WorkSound(result, task[t].scan, src, w) => WorkSound(result', task[t].scan, src, w)
  BY <1>5, RowsKept
<1>9. w.pc \in {"queued", "checking", "end", "raised"}
  BY <1>6
<1>10. UNCHANGED <<scan, hosts, ports, active, edits>> /\ faults' \in Nat
  BY <1>2 DEF S!CheckSource, Shape
<1> HIDE DEF v, p, state
<1> QED BY <1>2, <1>3, <1>4, <1>5, <1>7, <1>8, <1>9, <1>10, SourceStepKeeps

LEMMA SourceRefusedKeeps ==
  ASSUME S!ScansAssumption, ScansInv, NEW t \in DOMAIN task, NEW src, S!SourceRefused(t, src)
  PROVE  ScansInv'
<1> DEFINE v == task[t].work[src]
           p == S!Params(v.ids)
<1>1. PICK w : w = [pc |-> "end", ids |-> v.ids, params |-> v.params, next |-> v.next, seen |-> v.seen]
  OBVIOUS
<1>2. /\ Shape /\ task[t].pc = "checks" /\ src \in DOMAIN task[t].work /\ IsTask(task[t])
      /\ IsWork(v) /\ (S!Undisturbed => WorkSound(result, task[t].scan, src, v)) /\ v.pc = "queued"
  BY AtSource DEF S!SourceRefused
<1>3. IsWork(w) /\ [v EXCEPT !.pc = "end"] = w
  <2> HIDE DEF v
  <2>1. [v EXCEPT !.pc = "end"] = w
    BY <1>1, <1>2 DEF IsWork
  <2>2. IsWork(w)
    BY <1>1 DEF IsWork
  <2> QED BY <2>1, <2>2
<1>4. task' = [task EXCEPT ![t].work[src] = w]
  BY <1>2, <1>3 DEF S!SourceRefused
<1>a. ASSUME S!Undisturbed
      PROVE  /\ S!Range(v.ids) = Mine(result, task[t].scan, src)
             /\ ParamsOwn(result, task[t].scan, src, p)
             /\ \A r \in Mine(result, task[t].scan, src) : \E k \in DOMAIN p : p[k].id = r
  <2>1. PICK n \in 0..MaxRows : DOMAIN v.ids = 1..n
    BY <1>2, <1>a DEF WorkSound
  <2>2. S!Range(v.ids) = Mine(result, task[t].scan, src)
    BY <1>2, <1>a DEF WorkSound
  <2>3. n \in Nat /\ Mine(result, task[t].scan, src) \subseteq S!Used(result)
    BY DEF Mine
  <2> QED BY <2>1, <2>2, <2>3, ParamsSound DEF ParamsOwn
<1>b. result' = S!Written(S!Failures(src, p), DOMAIN p)
  BY DEF S!SourceRefused
<1> HIDE DEF p
<1>c. \A r \in Mine(result, task[t].scan, src) : result[r].label = src /\ r \in S!Used(result)
  BY DEF Mine
<1>d. FoundOwn(S!Failures(src, p), DOMAIN p)
  BY <1>a, FailuresOwn
<1>5. /\ RowsStep /\ \A r \in S!Used(result) : result'[r].src = result[r].src
      /\ \A i \in DOMAIN p : S!Failures(src, p)[i].id \in S!Used(result) =>
           result'[S!Failures(src, p)[i].id].found # S!Pending
  BY <1>2, <1>b, <1>d, WrittenStep
<1>6. w.pc = "end" /\ w.params = v.params /\ w.ids = v.ids
  BY <1>1
<1>7. ASSUME S!Undisturbed PROVE WorkSound(result', task[t].scan, src, w)
  <2>1. WorkSound(result', task[t].scan, src, v)
    BY <1>2, <1>5, <1>7, RowsKept
  <2>2. Mine(result', task[t].scan, src) = Mine(result, task[t].scan, src)
    BY <1>5, RowsKept
  <2>3. ASSUME NEW r \in Mine(result, task[t].scan, src) PROVE result'[r].found # S!Pending
    <3>1. PICK k \in DOMAIN p : p[k].id = r
      BY <1>7, <1>a
    <3>2. S!Failures(src, p)[k].id = r
      BY <3>1, FailuresAre
    <3> QED BY <1>5, <1>c, <3>2
  <2> QED BY <1>6, <2>1, <2>2, <2>3 DEF WorkSound
<1>10. UNCHANGED <<scan, hosts, ports, active, edits>> /\ faults' \in Nat
  BY <1>2 DEF S!SourceRefused, Shape
<1> HIDE DEF v
<1> QED BY <1>2, <1>3, <1>4, <1>5, <1>6, <1>7, <1>10, SourceStepKeeps

LEMMA ProbeKeeps ==
  ASSUME S!ScansAssumption, ScansInv, NEW t \in DOMAIN task, NEW src, S!Probe(t, src)
  PROVE  ScansInv'
<1> DEFINE v == task[t].work[src]
           p == v.params
           state == IF v.next = Len(p) THEN "end" ELSE "checking"
           f == [i \in {v.next} |-> S!Checked(src, p[v.next])]
<1>1. PICK w : w = [pc |-> state, ids |-> v.ids, params |-> p, next |-> v.next + 1, seen |-> v.seen \cup {v.next}]
  OBVIOUS
<1>2. /\ Shape /\ task[t].pc = "checks" /\ src \in DOMAIN task[t].work /\ IsTask(task[t])
      /\ IsWork(v) /\ (S!Undisturbed => WorkSound(result, task[t].scan, src, v)) /\ v.pc = "checking"
  BY AtSource DEF S!Probe
<1>3. task' = [task EXCEPT ![t].work[src] =
               [v EXCEPT !.seen = @ \cup {v.next}, !.next = @ + 1,
                         !.pc = IF v.next = Len(v.params) THEN "end" ELSE @]]
  BY DEF S!Probe
<1>4. IsWork(w) /\ task' = [task EXCEPT ![t].work[src] = w]
  <2>1. [v EXCEPT !.seen = @ \cup {v.next}, !.next = @ + 1,
                  !.pc = IF v.next = Len(v.params) THEN "end" ELSE @] = w
    <3> HIDE DEF v
    <3>1. PICK a : a = [v EXCEPT !.seen = v.seen \cup {v.next}]
      OBVIOUS
    <3>2. a = [pc |-> v.pc, ids |-> v.ids, params |-> p, next |-> v.next, seen |-> v.seen \cup {v.next}]
      BY <1>2, <3>1 DEF IsWork
    <3>3. PICK b : b = [a EXCEPT !.next = a.next + 1]
      OBVIOUS
    <3>4. b = [pc |-> v.pc, ids |-> v.ids, params |-> p, next |-> v.next + 1,
               seen |-> v.seen \cup {v.next}]
      BY <3>2, <3>3
    <3>5. [b EXCEPT !.pc = state] = w
      <4> HIDE DEF state, p
      <4>1. b.ids = w.ids /\ b.params = w.params /\ b.next = w.next /\ b.seen = w.seen /\ w.pc = state
        BY <1>1, <3>4
      <4>2. IsWork(b) /\ IsWork(w)
        BY <1>1, <3>4 DEF IsWork
      <4> QED BY <4>1, <4>2 DEF IsWork
    <3> QED BY <1>2, <3>1, <3>2, <3>3, <3>4, <3>5
  <2>2. IsWork(w)
    BY <1>1 DEF IsWork
  <2> QED BY <1>3, <2>1, <2>2
<1>5. UNCHANGED <<scan, hosts, ports, active, edits>> /\ faults' \in Nat
  BY <1>2 DEF S!Probe, Shape
<1>6. /\ w.pc = state /\ w.params = p /\ w.ids = v.ids /\ w.next = v.next + 1 /\ w.seen = v.seen \cup {v.next}
      /\ w.pc \in {"queued", "checking", "end", "raised"}
  BY <1>1
<1>7. S!Undisturbed =>
        /\ ParamsOwn(result, task[t].scan, src, p)
        /\ DOMAIN p = 1..Len(p) /\ Len(p) \in Nat
        /\ v.next \in DOMAIN p /\ v.seen = 1..(v.next - 1)
        /\ \A r \in Mine(result, task[t].scan, src) : \E i \in DOMAIN p : p[i].id = r
  BY <1>2 DEF WorkSound
<1>8. \A r \in Mine(result, task[t].scan, src) : r \in S!Used(result)
  BY DEF Mine
<1>9. result' = S!Written(f, {v.next})
  BY DEF S!Probe
<1>10. FoundOwn(f, {v.next})
  <2>1. /\ f[v.next].what # S!Pending /\ f[v.next].id = p[v.next].id
        /\ f[v.next].what.probe = <<src, p[v.next].dst, p[v.next].port>>
    BY CheckedIs
  <2>2. S!Undisturbed => /\ p[v.next].id \in Mine(result, task[t].scan, src)
                       /\ p[v.next].dst = result[p[v.next].id].dst
                       /\ p[v.next].port = result[p[v.next].id].port
    <3> HIDE DEF f, v, p
    <3>1. ASSUME S!Undisturbed PROVE ParamsOwn(result, task[t].scan, src, p) /\ v.next \in DOMAIN p
      BY <1>7, <3>1, Zenon
    <3> QED BY <3>1 DEF ParamsOwn
  <2> HIDE DEF f, v, p
  <2> QED BY <2>1, <2>2 DEF FoundOwn, Mine
<1>11. RowsStep /\ \A r \in S!Used(result) : result'[r].src = result[r].src
  <2> HIDE DEF f, v
  <2> QED BY <1>2, <1>9, <1>10, WrittenStep
<1>12. ASSUME S!Undisturbed PROVE WorkSound(result', task[t].scan, src, w)
  <2>1. WorkSound(result', task[t].scan, src, v)
    BY <1>2, <1>11, <1>12, RowsKept
  <2>2. Mine(result', task[t].scan, src) = Mine(result, task[t].scan, src)
    BY <1>11, RowsKept
  <2> HIDE DEF v, p
  <2>3. v.next \in 1..Len(p) /\ Len(p) \in Nat
    BY <1>7, <1>12
  <2>4. w.seen = 1..v.next
    <3>1. v.seen = 1..(v.next - 1) /\ w.seen = v.seen \cup {v.next}
      BY <1>6, <1>7, <1>12, Zenon
    <3> QED BY <2>3, <3>1
  <2>5. w.pc = "checking" => w.next \in DOMAIN w.params /\ w.seen = 1..(w.next - 1)
    <3>1. CASE v.next = Len(p)
      BY <1>6, <3>1
    <3>2. CASE v.next # Len(p)
      <4>1. v.next + 1 \in 1..Len(p) /\ (v.next + 1) - 1 = v.next
        BY <2>3, <3>2
      <4>2. DOMAIN w.params = 1..Len(p)
        BY <1>6, <1>7, <1>12
      <4> QED BY <1>6, <2>4, <4>1, <4>2
    <3> QED BY <3>1, <3>2
  <2>6. w.pc = "end" => w.seen = DOMAIN w.params
    BY <1>6, <1>7, <1>12, <2>3, <2>4
  <2>7. w.pc \in {"checking", "end"}
    BY <1>6
  <2>8. S!Range(w.ids) = Mine(result', task[t].scan, src) /\ ParamsOwn(result', task[t].scan, src, w.params)
    BY <1>6, <2>1 DEF WorkSound, p
  <2> QED BY <1>6, <1>7, <1>12, <2>2, <2>5, <2>6, <2>7, <2>8 DEF WorkSound
<1> HIDE DEF v, p, state, f
<1> QED BY <1>2, <1>4, <1>5, <1>6, <1>11, <1>12, SourceStepKeeps

LEMMA ConnectFailsKeeps ==
  ASSUME S!ScansAssumption, ScansInv, NEW t \in DOMAIN task, NEW src, S!ConnectFails(t, src)
  PROVE  ScansInv'
<1> DEFINE v == task[t].work[src]
           p == v.params
<1>1. PICK w : w = [pc |-> "end", ids |-> v.ids, params |-> p, next |-> v.next, seen |-> v.seen]
  OBVIOUS
<1>2. /\ Shape /\ task[t].pc = "checks" /\ src \in DOMAIN task[t].work /\ IsTask(task[t])
      /\ IsWork(v) /\ (S!Undisturbed => WorkSound(result, task[t].scan, src, v)) /\ v.pc = "checking"
  BY AtSource DEF S!ConnectFails
<1>3. IsWork(w) /\ [v EXCEPT !.pc = "end"] = w
  <2> HIDE DEF v
  <2>1. [v EXCEPT !.pc = "end"] = w
    BY <1>1, <1>2 DEF IsWork
  <2>2. IsWork(w)
    BY <1>1 DEF IsWork
  <2> QED BY <2>1, <2>2
<1>4. task' = [task EXCEPT ![t].work[src] = w]
  BY <1>2, <1>3 DEF S!ConnectFails
<1>5. UNCHANGED <<scan, hosts, ports, active, edits>> /\ faults' \in Nat
  BY <1>2 DEF S!ConnectFails, Shape
<1>6. /\ w.pc = "end" /\ w.params = p /\ w.ids = v.ids /\ w.next = v.next /\ w.seen = v.seen
      /\ w.pc \in {"queued", "checking", "end", "raised"}
  BY <1>1
<1>7. S!Undisturbed =>
        /\ ParamsOwn(result, task[t].scan, src, p)
        /\ DOMAIN p = 1..Len(p) /\ Len(p) \in Nat
        /\ v.next \in DOMAIN p /\ v.seen = 1..(v.next - 1)
        /\ \A r \in Mine(result, task[t].scan, src) : \E i \in DOMAIN p : p[i].id = r
  BY <1>2 DEF WorkSound
<1>8. \A r \in Mine(result, task[t].scan, src) : r \in S!Used(result)
  BY DEF Mine
<1>9. result' = S!Written(S!Failures(src, p), DOMAIN p)
  BY DEF S!ConnectFails
<1>10. FoundOwn(S!Failures(src, p), DOMAIN p)
  <2> HIDE DEF v, p
  <2> QED BY <1>7, FailuresOwn
<1>11. /\ RowsStep /\ \A r \in S!Used(result) : result'[r].src = result[r].src
       /\ \A i \in DOMAIN p : S!Failures(src, p)[i].id \in S!Used(result) =>
            result'[S!Failures(src, p)[i].id].found # S!Pending
  <2> HIDE DEF v, p
  <2> QED BY <1>2, <1>9, <1>10, WrittenStep
<1>12. ASSUME S!Undisturbed PROVE WorkSound(result', task[t].scan, src, w)
  <2>1. WorkSound(result', task[t].scan, src, v)
    BY <1>2, <1>11, <1>12, RowsKept
  <2>2. Mine(result', task[t].scan, src) = Mine(result, task[t].scan, src)
    BY <1>11, RowsKept
  <2>3. ASSUME NEW r \in Mine(result, task[t].scan, src) PROVE result'[r].found # S!Pending
    <3>1. PICK k \in DOMAIN p : p[k].id = r
      BY <1>7, <1>12
    <3>2. S!Failures(src, p)[k].id = r
      BY <3>1, FailuresAre
    <3> QED BY <1>8, <1>11, <3>2
  <2> QED BY <1>6, <2>1, <2>2, <2>3 DEF WorkSound
<1> HIDE DEF v, p
<1> QED BY <1>2, <1>3, <1>4, <1>5, <1>6, <1>11, <1>12, SourceStepKeeps

LEMMA ProbeRaisesKeeps ==
  ASSUME S!ScansAssumption, ScansInv, NEW t \in DOMAIN task, NEW src, S!ProbeRaises(t, src)
  PROVE  ScansInv'
<1> DEFINE v == task[t].work[src]
           p == v.params
<1>1. PICK w : w = [pc |-> "raised", ids |-> v.ids, params |-> p, next |-> v.next, seen |-> v.seen]
  OBVIOUS
<1>2. /\ Shape /\ task[t].pc = "checks" /\ src \in DOMAIN task[t].work /\ IsTask(task[t])
      /\ IsWork(v) /\ (S!Undisturbed => WorkSound(result, task[t].scan, src, v)) /\ v.pc = "checking"
  BY AtSource DEF S!ProbeRaises
<1>3. IsWork(w) /\ [v EXCEPT !.pc = "raised"] = w
  <2> HIDE DEF v
  <2>1. [v EXCEPT !.pc = "raised"] = w
    BY <1>1, <1>2 DEF IsWork
  <2>2. IsWork(w)
    BY <1>1 DEF IsWork
  <2> QED BY <2>1, <2>2
<1>4. task' = [task EXCEPT ![t].work[src] = w]
  BY <1>2, <1>3 DEF S!ProbeRaises
<1>5. UNCHANGED <<scan, hosts, ports, active, edits>> /\ faults' \in Nat
  BY <1>2 DEF S!ProbeRaises, Shape
<1>6. /\ w.pc = "raised" /\ w.params = p /\ w.ids = v.ids /\ w.next = v.next /\ w.seen = v.seen
      /\ w.pc \in {"queued", "checking", "end", "raised"}
  BY <1>1
<1>7. S!Undisturbed =>
        /\ ParamsOwn(result, task[t].scan, src, p)
        /\ DOMAIN p = 1..Len(p) /\ Len(p) \in Nat
        /\ v.next \in DOMAIN p /\ v.seen = 1..(v.next - 1)
        /\ \A r \in Mine(result, task[t].scan, src) : \E i \in DOMAIN p : p[i].id = r
  BY <1>2 DEF WorkSound
<1>8. \A r \in Mine(result, task[t].scan, src) : r \in S!Used(result)
  BY DEF Mine
<1>9. RowsStep /\ \A r \in S!Used(result) : result'[r].src = result[r].src
  BY <1>2, RowsStay DEF S!ProbeRaises
<1>10. ASSUME S!Undisturbed PROVE WorkSound(result', task[t].scan, src, w)
  <2>1. WorkSound(result', task[t].scan, src, v)
    BY <1>2, <1>9, <1>10, RowsKept
  <2> QED BY <1>6, <2>1 DEF WorkSound
<1> HIDE DEF v, p
<1> QED BY <1>2, <1>3, <1>4, <1>5, <1>6, <1>9, <1>10, SourceStepKeeps

LEMMA ReportFailsKeeps ==
  ASSUME S!ScansAssumption, ScansInv, NEW t \in DOMAIN task, NEW src, S!ReportFails(t, src)
  PROVE  ScansInv'
<1> DEFINE v == task[t].work[src]
           p == v.params
           all == S!Group(S!How(src)).report = "all"
           state == IF all THEN "end" ELSE "raised"
           rest == DOMAIN p \ (v.seen \cup {v.next})
<1>1. PICK w : w = [pc |-> state, ids |-> v.ids, params |-> p, next |-> v.next, seen |-> v.seen \cup {v.next}]
  OBVIOUS
<1>2. /\ Shape /\ task[t].pc = "checks" /\ src \in DOMAIN task[t].work /\ IsTask(task[t])
      /\ IsWork(v) /\ (S!Undisturbed => WorkSound(result, task[t].scan, src, v)) /\ v.pc = "checking"
  BY AtSource DEF S!ReportFails
<1>3. task' = [task EXCEPT ![t].work[src] =
               [v EXCEPT !.seen = @ \cup {v.next}, !.pc = IF all THEN "end" ELSE "raised"]]
  BY DEF S!ReportFails
<1>4. IsWork(w) /\ task' = [task EXCEPT ![t].work[src] = w]
  <2>1. [v EXCEPT !.seen = @ \cup {v.next}, !.pc = IF all THEN "end" ELSE "raised"] = w
    <3> HIDE DEF v, all
    <3>1. PICK a : a = [v EXCEPT !.seen = v.seen \cup {v.next}]
      OBVIOUS
    <3>2. a = [pc |-> v.pc, ids |-> v.ids, params |-> p, next |-> v.next, seen |-> v.seen \cup {v.next}]
      BY <1>2, <3>1 DEF IsWork
    <3>3. [a EXCEPT !.pc = state] = w
      <4> HIDE DEF state, p
      <4>1. a.ids = w.ids /\ a.params = w.params /\ a.next = w.next /\ a.seen = w.seen /\ w.pc = state
        BY <1>1, <3>2
      <4>2. IsWork(a) /\ IsWork(w)
        BY <1>1, <3>2 DEF IsWork
      <4> QED BY <4>1, <4>2 DEF IsWork
    <3> QED BY <3>1, <3>3
  <2>2. IsWork(w)
    BY <1>1 DEF IsWork
  <2> QED BY <1>3, <2>1, <2>2
<1>5. UNCHANGED <<scan, hosts, ports, active, edits>> /\ faults' \in Nat
  BY <1>2 DEF S!ReportFails, Shape
<1>6. /\ w.pc = state /\ w.params = p /\ w.ids = v.ids /\ w.next = v.next /\ w.seen = v.seen \cup {v.next}
      /\ w.pc \in {"queued", "checking", "end", "raised"}
  BY <1>1
<1>7. S!Undisturbed =>
        /\ ParamsOwn(result, task[t].scan, src, p)
        /\ DOMAIN p = 1..Len(p) /\ Len(p) \in Nat
        /\ v.next \in DOMAIN p /\ v.seen = 1..(v.next - 1)
        /\ \A r \in Mine(result, task[t].scan, src) : \E i \in DOMAIN p : p[i].id = r
  BY <1>2 DEF WorkSound
<1>8. \A r \in Mine(result, task[t].scan, src) : r \in S!Used(result)
  BY DEF Mine
<1>9. result' = IF all THEN S!Written(S!Failures(src, p), rest) ELSE result
  BY DEF S!ReportFails
<1>10. FoundOwn(S!Failures(src, p), rest)
  <2>1. rest \in SUBSET DOMAIN p
    OBVIOUS
  <2> HIDE DEF v, p, rest
  <2> QED BY <1>7, <2>1, FailuresOwn
<1>11. CASE all
  <2>1. /\ RowsStep /\ \A r \in S!Used(result) : result'[r].src = result[r].src
        /\ \A i \in rest : S!Failures(src, p)[i].id \in S!Used(result) =>
             result'[S!Failures(src, p)[i].id].found # S!Pending
    <3> HIDE DEF v, p, rest, all
    <3> QED BY <1>2, <1>9, <1>10, <1>11, WrittenStep
  <2>2. ASSUME S!Undisturbed PROVE WorkSound(result', task[t].scan, src, w)
    <3>1. WorkSound(result', task[t].scan, src, v)
      BY <1>2, <2>1, <2>2, RowsKept
    <3>2. Mine(result', task[t].scan, src) = Mine(result, task[t].scan, src)
      BY <2>1, RowsKept
    <3>3. ASSUME NEW r \in Mine(result, task[t].scan, src)
          PROVE  result'[r].found # S!Pending \/ \E i \in w.seen : w.params[i].id = r
      <4>1. PICK k \in DOMAIN p : p[k].id = r
        BY <1>7, <2>2
      <4>2. CASE k \in rest
        <5>1. S!Failures(src, p)[k].id = r
          BY <4>1, FailuresAre
        <5> QED BY <1>8, <2>1, <4>2, <5>1
      <4>3. CASE k \notin rest
        <5>1. k \in w.seen
          BY <1>6, <4>3
        <5> QED BY <1>6, <4>1, <5>1
      <4> QED BY <4>2, <4>3
    <3>4. w.pc = "end"
      BY <1>6, <1>11
    <3>5. S!Range(w.ids) = Mine(result', task[t].scan, src) /\ ParamsOwn(result', task[t].scan, src, w.params)
      BY <1>6, <3>1 DEF WorkSound
    <3> QED BY <3>2, <3>3, <3>4, <3>5 DEF WorkSound
  <2> HIDE DEF v, p, state, rest, all
  <2> QED BY <1>2, <1>4, <1>5, <1>6, <2>1, <2>2, SourceStepKeeps
<1>12. CASE ~all
  <2>1. RowsStep /\ \A r \in S!Used(result) : result'[r].src = result[r].src
    BY <1>2, <1>9, <1>12, RowsStay
  <2>2. ASSUME S!Undisturbed PROVE WorkSound(result', task[t].scan, src, w)
    <3>1. WorkSound(result', task[t].scan, src, v)
      BY <1>2, <2>1, <2>2, RowsKept
    <3>2. w.pc = "raised"
      BY <1>6, <1>12
    <3> QED BY <1>6, <3>1, <3>2 DEF WorkSound
  <2> HIDE DEF v, p, state, rest, all
  <2> QED BY <1>2, <1>4, <1>5, <1>6, <2>1, <2>2, SourceStepKeeps
<1> QED BY <1>11, <1>12

----------------------------------------------------------------------------
(* The tasks *)

\* A task that ends.
LEMMA TaskEnds ==
  ASSUME Shape, NEW t \in DOMAIN task, task' = [task EXCEPT ![t].pc = "done"], NEW x,
         x = [scan |-> task[t].scan, pc |-> "done", work |-> task[t].work, orphan |-> task[t].orphan]
  PROVE  /\ TaskStep(t, x) /\ x.scan = task[t].scan /\ x.pc = "done" /\ x.work = task[t].work
         /\ x.scan \in 1..MaxScans
<1>1. IsTask(task[t])
  BY DEF Shape
<1>2. task'[t] = x
  BY <1>1 DEF IsTask
<1>3. task' = [task EXCEPT ![t] = x]
  BY <1>2
<1>4. \A src \in DOMAIN task[t].work :
        /\ IsWork(task[t].work[src])
        /\ task[t].work[src].pc \in {"queued", "checking", "end", "raised"}
  BY DEF Shape
<1>5. IsTask(x) /\ x.scan = task[t].scan /\ x.orphan = task[t].orphan /\ x.pc = "done" /\ x.work = task[t].work
  BY DEF IsTask
<1>6. task[t].scan \in 1..MaxScans
  BY DEF Shape
<1> QED BY <1>3, <1>4, <1>5, <1>6 DEF TaskStep

\* The status of the scan of a task.
Marked(f, s, status) ==
  [i \in DOMAIN f |-> IF i = s /\ f[i] # S!NoRow THEN [f[i] EXCEPT !.status = status] ELSE f[i]]

LEMMA StatusSet ==
  ASSUME Shape, NEW s \in 1..MaxScans, NEW status \in {"running", "completed", "failed"},
         scan' = Marked(scan, s, status)
  PROVE  /\ DOMAIN scan' = DOMAIN scan
         /\ \A i \in DOMAIN scan : i # s \/ scan[i] = S!NoRow => scan'[i] = scan[i]
         /\ scan[s] # S!NoRow => /\ IsScan(scan'[s]) /\ scan'[s].config = scan[s].config
                               /\ scan'[s].status = status
<1>1. ASSUME scan[s] # S!NoRow
      PROVE  IsScan(scan'[s]) /\ scan'[s].config = scan[s].config /\ scan'[s].status = status
  <2>1. s \in S!Used(scan) /\ s \in DOMAIN scan
    BY <1>1 DEF Shape, S!Used
  <2>2. IsScan(scan[s])
    BY <2>1 DEF Shape
  <2>3. scan'[s] = [status |-> status, config |-> scan[s].config]
    BY <1>1, <2>1, <2>2 DEF IsScan, Marked
  <2> QED BY <2>3 DEF IsScan
<1> QED BY <1>1 DEF Marked

\* A task that is not over, undisturbed.
LEMMA AtTask ==
  ASSUME ScansInv, NEW t \in DOMAIN task, S!Alive(t), S!Undisturbed
  PROVE  /\ scan[task[t].scan] # S!NoRow
         /\ \A src \in DOMAIN task[t].work : WorkSound(result, task[t].scan, src, task[t].work[src])
BY DEF ScansInv, Strong, Owners, TasksSound, S!Used

LEMMA RunFailsKeeps ==
  ASSUME S!ScansAssumption, ScansInv, NEW t \in DOMAIN task, S!RunFails(t)
  PROVE  ScansInv'
<1>1. PICK x : x = [scan |-> task[t].scan, pc |-> "done", work |-> task[t].work, orphan |-> task[t].orphan]
  OBVIOUS
<1>2. Shape /\ S!Alive(t)
  BY DEF ScansInv, S!RunFails, S!Alive
<1>3. /\ TaskStep(t, x) /\ x.scan = task[t].scan /\ x.pc = "done" /\ x.work = task[t].work
      /\ x.scan \in 1..MaxScans
  BY <1>1, <1>2, TaskEnds DEF S!RunFails
<1>4. /\ DOMAIN scan' = DOMAIN scan
      /\ \A s \in DOMAIN scan : s # x.scan \/ scan[s] = S!NoRow => scan'[s] = scan[s]
      /\ scan[x.scan] # S!NoRow => /\ IsScan(scan'[x.scan]) /\ scan'[x.scan].config = scan[x.scan].config
                                 /\ scan'[x.scan].status = "failed"
  <2>1. scan' = Marked(scan, x.scan, "failed")
    BY <1>3 DEF S!RunFails, Marked
  <2> QED BY <1>2, <1>3, <2>1, StatusSet
<1>5. UNCHANGED <<result, hosts, ports, active, edits>> /\ faults' \in Nat
  BY <1>2 DEF S!RunFails, Shape
<1>6. S!Undisturbed => \A src \in DOMAIN x.work : WorkSound(result, x.scan, src, x.work[src])
  BY <1>2, <1>3, AtTask
<1>7. S!Undisturbed => scan'[x.scan].status # "completed"
  BY <1>2, <1>3, <1>4, AtTask
<1> QED BY <1>2, <1>3, <1>4, <1>5, <1>6, <1>7, RunStepKeeps

LEMMA RunCompletesKeeps ==
  ASSUME S!ScansAssumption, ScansInv, NEW t \in DOMAIN task, S!RunCompletes(t)
  PROVE  ScansInv'
<1>1. PICK x : x = [scan |-> task[t].scan, pc |-> "done", work |-> task[t].work, orphan |-> task[t].orphan]
  OBVIOUS
<1>2. Shape /\ S!Alive(t)
  BY DEF ScansInv, S!RunCompletes, S!Alive
<1>3. /\ TaskStep(t, x) /\ x.scan = task[t].scan /\ x.pc = "done" /\ x.work = task[t].work
      /\ x.scan \in 1..MaxScans
  BY <1>1, <1>2, TaskEnds DEF S!RunCompletes
<1>4. /\ DOMAIN scan' = DOMAIN scan
      /\ \A s \in DOMAIN scan : s # x.scan \/ scan[s] = S!NoRow => scan'[s] = scan[s]
      /\ scan[x.scan] # S!NoRow => /\ IsScan(scan'[x.scan]) /\ scan'[x.scan].config = scan[x.scan].config
                                 /\ scan'[x.scan].status = "completed"
  <2>1. scan' = Marked(scan, x.scan, "completed")
    BY <1>3 DEF S!RunCompletes, Marked
  <2> QED BY <1>2, <1>3, <2>1, StatusSet
<1>5. UNCHANGED <<result, hosts, ports, active, edits>> /\ faults' \in Nat
  BY <1>2 DEF S!RunCompletes, Shape
<1>6. S!Undisturbed => \A src \in DOMAIN x.work : WorkSound(result, x.scan, src, x.work[src])
  BY <1>2, <1>3, AtTask
<1>7. \A src \in DOMAIN x.work : x.work[src].pc \in {"end", "raised"}
  BY <1>3 DEF S!RunCompletes, S!Gathered, S!Range
<1> QED BY <1>2, <1>3, <1>4, <1>5, <1>6, <1>7, RunStepKeeps

\* The groups of a scan hold the rows of their source.
LEMMA GroupsSound ==
  ASSUME S!ScansAssumption, Shape, Labels, NEW s, NEW src \in DOMAIN S!Groups(s)
  PROVE  WorkSound(result, s, src, S!Queued(S!Groups(s)[src]))
<1> DEFINE mine == {r \in S!Used(result) : result[r].scan = s}
           own == {r \in mine : result[r].src = src}
<1>1. src \in {result[r].src : r \in mine} /\ src # S!NoSource
  BY DEF S!Groups
<1>2. S!Groups(s)[src] = S!Ascending(own)
  BY DEF S!Groups
<1>3. PICK q \in mine : result[q].src = src
  BY <1>1
<1>4. src \in hosts \cup {Server}
  BY <1>1, <1>3 DEF Labels
<1>5. \A r \in S!Used(result) : result[r].src = src <=> result[r].label = src
  BY <1>1, <1>4 DEF Labels
<1>6. own = Mine(result, s, src)
  BY <1>5 DEF Mine
<1>7. MaxRows \in Nat /\ own \in SUBSET (1..MaxRows)
  BY DEF S!ScansAssumption, Shape, S!Used
<1> HIDE DEF own
<1>8. /\ Cardinality(own) \in 0..MaxRows /\ DOMAIN S!Ascending(own) = 1..Cardinality(own)
      /\ S!Range(S!Ascending(own)) = own
  BY <1>7, AscendingSound, UpToCounts
<1>9. PICK w : w = S!Queued(S!Groups(s)[src])
  OBVIOUS
<1>10. /\ w.ids = S!Ascending(own) /\ w.pc = "queued" /\ w.params = <<>> /\ w.next = 1 /\ w.seen = {}
  BY <1>2, <1>9 DEF S!Queued
<1>11. ParamsOwn(result, s, src, w.params)
  BY <1>10 DEF ParamsOwn
<1> QED BY <1>6, <1>8, <1>9, <1>10, <1>11 DEF WorkSound

LEMMA RunKeeps ==
  ASSUME S!ScansAssumption, ScansInv, NEW t \in DOMAIN task, S!Run(t)
  PROVE  ScansInv'
<1> DEFINE s == task[t].scan
           work == [src \in DOMAIN S!Groups(s) |-> S!Queued(S!Groups(s)[src])]
<1>1. Shape /\ Labels /\ S!Alive(t) /\ IsTask(task[t]) /\ s \in 1..MaxScans /\ task[t].pc = "new"
  BY DEF ScansInv, S!Run, S!Alive, Shape
<1>2. UNCHANGED <<result, hosts, ports, active, edits>> /\ faults' \in Nat
  BY <1>1 DEF S!Run, Shape
<1>3. CASE scan[s] = S!NoRow
  <2>1. PICK x : x = [scan |-> task[t].scan, pc |-> "done", work |-> task[t].work, orphan |-> task[t].orphan]
    OBVIOUS
  <2>2. /\ TaskStep(t, x) /\ x.scan = task[t].scan /\ x.pc = "done" /\ x.work = task[t].work
    BY <1>1, <1>3, <2>1, TaskEnds DEF S!Run
  <2>3. scan' = scan
    BY <1>3 DEF S!Run
  <2>4. ~ S!Undisturbed
    BY <1>1, <1>3, AtTask
  <2> QED BY <1>1, <1>2, <1>3, <2>2, <2>3, <2>4, RunStepKeeps
<1>4. CASE scan[s] # S!NoRow
  <2>0. /\ scan' = [scan EXCEPT ![s].status = "running"]
        /\ task' = [task EXCEPT ![t] = [@ EXCEPT !.pc = "checks", !.work = work]]
    BY <1>4 DEF S!Run
  <2>1. PICK x : x = [scan |-> s, pc |-> "checks", work |-> work, orphan |-> task[t].orphan]
    OBVIOUS
  <2>2. task' = [task EXCEPT ![t] = x]
    <3>0. task' = [task EXCEPT ![t] = [[@ EXCEPT !.pc = "checks"] EXCEPT !.work = work]]
      BY <2>0
    <3>1. task'[t] = [[task[t] EXCEPT !.pc = "checks"] EXCEPT !.work = work]
      BY <3>0
    <3> HIDE DEF work
    <3>2. PICK a : a = [task[t] EXCEPT !.pc = "checks"]
      OBVIOUS
    <3>3. a = [scan |-> s, pc |-> "checks", work |-> task[t].work, orphan |-> task[t].orphan]
      BY <1>1, <3>2 DEF IsTask
    <3>4. [a EXCEPT !.work = work] = x
      BY <2>1, <3>3
    <3>5. task'[t] = x
      BY <3>1, <3>2, <3>4
    <3> QED BY <3>0, <3>1, <3>5
  <2>3. x.scan = s /\ x.pc = "checks" /\ x.work = work /\ x.orphan = task[t].orphan /\ IsTask(x)
    BY <2>1 DEF IsTask
  <2>4. /\ DOMAIN work = DOMAIN S!Groups(s)
        /\ \A src \in DOMAIN work : work[src] = S!Queued(S!Groups(s)[src])
    OBVIOUS
  <2> HIDE DEF work
  <2>5. \A src \in DOMAIN work : IsWork(work[src]) /\ work[src].pc = "queued"
    BY <2>4 DEF S!Queued, IsWork
  <2>6. TaskStep(t, x)
    BY <2>2, <2>3, <2>5 DEF TaskStep
  <2>7. \A src \in DOMAIN work : WorkSound(result, s, src, work[src])
    BY <1>1, <2>4, GroupsSound
  <2>8. scan'[s] = [status |-> "running", config |-> scan[s].config] /\ s \in DOMAIN scan
    <3>1. s \in DOMAIN scan
      BY <1>1 DEF Shape
    <3>2. IsScan(scan[s])
      BY <1>1, <1>4, <3>1 DEF Shape, S!Used
    <3> HIDE DEF s
    <3> QED BY <2>0, <3>1, <3>2 DEF IsScan
  <2>9. /\ DOMAIN scan' = DOMAIN scan
        /\ \A i \in DOMAIN scan : i # s \/ scan[i] = S!NoRow => scan'[i] = scan[i]
        /\ IsScan(scan'[s]) /\ scan'[s].config = scan[s].config /\ scan'[s].status = "running"
    BY <1>4, <2>0, <2>8 DEF IsScan
  <2> QED BY <1>1, <1>2, <2>3, <2>6, <2>7, <2>9, RunStepKeeps
<1> QED BY <1>3, <1>4

LEMMA ReapKeeps ==
  ASSUME S!ScansAssumption, ScansInv, NEW t \in DOMAIN task, S!Reap(t)
  PROVE  ScansInv'
<1>1. PICK x : x = [scan |-> task[t].scan, pc |-> "reaped", work |-> <<>>, orphan |-> task[t].orphan]
  OBVIOUS
<1>2. Shape /\ Labels /\ (S!Undisturbed => Strong) /\ IsTask(task[t]) /\ task[t].pc = "done"
  BY DEF ScansInv, Shape, S!Reap
<1>3. x.scan = task[t].scan /\ x.pc = "reaped" /\ x.work = <<>> /\ x.orphan = task[t].orphan /\ IsTask(x)
  BY <1>1 DEF IsTask
<1>4. task' = [task EXCEPT ![t] = x]
  <2>1. PICK a : a = [task[t] EXCEPT !.pc = "reaped"]
    OBVIOUS
  <2>2. a = [scan |-> task[t].scan, pc |-> "reaped", work |-> task[t].work, orphan |-> task[t].orphan]
    BY <1>2, <2>1 DEF IsTask
  <2>3. [a EXCEPT !.work = <<>>] = x
    BY <1>1, <2>2
  <2> QED BY <2>1, <2>3 DEF S!Reap
<1>5. TaskStep(t, x)
  <2>1. DOMAIN x.work = {}
    BY <1>3
  <2> QED BY <1>3, <1>4, <2>1 DEF TaskStep
<1>6. active' = [active EXCEPT ![task[t].scan] = 0] /\ task[t].scan \in 1..MaxScans
  BY <1>2 DEF S!Reap, Shape
<1>7. UNCHANGED <<scan, result, hosts, ports, edits, faults>>
  BY DEF S!Reap
<1>8. /\ task' \in Seq(S!Range(task')) /\ Len(task') = Len(task) /\ DOMAIN task' = DOMAIN task
      /\ task'[t] = x /\ \A u \in DOMAIN task : u # t => task'[u] = task[u]
      /\ \A u \in DOMAIN task : task'[u].scan = task[u].scan
      /\ S!Undisturbed' => S!Undisturbed
  BY <1>2, <1>5, TaskKept
<1>9. Shape'
  <2>1. active' \in [1..MaxScans -> 0..Len(task')]
    <3>1. Len(task) \in Nat /\ active \in [1..MaxScans -> 0..Len(task)]
      BY <1>2, TasksAre DEF Shape
    <3> QED BY <1>6, <1>8, <3>1
  <2>2. \A u \in DOMAIN task' :
          /\ IsTask(task'[u]) /\ task'[u].scan \in 1..MaxScans /\ task'[u].orphan \in BOOLEAN
          /\ task'[u].pc \in {"new", "checks", "done", "reaped", "dead"}
          /\ \A z \in DOMAIN task'[u].work :
               /\ IsWork(task'[u].work[z])
               /\ task'[u].work[z].pc \in {"queued", "checking", "end", "raised"}
    BY <1>2, <1>5, TaskShape
  <2>3. S!Used(scan') = S!Used(scan) /\ S!Used(result') = S!Used(result)
    BY <1>7
  <2> QED BY <1>2, <1>7, <1>8, <2>1, <2>2, <2>3 DEF Shape
<1>10. Labels'
  BY <1>2, <1>7 DEF Labels, S!Used
<1>11. ASSUME S!Undisturbed' PROVE Strong'
  <2>1. S!Undisturbed /\ Owners /\ RegistryIs /\ S!OwnFinding /\ TasksSound /\ DoneSound
    BY <1>2, <1>8, <1>11 DEF Strong
  <2>2. \A u \in DOMAIN task : S!Alive(u)' <=> S!Alive(u) /\ u # t
    BY <1>3, <1>8 DEF S!Alive
  <2>3. S!Alive(t) /\ S!Used(scan') = S!Used(scan) /\ S!Used(result') = S!Used(result)
    BY <1>2, <1>7 DEF S!Alive
  <2>4. Owners'
    BY <1>8, <2>1, <2>2, <2>3 DEF Owners
  <2>5. RegistryIs'
    <3> SUFFICES ASSUME NEW s \in 1..MaxScans
                 PROVE  (active'[s] # 0) <=> \E u \in DOMAIN task : S!Alive(u) /\ u # t /\ task[u].scan = s
      BY <1>8, <2>2 DEF RegistryIs
    <3>1. active[s] # 0 <=> \E u \in DOMAIN task : S!Alive(u) /\ task[u].scan = s
      BY <2>1 DEF RegistryIs
    <3>2. CASE s = task[t].scan
      <4>1. active'[s] = 0
        BY <1>2, <1>6, <3>2 DEF Shape
      <4>2. \A u \in DOMAIN task : S!Alive(u) /\ task[u].scan = s => u = t
        BY <2>1, <2>3, <3>2 DEF Owners
      <4> QED BY <4>1, <4>2
    <3>3. CASE s # task[t].scan
      <4>1. active'[s] = active[s]
        BY <1>2, <1>6, <3>3 DEF Shape
      <4> QED BY <3>1, <3>3, <4>1
    <3> QED BY <3>2, <3>3
  <2>6. S!OwnFinding'
    BY <1>7, <2>1, <2>3 DEF S!OwnFinding
  <2>7. TasksSound'
    <3> SUFFICES ASSUME NEW u \in DOMAIN task, S!Alive(u), u # t, NEW z \in DOMAIN task'[u].work
                 PROVE  WorkSound(result', task'[u].scan, z, task'[u].work[z])
      BY <1>8, <2>2 DEF TasksSound
    <3> QED BY <1>7, <1>8, <2>1 DEF TasksSound
  <2>8. DoneSound'
    <3> SUFFICES ASSUME NEW u \in DOMAIN task, task'[u].pc = "done",
                        scan[task'[u].scan].status = "completed", NEW src \in DOMAIN task'[u].work
                 PROVE  task'[u].work[src].pc \in {"end", "raised"}
      BY <1>7, <1>8 DEF DoneSound
    <3>1. u # t
      BY <1>3, <1>8
    <3>2. task'[u] = task[u]
      BY <1>8, <3>1
    <3> QED BY <2>1, <3>2 DEF DoneSound
  <2> QED BY <2>4, <2>5, <2>6, <2>7, <2>8 DEF Strong
<1> QED BY <1>9, <1>10, <1>11 DEF ScansInv

LEMMA RestartKeeps ==
  ASSUME S!ScansAssumption, ScansInv, S!Restart
  PROVE  ScansInv'
<1>1. Shape /\ Labels
  BY DEF ScansInv
<1>2. UNCHANGED <<scan, result, hosts, ports, edits>> /\ active' = [s \in DOMAIN active |-> 0]
  BY DEF S!Restart
<1>3. DOMAIN task' = DOMAIN task /\ Len(task) \in Nat /\ DOMAIN task = 1..Len(task)
  BY <1>1, TasksAre DEF S!Restart
<1>4. task' \in Seq(S!Range(task')) /\ Len(task') = Len(task)
  <2>1. task' = [u \in 1..Len(task) |-> task'[u]]
    BY <1>3 DEF S!Restart
  <2> QED BY <1>3, <2>1, SequenceOf
<1>5. ASSUME NEW u \in DOMAIN task
      PROVE  task'[u] = [scan |-> task[u].scan, pc |-> "dead", work |-> <<>>, orphan |-> task[u].orphan]
  <2>1. IsTask(task[u])
    BY <1>1 DEF Shape
  <2>2. PICK a : a = [task[u] EXCEPT !.pc = "dead"]
    OBVIOUS
  <2>3. a = [scan |-> task[u].scan, pc |-> "dead", work |-> task[u].work, orphan |-> task[u].orphan]
    BY <2>1, <2>2 DEF IsTask
  <2>4. S!Died(task[u]) = [a EXCEPT !.work = <<>>]
    BY <2>2 DEF S!Died
  <2>5. task'[u] = S!Died(task[u])
    BY DEF S!Restart
  <2> QED BY <2>3, <2>4, <2>5
<1>6. ASSUME NEW u \in DOMAIN task
      PROVE  /\ IsTask(task'[u]) /\ task'[u].scan \in 1..MaxScans /\ task'[u].orphan \in BOOLEAN
             /\ task'[u].pc = "dead" /\ DOMAIN task'[u].work = {}
  <2>1. task[u].scan \in 1..MaxScans /\ task[u].orphan \in BOOLEAN
    BY <1>1 DEF Shape
  <2>a. task'[u] = [scan |-> task[u].scan, pc |-> "dead", work |-> <<>>, orphan |-> task[u].orphan]
    BY <1>5
  <2>2. /\ task'[u].scan = task[u].scan /\ task'[u].orphan = task[u].orphan
        /\ task'[u].pc = "dead" /\ task'[u].work = <<>>
    BY <2>a
  <2>3. IsTask(task'[u])
    BY <2>a DEF IsTask
  <2>4. DOMAIN task'[u].work = {}
    BY <2>2
  <2> QED BY <2>1, <2>2, <2>3, <2>4
<1>7. active' \in [1..MaxScans -> 0..Len(task')] /\ \A s \in 1..MaxScans : active'[s] = 0
  <2>1. DOMAIN active = 1..MaxScans
    BY <1>1 DEF Shape
  <2> QED BY <1>2, <1>3, <1>4, <2>1
<1>8. S!Used(scan') = S!Used(scan) /\ S!Used(result') = S!Used(result) /\ faults' \in Nat
  BY <1>1, <1>2 DEF S!Restart, Shape
<1>9. Shape'
  BY <1>1, <1>2, <1>3, <1>4, <1>6, <1>7, <1>8 DEF Shape
<1>10. Labels'
  BY <1>1, <1>2, <1>8 DEF Labels
<1>11. ASSUME S!Undisturbed' PROVE Strong'
  <2>1. S!Undisturbed
    BY <1>3, <1>5, <1>11 DEF S!Undisturbed
  <2>2. S!OwnFinding'
    BY <1>2, <1>8, <2>1 DEF ScansInv, Strong, S!OwnFinding
  <2>3. \A u \in DOMAIN task : ~ S!Alive(u)'
    BY <1>6 DEF S!Alive
  <2>4. Owners' /\ TasksSound'
    BY <1>3, <2>3 DEF Owners, TasksSound
  <2>5. RegistryIs'
    BY <1>3, <1>7, <2>3 DEF RegistryIs
  <2>6. DoneSound'
    BY <1>3, <1>6 DEF DoneSound
  <2> QED BY <2>2, <2>4, <2>5, <2>6 DEF Strong
<1> QED BY <1>9, <1>10, <1>11 DEF ScansInv

----------------------------------------------------------------------------
(* Requests and the inventory *)

\* Steps that leave scans and tasks alone.
LEMMA RowsStepKeeps ==
  ASSUME ScansInv, RowsStep, Labels', hosts' \subseteq Hosts,
         UNCHANGED <<scan, task, active>>, edits' \in Nat, faults' \in Nat
  PROVE  ScansInv'
<1>1. Shape /\ Labels
  BY DEF ScansInv
<1>2. S!Used(scan') = S!Used(scan) /\ S!Used(result') = S!Used(result) /\ DOMAIN result' = 1..MaxRows
  BY <1>1, RowsKept DEF RowsStep, Shape
<1>3. \A r \in S!Used(result) : IsRow(result'[r]) /\ result'[r].scan \in S!Used(scan)
  BY <1>1, RowsKept DEF Shape
<1>4. Shape'
  BY <1>1, <1>2, <1>3 DEF Shape
<1>5. ASSUME S!Undisturbed' PROVE Strong'
  <2>1. S!Undisturbed /\ Owners /\ RegistryIs /\ S!OwnFinding /\ TasksSound /\ DoneSound
    BY <1>5 DEF ScansInv, Strong, S!Undisturbed
  <2>2. S!OwnFinding'
    BY <2>1, RowsKept
  <2>3. Owners' /\ RegistryIs'
    BY <1>2, <2>1 DEF Owners, RegistryIs, S!Alive
  <2>4. TasksSound'
    BY <2>1, RowsKept DEF TasksSound, S!Alive
  <2>5. DoneSound'
    BY <2>1 DEF DoneSound
  <2> QED BY <2>2, <2>3, <2>4, <2>5 DEF Strong
<1> QED BY <1>4, <1>5 DEF ScansInv

LEMMA OthersKeep ==
  ASSUME ScansInv, UNCHANGED <<scan, result, hosts, task, active, faults>>, edits' \in Nat
  PROVE  ScansInv'
<1>1. Shape /\ Labels
  BY DEF ScansInv
<1>2. RowsStep
  BY <1>1, RowsStay
<1>3. Labels' /\ hosts' \subseteq Hosts /\ faults' \in Nat
  BY <1>1 DEF Labels, S!Used, Shape
<1> QED BY <1>2, <1>3, RowsStepKeeps

LEMMA HostDeleteKeeps ==
  ASSUME S!ScansAssumption, ScansInv, NEW h, S!HostDelete(h)
  PROVE  ScansInv'
<1>1. Shape /\ Labels /\ h \in hosts
  BY DEF ScansInv, S!HostDelete
<1>2. ASSUME NEW r \in DOMAIN result, result[r] # S!NoRow
      PROVE  /\ r \in S!Used(result) /\ IsRow(result'[r])
             /\ result'[r].scan = result[r].scan /\ result'[r].label = result[r].label
             /\ result'[r].dst = result[r].dst /\ result'[r].port = result[r].port
             /\ result'[r].found = result[r].found
             /\ result'[r].src = IF result[r].src = h THEN S!NoSource ELSE result[r].src
  <2>1. r \in S!Used(result) /\ IsRow(result[r])
    BY <1>1, <1>2 DEF Shape, S!Used
  <2>2. CASE result[r].src = h
    <3>1. result'[r] = [result[r] EXCEPT !.src = S!NoSource]
      BY <1>2, <2>2 DEF S!HostDelete
    <3>2. result'[r] = [scan |-> result[r].scan, src |-> S!NoSource, label |-> result[r].label,
                        dst |-> result[r].dst, port |-> result[r].port, found |-> result[r].found]
      BY <2>1, <3>1 DEF IsRow
    <3> QED BY <2>1, <2>2, <3>2 DEF IsRow
  <2>3. CASE result[r].src # h
    <3>1. result'[r] = result[r]
      BY <1>2, <2>3 DEF S!HostDelete
    <3> QED BY <2>1, <2>3, <3>1
  <2> QED BY <2>2, <2>3
<1>3. DOMAIN result' = DOMAIN result /\ \A r \in DOMAIN result : result[r] = S!NoRow => result'[r] = S!NoRow
  BY DEF S!HostDelete
<1>4. RowsStep
  BY <1>2, <1>3 DEF RowsStep
<1>5. Labels'
  <2> SUFFICES ASSUME NEW r \in S!Used(result)
               PROVE  /\ result'[r].label \in Hosts \cup {Server}
                      /\ result'[r].src = IF result'[r].label \in hosts' \cup {Server}
                                            THEN result'[r].label ELSE S!NoSource
    BY <1>4, RowsKept DEF Labels
  <2>1. r \in DOMAIN result /\ result[r] # S!NoRow
    BY DEF S!Used
  <2>2. /\ result[r].label \in Hosts \cup {Server}
        /\ result[r].src = IF result[r].label \in hosts \cup {Server} THEN result[r].label ELSE S!NoSource
    BY <1>1 DEF Labels
  <2>3. h \in Hosts /\ h # Server /\ h # S!NoSource /\ hosts' = hosts \ {h}
    BY <1>1 DEF Shape, S!ScansAssumption, S!HostDelete
  <2> QED BY <1>2, <2>1, <2>2, <2>3
<1>6. hosts' \subseteq Hosts /\ edits' \in Nat /\ faults' \in Nat /\ UNCHANGED <<scan, task, active>>
  BY <1>1 DEF S!HostDelete, Shape
<1> QED BY <1>4, <1>5, <1>6, RowsStepKeeps

\* What is known of the rows of a scan whose rows a step leaves alone.
LEMMA WorkElsewhere ==
  ASSUME NEW s,
         \A r : r \in S!Used(result) /\ result[r].scan = s => r \in S!Used(result') /\ result'[r] = result[r],
         \A r : r \in S!Used(result') /\ result'[r].scan = s => r \in S!Used(result) /\ result'[r] = result[r]
  PROVE  \A src, w : WorkSound(result, s, src, w) => WorkSound(result', s, src, w)
<1> SUFFICES ASSUME NEW src, NEW w, WorkSound(result, s, src, w)
             PROVE  WorkSound(result', s, src, w)
  OBVIOUS
<1>1. Mine(result', s, src) = Mine(result, s, src)
  BY DEF Mine
<1>2. \A r \in Mine(result, s, src) : result'[r] = result[r]
  BY DEF Mine
<1>3. ParamsOwn(result', s, src, w.params)
  BY <1>1, <1>2 DEF WorkSound, ParamsOwn
<1>4. w.pc = "end" =>
        \A r \in Mine(result', s, src) :
          result'[r].found # S!Pending \/ \E i \in w.seen : w.params[i].id = r
  BY <1>1, <1>2 DEF WorkSound
<1> QED BY <1>1, <1>3, <1>4 DEF WorkSound

LEMMA MapDeleteKeeps ==
  ASSUME S!ScansAssumption, ScansInv, NEW s \in DOMAIN scan, S!MapDelete(s)
  PROVE  ScansInv'
<1>1. Shape /\ Labels
  BY DEF ScansInv
<1>2. UNCHANGED <<hosts, ports, active, edits, faults>> /\ scan' = [scan EXCEPT ![s] = S!NoRow]
  BY DEF S!MapDelete
<1>3. S!Used(scan') = S!Used(scan) \ {s} /\ DOMAIN scan' = DOMAIN scan
      /\ \A i \in DOMAIN scan : i # s => scan'[i] = scan[i]
  BY <1>2 DEF S!Used
<1>4. /\ DOMAIN result' = DOMAIN result
      /\ \A r \in DOMAIN result : IF result[r] # S!NoRow /\ result[r].scan = s THEN result'[r] = S!NoRow
                                  ELSE result'[r] = result[r]
  BY DEF S!MapDelete
<1>5. S!Used(result') = {r \in S!Used(result) : result[r].scan # s}
  BY <1>4 DEF S!Used
<1>6. \A r \in S!Used(result') : r \in S!Used(result) /\ result[r].scan # s /\ result'[r] = result[r]
  BY <1>4, <1>5 DEF S!Used
<1>7. DOMAIN task' = DOMAIN task /\ Len(task) \in Nat /\ DOMAIN task = 1..Len(task)
  BY <1>1, TasksAre DEF S!MapDelete, S!Orphaned
<1>8. task' \in Seq(S!Range(task')) /\ Len(task') = Len(task)
  <2>1. task' = [u \in 1..Len(task) |-> task'[u]]
    BY <1>7 DEF S!MapDelete, S!Orphaned
  <2> QED BY <1>7, <2>1, SequenceOf
<1>9. ASSUME NEW u \in DOMAIN task
      PROVE  /\ IsTask(task'[u]) /\ task'[u].scan = task[u].scan /\ task'[u].pc = task[u].pc
             /\ task'[u].work = task[u].work /\ task'[u].orphan \in BOOLEAN
             /\ task'[u].orphan = (task[u].orphan \/ (task[u].scan = s /\ S!Alive(u)))
  <2>1. IsTask(task[u]) /\ task[u].orphan \in BOOLEAN
    BY <1>1 DEF Shape
  <2>2. PICK o \in BOOLEAN : o = (task[u].orphan \/ (task[u].scan = s /\ task[u].pc \in {"new", "checks", "done"}))
    BY <2>1
  <2>3. task'[u] = [task[u] EXCEPT !.orphan = o]
    BY <2>2 DEF S!MapDelete, S!Orphaned
  <2>4. task'[u] = [scan |-> task[u].scan, pc |-> task[u].pc, work |-> task[u].work, orphan |-> o]
    BY <2>1, <2>3 DEF IsTask
  <2>5. IsTask(task'[u]) /\ task'[u].orphan = o /\ task'[u].scan = task[u].scan
        /\ task'[u].pc = task[u].pc /\ task'[u].work = task[u].work
    BY <2>4 DEF IsTask
  <2> QED BY <2>2, <2>5 DEF S!Alive
<1>10. Shape'
  <2>1. \A i \in S!Used(scan') :
          /\ IsScan(scan'[i]) /\ scan'[i].config \in Requests
          /\ scan'[i].status \in {"pending", "running", "completed", "failed"}
    BY <1>1, <1>3 DEF Shape, S!Used
  <2>2. \A r \in S!Used(result') : IsRow(result'[r]) /\ result'[r].scan \in S!Used(scan')
    BY <1>1, <1>3, <1>6 DEF Shape
  <2>3. \A u \in DOMAIN task' :
          /\ IsTask(task'[u]) /\ task'[u].scan \in 1..MaxScans /\ task'[u].orphan \in BOOLEAN
          /\ task'[u].pc \in {"new", "checks", "done", "reaped", "dead"}
          /\ \A z \in DOMAIN task'[u].work :
               /\ IsWork(task'[u].work[z])
               /\ task'[u].work[z].pc \in {"queued", "checking", "end", "raised"}
    BY <1>1, <1>7, <1>9 DEF Shape
  <2> QED BY <1>1, <1>2, <1>3, <1>4, <1>8, <2>1, <2>2, <2>3 DEF Shape
<1>11. Labels'
  BY <1>1, <1>2, <1>6 DEF Labels
<1>12. ASSUME S!Undisturbed' PROVE Strong'
  <2>1. \A u \in DOMAIN task : ~task[u].orphan /\ ~(task[u].scan = s /\ S!Alive(u))
    BY <1>7, <1>9, <1>12 DEF S!Undisturbed
  <2>2. Owners /\ RegistryIs /\ S!OwnFinding /\ TasksSound /\ DoneSound
    BY <2>1 DEF ScansInv, Strong, S!Undisturbed
  <2>3. \A u \in DOMAIN task : S!Alive(u)' <=> S!Alive(u)
    BY <1>9 DEF S!Alive
  <2>4. Owners'
    BY <1>3, <1>7, <1>9, <2>1, <2>2, <2>3 DEF Owners
  <2>5. RegistryIs'
    BY <1>2, <1>7, <1>9, <2>2, <2>3 DEF RegistryIs
  <2>6. S!OwnFinding'
    BY <1>6, <2>2 DEF S!OwnFinding
  <2>7. TasksSound'
    <3> SUFFICES ASSUME NEW u \in DOMAIN task, S!Alive(u), NEW z \in DOMAIN task[u].work
                 PROVE  WorkSound(result', task[u].scan, z, task[u].work[z])
      BY <1>7, <1>9, <2>3 DEF TasksSound
    <3>1. task[u].scan # s /\ WorkSound(result, task[u].scan, z, task[u].work[z])
      BY <2>1, <2>2 DEF TasksSound
    <3>2. \A r : r \in S!Used(result) /\ result[r].scan = task[u].scan => r \in S!Used(result') /\ result'[r] = result[r]
      BY <1>4, <1>5, <3>1 DEF S!Used
    <3>3. \A r : r \in S!Used(result') /\ result'[r].scan = task[u].scan => r \in S!Used(result) /\ result'[r] = result[r]
      BY <1>6
    <3> QED BY <3>1, <3>2, <3>3, WorkElsewhere
  <2>8. DoneSound'
    <3> SUFFICES ASSUME NEW u \in DOMAIN task, task[u].pc = "done",
                        scan'[task[u].scan].status = "completed"
                 PROVE  \A z \in DOMAIN task[u].work : task[u].work[z].pc \in {"end", "raised"}
      BY <1>7, <1>9 DEF DoneSound
    <3>1. task[u].scan # s /\ task[u].scan \in DOMAIN scan
      BY <1>1, <2>1 DEF S!Alive, Shape
    <3> QED BY <1>3, <2>2, <3>1 DEF DoneSound
  <2> QED BY <2>4, <2>5, <2>6, <2>7, <2>8 DEF Strong
<1> QED BY <1>10, <1>11, <1>12 DEF ScansInv

LEMMA Quotient ==
  ASSUME NEW x \in Nat, NEW p \in Nat, NEW n \in Nat, p > 0, x < n * p
  PROVE  x \div p \in Nat /\ x \div p < n
<1>1. PICK k \in Int : k = x \div p
  OBVIOUS
<1>2. k >= 0 /\ p * k <= x
  BY <1>1
<1>3. ASSUME k >= n PROVE FALSE
  <2>1. PICK d \in Nat : k = n + d
    BY <1>2, <1>3
  <2>2. p * k = n * p + d * p
    BY <2>1
  <2>3. d * p >= 0 /\ d * p \in Int /\ n * p \in Int /\ p * k \in Int
    BY <2>1
  <2> QED BY <1>2, <2>2, <2>3
<1> QED BY <1>1, <1>2, <1>3

\* The rows of a request.
LEMMA RowsOfSound ==
  ASSUME S!ScansAssumption, NEW s, NEW q \in Requests
  PROVE  /\ Len(S!RowsOf(s, q)) \in Nat /\ DOMAIN S!RowsOf(s, q) = 1..Len(S!RowsOf(s, q))
         /\ \A i \in DOMAIN S!RowsOf(s, q) :
              /\ IsRow(S!RowsOf(s, q)[i]) /\ S!RowsOf(s, q)[i].scan = s
              /\ S!RowsOf(s, q)[i].label \in hosts \cup {Server}
              /\ S!RowsOf(s, q)[i].src = S!RowsOf(s, q)[i].label /\ S!RowsOf(s, q)[i].found = S!Pending
<1> DEFINE here == S!Kept(q.sources, hosts \cup {Server})
           ready == S!Kept(q.ports, S!Used(ports))
           per == Len(q.dests) * Len(ready)
           a(i) == here[((i - 1) \div per) + 1]
           b(i) == q.dests[(((i - 1) % per) \div Len(ready)) + 1]
           c(i) == ports[ready[((i - 1) % Len(ready)) + 1]].number
           N == Len(here) * per
<1>1. /\ Len(q.sources) \in Nat /\ DOMAIN q.sources = 1..Len(q.sources)
      /\ Len(q.ports) \in Nat /\ DOMAIN q.ports = 1..Len(q.ports) /\ Len(q.dests) \in Nat
  BY DEF S!ScansAssumption
<1>2. /\ Len(here) \in Nat /\ DOMAIN here = 1..Len(here)
      /\ \A k \in 1..Len(here) : here[k] \in hosts \cup {Server}
  BY <1>1, KeptSound
<1>3. Len(ready) \in Nat
  BY <1>1, KeptSound
<1> HIDE DEF here, ready
<1>4. per \in Nat /\ N \in Nat
  BY <1>1, <1>2, <1>3
<1>5. S!RowsOf(s, q) = [i \in 1..N |-> S!Row(s, a(i), b(i), c(i))]
  BY DEF S!RowsOf, here, ready
<1> HIDE DEF a, b, c, N
<1>6. DOMAIN S!RowsOf(s, q) = 1..N /\ Len(S!RowsOf(s, q)) = N
  BY <1>4, <1>5, SequenceOf
<1>7. ASSUME NEW i \in 1..N PROVE a(i) \in hosts \cup {Server}
  <2> DEFINE k == (i - 1) \div per
  <2>1. N = Len(here) * per /\ i - 1 \in Nat /\ i - 1 < Len(here) * per
    BY <1>4 DEF N
  <2> HIDE DEF per
  <2>2. per > 0
    BY <1>2, <1>4, <2>1
  <2>3. k \in Nat /\ k < Len(here)
    BY <1>2, <1>4, <2>1, <2>2, Quotient
  <2>4. k + 1 \in 1..Len(here)
    BY <1>2, <2>3
  <2> QED BY <1>2, <2>4 DEF a
<1>8. ASSUME NEW i \in 1..N
      PROVE  /\ IsRow(S!RowsOf(s, q)[i]) /\ S!RowsOf(s, q)[i].scan = s
             /\ S!RowsOf(s, q)[i].label = a(i)
             /\ S!RowsOf(s, q)[i].src = a(i) /\ S!RowsOf(s, q)[i].found = S!Pending
  <2>1. S!RowsOf(s, q)[i] = [scan |-> s, src |-> a(i), label |-> a(i), dst |-> b(i), port |-> c(i),
                           found |-> S!Pending]
    BY <1>5 DEF S!Row
  <2> QED BY <2>1 DEF IsRow
<1> QED BY <1>4, <1>6, <1>7, <1>8

LEMMA EnterKeeps ==
  ASSUME S!ScansAssumption, ScansInv, NEW q \in Requests, S!Enter(q)
  PROVE  ScansInv'
<1>1. PICK s : s = S!NextId(scan)
  OBVIOUS
<1>2. PICK first : first = S!NextId(result)
  OBVIOUS
<1>3. PICK new : new = S!RowsOf(s, q)
  OBVIOUS
<1>4. PICK x : x = [scan |-> s, pc |-> "new", work |-> <<>>, orphan |-> FALSE]
  OBVIOUS
<1>5. Shape /\ Labels
  BY DEF ScansInv
<1>6. /\ MaxScans \in Nat /\ MaxRows \in Nat
      /\ DOMAIN scan = 1..MaxScans /\ DOMAIN result = 1..MaxRows
  BY <1>5 DEF Shape, S!ScansAssumption
<1>7. s \in Nat \ {0} /\ \A i \in S!Used(scan) : i < s
  BY <1>1, <1>6, NextIsFree
<1>8. first \in Nat \ {0} /\ \A i \in S!Used(result) : i < first
  BY <1>2, <1>6, NextIsFree
<1>9. /\ Len(new) \in Nat /\ DOMAIN new = 1..Len(new)
      /\ \A i \in 1..Len(new) :
           /\ IsRow(new[i]) /\ new[i].scan = s /\ new[i].label \in hosts \cup {Server}
           /\ new[i].src = new[i].label /\ new[i].found = S!Pending
  BY <1>3, RowsOfSound
<1>10. /\ s <= MaxScans /\ scan' = [scan EXCEPT ![s] = [status |-> "pending", config |-> q]]
       /\ result' = [r \in DOMAIN result |-> IF r \in first..(first + Len(new) - 1)
                                               THEN new[r - first + 1] ELSE result[r]]
       /\ task' = Append(task, x) /\ active' = [active EXCEPT ![s] = Len(task) + 1]
       /\ UNCHANGED <<hosts, ports, edits, faults>>
  BY <1>1, <1>2, <1>3, <1>4 DEF S!Enter
<1>11. s \in 1..MaxScans /\ s \notin S!Used(scan)
  <2>1. s \notin S!Used(scan)
    BY <1>7
  <2> QED BY <1>6, <1>7, <1>10, <2>1
<1>12. scan'[s] = [status |-> "pending", config |-> q] /\ DOMAIN scan' = 1..MaxScans
       /\ \A i \in 1..MaxScans : i # s => scan'[i] = scan[i]
  BY <1>6, <1>10, <1>11
<1>13. IsScan(scan'[s]) /\ scan'[s].status = "pending" /\ scan'[s].config = q
  BY <1>12 DEF IsScan
<1>14. S!Used(scan') = S!Used(scan) \cup {s}
  BY <1>6, <1>11, <1>12, <1>13, ScanIsThere DEF S!Used
<1>15. ASSUME NEW r \in 1..MaxRows
       PROVE  \/ /\ r \notin S!Used(result) /\ r \in S!Used(result') /\ IsRow(result'[r]) /\ result'[r].scan = s
                 /\ result'[r].label \in hosts \cup {Server}
                 /\ result'[r].src = result'[r].label /\ result'[r].found = S!Pending
              \/ result'[r] = result[r]
  <2>1. CASE r \in first..(first + Len(new) - 1)
    <3>1. r - first + 1 \in 1..Len(new)
      BY <1>8, <1>9, <2>1
    <3>2. result'[r] = new[r - first + 1] /\ r \in DOMAIN result'
      BY <1>6, <1>10, <2>1
    <3>3. r \notin S!Used(result)
      <4>1. ~ (r < first)
        BY <1>8, <2>1
      <4> QED BY <1>8, <4>1
    <3>4. /\ IsRow(result'[r]) /\ result'[r].scan = s /\ result'[r].label \in hosts \cup {Server}
          /\ result'[r].src = result'[r].label /\ result'[r].found = S!Pending
      BY <1>9, <3>1, <3>2
    <3>5. r \in S!Used(result')
      BY <3>2, <3>4, RowIsThere DEF S!Used
    <3> QED BY <3>3, <3>4, <3>5
  <2>2. CASE r \notin first..(first + Len(new) - 1)
    BY <1>6, <1>10, <2>2
  <2> QED BY <2>1, <2>2
<1>16. DOMAIN result' = 1..MaxRows
  BY <1>6, <1>10
<1>17. ASSUME NEW r \in S!Used(result')
       PROVE  \/ /\ r \notin S!Used(result) /\ IsRow(result'[r]) /\ result'[r].scan = s
                 /\ result'[r].label \in hosts \cup {Server}
                 /\ result'[r].src = result'[r].label /\ result'[r].found = S!Pending
              \/ result'[r] = result[r] /\ r \in S!Used(result)
  <2>1. r \in 1..MaxRows /\ result'[r] # S!NoRow
    BY <1>16 DEF S!Used
  <2> QED BY <1>6, <1>15, <2>1 DEF S!Used
<1>18. ASSUME NEW r \in S!Used(result)
       PROVE  r \in S!Used(result') /\ result'[r] = result[r]
  <2>1. r \in 1..MaxRows /\ result[r] # S!NoRow
    BY <1>6 DEF S!Used
  <2> QED BY <1>15, <1>16, <2>1 DEF S!Used
<1>19. /\ IsTask(x) /\ x.scan = s /\ x.pc = "new" /\ x.work = <<>> /\ x.orphan = FALSE
       /\ DOMAIN x.work = {}
  <2>1. x.scan = s /\ x.pc = "new" /\ x.work = <<>> /\ x.orphan = FALSE
    BY <1>4
  <2>2. IsTask(x)
    BY <1>4 DEF IsTask
  <2> QED BY <2>1, <2>2
<1>20. /\ Len(task) \in Nat /\ DOMAIN task = 1..Len(task)
       /\ DOMAIN task' = 1..(Len(task) + 1) /\ Len(task') = Len(task) + 1
       /\ task'[Len(task) + 1] = x /\ \A u \in 1..Len(task) : task'[u] = task[u]
       /\ task' \in Seq(S!Range(task'))
  <2>1. task \in Seq(S!Range(task)) /\ Len(task) \in Nat /\ DOMAIN task = 1..Len(task)
    BY <1>5, TasksAre DEF Shape
  <2>2. task' \in Seq(S!Range(task) \cup {x})
    BY <1>10, <2>1
  <2>3. /\ DOMAIN task' = 1..(Len(task) + 1) /\ Len(task') = Len(task) + 1
        /\ task'[Len(task) + 1] = x /\ \A u \in 1..Len(task) : task'[u] = task[u]
    BY <1>10, <2>1
  <2>4. PICK m \in Nat : m = Len(task) + 1
    BY <2>1
  <2>a. DOMAIN task' = 1..m /\ task' = [u \in 1..m |-> task'[u]]
    BY <2>2, <2>3, <2>4
  <2>5. task' \in Seq(S!Range(task'))
    BY <2>a, SequenceOf
  <2> QED BY <2>1, <2>3, <2>5
<1>21. Shape'
  <2>1. \A i \in S!Used(scan') :
          /\ IsScan(scan'[i]) /\ scan'[i].config \in Requests
          /\ scan'[i].status \in {"pending", "running", "completed", "failed"}
    <3> SUFFICES ASSUME NEW i \in S!Used(scan'), i # s
                 PROVE  /\ IsScan(scan'[i]) /\ scan'[i].config \in Requests
                        /\ scan'[i].status \in {"pending", "running", "completed", "failed"}
      BY <1>13
    <3>1. i \in S!Used(scan) /\ i \in 1..MaxScans
      BY <1>6, <1>14 DEF S!Used
    <3> QED BY <1>5, <1>12, <3>1 DEF Shape
  <2>2. \A r \in S!Used(result') : IsRow(result'[r]) /\ result'[r].scan \in S!Used(scan')
    BY <1>5, <1>14, <1>17 DEF Shape
  <2>3. ASSUME NEW u \in DOMAIN task'
        PROVE  /\ IsTask(task'[u]) /\ task'[u].scan \in 1..MaxScans /\ task'[u].orphan \in BOOLEAN
               /\ task'[u].pc \in {"new", "checks", "done", "reaped", "dead"}
               /\ \A z \in DOMAIN task'[u].work :
                    /\ IsWork(task'[u].work[z])
                    /\ task'[u].work[z].pc \in {"queued", "checking", "end", "raised"}
    <3>1. CASE u = Len(task) + 1
      BY <1>11, <1>19, <1>20, <3>1
    <3>2. CASE u # Len(task) + 1
      <4>1. u \in DOMAIN task /\ task'[u] = task[u]
        BY <1>20, <3>2
      <4> QED BY <1>5, <4>1 DEF Shape
    <3> QED BY <3>1, <3>2
  <2>4. active' \in [1..MaxScans -> 0..Len(task')]
    <3>1. active \in [1..MaxScans -> 0..Len(task)]
      BY <1>5 DEF Shape
    <3>2. active \in [1..MaxScans -> 0..(Len(task) + 1)] /\ Len(task) + 1 \in 0..(Len(task) + 1)
      BY <1>20, <3>1
    <3> QED BY <1>10, <1>11, <1>20, <3>2
  <2> QED BY <1>5, <1>10, <1>12, <1>16, <1>20, <2>1, <2>2, <2>3, <2>4 DEF Shape
<1>22. Labels'
  <2>1. hosts \subseteq Hosts
    BY <1>5 DEF Shape
  <2> SUFFICES ASSUME NEW r \in S!Used(result')
               PROVE  /\ result'[r].label \in Hosts \cup {Server}
                      /\ result'[r].src = IF result'[r].label \in hosts \cup {Server}
                                            THEN result'[r].label ELSE S!NoSource
    BY <1>10 DEF Labels
  <2>2. CASE result'[r] = result[r] /\ r \in S!Used(result)
    BY <1>5, <2>2 DEF Labels
  <2>3. CASE result'[r].label \in hosts \cup {Server} /\ result'[r].src = result'[r].label
    BY <2>1, <2>3
  <2> QED BY <1>17, <2>2, <2>3
<1>23. ASSUME S!Undisturbed' PROVE Strong'
  <2>1. S!Undisturbed
    BY <1>20, <1>23 DEF S!Undisturbed
  <2>2. Owners /\ RegistryIs /\ S!OwnFinding /\ TasksSound /\ DoneSound
    BY <2>1 DEF ScansInv, Strong
  <2>b. PICK n : n = Len(task) + 1
    OBVIOUS
  <2>3. /\ S!Alive(n)' /\ task'[n].scan = s /\ n \in DOMAIN task' /\ n # 0
        /\ \A u \in DOMAIN task : (S!Alive(u)' <=> S!Alive(u)) /\ task'[u] = task[u] /\ u # n
        /\ \A u \in DOMAIN task' : u \in DOMAIN task \/ u = n
        /\ \A u \in DOMAIN task : u \in DOMAIN task'
    <3>1. n \in DOMAIN task' /\ n # 0 /\ \A u \in DOMAIN task : u # n /\ u \in DOMAIN task'
      BY <1>20, <2>b
    <3>2. \A u \in DOMAIN task' : u \in DOMAIN task \/ u = n
      BY <1>20, <2>b
    <3>3. task'[n] = x /\ \A u \in DOMAIN task : task'[u] = task[u]
      BY <1>20, <2>b
    <3>4. task'[n].scan = s /\ task'[n].pc = "new"
      BY <1>19, <3>3
    <3>5. S!Alive(n)'
      BY <3>4 DEF S!Alive
    <3>6. \A u \in DOMAIN task : S!Alive(u)' <=> S!Alive(u)
      BY <3>3 DEF S!Alive
    <3> QED BY <3>1, <3>2, <3>3, <3>4, <3>5, <3>6
  <2>4. \A u \in DOMAIN task : S!Alive(u) => task[u].scan # s /\ task[u].scan \in S!Used(scan)
    BY <1>11, <2>2 DEF Owners
  <2>a. task'[n] = x /\ active'[s] = n /\ \A i \in 1..MaxScans : i # s => active'[i] = active[i]
    BY <1>5, <1>10, <1>11, <1>20, <2>b DEF Shape
  <2>5. Owners'
    <3> SUFFICES ASSUME NEW u \in DOMAIN task', S!Alive(u)'
                 PROVE  /\ task'[u].scan \in S!Used(scan')
                        /\ \A z \in DOMAIN task' : S!Alive(z)' /\ task'[z].scan = task'[u].scan => z = u
      BY DEF Owners
    <3>1. CASE u = n
      BY <1>14, <2>3, <2>4, <3>1
    <3>2. CASE u \in DOMAIN task
      <4>1. task'[u] = task[u] /\ S!Alive(u)
        BY <2>3, <3>2
      <4>2. task[u].scan # s /\ task[u].scan \in S!Used(scan)
        BY <2>4, <3>2, <4>1
      <4>3. ASSUME NEW z \in DOMAIN task', S!Alive(z)', task'[z].scan = task'[u].scan PROVE z = u
        <5>1. z \in DOMAIN task /\ task'[z] = task[z] /\ S!Alive(z)
          BY <2>3, <4>1, <4>2, <4>3
        <5> QED BY <2>2, <3>2, <4>1, <4>3, <5>1 DEF Owners
      <4> QED BY <1>14, <4>1, <4>2, <4>3
    <3> QED BY <2>3, <3>1, <3>2
  <2>6. RegistryIs'
    <3> SUFFICES ASSUME NEW i \in 1..MaxScans
                 PROVE  (active'[i] # 0) <=> \E u \in DOMAIN task' : S!Alive(u)' /\ task'[u].scan = i
      BY DEF RegistryIs
    <3>1. CASE i = s
      BY <2>3, <2>a, <3>1
    <3>2. CASE i # s
      <4>1. active'[i] = active[i]
        BY <2>a, <3>2
      <4>2. (\E u \in DOMAIN task' : S!Alive(u)' /\ task'[u].scan = i)
              <=> \E u \in DOMAIN task : S!Alive(u) /\ task[u].scan = i
        BY <2>3, <3>2
      <4> QED BY <2>2, <4>1, <4>2 DEF RegistryIs
    <3> QED BY <3>1, <3>2
  <2>7. S!OwnFinding'
    BY <1>17, <2>2 DEF S!OwnFinding
  <2>8. TasksSound'
    <3> SUFFICES ASSUME NEW u \in DOMAIN task', S!Alive(u)', NEW z \in DOMAIN task'[u].work
                 PROVE  WorkSound(result', task'[u].scan, z, task'[u].work[z])
      BY DEF TasksSound
    <3>1. u \in DOMAIN task
      BY <1>19, <2>3, <2>a
    <3>2. task'[u] = task[u] /\ S!Alive(u)
      BY <2>3, <3>1
    <3>3. task[u].scan # s /\ WorkSound(result, task[u].scan, z, task[u].work[z])
      BY <2>2, <2>4, <3>1, <3>2 DEF TasksSound
    <3>4. \A r : r \in S!Used(result) /\ result[r].scan = task[u].scan => r \in S!Used(result') /\ result'[r] = result[r]
      BY <1>18
    <3>5. \A r : r \in S!Used(result') /\ result'[r].scan = task[u].scan => r \in S!Used(result) /\ result'[r] = result[r]
      BY <1>17, <3>3
    <3> QED BY <3>2, <3>3, <3>4, <3>5, WorkElsewhere
  <2>9. DoneSound'
    <3> SUFFICES ASSUME NEW u \in DOMAIN task', task'[u].pc = "done",
                        scan'[task'[u].scan].status = "completed"
                 PROVE  \A z \in DOMAIN task'[u].work : task'[u].work[z].pc \in {"end", "raised"}
      BY DEF DoneSound
    <3>1. u \in DOMAIN task
      BY <1>19, <2>3, <2>a
    <3>2. task'[u] = task[u] /\ S!Alive(u)
      BY <2>3, <3>1 DEF S!Alive
    <3>3. task[u].scan # s /\ task[u].scan \in 1..MaxScans
      BY <1>5, <2>4, <3>1, <3>2 DEF Shape
    <3>4. scan'[task[u].scan] = scan[task[u].scan]
      BY <1>12, <3>3
    <3> QED BY <2>2, <3>1, <3>2, <3>4 DEF DoneSound
  <2> QED BY <2>5, <2>6, <2>7, <2>8, <2>9 DEF Strong
<1> QED BY <1>21, <1>22, <1>23 DEF ScansInv

LEMMA InitScans ==
  ASSUME S!ScansAssumption, S!Init
  PROVE  ScansInv
<1>1. S!Used(scan) = {} /\ S!Used(result) = {} /\ DOMAIN scan = 1..MaxScans /\ DOMAIN result = 1..MaxRows
  BY DEF S!Init, S!Used
<1>2. task = <<>> /\ DOMAIN task = {} /\ Len(task) = 0 /\ task \in Seq(S!Range(task))
  BY DEF S!Init
<1>3. active \in [1..MaxScans -> 0..Len(task)] /\ \A s \in 1..MaxScans : active[s] = 0
  BY <1>2 DEF S!Init
<1>4. hosts \subseteq Hosts /\ edits \in Nat /\ faults \in Nat
  BY DEF S!Init
<1>5. Shape
  BY <1>1, <1>2, <1>3, <1>4 DEF Shape
<1>6. Labels /\ S!OwnFinding
  BY <1>1 DEF Labels, S!OwnFinding
<1>7. Owners /\ TasksSound /\ DoneSound
  BY <1>2 DEF Owners, TasksSound, DoneSound
<1>8. RegistryIs
  BY <1>2, <1>3 DEF RegistryIs
<1> QED BY <1>5, <1>6, <1>7, <1>8 DEF ScansInv, Strong

LEMMA NextKeepsScans ==
  ASSUME S!ScansAssumption, ScansInv, [S!Next]_(S!vars)
  PROVE  ScansInv'
<1>1. ASSUME NEW q \in Requests, S!MapCreate(q) PROVE ScansInv'
  BY <1>1, EnterKeeps DEF S!MapCreate
<1>2. ASSUME NEW s \in DOMAIN scan, S!MapRerun(s) PROVE ScansInv'
  <2>1. scan[s].config \in Requests
    BY <1>2 DEF ScansInv, Shape, S!Used, S!MapRerun
  <2> QED BY <1>2, <2>1, EnterKeeps DEF S!MapRerun
<1>3. ASSUME NEW s \in DOMAIN scan, S!MapDelete(s) PROVE ScansInv'
  BY <1>3, MapDeleteKeeps
<1>4. ASSUME NEW h \in Hosts, S!HostDelete(h) PROVE ScansInv'
  BY <1>4, HostDeleteKeeps
<1>5. ASSUME NEW n \in Ports, S!PortCreate(n) PROVE ScansInv'
  BY <1>5, OthersKeep DEF S!PortCreate, ScansInv, Shape
<1>6. ASSUME NEW i \in DOMAIN ports, S!PortDelete(i) PROVE ScansInv'
  BY <1>6, OthersKeep DEF S!PortDelete, ScansInv, Shape
<1>7. ASSUME NEW t \in DOMAIN task, S!Run(t) \/ S!RunFails(t) \/ S!RunCompletes(t) \/ S!Reap(t) PROVE ScansInv'
  BY <1>7, RunKeeps, RunFailsKeeps, RunCompletesKeeps, ReapKeeps
<1>8. ASSUME NEW t \in DOMAIN task, NEW src \in Hosts \cup {Server},
             S!SourceStep(t, src) \/ S!ConnectFails(t, src) \/ S!ReportFails(t, src) \/ S!ProbeRaises(t, src)
      PROVE  ScansInv'
  BY <1>8, CheckSourceKeeps, SourceRefusedKeeps, ProbeKeeps, ConnectFailsKeeps, ReportFailsKeeps,
     ProbeRaisesKeeps DEF S!SourceStep
<1>9. ASSUME S!Restart PROVE ScansInv'
  BY <1>9, RestartKeeps
<1>10. ASSUME UNCHANGED S!vars PROVE ScansInv'
  BY <1>10, OthersKeep DEF S!vars, ScansInv, Shape
<1> QED BY <1>1, <1>2, <1>3, <1>4, <1>5, <1>6, <1>7, <1>8, <1>9, <1>10 DEF S!Next

\* The assumption about the constants, as the instance states it.
LEMMA ScanConstants == S!ScansAssumption
BY ScansAssumption
   DEF ScansAssumption, S!ScansAssumption, Sources, S!Sources, NoSource, S!NoSource

\* The inductive invariant holds for every number of scans, rows, tasks and sources.
THEOREM ScansInvariant == S!Spec => []ScansInv
<1>1. S!Init => ScansInv
  BY InitScans, ScanConstants
<1>2. ScansInv /\ [S!Next]_(S!vars) => ScansInv'
  BY NextKeepsScans, ScanConstants
<1> QED BY <1>1, <1>2, PTL DEF S!Spec

\* No result outlives its scan, and as long as no scan is deleted under its task each
\* result is that of the row's own check and exactly the running scans are registered.
THEOREM ScansAreSound == S!Spec => []ScansSound
<1>1. ScansInv => S!ScansSound
  <2> SUFFICES ASSUME ScansInv PROVE S!ScansSound
    OBVIOUS
  <2>1. S!ScansTyped
    <3>1. Shape
      BY DEF ScansInv
    <3>2. \A t \in DOMAIN task : \A w \in S!Range(task[t].work) : w.pc \in {"queued", "checking", "end", "raised"}
      BY <3>1 DEF Shape, S!Range
    <3> QED BY <3>1, <3>2 DEF Shape, S!ScansTyped
  <2>2. S!OwnUndisturbed
    BY DEF ScansInv, Strong, S!OwnUndisturbed
  <2>3. S!RegistryExact
    <3>1. DOMAIN active = 1..MaxScans
      BY DEF ScansInv, Shape
    <3> QED BY <3>1 DEF ScansInv, Strong, RegistryIs, S!RegistryExact
  <2> QED BY <2>1, <2>2, <2>3 DEF S!ScansSound
<1>2. S!ScansSound => ScansSound
  BY DEF S!ScansSound, S!ScansTyped, S!OwnUndisturbed, S!OwnFinding, S!RegistryExact, S!Undisturbed, S!Alive, S!Used, S!NoRow,
    S!Pending, S!Range, ScansSound, ScansTyped, OwnUndisturbed, OwnFinding,
    RegistryExact, Undisturbed, Alive, Used, NoRow, Pending, Range
<1> QED BY <1>1, <1>2, ScansInvariant, PTL

\* A completed scan has a result in every row, except where its source was deleted
\* before the scan began, where a check or a write raised, and where a scan was
\* deleted under its task.
THEOREM CompletedAreChecked == S!Spec => []CompletedIsChecked
<1>1. ScansInv => S!CompletedIsChecked
  <2> SUFFICES ASSUME ScansInv, S!Undisturbed, NEW t \in DOMAIN task, NEW r \in S!Used(result),
                      result[r].scan = task[t].scan, task[t].pc = "done",
                      scan[result[r].scan].status = "completed", result[r].found = S!Pending,
                      result[r].label \in DOMAIN task[t].work
               PROVE  \/ task[t].work[result[r].label].pc = "raised"
                      \/ \E i \in task[t].work[result[r].label].seen :
                           task[t].work[result[r].label].params[i].id = r
    BY DEF S!CompletedIsChecked
  <2> DEFINE src == result[r].label
             w == task[t].work[src]
  <2>1. w.pc \in {"end", "raised"}
    BY DEF ScansInv, Strong, DoneSound
  <2>2. WorkSound(result, task[t].scan, src, w)
    BY DEF ScansInv, Strong, TasksSound, S!Alive
  <2>3. r \in Mine(result, task[t].scan, src)
    BY Zenon DEF Mine
  <2> HIDE DEF src, w
  <2>4. CASE w.pc = "end"
    BY <2>2, <2>3, <2>4 DEF WorkSound, src, w
  <2> QED BY <2>1, <2>4 DEF src, w
<1>2. S!CompletedIsChecked => CompletedIsChecked
  BY DEF S!CompletedIsChecked, S!Undisturbed, S!Used, S!NoRow, S!Pending, CompletedIsChecked, Undisturbed,
    Used, NoRow, Pending
<1> QED BY <1>1, <1>2, ScansInvariant, PTL
=============================================================================
