---------------------------- MODULE JumpTunnels ----------------------------
(***************************************************************************)
(* The process-wide pool of jump-host SSH connections of                   *)
(* dosm/jumps/tunnels.py (JumpTunnelManager), together with the code that  *)
(* leases from it: the Guacamole connect handler, which hands its lease to *)
(* a browser session, and the callers that release in a `finally` (ping,   *)
(* winrm_exec, the network scanner, the FTP backend).                      *)
(*                                                                         *)
(* The manager runs on one asyncio event loop.  Code between two awaits is *)
(* one step.  Its asyncio.Lock is held across awaits only by acquire and   *)
(* acquire_socks, so `lock` is a client slot or NoOne; every other critical*)
(* section is a single step that needs the lock to be free.                *)
(*                                                                         *)
(* A client is a slot that serves one request after another.  A key is a   *)
(* chain signature with either a forward target (hostname, port) or the    *)
(* SOCKS proxy of that chain.                                              *)
(***************************************************************************)
EXTENDS Naturals, FiniteSets

CONSTANTS Clients,   \* request slots that may hold a lease
          Sigs,      \* jump-chain signatures, the keys of _jumps
          Targets,   \* (hostname, port) pairs, the keys of entry.forwards
          Socks,     \* stands for the one SOCKS listener of an entry
          ChainLen,  \* number of jump hops of each chain
          NoOne      \* the lock is free

ASSUME ConstantsAssumption ==
    /\ IsFiniteSet(Clients)
    /\ Sigs # {}
    /\ Socks \notin Targets
    /\ NoOne \notin Clients
    /\ ChainLen \in [Sigs -> Nat \ {0}]

Keys == Sigs \X (Targets \cup {Socks})

VARIABLES
    lock,      \* holder of JumpTunnelManager._lock across an await
    pc,        \* where each client slot is
    kind,      \* which caller the slot runs
    key,       \* the key the slot leases
    lease,     \* the slot's TunnelLease / SocksLease object
    hop,       \* hops of the chain the lock holder has connected
    pooled,    \* the keys of _jumps
    dead,      \* pooled entries whose SSH connection has dropped
    open,      \* keys with a _ForwardEntry, or with a socks_listener
    count,     \* lease_count / socks_lease_count
    stale,     \* entries whose last_active is 300 s old or more
    gcpc,      \* gc_loop: asleep, or waiting for the lock inside gc()
    gcStale,   \* entries old enough for the `now` that gc() has read
    sessions,  \* slots whose lease is in _sessions
    ttl,       \* sessions whose _auto_release task still sleeps
    tab,       \* sessions whose browser tab is open
    beacon,    \* disconnect beacons on their way to host_disconnect
    leaked     \* chains with an open hop connection nobody holds

poolVars == <<pooled, dead, open, count, stale, gcStale>>
callVars == <<pc, kind, key, lease>>
sessVars == <<sessions, ttl, tab, beacon>>
vars == <<lock, hop, poolVars, callVars, gcpc, sessVars, leaked>>

Kinds == {"connect", "scoped", "ftp"}
PCs == {"idle", "want", "holding", "using", "unwinding", "releasing",
        "registering", "session", "raised"}
LeaseStates == {"none", "live", "closing", "closed"}

Sig(c) == key[c][1]

Init ==
    /\ lock = NoOne
    /\ pc = [c \in Clients |-> "idle"]
    /\ kind = [c \in Clients |-> "scoped"]
    /\ key = [c \in Clients |-> CHOOSE k \in Keys : TRUE]
    /\ lease = [c \in Clients |-> "none"]
    /\ hop = 0
    /\ pooled = {} /\ dead = {} /\ open = {} /\ stale = {} /\ gcStale = {}
    /\ count = [k \in Keys |-> 0]
    /\ gcpc = "sleep"
    /\ sessions = {} /\ ttl = {} /\ tab = {} /\ beacon = {}
    /\ leaked = {}

\* entry.last_active = time.monotonic()
Touch(s) ==
    /\ stale' = stale \ {s}
    /\ gcStale' = gcStale \ {s}

-----------------------------------------------------------------------------
(* acquire and acquire_socks *)

\* A request arrives whose host has the jump chain of k.  FTP leases the SOCKS
\* proxy, every other caller a forward.
Begin(c) ==
    /\ pc[c] = "idle"
    /\ \E kd \in Kinds, k \in Keys :
          /\ (kd = "ftp") <=> (k[2] = Socks)
          /\ kind' = [kind EXCEPT ![c] = kd]
          /\ key' = [key EXCEPT ![c] = k]
    /\ pc' = [pc EXCEPT ![c] = "want"]
    /\ UNCHANGED <<lock, hop, poolVars, lease, gcpc, sessVars, leaked>>

\* `async with self._lock`
AcquireLock(c) ==
    /\ pc[c] = "want"
    /\ lock = NoOne
    /\ lock' = c
    /\ pc' = [pc EXCEPT ![c] = "holding"]
    /\ UNCHANGED <<hop, poolVars, kind, key, lease, gcpc, sessVars, leaked>>

\* One asyncssh.connect of _open_chain; the last one makes the _JumpEntry.
OpenHop(c) ==
    /\ pc[c] = "holding"
    /\ Sig(c) \notin pooled
    /\ IF hop + 1 < ChainLen[Sig(c)]
       THEN /\ hop' = hop + 1
            /\ UNCHANGED poolVars
       ELSE /\ hop' = 0
            /\ pooled' = pooled \cup {Sig(c)}
            /\ dead' = dead \ {Sig(c)}
            /\ Touch(Sig(c))
            /\ UNCHANGED <<open, count>>
    /\ UNCHANGED <<lock, callVars, gcpc, sessVars, leaked>>

\* asyncssh.connect raises: the error leaves `async with`, and with it the
\* connections of the hops before, which only the local `prev` referred to.
OpenFails(c) ==
    /\ pc[c] = "holding"
    /\ Sig(c) \notin pooled
    /\ leaked' = IF hop > 0 THEN leaked \cup {Sig(c)} ELSE leaked
    /\ hop' = 0
    /\ lock' = NoOne
    /\ pc' = [pc EXCEPT ![c] = "idle"]
    /\ UNCHANGED <<poolVars, kind, key, lease, gcpc, sessVars>>

\* Mutant: the lock is acquired and released by hand, and not on this error path.
ListenFailsKeepsLock(c) ==
    /\ pc[c] = "holding"
    /\ Sig(c) \in pooled
    /\ key[c] \notin open
    /\ pc' = [pc EXCEPT ![c] = "idle"]
    /\ UNCHANGED <<lock, hop, poolVars, kind, key, lease, gcpc, sessVars, leaked>>

\* forward_local_port or forward_socks raises (always, on a dead connection).
\* The entry stays in the pool and last_active is not written.
ListenFails(c) ==
    /\ pc[c] = "holding"
    /\ Sig(c) \in pooled
    /\ key[c] \notin open
    /\ lock' = NoOne
    /\ pc' = [pc EXCEPT ![c] = "idle"]
    /\ UNCHANGED <<hop, poolVars, kind, key, lease, gcpc, sessVars, leaked>>

\* The listener is there, or has just been opened on the pooled connection:
\* count the lease and hand it out.
Grant(c) ==
    /\ pc[c] = "holding"
    /\ Sig(c) \in pooled
    /\ key[c] \in open \/ Sig(c) \notin dead
    /\ open' = open \cup {key[c]}
    /\ count' = [count EXCEPT ![key[c]] = @ + 1]
    /\ Touch(Sig(c))
    /\ lease' = [lease EXCEPT ![c] = "live"]
    /\ lock' = NoOne
    /\ pc' = [pc EXCEPT ![c] = "using"]
    /\ UNCHANGED <<hop, pooled, dead, kind, key, gcpc, sessVars, leaked>>

-----------------------------------------------------------------------------
(* Releasing *)

\* Mutant: release() without the `_released` flag.
ReleaseUnguarded(c) == lease' = [lease EXCEPT ![c] = "closing"]

\* TunnelLease.release / SocksLease.release: the first call sets _released and
\* goes on to the manager, every later call returns.
Release(c) ==
    lease' = IF lease[c] = "live" THEN [lease EXCEPT ![c] = "closing"]
                                  ELSE lease

\* Mutant: the listener is closed when the count drops below zero.
CountdownLate(c) ==
    /\ lease[c] = "closing"
    /\ lock = NoOne
    /\ lease' = [lease EXCEPT ![c] = "closed"]
    /\ count' = [count EXCEPT ![key[c]] = IF @ = 0 THEN 0 ELSE @ - 1]
    /\ open' = IF count[key[c]] = 0 THEN open \ {key[c]} ELSE open
    /\ Touch(Sig(c))
    /\ UNCHANGED <<lock, hop, pooled, dead, pc, kind, key, gcpc, sessVars,
                   leaked>>

\* _release and _release_socks, one critical section without an await.  The
\* first returns early when the forward is gone, the second clamps at zero.
Countdown(c) ==
    LET k == key[c]
        unknown == Sig(c) \notin pooled \/ (k[2] # Socks /\ k \notin open)
        last == count[k] <= 1
    IN  /\ lease[c] = "closing"
        /\ lock = NoOne
        /\ lease' = [lease EXCEPT ![c] = "closed"]
        /\ IF unknown
           THEN UNCHANGED <<open, count, stale, gcStale>>
           ELSE /\ count' = [count EXCEPT ![k] = IF last THEN 0 ELSE @ - 1]
                /\ open' = IF last THEN open \ {k} ELSE open
                /\ Touch(Sig(c))
        /\ UNCHANGED <<lock, hop, pooled, dead, pc, kind, key, gcpc, sessVars,
                       leaked>>

\* The `finally: await lease.release()` of ping, winrm_exec, the scanner and FTP.
ScopeEnds(c) ==
    /\ pc[c] = "using"
    /\ kind[c] # "connect"
    /\ Release(c)
    /\ pc' = [pc EXCEPT ![c] = "releasing"]
    /\ UNCHANGED <<lock, hop, poolVars, kind, key, gcpc, sessVars, leaked>>

\* The request is over and the slot is free for the next one.  A session's slot
\* waits for its tab, beacon and timer, whose sid no later session shares.
Return(c) ==
    /\ pc[c] = "releasing"
    /\ lease[c] = "closed"
    /\ c \notin sessions \cup ttl \cup tab \cup beacon
    /\ lease' = [lease EXCEPT ![c] = "none"]
    /\ pc' = [pc EXCEPT ![c] = "idle"]
    /\ UNCHANGED <<lock, hop, poolVars, kind, key, gcpc, sessVars, leaked>>

-----------------------------------------------------------------------------
(* host_connect and the browser session *)

\* probe_forward or verify_ssh_credentials fails: release once here ...
ProbeFails(c) ==
    /\ pc[c] = "using"
    /\ kind[c] = "connect"
    /\ Release(c)
    /\ pc' = [pc EXCEPT ![c] = "unwinding"]
    /\ UNCHANGED <<lock, hop, poolVars, kind, key, gcpc, sessVars, leaked>>

\* ... and, that release awaited, once more at the end of the handler.
Unwind(c) ==
    /\ pc[c] = "unwinding"
    /\ lease[c] = "closed"
    /\ Release(c)
    /\ pc' = [pc EXCEPT ![c] = "releasing"]
    /\ UNCHANGED <<lock, hop, poolVars, kind, key, gcpc, sessVars, leaked>>

\* build_connection refuses, or Guacamole gives no token.
TokenFails(c) ==
    /\ pc[c] = "using"
    /\ kind[c] = "connect"
    /\ Release(c)
    /\ pc' = [pc EXCEPT ![c] = "releasing"]
    /\ UNCHANGED <<lock, hop, poolVars, kind, key, gcpc, sessVars, leaked>>

\* An exception that is no GuacamoleBuildError (AuthJsonError of
\* load_secret_key, a private key asyncssh cannot import) leaves the handler.
Raises(c) ==
    /\ pc[c] = "using"
    /\ kind[c] = "connect"
    /\ pc' = [pc EXCEPT ![c] = "raised"]
    /\ UNCHANGED <<lock, hop, poolVars, kind, key, lease, gcpc, sessVars,
                   leaked>>

TokenOk(c) ==
    /\ pc[c] = "using"
    /\ kind[c] = "connect"
    /\ pc' = [pc EXCEPT ![c] = "registering"]
    /\ UNCHANGED <<lock, hop, poolVars, kind, key, lease, gcpc, sessVars,
                   leaked>>

\* Mutant: register_session without the TTL backstop.
RegisterNoBackstop(c) ==
    /\ pc[c] = "registering"
    /\ lock = NoOne
    /\ sessions' = sessions \cup {c}
    /\ tab' = tab \cup {c}
    /\ pc' = [pc EXCEPT ![c] = "session"]
    /\ UNCHANGED <<lock, hop, poolVars, kind, key, lease, gcpc, ttl, beacon,
                   leaked>>

\* register_session, and the page with the session's iframe goes to the browser.
Register(c) ==
    /\ pc[c] = "registering"
    /\ lock = NoOne
    /\ sessions' = sessions \cup {c}
    /\ ttl' = ttl \cup {c}
    /\ tab' = tab \cup {c}
    /\ pc' = [pc EXCEPT ![c] = "session"]
    /\ UNCHANGED <<lock, hop, poolVars, kind, key, lease, gcpc, beacon, leaked>>

\* release_session: pop the sid under the lock; the caller that got the lease
\* releases it, any other finds nothing to do.
ReleaseSession(c) ==
    /\ lock = NoOne
    /\ sessions' = sessions \ {c}
    /\ IF c \in sessions
       THEN /\ Release(c)
            /\ pc' = [pc EXCEPT ![c] = "releasing"]
       ELSE UNCHANGED <<lease, pc>>

\* _auto_release wakes after session_ttl_seconds.
TtlFires(c) ==
    /\ c \in ttl
    /\ ReleaseSession(c)
    /\ ttl' = ttl \ {c}
    /\ UNCHANGED <<lock, hop, poolVars, kind, key, gcpc, tab, beacon, leaked>>

\* The pagehide handler sends its beacon, or the browser dies without one.
TabCloses(c) ==
    /\ c \in tab
    /\ tab' = tab \ {c}
    /\ \/ beacon' = beacon \cup {c}
       \/ UNCHANGED beacon
    /\ UNCHANGED <<lock, hop, poolVars, callVars, gcpc, sessions, ttl, leaked>>

\* host_disconnect
Disconnect(c) ==
    /\ c \in beacon
    /\ ReleaseSession(c)
    /\ beacon' = beacon \ {c}
    /\ UNCHANGED <<lock, hop, poolVars, kind, key, gcpc, ttl, tab, leaked>>

-----------------------------------------------------------------------------
(* Time, the network and the reaper *)

\* The SSH connection of an entry is lost.  Nothing in the manager listens for
\* that: the entry stays as it is.
ConnDrops(s) ==
    /\ s \in pooled \ dead
    /\ dead' = dead \cup {s}
    /\ UNCHANGED <<lock, hop, pooled, open, count, stale, gcStale, callVars,
                   gcpc, sessVars, leaked>>

\* IDLE_CLOSE_AFTER_SECONDS pass since the entry's last_active.
IdleElapses(s) ==
    /\ s \in pooled \ stale
    /\ stale' = stale \cup {s}
    /\ UNCHANGED <<lock, hop, pooled, dead, open, count, gcStale, callVars,
                   gcpc, sessVars, leaked>>

\* gc_loop wakes; gc() reads the clock before it asks for the lock.
GcWakes ==
    /\ gcpc = "sleep"
    /\ gcpc' = "wait"
    /\ gcStale' = stale
    /\ UNCHANGED <<lock, hop, pooled, dead, open, count, stale, callVars,
                   sessVars, leaked>>

\* Mutant: gc() forgets that the SOCKS proxy is a user of the connection too.
GcRunsSocksBlind ==
    LET reaped == {s \in pooled \cap gcStale :
                      \A k \in open : k[1] = s => k[2] = Socks}
    IN  /\ gcpc = "wait"
        /\ lock = NoOne
        /\ gcpc' = "sleep"
        /\ pooled' = pooled \ reaped
        /\ dead' = dead \ reaped
        /\ stale' = stale \ reaped
        /\ gcStale' = {}
        /\ open' = {k \in open : k[1] \notin reaped}
        /\ count' = [k \in Keys |-> IF k[1] \in reaped THEN 0 ELSE count[k]]
        /\ UNCHANGED <<lock, hop, callVars, sessVars, leaked>>

\* gc() with the lock: close and pop the entries that have neither a forward nor
\* a SOCKS listener and were old enough when the clock was read.
GcRuns ==
    LET reaped == {s \in pooled \cap gcStale : \A k \in open : k[1] # s}
    IN  /\ gcpc = "wait"
        /\ lock = NoOne
        /\ gcpc' = "sleep"
        /\ pooled' = pooled \ reaped
        /\ dead' = dead \ reaped
        /\ stale' = stale \ reaped
        /\ gcStale' = {}
        /\ open' = {k \in open : k[1] \notin reaped}
        /\ count' = [k \in Keys |-> IF k[1] \in reaped THEN 0 ELSE count[k]]
        /\ UNCHANGED <<lock, hop, callVars, sessVars, leaked>>

-----------------------------------------------------------------------------
ClientStep(c) ==
    \/ Begin(c) \/ AcquireLock(c) \/ OpenHop(c) \/ OpenFails(c)
    \/ ListenFails(c) \/ Grant(c) \/ Countdown(c) \/ ScopeEnds(c) \/ Return(c)
    \/ ProbeFails(c) \/ Unwind(c) \/ TokenFails(c) \/ Raises(c) \/ TokenOk(c)
    \/ Register(c) \/ TtlFires(c) \/ TabCloses(c) \/ Disconnect(c)

Next ==
    \/ \E c \in Clients : ClientStep(c)
    \/ \E s \in Sigs : ConnDrops(s) \/ IdleElapses(s)
    \/ GcWakes
    \/ GcRuns

Spec == Init /\ [][Next]_vars

(***************************************************************************)
(* Fairness.  asyncio.Lock is first-in first-out, so whoever keeps asking  *)
(* for it gets it: strong fairness of every step that needs the lock.  An  *)
(* asyncssh call ends (TCP and login timeouts), a handler's awaits end     *)
(* (probe, verify and token calls have timeouts), timers fire and the gc   *)
(* loop never dies: weak fairness.  Nothing is assumed of the browser, of  *)
(* requests arriving or of connections dropping.                           *)
(***************************************************************************)
Fairness ==
    /\ \A c \in Clients :
          /\ SF_vars(AcquireLock(c))
          /\ SF_vars(Countdown(c))
          /\ SF_vars(Register(c))
          /\ SF_vars(TtlFires(c))
          /\ WF_vars(OpenHop(c) \/ OpenFails(c) \/ ListenFails(c) \/ Grant(c))
          /\ WF_vars(ScopeEnds(c) \/ ProbeFails(c) \/ TokenFails(c)
                       \/ Raises(c) \/ TokenOk(c))
          /\ WF_vars(Unwind(c))
    /\ \A s \in Sigs : WF_vars(IdleElapses(s))
    /\ WF_vars(GcWakes)
    /\ SF_vars(GcRuns)

FairSpec == Spec /\ Fairness

-----------------------------------------------------------------------------
(* Properties *)

\* The leases on k that the manager still has to count down.
Holders(k) == {c \in Clients : lease[c] \in {"live", "closing"} /\ key[c] = k}

\* Every variable has its type, and no counter exceeds the leases there can be.
TypeOK ==
    /\ lock \in Clients \cup {NoOne}
    /\ pc \in [Clients -> PCs]
    /\ kind \in [Clients -> Kinds]
    /\ key \in [Clients -> Keys]
    /\ lease \in [Clients -> LeaseStates]
    /\ hop \in Nat
    /\ pooled \subseteq Sigs /\ dead \subseteq pooled /\ stale \subseteq pooled
    /\ gcStale \subseteq pooled
    /\ open \subseteq Keys
    /\ count \in [Keys -> 0 .. Cardinality(Clients)]
    /\ gcpc \in {"sleep", "wait"}
    /\ sessions \subseteq Clients /\ ttl \subseteq Clients
    /\ tab \subseteq Clients /\ beacon \subseteq Clients
    /\ leaked \subseteq Sigs

\* A lease that has not been released has its listener and its connection in
\* the pool: neither another holder's release (even a repeated one) nor the
\* reaper takes them away (_release, _release_socks, gc).
LeaseBacked ==
    \A c \in Clients : lease[c] = "live" => key[c] \in open /\ Sig(c) \in pooled

\* lease_count and socks_lease_count are the number of leases out, and a listener
\* is open exactly as long as there is one: no listener is left behind.
CountsLeases ==
    \A k \in Keys : /\ count[k] = Cardinality(Holders(k))
                    /\ k \in open <=> count[k] > 0

\* The leases out, with their holders.
Held == {<<c, key[c]>> : c \in {d \in Clients : lease[d] \in {"live", "closing"}}}

Pool == INSTANCE LeasePool WITH held <- Held, listening <- open, up <- pooled

\* The pool implements LeasePool: a key listens exactly while it is held, and no
\* connection goes away under a held key.
ImplementsLeasePool == Pool!Spec

\* A request that waits for the manager's lock gets an answer, however long
\* another request's chain takes to open (the lock is held across the connect).
WaiterServed == \A c \in Clients : pc[c] = "want" ~> pc[c] # "want"

\* A lease ends, beacon or no beacon, unless its handler raised past the release
\* code (release in `finally`, host_connect's tail, the TTL backstop).
LeaseReturned ==
    \A c \in Clients :
        lease[c] = "live" ~> (lease[c] \in {"closed", "none"} \/ pc[c] = "raised")

\* A connection nobody wants any more is closed in the end, dropped or not.
IdleReaped ==
    \A s \in Sigs :
        <>[](\A c \in Clients : Sig(c) = s => pc[c] = "idle") => <>[](s \notin pooled)

\* Nothing the pool gave out stays out: every lease ends, and then its connection.
ResourcesReturned == LeaseReturned /\ IdleReaped
=============================================================================
