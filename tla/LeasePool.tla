----------------------------- MODULE LeasePool -----------------------------
(***************************************************************************)
(* What the jump-tunnel pool promises, without counters, locks or timers:  *)
(* a key listens exactly as long as somebody holds it, and the connection  *)
(* under a listening key is never taken away.                              *)
(***************************************************************************)
CONSTANTS Clients, Sigs, Targets, Socks

VARIABLES held,       \* pairs <<client, key>>: the leases not yet given back
          listening,  \* keys whose listener is in the pool
          up          \* chains whose connection is in the pool

vars == <<held, listening, up>>

Keys == Sigs \X (Targets \cup {Socks})

Init == held = {} /\ listening = {} /\ up = {}

\* A pooled connection appears.
Up(s) ==
    /\ up' = up \cup {s}
    /\ UNCHANGED <<held, listening>>

\* c gets a lease on k, whose chain is up.
Take(c, k) ==
    /\ k[1] \in up
    /\ \A l \in held : l[1] # c
    /\ held' = held \cup {<<c, k>>}
    /\ listening' = listening \cup {k}
    /\ UNCHANGED up

\* A lease is given back; its key stops listening with the last holder.
Give(l) ==
    /\ l \in held
    /\ held' = held \ {l}
    /\ listening' = IF \E m \in held \ {l} : m[2] = l[2]
                    THEN listening ELSE listening \ {l[2]}
    /\ UNCHANGED up

\* Idle connections go, none of them under a held lease.
Down(S) ==
    /\ \A l \in held : l[2][1] \notin S
    /\ up' = up \ S
    /\ UNCHANGED <<held, listening>>

Next ==
    \/ \E s \in Sigs : Up(s)
    \/ \E c \in Clients, k \in Keys : Take(c, k)
    \/ \E l \in held : Give(l)
    \/ \E S \in SUBSET Sigs : Down(S)

Spec == Init /\ [][Next]_vars
=============================================================================
