\* Two slots, one two-hop chain, under the fairness of the event loop.
SPECIFICATION FairSpec
CONSTANTS
    Clients = {c1, c2}
    Sigs = {s1}
    Targets = {t1}
    Socks = socks
    ChainLen <- MCChainLen
    MCHops = 2
    NoOne = NoOne
INVARIANTS LeaseBacked CountsLeases
PROPERTIES ImplementsLeasePool WaiterServed ResourcesReturned
