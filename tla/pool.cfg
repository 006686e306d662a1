\* Two requests at a time, three proxies, a pool of two, an upstream of each kind;
\* fairness.
SPECIFICATION Spec
CONSTANTS
    Proc = {p1, p2}
    Proxy = {k1, k2, k3}
    Upstream = {h1, h2}
    Multiplexed = {h2}
    Limit = 2
    MaxCalls = 4
    None = None
INVARIANTS
    PoolIsSound
    OrphansAreClosed
PROPERTIES
    AskedIsServed
CHECK_DEADLOCK FALSE
