\* Three goroutines, three keys in a shard that holds two of them.
SPECIFICATION Spec
CONSTANTS
    Proc = {p1, p2, p3}
    Key = {k1, k2, k3}
    Shard = {s1}
    ShardOf <- OneShard
    ShardLimit = 2
    HotLimit = 2
    MaxCalls = 6
SYMMETRY Symmetry
INVARIANTS
    Bounded
    SteadyKeysAreHot
    RacersAgree
PROPERTIES
    HotOnlyGrows
CHECK_DEADLOCK FALSE
