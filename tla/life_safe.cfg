\* Two requests, every budget of SomeConfigs, a balancer that probes every two ticks.
SPECIFICATION Spec
CONSTANTS
    Requests = {r1, r2}
    Configs <- SomeConfigs
    DefaultShutdown = 2
    DefaultFlush = 1
    ProbeEvery = 2
INVARIANTS
    RequestsAreSpared
    NeverKilled
    LastBatchSent
PROPERTIES
    TermEnds
CHECK_DEADLOCK FALSE
