\* Two requests compete for one token, with retries; fairness.
SPECIFICATION OSpec
CONSTANTS
    Requests = {r1, r2}
    Models <- MCModels
    NoModel = ""
    Inputs <- SharedInputs
    Responses <- FewResponses
    MaxInflight = 1
    StaticTable <- MCStaticTable
    Fallbacks = {"backup"}
    FailoverOnError = TRUE
    Strict = TRUE
    SanitizeOn = TRUE
    CapStatic <- MCCapStatic
    AllowBaseHeader = TRUE
    AllowProxyHeader = TRUE
    StaticBase = "good"
INVARIANTS
    CountsAreExact
    EndsAreTold
PROPERTIES
    NothingHeldForever
    GateKeepsPromise
CHECK_DEADLOCK FALSE
