\* A switch that cannot be carried out.
SPECIFICATION Safety
CONSTANTS
    Requests = {r1}
    Models <- MCModels
    NoModel = ""
    Inputs <- FewInputs
    Responses <- FewResponses
    MaxInflight = 0
    StaticTable <- MCStaticTable
    Fallbacks = {"backup"}
    FailoverOnError = TRUE
    Strict = FALSE
    SanitizeOn = TRUE
    CapStatic <- MCCapStatic
    AllowBaseHeader = TRUE
    AllowProxyHeader = TRUE
    StaticBase = "good"
INVARIANTS
    ErrorBodyRelayed
CHECK_DEADLOCK FALSE
