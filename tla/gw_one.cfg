\* One request, every kind of content, generic failover on, no limit.
SPECIFICATION OSafety
CONSTANTS
    Requests = {r1}
    Models <- MCModels
    NoModel = ""
    Inputs <- AllInputs
    Responses <- AllResponses
    MaxInflight = 0
    StaticTable <- MCStaticTable
    Fallbacks = {"backup", "expert"}
    FailoverOnError = TRUE
    Strict = FALSE
    SanitizeOn = TRUE
    CapStatic <- MCCapStatic
    AllowBaseHeader = TRUE
    AllowProxyHeader = TRUE
    StaticBase = "good"
INVARIANTS
    TypeOK
    ReplacerMatchesResponder
    OneReply
    ClosedOnReturn
    EndsAreTold
    FailoverIsTold
    NoSilentRouting
PROPERTIES
    NoCallAfterReply
CHECK_DEADLOCK FALSE
