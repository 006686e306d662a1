\* README.md gives MODEL_CAPABILITY the syntax of the header X-Model-Capability.
SPECIFICATION EnvSpec
CONSTANTS
    Rank <- RankOf
    Unprintable <- NotAscii
    MaxInvalid = 2
    MaxScanDepth = 1
    DropHeaders = {"X-Dropped"}
    MaxSanitizeBytes = 2
INVARIANTS
    ReadmeSyntaxIsRead
CHECK_DEADLOCK FALSE
