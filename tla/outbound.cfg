\* Five families of inputs, each varying what one part looks at.
SPECIFICATION MCSpec
CONSTANTS
    Rank <- RankOf
    Unprintable <- NotAscii
    MaxInvalid = 2
    MaxScanDepth = 1
    DropHeaders = {"X-Dropped"}
    MaxSanitizeBytes = 2
INVARIANTS
    HeadersSurvive
    MostSpecificWins
    FilesGoToFileModel
    SentAsDeclared
    SentInFull
    ReplyHeadersFit
CHECK_DEADLOCK FALSE
