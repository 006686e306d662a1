\* Texts of up to six characters, seven sets of names; answers of up to four strings.
SPECIFICATION MCSpec
CONSTANTS
    Lower <- FoldChars
    Digits = {"1"}
    DateMin = 1
    DateMax = 2
    MaxLen = 6
    ModelPaths <- ModelPathsOf
    Indices = {"0"}
    ContentFields = {"content"}
    MaxScanDepth = 2
    MaxValueLen = 3
INVARIANTS
    PassIsRight
    OnePassIsEnough
    LeaksAreReported
    FieldsKeepTheirRules
CHECK_DEADLOCK FALSE
