SPECIFICATION Spec
CONSTANTS
    Vocabulary <- MCVocabulary
    Required <- MCRequired
    Needed <- MCNeeded
    Layout = "L"
    NonOperators = {"trap"}
    NoPower = "none"
    Commits <- MCCommits
    PinSets <- MCPinSets
    Upstream <- MCUpstream
    ImportsOver = {{"a", "b"}}
    Exports <- MCExports
    MaxRuns = 2
    MaxStarts = 1
INVARIANTS
    PassedIsWhole
    ServedIsWhole
    ImportsAreAccounted
CHECK_DEADLOCK FALSE
