SPECIFICATION Spec
CONSTANTS
    None = None
    SourceOfTruth = "PRD/PRD-MASTER.md"
    NoCategory = NoCategory
    equities_br = equities_br
    AssetClass = {equities_br}
    NoRef = NoRef
    NotIssued = "not-issued"
    NoReport = NoReport
    NoEpics = NoEpics
    InitialTree <- FirstTree
    Edit <- ReviewEdits
    MaxWeek = 3
    MaxEdits = 1
    MaxRuns = 2
INVARIANT NoPromotionOverOpenDrift
CHECK_DEADLOCK FALSE
