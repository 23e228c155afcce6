SPECIFICATION Spec
CONSTANTS
    None = None
    SourceOfTruth = "PRD/PRD-MASTER.md"
    NoCategory = NoCategory
    equities_br = equities_br
    AssetClass = {equities_br}
    NoRef = NoRef
    NotIssued = "not-issued"
    NoReport = NoReport
    NoEpics = NoEpics
    InitialTree <- FirstTree
    Edit <- AllEdits
    MaxWeek = 3
    MaxEdits = 2
    MaxRuns = 2
INVARIANTS
    TypeOK
    PromotionClosesDrifts
    RunnerSatisfiesChecker
    RunKeepsTheGate
    RerunsClearTheGate
    ReadinessIsApproved
CHECK_DEADLOCK FALSE
