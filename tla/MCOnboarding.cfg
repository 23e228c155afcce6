SPECIFICATION Spec
CONSTANTS
    Watched <- MCWatched
    Payload = {"none", "group"}
    Edited <- MCEdited
    MaxRuns = 2
    MaxTyped = 1
    MaxEdits = 1
    MaxIssued = 1
INVARIANTS
    TypeOK
    ConcludedVerifies
    AnswersSurvive
