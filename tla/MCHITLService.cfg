SPECIFICATION Spec
CONSTANTS
    None = None
    d1 = d1
    d2 = d2
    c1 = c1
    c2 = c2
    x = x
    y = y
    Thread = {t1, t2}
    Request <- MCRequest
    Counts = {1, 2}
    MaxTime = 1
    MaxCalls = 3
SYMMETRY MCSymmetry
INVARIANTS
    TypeOK
    RetryIsNoOp
    ReplyMatchesRecord
CHECK_DEADLOCK FALSE
