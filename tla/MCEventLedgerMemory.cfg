SPECIFICATION FairSpec
CONSTANTS
    None = None
    k1 = k1
    k2 = k2
    s1 = s1
    s2 = s2
    c1 = c1
    c2 = c2
    d1 = d1
    d2 = d2
    Key <- MCKey
    Stream <- MCStream
    Event <- MCEvent
    Session = {p1, p2}
    Reader = {r1}
    Limit = 2
    MaxCalls = 3
INVARIANTS
    IndexMatchesStreams
    AnswersAreTrue
PROPERTIES
    ImplementsLedger
    ReadsExtend
    EveryCallEnds
CHECK_DEADLOCK FALSE
