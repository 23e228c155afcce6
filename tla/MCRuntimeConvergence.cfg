SPECIFICATION Spec
CONSTANTS
    None = None
    Dict = Dict
    Redacted = Redacted
    Loopback = Loopback
    CanonicalPort = CanonicalPort
    CanonicalEvery = CanonicalEvery
    Enabled = Enabled
    BadPort = BadPort
    active = active
    dev = dev
    lan = lan
    local = local
    remote = remote
    thirty = thirty
    other_port = other_port
    tokA = tokA
    tokB = tokB
    Key <- MCKey
    SecretKey = {"token"}
    SecretValue = {tokA, tokB}
    Profile = {active, dev}
    Applier = {a1}
    Config <- MCConfig
    Edit <- MCEdit
    Env <- MCEnv
    MaxWrites = 2
    MaxCopies = 2
    MaxTime = 0
INVARIANTS
    TypeOK
    MergesConverge
    MergesKeepTheRest
    ReportIsRight
    PipelinePasses
CHECK_DEADLOCK FALSE
