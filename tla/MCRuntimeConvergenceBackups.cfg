SPECIFICATION Spec
CONSTANTS
    None = None
    Dict = Dict
    Redacted = Redacted
    Loopback = Loopback
    CanonicalPort = CanonicalPort
    CanonicalEvery = CanonicalEvery
    Enabled = Enabled
    BadPort = BadPort
    active = active
    dev = dev
    lan = lan
    local = local
    remote = remote
    thirty = thirty
    other_port = other_port
    tokA = tokA
    tokB = tokB
    Key <- MCKey
    SecretKey = {"token"}
    SecretValue = {tokA, tokB}
    Profile = {active}
    Applier = {a1, a2}
    Config <- MCConfig
    Edit <- MCBackupsEdit
    Env <- MCBackupsEnv
    MaxWrites = 2
    MaxCopies = 3
    MaxTime = 1
SYMMETRY Runs
INVARIANTS
    BackupUndoesTheRun
CHECK_DEADLOCK FALSE
