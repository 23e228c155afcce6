SPECIFICATION Spec
CONSTANTS
    None = None
    k1 = k1
    k2 = k2
    mA = mA
    mB = mB
    tr1 = tr1
    openrouter = openrouter
    ollama = ollama
    litellm = litellm
    Deployment <- BothDeployments
    Allowlist <- MCAllowlist
INVARIANTS
    TypeOK
    AcceptedIsKept
    ReplayRepeatsAnswer
    MemoryCoversDb
    CatalogFollowsDb
    BlockedStaysBlocked
    AllowIsJustified
PROPERTIES
    ReplayHasNoEffect
CHECK_DEADLOCK FALSE
