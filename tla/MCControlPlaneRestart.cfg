SPECIFICATION Spec
CONSTANTS
    None = None
    k1 = k1
    k2 = k2
    mA = mA
    mB = mB
    tr1 = tr1
    openrouter = openrouter
    ollama = ollama
    litellm = litellm
    Deployment <- StoreDeployment
    Allowlist <- MCAllowlist
PROPERTIES
    ReplayNeverDuplicates
CHECK_DEADLOCK FALSE
