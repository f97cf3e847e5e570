SPECIFICATION Spec
CONSTANTS
    boot = boot
    r1 = r1
    r2 = r2
    k1 = k1
    k2 = k2
    Calls <- AllCalls
    Kid <- Kids
    Flaw <- Flawed
    Published <- KeySets
    CacheTtl = 1
    Limited <- WithLimit
    MaxStaleness = 2
    MaxTime = 3
    Deployments <- Commands
    Boot = boot
    MaxRotations = 1
INVARIANTS
    MissesAreRefetched
    StaleKeysExpire
    StartupAudited
PROPERTIES
    KeySetNeverGoesBack
CHECK_DEADLOCK FALSE
