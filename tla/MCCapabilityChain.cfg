\* A chain of three, narrowed, expiring, revoked and quarantined under way.
CONSTANTS
    a1 = a1
    read = read
    write = write
    v1 = v1
    root = root
    mid = mid
    leaf = leaf
    none = none
    graft = graft
    rv = rv
    onLeaf = onLeaf
    onNone = onNone
    onGraft = onGraft
    Agents = {a1}
    Actions = {read, write}
    Caveats = {v1}
    Issues = {root}
    Attenuates = {mid, leaf, none}
    Revokes = {rv}
    Checks = {onLeaf, onNone}
    MaxDepth = 3
    MaxAmount = 2
    MaxClock = 2
    MaxFlips = 2
    MaxFaults = 1
    Request <- ChainRequest
    Revoked <- MCRevoked
    Presented <- MCPresented
SPECIFICATION Spec
INVARIANTS CondemnedDenied ConstraintsHold
PROPERTY ExpiredChainDenied
CHECK_DEADLOCK FALSE
