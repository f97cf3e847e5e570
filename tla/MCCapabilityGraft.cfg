\* A capability issued with a parent.
CONSTANTS
    a1 = a1
    read = read
    write = write
    v1 = v1
    root = root
    mid = mid
    leaf = leaf
    none = none
    graft = graft
    rv = rv
    onLeaf = onLeaf
    onNone = onNone
    onGraft = onGraft
    Agents = {a1}
    Actions = {read, write}
    Caveats = {v1}
    Issues = {root, graft}
    Attenuates = {}
    Revokes = {}
    Checks = {onGraft}
    MaxDepth = 3
    MaxAmount = 2
    MaxClock = 0
    MaxFlips = 0
    MaxFaults = 0
    Request <- GraftRequest
    Revoked <- MCRevoked
    Presented <- MCPresented
SPECIFICATION Spec
INVARIANT ConstraintsHold
CHECK_DEADLOCK FALSE
