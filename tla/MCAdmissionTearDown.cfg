\* A stream and an eviction, fairly scheduled, nothing fails.
CONSTANTS
    a1 = a1
    sub = sub
    unary = unary
    evict = evict
    selfRevoke = selfRevoke
    reg = reg
    k1 = k1
    Agents = {a1}
    Calls = {sub, evict}
    Cascade = {evict}
    Caps = {}
    InitialLive = {a1}
    MaxFaults = 0
    MaxItems = 1
    Kind <- MCKind
    Target <- MCTarget
    Subject <- MCSubject
SPECIFICATION FairSpec
PROPERTY RevokedStreamsEnd
CHECK_DEADLOCK FALSE
