\* An agent streams, calls, leaves and comes back while it is evicted.
CONSTANTS
    a1 = a1
    sub = sub
    unary = unary
    evict = evict
    selfRevoke = selfRevoke
    reg = reg
    k1 = k1
    Agents = {a1}
    Calls = {sub, unary, evict, selfRevoke, reg}
    Cascade = {evict}
    Caps = {k1}
    InitialLive = {a1}
    MaxFaults = 1
    MaxItems = 1
    Kind <- MCKind
    Target <- MCTarget
    Subject <- MCSubject
SPECIFICATION FairSpec
INVARIANTS BarredStayOut ReceiptsAccount CascadeTakesHeld
PROPERTY DroppedStreamsEnd
CHECK_DEADLOCK FALSE
