\* A send and one of each operator call, fairly scheduled.
CONSTANTS
    send = send
    activate = activate
    shadowing = shadowing
    clear = clear
    promote = promote
    base = base
    strict = strict
    open = open
    None = None
    Nobody = Nobody
    Sends = {send}
    Activates = {activate}
    Shadows = {shadowing}
    Clears = {clear}
    Promotes = {promote}
    Constitutions = {base, strict, open}
    Genesis = base
    MaxFaults = 1
    Loads <- MCLoads
    Permitted <- MCPermitted
SPECIFICATION FairSpec
INVARIANTS ReceiptNamesJudge SentUnderActive ShadowLeavesOnce
PROPERTY CallsEnd
CHECK_DEADLOCK FALSE
