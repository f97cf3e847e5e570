\* A shadow that is activated during a send.
CONSTANTS
    send = send
    activate = activate
    shadowing = shadowing
    clear = clear
    promote = promote
    base = base
    strict = strict
    open = open
    None = None
    Nobody = Nobody
    Sends = {send}
    Activates = {}
    Shadows = {shadowing}
    Clears = {}
    Promotes = {}
    Constitutions = {base, strict, open}
    Genesis = base
    MaxFaults = 0
    Loads <- MCLoads
    Permitted <- MCPermitted
SPECIFICATION Spec
INVARIANT NoPanic
CHECK_DEADLOCK FALSE
