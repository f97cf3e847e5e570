\* A window larger than a page, or a warm one from 0: EveryRunMatches fails.
CONSTANTS
    Backends = {"memory", "postgres"}
    s1 = s1
    s2 = s2
    r2 = r2
    Sessions = {s1, s2}
    NoSession = NoSession
    Runs = {r1, r2}
    Closers = {c1}
    Source <- MCSource
    Wanted <- MCWanted
    Target <- MCTarget
    Threshold = 2
    Span = 2
    CoachAfter = 1
    PageLimit = 2
    MaxFaults = 1
SPECIFICATION SessionSpec
INVARIANT EveryRunMatches
CHECK_DEADLOCK FALSE
