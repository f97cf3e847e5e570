\* Two sessions, two runs, one close, one restart or failed call.
CONSTANTS
    Backends = {"memory", "postgres"}
    s1 = s1
    s2 = s2
    r2 = r2
    Sessions = {s1, s2}
    NoSession = NoSession
    Runs = {r1, r2}
    Closers = {c1}
    Source <- MCSource
    Wanted <- MCWanted
    Target <- MCTarget
    Threshold = 2
    Span = 2
    CoachAfter = 1
    PageLimit = 2
    MaxFaults = 1
SPECIFICATION SessionSpec
INVARIANTS WalksStayInside CountsAgree RunMatchesReference
CHECK_DEADLOCK FALSE
