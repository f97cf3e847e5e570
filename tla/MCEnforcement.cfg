\* Late denies, overlapping chains and an amendment, fairly scheduled.
CONSTANTS
    a1 = a1
    none = none
    d1 = d1
    d2 = d2
    d3 = d3
    d4 = d4
    act = act
    r1 = r1
    r2 = r2
    r3 = r3
    empty = empty
    pattern = pattern
    ladder = ladder
    Agents = {a1}
    Nobody = none
    Rules = {r1, r2, r3}
    Observed = {d1, d2, d3, d4}
    Shadow = {d4}
    Versions = {empty, pattern, ladder}
    Activations = {act}
    ChanCap = 12
    MaxWindow = 2
    Subject <- MCSubject
    Rank <- MCRank
    RuleOrder <- MCRuleOrder
    Config <- MCConfig
    NewVersion <- MCNewVersion
    Workloads <- MCWorkloads
SPECIFICATION FairSpec
INVARIANTS DetectsAccounted QuarantineFollowsLog LadderOrder
PROPERTY QuarantineExpires
CHECK_DEADLOCK FALSE
