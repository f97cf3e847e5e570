\* A receipt read back from Postgres may have another content address: ReadKeepsAddress fails.
CONSTANTS
    w1 = w1
    w2 = w2
    w3 = w3
    w4 = w4
    w5 = w5
    s1 = s1
    s2 = s2
    Receipts <- MCReceipts
    Backends = {"memory", "postgres"}
    Appenders = {w1, w2, w3, w4, w5}
    Writes <- MCWrites
    Sealers = {s1, s2}
    CommitmentId <- MCCommitmentId
    Resolvable = {"a"}
    Queries <- MCQueries
    PageLimit = 1
    MaxI64 = 9
    MaxBatch = 3
    MaxFaults = 1
SPECIFICATION Spec
INVARIANT ReadKeepsAddress
CHECK_DEADLOCK FALSE
