\* One agent that may restart once; the network reorders and duplicates.
CONSTANTS
    s1 = s1
    Senders = {s1}
    WindowSize = 3
    MaxEpochSkew = 1
    EpochModulus = 64
    EpochStart = 1
    MaxEpoch = 4
    MaxRestarts = 1
    MaxAdmits = 5
    ExpiryChoices = {TRUE}
SPECIFICATION ReplaySpec
INVARIANTS AdmitOnce NoReplayInWindow
CHECK_DEADLOCK FALSE
