SPECIFICATION Spec
CONSTANTS
    Servers = {v1, v2, v3}
    Quorum = 2
    a0 = a0
    a1 = a1
    InitialProxies <- OneProxy
    Newcomers = {}
    Suspects = {0}
    Estimates = {1}
    EpochDuration = 12
    MaxLast = 1
    MaxRound = 3
    MaxEpochs = 1
    MaxRejoins = 0
SYMMETRY ServerSymmetry
INVARIANTS CompletedByQuorum SkippedAboveAgreed FreezeGoesOn
