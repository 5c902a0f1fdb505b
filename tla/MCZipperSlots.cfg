SPECIFICATION Spec
CONSTANTS
    Servers = {v1, v2, v3}
    Quorum = 2
    a0 = a0
    a1 = a1
    InitialProxies <- TwoProxies
    Newcomers = {n1}
    Suspects = {}
    Estimates = {2, 3}
    EpochDuration = 12
    MaxLast = 0
    MaxRound = 0
    MaxEpochs = 1
    MaxRejoins = 1
INVARIANTS SlotsInterleaved RegistryMatchesConfig
