SPECIFICATION Spec
CONSTANTS
    Proxies = {p1}
    Servers = {v1, v2, v3}
    Subscribers = {u1}
    Quorum = 2
    MaxSeq = 2
    c1 = c1
    Batches <- MCBatches
    MaxFailures = 1
CONSTRAINT CommandThenSkip
SYMMETRY ServerSymmetry
INVARIANTS TypeOK SuccessBackedByQuorum ReadsAreQuorumStored ServersHoldPrefixes
PROPERTIES ImplementsSharedLog
