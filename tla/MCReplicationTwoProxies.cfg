SPECIFICATION Spec
CONSTANTS
    Proxies = {p1, p2}
    Servers = {v1}
    Subscribers = {u1}
    Quorum = 1
    MaxSeq = 1
    c1 = c1
    Batches <- MCBatches
    MaxFailures = 0
INVARIANTS AcknowledgedIsLogged
