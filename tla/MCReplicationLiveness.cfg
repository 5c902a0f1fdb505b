SPECIFICATION FairSpec
CONSTANTS
    Proxies = {p1}
    Servers = {v1, v2, v3}
    Subscribers = {u1}
    Quorum = 2
    MaxSeq = 1
    c1 = c1
    Batches <- SkipOnly
    MaxFailures = 1
PROPERTIES EveryBatchAnswered SuccessIsRead ShutdownReturns
