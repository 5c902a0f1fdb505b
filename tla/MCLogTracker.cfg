SPECIFICATION Spec
CONSTANTS
    Senders = {s1, s2, s3}
    Readers = {r1, r2}
    Quorum = 2
    MaxSeq = 2
    c1 = c1
    c2 = c2
    Batches <- MCBatches
CONSTRAINT ServersAreConsistent
INVARIANTS TypeOK AppliedIffQuorum LogIsQuorumPrefix EntriesWereSent NoLostWakeup
PROPERTIES LogAppendOnly WaitersReturn
