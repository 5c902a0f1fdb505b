SPECIFICATION Spec
CONSTANTS
    c1 = c1
    c2 = c2
    Clients = {c1, c2}
    NoClient = NoClient
    Ended = Ended
    Fds = {3, 4}
    MaxAppends <- AppendsOfTwo
    MaxBreaks = 1
    CAPACITY = 2
INVARIANTS TypeOK BufferIsFifo AnswersAreOwn
PROPERTIES AppendsReturn
