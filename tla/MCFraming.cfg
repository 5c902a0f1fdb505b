SPECIFICATION Spec
CONSTANTS
    MAX_MESSAGE_SIZE = 6
    Payloads <- MCPayloads
    MaxMessages = 3
INVARIANTS TypeOK FramesIntact ClosesOnlyWhenFull
PROPERTIES ShortMessagesArrive
