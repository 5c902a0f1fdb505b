SPECIFICATION Spec
CONSTANTS
    EpochDuration = 2
    MaxLag = 4
    SeqMod = 6
INVARIANTS SlotsConsecutive SchedulerConsistent AtMostOneSlotAfterPause
PROPERTIES KeepsSending
