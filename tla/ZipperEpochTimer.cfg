SPECIFICATION TimerSpec
INVARIANTS WorkerNotForgotten AtMostThreePerWindow
PROPERTIES AllocationServed TimerStops
