\* The loop with both limits, deadlock detection, interruptions, and a threshold
\* of cancelled timers that two cancellations cross.
SPECIFICATION Spec
CONSTANTS
    Handles = {h1, h2, h3}
    Horizon = 3
    StartTime = 0
    MaxSteps = 3
    MaxTime = 2
    DetectDeadlock = TRUE
    PurgeThreshold = 1
    Entries = 2
    Interrupts = TRUE
    None = None
SYMMETRY Symmetry
INVARIANTS TypeOK Consistent NothingLost OnTime
PROPERTIES LimitsAreExact ClockMonotone DeadlockIsReal HeapBounded ImplementsVirtualTime
CHECK_DEADLOCK FALSE
