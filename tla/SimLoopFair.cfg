\* No limit on steps: a run may go on for ever.
SPECIFICATION FairSpec
CONSTANTS
    Handles = {h1, h2, h3}
    Horizon = 1
    StartTime = 0
    MaxSteps = 0
    MaxTime = 0
    DetectDeadlock = TRUE
    PurgeThreshold = 1
    Entries = 1
    Interrupts = FALSE
    None = None
PROPERTIES NoStarvation Termination
CHECK_DEADLOCK FALSE
