\* Finding: a node that died in time for a report is not reported.
SPECIFICATION Spec
CONSTANTS
    Main = main
    Workers = {a}
    Strict = TRUE
    StepLimited = FALSE
    TimeLimited = FALSE
INVARIANT DeathsAreReported
CHECK_DEADLOCK FALSE
