\* Finding: a cancelled task that the scenario awaits ends the run.
SPECIFICATION Spec
CONSTANTS
    Main = main
    Workers = {a}
    Strict = TRUE
    StepLimited = FALSE
    TimeLimited = FALSE
INVARIANT NeverRaises
CHECK_DEADLOCK FALSE
