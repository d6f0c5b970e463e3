\* Two tasks besides main: of nodes, the chaos loop, or the scenario's own; crashes,
\* restarts, and all ways to leave the loop.
SPECIFICATION Spec
CONSTANTS
    Main = main
    Workers = {a, b}
    Strict = TRUE
    StepLimited = TRUE
    TimeLimited = TRUE
SYMMETRY Symmetry
INVARIANTS TypeOK ErrorsAreFailures MissedDeathsAreLate CleanupRuns
PROPERTY VerdictIsFinal
CHECK_DEADLOCK FALSE
