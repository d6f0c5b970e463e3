\* A test that is called twice, with three iterations at most; and batches of up to
\* four callbacks.
SPECIFICATION MCSpec
CONSTANTS
    Resolution = 12
    Intensity = 4
    Width = 8
    Gamma = 21
    Multiply <- MCMultiply
    Shift <- MCShift
    Mixed <- mix
    Bases = {57}
    MaxIterations = 3
    MaxEvents = 3
    Limits = {2, 4}
    Lines = {1, 3}
    MaxCalls = 2
INVARIANTS FailureShowsTheEnd DrawsAreFair SeedsAreUnique
PROPERTIES NoFailureIsMissed FailuresComeBack
CHECK_DEADLOCK FALSE
