\* What a restarted node is documented to find.
SPECIFICATION Spec
CONSTANTS
    p1 = p1
    p2 = p2
    c1 = c1
    c2 = c2
    Nodes <- MCNodes2
    Splits = {}
    GroupsOf <- MCGroupsOf
    ScenarioSplits = {}
    Chaotic = FALSE
    MaxCrashed = 1
    MaxCrashes = 1
    Intervals = {1, 2}
    Durations = {1, 2}
    DefaultLink <- Slow
    OtherLinks = {}
    Configurable = {}
    RaiseOnPartition = FALSE
    MaxSent = 1
    Horizon = 2
INVARIANT RestartsEmptyHanded
CHECK_DEADLOCK FALSE
