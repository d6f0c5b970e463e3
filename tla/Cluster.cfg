\* Messages that are lost, duplicated and late, to nodes that crash.
SPECIFICATION Spec
CONSTANTS
    p1 = p1
    p2 = p2
    c1 = c1
    c2 = c2
    Nodes <- MCNodes2
    Splits = {}
    GroupsOf <- MCGroupsOf
    ScenarioSplits = {}
    Chaotic = FALSE
    MaxCrashed = 1
    MaxCrashes = 1
    Intervals = {1, 2}
    Durations = {1, 2}
    DefaultLink <- Bad
    OtherLinks = {}
    Configurable = {}
    RaiseOnPartition = FALSE
    MaxSent = 2
    Horizon = 2
INVARIANTS Conservation DownIsEmpty
CHECK_DEADLOCK FALSE
