\* The chaos loop, with crashes and splits of the scenario's own.
SPECIFICATION Spec
CONSTANTS
    p1 = p1
    p2 = p2
    c1 = c1
    c2 = c2
    Nodes <- MCNodes2
    Splits = {p1, c1, c2}
    GroupsOf <- MCGroupsOf
    ScenarioSplits = {p1}
    Chaotic = TRUE
    MaxCrashed = 1
    MaxCrashes = 3
    Intervals = {1, 2}
    Durations = {1, 2}
    DefaultLink <- Reliable
    OtherLinks = {}
    Configurable = {}
    RaiseOnPartition = FALSE
    MaxSent = 0
    Horizon = 4
INVARIANTS CrashedAreDown ChaosIsHealed
PROPERTIES ChaosKeepsQuorum PartitionsSpec
CHECK_DEADLOCK FALSE
