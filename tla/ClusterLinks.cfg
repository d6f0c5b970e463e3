\* Three nodes, splits that overlap, a send that raises, and links configured
\* while messages are under way.
SPECIFICATION Spec
CONSTANTS
    p1 = p1
    p2 = p2
    c1 = c1
    c2 = c2
    Nodes <- MCNodes3
    Splits = {p1, p2}
    GroupsOf <- MCGroupsOf
    ScenarioSplits = {p1, p2}
    Chaotic = FALSE
    MaxCrashed = 1
    MaxCrashes = 0
    Intervals = {1, 2}
    Durations = {1, 2}
    DefaultLink <- Reliable
    OtherLinks <- SlowOnes
    Configurable <- BothWays
    RaiseOnPartition = TRUE
    MaxSent = 2
    Horizon = 2
INVARIANTS TypeOK NoPhantomSplit EachHoldsItsOwn OneWayOnly
PROPERTY NothingBehindARefusal
CHECK_DEADLOCK FALSE
