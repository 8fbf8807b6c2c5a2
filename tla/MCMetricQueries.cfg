SPECIFICATION ListsSpec
CONSTANTS
    Emitted <- Events
    Names = {"a", "b"}
    Sources = {"", "s"}
    Times = {1, 3, 4}
    Values = {1, 3}
    MaxEvents = 3
    Limits = {1, 2, 3}
    Buckets = {1, 2, 3}
    TicksPerSecond = 2
    Month = 2
INVARIANTS
    ListsAgree
    SummariesExact
    LatestIsNewest
    SeriesConserves
    DimensionsAgree
CHECK_DEADLOCK FALSE
