SPECIFICATION ListsSpec
CONSTANTS
    Emitted <- MCEmitted
    MaxEvents = 4
    Moments = {4, 5, 6, 7}
    Spans = {2, 6}
    Dates = {2, 5}
    Unset = Unset
    Rollups = {1, 2, 3}
    Minute = 1
    Quarter = 1
    Hour = 2
    Day = 4
    PageSource = "routing-slip-app"
    ListLimit = 3
    ChartLimit = 5
    DefaultEvents = 2
    MostEvents = 3
INVARIANTS
    SameWhateverOrder
    StepsMatchCounters
    ChartsCountEach
CHECK_DEADLOCK FALSE
