SPECIFICATION Spec
CONSTANTS
    Ranges = {"15m", "1h"}
    DefaultRange = "15m"
    Intervals = {0, 5}
    DefaultInterval = 5
    Queries = {"", "failed"}
    Presets <- OnePreset
    DefaultPresets <- OneDefault
    Moves <- FullWidth
    MaxWidgets = 2
    MaxRefreshes = 3
INVARIANTS
    TypeOK
    ShownTogether
    ScreenMatches
    LayoutPersisted
