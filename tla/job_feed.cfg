SPECIFICATION FairSpec
CONSTANTS
    Posts = {1, 2}
    NoView = NoView
    MaxAsks = 2
    MaxChanges = 1
    MaxFailures = 1
    MaxBlocks = 4
INVARIANTS
    FeedTypeOK
    ShownOrOnItsWay
    TapNeverOpensOlder
    RowsInRange
PROPERTIES
    TableCatchesUp
    RefreshEnds
CHECK_DEADLOCK FALSE
