\* Statistics, summaries, resets and failures of every kind of destination.
SPECIFICATION MCSpec
CONSTANTS
    Configs <- StatsConfigs
    Xids <- FiveXids
    FlushXid <- FlushType
    Contexts <- LongContext
    Thresholds <- RaisedThresholds
    Strings <- MCStrings
    StringLess <- MCStringLess
    MaxMsgs = 4
    MaxFailures = 1
    MaxTime = 1
    ContextWidth = 3
    IntMax = 2147483647
    Absent = Absent
INVARIANTS TypeOK Conservation UpToDate LimitersFollowStatistics SummaryTells ExampleContexts RowsSorted
