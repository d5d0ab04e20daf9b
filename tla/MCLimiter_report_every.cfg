\* A negative reportEvery of a category is documented to be off.
SPECIFICATION Spec
CONSTANTS
    Configs <- ReportEveryConfigs
    MaxTime = 2
    MaxMsgs = 6
    IntMax = 2147483647
    Absent = Absent
    NoLimiter = NoLimiter
INVARIANT ReportEveryDisabled
