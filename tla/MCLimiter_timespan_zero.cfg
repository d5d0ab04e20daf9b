\* A timespan of zero is documented to be off.
SPECIFICATION Spec
CONSTANTS
    Configs <- TimespanZeroConfigs
    MaxTime = 2
    MaxMsgs = 6
    IntMax = 2147483647
    Absent = Absent
    NoLimiter = NoLimiter
INVARIANT TimespanDisabled
