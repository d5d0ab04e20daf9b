\* Every mix of the three parameters against the documented policy.
SPECIFICATION Spec
CONSTANTS
    Configs <- PolicyConfigs
    MaxTime = 5
    MaxMsgs = 9
    IntMax = 2147483647
    Absent = Absent
    NoLimiter = NoLimiter
INVARIANTS TypeOK Spaced FirstShown
PROPERTY ImplementsPolicy
