\* Threads, destinations that throw, nested messages, starts and ends.
SPECIFICATION FairSpec
CONSTANTS
    Threads = {t1, t2, t3}
    Ids = {1, 2}
    EarlyId = 2
    CerrId = 1
    MaxExceptions = 1
    Throwing = {1}
    Crashing = {1}
    Reentrant = {1}
    MaxMsgs = 4
    MaxDepth = 2
    NoThread = NoThread
INVARIANTS TypeOK MutualExclusion DeletedOnce Delivered SameOrder PurgeJustified PurgeDrains HasDestinations NobodyStuck
PROPERTY EveryMessageEnds
