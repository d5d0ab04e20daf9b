\* Messages sent after purge mode was announced.
SPECIFICATION Spec
CONSTANTS
    Threads = {t1, t2}
    Ids = {1, 2}
    EarlyId = 2
    CerrId = 1
    MaxExceptions = 0
    Throwing = {1}
    Crashing <- None
    Reentrant <- None
    MaxMsgs = 2
    MaxDepth = 1
    NoThread = NoThread
INVARIANT NoneAfterPurge
