\* The names of a severity level as thresholds.
SPECIFICATION Spec
CONSTANTS
    Threads = {t1, t2}
    Loggers = {a}
    Width <- MCWidth
    Statements <- MCStatements
    Insertions <- MCInsertions
    Modules <- MCModules
    Iterations <- MCIterations
    Destinations <- ErrorNameDestinations
    ProcessNames <- MCProcessNames
    MaxCategoryLength = 8
    MaxMsgs = 1
    MaxInsertions = 2
    Nothing = Nothing
    Deleted = Deleted
INVARIANT NamesMatch
