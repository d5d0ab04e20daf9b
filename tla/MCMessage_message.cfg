\* Two threads, two messages, moves between the threads, and every kind of insertion.
SPECIFICATION Spec
CONSTANTS
    Threads = {t1, t2}
    Loggers = {a}
    Width <- MCWidth
    Statements <- MCStatements
    Insertions <- MCInsertions
    Modules <- MCModules
    Iterations <- MCIterations
    Destinations <- MCDestinations
    ProcessNames <- MCProcessNames
    MaxCategoryLength = 8
    MaxMsgs = 2
    MaxInsertions = 2
    Nothing = Nothing
    Deleted = Deleted
SYMMETRY Symmetry
INVARIANTS TypeOK OneOwner ThresholdKept TextReadsBack HeaderReadsBack FieldsApart
