\* Three destinations, exceptions of messages and of summaries, Starts and Ends.
SPECIFICATION Spec
CONSTANTS
    Ids <- MCIds
    Setups <- MCSetups
    Xids <- MCXids
    Contexts <- MCContexts
    Strings <- MCStrings
    StringLess <- MCStringLess
    MaxExceptions = 1
    MaxMsgs = 2
    ContextWidth = 2
    IntMax = 2147483647
    Absent = Absent
INVARIANT Accounted
PROPERTIES EachDestination SummariesInOrder
