\* Starts, failing ones included, and Ends, in every order.
SPECIFICATION Spec
CONSTANTS
    Configurations <- TestConfigurations
    Absent = Absent
    Number <- MCNumber
INVARIANTS TypeOK NothingIgnoredSilently EarlySilent CleanSlate StatisticsDistinct
PROPERTIES OriginalInstructions ImplementsDispatcher
