\* The application name that a Start without one finds.
SPECIFICATION Spec
CONSTANTS
    Environments <- MCEnvironments
    ApplicationNames <- MCApplicationNames
    Renamings <- MCRenamings
    Settings <- MCSettings
    Iteration <- MCIteration
    Numbers <- MCNumbers
    Width <- MCWidth
    MaxCategoryLength = 8
    MaxStarts = 2
    MaxCalls = 3
    Nothing = Nothing
PROPERTY ApplicationFound
