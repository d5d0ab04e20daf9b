\* Starts in every environment, names set, messages received, passed on and forwarded.
SPECIFICATION Spec
CONSTANTS
    Environments <- MCEnvironments
    ApplicationNames <- MCApplicationNames
    Renamings <- MCRenamings
    Settings <- MCSettings
    Iteration <- MCIteration
    Numbers <- MCNumbers
    Width <- MCWidth
    MaxCategoryLength = 8
    MaxStarts = 2
    MaxCalls = 3
    Nothing = Nothing
INVARIANTS ReadsBack ForwardedWhole
PROPERTY AddressFound
