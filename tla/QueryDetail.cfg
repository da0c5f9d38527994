SPECIFICATION LiveSpec
CONSTANTS
    MaxProgress = 2
    MAX_HISTORY = 1
CHECK_DEADLOCK FALSE
INVARIANTS
    SparklinesInv
PROPERTIES
    ViewSpec
    FinalInfoShown
    StagesFollow
