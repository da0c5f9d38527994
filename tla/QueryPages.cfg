SPECIFICATION WindowSpec
CONSTANTS
    MaxProgress = 4
    Stage = {0, 1}
    UrlStage = 1
CHECK_DEADLOCK FALSE
INVARIANTS
    OneRefreshSeries
    StagePageInv
PROPERTIES
    ViewSpec
    StageViewSpec
    ZoomedGraphStays
    
    EndIsShown
