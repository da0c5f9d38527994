SPECIFICATION MainSpec
CONSTANTS
    Query = {1, 2}
    StateFilterChoice = {"QUEUED"}
    ErrorTypeChoice = {"USER_ERROR"}
    SortTypeChoice = {"CPU"}
    ReorderChoice = {0}
    MaxQueriesChoice = {0}
    SearchChoice = {"1"}
    EndChoice = {"USER_ERROR"}
    InitialMaxQueries = 1
    MaxClicks = 2
    CountedQuery = {q1}
    MaxInput = 1
    MAX_HISTORY = 1
    Grace = 3
INVARIANTS
    
    HudInv
    DialogInv
PROPERTIES
    ReorderLikeClick
    RefreshingGoesOn
