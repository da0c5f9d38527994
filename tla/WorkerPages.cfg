SPECIFICATION WorkerSpec
CONSTANTS
    Query = {q1, q2}
    MaxBytes = 3
    MaxReserve = 1
    MAX_HISTORY = 1
    Node = {1, 2, 3}
    Coordinator = {2}
    PoolGroup = {"http-worker"}
    QueryGroup = {"query.0.0"}
    ThreadState = {"RUNNABLE", "WAITING"}
    MaxClicks = 2
CHECK_DEADLOCK FALSE
INVARIANTS
    
    WaitersHaveCause
    
PROPERTIES
    RefreshingGoesOn
