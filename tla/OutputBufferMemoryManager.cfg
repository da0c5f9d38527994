SPECIFICATION FairSpec
CONSTANTS
    Driver = {d1, d2}
    MemoryFuture = {f1, f2, f3}
    NoFuture = NoFuture
    MaxBufferedBytes = 2
    PoolSize = 4
    PageSize = {1, 2}
    MaxBytes = 4
    MaxCallbacks = 3
INVARIANTS
    NoLostWakeup
    BytesGivenBack
PROPERTIES
    DriversGoOn
