SPECIFICATION Spec
CONSTANTS
    Client = {c1, c2}
    Pages = 3
    MaxResponse = 2
    Capacity = 1
SYMMETRY Symmetry
CHECK_DEADLOCK FALSE
INVARIANTS
    FinishedHasEverything
    ExchangeInv
    NeverStalls
    ConsumerWoken
