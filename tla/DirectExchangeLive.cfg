SPECIFICATION FairSpec
CONSTANTS
    Client = {c1, c2}
    Pages = 1
    MaxResponse = 1
    Capacity = 1
PROPERTIES
    ConsumerEnds
CHECK_DEADLOCK FALSE
