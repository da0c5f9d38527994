SPECIFICATION FairSpec
CONSTANTS
    r1 = r1
    r2 = r2
    NoRead = NoRead
    Read <- MCRead
    Page <- MCPage
    RetainedSize <- MCRetainedSize
    Output <- OnePageEach
    MaxInstance = 1
    MaxResponseSize = 2
PROPERTIES
    ClientCompletes
CHECK_DEADLOCK FALSE
