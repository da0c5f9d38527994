SPECIFICATION AnswerSpec
CONSTANTS
    Sample = {0, 1, 4, 5, 50, 99, 100, 101, 150, 499, 700, 994, 995, 996, 999, 1000, 1001, 1004, 1005, 1995, 2000}
    LargeSample = {2399, 2400, 2401, 5994, 5995, 5999, 6000, 6001, 9949, 9950, 9994, 9995, 9999, 10000, 10049, 10050, 99949, 99950, 99999, 100000, 100001, 102349, 102350, 102399, 102400, 102401, 900000, 999499, 999500, 1000000, 1000001, 2000000}
    Stage = {s1, s2}
    Root = s1
    MaxDrivers = 3
    HISTOGRAM_WIDTH = 2
    MaxTime = 4
    MaxTimes = 6
    Host = {h1, h2}
    Port = {p1, p2}
    MaxTasks = 3
    Frame = {f, g}
    MaxStack = 2
    MaxFailures = 4
    MaxNodes = 5
    maxLines = 3
    MaxIndent = 2
    MaxText = 5
SYMMETRY Symmetry
CHECK_DEADLOCK FALSE
INVARIANTS
    NumbersFit
    
    TasksShown
    TraceExact
    
    TextKept
PROPERTIES
    NeverShownSmaller
