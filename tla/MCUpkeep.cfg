SPECIFICATION MCSpec
CONSTANTS
    t1 = t1
    t2 = t2
    t3 = t3
    p1 = p1
    p2 = p2
    Threads = {t1, t2, t3}
    Processes = {p1, p2}
    ProcessOf <- TwoProcesses
    Pids = {i1, i2}
    MaxSaves = 2
    MaxCrashes = 1
    Nothing = Nothing
    Day = 4
    Gates <- MCGates
    Lifetimes = {23, 24, 60}
    Backdate = 1
    PollInterval = 2
    IssueTime = 1
    MaxFailures = 1
    MaxNow = 90
SYMMETRY Symmetry
CHECK_DEADLOCK FALSE
INVARIANTS
    NeverTruncated
    TempIsMine
    NeverExpired
    GatesAgree
    DaysMatchGate
PROPERTY
    NotEarly
