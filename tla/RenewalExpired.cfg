SPECIFICATION RenewalSpec
CONSTANTS
    Day = 4
    Gates <- MCGates
    Lifetimes = {23, 24, 60}
    Backdate = 1
    PollInterval = 2
    IssueTime = 1
    MaxFailures = 1
    MaxNow = 90
CHECK_DEADLOCK FALSE
INVARIANT NegativeOnceExpired
