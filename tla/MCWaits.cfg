SPECIFICATION MCSpec
CONSTANTS
    Nameservers = {n1, n2, n3}
    Fallback = fallback
    Timeout = 5
    Interval = 2
    MaxLookup = 1
    ChangeTimeout = 6
    PollInterval = 2
    RequestTime = 2
    TokenTime = 2
    MaxRetryWait = 3
    Backoff = 1
CHECK_DEADLOCK FALSE
INVARIANTS
    OkMeansServed
    OvershootBounded
    LateIsReal
    ChangeWaitBounded
PROPERTY
    EveryWaitEnds
