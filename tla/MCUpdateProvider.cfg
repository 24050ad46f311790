SPECIFICATION FairSpec
CONSTANTS
    Tasks = {t1, t2}
    Values = {apex, wildcard}
    Foreign = {other}
    Providers = {"hetzner", "rfc2136"}
    OtherWriters = {"rfc2136"}
    MaxCalls = 3
    MaxLate = 1
    NoTask = NoTask
CHECK_DEADLOCK FALSE
INVARIANTS
    TtlAccepted
PROPERTIES
    ImplementsTxtRecord
    EveryCallReturns
