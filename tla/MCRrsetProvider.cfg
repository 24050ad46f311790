SPECIFICATION Spec
CONSTANTS
    Tasks = {t1, t2}
    Values = {apex, wildcard}
    Foreign = {other}
    Providers = {"gandi", "scaleway", "desec", "powerdns", "route53", "google"}
    OtherWriters = {"google"}
    LateWrites = {"google"}
    MaxCalls = 3
    MaxLate = 1
    NoTask = NoTask
CHECK_DEADLOCK FALSE
INVARIANTS
    NoLostUpdate
    ForeignKept
    TtlKept
    MergeIsFresh
PROPERTY
    ImplementsTxtRecord
