SPECIFICATION Spec
CONSTANTS
    Tasks = {t1, t2}
    Values = {apex, wildcard}
    Foreign = {other}
    Providers = {"gandi", "scaleway", "desec", "powerdns", "route53"}
    OtherWriters = {}
    LateWrites = {"gandi", "scaleway", "desec", "powerdns", "route53"}
    MaxCalls = 3
    MaxLate = 1
    NoTask = NoTask
CHECK_DEADLOCK FALSE
INVARIANT
    NoLostUpdate
