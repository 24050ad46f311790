SPECIFICATION Spec
CONSTANTS
    Tasks = {t1, t2}
    Values = {apex, wildcard}
    Foreign = {other}
    Providers = {"ovh"}
    LateWrites = {}
    MaxCalls = 2
    MaxLate = 0
    NoTask = NoTask
CHECK_DEADLOCK FALSE
INVARIANT
    OkIsServed
