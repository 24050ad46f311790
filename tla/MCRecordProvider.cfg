SPECIFICATION Spec
CONSTANTS
    Tasks = {t1, t2}
    Values = {apex, wildcard}
    Foreign = {other}
    Providers = {"cloudflare", "bunny", "digitalocean", "infomaniak", "ovh", "porkbun"}
    LateWrites = {"infomaniak", "porkbun"}
    MaxCalls = 3
    MaxLate = 1
    NoTask = NoTask
CHECK_DEADLOCK FALSE
INVARIANTS
    OneRecordPerValue
    OkIsStored
PROPERTIES
    ForeignUntouched
    ImplementsTxtRecord
