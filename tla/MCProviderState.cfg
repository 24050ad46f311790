SPECIFICATION MCSpec
CONSTANTS
    Tasks = {t1, t2}
    Nothing = Nothing
    Names <- MCNames
    ZoneNames <- MCZoneNames
    Providers = {"gandi", "cloudflare", "powerdns", "route53", "hetzner", "desec",
                 "bunny", "google", "digitalocean", "infomaniak"}
    PageSize = 1
    MaxPages = 2
    MaxEntries = 3
    MaxChanges = 3
    Lifetimes = {1, 4}
    Margin = 2
    MaxLatency = 1
    MaxTime = 5
    MaxTokens = 3
    Skews <- MCSkews
    MaxClock = 4
    MaxDelay = 1
SYMMETRY Symmetry
INVARIANTS
    FoundZoneOwnsName
    OneExchange
    RefusalIsReal
    RefusedIsForgotten
PROPERTIES
    SameZone
    NothingMissed
    SignedWithApiTime
