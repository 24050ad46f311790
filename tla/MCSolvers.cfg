SPECIFICATION MCSpec
CONSTANTS
    s1 = s1
    s2 = s2
    v1 = v1
    v2 = v2
    v3 = v3
    Solves = {s1, s2}
    Items = {v1, v2, v3}
    N = 2
    ItemOf <- TwoOrders
    SkipCheck <- SecondSkips
    MaxLate = 1
CHECK_DEADLOCK FALSE
INVARIANTS
    NothingForgotten
    ProofStaysInPlace
    DnsReadyWaitsForAll
PROPERTY
    EverySolveTornDown
