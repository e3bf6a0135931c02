SPECIFICATION RefundSpec
CONSTANTS
    Gross = 2
    Years = {y1}
    NoYear = NoYear
    Keys = {k1, k2}
    NoKey = NoKey
    Workers = {w1}
    MaxPosts = 2
    Requests = {r1}
    Sources = {s1}
    Refunders = {h1}
    Cleaners = {}
    NoRequest = NoRequest
    NoSource = NoSource
    GrossMinor = 149000
    Offsets <- OffsetValues
    Elapsed = {0, 30, 31}
    Returned = {0, 37250, 149000}
SYMMETRY SymmetricKeys
INVARIANTS
    OneLivePayment
PROPERTIES
    KeepsPromise
CHECK_DEADLOCK FALSE
