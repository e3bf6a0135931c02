SPECIFICATION RefundSpec
CONSTANTS
    Gross = 2
    Years = {y1}
    NoYear = NoYear
    Keys = {k1}
    NoKey = NoKey
    Workers = {w1}
    MaxPosts = 2
    Requests = {r1, r2}
    Sources = {s1, s2}
    Refunders = {h1, h2}
    Cleaners = {c1}
    NoRequest = NoRequest
    NoSource = NoSource
    GrossMinor = 149000
    Offsets <- OffsetValues
    Elapsed = {0, 30, 31}
    Returned = {0, 37250, 149000}
SYMMETRY Symmetric
INVARIANTS
    RefundWithinEntitlement
    RefundsNeverOverlap
    RefundExecutedOnce
    RecoveryNeverRefused
    LedgerFollowsProvider
    StopNeverCancelsCharge
    FinishedIsCleanable
CHECK_DEADLOCK FALSE
