SPECIFICATION CheckoutSpec
CONSTANTS
    Gross = 2
    Years = {y1, y2}
    NoYear = NoYear
    Keys = {k1, k2}
    NoKey = NoKey
    Workers = {w1, w2}
    MaxPosts = 2
SYMMETRY Symmetric
INVARIANTS
    TypeOK
    OneLivePayment
    ExecutedOnce
    WithdrawnNeverBought
    LedgerFollowsProvider
    ChecksNeverFire
PROPERTIES
    EvidenceNeverRewritten
    KeepsPromise
CHECK_DEADLOCK FALSE
