SPECIFICATION FairObserverSpec
CONSTANTS
    Gross = 1
    Years = {y1}
    NoYear = NoYear
    Keys = {k1}
    NoKey = NoKey
    Workers = {w1}
    MaxPosts = 1
    Observers = {o1, o2}
    Tokens = {t1, t2}
    NoToken = NoToken
INVARIANTS
    SingleAuthority
    PendingStaysObservable
PROPERTIES
    EventuallyRecorded
CHECK_DEADLOCK FALSE
