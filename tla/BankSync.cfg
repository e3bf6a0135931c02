SPECIFICATION BankSpec
CONSTANTS
    Callers = {c1, c2}
    Keys = {k1, k2}
    LastPage = 2
    MaxConsents = 2
    Idle = Idle
SYMMETRY Symmetric
INVARIANTS
    CompleteIsWhole
    DecidedOnce
PROPERTIES
    RevocationHolds
CHECK_DEADLOCK FALSE
