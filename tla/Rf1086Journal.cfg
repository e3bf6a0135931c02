SPECIFICATION JournalSpec
CONSTANTS
    Approvals = {a1}
    Senders = {w1, w2}
    Subs = 1
    AttemptLimit = 2
SYMMETRY Symmetric
INVARIANTS
    HeldUnderOneKey
    ConfirmedComplete
    ResentOnlyAfterRetryable
CHECK_DEADLOCK FALSE
