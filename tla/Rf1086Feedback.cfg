SPECIFICATION FairFeedbackSpec
CONSTANTS
    Documents <- Filed
    Submitted <- NoForms
    Reconcilers = {r1, r2}
    MaxReads = 2
    Nobody = Nobody
    Abandoned = Abandoned
    Settled = Settled
INVARIANTS
    EvidenceKept
    VerdictIsTheirs
PROPERTIES
    VerdictUncontradicted
    EventuallyDecided
CHECK_DEADLOCK FALSE
