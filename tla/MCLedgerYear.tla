----------------------------- MODULE MCLedgerYear -----------------------------
EXTENDS LedgerYear, TLC

CONSTANTS d1, d2

FourSources == {Entry("COST", d1), Entry("COST", d2), Entry("EVENT", d1), Entry("OWNER", d1)}
Owners == Permutations(Callers) \cup Permutations(Keys)
=============================================================================
