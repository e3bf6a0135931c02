------------------------- MODULE MCCorporateEvents -------------------------
EXTENDS CorporateEvents, TLC

CONSTANTS t1, t2, t3

StatementOfThree == t1 :> 2 @@ t2 :> 0 - 1 @@ t3 :> 0 - 1

Component(p, a, x, m) ==
  [phase |-> p, ref |-> "r", amount |-> a, extra |-> x, day |-> 0, maturity |-> m]
FiveOpenings ==
  {{}, {Component("RESTRICTED_PAYMENT", 1, 1, "LONG_TERM")},
   {Component("DECIDED", 1, 0, "LONG_TERM")},
   {Component("DISBURSEMENT", 1, 0, "LONG_TERM")},
   {Component("DISBURSEMENT", 1, 0, "SHORT_TERM")}}

Clients == Permutations(EventIds) \cup Permutations(Keys) \cup Permutations({t2, t3})
=============================================================================
