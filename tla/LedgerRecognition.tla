-------------------------- MODULE LedgerRecognition --------------------------
(***************************************************************************)
(* The account policy of the supported corporate events: which accounts an *)
(* event debits and credits, LedgerService.recognize_holding_action, and   *)
(* what an opening component carries into the year.  A journal is a        *)
(* function from accounts to amounts, debits positive and credits          *)
(* negative; a line of amount zero is a line that is not there.            *)
(***************************************************************************)
EXTENDS Integers, Functions

Accounts == {"1300", "1320", "1325", "1500", "1560", "1920", "1921",
             "2000", "2020", "2030", "2033", "2035", "2050", "2080",
             "2220", "2255", "2260", "2380", "2960", "7770", "8075", "8150"}

NoLines == [a \in Accounts |-> 0]

(* Lines(<<a, x>>, ...) of a journal as a function: no event names one      *)
(* account in two lines.                                                   *)
Journal(debits, credits) ==
  [a \in Accounts |->
     SumFunction([l \in {d \in debits : d[1] = a} |-> l[2]])
       - SumFunction([l \in {c \in credits : c[1] = a} |-> l[2]])]

Joined(f, g) == [a \in Accounts |-> f[a] + g[a]]
Reversed(f) == [a \in Accounts |-> 0 - f[a]]
Balanced(f) == SumFunctionOnSet(f, Accounts) = 0

-----------------------------------------------------------------------------
(* The phases of the supported events.                                     *)
IncreasePhases == {"SUBSCRIPTION", "RESTRICTED_PAYMENT", "INCREASE_REGISTERED"}
ReductionPhases == {"DECIDED", "REDUCTION_REGISTERED", "FIRST_RECOGNIZED"}
LoanPhases == {"DISBURSEMENT", "PAYMENT"}
FundingPhases == {"LENT", "BORROWED", "OWNER_LOAN"}
GroupPhases == {"GIVEN", "RECEIVED"}
Phases == IncreasePhases \cup ReductionPhases \cup LoanPhases
            \cup FundingPhases \cup GroupPhases

(* The phases whose bank transaction the event claims.                     *)
CashPhases == {"RESTRICTED_PAYMENT"} \cup LoanPhases \cup FundingPhases

(* The cash contribution of an increase: nominal amount and share premium. *)
Total(c) == c.amount + c.extra

(***************************************************************************)
(* The journal of one event.  amount is the nominal amount or principal,   *)
(* extra the share premium, or the interest and fee of a loan payment.     *)
(***************************************************************************)
IncreaseLines(c) ==
  CASE c.phase = "SUBSCRIPTION" ->
         Journal({<<"1500", Total(c)>>}, {<<"2030", Total(c)>>})
    [] c.phase = "RESTRICTED_PAYMENT" ->
         Journal({<<"1921", Total(c)>>}, {<<"1500", Total(c)>>})
    [] c.phase = "INCREASE_REGISTERED" ->
         Journal({<<"2030", Total(c)>>, <<"1920", Total(c)>>},
                 {<<"2000", c.amount>>, <<"2020", c.extra>>, <<"1921", Total(c)>>})

ReductionLines(c) ==
  CASE c.phase = "DECIDED" ->
         Journal({<<"2033", c.amount>>}, {<<"2080", c.amount>>})
    [] c.phase = "REDUCTION_REGISTERED" ->
         Journal({<<"2000", c.amount>>}, {<<"2033", c.amount>>})
    [] c.phase = "FIRST_RECOGNIZED" ->
         Journal({<<"2000", c.amount>>}, {<<"2080", c.amount>>})

LoanLines(c) ==
  IF c.phase = "DISBURSEMENT"
  THEN Journal({<<"1920", c.amount>>}, {<<"2220", c.amount>>})
  ELSE Journal({<<"2220", c.amount>>, <<"8150", c.extra>>}, {<<"1920", Total(c)>>})

FundingLines(c) ==
  CASE c.phase = "LENT" ->
         Journal({<<IF c.relation = "DOWN" THEN "1320" ELSE "1325", c.amount>>},
                 {<<"1920", c.amount>>})
    [] c.phase = "BORROWED" -> Journal({<<"1920", c.amount>>}, {<<"2260", c.amount>>})
    [] c.phase = "OWNER_LOAN" -> Journal({<<"1920", c.amount>>}, {<<"2255", c.amount>>})

GroupLines(c) ==
  IF c.phase = "GIVEN"
  THEN Journal({<<IF c.relation = "DOWN" THEN "1300" ELSE "2050", c.amount>>},
               {<<"2960", c.amount>>})
  ELSE Journal({<<"1560", c.amount>>},
               {<<IF c.relation = "UP" THEN "8075" ELSE "2035", c.amount>>})

Lines(c) ==
  CASE c.phase \in IncreasePhases -> IncreaseLines(c)
    [] c.phase \in ReductionPhases -> ReductionLines(c)
    [] c.phase \in LoanPhases -> LoanLines(c)
    [] c.phase \in FundingPhases -> FundingLines(c)
    [] c.phase \in GroupPhases -> GroupLines(c)

(* Amounts an event may have: a disbursement is principal only, a payment   *)
(* is not zero, everything else has a positive amount.                     *)
Amounts(c) ==
  /\ c.extra > 0 => c.phase \in IncreasePhases \cup {"PAYMENT"}
  /\ c.phase = "PAYMENT" => Total(c) > 0
  /\ c.phase # "PAYMENT" => c.amount > 0

(* What an opening carries of these events: a subscription, a deposit, a    *)
(* decided reduction or a bank loan, each stated by its own phase.         *)
OpeningPhases == {"SUBSCRIPTION", "RESTRICTED_PAYMENT", "DECIDED", "DISBURSEMENT"}

(* What the bank transaction of a cash phase must show, signed as seen from *)
(* the company.                                                            *)
BankAmount(c) ==
  CASE c.phase = "RESTRICTED_PAYMENT" -> Total(c)
    [] c.phase = "PAYMENT" -> 0 - Total(c)
    [] c.phase = "LENT" -> 0 - c.amount
    [] c.phase \in {"DISBURSEMENT", "BORROWED", "OWNER_LOAN"} -> c.amount

(* A carried bank loan has a maturity, which chooses its account.  A loan   *)
(* recorded this year has none: LoanLines disburse and repay on 2220.      *)
Maturities == {"LONG_TERM", "SHORT_TERM"}
LoanAccount(o) == IF o.maturity = "SHORT_TERM" THEN "2380" ELSE "2220"

(* The lines an opening component stands for; the counterpart of a carried  *)
(* loan is in the other classified balances, here the bank.                *)
OpeningLines(o) ==
  CASE o.phase = "SUBSCRIPTION" -> IncreaseLines(o)
    [] o.phase = "RESTRICTED_PAYMENT" ->
         Journal({<<"1921", Total(o)>>}, {<<"2030", Total(o)>>})
    [] o.phase = "DECIDED" -> ReductionLines(o)
    [] o.phase = "DISBURSEMENT" ->
         Journal({<<"1920", o.amount>>}, {<<LoanAccount(o), o.amount>>})
=============================================================================
