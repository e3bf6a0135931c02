--------------------------- MODULE CorporateEvents ---------------------------
(***************************************************************************)
(* The supported corporate events of one open company year.  An owner      *)
(* records an event in one database transaction: the governance store     *)
(* looks for a replay, the ledger posts the journal of LedgerRecognition  *)
(* and checks the chain the event belongs to, banking claims the bank     *)
(* transaction of a cash phase, and the governance store keeps the event.  *)
(* A reversal posts the opposite journal and touches nothing else.         *)
(***************************************************************************)
EXTENDS LedgerRecognition, FiniteSets

CONSTANTS
  EventIds,        \* ids the owners' clients choose
  Keys,            \* an owner together with an idempotency key they sent
  References,      \* a capital increase, a reduction or a loan
  Figures,         \* amounts of the events
  Extras,          \* premiums, and interest with fee
  Days,            \* dates of the year, Opening day 0 before them
  Relations,       \* relations inside a group
  Transactions,    \* imported bank transactions
  Statement,       \* Statement[t]: the signed amount of transaction t
  Openings,        \* the sets of opening components a year may start from
  NoTransaction, NoEvent

(* A component of an opening, as far as the events build on it; only a loan *)
(* looks at the maturity.                                                  *)
OpeningComponent ==
  [phase : OpeningPhases, ref : References, amount : Nat \ {0}, extra : Nat, day : {0},
   maturity : Maturities]

ASSUME FiguresAreMoney == Figures \subseteq Nat \ {0} /\ Extras \subseteq Nat
ASSUME DaysAfterOpening == Days \subseteq Nat \ {0}
ASSUME StatementIsSigned == Statement \in [Transactions -> Int]
ASSUME ReferencesAreListed == IsFiniteSet(References)

(* An opening carries a reference at most once in each chain: the unique    *)
(* indexes of opening_position_components.                                 *)
ASSUME OpeningsAreUnique ==
  \A carried \in Openings :
    /\ carried \subseteq OpeningComponent /\ IsFiniteSet(carried)
    /\ \A o, p \in carried : o.ref = p.ref =>
         o = p \/ \E chain \in {IncreasePhases, ReductionPhases, LoanPhases} :
                   o.phase \in chain /\ p.phase \notin chain

VARIABLES
  opening,         \* opening components of the year, never changed
  events,          \* corporate_governance.supported_events, each with its entry
  reversed,        \* events whose entry has a full reversal
  claimed,         \* what a bank transaction is matched with
  books            \* the balance of each account

vars == <<opening, events, reversed, claimed, books>>

(* A request.  Facts that only the governance service reads (documents,     *)
(* approvals, relationship proofs) are taken as given.                     *)
Commands ==
  {c \in [phase : Phases, ref : References, amount : Figures \cup {0}, extra : Extras,
          day : Days, relation : Relations, bank : Transactions \cup {NoTransaction},
          key : Keys] :
     /\ Amounts(c)
     /\ IF c.phase \in CashPhases THEN c.bank # NoTransaction ELSE c.bank = NoTransaction}

ASSUME NoneIsNobody ==
  NoTransaction \notin Transactions /\ NoEvent \notin EventIds \cup Commands

Recorded == {e \in EventIds : events[e] # NoEvent}
Of(ref, phase) == {e \in Recorded : events[e].ref = ref /\ events[e].phase = phase}
Carried(ref, phases) == {o \in opening : o.ref = ref /\ o.phase \in phases}
Rows(ref, phases) == {events[e] : e \in UNION {Of(ref, p) : p \in phases}}

EventsInit ==
  /\ opening \in Openings
  /\ events = [e \in EventIds |-> NoEvent]
  /\ reversed = {}
  /\ claimed = [t \in Transactions |-> NoEvent]
  /\ books = [a \in Accounts |-> SumFunction([o \in opening |-> OpeningLines(o)[a]])]

-----------------------------------------------------------------------------
(* What a later phase builds on: the phase recorded this year, or the       *)
(* opening component that stands for it.                                   *)
SubscriptionBasis(ref) ==
  Rows(ref, {"SUBSCRIPTION"}) \cup Carried(ref, {"SUBSCRIPTION", "RESTRICTED_PAYMENT"})
PaymentBasis(ref) ==
  Rows(ref, {"RESTRICTED_PAYMENT"}) \cup Carried(ref, {"RESTRICTED_PAYMENT"})
DecisionBasis(ref) == Rows(ref, {"DECIDED"}) \cup Carried(ref, {"DECIDED"})
LoanBasis(ref) == Rows(ref, {"DISBURSEMENT"}) \cup Carried(ref, {"DISBURSEMENT"})

SameContribution(b, c) == b.amount = c.amount /\ b.extra = c.extra

PrincipalPaid(ref) ==
  SumFunction([e \in Of(ref, "PAYMENT") |-> events[e].amount])

(* The chain checks of the ledger, one disjunct per recorder.               *)
Subscribes(c) ==
  /\ c.phase = "SUBSCRIPTION"
  /\ Rows(c.ref, IncreasePhases) = {} /\ SubscriptionBasis(c.ref) = {}

PaysIn(c) ==
  /\ c.phase = "RESTRICTED_PAYMENT"
  /\ \E b \in SubscriptionBasis(c.ref) : SameContribution(b, c) /\ c.day >= b.day
  /\ PaymentBasis(c.ref) = {}

\* Mutant: only the whole contribution is compared.
RegistersByTotal(c) ==
  /\ c.phase = "INCREASE_REGISTERED"
  /\ \E s \in SubscriptionBasis(c.ref), p \in PaymentBasis(c.ref) :
       Total(s) = Total(c) /\ Total(p) = Total(c) /\ c.day >= p.day
  /\ Rows(c.ref, {"INCREASE_REGISTERED"}) = {}

RegistersIncrease(c) ==
  /\ c.phase = "INCREASE_REGISTERED"
  /\ \E s \in SubscriptionBasis(c.ref), p \in PaymentBasis(c.ref) :
       SameContribution(s, c) /\ SameContribution(p, c) /\ c.day >= p.day
  /\ Rows(c.ref, {"INCREASE_REGISTERED"}) = {}

Decides(c) ==
  /\ c.phase = "DECIDED"
  /\ Rows(c.ref, ReductionPhases) = {} /\ DecisionBasis(c.ref) = {}

RegistersReduction(c) ==
  /\ c.phase = "REDUCTION_REGISTERED"
  /\ \E b \in DecisionBasis(c.ref) : b.amount = c.amount /\ c.day >= b.day
  /\ Rows(c.ref, {"REDUCTION_REGISTERED"}) = {}

RecognizesReduction(c) ==
  /\ c.phase = "FIRST_RECOGNIZED"
  /\ Rows(c.ref, ReductionPhases) = {}

Disburses(c) == c.phase = "DISBURSEMENT" /\ LoanBasis(c.ref) = {}

\* Mutant: each payment is held against the whole principal.
PaysLoanAnew(c) ==
  /\ c.phase = "PAYMENT"
  /\ \E b \in LoanBasis(c.ref) : c.day >= b.day /\ c.amount <= b.amount

PaysLoan(c) ==
  /\ c.phase = "PAYMENT"
  /\ \E b \in LoanBasis(c.ref) :
       c.day >= b.day /\ PrincipalPaid(c.ref) + c.amount <= b.amount

Unchained(c) == c.phase \in FundingPhases \cup GroupPhases

ChainAllows(c) ==
  \/ Subscribes(c) \/ PaysIn(c) \/ RegistersIncrease(c)
  \/ Decides(c) \/ RegistersReduction(c) \/ RecognizesReduction(c)
  \/ Disburses(c) \/ PaysLoan(c) \/ Unchained(c)

-----------------------------------------------------------------------------
(* prepare_supported_event finds no event of this id and none of this key:  *)
(* anything else is a replay of the kept event or a refusal, and neither    *)
(* changes the store.                                                      *)
Fresh(e, c) == e \notin Recorded /\ \A f \in Recorded : events[f].key # c.key

\* Mutant: a transaction that is matched already is matched again.
ClaimsMatched(e, c) ==
  IF c.phase \in CashPhases
  THEN /\ Statement[c.bank] = BankAmount(c)
       /\ claimed' = [claimed EXCEPT ![c.bank] = e]
  ELSE UNCHANGED claimed

(* Banking's claim: the transaction is not matched yet and shows the amount.*)
Claims(e, c) ==
  IF c.phase \in CashPhases
  THEN /\ claimed[c.bank] = NoEvent
       /\ Statement[c.bank] = BankAmount(c)
       /\ claimed' = [claimed EXCEPT ![c.bank] = e]
  ELSE UNCHANGED claimed

(* record_supported_event, in one transaction.                             *)
Record(e, c) ==
  /\ Fresh(e, c)
  /\ Balanced(Lines(c))
  /\ ChainAllows(c)
  /\ Claims(e, c)
  /\ books' = Joined(books, Lines(c))
  /\ events' = [events EXCEPT ![e] = c]
  /\ UNCHANGED <<opening, reversed>>

(* reverse_supported_event: the opposite journal, once, and the phase, the  *)
(* allocation and the claimed transaction stay as they are.  A second       *)
(* reversal under the same key is a replay, under another a refusal.        *)
Reverse(e) ==
  /\ e \in Recorded /\ e \notin reversed
  /\ books' = Joined(books, Reversed(Lines(events[e])))
  /\ reversed' = reversed \cup {e}
  /\ UNCHANGED <<opening, events, claimed>>

RecordAny == \E e \in EventIds, c \in Commands : Record(e, c)
ReverseAny == \E e \in EventIds : Reverse(e)

EventsNext == RecordAny \/ ReverseAny
EventsSpec == EventsInit /\ [][EventsNext]_vars

-----------------------------------------------------------------------------
Untouched(phases) == \A e \in reversed : events[e].phase \notin phases

(***************************************************************************)
(* The books agree with the bank: beyond what the opening carried in, the  *)
(* two bank accounts hold exactly the bank transactions that an event      *)
(* claimed and that no reversal took back, whatever was retried, released  *)
(* from the restricted account or reversed                                 *)
(* (CorporateGovernanceApplication.record_supported_event).                *)
(***************************************************************************)
BooksMatchBank ==
  books["1920"] + books["1921"]
    = SumFunction([o \in opening |-> OpeningLines(o)["1920"] + OpeningLines(o)["1921"]])
      + SumFunctionOnSet(Statement,
          {t \in Transactions : claimed[t] # NoEvent /\ claimed[t] \notin reversed})

(* What a capital increase shows in the books, by how far it came.         *)
Worth(ds) == SumFunction([d \in ds |-> Total(d)])
Premium(ds) == SumFunction([d \in ds |-> d.extra])
Registered(r) == Rows(r, {"INCREASE_REGISTERED"}) # {}
Receivable(r) == Worth(SubscriptionBasis(r)) - Worth(PaymentBasis(r))
Deposit(r) == IF Registered(r) THEN 0 ELSE Worth(PaymentBasis(r))
Unregistered(r) == IF Registered(r) THEN 0 ELSE Worth(SubscriptionBasis(r))
SharePremium(r) == IF Registered(r) THEN Premium(SubscriptionBasis(r)) ELSE 0

(***************************************************************************)
(* While no increase is reversed the books say of every capital increase   *)
(* how far it came: the receivable stands until it is paid, the restricted *)
(* deposit and the unregistered increase until it is registered, and only  *)
(* a registered increase is share premium, in the subscribed amounts       *)
(* (the cash capital increase chain of the ledger).                        *)
(***************************************************************************)
IncreaseInBooks ==
  Untouched(IncreasePhases) =>
    /\ books["1500"] = SumFunction([r \in References |-> Receivable(r)])
    /\ books["1921"] = SumFunction([r \in References |-> Deposit(r)])
    /\ books["2030"] = 0 - SumFunction([r \in References |-> Unregistered(r)])
    /\ books["2020"] = 0 - SumFunction([r \in References |-> SharePremium(r)])

Principal(r) == SumFunction([b \in LoanBasis(r) |-> b.amount])
Owed(r) == Principal(r) - PrincipalPaid(r)

(***************************************************************************)
(* While no loan event is reversed the long-term and the short-term         *)
(* bank-loan account together show what is still owed, and no loan is       *)
(* repaid beyond its principal, across payments, openings of either         *)
(* maturity and retries (record_bank_loan_payment_v1).  Neither shows it by *)
(* itself: a payment of a carried short-term loan is on the long-term       *)
(* account, its principal on the short-term one.                           *)
(***************************************************************************)
LoanOwed ==
  Untouched(LoanPhases) =>
    /\ \A r \in References : PrincipalPaid(r) <= Principal(r)
    /\ books["2220"] + books["2380"] = 0 - SumFunction([r \in References |-> Owed(r)])

(***************************************************************************)
(* Competing settlements of one decided reduction fail: share capital is   *)
(* reduced at most once for it                                             *)
(* (docs/accounting/supported-ledger-patterns.md, opening balance).        *)
(***************************************************************************)
ReducedOnce ==
  \A r \in References :
    Cardinality({e \in Recorded : /\ events[e].ref = r /\ e \notin reversed
                                  /\ events[e].phase \in {"REDUCTION_REGISTERED",
                                                          "FIRST_RECOGNIZED"}}) <= 1
=============================================================================
