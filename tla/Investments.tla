----------------------------- MODULE Investments -----------------------------
(***************************************************************************)
(* One investment position of a company: what it holds, what the ledger    *)
(* says of it, and which bank transactions settle its events.  Every       *)
(* operation is one transaction of investments, ledger and banking.  A     *)
(* sale takes its cost from the lots in the order of their acquisition,    *)
(* which need not be the order in which they are recorded; a correction    *)
(* takes an event back and records another in its place.                   *)
(*                                                                         *)
(* Money is counted in parts of a cent (Scale of them make one), as the    *)
(* columns have more decimals than the ledger's Money.                     *)
(***************************************************************************)
EXTENDS Integers, Sequences, Functions

CONSTANTS Scale,         \* parts of a cent; 10^10 in the code
          Days,          \* places in the order of acquisition
          Counts,        \* shares bought in one purchase
          Costs, Proceeds, Incomes, Values,   \* amounts in cents
          Transactions,  \* bank transactions: [id, amount in cents, signed]
          MaxEvents

ASSUME AmountsAssumption ==
    /\ Scale \in Nat \ {0} /\ MaxEvents \in Nat
    /\ Days \subseteq Nat /\ Counts \subseteq Nat \ {0} /\ Values \subseteq Nat
    /\ Costs \cup Proceeds \cup Incomes \subseteq Nat \ {0}

VARIABLES
    register,     \* the position and its lots, a lot named by its purchase
    events,       \* economic events in the order they were recorded
    settlements,  \* cash settlements in the order they were recorded
    measurement,  \* the year-end measurement and what it changed
    books         \* account -> balance in the ledger

investmentVars == <<register, events, settlements, measurement, books>>

Kind == {"purchase", "sale", "income"}
Accounts == {"investment", "payable", "receivable", "bank", "result"}

Lot == [day : Days, count : Counts, cost : Nat, units : Nat, book : Nat, tax : Nat]

InvestmentsTypeOK ==
    /\ register.lots \in [DOMAIN register.lots -> Lot]
    /\ DOMAIN register.lots \subseteq DOMAIN events
    /\ {register.units, register.book, register.tax} \subseteq Nat
    /\ \A e \in DOMAIN events : events[e].kind \in Kind /\ events[e].corrected \in BOOLEAN
    /\ \A s \in DOMAIN settlements :
          /\ settlements[s].event \in DOMAIN events
          /\ settlements[s].transaction \in Transactions
          /\ settlements[s].supersedes \in 0 .. s - 1
    /\ measurement \in [done : BOOLEAN, change : Int]
    /\ books \in [Accounts -> Int]

InvestmentsInit ==
    /\ register = [lots |-> <<>>, units |-> 0, book |-> 0, tax |-> 0]
    /\ events = <<>>
    /\ settlements = <<>>
    /\ measurement = [done |-> FALSE, change |-> 0]
    /\ books = [a \in Accounts |-> 0]

-----------------------------------------------------------------------------
(* Amounts and the ledger's lines. *)

Lesser(a, b) == IF a < b THEN a ELSE b
Greater(a, b) == IF a > b THEN a ELSE b

\* a / b rounded, halves up.
Nearest(a, b) == (2 * a + b) \div (2 * b)

Cents(a, b) == Scale * Nearest(a, b * Scale)

\* What an amount must be to survive Money, which rounds to cents.
CentExact(amount) == amount % Scale = 0

Lines(amounts) == [a \in Accounts |-> IF a \in DOMAIN amounts THEN amounts[a] ELSE 0]

\* recognize_holding_action for a recognized event, debits positive.
Recognition(event) ==
    CASE event.kind = "purchase" ->
            Lines([investment |-> event.amount, payable |-> -event.amount])
      [] event.kind = "sale" ->
            Lines([receivable |-> event.amount, investment |-> -event.carrying,
                   result |-> event.carrying - event.amount])
      [] event.kind = "income" ->
            Lines([receivable |-> event.amount, result |-> -event.amount])

Payment(event) ==
    IF event.kind = "purchase"
    THEN Lines([payable |-> event.amount, bank |-> -event.amount])
    ELSE Lines([bank |-> event.amount, receivable |-> -event.amount])

Posted(balances, lines) == [a \in Accounts |-> balances[a] + lines[a]]
Reversed(balances, lines) == [a \in Accounts |-> balances[a] - lines[a]]

-----------------------------------------------------------------------------
(* Lots. *)

Units(lots, of) == SumFunctionOnSet([l \in DOMAIN lots |-> lots[l].units], of)
Book(lots, of) == SumFunctionOnSet([l \in DOMAIN lots |-> lots[l].book], of)
Tax(lots, of) == SumFunctionOnSet([l \in DOMAIN lots |-> lots[l].tax], of)

\* The CHECK constraints of acquisition_lots.
LotChecks(lots) ==
    \A l \in DOMAIN lots :
        /\ lots[l].units \in 0 .. lots[l].count
        /\ lots[l].book \in 0 .. lots[l].cost /\ lots[l].tax \in 0 .. lots[l].cost
        /\ lots[l].units = 0 => lots[l].book = 0 /\ lots[l].tax = 0

InStep(held) ==
    LET all == DOMAIN held.lots IN
    held.units = Units(held.lots, all) /\ held.book = Book(held.lots, all)
        /\ held.tax = Tax(held.lots, all)

\* The position after its lots have changed by whole events.
Held(lots) == [lots |-> lots, units |-> Units(lots, DOMAIN lots),
               book |-> Book(lots, DOMAIN lots), tax |-> Tax(lots, DOMAIN lots)]

\* A part of a lot costs its share, to the cent; the last of it all that is left.
Portion(amount, taken, units) ==
    IF taken = units THEN amount ELSE Cents(amount * taken, units)

\* What n shares take from each lot, oldest first.
Allocation(lots, n) ==
    LET Older(l) == {m \in DOMAIN lots : lots[m].day < lots[l].day}
        taken == [l \in DOMAIN lots |->
                     Lesser(lots[l].units, Greater(0, n - Units(lots, Older(l))))]
    IN [l \in {m \in DOMAIN lots : taken[m] > 0} |->
           [units |-> taken[l],
            book |-> Portion(lots[l].book, taken[l], lots[l].units),
            tax |-> Portion(lots[l].tax, taken[l], lots[l].units)]]

Taking(lots, allocation) ==
    [l \in DOMAIN lots |->
        IF l \in DOMAIN allocation
        THEN [lots[l] EXCEPT !.units = @ - allocation[l].units,
                             !.book = @ - allocation[l].book,
                             !.tax = @ - allocation[l].tax]
        ELSE lots[l]]

Returning(lots, allocation) ==
    [l \in DOMAIN lots |->
        IF l \in DOMAIN allocation
        THEN [lots[l] EXCEPT !.units = @ + allocation[l].units,
                             !.book = @ + allocation[l].book,
                             !.tax = @ + allocation[l].tax]
        ELSE lots[l]]

Emptied(lots, l) == [lots EXCEPT ![l].units = 0, ![l].book = 0, ![l].tax = 0]

-----------------------------------------------------------------------------
(* Operations. *)

NoAllocation == [l \in {} |-> 0]

Event(kind, amount, carrying, allocation) ==
    [kind |-> kind, amount |-> amount, carrying |-> carrying,
     allocation |-> allocation, corrected |-> FALSE]

Record(event, held, past, balances) ==
    /\ LotChecks(held.lots)
    /\ register' = held
    /\ events' = Append(past, event)
    /\ books' = Posted(balances, Recognition(event))

Purchase(held, past, balances) ==
    \E day \in Days \ {held.lots[l].day : l \in DOMAIN held.lots}, n \in Counts, cost \in Costs :
        LET amount == cost * Scale
            lot == [day |-> day, count |-> n, cost |-> amount,
                    units |-> n, book |-> amount, tax |-> amount]
            lots == [l \in DOMAIN held.lots \cup {Len(past) + 1} |->
                        IF l \in DOMAIN held.lots THEN held.lots[l] ELSE lot]
        IN Record(Event("purchase", amount, 0, NoAllocation),
                  [lots |-> lots, units |-> held.units + n,
                   book |-> held.book + amount, tax |-> held.tax + amount],
                  past, balances)

\* Refused unless position and lots agree, or when a lot's share is no Money.
Sale(held, past, balances) ==
    /\ InStep(held)
    /\ \E n \in 1 .. held.units, net \in Proceeds :
          LET allocation == Allocation(held.lots, n)
              carrying == Book(allocation, DOMAIN allocation)
          IN /\ \A l \in DOMAIN allocation : CentExact(allocation[l].book)
             /\ Record(Event("sale", net * Scale, carrying, allocation),
                       Held(Taking(held.lots, allocation)), past, balances)

\* A dividend or a fund's distribution, on a position that was opened.
Income(held, past, balances) ==
    /\ past # <<>>
    /\ \E gross \in Incomes :
          Record(Event("income", gross * Scale, 0, NoAllocation), held, past, balances)

\* _recognize_in_transaction: over what is held, recorded and booked before.
Recognize(kind, held, past, balances) ==
    \/ kind = "purchase" /\ Purchase(held, past, balances)
    \/ kind = "sale" /\ Sale(held, past, balances)
    \/ kind = "income" /\ Income(held, past, balances)

RecognizeEvent(kind) ==
    /\ Len(events) < MaxEvents
    /\ Recognize(kind, register, events, books)
    /\ UNCHANGED <<settlements, measurement>>

Settled(e) == \E s \in DOMAIN settlements : settlements[s].event = e
Superseded(s) == \E t \in DOMAIN settlements : settlements[t].supersedes = s

\* claim_transaction_for_external_action: the event's amount, and not claimed before.
Claimable(transaction, event) ==
    /\ transaction.amount * Scale = IF event.kind = "purchase" THEN -event.amount ELSE event.amount
    /\ \A s \in DOMAIN settlements : settlements[s].transaction # transaction

\* settle_investment_cash.  Whether the event was corrected is not asked.
Settle(e, transaction) ==
    /\ ~Settled(e)
    /\ Claimable(transaction, events[e])
    /\ settlements' = Append(settlements,
                             [event |-> e, transaction |-> transaction, supersedes |-> 0])
    /\ books' = Posted(books, Payment(events[e]))
    /\ UNCHANGED <<register, events, measurement>>

\* The position without event e, as prepare_economic_event_correction_v2 leaves it.
Without(e) ==
    LET event == events[e]
        part == event.allocation
    IN IF event.kind = "purchase"
       THEN [lots |-> Emptied(register.lots, e),
             units |-> register.units - register.lots[e].count,
             book |-> register.book - register.lots[e].cost,
             tax |-> register.tax - register.lots[e].cost]
       ELSE [lots |-> Returning(register.lots, part),
             units |-> register.units + Units(part, DOMAIN part),
             book |-> register.book + event.carrying,
             tax |-> register.tax + Tax(part, DOMAIN part)]

\* Mutant: an event may be corrected as long as it is not settled.
CorrectableUnsettled(e) == ~events[e].corrected /\ ~Settled(e)

\* A purchase must be whole, and nothing may have been recorded after a purchase or
\* a sale.
Correctable(e) ==
    /\ ~events[e].corrected /\ ~Settled(e)
    /\ events[e].kind # "income" => e = Len(events)
    /\ events[e].kind = "purchase" =>
          LET lot == register.lots[e] IN
          lot.units = lot.count /\ lot.book = lot.cost /\ lot.tax = lot.cost

\* correct_investment of an event: taken back, recorded anew, the entry reversed.
CorrectEvent(e) ==
    /\ Len(events) < MaxEvents
    /\ Correctable(e)
    /\ LotChecks(Without(e).lots)
    /\ Recognize(events[e].kind, Without(e), [events EXCEPT ![e].corrected = TRUE],
                 Reversed(books, Recognition(events[e])))
    /\ UNCHANGED <<settlements, measurement>>

\* correct_investment of a settlement: the same event and amount, another bank
\* transaction.
CorrectSettlement(s, transaction) ==
    LET event == events[settlements[s].event] IN
    /\ ~Superseded(s)
    /\ Claimable(transaction, event)
    /\ settlements' = Append(settlements, [event |-> settlements[s].event,
                                           transaction |-> transaction, supersedes |-> s])
    /\ books' = Reversed(Posted(books, Payment(event)), Payment(event))
    /\ UNCHANGED <<register, events, measurement>>

\* The cost of the shares left, exactly.
Source(lots, of) ==
    SumFunctionOnSet([l \in DOMAIN lots |-> Nearest(lots[l].cost * lots[l].units, lots[l].count)], of)

\* Mutant: what rounding leaves over goes to no lot.
RescaledEach(lots, open, closing) ==
    LET source == Source(lots, open)
    IN [l \in DOMAIN lots |->
           IF l \in open
           THEN [lots[l] EXCEPT !.book = Nearest(lots[l].cost * lots[l].units * closing,
                                                 lots[l].count * source)]
           ELSE lots[l]]

\* Every open lot gets its part of the closing value, the last what is left of it.
Rescaled(lots, open, closing) ==
    LET source == Source(lots, open)
        part == [l \in open |-> Nearest(lots[l].cost * lots[l].units * closing,
                                        lots[l].count * source)]
        last == CHOOSE l \in open : \A m \in open : lots[m].day <= lots[l].day
        rest == closing - SumFunction(part)
    IN [l \in DOMAIN lots |->
           IF l \in open THEN [lots[l] EXCEPT !.book = part[l] + (IF l = last THEN rest ELSE 0)]
           ELSE lots[l]]

\* record_year_end_measurement, once: at the lower of cost and the observed value.
Measure ==
    LET open == {l \in DOMAIN register.lots : register.lots[l].units > 0}
        source == Source(register.lots, open)
    IN /\ ~measurement.done /\ events # <<>>
       /\ register.book <= source /\ CentExact(source) /\ InStep(register)
       /\ \E value \in Values :
             LET closing == Lesser(source, value * Scale)
                 change == closing - register.book
             IN /\ measurement' = [done |-> TRUE, change |-> change]
                /\ register' = IF change = 0 THEN register
                               ELSE [register EXCEPT
                                       !.lots = Rescaled(register.lots, open, closing),
                                       !.book = closing]
                /\ LotChecks(register'.lots)
                /\ books' = Posted(books, Lines([investment |-> change, result |-> -change]))
       /\ UNCHANGED <<events, settlements>>

InvestmentsNext ==
    \/ \E kind \in Kind : RecognizeEvent(kind)
    \/ \E e \in DOMAIN events : CorrectEvent(e)
    \/ \E e \in DOMAIN events, t \in Transactions : Settle(e, t)
    \/ \E s \in DOMAIN settlements, t \in Transactions : CorrectSettlement(s, t)
    \/ Measure

InvestmentsSpec == InvestmentsInit /\ [][InvestmentsNext]_investmentVars

-----------------------------------------------------------------------------
(* Properties. *)

\* The events of some kinds that were not corrected, and what they come to.
Standing(past, kinds) == {e \in DOMAIN past : past[e].kind \in kinds /\ ~past[e].corrected}
Amount(past, kinds) == SumFunction([e \in Standing(past, kinds) |-> past[e].amount])
Carrying(past) == SumFunction([e \in Standing(past, {"sale"}) |-> past[e].carrying])

\* What the settlements that were not superseded paid.
Paid(kinds) ==
    LET standing == {s \in DOMAIN settlements :
                        ~Superseded(s) /\ events[settlements[s].event].kind \in kinds}
    IN SumFunction([s \in standing |-> events[settlements[s].event].amount])

\* The standing sales that took from a lot, and what they took.
Sold(past, l) == {e \in Standing(past, {"sale"}) : l \in DOMAIN past[e].allocation}
SoldUnits(past, l) == SumFunction([e \in Sold(past, l) |-> past[e].allocation[l].units])
SoldTax(past, l) == SumFunction([e \in Sold(past, l) |-> past[e].allocation[l].tax])

\* What the position says of its lots, and the ledger's account of the position.
PositionInBooks == InStep(register) /\ books["investment"] = register.book

\* What is owed, what is due and what went through the bank.
OpenInBooks ==
    /\ books["payable"] = Paid({"purchase"}) - Amount(events, {"purchase"})
    /\ books["receivable"] = Amount(events, {"sale", "income"}) - Paid({"sale", "income"})
    /\ books["bank"] = Paid({"sale", "income"}) - Paid({"purchase"})

\* Position, lots and ledger agree to the last part of a cent, and the open balances
\* are the standing events less the standing settlements, after any back-dated
\* purchases, rounded sales, measurement and corrections of either side.
BooksMatchRegister == PositionInBooks /\ OpenInBooks

\* No share and no cost is lost or used twice: what is left of a lot and what the
\* standing sales took from it are the lot that was bought, or nothing once the
\* purchase was corrected; and the book value differs from the cost that is left by
\* the measurement alone.
BasisIsHistory ==
    /\ \A l \in DOMAIN register.lots :
          LET lot == register.lots[l]
              bought == IF events[l].corrected THEN 0 ELSE 1
          IN /\ lot.units + SoldUnits(events, l) = bought * lot.count
             /\ lot.tax + SoldTax(events, l) = bought * lot.cost
    /\ register.book = Amount(events, {"purchase"}) + measurement.change - Carrying(events)

=============================================================================
