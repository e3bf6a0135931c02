SPECIFICATION InvestmentsSpec
CONSTANTS
    Scale = 6
    Days = {1, 2, 3}
    Counts = {2}
    Costs = {90, 101}
    Proceeds = {40}
    Incomes = {40}
    Values = {50, 200}
    Transactions <- Bank
    MaxEvents = 4
INVARIANTS
    BooksMatchRegister
    BasisIsHistory
CHECK_DEADLOCK FALSE
