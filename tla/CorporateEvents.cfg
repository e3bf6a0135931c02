SPECIFICATION EventsSpec
CONSTANTS
  t1 = t1
  t2 = t2
  t3 = t3
  EventIds = {e1, e2, e3}
  Keys = {k1, k2, k3}
  References = {"r"}
  Figures = {1, 2}
  Extras = {0, 1}
  Days = {1, 2}
  Relations = {"DOWN"}
  Transactions = {t1, t2, t3}
  Statement <- StatementOfThree
  Openings <- FiveOpenings
  NoTransaction = NoTransaction
  NoEvent = NoEvent
SYMMETRY Clients
INVARIANTS
  BooksMatchBank
  IncreaseInBooks
  LoanOwed
CHECK_DEADLOCK FALSE
