------------------------- MODULE CorporateEventsProofs -------------------------
(***************************************************************************)
(* Proofs about the corporate events of a company year, for every set of   *)
(* events, keys, references, amounts, bank transactions and openings.      *)
(***************************************************************************)
EXTENDS CorporateEvents, FiniteSums

-----------------------------------------------------------------------------
(* Sums over the references: a value that moves by d. *)

LEMMA SumStep ==
  ASSUME NEW v \in [References -> Int], NEW k \in References, NEW d \in Int,
         NEW w \in [References -> Int],
         \A r \in References : w[r] = IF r = k THEN v[r] + d ELSE v[r]
  PROVE  SumFunction(w) = SumFunction(v) + d /\ SumFunction(v) \in Int
<1>1. w[k] - v[k] = d /\ \A r \in References : r # k => v[r] = w[r]
  OBVIOUS
<1>2. SumFunction(w) = SumFunction(v) + (w[k] - v[k])
  BY <1>1, ReferencesAreListed, SumMoves
<1>3. QED
  BY <1>1, <1>2, ReferencesAreListed, SumFunctionInt

-----------------------------------------------------------------------------
(* Journals: what each event posts to the accounts the properties speak of. *)

\* One side of a journal, at one account.
Side(lines, a) == SumFunction([l \in {d \in lines : d[1] = a} |-> l[2]])

LEMMA JournalAt ==
  \A D, C : \A a \in Accounts : Journal(D, C)[a] = Side(D, a) - Side(C, a)
BY DEF Journal, Side

LEMMA SideAt ==
  ASSUME NEW lines, NEW a, NEW l \in lines, l[1] = a, l[2] \in Int,
         \A d \in lines : d[1] = a => d = l
  PROVE  Side(lines, a) = l[2]
<1> DEFINE there == {d \in lines : d[1] = a}
           f == [d \in there |-> d[2]]
<1>1. there = {l}
  OBVIOUS
<1>2. f \in [{l} -> Int] /\ f[l] = l[2]
  BY <1>1
<1>3. SumFunction(f) = f[l]
  <2> HIDE DEF f
  <2> QED
    BY <1>2, SumSmall
<1>4. QED
  BY <1>2, <1>3 DEF Side

LEMMA SideNone ==
  ASSUME NEW lines, NEW a, \A d \in lines : d[1] # a
  PROVE  Side(lines, a) = 0
<1> DEFINE there == {d \in lines : d[1] = a}
           f == [d \in there |-> d[2]]
<1>1. there = {}
  OBVIOUS
<1>2. f \in [{} -> Int]
  BY <1>1
<1>3. SumFunction(f) = 0
  <2> HIDE DEF f
  <2> QED
    BY <1>2, SumSmall
<1>4. QED
  BY <1>3 DEF Side

\* A side of one, two or three lines on different accounts.
LEMMA OneLine ==
  ASSUME NEW k, k[2] \in Int, NEW a
  PROVE  Side({k}, a) = IF a = k[1] THEN k[2] ELSE 0
<1>1. CASE a = k[1]
  BY <1>1, SideAt
<1>2. CASE a # k[1]
  BY <1>2, SideNone
<1>3. QED
  BY <1>1, <1>2

LEMMA TwoLines ==
  ASSUME NEW k, NEW l, k[1] # l[1], k[2] \in Int, l[2] \in Int, NEW a
  PROVE  Side({k, l}, a) = IF a = k[1] THEN k[2] ELSE IF a = l[1] THEN l[2] ELSE 0
<1> DEFINE lines == {k, l}
<1>1. CASE a = k[1]
  <2>1. k \in lines /\ \A i \in lines : i[1] = a => i = k
    BY <1>1
  <2>2. Side(lines, a) = k[2]
    <3> HIDE DEF lines
    <3> QED
      BY <1>1, <2>1, SideAt
  <2>3. QED
    BY <1>1, <2>2
<1>2. CASE a = l[1]
  <2>1. l \in lines /\ \A i \in lines : i[1] = a => i = l
    BY <1>2
  <2>2. Side(lines, a) = l[2]
    <3> HIDE DEF lines
    <3> QED
      BY <1>2, <2>1, SideAt
  <2>3. QED
    BY <1>2, <2>2
<1>3. CASE a # k[1] /\ a # l[1]
  BY <1>3, SideNone
<1>4. QED
  BY <1>1, <1>2, <1>3

LEMMA ThreeLines ==
  ASSUME NEW k, NEW l, NEW d, k[1] # l[1], k[1] # d[1], l[1] # d[1],
         k[2] \in Int, l[2] \in Int, d[2] \in Int, NEW a
  PROVE  Side({k, l, d}, a)
           = IF a = k[1] THEN k[2] ELSE IF a = l[1] THEN l[2] ELSE IF a = d[1] THEN d[2] ELSE 0
<1> DEFINE lines == {k, l, d}
<1>1. CASE a = k[1]
  <2>1. k \in lines /\ \A i \in lines : i[1] = a => i = k
    BY <1>1
  <2>2. Side(lines, a) = k[2]
    <3> HIDE DEF lines
    <3> QED
      BY <1>1, <2>1, SideAt
  <2>3. QED
    BY <1>1, <2>2
<1>2. CASE a = l[1]
  <2>1. l \in lines /\ \A i \in lines : i[1] = a => i = l
    BY <1>2
  <2>2. Side(lines, a) = l[2]
    <3> HIDE DEF lines
    <3> QED
      BY <1>2, <2>1, SideAt
  <2>3. QED
    BY <1>2, <2>2
<1>3. CASE a = d[1]
  <2>1. d \in lines /\ \A i \in lines : i[1] = a => i = d
    BY <1>3
  <2>2. Side(lines, a) = d[2]
    <3> HIDE DEF lines
    <3> QED
      BY <1>3, <2>1, SideAt
  <2>3. QED
    BY <1>3, <2>2
<1>4. CASE a # k[1] /\ a # l[1] /\ a # d[1]
  BY <1>4, SideNone
<1>5. QED
  BY <1>1, <1>2, <1>3, <1>4

\* The journal of most events: one account against another.
LEMMA Pair ==
  ASSUME NEW k, NEW l, k[2] \in Int, l[2] \in Int
  PROVE  /\ Journal({k}, {l}) \in [Accounts -> Int]
         /\ \A a \in Accounts : Journal({k}, {l})[a]
               = (IF a = k[1] THEN k[2] ELSE 0) - (IF a = l[1] THEN l[2] ELSE 0)
<1> DEFINE j == Journal({k}, {l})
<1>1. ASSUME NEW a \in Accounts
      PROVE  j[a] = (IF a = k[1] THEN k[2] ELSE 0) - (IF a = l[1] THEN l[2] ELSE 0)
  <2>1. j[a] = Side({k}, a) - Side({l}, a)
    BY JournalAt
  <2>2. Side({k}, a) = IF a = k[1] THEN k[2] ELSE 0
    BY OneLine
  <2>3. Side({l}, a) = IF a = l[1] THEN l[2] ELSE 0
    BY OneLine
  <2> HIDE DEF j
  <2>4. QED
    BY <2>1, <2>2, <2>3
<1>2. j = [a \in Accounts |-> j[a]]
  BY DEF Journal
<1> HIDE DEF j
<1>3. \A a \in Accounts : j[a] \in Int
  BY <1>1
<1>4. j \in [Accounts -> Int]
  BY <1>2, <1>3
<1>5. QED
  BY <1>1, <1>4 DEF j

-----------------------------------------------------------------------------
(* The journals of the supported events, phase by phase.                   *)

IsPriced(c) == c.amount \in Nat /\ c.extra \in Nat
IsPlain(c) == c.phase \notin {"INCREASE_REGISTERED", "PAYMENT"}

Moved(c) == IF c.phase \in IncreasePhases THEN Total(c) ELSE c.amount

Debited(c) ==
  CASE c.phase = "SUBSCRIPTION" -> "1500"
    [] c.phase = "RESTRICTED_PAYMENT" -> "1921"
    [] c.phase = "DECIDED" -> "2033"
    [] c.phase \in {"REDUCTION_REGISTERED", "FIRST_RECOGNIZED"} -> "2000"
    [] c.phase \in {"DISBURSEMENT", "BORROWED", "OWNER_LOAN"} -> "1920"
    [] c.phase = "LENT" -> IF c.relation = "DOWN" THEN "1320" ELSE "1325"
    [] c.phase = "GIVEN" -> IF c.relation = "DOWN" THEN "1300" ELSE "2050"
    [] c.phase = "RECEIVED" -> "1560"

Credited(c) ==
  CASE c.phase = "SUBSCRIPTION" -> "2030"
    [] c.phase = "RESTRICTED_PAYMENT" -> "1500"
    [] c.phase \in {"DECIDED", "FIRST_RECOGNIZED"} -> "2080"
    [] c.phase = "REDUCTION_REGISTERED" -> "2033"
    [] c.phase = "DISBURSEMENT" -> "2220"
    [] c.phase = "LENT" -> "1920"
    [] c.phase = "BORROWED" -> "2260"
    [] c.phase = "OWNER_LOAN" -> "2255"
    [] c.phase = "GIVEN" -> "2960"
    [] c.phase = "RECEIVED" -> IF c.relation = "UP" THEN "8075" ELSE "2035"

LEMMA PlainAccounts ==
  ASSUME NEW c, c.phase \in Phases, IsPlain(c)
  PROVE  Debited(c) \in Accounts /\ Credited(c) \in Accounts
BY DEF Debited, Credited, IsPlain, Phases, IncreasePhases, ReductionPhases, LoanPhases,
       FundingPhases, GroupPhases, Accounts

LEMMA LinesByKind ==
  ASSUME NEW c
  PROVE  /\ c.phase \in IncreasePhases => Lines(c) = IncreaseLines(c)
         /\ c.phase \in ReductionPhases => Lines(c) = ReductionLines(c)
         /\ c.phase \in LoanPhases => Lines(c) = LoanLines(c)
         /\ c.phase \in FundingPhases => Lines(c) = FundingLines(c)
         /\ c.phase \in GroupPhases => Lines(c) = GroupLines(c)
<1>1. /\ c.phase \in IncreasePhases => c.phase \notin ReductionPhases \cup LoanPhases
                                                        \cup FundingPhases \cup GroupPhases
      /\ c.phase \in ReductionPhases => c.phase \notin LoanPhases \cup FundingPhases \cup GroupPhases
      /\ c.phase \in LoanPhases => c.phase \notin FundingPhases \cup GroupPhases
      /\ c.phase \in FundingPhases => c.phase \notin GroupPhases
  BY DEF IncreasePhases, ReductionPhases, LoanPhases, FundingPhases, GroupPhases
<1>2. QED
  BY <1>1 DEF Lines

LEMMA PlainIsPair ==
  ASSUME NEW c, c.phase \in Phases, IsPlain(c)
  PROVE  Lines(c) = Journal({<<Debited(c), Moved(c)>>}, {<<Credited(c), Moved(c)>>})
<1>1. CASE c.phase \in IncreasePhases
  <2>1. Lines(c) = IncreaseLines(c) /\ Moved(c) = Total(c)
    BY <1>1, LinesByKind DEF Moved
  <2>2. c.phase \in {"SUBSCRIPTION", "RESTRICTED_PAYMENT"}
    BY <1>1 DEF IsPlain, IncreasePhases
  <2>3. QED
    BY <2>1, <2>2 DEF IncreaseLines, Debited, Credited
<1>2. CASE c.phase \in ReductionPhases
  <2>1. Lines(c) = ReductionLines(c)
    BY <1>2, LinesByKind
  <2>2. Moved(c) = c.amount
    BY <1>2 DEF Moved, IncreasePhases, ReductionPhases
  <2>3. QED
    BY <1>2, <2>1, <2>2 DEF ReductionPhases, ReductionLines, Debited, Credited
<1>3. CASE c.phase \in LoanPhases
  <2>1. Lines(c) = LoanLines(c)
    BY <1>3, LinesByKind
  <2>2. Moved(c) = c.amount /\ c.phase = "DISBURSEMENT"
    BY <1>3 DEF IsPlain, Moved, IncreasePhases, LoanPhases
  <2>3. QED
    BY <2>1, <2>2 DEF LoanLines, Debited, Credited
<1>4. CASE c.phase \in FundingPhases
  <2>1. Lines(c) = FundingLines(c)
    BY <1>4, LinesByKind
  <2>2. Moved(c) = c.amount
    BY <1>4 DEF Moved, IncreasePhases, FundingPhases
  <2>3. QED
    BY <1>4, <2>1, <2>2 DEF FundingPhases, FundingLines, Debited, Credited
<1>5. CASE c.phase \in GroupPhases
  <2>1. Lines(c) = GroupLines(c)
    BY <1>5, LinesByKind
  <2>2. Moved(c) = c.amount
    BY <1>5 DEF Moved, IncreasePhases, GroupPhases
  <2>3. QED
    BY <1>5, <2>1, <2>2 DEF GroupPhases, GroupLines, Debited, Credited
<1>6. QED
  BY <1>1, <1>2, <1>3, <1>4, <1>5 DEF Phases

LEMMA PlainLines ==
  ASSUME NEW c, c.phase \in Phases, IsPlain(c), IsPriced(c)
  PROVE  /\ Lines(c) \in [Accounts -> Int]
         /\ \A a \in Accounts : Lines(c)[a] = (IF a = Debited(c) THEN Moved(c) ELSE 0)
                                                - (IF a = Credited(c) THEN Moved(c) ELSE 0)
<1> DEFINE x == Debited(c)
           y == Credited(c)
           m == Moved(c)
<1>1. m \in Int
  BY DEF Moved, Total, IsPriced
<1>2. Lines(c) = Journal({<<x, m>>}, {<<y, m>>})
  BY PlainIsPair
<1> HIDE DEF x, y, m
<1>3. PICK k, l : k = <<x, m>> /\ l = <<y, m>>
  OBVIOUS
<1>4. k[1] = x /\ k[2] = m /\ l[1] = y /\ l[2] = m /\ k[2] \in Int /\ l[2] \in Int
  BY <1>1, <1>3
<1> DEFINE j == Journal({k}, {l})
<1>5. /\ j \in [Accounts -> Int]
      /\ \A a \in Accounts : j[a] = (IF a = k[1] THEN k[2] ELSE 0) - (IF a = l[1] THEN l[2] ELSE 0)
  <2>1. k[2] \in Int /\ l[2] \in Int
    BY <1>4
  <2>2. QED
    BY <2>1, Pair
<1>6. Lines(c) = j
  BY <1>2, <1>3
<1> HIDE DEF j
<1>7. QED
  BY <1>4, <1>5, <1>6 DEF x, y, m

\* Registration clears the unregistered increase and the restricted deposit.
LEMMA RegistrationLines ==
  ASSUME NEW c, c.phase = "INCREASE_REGISTERED", IsPriced(c)
  PROVE  /\ Lines(c) \in [Accounts -> Int]
         /\ \A a \in Accounts : Lines(c)[a] =
              (IF a \in {"2030", "1920"} THEN Total(c) ELSE 0)
                - (IF a = "2000" THEN c.amount
                   ELSE IF a = "2020" THEN c.extra ELSE IF a = "1921" THEN Total(c) ELSE 0)
<1> DEFINE m == Total(c)
           n == c.amount
           p == c.extra
           debits == {<<"2030", m>>, <<"1920", m>>}
           credits == {<<"2000", n>>, <<"2020", p>>, <<"1921", m>>}
           j == Journal(debits, credits)
<1>1. m \in Int /\ n \in Int /\ p \in Int
  BY DEF Total, IsPriced
<1>2. Lines(c) = j
  <2> HIDE DEF j
  <2>1. Lines(c) = IncreaseLines(c)
    BY LinesByKind DEF IncreasePhases
  <2>2. QED
    BY <2>1 DEF IncreaseLines, j
<1>3. ASSUME NEW a \in Accounts
      PROVE  j[a] = (IF a \in {"2030", "1920"} THEN m ELSE 0)
                - (IF a = "2000" THEN n
                   ELSE IF a = "2020" THEN p ELSE IF a = "1921" THEN m ELSE 0)
  <2> HIDE DEF m, n, p
  <2>1. PICK b, d : b = <<"2030", m>> /\ d = <<"1920", m>>
    OBVIOUS
  <2>2. PICK k, l, e : k = <<"2000", n>> /\ l = <<"2020", p>> /\ e = <<"1921", m>>
    OBVIOUS
  <2>3. /\ b[1] = "2030" /\ b[2] = m /\ d[1] = "1920" /\ d[2] = m
        /\ k[1] = "2000" /\ k[2] = n /\ l[1] = "2020" /\ l[2] = p /\ e[1] = "1921" /\ e[2] = m
    BY <2>1, <2>2
  <2>4. debits = {b, d} /\ credits = {k, l, e}
    BY <2>1, <2>2
  <2> HIDE DEF debits, credits
  <2>5. Side(debits, a) = IF a = "2030" THEN m ELSE IF a = "1920" THEN m ELSE 0
    <3>1. Side({b, d}, a) = IF a = b[1] THEN b[2] ELSE IF a = d[1] THEN d[2] ELSE 0
      BY <1>1, <2>3, TwoLines
    <3>2. QED
      BY <2>3, <2>4, <3>1
  <2>6. Side(credits, a) = IF a = "2000" THEN n
                           ELSE IF a = "2020" THEN p ELSE IF a = "1921" THEN m ELSE 0
    <3>1. Side({k, l, e}, a) = IF a = k[1] THEN k[2]
                               ELSE IF a = l[1] THEN l[2] ELSE IF a = e[1] THEN e[2] ELSE 0
      BY <1>1, <2>3, ThreeLines
    <3>2. QED
      BY <2>3, <2>4, <3>1
  <2>7. j[a] = Side(debits, a) - Side(credits, a)
    BY JournalAt
  <2> HIDE DEF j
  <2>8. QED
    BY <2>5, <2>6, <2>7
<1>4. j = [a \in Accounts |-> j[a]]
  BY DEF Journal
<1> HIDE DEF j, m, n, p
<1>5. \A a \in Accounts : j[a] \in Int
  BY <1>1, <1>3
<1>6. j \in [Accounts -> Int]
  BY <1>4, <1>5
<1>7. QED
  BY <1>2, <1>3, <1>6 DEF m, n, p

\* A payment is principal, interest and fee against the bank.
LEMMA PaymentLines ==
  ASSUME NEW c, c.phase = "PAYMENT", IsPriced(c)
  PROVE  /\ Lines(c) \in [Accounts -> Int]
         /\ \A a \in Accounts : Lines(c)[a] =
              (IF a = "2220" THEN c.amount ELSE IF a = "8150" THEN c.extra ELSE 0)
                - (IF a = "1920" THEN Total(c) ELSE 0)
<1> DEFINE m == Total(c)
           n == c.amount
           p == c.extra
           debits == {<<"2220", n>>, <<"8150", p>>}
           credits == {<<"1920", m>>}
           j == Journal(debits, credits)
<1>1. m \in Int /\ n \in Int /\ p \in Int
  BY DEF Total, IsPriced
<1>2. Lines(c) = j
  <2> HIDE DEF j
  <2>1. Lines(c) = LoanLines(c)
    BY LinesByKind DEF LoanPhases
  <2>2. QED
    BY <2>1 DEF LoanLines, j
<1>3. ASSUME NEW a \in Accounts
      PROVE  j[a] = (IF a = "2220" THEN n ELSE IF a = "8150" THEN p ELSE 0)
                      - (IF a = "1920" THEN m ELSE 0)
  <2> HIDE DEF m, n, p
  <2>1. PICK b, d, k : b = <<"2220", n>> /\ d = <<"8150", p>> /\ k = <<"1920", m>>
    OBVIOUS
  <2>2. b[1] = "2220" /\ b[2] = n /\ d[1] = "8150" /\ d[2] = p /\ k[1] = "1920" /\ k[2] = m
    BY <2>1
  <2>3. debits = {b, d} /\ credits = {k}
    BY <2>1
  <2> HIDE DEF debits, credits
  <2>4. Side(debits, a) = IF a = "2220" THEN n ELSE IF a = "8150" THEN p ELSE 0
    <3>1. Side({b, d}, a) = IF a = b[1] THEN b[2] ELSE IF a = d[1] THEN d[2] ELSE 0
      BY <1>1, <2>2, TwoLines
    <3>2. QED
      BY <2>2, <2>3, <3>1
  <2>5. Side(credits, a) = IF a = "1920" THEN m ELSE 0
    <3>1. Side({k}, a) = IF a = k[1] THEN k[2] ELSE 0
      BY <1>1, <2>2, OneLine
    <3>2. QED
      BY <2>2, <2>3, <3>1
  <2>6. j[a] = Side(debits, a) - Side(credits, a)
    BY JournalAt
  <2> HIDE DEF j
  <2>7. QED
    BY <2>4, <2>5, <2>6
<1>4. j = [a \in Accounts |-> j[a]]
  BY DEF Journal
<1> HIDE DEF j, m, n, p
<1>5. \A a \in Accounts : j[a] \in Int
  BY <1>1, <1>3
<1>6. j \in [Accounts -> Int]
  BY <1>4, <1>5
<1>7. QED
  BY <1>2, <1>3, <1>6 DEF m, n, p

(* What the properties read of a journal: the two bank accounts together,   *)
(* the accounts of an increase, and the bank loans.                        *)
LEMMA LinesFacts ==
  ASSUME NEW c, c.phase \in Phases, IsPriced(c)
  PROVE  /\ Lines(c) \in [Accounts -> Int]
         /\ Lines(c)["1920"] + Lines(c)["1921"]
              = IF c.phase \in CashPhases THEN BankAmount(c) ELSE 0
         /\ Lines(c)["2220"] = IF c.phase = "DISBURSEMENT" THEN 0 - c.amount
                               ELSE IF c.phase = "PAYMENT" THEN c.amount ELSE 0
         /\ Lines(c)["2380"] = 0
         /\ Lines(c)["1500"] = IF c.phase = "SUBSCRIPTION" THEN Total(c)
                               ELSE IF c.phase = "RESTRICTED_PAYMENT" THEN 0 - Total(c) ELSE 0
         /\ Lines(c)["1921"] = IF c.phase = "RESTRICTED_PAYMENT" THEN Total(c)
                               ELSE IF c.phase = "INCREASE_REGISTERED" THEN 0 - Total(c) ELSE 0
         /\ Lines(c)["2030"] = IF c.phase = "SUBSCRIPTION" THEN 0 - Total(c)
                               ELSE IF c.phase = "INCREASE_REGISTERED" THEN Total(c) ELSE 0
         /\ Lines(c)["2020"] = IF c.phase = "INCREASE_REGISTERED" THEN 0 - c.extra ELSE 0
<1>1. /\ "1920" \in Accounts /\ "1921" \in Accounts /\ "2220" \in Accounts
      /\ "2380" \in Accounts /\ "1500" \in Accounts /\ "2030" \in Accounts /\ "2020" \in Accounts
  BY DEF Accounts
<1>2. Total(c) \in Int /\ c.amount \in Int /\ c.extra \in Int
  BY DEF Total, IsPriced
<1>3. CASE c.phase = "INCREASE_REGISTERED"
  <2>1. /\ Lines(c)["1920"] = Total(c) /\ Lines(c)["1921"] = 0 - Total(c)
        /\ Lines(c)["2220"] = 0 /\ Lines(c)["2380"] = 0 /\ Lines(c)["1500"] = 0
        /\ Lines(c)["2030"] = Total(c) /\ Lines(c)["2020"] = 0 - c.extra
    BY <1>1, <1>2, <1>3, RegistrationLines
  <2>2. QED
    BY <1>2, <1>3, <2>1, RegistrationLines DEF CashPhases, LoanPhases, FundingPhases
<1>4. CASE c.phase = "PAYMENT"
  <2>1. /\ Lines(c)["1920"] = 0 - Total(c) /\ Lines(c)["1921"] = 0
        /\ Lines(c)["2220"] = c.amount /\ Lines(c)["2380"] = 0 /\ Lines(c)["1500"] = 0
        /\ Lines(c)["2030"] = 0 /\ Lines(c)["2020"] = 0
    BY <1>1, <1>2, <1>4, PaymentLines
  <2>2. QED
    BY <1>2, <1>4, <2>1, PaymentLines DEF CashPhases, LoanPhases, BankAmount
<1>5. CASE IsPlain(c)
  <2> DEFINE x == Debited(c)
             y == Credited(c)
             m == Moved(c)
  <2>1. /\ Lines(c) \in [Accounts -> Int]
        /\ \A a \in Accounts : Lines(c)[a] = (IF a = x THEN m ELSE 0) - (IF a = y THEN m ELSE 0)
    BY <1>5, PlainLines
  <2>2. m \in Int
    BY <1>2 DEF Moved
  <2>3. CASE c.phase \in {"SUBSCRIPTION", "RESTRICTED_PAYMENT"}
    <3>1. m = Total(c)
      BY <2>3 DEF Moved, IncreasePhases
    <3>2. IF c.phase = "SUBSCRIPTION" THEN x = "1500" /\ y = "2030" ELSE x = "1921" /\ y = "1500"
      BY <2>3 DEF Debited, Credited
    <3> HIDE DEF x, y, m
    <3>3. QED
      BY <1>1, <1>2, <2>1, <2>2, <2>3, <3>1, <3>2 DEF CashPhases, LoanPhases, FundingPhases, BankAmount
  <2>4. CASE c.phase \in ReductionPhases \cup GroupPhases
    <3>1. x \notin {"1920", "1921", "2220", "2380", "1500", "2030", "2020"}
      BY <2>4 DEF Debited, ReductionPhases, GroupPhases
    <3>2. y \notin {"1920", "1921", "2220", "2380", "1500", "2030", "2020"}
      BY <2>4 DEF Credited, ReductionPhases, GroupPhases
    <3> HIDE DEF x, y, m
    <3>3. QED
      BY <1>1, <2>1, <2>4, <3>1, <3>2
        DEF CashPhases, LoanPhases, FundingPhases, ReductionPhases, GroupPhases
  <2>5. CASE c.phase \in {"DISBURSEMENT"} \cup FundingPhases
    <3>1. m = c.amount
      BY <2>5 DEF Moved, IncreasePhases, FundingPhases
    <3>2. /\ c.phase = "LENT" => x \in {"1320", "1325"} /\ y = "1920"
          /\ c.phase = "DISBURSEMENT" => x = "1920" /\ y = "2220"
          /\ c.phase \in {"BORROWED", "OWNER_LOAN"} => x = "1920" /\ y \in {"2255", "2260"}
      BY DEF Debited, Credited
    <3> HIDE DEF x, y, m
    <3>3. CASE c.phase = "LENT"
      BY <1>1, <1>2, <2>1, <2>2, <3>1, <3>2, <3>3
        DEF CashPhases, LoanPhases, FundingPhases, BankAmount
    <3>4. CASE c.phase = "DISBURSEMENT"
      BY <1>1, <1>2, <2>1, <2>2, <3>1, <3>2, <3>4
        DEF CashPhases, LoanPhases, FundingPhases, BankAmount
    <3>5. CASE c.phase \in {"BORROWED", "OWNER_LOAN"}
      BY <1>1, <1>2, <2>1, <2>2, <3>1, <3>2, <3>5
        DEF CashPhases, LoanPhases, FundingPhases, BankAmount
    <3>6. QED
      BY <2>5, <3>3, <3>4, <3>5 DEF FundingPhases
  <2>6. QED
    BY <1>5, <2>3, <2>4, <2>5 DEF IsPlain, Phases, IncreasePhases, LoanPhases
<1>6. QED
  BY <1>3, <1>4, <1>5 DEF IsPlain

\* What an opening component stands for at the same accounts.
LEMMA OpeningFacts ==
  ASSUME NEW o \in OpeningComponent
  PROVE  /\ OpeningLines(o) \in [Accounts -> Int]
         /\ OpeningLines(o)["2220"] = IF o.phase = "DISBURSEMENT" /\ o.maturity # "SHORT_TERM"
                                      THEN 0 - o.amount ELSE 0
         /\ OpeningLines(o)["2380"] = IF o.phase = "DISBURSEMENT" /\ o.maturity = "SHORT_TERM"
                                      THEN 0 - o.amount ELSE 0
         /\ OpeningLines(o)["1500"] = IF o.phase = "SUBSCRIPTION" THEN Total(o) ELSE 0
         /\ OpeningLines(o)["1921"] = IF o.phase = "RESTRICTED_PAYMENT" THEN Total(o) ELSE 0
         /\ OpeningLines(o)["2030"] = IF o.phase \in {"SUBSCRIPTION", "RESTRICTED_PAYMENT"}
                                      THEN 0 - Total(o) ELSE 0
         /\ OpeningLines(o)["2020"] = 0
<1>1. o.phase \in OpeningPhases /\ IsPriced(o)
  BY DEF OpeningComponent, IsPriced
<1>2. CASE o.phase = "RESTRICTED_PAYMENT"
  <2> DEFINE m == Total(o)
  <2>1. m \in Int
    BY <1>1 DEF Total, IsPriced
  <2>2. OpeningLines(o) = Journal({<<"1921", m>>}, {<<"2030", m>>})
    BY <1>2 DEF OpeningLines
  <2> HIDE DEF m
  <2>3. PICK k, l : k = <<"1921", m>> /\ l = <<"2030", m>>
    OBVIOUS
  <2>4. /\ k[1] = "1921" /\ k[2] = m /\ l[1] = "2030" /\ l[2] = m
        /\ k[2] \in Int /\ l[2] \in Int
    BY <2>1, <2>3
  <2> DEFINE j == Journal({k}, {l})
  <2>5. /\ j \in [Accounts -> Int]
        /\ \A a \in Accounts :
             j[a] = (IF a = k[1] THEN k[2] ELSE 0) - (IF a = l[1] THEN l[2] ELSE 0)
    BY <2>4, Pair
  <2>6. OpeningLines(o) = j
    BY <2>2, <2>3
  <2> HIDE DEF j
  <2>7. /\ "1921" \in Accounts /\ "2030" \in Accounts
        /\ "2220" \in Accounts /\ "2380" \in Accounts
        /\ "1500" \in Accounts /\ "2020" \in Accounts
    BY DEF Accounts
  <2>8. /\ j["1921"] = m /\ j["2030"] = 0 - m
        /\ j["2220"] = 0 /\ j["2380"] = 0 /\ j["1500"] = 0 /\ j["2020"] = 0
    BY <2>1, <2>4, <2>5, <2>7
  <2>9. QED
    BY <1>2, <2>5, <2>6, <2>8 DEF m
<1>3. CASE o.phase = "DISBURSEMENT"
  <2> DEFINE m == o.amount
             loan == LoanAccount(o)
  <2>1. m \in Int
    BY <1>1 DEF IsPriced
  <2>2. OpeningLines(o) = Journal({<<"1920", m>>}, {<<loan, m>>})
    BY <1>3 DEF OpeningLines
  <2>3. loan = IF o.maturity = "SHORT_TERM" THEN "2380" ELSE "2220"
    BY DEF LoanAccount
  <2> HIDE DEF m, loan
  <2>4. PICK k, l : k = <<"1920", m>> /\ l = <<loan, m>>
    OBVIOUS
  <2>5. /\ k[1] = "1920" /\ k[2] = m /\ l[1] = loan /\ l[2] = m
        /\ k[2] \in Int /\ l[2] \in Int
    BY <2>1, <2>4
  <2> DEFINE j == Journal({k}, {l})
  <2>6. /\ j \in [Accounts -> Int]
        /\ \A a \in Accounts :
             j[a] = (IF a = k[1] THEN k[2] ELSE 0) - (IF a = l[1] THEN l[2] ELSE 0)
    BY <2>5, Pair
  <2>7. OpeningLines(o) = j
    BY <2>2, <2>4
  <2> HIDE DEF j
  <2>8. /\ "1921" \in Accounts /\ "2030" \in Accounts
        /\ "2220" \in Accounts /\ "2380" \in Accounts
        /\ "1500" \in Accounts /\ "2020" \in Accounts
    BY DEF Accounts
  <2>9. /\ j["1921"] = 0 /\ j["2030"] = 0 /\ j["1500"] = 0 /\ j["2020"] = 0
        /\ j["2220"] = IF o.maturity # "SHORT_TERM" THEN 0 - m ELSE 0
        /\ j["2380"] = IF o.maturity = "SHORT_TERM" THEN 0 - m ELSE 0
    BY <2>1, <2>3, <2>5, <2>6, <2>8
  <2>10. QED
    BY <1>3, <2>6, <2>7, <2>9 DEF m
<1>4. CASE o.phase \in {"SUBSCRIPTION", "DECIDED"}
  <2>1. OpeningLines(o) = Lines(o) /\ o.phase \in Phases
    <3>1. CASE o.phase = "SUBSCRIPTION"
      BY <3>1, LinesByKind DEF OpeningLines, IncreasePhases, Phases
    <3>2. CASE o.phase = "DECIDED"
      BY <3>2, LinesByKind DEF OpeningLines, ReductionPhases, Phases
    <3>3. QED
      BY <1>4, <3>1, <3>2
  <2>2. QED
    BY <1>1, <1>4, <2>1, LinesFacts
<1>5. QED
  BY <1>1, <1>2, <1>3, <1>4 DEF OpeningPhases

-----------------------------------------------------------------------------
(***************************************************************************)
(* The invariants.                                                         *)
(***************************************************************************)

\* Where the values live; a reversal is of a recorded event.
Typed ==
  /\ opening \in Openings
  /\ events \in [EventIds -> Commands \cup {NoEvent}]
  /\ IsFiniteSet(Recorded)
  /\ reversed \subseteq Recorded
  /\ claimed \in [Transactions -> EventIds \cup {NoEvent}]
  /\ books \in [Accounts -> Int]

Claimed == {t \in Transactions : claimed[t] # NoEvent}
Standing == {t \in Transactions : claimed[t] # NoEvent /\ claimed[t] \notin reversed}

\* A transaction is claimed by the one cash event that names it and shows its amount.
ClaimsAgree ==
  /\ IsFiniteSet(Claimed)
  /\ \A t \in Claimed :
       LET e == claimed[t]
       IN  /\ e \in Recorded
           /\ events[e].phase \in CashPhases /\ events[e].bank = t
           /\ Statement[t] = BankAmount(events[e])
  /\ \A e \in Recorded : events[e].phase \in CashPhases => claimed[events[e].bank] = e

AtMostOne(s) == \A x, y \in s : x = y

\* A reference has one loan.
OneLoan == \A r \in References : AtMostOne(LoanBasis(r))

\* A reference has one subscription and one payment of it, and is registered on both.
OneIncrease ==
  \A r \in References :
    /\ AtMostOne(SubscriptionBasis(r)) /\ AtMostOne(PaymentBasis(r))
    /\ \A p \in PaymentBasis(r) : \E s \in SubscriptionBasis(r) : SameContribution(s, p)
    /\ Registered(r) => PaymentBasis(r) # {}

(* A command has a phase, amounts and, for a cash phase, a transaction.     *)
LEMMA CommandFacts ==
  ASSUME NEW c \in Commands
  PROVE  /\ c.phase \in Phases /\ c.ref \in References /\ IsPriced(c) /\ c # NoEvent
         /\ c.phase \in CashPhases => c.bank \in Transactions
<1>1. c # NoEvent
  BY NoneIsNobody
<1> DEFINE Sums == Figures \cup {0}
           Banks == Transactions \cup {NoTransaction}
<1>2. c \in [phase : Phases, ref : References, amount : Sums, extra : Extras,
             day : Days, relation : Relations, bank : Banks, key : Keys]
  BY Zenon DEF Commands
<1>3. c.phase \in CashPhases => c.bank # NoTransaction
  BY Zenon DEF Commands
<1> HIDE DEF Sums, Banks
<1>4. c.phase \in Phases /\ c.ref \in References
  BY <1>2
<1>5. c.amount \in Sums /\ c.extra \in Extras
  BY <1>2
<1>6. c.bank \in Banks
  BY <1>2
<1>7. IsPriced(c)
  <2>1. c.extra \in Nat
    BY <1>5, FiguresAreMoney
  <2>2. Sums \subseteq Nat
    BY FiguresAreMoney DEF Sums
  <2>3. QED
    BY <1>5, <2>1, <2>2 DEF IsPriced
<1>8. QED
  BY <1>1, <1>3, <1>4, <1>6, <1>7 DEF Banks

LEMMA RecordedFacts ==
  ASSUME Typed, NEW e \in Recorded
  PROVE  e \in EventIds /\ e # NoEvent /\ events[e] \in Commands
BY NoneIsNobody DEF Typed, Recorded

LEMMA InitTyped == EventsInit => Typed
<1> SUFFICES ASSUME EventsInit PROVE Typed
  OBVIOUS
<1>1. opening \subseteq OpeningComponent /\ IsFiniteSet(opening)
  BY OpeningsAreUnique DEF EventsInit
<1>2. Recorded = {}
  BY DEF EventsInit, Recorded
<1>3. ASSUME NEW a \in Accounts
      PROVE  SumFunction([o \in opening |-> OpeningLines(o)[a]]) \in Int
  <2> DEFINE f == [o \in opening |-> OpeningLines(o)[a]]
  <2>1. ASSUME NEW o \in opening PROVE OpeningLines(o)[a] \in Int
    <3>1. o \in OpeningComponent
      BY <1>1
    <3>2. OpeningLines(o) \in [Accounts -> Int]
      BY <3>1, OpeningFacts
    <3>3. QED
      BY <3>2
  <2>2. f \in [opening -> Int]
    BY <2>1
  <2> HIDE DEF f
  <2>3. SumFunction(f) \in Int
    BY <1>1, <2>2, SumFunctionInt
  <2>4. QED
    BY <2>3 DEF f
<1>4. QED
  BY <1>2, <1>3, FS_EmptySet DEF EventsInit, Typed

LEMMA RecordKeeps ==
  ASSUME Typed, NEW e \in EventIds, NEW c \in Commands, Record(e, c)
  PROVE  /\ Recorded' = Recorded \cup {e} /\ e \notin Recorded
         /\ events'[e] = c /\ \A f \in Recorded : events'[f] = events[f]
         /\ opening' = opening /\ reversed' = reversed
         /\ \A a \in Accounts : books'[a] = books[a] + Lines(c)[a]
         /\ Typed'
<1>1. c \in Commands /\ c # NoEvent /\ Lines(c) \in [Accounts -> Int]
  BY CommandFacts, LinesFacts
<1>2. e \notin Recorded
  BY DEF Record, Fresh
<1>3. events' = [events EXCEPT ![e] = c] /\ UNCHANGED <<opening, reversed>>
  BY DEF Record
<1>4. /\ events' \in [EventIds -> Commands \cup {NoEvent}]
      /\ events'[e] = c /\ \A f \in EventIds \ {e} : events'[f] = events[f]
  BY <1>3 DEF Typed
<1>5. Recorded' = Recorded \cup {e}
  BY <1>1, <1>4 DEF Recorded
<1>6. \A f \in Recorded : events'[f] = events[f]
  BY <1>2, <1>4 DEF Recorded
<1>7. IsFiniteSet(Recorded')
  BY <1>5, FS_AddElement DEF Typed
<1>8. claimed' \in [Transactions -> EventIds \cup {NoEvent}]
  <2>1. CASE c.phase \in CashPhases
    BY <2>1 DEF Record, Claims, Typed
  <2>2. CASE c.phase \notin CashPhases
    BY <2>2 DEF Record, Claims, Typed
  <2>3. QED
    BY <2>1, <2>2
<1>9. /\ books' \in [Accounts -> Int]
      /\ \A a \in Accounts : books'[a] = books[a] + Lines(c)[a]
  <2> DEFINE j == Lines(c)
  <2>1. j \in [Accounts -> Int] /\ books' = Joined(books, j)
    BY <1>1 DEF Record
  <2> HIDE DEF j
  <2>2. books' = [a \in Accounts |-> books[a] + j[a]] /\ books \in [Accounts -> Int]
    BY <2>1 DEF Joined, Typed
  <2>3. \A a \in Accounts : books[a] + j[a] \in Int
    BY <2>1, <2>2
  <2>4. QED
    BY <2>2, <2>3 DEF j
<1>10. reversed' \subseteq Recorded'
  BY <1>3, <1>5 DEF Typed
<1>11. Typed'
  BY <1>3, <1>4, <1>7, <1>8, <1>9, <1>10 DEF Typed
<1>12. QED
  BY <1>2, <1>3, <1>4, <1>5, <1>6, <1>9, <1>11

LEMMA ReverseKeeps ==
  ASSUME Typed, NEW e \in EventIds, Reverse(e)
  PROVE  /\ e \in Recorded /\ e \notin reversed /\ Recorded' = Recorded
         /\ events' = events /\ opening' = opening /\ claimed' = claimed
         /\ reversed' = reversed \cup {e}
         /\ \A a \in Accounts : books'[a] = books[a] - Lines(events[e])[a]
         /\ Typed'
<1>1. /\ e \in Recorded /\ e \notin reversed /\ reversed' = reversed \cup {e}
      /\ UNCHANGED <<opening, events, claimed>>
  BY DEF Reverse
<1>2. Recorded' = Recorded
  BY <1>1 DEF Recorded
<1> DEFINE j == Lines(events[e])
<1>3. j \in [Accounts -> Int]
  BY <1>1, RecordedFacts, CommandFacts, LinesFacts
<1>4. books' = Joined(books, Reversed(j))
  BY DEF Reverse
<1> HIDE DEF j
<1>5. books' = [a \in Accounts |-> books[a] + (0 - j[a])] /\ books \in [Accounts -> Int]
  BY <1>4 DEF Joined, Reversed, Typed
<1>6. \A a \in Accounts : books'[a] = books[a] - j[a] /\ books'[a] \in Int
  BY <1>3, <1>5
<1>7. books' \in [Accounts -> Int]
  BY <1>5, <1>6
<1>8. Typed'
  BY <1>1, <1>2, <1>7 DEF Typed
<1>9. QED
  BY <1>1, <1>2, <1>6, <1>8 DEF j

LEMMA StutterKeeps ==
  ASSUME UNCHANGED vars
  PROVE  /\ Recorded' = Recorded /\ events' = events /\ opening' = opening
         /\ claimed' = claimed /\ reversed' = reversed /\ books' = books
         /\ Typed => Typed'
BY DEF vars, Recorded, Typed

-----------------------------------------------------------------------------
(* The bank.                                                               *)

BooksInv == Typed /\ ClaimsAgree /\ BooksMatchBank

LEMMA StandingFacts ==
  ASSUME Typed, ClaimsAgree
  PROVE  IsFiniteSet(Standing) /\ \A t \in Standing : Statement[t] \in Int
<1>1. Standing \subseteq Claimed
  BY DEF Standing, Claimed
<1>2. QED
  BY <1>1, FS_Subset, StatementIsSigned DEF ClaimsAgree, Standing

CarriedCash ==
  SumFunction([o \in opening |-> OpeningLines(o)["1920"] + OpeningLines(o)["1921"]])

LEMMA BooksByStanding ==
  BooksMatchBank
    <=> books["1920"] + books["1921"] = CarriedCash + SumFunctionOnSet(Statement, Standing)
BY Zenon DEF BooksMatchBank, CarriedCash, Standing

LEMMA CarriedCashInt ==
  ASSUME Typed
  PROVE  CarriedCash \in Int
<1>1. opening \subseteq OpeningComponent /\ IsFiniteSet(opening)
  BY OpeningsAreUnique DEF Typed
<1> DEFINE h == [o \in opening |-> OpeningLines(o)["1920"] + OpeningLines(o)["1921"]]
<1>2. ASSUME NEW o \in opening
      PROVE  OpeningLines(o)["1920"] + OpeningLines(o)["1921"] \in Int
  <2>1. OpeningLines(o) \in [Accounts -> Int]
    BY <1>1, OpeningFacts
  <2>2. QED
    BY <2>1 DEF Accounts
<1>3. h \in [opening -> Int]
  BY <1>2
<1> HIDE DEF h
<1>4. SumFunction(h) \in Int
  BY <1>1, <1>3, SumFunctionInt
<1>5. QED
  BY <1>4 DEF h, CarriedCash

LEMMA InitBooks ==
  ASSUME EventsInit
  PROVE  BooksInv
<1>1. Typed
  BY InitTyped
<1>2. opening \subseteq OpeningComponent /\ IsFiniteSet(opening)
  BY <1>1, OpeningsAreUnique DEF Typed
<1>3. Recorded = {} /\ Claimed = {} /\ Standing = {}
  BY DEF EventsInit, Recorded, Claimed, Standing
<1>4. ClaimsAgree
  BY <1>3, FS_EmptySet DEF ClaimsAgree
<1> DEFINE f == [o \in opening |-> OpeningLines(o)["1920"]]
           g == [o \in opening |-> OpeningLines(o)["1921"]]
           h == [o \in opening |-> OpeningLines(o)["1920"] + OpeningLines(o)["1921"]]
<1>5. ASSUME NEW o \in opening
      PROVE  OpeningLines(o)["1920"] \in Int /\ OpeningLines(o)["1921"] \in Int
  <2>1. OpeningLines(o) \in [Accounts -> Int]
    BY <1>2, OpeningFacts
  <2>2. QED
    BY <2>1 DEF Accounts
<1>6. /\ f \in [opening -> Int] /\ g \in [opening -> Int] /\ h \in [opening -> Int]
      /\ \A o \in opening : f[o] \in Int /\ g[o] \in Int /\ h[o] = f[o] + g[o]
  BY <1>5
<1>7. books["1920"] = SumFunction(f) /\ books["1921"] = SumFunction(g)
  BY DEF EventsInit, Accounts
<1>8. CarriedCash = SumFunction(h)
  BY DEF CarriedCash
<1> HIDE DEF f, g, h
<1>9. /\ SumFunction(f) = SumFunctionOnSet(f, opening)
      /\ SumFunction(g) = SumFunctionOnSet(g, opening)
      /\ SumFunction(h) = SumFunctionOnSet(h, opening)
  BY <1>6, SumAll
<1>10. SumFunctionOnSet(h, opening) = SumFunctionOnSet(f, opening) + SumFunctionOnSet(g, opening)
  BY <1>2, <1>6, SumPlus
<1>11. SumFunction(h) \in Int
  BY <1>2, <1>6, SumFunctionInt
<1>12. SumFunctionOnSet(Statement, Standing) = 0
  BY <1>3, SumEmpty
<1>13. BooksMatchBank
  BY <1>7, <1>8, <1>9, <1>10, <1>11, <1>12, BooksByStanding
<1>14. QED
  BY <1>1, <1>4, <1>13 DEF BooksInv

\* Only a cash event claims, one transaction nobody had, and its journal moves the bank
\* by what that transaction shows.
LEMMA RecordBooks ==
  ASSUME BooksInv, NEW e \in EventIds, NEW c \in Commands, Record(e, c)
  PROVE  BooksInv'
<1>1. Typed /\ ClaimsAgree /\ BooksMatchBank
  BY DEF BooksInv
<1>2. /\ Recorded' = Recorded \cup {e} /\ e \notin Recorded
      /\ events'[e] = c /\ \A f \in Recorded : events'[f] = events[f]
      /\ opening' = opening /\ reversed' = reversed
      /\ \A a \in Accounts : books'[a] = books[a] + Lines(c)[a]
      /\ Typed'
  BY <1>1, RecordKeeps
<1>3. /\ c.phase \in Phases /\ IsPriced(c) /\ e # NoEvent
      /\ c.phase \in CashPhases => c.bank \in Transactions
  BY CommandFacts, NoneIsNobody
<1>4. /\ "1920" \in Accounts /\ "1921" \in Accounts
      /\ Lines(c)["1920"] + Lines(c)["1921"] = IF c.phase \in CashPhases THEN BankAmount(c) ELSE 0
      /\ Lines(c)["1920"] \in Int /\ Lines(c)["1921"] \in Int
      /\ books["1920"] \in Int /\ books["1921"] \in Int
  <2>1. "1920" \in Accounts /\ "1921" \in Accounts
    BY DEF Accounts
  <2>2. Lines(c) \in [Accounts -> Int]
    BY <1>3, LinesFacts
  <2>3. Lines(c)["1920"] + Lines(c)["1921"] = IF c.phase \in CashPhases THEN BankAmount(c) ELSE 0
    BY <1>3, LinesFacts
  <2>4. QED
    BY <1>1, <2>1, <2>2, <2>3 DEF Typed
<1>5. CarriedCash' = CarriedCash /\ CarriedCash \in Int
  BY <1>1, <1>2, CarriedCashInt DEF CarriedCash
<1>6. IsFiniteSet(Standing) /\ SumFunctionOnSet(Statement, Standing) \in Int
  BY <1>1, StandingFacts, SumInt
<1>7. books["1920"] + books["1921"] = CarriedCash + SumFunctionOnSet(Statement, Standing)
  BY <1>1, BooksByStanding
<1>8. CASE c.phase \in CashPhases
  <2> DEFINE t == c.bank
  <2>1. /\ t \in Transactions /\ claimed[t] = NoEvent /\ Statement[t] = BankAmount(c)
        /\ claimed' = [claimed EXCEPT ![t] = e]
    BY <1>3, <1>8 DEF Record, Claims
  <2>2. claimed'[t] = e /\ \A u \in Transactions \ {t} : claimed'[u] = claimed[u]
    BY <1>1, <2>1 DEF Typed
  <2> HIDE DEF t
  <2>3. Claimed' = Claimed \cup {t} /\ t \notin Claimed
    BY <1>3, <2>1, <2>2 DEF Claimed
  <2>4. \A u \in Claimed : claimed'[u] = claimed[u] /\ claimed[u] \in Recorded
    BY <1>1, <2>2, <2>3 DEF Claimed, ClaimsAgree
  <2>5. Standing' = Standing \cup {t} /\ t \notin Standing
    <3>1. e \notin reversed
      BY <1>1, <1>2 DEF Typed
    <3>2. Standing = {u \in Claimed : claimed[u] \notin reversed}
      BY DEF Standing, Claimed
    <3>3. Standing' = {u \in Claimed' : claimed'[u] \notin reversed'}
      BY DEF Standing, Claimed
    <3>4. QED
      BY <1>2, <2>2, <2>3, <2>4, <3>1, <3>2, <3>3
  <2>6. ClaimsAgree'
    <3>1. IsFiniteSet(Claimed')
      BY <1>1, <2>3, FS_AddElement DEF ClaimsAgree
    <3>2. ASSUME NEW u \in Claimed'
          PROVE  /\ claimed'[u] \in Recorded'
                 /\ events'[claimed'[u]].phase \in CashPhases /\ events'[claimed'[u]].bank = u
                 /\ Statement[u] = BankAmount(events'[claimed'[u]])
      <4>1. CASE u = t
        BY <1>2, <1>8, <2>1, <2>2, <4>1 DEF t
      <4>2. CASE u # t
        BY <1>1, <1>2, <2>3, <2>4, <4>2 DEF ClaimsAgree
      <4>3. QED
        BY <4>1, <4>2
    <3>3. ASSUME NEW f \in Recorded', events'[f].phase \in CashPhases
          PROVE  claimed'[events'[f].bank] = f
      <4>1. CASE f = e
        BY <1>2, <2>2, <4>1 DEF t
      <4>2. CASE f # e
        <5>1. f \in Recorded /\ events'[f] = events[f]
          BY <1>2, <4>2
        <5> DEFINE u == events[f].bank
        <5>2. claimed[u] = f
          BY <1>1, <3>3, <5>1 DEF ClaimsAgree
        <5>3. u \in Transactions /\ f # NoEvent
          BY <1>1, <3>3, <5>1, RecordedFacts, CommandFacts
        <5>4. u \in Claimed
          BY <5>2, <5>3 DEF Claimed
        <5>5. QED
          BY <2>4, <5>1, <5>2, <5>4
      <4>3. QED
        BY <4>1, <4>2
    <3>4. QED
      BY <3>1, <3>2, <3>3 DEF ClaimsAgree
  <2>7. SumFunctionOnSet(Statement, Standing')
          = SumFunctionOnSet(Statement, Standing) + Statement[t]
    <3>1. \A u \in Standing \cup {t} : Statement[u] \in Int
      BY <2>1, StatementIsSigned DEF Standing, Claimed
    <3> DEFINE now == Standing
    <3>2. IsFiniteSet(now) /\ t \notin now /\ Standing' = now \cup {t}
      BY <1>6, <2>5
    <3> HIDE DEF now
    <3>3. QED
      BY <3>1, <3>2, SumAdd DEF now
  <2>8. Statement[t] \in Int
    BY <2>1, StatementIsSigned
  <2>9. books'["1920"] + books'["1921"] = CarriedCash + SumFunctionOnSet(Statement, Standing')
    <3>1. /\ books'["1920"] = books["1920"] + Lines(c)["1920"]
          /\ books'["1921"] = books["1921"] + Lines(c)["1921"]
      BY <1>2, <1>4
    <3>2. Lines(c)["1920"] + Lines(c)["1921"] = Statement[t]
      BY <1>4, <1>8, <2>1
    <3>3. QED
      BY <1>4, <1>5, <1>6, <1>7, <2>7, <2>8, <3>1, <3>2
  <2>10. BooksMatchBank'
    BY <1>5, <2>9, Zenon DEF BooksMatchBank, CarriedCash, Standing
  <2>11. QED
    BY <1>2, <2>6, <2>10 DEF BooksInv
<1>9. CASE c.phase \notin CashPhases
  <2>1. claimed' = claimed
    BY <1>9 DEF Record, Claims
  <2>2. Claimed' = Claimed /\ Standing' = Standing
    BY <1>2, <2>1 DEF Claimed, Standing
  <2>3. ClaimsAgree'
    BY <1>1, <1>2, <1>9, <2>1, <2>2 DEF ClaimsAgree
  <2>4. books'["1920"] + books'["1921"] = CarriedCash + SumFunctionOnSet(Statement, Standing')
    <3>1. /\ books'["1920"] = books["1920"] + Lines(c)["1920"]
          /\ books'["1921"] = books["1921"] + Lines(c)["1921"]
      BY <1>2, <1>4
    <3>2. Lines(c)["1920"] + Lines(c)["1921"] = 0
      BY <1>4, <1>9
    <3>3. QED
      BY <1>4, <1>5, <1>6, <1>7, <2>2, <3>1, <3>2
  <2>5. BooksMatchBank'
    BY <1>5, <2>4, Zenon DEF BooksMatchBank, CarriedCash, Standing
  <2>6. QED
    BY <1>2, <2>3, <2>5 DEF BooksInv
<1>10. QED
  BY <1>8, <1>9

\* A reversal takes the transaction of its event, and no other, out of what stands.
LEMMA ReverseBooks ==
  ASSUME BooksInv, NEW e \in EventIds, Reverse(e)
  PROVE  BooksInv'
<1>1. Typed /\ ClaimsAgree /\ BooksMatchBank
  BY DEF BooksInv
<1> DEFINE c == events[e]
<1>2. /\ e \in Recorded /\ e \notin reversed /\ Recorded' = Recorded
      /\ events' = events /\ opening' = opening /\ claimed' = claimed
      /\ reversed' = reversed \cup {e}
      /\ \A a \in Accounts : books'[a] = books[a] - Lines(c)[a]
      /\ Typed'
  BY <1>1, ReverseKeeps
<1>3. /\ c \in Commands /\ c.phase \in Phases /\ IsPriced(c) /\ e # NoEvent
      /\ c.phase \in CashPhases => c.bank \in Transactions
  BY <1>1, <1>2, RecordedFacts, CommandFacts
<1>4. Claimed' = Claimed /\ ClaimsAgree'
  BY <1>1, <1>2 DEF Claimed, ClaimsAgree
<1>5. /\ c.phase \in CashPhases => c.bank \in Transactions /\ claimed[c.bank] = e
                                     /\ Statement[c.bank] = BankAmount(c)
      /\ \A t \in Claimed : claimed[t] = e => c.phase \in CashPhases /\ t = c.bank
  <2>1. ASSUME c.phase \in CashPhases
        PROVE  c.bank \in Claimed /\ claimed[c.bank] = e
    BY <1>1, <1>2, <1>3, <2>1 DEF ClaimsAgree, Claimed
  <2>2. QED
    BY <1>1, <1>3, <2>1 DEF ClaimsAgree
<1> HIDE DEF c
<1>6. /\ "1920" \in Accounts /\ "1921" \in Accounts
      /\ Lines(c)["1920"] + Lines(c)["1921"] = IF c.phase \in CashPhases THEN BankAmount(c) ELSE 0
      /\ Lines(c)["1920"] \in Int /\ Lines(c)["1921"] \in Int
      /\ books["1920"] \in Int /\ books["1921"] \in Int
  <2>1. "1920" \in Accounts /\ "1921" \in Accounts
    BY DEF Accounts
  <2>2. Lines(c) \in [Accounts -> Int]
    BY <1>3, LinesFacts
  <2>3. Lines(c)["1920"] + Lines(c)["1921"] = IF c.phase \in CashPhases THEN BankAmount(c) ELSE 0
    BY <1>3, LinesFacts
  <2>4. QED
    BY <1>1, <2>1, <2>2, <2>3 DEF Typed
<1>7. CarriedCash' = CarriedCash /\ CarriedCash \in Int
  BY <1>1, <1>2, CarriedCashInt DEF CarriedCash
<1>8. /\ IsFiniteSet(Standing) /\ \A t \in Standing : Statement[t] \in Int
      /\ SumFunctionOnSet(Statement, Standing) \in Int
  BY <1>1, StandingFacts, SumInt
<1>9. books["1920"] + books["1921"] = CarriedCash + SumFunctionOnSet(Statement, Standing)
  BY <1>1, BooksByStanding
<1>10. CASE c.phase \in CashPhases
  <2> DEFINE t == c.bank
             now == Standing
  <2>1. t \in now /\ Standing' = now \ {t} /\ Statement[t] = BankAmount(c)
    BY <1>2, <1>3, <1>4, <1>5, <1>10 DEF Standing, Claimed
  <2>2. IsFiniteSet(now) /\ \A u \in now : Statement[u] \in Int
    BY <1>8
  <2>3. SumFunctionOnSet(Statement, now) \in Int
    BY <1>8
  <2> HIDE DEF now, t
  <2>4. SumFunctionOnSet(Statement, now) = Statement[t] + SumFunctionOnSet(Statement, now \ {t})
    BY <2>1, <2>2, SumRemove
  <2>5. SumFunctionOnSet(Statement, now \ {t}) \in Int
    BY <2>2, FS_Subset, SumInt
  <2>6. books'["1920"] + books'["1921"] = CarriedCash + SumFunctionOnSet(Statement, Standing')
    <3>1. /\ books'["1920"] = books["1920"] - Lines(c)["1920"]
          /\ books'["1921"] = books["1921"] - Lines(c)["1921"]
      BY <1>2, <1>6
    <3>2. Lines(c)["1920"] + Lines(c)["1921"] = Statement[t] /\ Statement[t] \in Int
      BY <1>6, <1>10, <2>1, <2>2
    <3>3. books["1920"] + books["1921"] = CarriedCash + SumFunctionOnSet(Statement, now)
      BY <1>9 DEF now
    <3>4. QED
      BY <1>6, <1>7, <2>1, <2>3, <2>4, <2>5, <3>1, <3>2, <3>3
  <2>7. BooksMatchBank'
    BY <1>7, <2>6, Zenon DEF BooksMatchBank, CarriedCash, Standing
  <2>8. QED
    BY <1>2, <1>4, <2>7 DEF BooksInv
<1>11. CASE c.phase \notin CashPhases
  <2>1. Standing' = Standing
    <3>1. Standing = {u \in Claimed : claimed[u] \notin reversed}
      BY DEF Standing, Claimed
    <3>2. Standing' = {u \in Claimed' : claimed'[u] \notin reversed'}
      BY DEF Standing, Claimed
    <3>3. QED
      BY <1>2, <1>4, <1>5, <1>11, <3>1, <3>2
  <2>2. books'["1920"] + books'["1921"] = CarriedCash + SumFunctionOnSet(Statement, Standing')
    <3>1. /\ books'["1920"] = books["1920"] - Lines(c)["1920"]
          /\ books'["1921"] = books["1921"] - Lines(c)["1921"]
      BY <1>2, <1>6
    <3>2. Lines(c)["1920"] + Lines(c)["1921"] = 0
      BY <1>6, <1>11
    <3>3. QED
      BY <1>6, <1>7, <1>8, <1>9, <2>1, <3>1, <3>2
  <2>3. BooksMatchBank'
    BY <1>7, <2>2, Zenon DEF BooksMatchBank, CarriedCash, Standing
  <2>4. QED
    BY <1>2, <1>4, <2>3 DEF BooksInv
<1>12. QED
  BY <1>10, <1>11

(* The bank accounts hold what the opening carried and the claimed          *)
(* transactions no reversal took back (record_supported_event: the claim is *)
(* of a transaction nobody has, and shows what the journal books).         *)
THEOREM BooksFollowBank == EventsSpec => []BooksMatchBank
<1>1. EventsInit => BooksInv
  BY InitBooks
<1>2. BooksInv /\ [EventsNext]_vars => BooksInv'
  <2> SUFFICES ASSUME BooksInv, [EventsNext]_vars PROVE BooksInv'
    OBVIOUS
  <2>1. CASE RecordAny
    BY <2>1, RecordBooks DEF RecordAny
  <2>2. CASE ReverseAny
    BY <2>2, ReverseBooks DEF ReverseAny
  <2>3. CASE UNCHANGED vars
    <3>1. Claimed' = Claimed
      BY <2>3, StutterKeeps DEF Claimed
    <3>2. QED
      BY <2>3, <3>1, StutterKeeps DEF BooksInv, ClaimsAgree, BooksMatchBank
  <2>4. QED
    BY <2>1, <2>2, <2>3 DEF EventsNext
<1>3. BooksInv => BooksMatchBank
  BY DEF BooksInv
<1>4. QED
  BY <1>1, <1>2, <1>3, PTL DEF EventsSpec

-----------------------------------------------------------------------------
(* What a recorded event adds to the rows of the chains.                    *)

LEMMA RowsAre ==
  ASSUME NEW r, NEW P, NEW d
  PROVE  d \in Rows(r, P)
           <=> \E f \in Recorded : events[f] = d /\ d.ref = r /\ d.phase \in P
BY DEF Rows, Of

LEMMA RowsGrow ==
  ASSUME Typed, NEW e \in EventIds, NEW c \in Commands, Record(e, c), NEW r, NEW P
  PROVE  Rows(r, P)' = IF r = c.ref /\ c.phase \in P THEN Rows(r, P) \cup {c} ELSE Rows(r, P)
<1>1. /\ Recorded' = Recorded \cup {e} /\ e \notin Recorded
      /\ events'[e] = c /\ \A f \in Recorded : events'[f] = events[f]
  BY RecordKeeps
<1>2. ASSUME NEW d
      PROVE  d \in Rows(r, P)'
               <=> \E f \in Recorded' : events'[f] = d /\ d.ref = r /\ d.phase \in P
  BY DEF Rows, Of
<1>3. ASSUME NEW d
      PROVE  d \in Rows(r, P)' <=> d \in Rows(r, P) \/ (d = c /\ c.ref = r /\ c.phase \in P)
  <2>1. d \in Rows(r, P) <=> \E f \in Recorded : events[f] = d /\ d.ref = r /\ d.phase \in P
    BY RowsAre
  <2>2. d \in Rows(r, P)' => d \in Rows(r, P) \/ (d = c /\ c.ref = r /\ c.phase \in P)
    BY <1>1, <1>2, <2>1
  <2>3. d \in Rows(r, P) => d \in Rows(r, P)'
    BY <1>1, <1>2, <2>1
  <2>4. d = c /\ c.ref = r /\ c.phase \in P => d \in Rows(r, P)'
    BY <1>1, <1>2
  <2>5. QED
    BY <2>2, <2>3, <2>4
<1>4. CASE r = c.ref /\ c.phase \in P
  BY <1>3, <1>4
<1>5. CASE ~ (r = c.ref /\ c.phase \in P)
  BY <1>3, <1>5
<1>6. QED
  BY <1>4, <1>5

LEMMA RowsStay ==
  ASSUME Recorded' = Recorded, events' = events, NEW r, NEW P
  PROVE  Rows(r, P)' = Rows(r, P)
BY DEF Rows, Of

LEMMA RowsPriced ==
  ASSUME Typed, NEW r, NEW P
  PROVE  \A d \in Rows(r, P) : IsPriced(d)
<1>1. ASSUME NEW d \in Rows(r, P) PROVE IsPriced(d)
  <2>1. PICK f \in Recorded : events[f] = d
    BY RowsAre
  <2>2. QED
    BY <2>1, RecordedFacts, CommandFacts
<1>2. QED
  BY <1>1

LEMMA CarriedPriced ==
  ASSUME Typed, NEW r, NEW P
  PROVE  \A o \in Carried(r, P) : IsPriced(o) /\ o \in OpeningComponent
<1>1. opening \subseteq OpeningComponent
  BY OpeningsAreUnique DEF Typed
<1>2. QED
  BY <1>1 DEF Carried, OpeningComponent, IsPriced

LEMMA CarriedStays ==
  ASSUME opening' = opening, NEW r, NEW P
  PROVE  Carried(r, P)' = Carried(r, P)
BY DEF Carried

\* What the ledger asks of a chain.
LEMMA ChainFacts ==
  ASSUME NEW c, ChainAllows(c)
  PROVE  /\ c.phase = "SUBSCRIPTION" =>
              Rows(c.ref, IncreasePhases) = {} /\ SubscriptionBasis(c.ref) = {}
         /\ c.phase = "RESTRICTED_PAYMENT" =>
              /\ \E s \in SubscriptionBasis(c.ref) : SameContribution(s, c)
              /\ PaymentBasis(c.ref) = {}
         /\ c.phase = "INCREASE_REGISTERED" =>
              /\ \E s \in SubscriptionBasis(c.ref) : SameContribution(s, c)
              /\ \E p \in PaymentBasis(c.ref) : SameContribution(p, c)
              /\ Rows(c.ref, {"INCREASE_REGISTERED"}) = {}
         /\ c.phase = "DISBURSEMENT" => LoanBasis(c.ref) = {}
         /\ c.phase = "PAYMENT" =>
              \E b \in LoanBasis(c.ref) : PrincipalPaid(c.ref) + c.amount <= b.amount
<1>1. CASE Subscribes(c)
  BY <1>1 DEF Subscribes
<1>2. CASE PaysIn(c)
  BY <1>2 DEF PaysIn
<1>3. CASE RegistersIncrease(c)
  BY <1>3 DEF RegistersIncrease
<1>4. CASE Decides(c) \/ RegistersReduction(c) \/ RecognizesReduction(c)
  <2>1. c.phase \in ReductionPhases
    BY <1>4 DEF Decides, RegistersReduction, RecognizesReduction, ReductionPhases
  <2>2. QED
    BY <2>1 DEF ReductionPhases
<1>5. CASE Disburses(c)
  BY <1>5 DEF Disburses
<1>6. CASE PaysLoan(c)
  BY <1>6 DEF PaysLoan
<1>7. CASE Unchained(c)
  BY <1>7 DEF Unchained, FundingPhases, GroupPhases
<1>8. QED
  BY <1>1, <1>2, <1>3, <1>4, <1>5, <1>6, <1>7 DEF ChainAllows

(* An account opens with what each reference carries into it.              *)
With(r) == {o \in opening : o.ref = r}

LEMMA OpeningBook ==
  ASSUME EventsInit, NEW a \in Accounts, NEW v \in [References -> Int],
         \A r \in References :
           \/ v[r] = 0 /\ \A o \in With(r) : OpeningLines(o)[a] = 0
           \/ \E x \in With(r) : /\ v[r] = OpeningLines(x)[a]
                               /\ \A o \in With(r) : o # x => OpeningLines(o)[a] = 0
  PROVE  books[a] = SumFunction(v)
<1> DEFINE f == [o \in opening |-> OpeningLines(o)[a]]
           key == [o \in opening |-> o.ref]
           Group(r) == {o \in opening : key[o] = r}
           g == [r \in References |-> SumFunctionOnSet(f, {o \in opening : key[o] = r})]
<1>1. opening \subseteq OpeningComponent /\ IsFiniteSet(opening)
  BY OpeningsAreUnique DEF EventsInit
<1>2. ASSUME NEW o \in opening PROVE OpeningLines(o)[a] \in Int
  BY <1>1, OpeningFacts
<1>3. f \in [opening -> Int] /\ \A o \in opening : f[o] = OpeningLines(o)[a] /\ f[o] \in Int
  BY <1>2
<1>4. key \in [opening -> References] /\ \A o \in opening : key[o] = o.ref
  BY <1>1 DEF OpeningComponent
<1>5. books[a] = SumFunction(f)
  BY DEF EventsInit
<1>6. \A r \in References : Group(r) = With(r)
  BY <1>4 DEF With
<1>7. ASSUME NEW r \in References
      PROVE  SumFunctionOnSet(f, Group(r)) = v[r]
  <2> DEFINE there == Group(r)
  <2>1. there = With(r) /\ there \subseteq opening
    BY <1>6
  <2>2. IsFiniteSet(there) /\ \A o \in there : f[o] = OpeningLines(o)[a] /\ f[o] \in Int
    BY <1>1, <1>3, <2>1, FS_Subset
  <2>3. \/ v[r] = 0 /\ \A o \in there : OpeningLines(o)[a] = 0
        \/ \E x \in there : /\ v[r] = OpeningLines(x)[a]
                            /\ \A o \in there : o # x => OpeningLines(o)[a] = 0
    <3> HIDE DEF there
    <3> QED
      BY <2>1
  <2> HIDE DEF there, f
  <2>4. CASE v[r] = 0 /\ \A o \in there : OpeningLines(o)[a] = 0
    <3>1. \A o \in there : f[o] = 0
      BY <2>2, <2>4
    <3>2. SumFunctionOnSet(f, there) = 0
      BY <2>2, <3>1, SumZero
    <3>3. QED
      BY <2>4, <3>2 DEF there
  <2>5. CASE \E x \in there : /\ v[r] = OpeningLines(x)[a]
                              /\ \A o \in there : o # x => OpeningLines(o)[a] = 0
    <3>1. PICK x \in there : /\ v[r] = OpeningLines(x)[a]
                             /\ \A o \in there : o # x => OpeningLines(o)[a] = 0
      BY <2>5
    <3>2. f[x] = v[r] /\ f[x] \in Int /\ \A o \in there : o # x => f[o] = 0
      BY <2>2, <3>1
    <3>3. SumFunctionOnSet(f, there) = f[x]
      BY <2>2, <3>2, SumSingle
    <3>4. QED
      BY <3>2, <3>3 DEF there
  <2>6. QED
    BY <2>3, <2>4, <2>5
<1> HIDE DEF f, key
<1>8. SumFunctionOnSet(f, opening) = SumFunction(g)
  BY <1>1, <1>3, <1>4, ReferencesAreListed, SumGroups
<1>9. SumFunction(f) = SumFunctionOnSet(f, opening)
  BY <1>3, SumAll
<1>10. g = v
  BY <1>7
<1>11. QED
  BY <1>5, <1>8, <1>9, <1>10

-----------------------------------------------------------------------------
(* The bank loans.                                                         *)

LoansInv == Typed /\ OneLoan /\ LoanOwed

AmountOf(S) == SumFunction([b \in S |-> b.amount])
PaidBy(E, ev) == SumFunction([f \in E |-> ev[f].amount])

LEMMA AmountOfOne ==
  ASSUME NEW S
  PROVE  /\ S = {} => AmountOf(S) = 0
         /\ \A b \in S : AtMostOne(S) /\ b.amount \in Int => AmountOf(S) = b.amount
<1> DEFINE f == [b \in S |-> b.amount]
<1>1. ASSUME S = {} PROVE SumFunction(f) = 0
  <2>1. f \in [{} -> Int]
    BY <1>1
  <2> HIDE DEF f
  <2>2. QED
    BY <2>1, SumSmall
<1>2. ASSUME NEW b \in S, AtMostOne(S), b.amount \in Int PROVE SumFunction(f) = b.amount
  <2>1. S = {b}
    BY <1>2 DEF AtMostOne
  <2>2. f \in [{b} -> Int] /\ f[b] = b.amount
    BY <1>2, <2>1
  <2> HIDE DEF f
  <2>3. SumFunction(f) = f[b]
    BY <2>2, SumSmall
  <2>4. QED
    BY <2>2, <2>3
<1>3. QED
  BY <1>1, <1>2 DEF AmountOf

LEMMA PaidByInt ==
  ASSUME NEW E, IsFiniteSet(E), NEW ev, \A f \in E : ev[f].amount \in Int
  PROVE  PaidBy(E, ev) \in Int
<1> DEFINE g == [f \in E |-> ev[f].amount]
<1>1. g \in [E -> Int]
  OBVIOUS
<1> HIDE DEF g
<1>2. SumFunction(g) \in Int
  BY <1>1, SumFunctionInt
<1>3. QED
  BY <1>2 DEF g, PaidBy

LEMMA PaidByMore ==
  ASSUME NEW E, IsFiniteSet(E), NEW ev, \A f \in E : ev[f].amount \in Int,
         NEW now, \A f \in E : now[f] = ev[f],
         NEW e, e \notin E, now[e].amount \in Int
  PROVE  PaidBy(E \cup {e}, now) = PaidBy(E, ev) + now[e].amount
<1> DEFINE old == [f \in E |-> ev[f].amount]
           more == E \cup {e}
           new == [f \in more |-> now[f].amount]
<1>1. /\ old \in [E -> Int] /\ new \in [more -> Int] /\ more = E \cup {e}
      /\ \A f \in E : old[f] = new[f]
      /\ new[e] = now[e].amount
  OBVIOUS
<1> HIDE DEF old, new, more
<1>2. SumFunction(new) = SumFunction(old) + new[e]
  BY <1>1, SumGrows
<1>3. QED
  BY <1>1, <1>2 DEF old, new, more, PaidBy

LEMMA PaidBySame ==
  ASSUME NEW E, NEW ev, NEW now, \A f \in E : now[f] = ev[f]
  PROVE  PaidBy(E, now) = PaidBy(E, ev)
<1>1. [f \in E |-> ev[f].amount] = [f \in E |-> now[f].amount]
  OBVIOUS
<1>2. QED
  BY <1>1 DEF PaidBy

LEMMA OwedIs ==
  ASSUME NEW r
  PROVE  /\ PrincipalPaid(r) = PaidBy(Of(r, "PAYMENT"), events)
         /\ Principal(r) = AmountOf(LoanBasis(r))
         /\ Owed(r) = Principal(r) - PrincipalPaid(r)
BY Zenon DEF PrincipalPaid, PaidBy, Principal, AmountOf, Owed

LEMMA OwedIsNext ==
  ASSUME NEW r
  PROVE  /\ PrincipalPaid(r)' = PaidBy(Of(r, "PAYMENT")', events')
         /\ Principal(r)' = AmountOf(LoanBasis(r)')
         /\ Owed(r)' = Principal(r)' - PrincipalPaid(r)'
BY Zenon DEF PrincipalPaid, PaidBy, Principal, AmountOf, Owed

LEMMA OfFacts ==
  ASSUME Typed, NEW r, NEW p
  PROVE  /\ Of(r, p) \subseteq Recorded /\ IsFiniteSet(Of(r, p))
         /\ \A f \in Of(r, p) : events[f].amount \in Int
<1>1. Of(r, p) \subseteq Recorded
  BY DEF Of
<1>2. \A f \in Of(r, p) : IsPriced(events[f])
  BY <1>1, RecordedFacts, CommandFacts
<1>3. QED
  BY <1>1, <1>2, FS_Subset DEF Typed, IsPriced

LEMMA LoanFacts ==
  ASSUME Typed, OneLoan, NEW r \in References
  PROVE  /\ \A b \in LoanBasis(r) : b.amount \in Int
         /\ LoanBasis(r) = {} => Principal(r) = 0
         /\ \A b \in LoanBasis(r) : Principal(r) = b.amount
         /\ Principal(r) \in Int /\ PrincipalPaid(r) \in Int /\ Owed(r) \in Int
<1>1. \A b \in LoanBasis(r) : b.amount \in Int
  BY RowsPriced, CarriedPriced DEF LoanBasis, IsPriced
<1>2. /\ LoanBasis(r) = {} => Principal(r) = 0
      /\ \A b \in LoanBasis(r) : Principal(r) = b.amount
  BY <1>1, AmountOfOne, OwedIs DEF OneLoan
<1>3. PrincipalPaid(r) \in Int
  BY OfFacts, PaidByInt, OwedIs
<1>4. Principal(r) \in Int
  BY <1>1, <1>2
<1>5. QED
  BY <1>1, <1>2, <1>3, <1>4, OwedIs

LEMMA InitLoans ==
  ASSUME EventsInit
  PROVE  LoansInv
<1>1. Typed
  BY InitTyped
<1>2. Recorded = {} /\ \A r, P : Rows(r, P) = {} /\ Of(r, "PAYMENT") = {}
  BY DEF EventsInit, Recorded, Rows, Of
<1>3. \A r \in References : LoanBasis(r) = Carried(r, {"DISBURSEMENT"})
  BY <1>2 DEF LoanBasis
<1>4. OneLoan
  <2> SUFFICES ASSUME NEW r \in References, NEW o \in LoanBasis(r), NEW p \in LoanBasis(r)
               PROVE  o = p
    BY DEF OneLoan, AtMostOne
  <2>1. o \in opening /\ p \in opening /\ o.ref = p.ref
        /\ o.phase = "DISBURSEMENT" /\ p.phase = "DISBURSEMENT"
    BY <1>3 DEF Carried
  <2>2. opening \in Openings
    BY DEF EventsInit
  <2>3. QED
    BY <2>1, <2>2, OpeningsAreUnique
<1>5. \A r \in References : PrincipalPaid(r) = 0
  <2> SUFFICES ASSUME NEW r \in References PROVE PrincipalPaid(r) = 0
    OBVIOUS
  <2> DEFINE g == [f \in {} |-> events[f].amount]
  <2>1. PrincipalPaid(r) = SumFunction(g)
    BY <1>2 DEF PrincipalPaid
  <2>2. g \in [{} -> Int]
    OBVIOUS
  <2> HIDE DEF g
  <2>3. QED
    BY <2>1, <2>2, SumSmall
<1> DEFINE owed == [r \in References |-> Owed(r)]
           v == [r \in References |-> 0 - Owed(r)]
<1>6. \A r \in References : Owed(r) = Principal(r) /\ Principal(r) \in Int /\ Principal(r) >= 0
  <2> SUFFICES ASSUME NEW r \in References
               PROVE  Owed(r) = Principal(r) /\ Principal(r) \in Int /\ Principal(r) >= 0
    OBVIOUS
  <2>1. Principal(r) \in Int /\ Owed(r) = Principal(r)
    BY <1>1, <1>4, <1>5, LoanFacts, OwedIs
  <2>2. \A b \in LoanBasis(r) : b.amount >= 0
    BY <1>1, <1>3, CarriedPriced DEF IsPriced
  <2>3. Principal(r) >= 0
    BY <1>1, <1>4, <2>2, LoanFacts
  <2>4. QED
    BY <2>1, <2>3
<1>7. /\ owed \in [References -> Int] /\ v \in [References -> Int]
      /\ \A r \in References : owed[r] = Principal(r) /\ v[r] = 0 - Principal(r)
  BY <1>6
<1> HIDE DEF owed, v
<1>8. books["2220"] + books["2380"] = SumFunction(v)
  <2> DEFINE Short(r) == \E o \in LoanBasis(r) : o.maturity = "SHORT_TERM"
             long == [r \in References |-> IF Short(r) THEN 0 ELSE v[r]]
             short == [r \in References |-> IF Short(r) THEN v[r] ELSE 0]
  <2>1. /\ long \in [References -> Int] /\ short \in [References -> Int]
        /\ \A r \in References :
             /\ Short(r) => long[r] = 0 /\ short[r] = v[r]
             /\ ~Short(r) => long[r] = v[r] /\ short[r] = 0
    BY <1>7
  <2> HIDE DEF long, short
  <2>2. ASSUME NEW r \in References
        PROVE  \/ /\ v[r] = 0 /\ long[r] = 0 /\ short[r] = 0
                  /\ \A o \in With(r) : OpeningLines(o)["2220"] = 0 /\ OpeningLines(o)["2380"] = 0
               \/ \E x \in With(r) :
                    /\ long[r] = OpeningLines(x)["2220"] /\ short[r] = OpeningLines(x)["2380"]
                    /\ \A o \in With(r) : o # x =>
                         OpeningLines(o)["2220"] = 0 /\ OpeningLines(o)["2380"] = 0
    <3>1. ASSUME NEW o \in With(r)
          PROVE  /\ o \in LoanBasis(r) =>
                      /\ o.maturity = "SHORT_TERM" =>
                           OpeningLines(o)["2220"] = 0 /\ OpeningLines(o)["2380"] = 0 - o.amount
                      /\ o.maturity # "SHORT_TERM" =>
                           OpeningLines(o)["2220"] = 0 - o.amount /\ OpeningLines(o)["2380"] = 0
                 /\ o \notin LoanBasis(r) =>
                      OpeningLines(o)["2220"] = 0 /\ OpeningLines(o)["2380"] = 0
      <4>1. o \in OpeningComponent /\ o \in opening /\ o.ref = r
        BY <1>1, OpeningsAreUnique DEF With, Typed
      <4>2. o.phase = "DISBURSEMENT" <=> o \in LoanBasis(r)
        BY <1>3, <4>1 DEF Carried
      <4>3. QED
        BY <4>1, <4>2, OpeningFacts
    <3>2. LoanBasis(r) \subseteq With(r)
      BY <1>3 DEF Carried, With
    <3>3. CASE LoanBasis(r) = {}
      <4>1. Principal(r) = 0
        BY <1>1, <1>4, <3>3, LoanFacts
      <4>2. v[r] = 0
        BY <1>7, <4>1
      <4>3. long[r] = 0 /\ short[r] = 0
        BY <2>1, <4>2
      <4>4. QED
        BY <3>1, <3>3, <4>2, <4>3
    <3>4. CASE LoanBasis(r) # {}
      <4>1. PICK x \in LoanBasis(r) : TRUE
        BY <3>4
      <4>2. Principal(r) = x.amount /\ \A o \in LoanBasis(r) : o = x
        BY <1>1, <1>4, LoanFacts DEF OneLoan, AtMostOne
      <4>3. x \in With(r) /\ v[r] = 0 - x.amount
        BY <1>7, <3>2, <4>2
      <4>4. Short(r) <=> x.maturity = "SHORT_TERM"
        BY <4>1, <4>2
      <4> HIDE DEF Short
      <4>5. long[r] = OpeningLines(x)["2220"] /\ short[r] = OpeningLines(x)["2380"]
        BY <2>1, <3>1, <4>1, <4>3, <4>4
      <4>6. \A o \in With(r) : o # x =>
              OpeningLines(o)["2220"] = 0 /\ OpeningLines(o)["2380"] = 0
        BY <3>1, <4>2
      <4>7. QED
        BY <4>3, <4>5, <4>6
    <3>5. QED
      BY <3>3, <3>4
  <2>3. "2220" \in Accounts /\ "2380" \in Accounts
    BY DEF Accounts
  <2>4. \A r \in References :
          \/ long[r] = 0 /\ \A o \in With(r) : OpeningLines(o)["2220"] = 0
          \/ \E x \in With(r) : /\ long[r] = OpeningLines(x)["2220"]
                                /\ \A o \in With(r) : o # x => OpeningLines(o)["2220"] = 0
    BY <2>2
  <2>5. \A r \in References :
          \/ short[r] = 0 /\ \A o \in With(r) : OpeningLines(o)["2380"] = 0
          \/ \E x \in With(r) : /\ short[r] = OpeningLines(x)["2380"]
                                /\ \A o \in With(r) : o # x => OpeningLines(o)["2380"] = 0
    BY <2>2
  <2>6. books["2220"] = SumFunction(long) /\ books["2380"] = SumFunction(short)
    <3>1. books["2220"] = SumFunction(long)
      BY <2>1, <2>3, <2>4, OpeningBook
    <3>2. books["2380"] = SumFunction(short)
      BY <2>1, <2>3, <2>5, OpeningBook
    <3>3. QED
      BY <3>1, <3>2
  <2>7. SumFunctionOnSet(v, References)
          = SumFunctionOnSet(long, References) + SumFunctionOnSet(short, References)
    <3>1. \A r \in References :
            long[r] \in Int /\ short[r] \in Int /\ v[r] = long[r] + short[r]
      BY <1>7, <2>1
    <3>2. QED
      BY <3>1, ReferencesAreListed, SumPlus
  <2>8. QED
    BY <1>7, <2>1, <2>6, <2>7, SumAll
<1>9. SumFunction(v) = 0 - SumFunction(owed)
  <2>1. \A r \in References : v[r] = 0 - owed[r]
    BY <1>7
  <2>2. QED
    BY <1>7, <2>1, ReferencesAreListed, SumMinus
<1>10. LoanOwed
  <2>1. \A r \in References : PrincipalPaid(r) <= Principal(r)
    BY <1>5, <1>6
  <2>2. books["2220"] + books["2380"] = 0 - SumFunction([r \in References |-> Owed(r)])
    BY <1>8, <1>9 DEF owed
  <2>3. QED
    BY <2>1, <2>2 DEF LoanOwed
<1>11. QED
  BY <1>1, <1>4, <1>10 DEF LoansInv

\* What recording an event does to the loan of a reference.
LEMMA RecordMovesLoan ==
  ASSUME LoansInv, NEW e \in EventIds, NEW c \in Commands, Record(e, c), NEW r \in References
  PROVE  /\ AtMostOne(LoanBasis(r)')
         /\ Principal(r)' = Principal(r)
              + (IF r = c.ref /\ c.phase = "DISBURSEMENT" THEN c.amount ELSE 0)
         /\ PrincipalPaid(r)' = PrincipalPaid(r)
              + (IF r = c.ref /\ c.phase = "PAYMENT" THEN c.amount ELSE 0)
<1>1. Typed /\ OneLoan
  BY DEF LoansInv
<1>2. /\ Recorded' = Recorded \cup {e} /\ e \notin Recorded
      /\ events'[e] = c /\ \A f \in Recorded : events'[f] = events[f]
      /\ opening' = opening
  BY <1>1, RecordKeeps
<1>3. c.amount \in Int
  BY CommandFacts DEF IsPriced
<1>4. LoanBasis(r)' = IF r = c.ref /\ c.phase = "DISBURSEMENT"
                      THEN LoanBasis(r) \cup {c} ELSE LoanBasis(r)
  <2>1. Carried(r, {"DISBURSEMENT"})' = Carried(r, {"DISBURSEMENT"})
    BY <1>2, CarriedStays
  <2>2. Rows(r, {"DISBURSEMENT"})' = IF r = c.ref /\ c.phase = "DISBURSEMENT"
                                     THEN Rows(r, {"DISBURSEMENT"}) \cup {c}
                                     ELSE Rows(r, {"DISBURSEMENT"})
    BY <1>1, RowsGrow
  <2>3. QED
    BY <2>1, <2>2 DEF LoanBasis
<1>5. c.phase = "DISBURSEMENT" => LoanBasis(c.ref) = {}
  BY ChainFacts DEF Record
<1>6. AtMostOne(LoanBasis(r)')
  BY <1>1, <1>4, <1>5 DEF OneLoan, AtMostOne
<1>7. Principal(r)' = Principal(r)
              + (IF r = c.ref /\ c.phase = "DISBURSEMENT" THEN c.amount ELSE 0)
  <2>1. CASE r = c.ref /\ c.phase = "DISBURSEMENT"
    <3>1. LoanBasis(r) = {} /\ LoanBasis(r)' = {c}
      BY <1>4, <1>5, <2>1
    <3>2. Principal(r) = 0
      BY <1>1, <3>1, LoanFacts
    <3>3. c \in LoanBasis(r)' /\ AtMostOne(LoanBasis(r)')
      BY <1>6, <3>1
    <3>4. AmountOf(LoanBasis(r)') = c.amount
      BY <1>3, <3>3, AmountOfOne
    <3>5. QED
      BY <1>3, <2>1, <3>2, <3>4, OwedIsNext
  <2>2. CASE ~ (r = c.ref /\ c.phase = "DISBURSEMENT")
    <3>1. Principal(r)' = Principal(r)
      BY <1>4, <2>2, OwedIs, OwedIsNext
    <3>2. QED
      BY <1>1, <2>2, <3>1, LoanFacts
  <2>3. QED
    BY <2>1, <2>2
<1>8. PrincipalPaid(r)' = PrincipalPaid(r)
              + (IF r = c.ref /\ c.phase = "PAYMENT" THEN c.amount ELSE 0)
  <2> DEFINE E == Of(r, "PAYMENT")
  <2>1. E \subseteq Recorded /\ IsFiniteSet(E) /\ \A f \in E : events[f].amount \in Int
    BY <1>1, OfFacts
  <2>2. e \notin E /\ \A f \in E : events'[f] = events[f]
    BY <1>2, <2>1
  <2>3. Of(r, "PAYMENT")' = IF r = c.ref /\ c.phase = "PAYMENT" THEN E \cup {e} ELSE E
    BY <1>2 DEF Of
  <2>4. PrincipalPaid(r) = PaidBy(E, events) /\ PrincipalPaid(r) \in Int
    BY <1>1, OwedIs, LoanFacts
  <2> HIDE DEF E
  <2>5. CASE r = c.ref /\ c.phase = "PAYMENT"
    <3>1. PrincipalPaid(r)' = PaidBy(E \cup {e}, events')
      BY <2>3, <2>5, OwedIsNext
    <3>2. PaidBy(E \cup {e}, events') = PaidBy(E, events) + events'[e].amount
      BY <1>2, <1>3, <2>1, <2>2, PaidByMore
    <3>3. QED
      BY <1>2, <2>4, <2>5, <3>1, <3>2
  <2>6. CASE ~ (r = c.ref /\ c.phase = "PAYMENT")
    <3>1. PrincipalPaid(r)' = PaidBy(E, events')
      BY <2>3, <2>6, OwedIsNext
    <3>2. PaidBy(E, events') = PaidBy(E, events)
      BY <2>2, PaidBySame
    <3>3. QED
      BY <2>4, <2>6, <3>1, <3>2
  <2>7. QED
    BY <2>5, <2>6
<1>9. QED
  BY <1>6, <1>7, <1>8

LEMMA RecordLoans ==
  ASSUME LoansInv, NEW e \in EventIds, NEW c \in Commands, Record(e, c)
  PROVE  LoansInv'
<1>1. Typed /\ OneLoan /\ LoanOwed
  BY DEF LoansInv
<1>2. /\ Recorded' = Recorded \cup {e} /\ e \notin Recorded
      /\ events'[e] = c /\ \A f \in Recorded : events'[f] = events[f]
      /\ reversed' = reversed /\ reversed \subseteq Recorded
      /\ \A a \in Accounts : books'[a] = books[a] + Lines(c)[a]
      /\ Typed'
  BY <1>1, RecordKeeps DEF Typed
<1>3. c.phase \in Phases /\ c.ref \in References /\ IsPriced(c) /\ c.amount \in Nat
  BY CommandFacts DEF IsPriced
<1>4. OneLoan'
  BY RecordMovesLoan DEF OneLoan
<1>5. Untouched(LoanPhases)' => Untouched(LoanPhases)
  BY <1>2 DEF Untouched
<1> DEFINE k == c.ref
           step == IF c.phase = "DISBURSEMENT" THEN c.amount
                   ELSE IF c.phase = "PAYMENT" THEN 0 - c.amount ELSE 0
<1>6. ASSUME NEW r \in References
      PROVE  /\ Owed(r) \in Int /\ Owed(r)' \in Int
             /\ Owed(r)' = IF r = k THEN Owed(r) + step ELSE Owed(r)
  <2>1. /\ Principal(r) \in Int /\ PrincipalPaid(r) \in Int
        /\ Owed(r) = Principal(r) - PrincipalPaid(r)
        /\ Owed(r)' = Principal(r)' - PrincipalPaid(r)'
    BY <1>1, LoanFacts, OwedIs, OwedIsNext
  <2>2. QED
    BY <1>3, <2>1, RecordMovesLoan
<1>7. ASSUME Untouched(LoanPhases)
      PROVE  \A r \in References : PrincipalPaid(r)' <= Principal(r)'
  <2> SUFFICES ASSUME NEW r \in References PROVE PrincipalPaid(r)' <= Principal(r)'
    OBVIOUS
  <2>1. Principal(r) \in Int /\ PrincipalPaid(r) \in Int /\ PrincipalPaid(r) <= Principal(r)
    BY <1>1, <1>7, LoanFacts DEF LoanOwed
  <2>2. CASE r = k /\ c.phase = "PAYMENT"
    <3>1. PICK b \in LoanBasis(r) : PrincipalPaid(r) + c.amount <= b.amount
      BY <2>2, ChainFacts DEF Record
    <3>2. Principal(r) = b.amount
      BY <1>1, LoanFacts
    <3>3. Principal(r)' = Principal(r) /\ PrincipalPaid(r)' = PrincipalPaid(r) + c.amount
      BY <2>1, <2>2, RecordMovesLoan
    <3>4. QED
      BY <3>1, <3>2, <3>3
  <2>3. CASE ~ (r = k /\ c.phase = "PAYMENT")
    <3>1. PrincipalPaid(r)' = PrincipalPaid(r)
      BY <2>1, <2>3, RecordMovesLoan
    <3>2. Principal(r)' \in Int /\ Principal(r)' >= Principal(r)
      BY <1>3, <2>1, RecordMovesLoan
    <3>3. QED
      BY <2>1, <3>1, <3>2
  <2>4. QED
    BY <2>2, <2>3
<1> DEFINE old == [r \in References |-> Owed(r)]
<1>8. PICK new : new = [r \in References |-> Owed(r)']
  OBVIOUS
<1>9. /\ old \in [References -> Int] /\ new \in [References -> Int] /\ k \in References
      /\ \A r \in References : r # k => old[r] = new[r]
      /\ new[k] - old[k] = step /\ step \in Int
  BY <1>3, <1>6, <1>8
<1> HIDE DEF old, k
<1>10. SumFunction(new) = SumFunction(old) + step
  <2>1. SumFunction(new) = SumFunction(old) + (new[k] - old[k])
    BY <1>9, ReferencesAreListed, SumMoves
  <2>2. QED
    BY <1>9, <2>1
<1>11. SumFunction(old) \in Int
  BY <1>9, ReferencesAreListed, SumFunctionInt
<1>12. /\ books'["2220"] + books'["2380"] = (books["2220"] + books["2380"]) - step
       /\ books["2220"] + books["2380"] \in Int
  <2>1. "2220" \in Accounts /\ "2380" \in Accounts
    BY DEF Accounts
  <2>2. Lines(c)["2220"] = 0 - step /\ Lines(c)["2380"] = 0
    BY <1>3, LinesFacts
  <2>3. books["2220"] \in Int /\ books["2380"] \in Int
    BY <1>1, <2>1 DEF Typed
  <2>4. QED
    BY <1>2, <1>9, <2>1, <2>2, <2>3
<1>13. ASSUME Untouched(LoanPhases)
       PROVE  books'["2220"] + books'["2380"] = 0 - SumFunction(new)
  <2>1. books["2220"] + books["2380"] = 0 - SumFunction(old)
    BY <1>1, <1>13 DEF LoanOwed, old
  <2>2. QED
    BY <1>9, <1>10, <1>11, <1>12, <2>1
<1>14. LoanOwed'
  BY <1>5, <1>7, <1>8, <1>13 DEF LoanOwed
<1>15. QED
  BY <1>2, <1>4, <1>14 DEF LoansInv

\* A reversal of a loan event ends what the property speaks of; any other leaves the
\* bank loans alone.
LEMMA ReverseLoans ==
  ASSUME LoansInv, NEW e \in EventIds, Reverse(e)
  PROVE  LoansInv'
<1>1. Typed /\ OneLoan /\ LoanOwed
  BY DEF LoansInv
<1>2. /\ e \in Recorded /\ Recorded' = Recorded
      /\ events' = events /\ opening' = opening
      /\ reversed' = reversed \cup {e}
      /\ \A a \in Accounts : books'[a] = books[a] - Lines(events[e])[a]
      /\ Typed'
  BY <1>1, ReverseKeeps
<1>3. events[e].phase \in Phases /\ IsPriced(events[e])
  BY <1>1, <1>2, RecordedFacts, CommandFacts
<1>4. \A r : LoanBasis(r)' = LoanBasis(r) /\ Of(r, "PAYMENT")' = Of(r, "PAYMENT")
  BY <1>2, RowsStay, CarriedStays DEF LoanBasis, Of
<1>5. OneLoan'
  BY <1>1, <1>4 DEF OneLoan
<1>6. \A r : /\ Principal(r)' = Principal(r) /\ PrincipalPaid(r)' = PrincipalPaid(r)
             /\ Owed(r)' = Owed(r)
  BY <1>2, <1>4, OwedIs, OwedIsNext
<1>7. ASSUME Untouched(LoanPhases)'
      PROVE  /\ Untouched(LoanPhases)
             /\ books'["2220"] = books["2220"] /\ books'["2380"] = books["2380"]
  <2>1. events[e].phase \notin LoanPhases
    BY <1>2, <1>7 DEF Untouched
  <2>2. Lines(events[e])["2220"] = 0 /\ Lines(events[e])["2380"] = 0
    BY <1>3, <2>1, LinesFacts DEF LoanPhases
  <2>3. /\ "2220" \in Accounts /\ books["2220"] \in Int
        /\ "2380" \in Accounts /\ books["2380"] \in Int
    BY <1>1 DEF Typed, Accounts
  <2>4. QED
    BY <1>2, <1>7, <2>2, <2>3 DEF Untouched
<1>8. LoanOwed'
  BY <1>1, <1>6, <1>7 DEF LoanOwed
<1>9. QED
  BY <1>2, <1>5, <1>8 DEF LoansInv

(* While no loan event is reversed the two loan accounts together show what *)
(* is owed, whatever the maturity of the loans an opening carries, and      *)
(* nothing is repaid beyond the principal (record_bank_loan_payment_v1).    *)
THEOREM LoansInBooks == EventsSpec => []LoanOwed
<1>1. EventsInit => LoansInv
  BY InitLoans
<1>2. LoansInv /\ [EventsNext]_vars => LoansInv'
  <2> SUFFICES ASSUME LoansInv, [EventsNext]_vars PROVE LoansInv'
    OBVIOUS
  <2>1. CASE RecordAny
    BY <2>1, RecordLoans DEF RecordAny
  <2>2. CASE ReverseAny
    BY <2>2, ReverseLoans DEF ReverseAny
  <2>3. CASE UNCHANGED vars
    <3>1. /\ Recorded' = Recorded /\ events' = events /\ opening' = opening
          /\ reversed' = reversed /\ books' = books /\ Typed'
      BY <2>3, StutterKeeps DEF LoansInv
    <3>2. \A r : LoanBasis(r)' = LoanBasis(r) /\ Of(r, "PAYMENT")' = Of(r, "PAYMENT")
      BY <3>1, RowsStay, CarriedStays DEF LoanBasis, Of
    <3>3. \A r : /\ Principal(r)' = Principal(r) /\ PrincipalPaid(r)' = PrincipalPaid(r)
                 /\ Owed(r)' = Owed(r)
      BY <3>1, <3>2, OwedIs, OwedIsNext
    <3>4. LoanOwed' /\ OneLoan'
      BY <3>1, <3>2, <3>3 DEF LoansInv, LoanOwed, OneLoan, Untouched
    <3>5. QED
      BY <3>1, <3>4 DEF LoansInv
  <2>4. QED
    BY <2>1, <2>2, <2>3 DEF EventsNext
<1>3. LoansInv => LoanOwed
  BY DEF LoansInv
<1>4. QED
  BY <1>1, <1>2, <1>3, PTL DEF EventsSpec

-----------------------------------------------------------------------------
(* The capital increases.                                                  *)

IncreasesInv == Typed /\ OneIncrease /\ IncreaseInBooks

LEMMA WorthOfOne ==
  ASSUME NEW S
  PROVE  /\ S = {} => Worth(S) = 0 /\ Premium(S) = 0
         /\ \A b \in S : AtMostOne(S) /\ IsPriced(b) => Worth(S) = Total(b) /\ Premium(S) = b.extra
<1> DEFINE f == [d \in S |-> Total(d)]
           g == [d \in S |-> d.extra]
<1>1. Worth(S) = SumFunction(f) /\ Premium(S) = SumFunction(g)
  BY DEF Worth, Premium
<1>2. ASSUME S = {} PROVE SumFunction(f) = 0 /\ SumFunction(g) = 0
  <2>1. f \in [{} -> Int] /\ g \in [{} -> Int]
    BY <1>2
  <2> HIDE DEF f, g
  <2>2. QED
    BY <2>1, SumSmall
<1>3. ASSUME NEW b \in S, AtMostOne(S), IsPriced(b)
      PROVE  SumFunction(f) = Total(b) /\ SumFunction(g) = b.extra
  <2>1. S = {b} /\ Total(b) \in Int /\ b.extra \in Int
    BY <1>3 DEF AtMostOne, IsPriced, Total
  <2>2. f \in [{b} -> Int] /\ f[b] = Total(b) /\ g \in [{b} -> Int] /\ g[b] = b.extra
    BY <2>1
  <2> HIDE DEF f, g
  <2>3. SumFunction(f) = f[b] /\ SumFunction(g) = g[b]
    BY <2>2, SumSmall
  <2>4. QED
    BY <2>2, <2>3
<1>4. QED
  BY <1>1, <1>2, <1>3

\* What the books should show of an increase, in two states.
LEMMA ShownIs ==
  ASSUME NEW r
  PROVE  /\ Receivable(r) = Worth(SubscriptionBasis(r)) - Worth(PaymentBasis(r))
         /\ Deposit(r) = IF Registered(r) THEN 0 ELSE Worth(PaymentBasis(r))
         /\ Unregistered(r) = IF Registered(r) THEN 0 ELSE Worth(SubscriptionBasis(r))
         /\ SharePremium(r) = IF Registered(r) THEN Premium(SubscriptionBasis(r)) ELSE 0
         /\ Registered(r) <=> Rows(r, {"INCREASE_REGISTERED"}) # {}
BY DEF Receivable, Deposit, Unregistered, SharePremium, Registered

LEMMA ShownIsNext ==
  ASSUME NEW r
  PROVE  /\ Receivable(r)' = Worth(SubscriptionBasis(r)') - Worth(PaymentBasis(r)')
         /\ Deposit(r)' = IF Registered(r)' THEN 0 ELSE Worth(PaymentBasis(r)')
         /\ Unregistered(r)' = IF Registered(r)' THEN 0 ELSE Worth(SubscriptionBasis(r)')
         /\ SharePremium(r)' = IF Registered(r)' THEN Premium(SubscriptionBasis(r)') ELSE 0
         /\ Registered(r)' <=> Rows(r, {"INCREASE_REGISTERED"})' # {}
BY DEF Receivable, Deposit, Unregistered, SharePremium, Registered, Worth, Premium

LEMMA BasesPriced ==
  ASSUME Typed, NEW r
  PROVE  /\ \A b \in SubscriptionBasis(r) : IsPriced(b) /\ Total(b) \in Int
         /\ \A b \in PaymentBasis(r) : IsPriced(b) /\ Total(b) \in Int
BY RowsPriced, CarriedPriced DEF SubscriptionBasis, PaymentBasis, IsPriced, Total

LEMMA IncreaseFacts ==
  ASSUME Typed, OneIncrease, NEW r \in References
  PROVE  /\ \A b \in SubscriptionBasis(r) :
              Worth(SubscriptionBasis(r)) = Total(b) /\ Premium(SubscriptionBasis(r)) = b.extra
         /\ \A b \in PaymentBasis(r) : Worth(PaymentBasis(r)) = Total(b)
         /\ SubscriptionBasis(r) = {} =>
              /\ PaymentBasis(r) = {}
              /\ Worth(SubscriptionBasis(r)) = 0 /\ Premium(SubscriptionBasis(r)) = 0
         /\ PaymentBasis(r) = {} => Worth(PaymentBasis(r)) = 0 /\ ~ Registered(r)
         /\ Worth(SubscriptionBasis(r)) \in Int /\ Premium(SubscriptionBasis(r)) \in Int
         /\ Worth(PaymentBasis(r)) \in Int
<1> DEFINE S == SubscriptionBasis(r)
           P == PaymentBasis(r)
<1>1. /\ \A b \in S : IsPriced(b) /\ Total(b) \in Int /\ b.extra \in Int
      /\ \A b \in P : IsPriced(b) /\ Total(b) \in Int
  BY BasesPriced DEF IsPriced
<1>2. /\ AtMostOne(S) /\ AtMostOne(P)
      /\ \A p \in P : \E s \in S : SameContribution(s, p)
      /\ Registered(r) => P # {}
  BY DEF OneIncrease
<1> HIDE DEF S, P
<1>3. \A b \in S : Worth(S) = Total(b) /\ Premium(S) = b.extra
  BY <1>1, <1>2, WorthOfOne
<1>4. \A b \in P : Worth(P) = Total(b)
  BY <1>1, <1>2, WorthOfOne
<1>5. S = {} => Worth(S) = 0 /\ Premium(S) = 0 /\ P = {}
  BY <1>2, WorthOfOne
<1>6. P = {} => Worth(P) = 0
  BY WorthOfOne
<1>7. Worth(S) \in Int /\ Premium(S) \in Int
  BY <1>1, <1>3, <1>5
<1>8. Worth(P) \in Int
  BY <1>1, <1>4, <1>6
<1>9. QED
  BY <1>2, <1>3, <1>4, <1>5, <1>6, <1>7, <1>8 DEF S, P

\* What recording an event does to the increase of a reference.
LEMMA RecordMovesIncrease ==
  ASSUME IncreasesInv, NEW e \in EventIds, NEW c \in Commands, Record(e, c), NEW r \in References
  PROVE  /\ AtMostOne(SubscriptionBasis(r)') /\ AtMostOne(PaymentBasis(r)')
         /\ \A p \in PaymentBasis(r)' : \E s \in SubscriptionBasis(r)' : SameContribution(s, p)
         /\ Registered(r)' => PaymentBasis(r)' # {}
         /\ Receivable(r) \in Int /\ Deposit(r) \in Int
         /\ Unregistered(r) \in Int /\ SharePremium(r) \in Int
         /\ Receivable(r)' = IF r = c.ref THEN Receivable(r) + Lines(c)["1500"] ELSE Receivable(r)
         /\ Deposit(r)' = IF r = c.ref THEN Deposit(r) + Lines(c)["1921"] ELSE Deposit(r)
         /\ Unregistered(r)' = IF r = c.ref THEN Unregistered(r) - Lines(c)["2030"]
                               ELSE Unregistered(r)
         /\ SharePremium(r)' = IF r = c.ref THEN SharePremium(r) - Lines(c)["2020"]
                               ELSE SharePremium(r)
<1>1. Typed /\ OneIncrease
  BY DEF IncreasesInv
<1>2. opening' = opening
  BY <1>1, RecordKeeps
<1>3. c.phase \in Phases /\ IsPriced(c) /\ Total(c) \in Int /\ c.extra \in Int
  BY CommandFacts DEF IsPriced, Total
<1> DEFINE S == SubscriptionBasis(r)
           P == PaymentBasis(r)
           mine == r = c.ref
<1>4. /\ SubscriptionBasis(r)' = IF mine /\ c.phase = "SUBSCRIPTION" THEN S \cup {c} ELSE S
      /\ PaymentBasis(r)' = IF mine /\ c.phase = "RESTRICTED_PAYMENT" THEN P \cup {c} ELSE P
      /\ Registered(r)' <=> Registered(r) \/ (mine /\ c.phase = "INCREASE_REGISTERED")
  <2>1. /\ Carried(r, {"SUBSCRIPTION", "RESTRICTED_PAYMENT"})'
             = Carried(r, {"SUBSCRIPTION", "RESTRICTED_PAYMENT"})
        /\ Carried(r, {"RESTRICTED_PAYMENT"})' = Carried(r, {"RESTRICTED_PAYMENT"})
    BY <1>2, CarriedStays
  <2>2. Rows(r, {"SUBSCRIPTION"})' = IF mine /\ c.phase = "SUBSCRIPTION"
                                     THEN Rows(r, {"SUBSCRIPTION"}) \cup {c}
                                     ELSE Rows(r, {"SUBSCRIPTION"})
    BY <1>1, RowsGrow
  <2>3. Rows(r, {"RESTRICTED_PAYMENT"})' = IF mine /\ c.phase = "RESTRICTED_PAYMENT"
                                           THEN Rows(r, {"RESTRICTED_PAYMENT"}) \cup {c}
                                           ELSE Rows(r, {"RESTRICTED_PAYMENT"})
    BY <1>1, RowsGrow
  <2>4. Rows(r, {"INCREASE_REGISTERED"})' = IF mine /\ c.phase = "INCREASE_REGISTERED"
                                            THEN Rows(r, {"INCREASE_REGISTERED"}) \cup {c}
                                            ELSE Rows(r, {"INCREASE_REGISTERED"})
    BY <1>1, RowsGrow
  <2>5. SubscriptionBasis(r)' = IF mine /\ c.phase = "SUBSCRIPTION" THEN S \cup {c} ELSE S
    BY <2>1, <2>2 DEF SubscriptionBasis
  <2>6. PaymentBasis(r)' = IF mine /\ c.phase = "RESTRICTED_PAYMENT" THEN P \cup {c} ELSE P
    BY <2>1, <2>3 DEF PaymentBasis
  <2>7. Registered(r)' <=> Registered(r) \/ (mine /\ c.phase = "INCREASE_REGISTERED")
    BY <2>4, ShownIs, ShownIsNext
  <2>8. QED
    BY <2>5, <2>6, <2>7
<1>5. /\ AtMostOne(S) /\ AtMostOne(P)
      /\ \A p \in P : \E s \in S : SameContribution(s, p)
      /\ Registered(r) => P # {}
  BY <1>1 DEF OneIncrease
<1>6. /\ \A b \in S : Worth(S) = Total(b) /\ Premium(S) = b.extra
      /\ \A b \in P : Worth(P) = Total(b)
      /\ S = {} => P = {} /\ Worth(S) = 0 /\ Premium(S) = 0
      /\ P = {} => Worth(P) = 0 /\ ~ Registered(r)
      /\ Worth(S) \in Int /\ Premium(S) \in Int /\ Worth(P) \in Int
  BY <1>1, IncreaseFacts
<1>7. /\ Receivable(r) = Worth(S) - Worth(P)
      /\ Deposit(r) = IF Registered(r) THEN 0 ELSE Worth(P)
      /\ Unregistered(r) = IF Registered(r) THEN 0 ELSE Worth(S)
      /\ SharePremium(r) = IF Registered(r) THEN Premium(S) ELSE 0
  BY ShownIs
<1>8. /\ Receivable(r)' = Worth(SubscriptionBasis(r)') - Worth(PaymentBasis(r)')
      /\ Deposit(r)' = IF Registered(r)' THEN 0 ELSE Worth(PaymentBasis(r)')
      /\ Unregistered(r)' = IF Registered(r)' THEN 0 ELSE Worth(SubscriptionBasis(r)')
      /\ SharePremium(r)' = IF Registered(r)' THEN Premium(SubscriptionBasis(r)') ELSE 0
  BY ShownIsNext
<1>9. /\ Worth({c}) = Total(c) /\ Premium({c}) = c.extra /\ AtMostOne({c})
  <2>1. PICK one : one = {c}
    OBVIOUS
  <2>2. c \in one /\ AtMostOne(one)
    BY <2>1 DEF AtMostOne
  <2>3. Worth(one) = Total(c) /\ Premium(one) = c.extra
    BY <1>3, <2>2, WorthOfOne
  <2>4. QED
    BY <2>1, <2>2, <2>3
<1>10. /\ Lines(c)["1500"] = IF c.phase = "SUBSCRIPTION" THEN Total(c)
                             ELSE IF c.phase = "RESTRICTED_PAYMENT" THEN 0 - Total(c) ELSE 0
       /\ Lines(c)["1921"] = IF c.phase = "RESTRICTED_PAYMENT" THEN Total(c)
                             ELSE IF c.phase = "INCREASE_REGISTERED" THEN 0 - Total(c) ELSE 0
       /\ Lines(c)["2030"] = IF c.phase = "SUBSCRIPTION" THEN 0 - Total(c)
                             ELSE IF c.phase = "INCREASE_REGISTERED" THEN Total(c) ELSE 0
       /\ Lines(c)["2020"] = IF c.phase = "INCREASE_REGISTERED" THEN 0 - c.extra ELSE 0
  BY <1>3, LinesFacts
<1>11. /\ Receivable(r) \in Int /\ Deposit(r) \in Int
       /\ Unregistered(r) \in Int /\ SharePremium(r) \in Int
  BY <1>6, <1>7
<1>12. /\ mine /\ c.phase = "SUBSCRIPTION" => S = {}
       /\ mine /\ c.phase = "RESTRICTED_PAYMENT" =>
            P = {} /\ \E s \in S : SameContribution(s, c)
       /\ mine /\ c.phase = "INCREASE_REGISTERED" =>
            /\ ~ Registered(r)
            /\ \E s \in S : SameContribution(s, c)
            /\ \E p \in P : SameContribution(p, c)
  <2>1. ChainAllows(c)
    BY DEF Record
  <2>2. QED
    BY <2>1, ChainFacts, ShownIs
<1> HIDE DEF S, P
<1>13. CASE mine /\ c.phase = "SUBSCRIPTION"
  <2>1. /\ S = {} /\ P = {} /\ ~ Registered(r)
        /\ SubscriptionBasis(r)' = {c} /\ PaymentBasis(r)' = {} /\ ~ Registered(r)'
    BY <1>4, <1>6, <1>12, <1>13
  <2>2. QED
    BY <1>3, <1>6, <1>7, <1>8, <1>9, <1>10, <1>11, <1>13, <2>1 DEF AtMostOne
<1>14. CASE mine /\ c.phase = "RESTRICTED_PAYMENT"
  <2>1. /\ P = {} /\ ~ Registered(r) /\ \E s \in S : SameContribution(s, c)
        /\ SubscriptionBasis(r)' = S /\ PaymentBasis(r)' = {c} /\ ~ Registered(r)'
    BY <1>4, <1>6, <1>12, <1>14
  <2>2. QED
    BY <1>3, <1>5, <1>6, <1>7, <1>8, <1>9, <1>10, <1>11, <1>14, <2>1
<1>15. CASE mine /\ c.phase = "INCREASE_REGISTERED"
  <2>1. /\ ~ Registered(r) /\ Registered(r)' /\ P # {}
        /\ SubscriptionBasis(r)' = S /\ PaymentBasis(r)' = P
    BY <1>4, <1>12, <1>15
  <2>2. PICK s \in S : SameContribution(s, c)
    BY <1>12, <1>15
  <2>3. PICK p \in P : SameContribution(p, c)
    BY <1>12, <1>15
  <2>4. Worth(S) = Total(c) /\ Worth(P) = Total(c) /\ Premium(S) = c.extra
    BY <1>6, <2>2, <2>3 DEF SameContribution, Total
  <2>5. QED
    BY <1>3, <1>5, <1>7, <1>8, <1>10, <1>11, <1>15, <2>1, <2>4
<1>16. CASE ~ mine \/ c.phase \notin IncreasePhases
  <2>1. /\ SubscriptionBasis(r)' = S /\ PaymentBasis(r)' = P
        /\ Registered(r)' <=> Registered(r)
    BY <1>4, <1>16 DEF IncreasePhases
  <2>2. /\ Receivable(r)' = Receivable(r) /\ Deposit(r)' = Deposit(r)
        /\ Unregistered(r)' = Unregistered(r) /\ SharePremium(r)' = SharePremium(r)
    BY <1>7, <1>8, <2>1
  <2>3. mine => /\ Lines(c)["1500"] = 0 /\ Lines(c)["1921"] = 0
                /\ Lines(c)["2030"] = 0 /\ Lines(c)["2020"] = 0
    BY <1>10, <1>16 DEF IncreasePhases
  <2>4. QED
    BY <1>5, <1>11, <2>1, <2>2, <2>3
<1>17. QED
  BY <1>13, <1>14, <1>15, <1>16 DEF IncreasePhases

LEMMA RecordIncreases ==
  ASSUME IncreasesInv, NEW e \in EventIds, NEW c \in Commands, Record(e, c)
  PROVE  IncreasesInv'
<1>1. Typed /\ OneIncrease /\ IncreaseInBooks
  BY DEF IncreasesInv
<1>2. /\ Recorded' = Recorded \cup {e} /\ e \notin Recorded
      /\ \A f \in Recorded : events'[f] = events[f]
      /\ reversed' = reversed /\ reversed \subseteq Recorded
      /\ \A a \in Accounts : books'[a] = books[a] + Lines(c)[a]
      /\ Typed'
  BY <1>1, RecordKeeps DEF Typed
<1>3. c.phase \in Phases /\ c.ref \in References /\ IsPriced(c)
  BY CommandFacts
<1>4. OneIncrease'
  BY RecordMovesIncrease DEF OneIncrease
<1>5. Untouched(IncreasePhases)' => Untouched(IncreasePhases)
  BY <1>2 DEF Untouched
<1>6. /\ "1500" \in Accounts /\ "1921" \in Accounts /\ "2030" \in Accounts /\ "2020" \in Accounts
      /\ books["1500"] \in Int /\ books["1921"] \in Int
      /\ books["2030"] \in Int /\ books["2020"] \in Int
      /\ Lines(c)["1500"] \in Int /\ Lines(c)["1921"] \in Int
      /\ Lines(c)["2030"] \in Int /\ Lines(c)["2020"] \in Int
  <2>1. "1500" \in Accounts /\ "1921" \in Accounts /\ "2030" \in Accounts /\ "2020" \in Accounts
    BY DEF Accounts
  <2>2. Lines(c) \in [Accounts -> Int] /\ books \in [Accounts -> Int]
    BY <1>1, <1>3, LinesFacts DEF Typed
  <2>3. QED
    BY <2>1, <2>2
<1> DEFINE k == c.ref
<1>7. PICK v1, w1 : /\ v1 = [r \in References |-> Receivable(r)]
                    /\ w1 = [r \in References |-> Receivable(r)']
  OBVIOUS
<1>8. PICK v2, w2 : /\ v2 = [r \in References |-> Deposit(r)]
                    /\ w2 = [r \in References |-> Deposit(r)']
  OBVIOUS
<1>9. PICK v3, w3 : /\ v3 = [r \in References |-> Unregistered(r)]
                    /\ w3 = [r \in References |-> Unregistered(r)']
  OBVIOUS
<1>10. PICK v4, w4 : /\ v4 = [r \in References |-> SharePremium(r)]
                     /\ w4 = [r \in References |-> SharePremium(r)']
  OBVIOUS
<1>11. SumFunction(w1) = SumFunction(v1) + Lines(c)["1500"] /\ SumFunction(v1) \in Int
  <2> DEFINE d == Lines(c)["1500"]
  <2>1. /\ v1 \in [References -> Int] /\ d \in Int /\ k \in References
        /\ w1 \in [References -> Int]
        /\ \A r \in References : w1[r] = IF r = k THEN v1[r] + d ELSE v1[r]
    BY <1>3, <1>6, <1>7, RecordMovesIncrease
  <2> HIDE DEF d, k
  <2>2. SumFunction(w1) = SumFunction(v1) + d /\ SumFunction(v1) \in Int
    BY <2>1, SumStep
  <2>3. QED
    BY <2>2 DEF d
<1>12. SumFunction(w2) = SumFunction(v2) + Lines(c)["1921"] /\ SumFunction(v2) \in Int
  <2> DEFINE d == Lines(c)["1921"]
  <2>1. /\ v2 \in [References -> Int] /\ d \in Int /\ k \in References
        /\ w2 \in [References -> Int]
        /\ \A r \in References : w2[r] = IF r = k THEN v2[r] + d ELSE v2[r]
    BY <1>3, <1>6, <1>8, RecordMovesIncrease
  <2> HIDE DEF d, k
  <2>2. SumFunction(w2) = SumFunction(v2) + d /\ SumFunction(v2) \in Int
    BY <2>1, SumStep
  <2>3. QED
    BY <2>2 DEF d
<1>13. SumFunction(w3) = SumFunction(v3) - Lines(c)["2030"] /\ SumFunction(v3) \in Int
  <2> DEFINE d == 0 - Lines(c)["2030"]
  <2>1. /\ v3 \in [References -> Int] /\ d \in Int /\ k \in References
        /\ w3 \in [References -> Int]
        /\ \A r \in References : w3[r] = IF r = k THEN v3[r] + d ELSE v3[r]
    BY <1>3, <1>6, <1>9, RecordMovesIncrease
  <2> HIDE DEF d, k
  <2>2. SumFunction(w3) = SumFunction(v3) + d /\ SumFunction(v3) \in Int
    BY <2>1, SumStep
  <2>3. QED
    BY <1>6, <2>2 DEF d
<1>14. SumFunction(w4) = SumFunction(v4) - Lines(c)["2020"] /\ SumFunction(v4) \in Int
  <2> DEFINE d == 0 - Lines(c)["2020"]
  <2>1. /\ v4 \in [References -> Int] /\ d \in Int /\ k \in References
        /\ w4 \in [References -> Int]
        /\ \A r \in References : w4[r] = IF r = k THEN v4[r] + d ELSE v4[r]
    BY <1>3, <1>6, <1>10, RecordMovesIncrease
  <2> HIDE DEF d, k
  <2>2. SumFunction(w4) = SumFunction(v4) + d /\ SumFunction(v4) \in Int
    BY <2>1, SumStep
  <2>3. QED
    BY <1>6, <2>2 DEF d
<1>15. ASSUME Untouched(IncreasePhases)
       PROVE  /\ books'["1500"] = SumFunction(w1) /\ books'["1921"] = SumFunction(w2)
              /\ books'["2030"] = 0 - SumFunction(w3) /\ books'["2020"] = 0 - SumFunction(w4)
  <2>1. /\ books["1500"] = SumFunction(v1) /\ books["1921"] = SumFunction(v2)
        /\ books["2030"] = 0 - SumFunction(v3) /\ books["2020"] = 0 - SumFunction(v4)
    BY <1>1, <1>7, <1>8, <1>9, <1>10, <1>15 DEF IncreaseInBooks
  <2>2. /\ books'["1500"] = books["1500"] + Lines(c)["1500"]
        /\ books'["1921"] = books["1921"] + Lines(c)["1921"]
        /\ books'["2030"] = books["2030"] + Lines(c)["2030"]
        /\ books'["2020"] = books["2020"] + Lines(c)["2020"]
    BY <1>2, <1>6
  <2>3. QED
    BY <1>6, <1>11, <1>12, <1>13, <1>14, <2>1, <2>2
<1>16. IncreaseInBooks'
  BY <1>5, <1>7, <1>8, <1>9, <1>10, <1>15 DEF IncreaseInBooks
<1>17. QED
  BY <1>2, <1>4, <1>16 DEF IncreasesInv

LEMMA IncreaseStays ==
  ASSUME Recorded' = Recorded, events' = events, opening' = opening
  PROVE  \A r : /\ SubscriptionBasis(r)' = SubscriptionBasis(r)
                /\ PaymentBasis(r)' = PaymentBasis(r)
                /\ Registered(r)' <=> Registered(r)
                /\ Receivable(r)' = Receivable(r) /\ Deposit(r)' = Deposit(r)
                /\ Unregistered(r)' = Unregistered(r) /\ SharePremium(r)' = SharePremium(r)
<1> SUFFICES ASSUME NEW r
             PROVE  /\ SubscriptionBasis(r)' = SubscriptionBasis(r)
                    /\ PaymentBasis(r)' = PaymentBasis(r)
                    /\ Registered(r)' <=> Registered(r)
                    /\ Receivable(r)' = Receivable(r) /\ Deposit(r)' = Deposit(r)
                    /\ Unregistered(r)' = Unregistered(r) /\ SharePremium(r)' = SharePremium(r)
  OBVIOUS
<1>1. \A P : Rows(r, P)' = Rows(r, P) /\ Carried(r, P)' = Carried(r, P)
  BY RowsStay, CarriedStays
<1>2. SubscriptionBasis(r)' = SubscriptionBasis(r) /\ PaymentBasis(r)' = PaymentBasis(r)
  BY <1>1 DEF SubscriptionBasis, PaymentBasis
<1>3. Registered(r)' <=> Registered(r)
  BY <1>1 DEF Registered
<1>4. QED
  BY <1>2, <1>3, ShownIs, ShownIsNext

\* A reversal of an increase event ends what the property speaks of; any other leaves
\* the accounts of an increase alone.
LEMMA ReverseIncreases ==
  ASSUME IncreasesInv, NEW e \in EventIds, Reverse(e)
  PROVE  IncreasesInv'
<1>1. Typed /\ OneIncrease /\ IncreaseInBooks
  BY DEF IncreasesInv
<1>2. /\ e \in Recorded /\ Recorded' = Recorded
      /\ events' = events /\ opening' = opening
      /\ reversed' = reversed \cup {e}
      /\ \A a \in Accounts : books'[a] = books[a] - Lines(events[e])[a]
      /\ Typed'
  BY <1>1, ReverseKeeps
<1>3. events[e].phase \in Phases /\ IsPriced(events[e])
  BY <1>1, <1>2, RecordedFacts, CommandFacts
<1>4. \A r : /\ SubscriptionBasis(r)' = SubscriptionBasis(r)
             /\ PaymentBasis(r)' = PaymentBasis(r)
             /\ Registered(r)' <=> Registered(r)
             /\ Receivable(r)' = Receivable(r) /\ Deposit(r)' = Deposit(r)
             /\ Unregistered(r)' = Unregistered(r) /\ SharePremium(r)' = SharePremium(r)
  BY <1>2, IncreaseStays
<1>5. OneIncrease'
  BY <1>1, <1>4 DEF OneIncrease
<1>6. ASSUME Untouched(IncreasePhases)'
      PROVE  /\ Untouched(IncreasePhases)
             /\ books'["1500"] = books["1500"] /\ books'["1921"] = books["1921"]
             /\ books'["2030"] = books["2030"] /\ books'["2020"] = books["2020"]
  <2>1. events[e].phase \notin IncreasePhases
    BY <1>2, <1>6 DEF Untouched
  <2>2. /\ Lines(events[e])["1500"] = 0 /\ Lines(events[e])["1921"] = 0
        /\ Lines(events[e])["2030"] = 0 /\ Lines(events[e])["2020"] = 0
    BY <1>3, <2>1, LinesFacts DEF IncreasePhases
  <2>3. /\ "1500" \in Accounts /\ books["1500"] \in Int
        /\ "1921" \in Accounts /\ books["1921"] \in Int
        /\ "2030" \in Accounts /\ books["2030"] \in Int
        /\ "2020" \in Accounts /\ books["2020"] \in Int
    BY <1>1 DEF Typed, Accounts
  <2>4. QED
    BY <1>2, <1>6, <2>2, <2>3 DEF Untouched
<1>7. IncreaseInBooks'
  BY <1>1, <1>4, <1>6 DEF IncreaseInBooks
<1>8. QED
  BY <1>2, <1>5, <1>7 DEF IncreasesInv

LEMMA InitIncreases ==
  ASSUME EventsInit
  PROVE  IncreasesInv
<1>1. Typed
  BY InitTyped
<1>2. Recorded = {} /\ \A r, P : Rows(r, P) = {}
  BY DEF EventsInit, Recorded, Rows, Of
<1>3. \A r \in References :
        /\ SubscriptionBasis(r) = Carried(r, {"SUBSCRIPTION", "RESTRICTED_PAYMENT"})
        /\ PaymentBasis(r) = Carried(r, {"RESTRICTED_PAYMENT"})
        /\ ~ Registered(r)
  BY <1>2 DEF SubscriptionBasis, PaymentBasis, Registered
<1>4. \A r \in References : \A o, p \in SubscriptionBasis(r) : o = p
  <2> SUFFICES ASSUME NEW r \in References,
                      NEW o \in SubscriptionBasis(r), NEW p \in SubscriptionBasis(r)
               PROVE  o = p
    OBVIOUS
  <2>1. /\ o \in opening /\ p \in opening /\ o.ref = p.ref
        /\ o.phase \in {"SUBSCRIPTION", "RESTRICTED_PAYMENT"}
        /\ p.phase \in {"SUBSCRIPTION", "RESTRICTED_PAYMENT"}
    BY <1>3 DEF Carried
  <2>2. opening \in Openings
    BY DEF EventsInit
  <2>3. \A chain \in {IncreasePhases, ReductionPhases, LoanPhases} :
          ~ (o.phase \in chain /\ p.phase \notin chain)
    BY <2>1 DEF IncreasePhases, ReductionPhases, LoanPhases
  <2>4. QED
    BY <2>1, <2>2, <2>3, OpeningsAreUnique
<1>5. \A r \in References : PaymentBasis(r) \subseteq SubscriptionBasis(r)
  BY <1>3 DEF Carried
<1>6. OneIncrease
  BY <1>3, <1>4, <1>5 DEF OneIncrease, AtMostOne, SameContribution
<1>7. ASSUME NEW r \in References
      PROVE  /\ Receivable(r) \in Int /\ Deposit(r) \in Int /\ Unregistered(r) \in Int
             /\ SharePremium(r) = 0
             /\ \/ /\ Receivable(r) = 0 /\ Deposit(r) = 0 /\ Unregistered(r) = 0
                   /\ \A o \in With(r) :
                        /\ OpeningLines(o)["1500"] = 0 /\ OpeningLines(o)["1921"] = 0
                        /\ OpeningLines(o)["2030"] = 0
                \/ \E x \in With(r) :
                     /\ Receivable(r) = OpeningLines(x)["1500"]
                     /\ Deposit(r) = OpeningLines(x)["1921"]
                     /\ 0 - Unregistered(r) = OpeningLines(x)["2030"]
                     /\ \A o \in With(r) : o # x =>
                          /\ OpeningLines(o)["1500"] = 0 /\ OpeningLines(o)["1921"] = 0
                          /\ OpeningLines(o)["2030"] = 0
  <2> DEFINE S == SubscriptionBasis(r)
             P == PaymentBasis(r)
  <2>1. /\ Receivable(r) = Worth(S) - Worth(P) /\ Deposit(r) = Worth(P)
        /\ Unregistered(r) = Worth(S) /\ SharePremium(r) = 0
    BY <1>3, ShownIs
  <2>2. /\ \A b \in S : Worth(S) = Total(b)
        /\ \A b \in P : Worth(P) = Total(b)
        /\ S = {} => P = {} /\ Worth(S) = 0
        /\ P = {} => Worth(P) = 0
        /\ Worth(S) \in Int /\ Worth(P) \in Int
    BY <1>1, <1>6, IncreaseFacts
  <2>3. S \subseteq With(r) /\ P \subseteq S /\ \A o, p \in S : o = p
    BY <1>3, <1>4, <1>5 DEF Carried, With
  <2>4. ASSUME NEW o \in With(r)
        PROVE  /\ o \in S <=> o.phase \in {"SUBSCRIPTION", "RESTRICTED_PAYMENT"}
               /\ o \in P <=> o.phase = "RESTRICTED_PAYMENT"
               /\ OpeningLines(o)["1500"] = IF o.phase = "SUBSCRIPTION" THEN Total(o) ELSE 0
               /\ OpeningLines(o)["1921"] = IF o.phase = "RESTRICTED_PAYMENT" THEN Total(o) ELSE 0
               /\ OpeningLines(o)["2030"]
                    = IF o.phase \in {"SUBSCRIPTION", "RESTRICTED_PAYMENT"} THEN 0 - Total(o) ELSE 0
    <3>1. o \in opening /\ o.ref = r /\ o \in OpeningComponent
      BY <1>1, OpeningsAreUnique DEF With, Typed
    <3>2. /\ o \in S <=> o.phase \in {"SUBSCRIPTION", "RESTRICTED_PAYMENT"}
          /\ o \in P <=> o.phase = "RESTRICTED_PAYMENT"
      BY <1>3, <3>1 DEF Carried
    <3>3. QED
      BY <3>1, <3>2, OpeningFacts
  <2> HIDE DEF S, P
  <2>5. CASE S = {}
    <3>1. Receivable(r) = 0 /\ Deposit(r) = 0 /\ Unregistered(r) = 0
      BY <2>1, <2>2, <2>5
    <3>2. \A o \in With(r) : /\ OpeningLines(o)["1500"] = 0 /\ OpeningLines(o)["1921"] = 0
                             /\ OpeningLines(o)["2030"] = 0
      BY <2>4, <2>5
    <3>3. QED
      BY <2>1, <3>1, <3>2
  <2>6. CASE S # {}
    <3>1. PICK x \in S : TRUE
      BY <2>6
    <3>2. x \in With(r) /\ \A o \in With(r) : o # x => o \notin S
      BY <2>3, <3>1
    <3>3. \A o \in With(r) : o # x =>
            /\ OpeningLines(o)["1500"] = 0 /\ OpeningLines(o)["1921"] = 0
            /\ OpeningLines(o)["2030"] = 0
      BY <2>4, <3>2
    <3>4. Worth(S) = Total(x)
      BY <2>2, <3>1
    <3>5. /\ Receivable(r) = OpeningLines(x)["1500"] /\ Deposit(r) = OpeningLines(x)["1921"]
          /\ 0 - Unregistered(r) = OpeningLines(x)["2030"]
      <4>1. CASE x \in P
        <5>1. Worth(P) = Total(x) /\ x.phase = "RESTRICTED_PAYMENT"
          BY <2>2, <2>4, <3>2, <4>1
        <5>2. QED
          BY <2>1, <2>2, <2>4, <3>2, <3>4, <5>1
      <4>2. CASE x \notin P
        <5>1. P = {} /\ Worth(P) = 0 /\ x.phase = "SUBSCRIPTION"
          BY <2>2, <2>3, <2>4, <3>1, <3>2, <4>2
        <5>2. QED
          BY <2>1, <2>2, <2>4, <3>2, <3>4, <5>1
      <4>3. QED
        BY <4>1, <4>2
    <3>6. QED
      BY <2>1, <2>2, <3>2, <3>3, <3>5
  <2>7. QED
    BY <2>5, <2>6
<1> DEFINE v1 == [r \in References |-> Receivable(r)]
           v2 == [r \in References |-> Deposit(r)]
           v3 == [r \in References |-> Unregistered(r)]
           v4 == [r \in References |-> SharePremium(r)]
           less == [r \in References |-> 0 - Unregistered(r)]
<1>8. /\ v1 \in [References -> Int] /\ v2 \in [References -> Int] /\ v3 \in [References -> Int]
      /\ v4 \in [References -> Int] /\ less \in [References -> Int]
      /\ \A r \in References :
           /\ v1[r] = Receivable(r) /\ v2[r] = Deposit(r) /\ v3[r] = Unregistered(r)
           /\ v4[r] = 0 /\ less[r] = 0 - Unregistered(r) /\ less[r] = 0 - v3[r]
  BY <1>7
<1>9. "1500" \in Accounts /\ "1921" \in Accounts /\ "2030" \in Accounts /\ "2020" \in Accounts
  BY DEF Accounts
<1> HIDE DEF v1, v2, v3, v4, less
<1>10. books["1500"] = SumFunction(v1)
  <2>1. ASSUME NEW r \in References
        PROVE  \/ v1[r] = 0 /\ \A o \in With(r) : OpeningLines(o)["1500"] = 0
               \/ \E x \in With(r) : /\ v1[r] = OpeningLines(x)["1500"]
                                     /\ \A o \in With(r) : o # x => OpeningLines(o)["1500"] = 0
    BY <1>7, <1>8
  <2>2. QED
    BY <1>8, <1>9, <2>1, OpeningBook
<1>11. books["1921"] = SumFunction(v2)
  <2>1. ASSUME NEW r \in References
        PROVE  \/ v2[r] = 0 /\ \A o \in With(r) : OpeningLines(o)["1921"] = 0
               \/ \E x \in With(r) : /\ v2[r] = OpeningLines(x)["1921"]
                                     /\ \A o \in With(r) : o # x => OpeningLines(o)["1921"] = 0
    BY <1>7, <1>8
  <2>2. QED
    BY <1>8, <1>9, <2>1, OpeningBook
<1>12. books["2030"] = 0 - SumFunction(v3)
  <2>1. ASSUME NEW r \in References
        PROVE  \/ less[r] = 0 /\ \A o \in With(r) : OpeningLines(o)["2030"] = 0
               \/ \E x \in With(r) : /\ less[r] = OpeningLines(x)["2030"]
                                     /\ \A o \in With(r) : o # x => OpeningLines(o)["2030"] = 0
    BY <1>7, <1>8
  <2>2. books["2030"] = SumFunction(less)
    BY <1>8, <1>9, <2>1, OpeningBook
  <2>3. SumFunction(less) = 0 - SumFunction(v3)
    BY <1>8, ReferencesAreListed, SumMinus
  <2>4. QED
    BY <2>2, <2>3
<1>13. books["2020"] = 0 - SumFunction(v4)
  <2>1. ASSUME NEW r \in References
        PROVE  v4[r] = 0 /\ \A o \in With(r) : OpeningLines(o)["2020"] = 0
    <3>1. ASSUME NEW o \in With(r) PROVE OpeningLines(o)["2020"] = 0
      <4>1. o \in OpeningComponent
        BY <1>1, OpeningsAreUnique DEF With, Typed
      <4>2. QED
        BY <4>1, OpeningFacts
    <3>2. QED
      BY <1>8, <3>1
  <2>2. books["2020"] = SumFunction(v4)
    BY <1>8, <1>9, <2>1, OpeningBook
  <2>3. SumFunction(v4) = 0
    <3>1. SumFunctionOnSet(v4, References) = 0
      BY <1>8, ReferencesAreListed, SumZero
    <3>2. QED
      BY <1>8, <3>1, SumAll
  <2>4. QED
    BY <2>2, <2>3
<1>14. IncreaseInBooks
  BY <1>10, <1>11, <1>12, <1>13 DEF IncreaseInBooks, v1, v2, v3, v4
<1>15. QED
  BY <1>1, <1>6, <1>14 DEF IncreasesInv

(* While no increase is reversed the books say how far each came: its       *)
(* receivable, its restricted deposit, the unregistered amount and, once    *)
(* registered, the share premium (the cash capital increase chain).         *)
THEOREM IncreasesShow == EventsSpec => []IncreaseInBooks
<1>1. EventsInit => IncreasesInv
  BY InitIncreases
<1>2. IncreasesInv /\ [EventsNext]_vars => IncreasesInv'
  <2> SUFFICES ASSUME IncreasesInv, [EventsNext]_vars PROVE IncreasesInv'
    OBVIOUS
  <2>1. CASE RecordAny
    BY <2>1, RecordIncreases DEF RecordAny
  <2>2. CASE ReverseAny
    BY <2>2, ReverseIncreases DEF ReverseAny
  <2>3. CASE UNCHANGED vars
    <3>1. /\ Recorded' = Recorded /\ events' = events /\ opening' = opening
          /\ reversed' = reversed /\ books' = books /\ Typed'
      BY <2>3, StutterKeeps DEF IncreasesInv
    <3>2. IncreaseInBooks' /\ OneIncrease'
      BY <3>1, IncreaseStays DEF IncreasesInv, IncreaseInBooks, OneIncrease, Untouched
    <3>3. QED
      BY <3>1, <3>2 DEF IncreasesInv
  <2>4. QED
    BY <2>1, <2>2, <2>3 DEF EventsNext
<1>3. IncreasesInv => IncreaseInBooks
  BY DEF IncreasesInv
<1>4. QED
  BY <1>1, <1>2, <1>3, PTL DEF EventsSpec

=============================================================================
