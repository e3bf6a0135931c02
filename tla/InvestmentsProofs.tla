------------------------- MODULE InvestmentsProofs -------------------------
(***************************************************************************)
(* Proofs about one investment position, for every scale of the columns,   *)
(* all days, counts and amounts, every set of bank transactions and every  *)
(* number of events.                                                       *)
(***************************************************************************)
EXTENDS Investments, SequenceTheorems, FiniteSums, TLAPS

-----------------------------------------------------------------------------
(* Journals. *)

LEMMA LinesAt ==
    ASSUME NEW x, NEW y, NEW z
    PROVE  /\ LET j == Lines([investment |-> x, payable |-> y])
              IN j["investment"] = x /\ j["payable"] = y /\ j["receivable"] = 0 /\ j["bank"] = 0
                 /\ j["result"] = 0
           /\ LET j == Lines([receivable |-> x, investment |-> y, result |-> z])
              IN j["investment"] = y /\ j["payable"] = 0 /\ j["receivable"] = x /\ j["bank"] = 0
                 /\ j["result"] = z
           /\ LET j == Lines([receivable |-> x, result |-> y])
              IN j["investment"] = 0 /\ j["payable"] = 0 /\ j["receivable"] = x /\ j["bank"] = 0
                 /\ j["result"] = y
           /\ LET j == Lines([payable |-> x, bank |-> y])
              IN j["investment"] = 0 /\ j["payable"] = x /\ j["receivable"] = 0 /\ j["bank"] = y
                 /\ j["result"] = 0
           /\ LET j == Lines([bank |-> x, receivable |-> y])
              IN j["investment"] = 0 /\ j["payable"] = 0 /\ j["receivable"] = y /\ j["bank"] = x
                 /\ j["result"] = 0
           /\ LET j == Lines([investment |-> x, result |-> y])
              IN j["investment"] = x /\ j["payable"] = 0 /\ j["receivable"] = 0 /\ j["bank"] = 0
                 /\ j["result"] = y
BY DEF Lines, Accounts

LEMMA RecognitionAt ==
    ASSUME NEW event, event.kind \in Kind, event.amount \in Int, event.carrying \in Int
    PROVE  LET j == Recognition(event) IN
           /\ j \in [Accounts -> Int]
           /\ j["investment"] = IF event.kind = "purchase" THEN event.amount
                                ELSE IF event.kind = "sale" THEN -event.carrying ELSE 0
           /\ j["payable"] = IF event.kind = "purchase" THEN -event.amount ELSE 0
           /\ j["receivable"] = IF event.kind = "purchase" THEN 0 ELSE event.amount
           /\ j["bank"] = 0
<1>1. CASE event.kind = "purchase"
  <2>1. Recognition(event) = Lines([investment |-> event.amount, payable |-> -event.amount])
    BY <1>1 DEF Recognition
  <2>2. QED
    BY <1>1, <2>1, LinesAt DEF Lines, Accounts
<1>2. CASE event.kind = "sale"
  <2>1. Recognition(event) = Lines([receivable |-> event.amount, investment |-> -event.carrying,
                                    result |-> event.carrying - event.amount])
    BY <1>2 DEF Recognition
  <2>2. QED
    BY <1>2, <2>1, LinesAt DEF Lines, Accounts
<1>3. CASE event.kind = "income"
  <2>1. Recognition(event) = Lines([receivable |-> event.amount, result |-> -event.amount])
    BY <1>3 DEF Recognition
  <2>2. QED
    BY <1>3, <2>1, LinesAt DEF Lines, Accounts
<1>4. QED
  BY <1>1, <1>2, <1>3 DEF Kind

LEMMA PaymentAt ==
    ASSUME NEW event, event.kind \in Kind, event.amount \in Int
    PROVE  LET j == Payment(event) IN
           /\ j \in [Accounts -> Int]
           /\ j["investment"] = 0
           /\ j["payable"] = IF event.kind = "purchase" THEN event.amount ELSE 0
           /\ j["receivable"] = IF event.kind = "purchase" THEN 0 ELSE -event.amount
           /\ j["bank"] = IF event.kind = "purchase" THEN -event.amount ELSE event.amount
<1>1. CASE event.kind = "purchase"
  <2>1. Payment(event) = Lines([payable |-> event.amount, bank |-> -event.amount])
    BY <1>1 DEF Payment
  <2>2. QED
    BY <1>1, <2>1, LinesAt DEF Lines, Accounts
<1>2. CASE event.kind # "purchase"
  <2>1. Payment(event) = Lines([bank |-> event.amount, receivable |-> -event.amount])
    BY <1>2 DEF Payment
  <2>2. QED
    BY <1>2, <2>1, LinesAt DEF Lines, Accounts
<1>3. QED
  BY <1>1, <1>2

LEMMA PostedAt ==
    ASSUME NEW b \in [Accounts -> Int], NEW j \in [Accounts -> Int]
    PROVE  /\ Posted(b, j) \in [Accounts -> Int] /\ Reversed(b, j) \in [Accounts -> Int]
           /\ \A a \in Accounts : Posted(b, j)[a] = b[a] + j[a] /\ Reversed(b, j)[a] = b[a] - j[a]
           /\ {"investment", "payable", "receivable", "bank"} \subseteq Accounts
BY DEF Posted, Reversed, Accounts

-----------------------------------------------------------------------------
(* Types. *)

Part == [units : Nat, book : Nat, tax : Nat]
Allocations == UNION {[D -> Part] : D \in SUBSET Nat}
EventRow == [kind : Kind, amount : Nat, carrying : Nat, allocation : Allocations,
             corrected : BOOLEAN]
SettlementRow == [event : Nat, transaction : Transactions, supersedes : Nat]

LEMMA AllocationFacts ==
    ASSUME NEW a \in Allocations
    PROVE  /\ a \in [DOMAIN a -> Part] /\ DOMAIN a \subseteq Nat
           /\ \A l \in DOMAIN a : a[l].units \in Nat /\ a[l].book \in Nat /\ a[l].tax \in Nat
<1>1. PICK D \in SUBSET Nat : a \in [D -> Part]
  BY DEF Allocations
<1>2. QED
  BY <1>1 DEF Part

LEMMA EventFacts ==
    ASSUME NEW event \in EventRow
    PROVE  /\ event.kind \in Kind /\ event.amount \in Nat /\ event.carrying \in Nat
           /\ event.corrected \in BOOLEAN /\ event.allocation \in Allocations
BY DEF EventRow

-----------------------------------------------------------------------------
(* What the recorded events come to, when one is appended and when one is corrected. *)

LEMMA EventsFacts ==
    ASSUME NEW past \in Seq(EventRow)
    PROVE  /\ DOMAIN past = 1 .. Len(past) /\ Len(past) \in Nat /\ IsFiniteSet(DOMAIN past)
           /\ \A e \in DOMAIN past : past[e] \in EventRow
<1>1. DOMAIN past = 1 .. Len(past) /\ Len(past) \in Nat /\ \A e \in DOMAIN past : past[e] \in EventRow
  BY LenProperties, ElementOfSeq
<1>2. QED
  BY <1>1, FS_Interval

LEMMA StandingFacts ==
    ASSUME NEW past \in Seq(EventRow), NEW kinds
    PROVE  /\ Standing(past, kinds) \subseteq DOMAIN past
           /\ IsFiniteSet(Standing(past, kinds))
           /\ \A e \in Standing(past, kinds) : past[e] \in EventRow
<1>1. Standing(past, kinds) \in SUBSET DOMAIN past
  BY DEF Standing
<1>2. QED
  BY <1>1, EventsFacts, FS_Subset

\* The terms of the sums.
LEMMA TermsFacts ==
    ASSUME NEW past \in Seq(EventRow), NEW kinds
    PROVE  /\ [e \in Standing(past, kinds) |-> past[e].amount] \in [Standing(past, kinds) -> Int]
           /\ [e \in Standing(past, kinds) |-> past[e].carrying] \in [Standing(past, kinds) -> Int]
BY StandingFacts, EventFacts

LEMMA SoldFacts ==
    ASSUME NEW past \in Seq(EventRow), NEW l
    PROVE  /\ [e \in Sold(past, l) |-> past[e].allocation[l].units] \in [Sold(past, l) -> Int]
           /\ [e \in Sold(past, l) |-> past[e].allocation[l].tax] \in [Sold(past, l) -> Int]
           /\ IsFiniteSet(Sold(past, l)) /\ Sold(past, l) \subseteq DOMAIN past
           /\ Sold(past, l) \subseteq Standing(past, {"sale"})
<1>0. Sold(past, l) \subseteq DOMAIN past /\ IsFiniteSet(Sold(past, l))
      /\ Sold(past, l) \subseteq Standing(past, {"sale"})
  <2>1. Standing(past, {"sale"}) \subseteq DOMAIN past /\ IsFiniteSet(Standing(past, {"sale"}))
    BY StandingFacts
  <2>2. Sold(past, l) \in SUBSET Standing(past, {"sale"})
    BY DEF Sold
  <2>3. QED
    BY <2>1, <2>2, FS_Subset
<1>1. ASSUME NEW e \in Sold(past, l)
      PROVE  past[e].allocation[l].units \in Int /\ past[e].allocation[l].tax \in Int
  <2>1. past[e] \in EventRow
    BY <1>0, StandingFacts
  <2>2. past[e].allocation \in Allocations /\ l \in DOMAIN past[e].allocation
    BY <2>1, EventFacts DEF Sold
  <2>3. QED
    BY <2>2, AllocationFacts
<1>2. QED
  BY <1>0, <1>1

\* q is past with one event more.
Extends(q, past, event) ==
    past \in Seq(EventRow) /\ event \in EventRow /\ ~ event.corrected /\ q = Append(past, event)

\* q is past with its event k corrected.
Corrects(q, past, k) ==
    /\ past \in Seq(EventRow) /\ k \in DOMAIN past /\ ~ past[k].corrected
    /\ q = [past EXCEPT ![k].corrected = TRUE]

LEMMA Appended ==
    ASSUME NEW q, NEW past, NEW event, Extends(q, past, event)
    PROVE  /\ past \in Seq(EventRow) /\ event \in EventRow /\ q \in Seq(EventRow)
           /\ Len(q) = Len(past) + 1
           /\ DOMAIN q = DOMAIN past \cup {Len(q)} /\ Len(q) \notin DOMAIN past
           /\ q[Len(q)] = event /\ \A e \in DOMAIN past : q[e] = past[e] /\ e < Len(q)
<1>0. past \in Seq(EventRow) /\ event \in EventRow /\ q = Append(past, event)
  BY DEF Extends
<1>2. q \in Seq(EventRow) /\ Len(q) = Len(past) + 1
  BY <1>0
<1>1. Len(past) \in Nat /\ DOMAIN past = 1 .. Len(past)
  BY <1>0, EventsFacts
<1>3. DOMAIN q = 1 .. Len(past) + 1
  BY <1>2, EventsFacts
<1>4. QED
  BY <1>0, <1>1, <1>2, <1>3

LEMMA StandingGrows ==
    ASSUME NEW q, NEW past, NEW event, Extends(q, past, event), NEW kinds
    PROVE  /\ event.kind \in kinds => Standing(q, kinds) = Standing(past, kinds) \cup {Len(q)}
           /\ event.kind \notin kinds => Standing(q, kinds) = Standing(past, kinds)
           /\ Standing(past, kinds) \subseteq DOMAIN past
           /\ IsFiniteSet(Standing(past, kinds))
<1>1. /\ past \in Seq(EventRow) /\ DOMAIN q = DOMAIN past \cup {Len(q)} /\ Len(q) \notin DOMAIN past
      /\ q[Len(q)] = event /\ ~ event.corrected /\ \A e \in DOMAIN past : q[e] = past[e]
  BY Appended DEF Extends
<1>2. QED
  BY <1>1, StandingFacts DEF Standing

LEMMA AmountGrows ==
    ASSUME NEW q, NEW past, NEW event, Extends(q, past, event), NEW kinds
    PROVE  /\ Amount(q, kinds) = Amount(past, kinds) + (IF event.kind \in kinds THEN event.amount ELSE 0)
           /\ Amount(past, kinds) \in Int
<1> DEFINE S == Standing(past, kinds)
           T == Standing(q, kinds)
           f == [e \in S |-> past[e].amount]
           g == [e \in T |-> q[e].amount]
<1>1. past \in Seq(EventRow) /\ q \in Seq(EventRow)
  BY Appended
<1>2. /\ event.kind \in kinds => T = S \cup {Len(q)}
      /\ event.kind \notin kinds => T = S
      /\ S \subseteq DOMAIN past /\ IsFiniteSet(S)
  BY StandingGrows
<1>3. f \in [S -> Int] /\ g \in [T -> Int]
  BY <1>1, TermsFacts
<1>4. Len(q) \notin S /\ q[Len(q)] = event /\ \A e \in S : q[e] = past[e]
  BY <1>2, Appended
<1>5. \A e \in S : g[e] = f[e]
  BY <1>2, <1>4
<1>6. event.kind \in kinds => g[Len(q)] = event.amount
  BY <1>2, <1>4
<1>7. Amount(past, kinds) = SumFunction(f) /\ Amount(q, kinds) = SumFunction(g)
  BY DEF Amount
<1> HIDE DEF S, T, f, g
<1> PICK joins \in BOOLEAN : joins <=> event.kind \in kinds
  OBVIOUS
<1>8. Joins(g, T, f, S, Len(q), joins)
  BY <1>2, <1>3, <1>4, <1>5 DEF Joins
<1>9. QED
  BY <1>6, <1>7, <1>8, SumJoins

LEMMA CarryingGrows ==
    ASSUME NEW q, NEW past, NEW event, Extends(q, past, event)
    PROVE  /\ Carrying(q) = Carrying(past) + (IF event.kind = "sale" THEN event.carrying ELSE 0)
           /\ Carrying(past) \in Int
<1> DEFINE S == Standing(past, {"sale"})
           T == Standing(q, {"sale"})
           f == [e \in S |-> past[e].carrying]
           g == [e \in T |-> q[e].carrying]
<1>1. past \in Seq(EventRow) /\ q \in Seq(EventRow)
  BY Appended
<1>2. /\ event.kind = "sale" => T = S \cup {Len(q)}
      /\ event.kind # "sale" => T = S
      /\ S \subseteq DOMAIN past /\ IsFiniteSet(S)
  <2>1. /\ event.kind \in {"sale"} => T = S \cup {Len(q)}
        /\ event.kind \notin {"sale"} => T = S
        /\ S \subseteq DOMAIN past /\ IsFiniteSet(S)
    BY StandingGrows
  <2> QED
    BY <2>1
<1>3. f \in [S -> Int] /\ g \in [T -> Int]
  BY <1>1, TermsFacts
<1>4. Len(q) \notin S /\ q[Len(q)] = event /\ \A e \in S : q[e] = past[e]
  BY <1>2, Appended
<1>5. \A e \in S : g[e] = f[e]
  BY <1>2, <1>4
<1>6. event.kind = "sale" => g[Len(q)] = event.carrying
  BY <1>2, <1>4
<1>7. Carrying(past) = SumFunction(f) /\ Carrying(q) = SumFunction(g)
  BY DEF Carrying
<1> HIDE DEF S, T, f, g
<1> PICK joins \in BOOLEAN : joins <=> event.kind = "sale"
  OBVIOUS
<1>8. Joins(g, T, f, S, Len(q), joins)
  BY <1>2, <1>3, <1>4, <1>5 DEF Joins
<1>9. QED
  BY <1>6, <1>7, <1>8, SumJoins

\* The event took something from lot l.
Takes(event, l) == event.kind = "sale" /\ l \in DOMAIN event.allocation

LEMMA SoldGrows ==
    ASSUME NEW q, NEW past, NEW event, Extends(q, past, event), NEW l
    PROVE  /\ SoldUnits(q, l) = SoldUnits(past, l)
                                 + (IF Takes(event, l) THEN event.allocation[l].units ELSE 0)
           /\ SoldTax(q, l) = SoldTax(past, l)
                                 + (IF Takes(event, l) THEN event.allocation[l].tax ELSE 0)
           /\ SoldUnits(past, l) \in Int /\ SoldTax(past, l) \in Int
<1> DEFINE S == Sold(past, l)
           T == Sold(q, l)
           f == [e \in S |-> past[e].allocation[l].units]
           g == [e \in T |-> q[e].allocation[l].units]
           v == [e \in S |-> past[e].allocation[l].tax]
           w == [e \in T |-> q[e].allocation[l].tax]
<1>1. past \in Seq(EventRow) /\ q \in Seq(EventRow)
  BY Appended
<1>2. /\ f \in [S -> Int] /\ g \in [T -> Int] /\ v \in [S -> Int] /\ w \in [T -> Int]
      /\ IsFiniteSet(S) /\ S \subseteq DOMAIN past
  BY <1>1, SoldFacts
<1>3. Len(q) \notin S /\ q[Len(q)] = event /\ \A e \in S : q[e] = past[e]
  BY <1>2, Appended
<1>4. /\ Takes(event, l) => T = S \cup {Len(q)}
      /\ ~ Takes(event, l) => T = S
  <2>1. \A e \in Standing(past, {"sale"}) : q[e] = past[e]
    BY <1>1, StandingFacts, Appended
  <2>2. CASE event.kind = "sale"
    <3>1. event.kind \in {"sale"}
      BY <2>2
    <3>2. Standing(q, {"sale"}) = Standing(past, {"sale"}) \cup {Len(q)}
      BY <3>1, StandingGrows
    <3>3. QED
      BY <1>3, <2>1, <2>2, <3>2 DEF Sold, Takes
  <2>3. CASE event.kind # "sale"
    <3>1. event.kind \notin {"sale"}
      BY <2>3
    <3>2. Standing(q, {"sale"}) = Standing(past, {"sale"})
      BY <3>1, StandingGrows
    <3>3. QED
      BY <2>1, <2>3, <3>2 DEF Sold, Takes
  <2>4. QED
    BY <2>2, <2>3
<1>5. \A e \in S : g[e] = f[e] /\ w[e] = v[e]
  BY <1>3, <1>4
<1>6. Takes(event, l) => g[Len(q)] = event.allocation[l].units /\ w[Len(q)] = event.allocation[l].tax
  BY <1>3, <1>4
<1>7. /\ SoldUnits(past, l) = SumFunction(f) /\ SoldUnits(q, l) = SumFunction(g)
      /\ SoldTax(past, l) = SumFunction(v) /\ SoldTax(q, l) = SumFunction(w)
  BY DEF SoldUnits, SoldTax
<1> HIDE DEF S, T, f, g, v, w
<1> PICK joins \in BOOLEAN : joins <=> Takes(event, l)
  OBVIOUS
<1>8. Joins(g, T, f, S, Len(q), joins) /\ Joins(w, T, v, S, Len(q), joins)
  BY <1>2, <1>3, <1>4, <1>5 DEF Joins
<1>9. QED
  BY <1>6, <1>7, <1>8, SumJoins

LEMMA Corrected ==
    ASSUME NEW q, NEW past, NEW k, Corrects(q, past, k)
    PROVE  /\ past \in Seq(EventRow) /\ k \in DOMAIN past /\ ~ past[k].corrected
           /\ q \in Seq(EventRow) /\ Len(q) = Len(past) /\ DOMAIN q = DOMAIN past
           /\ \A e \in DOMAIN past :
                 /\ q[e].kind = past[e].kind /\ q[e].amount = past[e].amount
                 /\ q[e].carrying = past[e].carrying /\ q[e].allocation = past[e].allocation
                 /\ q[e].corrected = (past[e].corrected \/ e = k)
<1>0. past \in Seq(EventRow) /\ k \in DOMAIN past /\ ~ past[k].corrected
      /\ q = [past EXCEPT ![k].corrected = TRUE]
  BY DEF Corrects
<1>1. DOMAIN past = 1 .. Len(past) /\ \A e \in DOMAIN past : past[e] \in EventRow
  BY <1>0, EventsFacts
<1> DEFINE event == [past[k] EXCEPT !.corrected = TRUE]
<1>2. /\ event \in EventRow /\ event.corrected = TRUE
      /\ event.kind = past[k].kind /\ event.amount = past[k].amount
      /\ event.carrying = past[k].carrying /\ event.allocation = past[k].allocation
  BY <1>0, <1>1 DEF EventRow
<1>3. q = [past EXCEPT ![k] = event]
  BY <1>0
<1> HIDE DEF event
<1>4. /\ q \in Seq(EventRow) /\ Len(q) = Len(past)
      /\ \A e \in 1 .. Len(past) : q[e] = IF e = k THEN event ELSE past[e]
  <2>1. past \in [1 .. Len(past) -> EventRow] /\ k \in 1 .. Len(past) /\ Len(past) \in Nat
    BY <1>0, <1>1, LenProperties
  <2>2. q \in [1 .. Len(past) -> EventRow]
        /\ \A e \in 1 .. Len(past) : q[e] = IF e = k THEN event ELSE past[e]
    BY <1>2, <1>3, <2>1
  <2>3. q \in Seq(EventRow) /\ Len(q) = Len(past)
    BY <2>1, <2>2, LenProperties
  <2>4. QED
    BY <2>2, <2>3
<1>5. DOMAIN q = DOMAIN past
  BY <1>1, <1>4, EventsFacts
<1>6. \A e \in DOMAIN past : past[e].corrected \in BOOLEAN
  BY <1>1, EventFacts
<1>7. ASSUME NEW e \in DOMAIN past
      PROVE  /\ q[e].kind = past[e].kind /\ q[e].amount = past[e].amount
             /\ q[e].carrying = past[e].carrying /\ q[e].allocation = past[e].allocation
             /\ q[e].corrected = (past[e].corrected \/ e = k)
  <2>1. q[e] = IF e = k THEN event ELSE past[e]
    BY <1>1, <1>4
  <2>2. CASE e = k
    BY <1>2, <2>1, <2>2
  <2>3. CASE e # k
    BY <1>6, <2>1, <2>3
  <2>4. QED
    BY <2>2, <2>3
<1>8. QED
  BY <1>0, <1>4, <1>5, <1>7

LEMMA StandingFalls ==
    ASSUME NEW q, NEW past, NEW k, Corrects(q, past, k), NEW kinds
    PROVE  /\ Standing(q, kinds) = Standing(past, kinds) \ {k}
           /\ Standing(past, kinds) \subseteq DOMAIN past
           /\ IsFiniteSet(Standing(past, kinds))
<1>1. past \in Seq(EventRow) /\ DOMAIN q = DOMAIN past
      /\ \A e \in DOMAIN past : q[e].kind = past[e].kind /\ q[e].corrected = (past[e].corrected \/ e = k)
  BY Corrected
<1>2. QED
  BY <1>1, StandingFacts DEF Standing

LEMMA AmountFalls ==
    ASSUME NEW q, NEW past, NEW k, Corrects(q, past, k), NEW kinds
    PROVE  /\ Amount(q, kinds) = Amount(past, kinds) - (IF past[k].kind \in kinds THEN past[k].amount ELSE 0)
           /\ Amount(past, kinds) \in Int
<1> DEFINE S == Standing(past, kinds)
           T == Standing(q, kinds)
           f == [e \in S |-> past[e].amount]
           g == [e \in T |-> q[e].amount]
<1>1. past \in Seq(EventRow) /\ q \in Seq(EventRow)
  BY Corrected
<1>2. T = S \ {k} /\ S \subseteq DOMAIN past /\ IsFiniteSet(S)
  BY StandingFalls
<1>3. f \in [S -> Int] /\ g \in [T -> Int]
  BY <1>1, TermsFacts
<1>4. \A e \in T : g[e] = f[e]
  BY <1>2, Corrected
<1>5. k \in S <=> past[k].kind \in kinds
  BY Corrected DEF Standing
<1>6. k \in S => f[k] = past[k].amount
  OBVIOUS
<1>7. Amount(past, kinds) = SumFunction(f) /\ Amount(q, kinds) = SumFunction(g)
  BY DEF Amount
<1> HIDE DEF S, T, f, g
<1>8. Leaves(g, T, f, S, k)
  BY <1>2, <1>3, <1>4 DEF Leaves
<1>9. QED
  BY <1>5, <1>6, <1>7, <1>8, SumLeaves

LEMMA CarryingFalls ==
    ASSUME NEW q, NEW past, NEW k, Corrects(q, past, k)
    PROVE  /\ Carrying(q) = Carrying(past) - (IF past[k].kind = "sale" THEN past[k].carrying ELSE 0)
           /\ Carrying(past) \in Int
<1> DEFINE S == Standing(past, {"sale"})
           T == Standing(q, {"sale"})
           f == [e \in S |-> past[e].carrying]
           g == [e \in T |-> q[e].carrying]
<1>1. past \in Seq(EventRow) /\ q \in Seq(EventRow)
  BY Corrected
<1>2. T = S \ {k} /\ S \subseteq DOMAIN past /\ IsFiniteSet(S)
  BY StandingFalls
<1>3. f \in [S -> Int] /\ g \in [T -> Int]
  BY <1>1, TermsFacts
<1>4. \A e \in T : g[e] = f[e]
  BY <1>2, Corrected
<1>5. k \in S <=> past[k].kind = "sale"
  BY Corrected DEF Standing
<1>6. k \in S => f[k] = past[k].carrying
  OBVIOUS
<1>7. Carrying(past) = SumFunction(f) /\ Carrying(q) = SumFunction(g)
  BY DEF Carrying
<1> HIDE DEF S, T, f, g
<1>8. Leaves(g, T, f, S, k)
  BY <1>2, <1>3, <1>4 DEF Leaves
<1>9. QED
  BY <1>5, <1>6, <1>7, <1>8, SumLeaves

LEMMA SoldFalls ==
    ASSUME NEW q, NEW past, NEW k, Corrects(q, past, k), NEW l
    PROVE  /\ SoldUnits(q, l) = SoldUnits(past, l)
                                 - (IF Takes(past[k], l) THEN past[k].allocation[l].units ELSE 0)
           /\ SoldTax(q, l) = SoldTax(past, l)
                                 - (IF Takes(past[k], l) THEN past[k].allocation[l].tax ELSE 0)
           /\ SoldUnits(past, l) \in Int /\ SoldTax(past, l) \in Int
<1> DEFINE S == Sold(past, l)
           T == Sold(q, l)
           f == [e \in S |-> past[e].allocation[l].units]
           g == [e \in T |-> q[e].allocation[l].units]
           v == [e \in S |-> past[e].allocation[l].tax]
           w == [e \in T |-> q[e].allocation[l].tax]
<1>1. past \in Seq(EventRow) /\ q \in Seq(EventRow)
  BY Corrected
<1>2. /\ f \in [S -> Int] /\ g \in [T -> Int] /\ v \in [S -> Int] /\ w \in [T -> Int]
      /\ IsFiniteSet(S) /\ S \subseteq DOMAIN past
  BY <1>1, SoldFacts
<1>3. \A e \in DOMAIN past : q[e].allocation = past[e].allocation
  BY Corrected
<1>4. T = S \ {k}
  <2>1. /\ Standing(q, {"sale"}) = Standing(past, {"sale"}) \ {k}
        /\ Standing(past, {"sale"}) \subseteq DOMAIN past
    BY StandingFalls
  <2>2. QED
    BY <1>3, <2>1 DEF Sold
<1>5. \A e \in T : g[e] = f[e] /\ w[e] = v[e]
  BY <1>2, <1>3, <1>4
<1>6. k \in S <=> Takes(past[k], l)
  BY Corrected DEF Standing, Sold, Takes
<1>7. k \in S => f[k] = past[k].allocation[l].units /\ v[k] = past[k].allocation[l].tax
  OBVIOUS
<1>8. /\ SoldUnits(past, l) = SumFunction(f) /\ SoldUnits(q, l) = SumFunction(g)
      /\ SoldTax(past, l) = SumFunction(v) /\ SoldTax(q, l) = SumFunction(w)
  BY DEF SoldUnits, SoldTax
<1> HIDE DEF S, T, f, g, v, w
<1>9. Leaves(g, T, f, S, k) /\ Leaves(w, T, v, S, k)
  BY <1>2, <1>4, <1>5 DEF Leaves
<1>10. QED
  BY <1>6, <1>7, <1>8, <1>9, SumLeaves

-----------------------------------------------------------------------------
(* The sums over a position's lots. *)

LEMMA LotFacts ==
    ASSUME NEW D, NEW lots \in [D -> Lot]
    PROVE  /\ DOMAIN lots = D
           /\ \A l \in D : /\ lots[l].day \in Days /\ lots[l].count \in Nat /\ lots[l].cost \in Nat
                           /\ lots[l].units \in Nat /\ lots[l].book \in Nat /\ lots[l].tax \in Nat
<1>1. Counts \subseteq Nat
  BY AmountsAssumption
<1>2. ASSUME NEW l \in D
      PROVE  /\ lots[l].day \in Days /\ lots[l].count \in Nat /\ lots[l].cost \in Nat
             /\ lots[l].units \in Nat /\ lots[l].book \in Nat /\ lots[l].tax \in Nat
  BY <1>1 DEF Lot
<1>3. QED
  BY <1>2

\* What lots (or parts of them) come to.
LEMMA SumsAre ==
    ASSUME NEW D, IsFiniteSet(D), NEW lots, DOMAIN lots = D,
           \A l \in D : lots[l].units \in Nat /\ lots[l].book \in Nat /\ lots[l].tax \in Nat
    PROVE  Units(lots, D) \in Nat /\ Book(lots, D) \in Nat /\ Tax(lots, D) \in Nat
<1>1. Units(lots, D) \in Nat
  BY SumNat DEF Units
<1>2. Book(lots, D) \in Nat
  BY SumNat DEF Book
<1>3. Tax(lots, D) \in Nat
  BY SumNat DEF Tax
<1>4. QED
  BY <1>1, <1>2, <1>3

\* The lots of more are those of fewer with the parts of a allocation added.
Moves(more, fewer, a, D, A) ==
    /\ IsFiniteSet(D) /\ A \subseteq D /\ a \in [A -> Part]
    /\ DOMAIN more = D /\ DOMAIN fewer = D
    /\ \A l \in D :
          /\ fewer[l].units \in Int /\ fewer[l].book \in Int /\ fewer[l].tax \in Int
          /\ more[l].units = IF l \in A THEN fewer[l].units + a[l].units ELSE fewer[l].units
          /\ more[l].book = IF l \in A THEN fewer[l].book + a[l].book ELSE fewer[l].book
          /\ more[l].tax = IF l \in A THEN fewer[l].tax + a[l].tax ELSE fewer[l].tax

LEMMA MovesSums ==
    ASSUME NEW more, NEW fewer, NEW a, NEW D, NEW A, Moves(more, fewer, a, D, A)
    PROVE  /\ Units(more, D) = Units(fewer, D) + Units(a, A)
           /\ Book(more, D) = Book(fewer, D) + Book(a, A)
           /\ Tax(more, D) = Tax(fewer, D) + Tax(a, A)
           /\ {Units(fewer, D), Book(fewer, D), Tax(fewer, D)} \subseteq Int
           /\ {Units(a, A), Book(a, A), Tax(a, A)} \subseteq Int
<1>0. IsFiniteSet(D) /\ A \in SUBSET D
  BY DEF Moves
<1>1. Units(more, D) = Units(fewer, D) + Units(a, A) /\ Units(fewer, D) \in Int /\ Units(a, A) \in Int
  <2> DEFINE f == [l \in DOMAIN fewer |-> fewer[l].units]
             g == [l \in DOMAIN more |-> more[l].units]
             h == [l \in DOMAIN a |-> a[l].units]
  <2>1. /\ \A x \in D : f[x] \in Int
        /\ \A x \in A : h[x] \in Int
        /\ \A x \in D : g[x] = IF x \in A THEN f[x] + h[x] ELSE f[x]
    BY DEF Moves, Part
  <2>2. Units(more, D) = SumFunctionOnSet(g, D) /\ Units(fewer, D) = SumFunctionOnSet(f, D)
        /\ Units(a, A) = SumFunctionOnSet(h, A)
    BY DEF Units
  <2> HIDE DEF f, g, h
  <2>3. QED
    BY <1>0, <2>1, <2>2, SumPart
<1>2. Book(more, D) = Book(fewer, D) + Book(a, A) /\ Book(fewer, D) \in Int /\ Book(a, A) \in Int
  <2> DEFINE f == [l \in DOMAIN fewer |-> fewer[l].book]
             g == [l \in DOMAIN more |-> more[l].book]
             h == [l \in DOMAIN a |-> a[l].book]
  <2>1. /\ \A x \in D : f[x] \in Int
        /\ \A x \in A : h[x] \in Int
        /\ \A x \in D : g[x] = IF x \in A THEN f[x] + h[x] ELSE f[x]
    BY DEF Moves, Part
  <2>2. Book(more, D) = SumFunctionOnSet(g, D) /\ Book(fewer, D) = SumFunctionOnSet(f, D)
        /\ Book(a, A) = SumFunctionOnSet(h, A)
    BY DEF Book
  <2> HIDE DEF f, g, h
  <2>3. QED
    BY <1>0, <2>1, <2>2, SumPart
<1>3. Tax(more, D) = Tax(fewer, D) + Tax(a, A) /\ Tax(fewer, D) \in Int /\ Tax(a, A) \in Int
  <2> DEFINE f == [l \in DOMAIN fewer |-> fewer[l].tax]
             g == [l \in DOMAIN more |-> more[l].tax]
             h == [l \in DOMAIN a |-> a[l].tax]
  <2>1. /\ \A x \in D : f[x] \in Int
        /\ \A x \in A : h[x] \in Int
        /\ \A x \in D : g[x] = IF x \in A THEN f[x] + h[x] ELSE f[x]
    BY DEF Moves, Part
  <2>2. Tax(more, D) = SumFunctionOnSet(g, D) /\ Tax(fewer, D) = SumFunctionOnSet(f, D)
        /\ Tax(a, A) = SumFunctionOnSet(h, A)
    BY DEF Tax
  <2> HIDE DEF f, g, h
  <2>3. QED
    BY <1>0, <2>1, <2>2, SumPart
<1>4. QED
  BY <1>1, <1>2, <1>3

\* more has one lot that fewer has not.
Adjoins(more, fewer, E, D, l) ==
    /\ IsFiniteSet(D) /\ l \notin D /\ E = D \cup {l}
    /\ more \in [E -> Lot] /\ fewer \in [D -> Lot] /\ \A m \in D : more[m] = fewer[m]

LEMMA BoughtSums ==
    ASSUME NEW more, NEW fewer, NEW E, NEW D, NEW l, Adjoins(more, fewer, E, D, l)
    PROVE  /\ Units(more, E) = Units(fewer, D) + more[l].units
           /\ Book(more, E) = Book(fewer, D) + more[l].book
           /\ Tax(more, E) = Tax(fewer, D) + more[l].tax
<1>0. /\ IsFiniteSet(D) /\ l \notin D /\ E = D \cup {l}
      /\ more \in [E -> Lot] /\ fewer \in [D -> Lot] /\ \A m \in D : more[m] = fewer[m]
  BY DEF Adjoins
<1>1. \A m \in E : more[m].units \in Int /\ more[m].book \in Int /\ more[m].tax \in Int
  BY <1>0, LotFacts
<1>2. Units(more, E) = Units(fewer, D) + more[l].units
  <2> DEFINE f == [m \in DOMAIN fewer |-> fewer[m].units]
             g == [m \in DOMAIN more |-> more[m].units]
  <2>1. /\ \A m \in D \cup {l} : g[m] \in Int
        /\ \A m \in D : f[m] = g[m]
        /\ g[l] = more[l].units
    BY <1>0, <1>1
  <2>2. Units(more, E) = SumFunctionOnSet(g, D \cup {l}) /\ Units(fewer, D) = SumFunctionOnSet(f, D)
    BY <1>0 DEF Units
  <2> HIDE DEF f, g
  <2>3. SumFunctionOnSet(f, D) = SumFunctionOnSet(g, D)
    BY <1>0, <2>1, SumAgree
  <2>4. SumFunctionOnSet(g, D \cup {l}) = SumFunctionOnSet(g, D) + g[l]
    BY <1>0, <2>1, SumAdd
  <2>5. QED
    BY <1>0, <2>1, <2>2, <2>3, <2>4
<1>3. Book(more, E) = Book(fewer, D) + more[l].book
  <2> DEFINE f == [m \in DOMAIN fewer |-> fewer[m].book]
             g == [m \in DOMAIN more |-> more[m].book]
  <2>1. /\ \A m \in D \cup {l} : g[m] \in Int
        /\ \A m \in D : f[m] = g[m]
        /\ g[l] = more[l].book
    BY <1>0, <1>1
  <2>2. Book(more, E) = SumFunctionOnSet(g, D \cup {l}) /\ Book(fewer, D) = SumFunctionOnSet(f, D)
    BY <1>0 DEF Book
  <2> HIDE DEF f, g
  <2>3. SumFunctionOnSet(f, D) = SumFunctionOnSet(g, D)
    BY <1>0, <2>1, SumAgree
  <2>4. SumFunctionOnSet(g, D \cup {l}) = SumFunctionOnSet(g, D) + g[l]
    BY <1>0, <2>1, SumAdd
  <2>5. QED
    BY <1>0, <2>1, <2>2, <2>3, <2>4
<1>4. Tax(more, E) = Tax(fewer, D) + more[l].tax
  <2> DEFINE f == [m \in DOMAIN fewer |-> fewer[m].tax]
             g == [m \in DOMAIN more |-> more[m].tax]
  <2>1. /\ \A m \in D \cup {l} : g[m] \in Int
        /\ \A m \in D : f[m] = g[m]
        /\ g[l] = more[l].tax
    BY <1>0, <1>1
  <2>2. Tax(more, E) = SumFunctionOnSet(g, D \cup {l}) /\ Tax(fewer, D) = SumFunctionOnSet(f, D)
    BY <1>0 DEF Tax
  <2> HIDE DEF f, g
  <2>3. SumFunctionOnSet(f, D) = SumFunctionOnSet(g, D)
    BY <1>0, <2>1, SumAgree
  <2>4. SumFunctionOnSet(g, D \cup {l}) = SumFunctionOnSet(g, D) + g[l]
    BY <1>0, <2>1, SumAdd
  <2>5. QED
    BY <1>0, <2>1, <2>2, <2>3, <2>4
<1>5. QED
  BY <1>2, <1>3, <1>4

-----------------------------------------------------------------------------
(* The invariant, as a relation between a position, the events, the ledger's   *)
(* balances, what the measurement changed and what settlements paid and received. *)

Known(held, past) ==
    /\ past \in Seq(EventRow)
    /\ held.lots \in [DOMAIN held.lots -> Lot]
    /\ DOMAIN held.lots = {e \in DOMAIN past : past[e].kind = "purchase"}
    /\ LotChecks(held.lots)
    /\ \A l \in DOMAIN held.lots : held.lots[l].cost = past[l].amount
    /\ \A e \in DOMAIN past : past[e].kind # "purchase" =>
          /\ DOMAIN past[e].allocation \subseteq DOMAIN held.lots
          /\ past[e].carrying = Book(past[e].allocation, DOMAIN past[e].allocation)
    /\ \A e \in DOMAIN past : past[e].kind = "income" => DOMAIN past[e].allocation = {}

\* What is left of a lot and what was sold of it are what was bought and stands.
Traced(held, past) ==
    \A l \in DOMAIN held.lots :
        /\ held.lots[l].units + SoldUnits(past, l) = IF past[l].corrected THEN 0 ELSE held.lots[l].count
        /\ held.lots[l].tax + SoldTax(past, l) = IF past[l].corrected THEN 0 ELSE held.lots[l].cost

Valued(held, past, change) ==
    held.book = Amount(past, {"purchase"}) + change - Carrying(past)

\* The ledger, when settlements paid `paid` and received `received`.
Booked(held, past, balances, paid, received) ==
    /\ balances \in [Accounts -> Int]
    /\ balances["investment"] = held.book
    /\ balances["payable"] = paid - Amount(past, {"purchase"})
    /\ balances["receivable"] = Amount(past, {"sale", "income"}) - received
    /\ balances["bank"] = received - paid

Sound(held, past, balances, change, paid, received) ==
    /\ Known(held, past) /\ Traced(held, past) /\ InStep(held)
    /\ Valued(held, past, change) /\ Booked(held, past, balances, paid, received)
    /\ change \in Int /\ paid \in Int /\ received \in Int

LEMMA KnownFacts ==
    ASSUME NEW held, NEW past, Known(held, past)
    PROVE  /\ past \in Seq(EventRow) /\ DOMAIN held.lots \subseteq DOMAIN past
           /\ IsFiniteSet(DOMAIN held.lots) /\ IsFiniteSet(DOMAIN past)
           /\ \A l \in DOMAIN held.lots : held.lots[l] \in Lot
<1>1. past \in Seq(EventRow) /\ DOMAIN held.lots \in SUBSET DOMAIN past
      /\ \A l \in DOMAIN held.lots : held.lots[l] \in Lot
  BY DEF Known
<1>2. QED
  BY <1>1, EventsFacts, FS_Subset

\* What a recognized event does to the ledger.
BooksMove(after, before, event, sign) ==
    /\ after \in [Accounts -> Int]
    /\ after["investment"] = before["investment"]
          + sign * (IF event.kind = "purchase" THEN event.amount
                    ELSE IF event.kind = "sale" THEN -event.carrying ELSE 0)
    /\ after["payable"] = before["payable"]
          + sign * (IF event.kind = "purchase" THEN -event.amount ELSE 0)
    /\ after["receivable"] = before["receivable"]
          + sign * (IF event.kind = "purchase" THEN 0 ELSE event.amount)
    /\ after["bank"] = before["bank"]

LEMMA RecognitionMoves ==
    ASSUME NEW event \in EventRow, NEW before \in [Accounts -> Int]
    PROVE  /\ BooksMove(Posted(before, Recognition(event)), before, event, 1)
           /\ BooksMove(Reversed(before, Recognition(event)), before, event, -1)
<1>1. event.kind \in Kind /\ event.amount \in Int /\ event.carrying \in Int
  BY EventFacts
<1> PICK j : j = Recognition(event)
  OBVIOUS
<1>2. /\ j \in [Accounts -> Int]
      /\ j["investment"] = IF event.kind = "purchase" THEN event.amount
                           ELSE IF event.kind = "sale" THEN -event.carrying ELSE 0
      /\ j["payable"] = IF event.kind = "purchase" THEN -event.amount ELSE 0
      /\ j["receivable"] = IF event.kind = "purchase" THEN 0 ELSE event.amount
      /\ j["bank"] = 0
  BY <1>1, RecognitionAt
<1>3. /\ Posted(before, j) \in [Accounts -> Int] /\ Reversed(before, j) \in [Accounts -> Int]
      /\ \A a \in Accounts : Posted(before, j)[a] = before[a] + j[a]
                             /\ Reversed(before, j)[a] = before[a] - j[a]
      /\ {"investment", "payable", "receivable", "bank"} \subseteq Accounts
  BY <1>2, PostedAt
<1>4. BooksMove(Posted(before, j), before, event, 1)
  BY <1>1, <1>2, <1>3 DEF BooksMove
<1>5. BooksMove(Reversed(before, j), before, event, -1)
  BY <1>1, <1>2, <1>3 DEF BooksMove
<1>6. QED
  BY <1>4, <1>5

LEMMA Kinds ==
    ASSUME NEW kind \in Kind
    PROVE  /\ kind \in {"purchase"} <=> kind = "purchase"
           /\ kind \in {"sale", "income"} <=> kind # "purchase"
BY DEF Kind

\* An event is appended, or one corrected: the ledger's open balances follow, and what
\* the position is worth moves with its account.
LEMMA BookedGrows ==
    ASSUME NEW held, NEW past, NEW balances, NEW change, NEW paid, NEW received,
           Sound(held, past, balances, change, paid, received),
           NEW q, NEW event, Extends(q, past, event),
           NEW after, BooksMove(after, balances, event, 1),
           NEW new, new.book = held.book + (IF event.kind = "purchase" THEN event.amount
                                            ELSE IF event.kind = "sale" THEN -event.carrying ELSE 0)
    PROVE  Booked(new, q, after, paid, received) /\ Valued(new, q, change)
<1>0. event \in EventRow
  BY Appended
<1>1. /\ event.kind \in Kind /\ event.amount \in Int /\ event.carrying \in Int
  BY <1>0, EventFacts
<1>2. /\ Amount(q, {"purchase"})
           = Amount(past, {"purchase"}) + (IF event.kind = "purchase" THEN event.amount ELSE 0)
      /\ Amount(past, {"purchase"}) \in Int
  BY <1>1, AmountGrows, Kinds
<1>3. /\ Amount(q, {"sale", "income"})
           = Amount(past, {"sale", "income"}) + (IF event.kind = "purchase" THEN 0 ELSE event.amount)
      /\ Amount(past, {"sale", "income"}) \in Int
  <2>1. /\ Amount(q, {"sale", "income"})
             = Amount(past, {"sale", "income"}) + (IF event.kind \in {"sale", "income"} THEN event.amount ELSE 0)
        /\ Amount(past, {"sale", "income"}) \in Int
    BY AmountGrows
  <2>2. QED
    BY <1>1, <2>1, Kinds
<1>4. /\ Carrying(q) = Carrying(past) + (IF event.kind = "sale" THEN event.carrying ELSE 0)
      /\ Carrying(past) \in Int
  BY CarryingGrows
<1>5. /\ balances \in [Accounts -> Int] /\ paid \in Int /\ received \in Int /\ change \in Int
      /\ balances["investment"] = held.book
      /\ balances["payable"] = paid - Amount(past, {"purchase"})
      /\ balances["receivable"] = Amount(past, {"sale", "income"}) - received
      /\ balances["bank"] = received - paid
      /\ held.book = Amount(past, {"purchase"}) + change - Carrying(past)
  BY DEF Sound, Booked, Valued
<1>6. CASE event.kind = "purchase"
  BY <1>1, <1>2, <1>3, <1>4, <1>5, <1>6 DEF BooksMove, Booked, Valued
<1>7. CASE event.kind = "sale"
  BY <1>1, <1>2, <1>3, <1>4, <1>5, <1>7 DEF BooksMove, Booked, Valued
<1>8. CASE event.kind = "income"
  BY <1>1, <1>2, <1>3, <1>4, <1>5, <1>8 DEF BooksMove, Booked, Valued
<1>9. QED
  BY <1>1, <1>6, <1>7, <1>8 DEF Kind

LEMMA BookedFalls ==
    ASSUME NEW held, NEW past, NEW balances, NEW change, NEW paid, NEW received,
           Sound(held, past, balances, change, paid, received),
           NEW q, NEW k, Corrects(q, past, k),
           NEW after, BooksMove(after, balances, past[k], -1),
           NEW new, new.book = held.book - (IF past[k].kind = "purchase" THEN past[k].amount
                                            ELSE IF past[k].kind = "sale" THEN -past[k].carrying ELSE 0)
    PROVE  Booked(new, q, after, paid, received) /\ Valued(new, q, change)
<1>1. /\ past[k].kind \in Kind /\ past[k].amount \in Int /\ past[k].carrying \in Int
  BY Corrected, EventsFacts, EventFacts
<1>2. /\ Amount(q, {"purchase"})
           = Amount(past, {"purchase"}) - (IF past[k].kind = "purchase" THEN past[k].amount ELSE 0)
      /\ Amount(past, {"purchase"}) \in Int
  BY <1>1, AmountFalls, Kinds
<1>3. /\ Amount(q, {"sale", "income"})
           = Amount(past, {"sale", "income"}) - (IF past[k].kind = "purchase" THEN 0 ELSE past[k].amount)
      /\ Amount(past, {"sale", "income"}) \in Int
  <2>1. /\ Amount(q, {"sale", "income"})
             = Amount(past, {"sale", "income"}) - (IF past[k].kind \in {"sale", "income"} THEN past[k].amount ELSE 0)
        /\ Amount(past, {"sale", "income"}) \in Int
    BY AmountFalls
  <2>2. QED
    BY <1>1, <2>1, Kinds
<1>4. /\ Carrying(q) = Carrying(past) - (IF past[k].kind = "sale" THEN past[k].carrying ELSE 0)
      /\ Carrying(past) \in Int
  BY CarryingFalls
<1>5. /\ balances \in [Accounts -> Int] /\ paid \in Int /\ received \in Int /\ change \in Int
      /\ balances["investment"] = held.book
      /\ balances["payable"] = paid - Amount(past, {"purchase"})
      /\ balances["receivable"] = Amount(past, {"sale", "income"}) - received
      /\ balances["bank"] = received - paid
      /\ held.book = Amount(past, {"purchase"}) + change - Carrying(past)
  BY DEF Sound, Booked, Valued
<1>6. CASE past[k].kind = "purchase"
  BY <1>1, <1>2, <1>3, <1>4, <1>5, <1>6 DEF BooksMove, Booked, Valued
<1>7. CASE past[k].kind = "sale"
  BY <1>1, <1>2, <1>3, <1>4, <1>5, <1>7 DEF BooksMove, Booked, Valued
<1>8. CASE past[k].kind = "income"
  BY <1>1, <1>2, <1>3, <1>4, <1>5, <1>8 DEF BooksMove, Booked, Valued
<1>9. QED
  BY <1>1, <1>6, <1>7, <1>8 DEF Kind

-----------------------------------------------------------------------------
(* Recognized events keep the invariant. *)

LEMMA NothingSold ==
    ASSUME NEW held, NEW past, Known(held, past), NEW l, l \notin DOMAIN held.lots
    PROVE  SoldUnits(past, l) = 0 /\ SoldTax(past, l) = 0
<1>1. Sold(past, l) = {}
  BY DEF Known, Sold, Standing
<1> DEFINE f == [e \in Sold(past, l) |-> past[e].allocation[l].units]
           v == [e \in Sold(past, l) |-> past[e].allocation[l].tax]
<1>2. f \in [{} -> Int] /\ v \in [{} -> Int]
  BY <1>1
<1>3. SoldUnits(past, l) = SumFunction(f) /\ SoldTax(past, l) = SumFunction(v)
  BY DEF SoldUnits, SoldTax
<1> HIDE DEF f, v
<1>4. QED
  BY <1>2, <1>3, SumSmall

LEMMA AmountsAre ==
    ASSUME NEW cost \in Costs \cup Proceeds \cup Incomes
    PROVE  cost * Scale \in Nat
<1>1. cost \in Nat /\ Scale \in Nat
  BY AmountsAssumption
<1>2. QED
  BY <1>1

LEMMA NewEvents ==
    ASSUME NEW kind \in Kind, NEW amount \in Nat, NEW carrying \in Nat, NEW a \in Allocations
    PROVE  LET event == Event(kind, amount, carrying, a) IN
           /\ event \in EventRow /\ ~ event.corrected
           /\ event.kind = kind /\ event.amount = amount /\ event.carrying = carrying
           /\ event.allocation = a
BY DEF Event, EventRow

LEMMA NothingAllocated ==
    NoAllocation \in Allocations /\ DOMAIN NoAllocation = {} /\ Book(NoAllocation, {}) = 0
<1>1. NoAllocation \in [{} -> Part] /\ DOMAIN NoAllocation = {} /\ {} \in SUBSET Nat
  BY DEF NoAllocation
<1>2. NoAllocation \in Allocations
  BY <1>1 DEF Allocations
<1>3. Book(NoAllocation, {}) = 0
  BY SumEmpty DEF Book
<1>4. QED
  BY <1>1, <1>2, <1>3

\* The event takes from the lots there are, if at all.
Uses(event, held) ==
    /\ event.kind # "purchase"
    /\ DOMAIN event.allocation \subseteq DOMAIN held.lots
    /\ event.carrying = Book(event.allocation, DOMAIN event.allocation)
    /\ event.kind = "income" => DOMAIN event.allocation = {}

\* new has held's lots, with other parts of them left.
SameLots(new, held) ==
    /\ new.lots \in [DOMAIN held.lots -> Lot] /\ LotChecks(new.lots)
    /\ \A l \in DOMAIN held.lots : new.lots[l].cost = held.lots[l].cost
                                   /\ new.lots[l].count = held.lots[l].count

LEMMA KnownGrows ==
    ASSUME NEW held, NEW past, Known(held, past),
           NEW q, NEW event, Extends(q, past, event), Uses(event, held),
           NEW new, SameLots(new, held)
    PROVE  Known(new, q)
<1>1. /\ q \in Seq(EventRow)
      /\ DOMAIN q = DOMAIN past \cup {Len(q)} /\ Len(q) \notin DOMAIN past
      /\ q[Len(q)] = event /\ \A e \in DOMAIN past : q[e] = past[e]
  BY Appended
<1>2. DOMAIN new.lots = DOMAIN held.lots
  BY DEF SameLots
<1>3. DOMAIN held.lots = {e \in DOMAIN q : q[e].kind = "purchase"}
  BY <1>1 DEF Known, Uses
<1>4. \A l \in DOMAIN held.lots : l \in DOMAIN past /\ q[l] = past[l] /\ new.lots[l].cost = q[l].amount
  BY <1>1 DEF Known, SameLots
<1>5. ASSUME NEW e \in DOMAIN q
      PROVE  /\ q[e].kind # "purchase" =>
                   /\ DOMAIN q[e].allocation \subseteq DOMAIN held.lots
                   /\ q[e].carrying = Book(q[e].allocation, DOMAIN q[e].allocation)
             /\ q[e].kind = "income" => DOMAIN q[e].allocation = {}
  <2>1. CASE e = Len(q)
    BY <1>1, <2>1 DEF Uses
  <2>2. CASE e # Len(q)
    BY <1>1, <2>2 DEF Known
  <2>3. QED
    BY <2>1, <2>2
<1>6. QED
  BY <1>1, <1>2, <1>3, <1>4, <1>5 DEF Known, SameLots

LEMMA IncomeSound ==
    ASSUME NEW held, NEW past, NEW balances, NEW change, NEW paid, NEW received,
           Sound(held, past, balances, change, paid, received),
           Income(held, past, balances)
    PROVE  Sound(register', events', books', change, paid, received)
<1>1. PICK gross \in Incomes :
        Record(Event("income", gross * Scale, 0, NoAllocation), held, past, balances)
  BY DEF Income
<1> PICK amount : amount = gross * Scale
  OBVIOUS
<1> PICK event : event = Event("income", amount, 0, NoAllocation)
  OBVIOUS
<1>2. amount \in Nat
  BY AmountsAre
<1>3. /\ event \in EventRow /\ ~ event.corrected /\ event.kind = "income" /\ event.carrying = 0
      /\ event.allocation = NoAllocation
  <2>1. "income" \in Kind /\ 0 \in Nat /\ NoAllocation \in Allocations
    BY NothingAllocated DEF Kind
  <2>2. QED
    BY <1>2, <2>1, NewEvents
<1>4. /\ register' = held /\ events' = Append(past, event) /\ LotChecks(held.lots)
      /\ books' = Posted(balances, Recognition(event))
  BY <1>1 DEF Record
<1> PICK q, after : q = events' /\ after = books'
  OBVIOUS
<1>5. /\ Known(held, past) /\ Traced(held, past) /\ InStep(held) /\ balances \in [Accounts -> Int]
      /\ past \in Seq(EventRow) /\ change \in Int /\ paid \in Int /\ received \in Int
  BY DEF Sound, Known, Booked
<1>6. Extends(q, past, event)
  BY <1>3, <1>4, <1>5 DEF Extends
<1>7. BooksMove(after, balances, event, 1)
  BY <1>3, <1>4, <1>5, RecognitionMoves
<1>8. held.book \in Int
  BY <1>5 DEF Sound, Booked, Accounts
<1>9. Booked(held, q, after, paid, received) /\ Valued(held, q, change)
  <2>1. held.book = held.book + (IF event.kind = "purchase" THEN event.amount
                                 ELSE IF event.kind = "sale" THEN -event.carrying ELSE 0)
    BY <1>3, <1>8
  <2>2. QED
    BY <1>6, <1>7, <2>1, BookedGrows
<1>10. Known(held, q)
  <2>1. Uses(event, held)
    BY <1>3, NothingAllocated DEF Uses
  <2>2. SameLots(held, held)
    BY <1>4, <1>5 DEF Known, SameLots
  <2>3. QED
    BY <1>4, <1>5, <1>6, <2>1, <2>2, KnownGrows
<1>11. Traced(held, q)
  <2>1. ASSUME NEW l \in DOMAIN held.lots
        PROVE  /\ q[l] = past[l]
               /\ SoldUnits(q, l) = SoldUnits(past, l) /\ SoldTax(q, l) = SoldTax(past, l)
    <3>1. ~ Takes(event, l)
      BY <1>3 DEF Takes
    <3>2. l \in DOMAIN past
      BY <1>5, KnownFacts
    <3>3. q[l] = past[l]
      BY <1>6, <3>2, Appended
    <3>4. /\ SoldUnits(q, l) = SoldUnits(past, l) + 0 /\ SoldTax(q, l) = SoldTax(past, l) + 0
          /\ SoldUnits(past, l) \in Int /\ SoldTax(past, l) \in Int
      BY <1>6, <3>1, SoldGrows
    <3>5. QED
      BY <3>3, <3>4
  <2>2. QED
    BY <1>5, <2>1 DEF Traced
<1>12. QED
  BY <1>4, <1>5, <1>9, <1>10, <1>11 DEF Sound

\* new has held's lots and the lot l of a purchase.
OneLotMore(new, held, l, event) ==
    /\ event.kind = "purchase" /\ new.lots[l].cost = event.amount
    /\ l \notin DOMAIN held.lots /\ DOMAIN new.lots = DOMAIN held.lots \cup {l}
    /\ new.lots \in [DOMAIN new.lots -> Lot] /\ LotChecks(new.lots)
    /\ \A m \in DOMAIN held.lots : new.lots[m] = held.lots[m]

LEMMA KnownBuys ==
    ASSUME NEW held, NEW past, Known(held, past),
           NEW q, NEW event, Extends(q, past, event),
           NEW new, OneLotMore(new, held, Len(q), event)
    PROVE  Known(new, q)
<1>1. /\ q \in Seq(EventRow)
      /\ DOMAIN q = DOMAIN past \cup {Len(q)} /\ Len(q) \notin DOMAIN past
      /\ q[Len(q)] = event /\ \A e \in DOMAIN past : q[e] = past[e]
  BY Appended
<1>2. DOMAIN new.lots = {e \in DOMAIN q : q[e].kind = "purchase"}
  BY <1>1 DEF Known, OneLotMore
<1>3. \A l \in DOMAIN new.lots : new.lots[l].cost = q[l].amount
  <2>1. ASSUME NEW l \in DOMAIN held.lots
        PROVE  new.lots[l].cost = q[l].amount
    BY <1>1 DEF Known, OneLotMore
  <2>2. new.lots[Len(q)].cost = q[Len(q)].amount
    BY <1>1 DEF OneLotMore
  <2>3. QED
    BY <2>1, <2>2 DEF OneLotMore
<1>4. ASSUME NEW e \in DOMAIN q
      PROVE  /\ q[e].kind # "purchase" =>
                   /\ DOMAIN q[e].allocation \subseteq DOMAIN new.lots
                   /\ q[e].carrying = Book(q[e].allocation, DOMAIN q[e].allocation)
             /\ q[e].kind = "income" => DOMAIN q[e].allocation = {}
  <2>1. CASE e = Len(q)
    BY <1>1, <2>1 DEF OneLotMore
  <2>2. CASE e # Len(q)
    BY <1>1, <2>2 DEF Known, OneLotMore
  <2>3. QED
    BY <2>1, <2>2
<1>5. QED
  BY <1>1, <1>2, <1>3, <1>4 DEF Known, OneLotMore

LEMMA PurchaseSound ==
    ASSUME NEW held, NEW past, NEW balances, NEW change, NEW paid, NEW received,
           Sound(held, past, balances, change, paid, received),
           Purchase(held, past, balances)
    PROVE  Sound(register', events', books', change, paid, received)
<1>1. PICK day \in Days, n \in Counts, cost \in Costs :
        Record(Event("purchase", cost * Scale, 0, NoAllocation),
               [lots |-> [l \in DOMAIN held.lots \cup {Len(past) + 1} |->
                             IF l \in DOMAIN held.lots THEN held.lots[l]
                             ELSE [day |-> day, count |-> n, cost |-> cost * Scale, units |-> n,
                                   book |-> cost * Scale, tax |-> cost * Scale]],
                units |-> held.units + n, book |-> held.book + cost * Scale,
                tax |-> held.tax + cost * Scale],
               past, balances)
  BY DEF Purchase
<1> PICK amount : amount = cost * Scale
  OBVIOUS
<1> PICK event : event = Event("purchase", amount, 0, NoAllocation)
  OBVIOUS
<1> PICK x : x = Len(past) + 1
  OBVIOUS
<1> PICK lot : lot = [day |-> day, count |-> n, cost |-> amount, units |-> n,
                      book |-> amount, tax |-> amount]
  OBVIOUS
<1> PICK lots : lots = [l \in DOMAIN held.lots \cup {x} |->
                           IF l \in DOMAIN held.lots THEN held.lots[l] ELSE lot]
  OBVIOUS
<1> PICK new : new = [lots |-> lots, units |-> held.units + n, book |-> held.book + amount,
                      tax |-> held.tax + amount]
  OBVIOUS
<1>2. amount \in Nat /\ n \in Nat
  BY AmountsAre, AmountsAssumption
<1>3. /\ event \in EventRow /\ ~ event.corrected /\ event.kind = "purchase"
      /\ event.amount = amount /\ event.carrying = 0 /\ event.allocation = NoAllocation
  <2>1. "purchase" \in Kind /\ 0 \in Nat /\ NoAllocation \in Allocations
    BY NothingAllocated DEF Kind
  <2>2. QED
    BY <1>2, <2>1, NewEvents
<1>4. Record(event, new, past, balances)
  BY <1>1
<1>5. /\ register' = new /\ events' = Append(past, event) /\ LotChecks(new.lots)
      /\ books' = Posted(balances, Recognition(event))
  <2>1. Record(event, new, past, balances) => LotChecks(new.lots)
    BY DEF Record
  <2>2. QED
    BY <1>4, <2>1 DEF Record
<1> PICK q, after : q = events' /\ after = books'
  OBVIOUS
<1>6. /\ Known(held, past) /\ Traced(held, past) /\ InStep(held) /\ balances \in [Accounts -> Int]
      /\ past \in Seq(EventRow) /\ change \in Int /\ paid \in Int /\ received \in Int
      /\ held.lots \in [DOMAIN held.lots -> Lot]
  BY DEF Sound, Known, Booked
<1>7. Extends(q, past, event)
  BY <1>3, <1>5, <1>6 DEF Extends
<1>8. /\ x = Len(q) /\ x \notin DOMAIN past /\ x \notin DOMAIN held.lots
      /\ IsFiniteSet(DOMAIN held.lots) /\ DOMAIN held.lots \subseteq DOMAIN past
      /\ q[x] = event /\ \A l \in DOMAIN past : q[l] = past[l]
  <2>1. /\ Len(q) = Len(past) + 1 /\ Len(q) \notin DOMAIN past /\ q[Len(q)] = event
        /\ \A l \in DOMAIN past : q[l] = past[l]
    BY <1>7, Appended
  <2>2. DOMAIN held.lots \subseteq DOMAIN past /\ IsFiniteSet(DOMAIN held.lots)
    BY <1>6, KnownFacts
  <2>3. QED
    BY <2>1, <2>2
<1>9. /\ new.lots = lots /\ new.units = held.units + n /\ new.book = held.book + amount
      /\ new.tax = held.tax + amount
  OBVIOUS
<1>10. lot \in Lot /\ lot.cost = amount /\ lot.count = n /\ lot.units = n /\ lot.book = amount
       /\ lot.tax = amount
  BY <1>2 DEF Lot
<1>11. /\ lots \in [DOMAIN held.lots \cup {x} -> Lot] /\ lots[x] = lot
       /\ \A l \in DOMAIN held.lots : lots[l] = held.lots[l]
  BY <1>6, <1>8, <1>10
<1>12. OneLotMore(new, held, x, event)
  BY <1>3, <1>5, <1>8, <1>9, <1>10, <1>11 DEF OneLotMore
<1>13. Known(new, q)
  BY <1>6, <1>7, <1>8, <1>12, KnownBuys
<1>14. InStep(new)
  <2> PICK D, E : D = DOMAIN held.lots /\ E = D \cup {x}
    OBVIOUS
  <2> PICK old : old = held.lots
    OBVIOUS
  <2>1. Adjoins(lots, old, E, D, x)
    BY <1>6, <1>8, <1>11 DEF Adjoins
  <2>2. /\ Units(lots, E) = Units(old, D) + lots[x].units
        /\ Book(lots, E) = Book(old, D) + lots[x].book
        /\ Tax(lots, E) = Tax(old, D) + lots[x].tax
    BY <2>1, BoughtSums
  <2>3. held.units = Units(old, D) /\ held.book = Book(old, D) /\ held.tax = Tax(old, D)
    BY <1>6 DEF InStep
  <2>4. DOMAIN new.lots = E
    BY <1>9, <1>11
  <2>5. QED
    BY <1>9, <1>10, <1>11, <2>2, <2>3, <2>4 DEF InStep
<1>15. Booked(new, q, after, paid, received) /\ Valued(new, q, change)
  <2>1. BooksMove(after, balances, event, 1)
    BY <1>3, <1>5, <1>6, RecognitionMoves
  <2>2. new.book = held.book + (IF event.kind = "purchase" THEN event.amount
                                ELSE IF event.kind = "sale" THEN -event.carrying ELSE 0)
    BY <1>3, <1>9
  <2>3. QED
    BY <1>7, <2>1, <2>2, BookedGrows
<1>16. Traced(new, q)
  <2>1. ASSUME NEW l \in DOMAIN new.lots
        PROVE  /\ SoldUnits(q, l) = SoldUnits(past, l) /\ SoldTax(q, l) = SoldTax(past, l)
               /\ SoldUnits(past, l) \in Int /\ SoldTax(past, l) \in Int
    <3>1. ~ Takes(event, l)
      BY <1>3 DEF Takes
    <3>2. /\ SoldUnits(q, l) = SoldUnits(past, l) + 0 /\ SoldTax(q, l) = SoldTax(past, l) + 0
          /\ SoldUnits(past, l) \in Int /\ SoldTax(past, l) \in Int
      BY <1>7, <3>1, SoldGrows
    <3>3. QED
      BY <3>2
  <2>2. ASSUME NEW l \in DOMAIN held.lots
        PROVE  q[l] = past[l] /\ new.lots[l] = held.lots[l] /\ l \in DOMAIN new.lots
    BY <1>8, <1>9, <1>11
  <2>3. /\ SoldUnits(past, x) = 0 /\ SoldTax(past, x) = 0
    BY <1>6, <1>8, NothingSold
  <2>4. ASSUME NEW l \in DOMAIN new.lots
        PROVE  /\ new.lots[l].units + SoldUnits(q, l) = IF q[l].corrected THEN 0 ELSE new.lots[l].count
               /\ new.lots[l].tax + SoldTax(q, l) = IF q[l].corrected THEN 0 ELSE new.lots[l].cost
    <3>1. CASE l = x
      BY <1>2, <1>3, <1>8, <1>9, <1>10, <1>11, <2>1, <2>3, <3>1
    <3>2. CASE l # x
      <4>1. l \in DOMAIN held.lots
        BY <3>2, <1>12 DEF OneLotMore
      <4>2. QED
        BY <1>6, <2>1, <2>2, <4>1 DEF Traced
    <3>3. QED
      BY <3>1, <3>2
  <2>5. QED
    BY <2>4 DEF Traced
<1>17. QED
  BY <1>5, <1>6, <1>13, <1>14, <1>15, <1>16 DEF Sound

LEMMA PortionNat ==
    ASSUME NEW amount \in Nat, NEW taken \in Nat, NEW units \in Nat \ {0}
    PROVE  Portion(amount, taken, units) \in Nat
<1>1. Scale \in Nat \ {0}
  BY AmountsAssumption
<1> PICK a \in Nat, b \in Nat \ {0} : a = amount * taken /\ b = units * Scale
  <2>1. amount * taken \in Nat /\ units * Scale \in Nat \ {0}
    BY <1>1
  <2>2. QED
    BY <2>1
<1> PICK m : m = Nearest(a, b)
  OBVIOUS
<1>2. m \in Nat
  BY DEF Nearest
<1>3. Scale * m \in Nat
  BY <1>1, <1>2
<1>4. QED
  BY <1>3 DEF Portion, Cents

LEMMA AllocationIs ==
    ASSUME NEW D, IsFiniteSet(D), NEW lots \in [D -> Lot], NEW n \in Int
    PROVE  /\ DOMAIN Allocation(lots, n) \subseteq D
           /\ Allocation(lots, n) \in [DOMAIN Allocation(lots, n) -> Part]
<1> DEFINE Older(l) == {m \in DOMAIN lots : lots[m].day < lots[l].day}
           taken == [l \in DOMAIN lots |->
                        Lesser(lots[l].units, Greater(0, n - Units(lots, Older(l))))]
           A == {m \in DOMAIN lots : taken[m] > 0}
           result == [l \in A |->
                         [units |-> taken[l],
                          book |-> Portion(lots[l].book, taken[l], lots[l].units),
                          tax |-> Portion(lots[l].tax, taken[l], lots[l].units)]]
<1>1. Allocation(lots, n) = result
  BY DEF Allocation
<1>2. DOMAIN lots = D
  OBVIOUS
<1>3. ASSUME NEW l \in D
      PROVE  taken[l] \in Nat /\ taken[l] <= lots[l].units
  <2>1. Units(lots, Older(l)) \in Int
    <3> DEFINE f == [m \in DOMAIN lots |-> lots[m].units]
               S == Older(l)
    <3>1. S \in SUBSET D /\ \A m \in S : f[m] \in Int
      BY LotFacts
    <3>2. Units(lots, S) = SumFunctionOnSet(f, S)
      BY DEF Units
    <3> HIDE DEF f, S
    <3>3. SumFunctionOnSet(f, S) \in Int
      BY <3>1, FS_Subset, SumInt
    <3>4. QED
      BY <3>2, <3>3 DEF S
  <2> PICK u \in Int : u = Units(lots, Older(l))
    BY <2>1
  <2>2. taken[l] = Lesser(lots[l].units, Greater(0, n - u)) /\ lots[l].units \in Nat
    BY LotFacts
  <2> HIDE DEF taken
  <2>3. QED
    BY <2>2 DEF Lesser, Greater
<1>4. A \subseteq D
  OBVIOUS
<1>5. ASSUME NEW l \in A
      PROVE  result[l] \in Part
  <2>1. taken[l] \in Nat /\ taken[l] > 0 /\ taken[l] <= lots[l].units /\ l \in D
    BY <1>3
  <2>2. lots[l].units \in Nat \ {0} /\ lots[l].book \in Nat /\ lots[l].tax \in Nat
    BY <2>1, LotFacts
  <2> PICK t : t = taken[l]
    OBVIOUS
  <2>3. result[l] = [units |-> t, book |-> Portion(lots[l].book, t, lots[l].units),
                     tax |-> Portion(lots[l].tax, t, lots[l].units)]
    OBVIOUS
  <2>4. t \in Nat
    BY <2>1
  <2> HIDE DEF result, taken
  <2>5. Portion(lots[l].book, t, lots[l].units) \in Nat /\ Portion(lots[l].tax, t, lots[l].units) \in Nat
    BY <2>2, <2>4, PortionNat
  <2>6. QED
    BY <2>3, <2>4, <2>5 DEF Part
<1>6. DOMAIN result = A
  OBVIOUS
<1>7. result \in [A -> Part]
  <2> HIDE DEF A
  <2>1. result = [l \in A |-> result[l]]
    OBVIOUS
  <2> HIDE DEF result
  <2>2. QED
    BY <1>5, <2>1
<1> HIDE DEF result, A
<1>8. QED
  BY <1>1, <1>2, <1>4, <1>6, <1>7

\* An allocation of parts to some of the lots.
Allots(a, A, lots, D) ==
    IsFiniteSet(D) /\ lots \in [D -> Lot] /\ A \subseteq D /\ a \in [A -> Part]

\* What is taken from lots whose checks hold afterwards.
LEMMA TakingMoves ==
    ASSUME NEW a, NEW A, NEW lots, NEW D, Allots(a, A, lots, D)
    PROVE  /\ Moves(lots, Taking(lots, a), a, D, A)
           /\ LotChecks(Taking(lots, a)) => Taking(lots, a) \in [D -> Lot]
           /\ \A l \in D : /\ Taking(lots, a)[l].cost = lots[l].cost
                           /\ Taking(lots, a)[l].count = lots[l].count
<1> PICK t : t = Taking(lots, a)
  OBVIOUS
<1>0. IsFiniteSet(D) /\ lots \in [D -> Lot] /\ A \subseteq D /\ a \in [A -> Part]
  BY DEF Allots
<1>1. DOMAIN t = D /\ DOMAIN a = A /\ DOMAIN lots = D
  BY <1>0 DEF Taking
<1>2. ASSUME NEW l \in D
      PROVE  /\ t[l].units \in Int /\ t[l].book \in Int /\ t[l].tax \in Int
             /\ lots[l].units = IF l \in A THEN t[l].units + a[l].units ELSE t[l].units
             /\ lots[l].book = IF l \in A THEN t[l].book + a[l].book ELSE t[l].book
             /\ lots[l].tax = IF l \in A THEN t[l].tax + a[l].tax ELSE t[l].tax
             /\ t[l].cost = lots[l].cost /\ t[l].count = lots[l].count
             /\ t[l].units \in Nat /\ t[l].book \in Nat /\ t[l].tax \in Nat => t[l] \in Lot
  <2>0. lots[l] \in Lot
    BY <1>0
  <2>1. CASE l \in A
    <3>1. t[l] = [lots[l] EXCEPT !.units = lots[l].units - a[l].units,
                                 !.book = lots[l].book - a[l].book,
                                 !.tax = lots[l].tax - a[l].tax]
      BY <1>1, <2>1 DEF Taking
    <3>2. a[l] \in Part
      BY <1>0, <2>1
    <3>3. /\ t[l].units = lots[l].units - a[l].units /\ t[l].book = lots[l].book - a[l].book
          /\ t[l].tax = lots[l].tax - a[l].tax
          /\ t[l].cost = lots[l].cost /\ t[l].count = lots[l].count
      BY <2>0, <3>1 DEF Lot
    <3>4. /\ {lots[l].units, lots[l].book, lots[l].tax} \subseteq Int
          /\ {a[l].units, a[l].book, a[l].tax} \subseteq Int
      BY <2>0, <3>2 DEF Lot, Part
    <3>5. t[l].units \in Nat /\ t[l].book \in Nat /\ t[l].tax \in Nat => t[l] \in Lot
      BY <2>0, <3>1, <3>3 DEF Lot
    <3>6. QED
      BY <2>1, <3>3, <3>4, <3>5
  <2>2. CASE l \notin A
    <3>1. t[l] = lots[l]
      BY <1>1, <2>2 DEF Taking
    <3>2. QED
      BY <2>0, <2>2, <3>1 DEF Lot
  <2>3. QED
    BY <2>1, <2>2
<1>3. Moves(lots, t, a, D, A)
  BY <1>0, <1>1, <1>2 DEF Moves
<1>4. ASSUME LotChecks(t)
      PROVE  t \in [D -> Lot]
  <2>1. t = [l \in D |-> t[l]]
    BY <1>1 DEF Taking
  <2>2. ASSUME NEW l \in D
        PROVE  t[l] \in Lot
    <3>1. /\ t[l].units \in 0 .. t[l].count /\ t[l].book \in 0 .. t[l].cost
          /\ t[l].tax \in 0 .. t[l].cost
      BY <1>1, <1>4 DEF LotChecks
    <3>2. t[l].units \in Nat /\ t[l].book \in Nat /\ t[l].tax \in Nat
      BY <3>1
    <3>3. QED
      BY <1>2, <3>2
  <2>3. QED
    BY <2>1, <2>2
<1>5. QED
  BY <1>2, <1>3, <1>4

LEMMA SaleSound ==
    ASSUME NEW held, NEW past, NEW balances, NEW change, NEW paid, NEW received,
           Sound(held, past, balances, change, paid, received),
           Sale(held, past, balances)
    PROVE  Sound(register', events', books', change, paid, received)
<1>1. PICK n \in 1 .. held.units, net \in Proceeds :
        Record(Event("sale", net * Scale,
                     Book(Allocation(held.lots, n), DOMAIN Allocation(held.lots, n)),
                     Allocation(held.lots, n)),
               Held(Taking(held.lots, Allocation(held.lots, n))), past, balances)
  BY DEF Sale
<1> PICK D : D = DOMAIN held.lots
  OBVIOUS
<1> PICK lots : lots = held.lots
  OBVIOUS
<1> PICK a : a = Allocation(lots, n)
  OBVIOUS
<1> PICK A : A = DOMAIN a
  OBVIOUS
<1> PICK carrying : carrying = Book(a, A)
  OBVIOUS
<1> PICK amount : amount = net * Scale
  OBVIOUS
<1> PICK event : event = Event("sale", amount, carrying, a)
  OBVIOUS
<1> PICK t : t = Taking(lots, a)
  OBVIOUS
<1> PICK new : new = Held(t)
  OBVIOUS
<1>2. Record(event, new, past, balances)
  BY <1>1
<1>3. /\ register' = new /\ events' = Append(past, event) /\ LotChecks(new.lots)
      /\ books' = Posted(balances, Recognition(event))
  <2>1. Record(event, new, past, balances) => LotChecks(new.lots)
    BY DEF Record
  <2>2. QED
    BY <1>2, <2>1 DEF Record
<1> PICK q, after : q = events' /\ after = books'
  OBVIOUS
<1>4. /\ Known(held, past) /\ Traced(held, past) /\ InStep(held) /\ balances \in [Accounts -> Int]
      /\ past \in Seq(EventRow) /\ change \in Int /\ paid \in Int /\ received \in Int
      /\ lots \in [D -> Lot]
  BY DEF Sound, Known, Booked
<1>5. IsFiniteSet(D) /\ D \subseteq DOMAIN past /\ D \in SUBSET Nat
  <2>1. IsFiniteSet(D) /\ D \subseteq DOMAIN past
    BY <1>4, KnownFacts
  <2>2. DOMAIN past \subseteq Nat
    BY <1>4, EventsFacts
  <2>3. QED
    BY <2>1, <2>2
<1>6. A \subseteq D /\ a \in [A -> Part]
  BY <1>4, <1>5, AllocationIs
<1>7. a \in Allocations
  BY <1>5, <1>6 DEF Allocations
<1>8. /\ Moves(lots, t, a, D, A) /\ (LotChecks(t) => t \in [D -> Lot])
      /\ \A l \in D : t[l].cost = lots[l].cost /\ t[l].count = lots[l].count
  <2>1. Allots(a, A, lots, D)
    BY <1>4, <1>5, <1>6 DEF Allots
  <2>2. QED
    BY <2>1, TakingMoves
<1>9. /\ Units(lots, D) = Units(t, D) + Units(a, A) /\ Book(lots, D) = Book(t, D) + Book(a, A)
      /\ Tax(lots, D) = Tax(t, D) + Tax(a, A)
      /\ {Units(t, D), Book(t, D), Tax(t, D)} \subseteq Int
      /\ {Units(a, A), Book(a, A), Tax(a, A)} \subseteq Int
  BY <1>8, MovesSums
<1>10. carrying \in Nat
  <2>1. \A l \in A : a[l].units \in Nat /\ a[l].book \in Nat /\ a[l].tax \in Nat
    BY <1>7, AllocationFacts
  <2>2. IsFiniteSet(A)
    BY <1>5, <1>6, FS_Subset
  <2>3. QED
    BY <2>1, <2>2, SumsAre
<1>11. amount \in Nat
  BY AmountsAre
<1>12. /\ event \in EventRow /\ ~ event.corrected /\ event.kind = "sale"
       /\ event.amount = amount /\ event.carrying = carrying /\ event.allocation = a
  <2>1. "sale" \in Kind
    BY DEF Kind
  <2>2. QED
    BY <1>7, <1>10, <1>11, <2>1, NewEvents
<1>13. Extends(q, past, event)
  BY <1>3, <1>4, <1>12 DEF Extends
<1>14. DOMAIN t = D
  BY <1>8 DEF Moves
<1>15. new.lots = t /\ new.units = Units(t, D) /\ new.book = Book(t, D) /\ new.tax = Tax(t, D)
  BY <1>14 DEF Held
<1>16. InStep(new)
  BY <1>14, <1>15 DEF InStep
<1>17. SameLots(new, held)
  BY <1>3, <1>8, <1>15 DEF SameLots
<1>18. Known(new, q)
  <2>1. Uses(event, held)
    BY <1>6, <1>12 DEF Uses
  <2>2. QED
    BY <1>4, <1>13, <1>17, <2>1, KnownGrows
<1>19. Booked(new, q, after, paid, received) /\ Valued(new, q, change)
  <2>1. BooksMove(after, balances, event, 1)
    BY <1>3, <1>4, <1>12, RecognitionMoves
  <2>2. held.book = Book(lots, D)
    BY <1>4 DEF InStep
  <2>3. new.book = held.book + (IF event.kind = "purchase" THEN event.amount
                                ELSE IF event.kind = "sale" THEN -event.carrying ELSE 0)
    BY <1>9, <1>12, <1>15, <2>2
  <2>4. QED
    BY <1>13, <2>1, <2>3, BookedGrows
<1>20. Traced(new, q)
  <2>1. ASSUME NEW l \in D
        PROVE  /\ new.lots[l].units + SoldUnits(q, l) = IF q[l].corrected THEN 0 ELSE new.lots[l].count
               /\ new.lots[l].tax + SoldTax(q, l) = IF q[l].corrected THEN 0 ELSE new.lots[l].cost
    <3>1. q[l] = past[l]
      BY <1>5, <1>13, Appended
    <3>2. /\ lots[l].units + SoldUnits(past, l) = IF past[l].corrected THEN 0 ELSE lots[l].count
          /\ lots[l].tax + SoldTax(past, l) = IF past[l].corrected THEN 0 ELSE lots[l].cost
      BY <1>4 DEF Traced
    <3>3. /\ SoldUnits(q, l) = SoldUnits(past, l)
                                 + (IF Takes(event, l) THEN event.allocation[l].units ELSE 0)
          /\ SoldTax(q, l) = SoldTax(past, l)
                                 + (IF Takes(event, l) THEN event.allocation[l].tax ELSE 0)
          /\ SoldUnits(past, l) \in Int /\ SoldTax(past, l) \in Int
      BY <1>13, SoldGrows
    <3>4. Takes(event, l) <=> l \in A
      BY <1>12 DEF Takes
    <3>5. /\ t[l].units \in Int /\ t[l].tax \in Int
          /\ lots[l].units = IF l \in A THEN t[l].units + a[l].units ELSE t[l].units
          /\ lots[l].tax = IF l \in A THEN t[l].tax + a[l].tax ELSE t[l].tax
          /\ t[l].cost = lots[l].cost /\ t[l].count = lots[l].count
      BY <1>8 DEF Moves
    <3>6. CASE l \in A
      <4>1. a[l].units \in Int /\ a[l].tax \in Int
        BY <1>7, <3>6, AllocationFacts
      <4>2. QED
        BY <1>12, <1>15, <3>1, <3>2, <3>3, <3>4, <3>5, <3>6, <4>1
    <3>7. CASE l \notin A
      BY <1>15, <3>1, <3>2, <3>3, <3>4, <3>5, <3>7
    <3>8. QED
      BY <3>6, <3>7
  <2>2. QED
    BY <1>14, <1>15, <2>1 DEF Traced
<1>21. QED
  BY <1>3, <1>4, <1>16, <1>18, <1>19, <1>20 DEF Sound

LEMMA RecognizeSound ==
    ASSUME NEW kind, NEW held, NEW past, NEW balances, NEW change, NEW paid, NEW received,
           Sound(held, past, balances, change, paid, received),
           Recognize(kind, held, past, balances)
    PROVE  Sound(register', events', books', change, paid, received)
<1>1. CASE Purchase(held, past, balances)
  BY <1>1, PurchaseSound
<1>2. CASE Sale(held, past, balances)
  BY <1>2, SaleSound
<1>3. CASE Income(held, past, balances)
  BY <1>3, IncomeSound
<1>4. QED
  BY <1>1, <1>2, <1>3 DEF Recognize

-----------------------------------------------------------------------------
(* Taking an event back keeps the invariant. *)

LEMMA KnownFalls ==
    ASSUME NEW held, NEW past, Known(held, past), NEW q, NEW k, Corrects(q, past, k),
           NEW new, SameLots(new, held)
    PROVE  Known(new, q)
<1>1. /\ q \in Seq(EventRow) /\ DOMAIN q = DOMAIN past
      /\ \A e \in DOMAIN past :
            /\ q[e].kind = past[e].kind /\ q[e].amount = past[e].amount
            /\ q[e].carrying = past[e].carrying /\ q[e].allocation = past[e].allocation
  BY Corrected
<1>2. DOMAIN new.lots = DOMAIN held.lots
  BY DEF SameLots
<1>3. DOMAIN held.lots = {e \in DOMAIN q : q[e].kind = "purchase"}
  BY <1>1 DEF Known
<1>4. \A l \in DOMAIN held.lots : new.lots[l].cost = q[l].amount
  BY <1>1 DEF Known, SameLots
<1>5. ASSUME NEW e \in DOMAIN q
      PROVE  /\ q[e].kind # "purchase" =>
                   /\ DOMAIN q[e].allocation \subseteq DOMAIN held.lots
                   /\ q[e].carrying = Book(q[e].allocation, DOMAIN q[e].allocation)
             /\ q[e].kind = "income" => DOMAIN q[e].allocation = {}
  BY <1>1 DEF Known
<1>6. QED
  BY <1>1, <1>2, <1>3, <1>4, <1>5 DEF Known, SameLots

LEMMA ReturningMoves ==
    ASSUME NEW a, NEW A, NEW lots, NEW D, Allots(a, A, lots, D)
    PROVE  /\ Moves(Returning(lots, a), lots, a, D, A)
           /\ Returning(lots, a) \in [D -> Lot]
           /\ \A l \in D : /\ Returning(lots, a)[l].cost = lots[l].cost
                           /\ Returning(lots, a)[l].count = lots[l].count
<1> PICK t : t = Returning(lots, a)
  OBVIOUS
<1>0. IsFiniteSet(D) /\ lots \in [D -> Lot] /\ A \subseteq D /\ a \in [A -> Part]
  BY DEF Allots
<1>1. DOMAIN t = D /\ DOMAIN a = A /\ DOMAIN lots = D
  BY <1>0 DEF Returning
<1>2. ASSUME NEW l \in D
      PROVE  /\ lots[l].units \in Int /\ lots[l].book \in Int /\ lots[l].tax \in Int
             /\ t[l].units = IF l \in A THEN lots[l].units + a[l].units ELSE lots[l].units
             /\ t[l].book = IF l \in A THEN lots[l].book + a[l].book ELSE lots[l].book
             /\ t[l].tax = IF l \in A THEN lots[l].tax + a[l].tax ELSE lots[l].tax
             /\ t[l].cost = lots[l].cost /\ t[l].count = lots[l].count
             /\ t[l] \in Lot
  <2>0. lots[l] \in Lot
    BY <1>0
  <2>1. CASE l \in A
    <3>1. t[l] = [lots[l] EXCEPT !.units = lots[l].units + a[l].units,
                                 !.book = lots[l].book + a[l].book,
                                 !.tax = lots[l].tax + a[l].tax]
      BY <1>1, <2>1 DEF Returning
    <3>2. a[l] \in Part
      BY <1>0, <2>1
    <3>3. /\ t[l].units = lots[l].units + a[l].units /\ t[l].book = lots[l].book + a[l].book
          /\ t[l].tax = lots[l].tax + a[l].tax
          /\ t[l].cost = lots[l].cost /\ t[l].count = lots[l].count
      BY <2>0, <3>1 DEF Lot
    <3>4. /\ {lots[l].units, lots[l].book, lots[l].tax} \subseteq Nat
          /\ {a[l].units, a[l].book, a[l].tax} \subseteq Nat
      BY <2>0, <3>2 DEF Lot, Part
    <3>5. t[l].units \in Nat /\ t[l].book \in Nat /\ t[l].tax \in Nat
      BY <3>3, <3>4
    <3>6. t[l] \in Lot
      BY <2>0, <3>1, <3>3, <3>5 DEF Lot
    <3>7. QED
      BY <2>1, <3>3, <3>4, <3>6
  <2>2. CASE l \notin A
    <3>1. t[l] = lots[l]
      BY <1>1, <2>2 DEF Returning
    <3>2. QED
      BY <2>0, <2>2, <3>1 DEF Lot
  <2>3. QED
    BY <2>1, <2>2
<1>3. Moves(t, lots, a, D, A)
  BY <1>0, <1>1, <1>2 DEF Moves
<1>4. t = [l \in D |-> t[l]]
  BY <1>1 DEF Returning
<1>5. t \in [D -> Lot]
  BY <1>2, <1>4
<1>6. QED
  BY <1>2, <1>3, <1>5

\* A whole lot emptied gives back all that was bought.
LEMMA EmptiedMoves ==
    ASSUME NEW D, IsFiniteSet(D), NEW lots \in [D -> Lot], NEW e \in D
    PROVE  LET t == Emptied(lots, e) IN
           /\ t \in [D -> Lot]
           /\ t[e].units = 0 /\ t[e].tax = 0 /\ \A l \in D : l # e => t[l] = lots[l]
           /\ \A l \in D : t[l].cost = lots[l].cost /\ t[l].count = lots[l].count
           /\ Units(t, D) = Units(lots, D) - lots[e].units
           /\ Book(t, D) = Book(lots, D) - lots[e].book
           /\ Tax(t, D) = Tax(lots, D) - lots[e].tax
<1> PICK t : t = Emptied(lots, e)
  OBVIOUS
<1> DEFINE a == [l \in {e} |-> [units |-> lots[e].units, book |-> lots[e].book, tax |-> lots[e].tax]]
<1>1. lots[e] \in Lot
  OBVIOUS
<1>2. t = [lots EXCEPT ![e] = [lots[e] EXCEPT !.units = 0, !.book = 0, !.tax = 0]]
  BY <1>1 DEF Emptied, Lot
<1>3. /\ t[e] = [lots[e] EXCEPT !.units = 0, !.book = 0, !.tax = 0]
      /\ DOMAIN t = D /\ \A l \in D : l # e => t[l] = lots[l]
  BY <1>2
<1>4. /\ t[e] \in Lot /\ t[e].units = 0 /\ t[e].book = 0 /\ t[e].tax = 0
      /\ t[e].cost = lots[e].cost /\ t[e].count = lots[e].count
  <2>1. /\ t[e].units = 0 /\ t[e].book = 0 /\ t[e].tax = 0
        /\ t[e].cost = lots[e].cost /\ t[e].count = lots[e].count /\ t[e].day = lots[e].day
    BY <1>1, <1>3 DEF Lot
  <2>2. [lots[e] EXCEPT !.units = 0, !.book = 0, !.tax = 0] \in Lot
    BY <1>1 DEF Lot
  <2>3. QED
    BY <1>3, <2>1, <2>2
<1>5. t \in [D -> Lot]
  <2>1. \A l \in D : t[l] \in Lot
    BY <1>3, <1>4
  <2>2. QED
    BY <1>2, <1>4, <2>1, <1>3
<1>6. a \in [{e} -> Part] /\ a[e].units = lots[e].units /\ a[e].book = lots[e].book
      /\ a[e].tax = lots[e].tax /\ DOMAIN a = {e}
  BY <1>1 DEF Lot, Part
<1>7. ASSUME NEW l \in D
      PROVE  /\ t[l].units \in Int /\ t[l].book \in Int /\ t[l].tax \in Int
             /\ lots[l].units = IF l \in {e} THEN t[l].units + a[l].units ELSE t[l].units
             /\ lots[l].book = IF l \in {e} THEN t[l].book + a[l].book ELSE t[l].book
             /\ lots[l].tax = IF l \in {e} THEN t[l].tax + a[l].tax ELSE t[l].tax
             /\ t[l].cost = lots[l].cost /\ t[l].count = lots[l].count
  <2>0. lots[l] \in Lot /\ lots[l].units \in Int /\ lots[l].book \in Int /\ lots[l].tax \in Int
    BY LotFacts
  <2> HIDE DEF a
  <2>1. CASE l = e
    BY <1>4, <1>6, <2>0, <2>1
  <2>2. CASE l # e
    BY <1>3, <2>0, <2>2
  <2>3. QED
    BY <2>1, <2>2
<1> HIDE DEF a
<1>8. Moves(lots, t, a, D, {e})
  BY <1>3, <1>6, <1>7 DEF Moves
<1>9. /\ Units(lots, D) = Units(t, D) + Units(a, {e}) /\ Book(lots, D) = Book(t, D) + Book(a, {e})
      /\ Tax(lots, D) = Tax(t, D) + Tax(a, {e})
      /\ {Units(t, D), Book(t, D), Tax(t, D)} \subseteq Int
      /\ {Units(a, {e}), Book(a, {e}), Tax(a, {e})} \subseteq Int
  BY <1>8, MovesSums
<1>10. Units(a, {e}) = lots[e].units /\ Book(a, {e}) = lots[e].book /\ Tax(a, {e}) = lots[e].tax
  <2> DEFINE f == [l \in DOMAIN a |-> a[l].units]
             g == [l \in DOMAIN a |-> a[l].book]
             h == [l \in DOMAIN a |-> a[l].tax]
  <2>1. /\ f[e] = lots[e].units /\ g[e] = lots[e].book /\ h[e] = lots[e].tax
        /\ f[e] \in Int /\ g[e] \in Int /\ h[e] \in Int
    BY <1>1, <1>6 DEF Lot
  <2>2. /\ Units(a, {e}) = SumFunctionOnSet(f, {e}) /\ Book(a, {e}) = SumFunctionOnSet(g, {e})
        /\ Tax(a, {e}) = SumFunctionOnSet(h, {e})
    BY DEF Units, Book, Tax
  <2> HIDE DEF f, g, h
  <2>3. QED
    BY <2>1, <2>2, SumOne
<1>11. QED
  BY <1>3, <1>4, <1>5, <1>7, <1>9, <1>10

\* The position without event e: Without(e), over any position and events.
Lacking(held, past, e) ==
    LET event == past[e]
        part == event.allocation
    IN IF event.kind = "purchase"
       THEN [lots |-> Emptied(held.lots, e),
             units |-> held.units - held.lots[e].count,
             book |-> held.book - held.lots[e].cost,
             tax |-> held.tax - held.lots[e].cost]
       ELSE [lots |-> Returning(held.lots, part),
             units |-> held.units + Units(part, DOMAIN part),
             book |-> held.book + event.carrying,
             tax |-> held.tax + Tax(part, DOMAIN part)]

\* A purchase taken back is one of which nothing was sold or written down.
Whole(held, past, e) ==
    past[e].kind = "purchase" =>
        /\ held.lots[e].units = held.lots[e].count
        /\ held.lots[e].book = held.lots[e].cost /\ held.lots[e].tax = held.lots[e].cost

LEMMA PurchaseTakenBack ==
    ASSUME NEW held, NEW past, NEW balances, NEW change, NEW paid, NEW received,
           Sound(held, past, balances, change, paid, received),
           NEW q, NEW e, Corrects(q, past, e), past[e].kind = "purchase", Whole(held, past, e),
           NEW new, new = Lacking(held, past, e), LotChecks(new.lots),
           NEW after, after = Reversed(balances, Recognition(past[e]))
    PROVE  Sound(new, q, after, change, paid, received)
<1> PICK D : D = DOMAIN held.lots
  OBVIOUS
<1> PICK lots : lots = held.lots
  OBVIOUS
<1> PICK t : t = Emptied(lots, e)
  OBVIOUS
<1>1. /\ Known(held, past) /\ Traced(held, past) /\ InStep(held) /\ balances \in [Accounts -> Int]
      /\ past \in Seq(EventRow) /\ change \in Int /\ paid \in Int /\ received \in Int
      /\ lots \in [D -> Lot]
  BY DEF Sound, Known, Booked
<1>2. /\ e \in DOMAIN past /\ ~ past[e].corrected
      /\ \A l \in DOMAIN past : q[l].corrected = (past[l].corrected \/ l = e)
  BY Corrected
<1>3. past[e] \in EventRow
  BY <1>1, <1>2, EventsFacts
<1>4. e \in D /\ lots[e].cost = past[e].amount
  BY <1>1, <1>2 DEF Known
<1>5. IsFiniteSet(D) /\ D \subseteq DOMAIN past
  BY <1>1, KnownFacts
<1>6. lots[e].units = lots[e].count /\ lots[e].book = lots[e].cost /\ lots[e].tax = lots[e].cost
  BY DEF Whole
<1>7. /\ t \in [D -> Lot]
      /\ t[e].units = 0 /\ t[e].tax = 0 /\ \A l \in D : l # e => t[l] = lots[l]
      /\ \A l \in D : t[l].cost = lots[l].cost /\ t[l].count = lots[l].count
      /\ Units(t, D) = Units(lots, D) - lots[e].units
      /\ Book(t, D) = Book(lots, D) - lots[e].book
      /\ Tax(t, D) = Tax(lots, D) - lots[e].tax
  BY <1>1, <1>4, <1>5, EmptiedMoves
<1>8. /\ new.lots = t /\ new.units = held.units - lots[e].count
      /\ new.book = held.book - lots[e].cost /\ new.tax = held.tax - lots[e].cost
  BY DEF Lacking
<1>9. DOMAIN t = D
  BY <1>7
<1>10. InStep(new)
  <2>1. held.units = Units(lots, D) /\ held.book = Book(lots, D) /\ held.tax = Tax(lots, D)
    BY <1>1 DEF InStep
  <2>2. new.units = Units(t, D) /\ new.book = Book(t, D) /\ new.tax = Tax(t, D)
    BY <1>6, <1>7, <1>8, <2>1
  <2>3. QED
    BY <1>8, <1>9, <2>2 DEF InStep
<1>11. SameLots(new, held)
  BY <1>7, <1>8 DEF SameLots
<1>12. Known(new, q)
  BY <1>1, <1>11, KnownFalls
<1>13. Booked(new, q, after, paid, received) /\ Valued(new, q, change)
  <2>1. BooksMove(after, balances, past[e], -1)
    BY <1>1, <1>3, RecognitionMoves
  <2>2. new.book = held.book - (IF past[e].kind = "purchase" THEN past[e].amount
                                ELSE IF past[e].kind = "sale" THEN -past[e].carrying ELSE 0)
    BY <1>4, <1>8
  <2>3. QED
    BY <2>1, <2>2, BookedFalls
<1>14. Traced(new, q)
  <2>1. ~ \E l : Takes(past[e], l)
    BY DEF Takes
  <2>2. ASSUME NEW l \in D
        PROVE  /\ t[l].units + SoldUnits(q, l) = IF q[l].corrected THEN 0 ELSE t[l].count
               /\ t[l].tax + SoldTax(q, l) = IF q[l].corrected THEN 0 ELSE t[l].cost
    <3>1. /\ SoldUnits(q, l) = SoldUnits(past, l) - 0 /\ SoldTax(q, l) = SoldTax(past, l) - 0
          /\ SoldUnits(past, l) \in Int /\ SoldTax(past, l) \in Int
      BY <2>1, SoldFalls
    <3>2. /\ lots[l].units + SoldUnits(past, l) = IF past[l].corrected THEN 0 ELSE lots[l].count
          /\ lots[l].tax + SoldTax(past, l) = IF past[l].corrected THEN 0 ELSE lots[l].cost
      BY <1>1 DEF Traced
    <3>3. q[l].corrected = (past[l].corrected \/ l = e) /\ past[l].corrected \in BOOLEAN
      <4>1. past[l] \in EventRow
        BY <1>1, <1>5, EventsFacts
      <4>2. QED
        BY <1>2, <1>5, <4>1, EventFacts
    <3>4. CASE l = e
      <4>1. lots[l].count \in Int /\ lots[l].cost \in Int
        <5>1. lots[l].count \in Nat /\ lots[l].cost \in Nat
          BY <1>1, LotFacts
        <5>2. QED
          BY <5>1
      <4>2. SoldUnits(past, l) = 0 /\ SoldTax(past, l) = 0
        BY <1>2, <1>6, <3>1, <3>2, <3>4, <4>1
      <4>3. q[l].corrected
        BY <3>3, <3>4
      <4>4. QED
        BY <1>7, <3>1, <3>4, <4>2, <4>3
    <3>5. CASE l # e
      <4>1. q[l].corrected = past[l].corrected /\ t[l] = lots[l]
        BY <1>7, <3>3, <3>5
      <4>2. SoldUnits(q, l) = SoldUnits(past, l) /\ SoldTax(q, l) = SoldTax(past, l)
        BY <3>1
      <4>3. QED
        BY <3>2, <4>1, <4>2
    <3>6. QED
      BY <3>4, <3>5
  <2>3. QED
    BY <1>8, <1>9, <2>2 DEF Traced
<1>15. QED
  BY <1>1, <1>10, <1>12, <1>13, <1>14 DEF Sound

LEMMA OtherTakenBack ==
    ASSUME NEW held, NEW past, NEW balances, NEW change, NEW paid, NEW received,
           Sound(held, past, balances, change, paid, received),
           NEW q, NEW e, Corrects(q, past, e), past[e].kind # "purchase",
           NEW new, new = Lacking(held, past, e), LotChecks(new.lots),
           NEW after, after = Reversed(balances, Recognition(past[e]))
    PROVE  Sound(new, q, after, change, paid, received)
<1> PICK D : D = DOMAIN held.lots
  OBVIOUS
<1> PICK lots : lots = held.lots
  OBVIOUS
<1> PICK a : a = past[e].allocation
  OBVIOUS
<1> PICK A : A = DOMAIN a
  OBVIOUS
<1> PICK t : t = Returning(lots, a)
  OBVIOUS
<1>1. /\ Known(held, past) /\ Traced(held, past) /\ InStep(held) /\ balances \in [Accounts -> Int]
      /\ past \in Seq(EventRow) /\ change \in Int /\ paid \in Int /\ received \in Int
      /\ lots \in [D -> Lot]
  BY DEF Sound, Known, Booked
<1>2. /\ e \in DOMAIN past /\ ~ past[e].corrected
      /\ \A l \in DOMAIN past : q[l].corrected = (past[l].corrected \/ l = e)
  BY Corrected
<1>3. past[e] \in EventRow /\ a \in Allocations /\ past[e].kind \in Kind
  BY <1>1, <1>2, EventsFacts, EventFacts
<1>4. A \subseteq D /\ past[e].carrying = Book(a, A) /\ (past[e].kind = "income" => A = {})
  BY <1>1, <1>2 DEF Known
<1>5. IsFiniteSet(D) /\ D \subseteq DOMAIN past
  BY <1>1, KnownFacts
<1>6. Allots(a, A, lots, D)
  BY <1>1, <1>3, <1>4, <1>5, AllocationFacts DEF Allots
<1>7. /\ Moves(t, lots, a, D, A) /\ t \in [D -> Lot]
      /\ \A l \in D : t[l].cost = lots[l].cost /\ t[l].count = lots[l].count
  BY <1>6, ReturningMoves
<1>8. /\ Units(t, D) = Units(lots, D) + Units(a, A) /\ Book(t, D) = Book(lots, D) + Book(a, A)
      /\ Tax(t, D) = Tax(lots, D) + Tax(a, A)
      /\ {Units(a, A), Book(a, A), Tax(a, A)} \subseteq Int
      /\ {Units(lots, D), Book(lots, D), Tax(lots, D)} \subseteq Int
  BY <1>7, MovesSums
<1>9. /\ new.lots = t /\ new.units = held.units + Units(a, A)
      /\ new.book = held.book + Book(a, A) /\ new.tax = held.tax + Tax(a, A)
  BY <1>4 DEF Lacking
<1>10. DOMAIN t = D
  BY <1>7
<1>11. held.units = Units(lots, D) /\ held.book = Book(lots, D) /\ held.tax = Tax(lots, D)
  BY <1>1 DEF InStep
<1>12. InStep(new)
  <2>1. new.units = Units(t, D) /\ new.book = Book(t, D) /\ new.tax = Tax(t, D)
    BY <1>8, <1>9, <1>11
  <2>2. QED
    BY <1>9, <1>10, <2>1 DEF InStep
<1>13. SameLots(new, held)
  BY <1>7, <1>9 DEF SameLots
<1>14. Known(new, q)
  BY <1>1, <1>13, KnownFalls
<1>15. Booked(new, q, after, paid, received) /\ Valued(new, q, change)
  <2>1. BooksMove(after, balances, past[e], -1)
    BY <1>1, <1>3, RecognitionMoves
  <2>2. past[e].kind = "income" => Book(a, A) = 0
    BY <1>4, SumEmpty DEF Book
  <2>3. new.book = held.book - (IF past[e].kind = "purchase" THEN past[e].amount
                                ELSE IF past[e].kind = "sale" THEN -past[e].carrying ELSE 0)
    <3>1. CASE past[e].kind = "sale"
      BY <1>4, <1>8, <1>9, <1>11, <3>1
    <3>2. CASE past[e].kind = "income"
      BY <1>8, <1>9, <1>11, <2>2, <3>2
    <3>3. QED
      BY <1>3, <3>1, <3>2 DEF Kind
  <2>4. QED
    BY <2>1, <2>3, BookedFalls
<1>16. Traced(new, q)
  <2>1. ASSUME NEW l \in D
        PROVE  /\ t[l].units + SoldUnits(q, l) = IF q[l].corrected THEN 0 ELSE t[l].count
               /\ t[l].tax + SoldTax(q, l) = IF q[l].corrected THEN 0 ELSE t[l].cost
    <3>1. /\ SoldUnits(q, l) = SoldUnits(past, l)
                                 - (IF Takes(past[e], l) THEN past[e].allocation[l].units ELSE 0)
          /\ SoldTax(q, l) = SoldTax(past, l)
                                 - (IF Takes(past[e], l) THEN past[e].allocation[l].tax ELSE 0)
          /\ SoldUnits(past, l) \in Int /\ SoldTax(past, l) \in Int
      BY SoldFalls
    <3>2. Takes(past[e], l) <=> l \in A
      BY <1>3, <1>4 DEF Takes, Kind
    <3>3. /\ lots[l].units + SoldUnits(past, l) = IF past[l].corrected THEN 0 ELSE lots[l].count
          /\ lots[l].tax + SoldTax(past, l) = IF past[l].corrected THEN 0 ELSE lots[l].cost
      BY <1>1 DEF Traced
    <3>4. q[l].corrected = past[l].corrected
      <4>1. l # e
        BY <1>1 DEF Known
      <4>2. past[l] \in EventRow
        BY <1>1, <1>5, EventsFacts
      <4>3. past[l].corrected \in BOOLEAN
        BY <4>2, EventFacts
      <4>4. QED
        BY <1>2, <1>5, <4>1, <4>3
    <3>5. /\ lots[l].units \in Int /\ lots[l].tax \in Int
          /\ t[l].units = IF l \in A THEN lots[l].units + a[l].units ELSE lots[l].units
          /\ t[l].tax = IF l \in A THEN lots[l].tax + a[l].tax ELSE lots[l].tax
          /\ t[l].cost = lots[l].cost /\ t[l].count = lots[l].count
      BY <1>7 DEF Moves
    <3>6. CASE l \in A
      <4>1. a[l].units \in Int /\ a[l].tax \in Int
        BY <1>3, <3>6, AllocationFacts
      <4>2. QED
        BY <3>1, <3>2, <3>3, <3>4, <3>5, <3>6, <4>1
    <3>7. CASE l \notin A
      BY <3>1, <3>2, <3>3, <3>4, <3>5, <3>7
    <3>8. QED
      BY <3>6, <3>7
  <2>2. QED
    BY <1>9, <1>10, <2>1 DEF Traced
<1>17. QED
  BY <1>1, <1>12, <1>14, <1>15, <1>16 DEF Sound

-----------------------------------------------------------------------------
(* What the settlements that were not superseded paid: Paid, over any rows and events. *)

Counted(rows, past, kinds) ==
    {s \in DOMAIN rows : /\ ~ \E t \in DOMAIN rows : rows[t].supersedes = s
                         /\ past[rows[s].event].kind \in kinds}

PaidFor(rows, past, kinds) ==
    SumFunction([s \in Counted(rows, past, kinds) |-> past[rows[s].event].amount])

\* Settlements are of recorded events and supersede earlier ones.
Settles(rows, past) ==
    /\ rows \in Seq(SettlementRow) /\ past \in Seq(EventRow)
    /\ \A s \in DOMAIN rows : rows[s].event \in DOMAIN past /\ rows[s].supersedes \in 0 .. s - 1

LEMMA PaidIsPaidFor == \A kinds : Paid(kinds) = PaidFor(settlements, events, kinds)
BY DEF Paid, PaidFor, Counted, Superseded

LEMMA SettlesFacts ==
    ASSUME NEW rows, NEW past, Settles(rows, past), NEW kinds
    PROVE  /\ IsFiniteSet(Counted(rows, past, kinds)) /\ Counted(rows, past, kinds) \subseteq DOMAIN rows
           /\ \A s \in DOMAIN rows : past[rows[s].event].amount \in Int
           /\ [s \in Counted(rows, past, kinds) |-> past[rows[s].event].amount]
                \in [Counted(rows, past, kinds) -> Int]
           /\ PaidFor(rows, past, kinds) \in Int
<1> DEFINE S == Counted(rows, past, kinds)
           f == [s \in S |-> past[rows[s].event].amount]
<1>1. /\ rows \in Seq(SettlementRow) /\ past \in Seq(EventRow)
      /\ \A s \in DOMAIN rows : rows[s].event \in DOMAIN past
  BY DEF Settles
<1>2. S \in SUBSET DOMAIN rows /\ IsFiniteSet(DOMAIN rows)
  <2>1. DOMAIN rows = 1 .. Len(rows) /\ Len(rows) \in Nat
    BY <1>1, LenProperties
  <2>2. QED
    BY <2>1, FS_Interval DEF Counted
<1>3. IsFiniteSet(S)
  BY <1>2, FS_Subset
<1>4. ASSUME NEW s \in DOMAIN rows
      PROVE  past[rows[s].event].amount \in Int
  <2>1. past[rows[s].event] \in EventRow
    BY <1>1, EventsFacts
  <2>2. QED
    BY <2>1, EventFacts
<1>5. f \in [S -> Int]
  BY <1>2, <1>4
<1>6. PaidFor(rows, past, kinds) = SumFunction(f)
  BY DEF PaidFor
<1> HIDE DEF f, S
<1>7. SumFunction(f) \in Int
  BY <1>3, <1>5, SumFunctionInt
<1>8. QED
  BY <1>2, <1>3, <1>4, <1>5, <1>6, <1>7 DEF f, S

\* No event of past loses its kind or amount in q.
Preserves(q, past) ==
    /\ q \in Seq(EventRow) /\ past \in Seq(EventRow)
    /\ \A e \in DOMAIN past : e \in DOMAIN q /\ q[e].kind = past[e].kind /\ q[e].amount = past[e].amount

LEMMA PaidPreserved ==
    ASSUME NEW rows, NEW past, Settles(rows, past), NEW q, Preserves(q, past)
    PROVE  /\ Settles(rows, q)
           /\ \A kinds : PaidFor(rows, q, kinds) = PaidFor(rows, past, kinds)
<1>1. \A s \in DOMAIN rows :
        /\ rows[s].event \in DOMAIN q /\ q[rows[s].event].kind = past[rows[s].event].kind
        /\ q[rows[s].event].amount = past[rows[s].event].amount
  BY DEF Settles, Preserves
<1>2. Settles(rows, q)
  BY <1>1 DEF Settles, Preserves
<1>3. ASSUME NEW kinds
      PROVE  PaidFor(rows, q, kinds) = PaidFor(rows, past, kinds)
  <2>1. Counted(rows, q, kinds) = Counted(rows, past, kinds)
    BY <1>1 DEF Counted
  <2>2. [s \in Counted(rows, q, kinds) |-> q[rows[s].event].amount]
          = [s \in Counted(rows, past, kinds) |-> past[rows[s].event].amount]
    BY <1>1, <2>1 DEF Counted
  <2>3. QED
    BY <2>2 DEF PaidFor
<1>4. QED
  BY <1>2, <1>3

\* more is rows with one settlement more.
SettlesMore(more, rows, past, row) ==
    Settles(rows, past) /\ row \in SettlementRow /\ row.event \in DOMAIN past /\ more = Append(rows, row)

LEMMA RowAppended ==
    ASSUME NEW more, NEW rows, NEW past, NEW row, SettlesMore(more, rows, past, row)
    PROVE  /\ more \in Seq(SettlementRow) /\ Len(more) \in Nat /\ Len(more) = Len(rows) + 1
           /\ DOMAIN more = DOMAIN rows \cup {Len(more)} /\ Len(more) \notin DOMAIN rows
           /\ more[Len(more)] = row /\ \A s \in DOMAIN rows : more[s] = rows[s]
           /\ DOMAIN rows = 1 .. Len(rows) /\ Len(rows) \in Nat
<1>1. rows \in Seq(SettlementRow) /\ row \in SettlementRow /\ more = Append(rows, row)
  BY DEF SettlesMore, Settles
<1>2. DOMAIN rows = 1 .. Len(rows) /\ Len(rows) \in Nat
  BY <1>1, LenProperties
<1>3. more \in Seq(SettlementRow) /\ Len(more) = Len(rows) + 1
  BY <1>1
<1>4. DOMAIN more = 1 .. Len(more)
  BY <1>3, LenProperties
<1>5. QED
  BY <1>1, <1>2, <1>3, <1>4

LEMMA PaidMore ==
    ASSUME NEW more, NEW rows, NEW past, NEW row, SettlesMore(more, rows, past, row),
           row.supersedes = 0, NEW kinds
    PROVE  PaidFor(more, past, kinds) = PaidFor(rows, past, kinds)
                + (IF past[row.event].kind \in kinds THEN past[row.event].amount ELSE 0)
<1> DEFINE S == Counted(rows, past, kinds)
           T == Counted(more, past, kinds)
           f == [s \in S |-> past[rows[s].event].amount]
           g == [s \in T |-> past[more[s].event].amount]
           n == Len(more)
<1>1. Settles(rows, past)
  BY DEF SettlesMore
<1>2. /\ DOMAIN more = DOMAIN rows \cup {n} /\ n \notin DOMAIN rows
      /\ more[n] = row /\ \A s \in DOMAIN rows : more[s] = rows[s]
      /\ DOMAIN rows = 1 .. Len(rows) /\ Len(rows) \in Nat /\ n = Len(rows) + 1
  BY RowAppended
<1>3. \A s \in DOMAIN rows : rows[s].supersedes \in 0 .. s - 1
  BY <1>1 DEF Settles
<1>4. f \in [S -> Int] /\ IsFiniteSet(S) /\ S \subseteq DOMAIN rows
  BY <1>1, SettlesFacts
<1>5. past[row.event].amount \in Int
  <2>1. past \in Seq(EventRow) /\ row.event \in DOMAIN past
    BY DEF SettlesMore, Settles
  <2>2. QED
    BY <2>1, EventsFacts, EventFacts
<1>6. ASSUME NEW s \in DOMAIN more
      PROVE  (\E t \in DOMAIN more : more[t].supersedes = s)
               <=> s # n /\ \E t \in DOMAIN rows : rows[t].supersedes = s
  BY <1>2, <1>3
<1>7. T = IF past[row.event].kind \in kinds THEN S \cup {n} ELSE S
  <2> HIDE DEF n
  <2>1. \A s \in DOMAIN rows : s \in T <=> s \in S
    BY <1>2, <1>6 DEF Counted
  <2>2. n \in T <=> past[row.event].kind \in kinds
    BY <1>2, <1>6 DEF Counted
  <2>3. T \subseteq DOMAIN rows \cup {n}
    BY <1>2 DEF Counted
  <2> HIDE DEF S, T
  <2>4. QED
    BY <1>2, <1>4, <2>1, <2>2, <2>3
<1>8. PaidFor(rows, past, kinds) = SumFunction(f) /\ PaidFor(more, past, kinds) = SumFunction(g)
  BY DEF PaidFor
<1>9. \A s \in T : g[s] = past[more[s].event].amount
  OBVIOUS
<1>10. g \in [T -> Int] /\ \A s \in S : g[s] = f[s]
  <2>1. ASSUME NEW s \in T
        PROVE  g[s] \in Int
    <3> HIDE DEF S, n
    <3>1. CASE s = n
      BY <1>2, <1>5, <3>1
    <3>2. CASE s # n
      <4>1. s \in DOMAIN rows
        BY <1>2, <3>2 DEF Counted
      <4>2. QED
        BY <1>1, <1>2, <4>1, SettlesFacts
    <3>3. QED
      BY <3>1, <3>2
  <2>2. ASSUME NEW s \in S
        PROVE  g[s] = f[s]
    <3>1. s \in T /\ more[s] = rows[s]
      <4> HIDE DEF S, T, n
      <4> QED
        BY <1>2, <1>4, <1>7
    <3>2. QED
      BY <3>1
  <2>3. g = [s \in T |-> g[s]]
    OBVIOUS
  <2> HIDE DEF g, T
  <2>4. QED
    BY <2>1, <2>2, <2>3
<1>11. past[row.event].kind \in kinds => g[n] = past[row.event].amount
  <2>1. past[row.event].kind \in kinds => n \in T
    <3> HIDE DEF S, T
    <3> QED
      BY <1>7
  <2>2. QED
    BY <1>2, <2>1
<1> HIDE DEF S, T, f, g, n
<1> PICK joins \in BOOLEAN : joins <=> past[row.event].kind \in kinds
  OBVIOUS
<1>12. Joins(g, T, f, S, n, joins)
  BY <1>2, <1>4, <1>7, <1>10 DEF Joins
<1>13. QED
  BY <1>8, <1>11, <1>12, SumJoins

\* The row takes the place of row k, which nothing replaced before, for the same event.
Replaces(row, rows, k) ==
    /\ k \in DOMAIN rows /\ row.supersedes = k /\ row.event = rows[k].event
    /\ ~ \E t \in DOMAIN rows : rows[t].supersedes = k

\* A settlement that takes another's place, for the same event, pays nothing more.
LEMMA PaidReplaced ==
    ASSUME NEW more, NEW rows, NEW past, NEW row, SettlesMore(more, rows, past, row),
           NEW k, Replaces(row, rows, k), NEW kinds
    PROVE  PaidFor(more, past, kinds) = PaidFor(rows, past, kinds)
<1> DEFINE S == Counted(rows, past, kinds)
           T == Counted(more, past, kinds)
           M == S \ {k}
           f == [s \in S |-> past[rows[s].event].amount]
           h == [s \in M |-> f[s]]
           g == [s \in T |-> past[more[s].event].amount]
           n == Len(more)
<1>1. Settles(rows, past)
  BY DEF SettlesMore
<1>2. /\ DOMAIN more = DOMAIN rows \cup {n} /\ n \notin DOMAIN rows
      /\ more[n] = row /\ \A s \in DOMAIN rows : more[s] = rows[s]
      /\ DOMAIN rows = 1 .. Len(rows) /\ Len(rows) \in Nat /\ n = Len(rows) + 1
  BY RowAppended
<1>3. \A s \in DOMAIN rows : rows[s].supersedes \in 0 .. s - 1
  BY <1>1 DEF Settles
<1>4. f \in [S -> Int] /\ IsFiniteSet(S) /\ S \subseteq DOMAIN rows
  BY <1>1, SettlesFacts
<1>5. past[row.event].amount \in Int
  <2>1. past \in Seq(EventRow) /\ row.event \in DOMAIN past
    BY DEF SettlesMore, Settles
  <2>2. QED
    BY <2>1, EventsFacts, EventFacts
<1>6. ASSUME NEW s \in DOMAIN more
      PROVE  (\E t \in DOMAIN more : more[t].supersedes = s)
               <=> s # n /\ (s = k \/ \E t \in DOMAIN rows : rows[t].supersedes = s)
  BY <1>2, <1>3 DEF Replaces
<1>7. T = IF past[row.event].kind \in kinds THEN M \cup {n} ELSE M
  <2> HIDE DEF n
  <2>1. \A s \in DOMAIN rows : s \in T <=> s \in S /\ s # k
    BY <1>2, <1>6 DEF Counted
  <2>2. n \in T <=> past[row.event].kind \in kinds
    BY <1>2, <1>6 DEF Counted
  <2>3. T \subseteq DOMAIN rows \cup {n}
    BY <1>2 DEF Counted
  <2> HIDE DEF S, T
  <2>4. QED
    BY <1>2, <1>4, <2>1, <2>2, <2>3
<1>8. PaidFor(rows, past, kinds) = SumFunction(f) /\ PaidFor(more, past, kinds) = SumFunction(g)
  BY DEF PaidFor
<1>9. k \in S <=> past[row.event].kind \in kinds
  BY DEF Counted, Replaces
<1>10. k \in S => f[k] = past[row.event].amount
  BY DEF Replaces
<1>11. g \in [T -> Int] /\ \A s \in M : g[s] = f[s]
  <2>1. ASSUME NEW s \in T
        PROVE  g[s] \in Int
    <3> HIDE DEF S, n
    <3>1. CASE s = n
      BY <1>2, <1>5, <3>1
    <3>2. CASE s # n
      <4>1. s \in DOMAIN rows
        BY <1>2, <3>2 DEF Counted
      <4>2. QED
        BY <1>1, <1>2, <4>1, SettlesFacts
    <3>3. QED
      BY <3>1, <3>2
  <2>2. ASSUME NEW s \in M
        PROVE  g[s] = f[s]
    <3>1. s \in T /\ more[s] = rows[s] /\ s \in S
      <4> HIDE DEF S, T, n
      <4> QED
        BY <1>2, <1>4, <1>7
    <3>2. QED
      BY <3>1
  <2>3. g = [s \in T |-> g[s]]
    OBVIOUS
  <2> HIDE DEF g, T, M
  <2>4. QED
    BY <2>1, <2>2, <2>3
<1>12. past[row.event].kind \in kinds => g[n] = past[row.event].amount
  <2>1. past[row.event].kind \in kinds => n \in T
    <3> HIDE DEF S, T
    <3> QED
      BY <1>7
  <2>2. QED
    BY <1>2, <2>1
<1> HIDE DEF S, T, f, g, n
<1>13. h \in [M -> Int] /\ \A s \in M : h[s] = f[s] /\ g[s] = h[s]
  BY <1>4, <1>11
<1>14. IsFiniteSet(M) /\ n \notin M
  BY <1>2, <1>4, FS_Subset
<1> HIDE DEF h
<1>15. Leaves(h, M, f, S, k)
  BY <1>4, <1>13 DEF Leaves
<1> HIDE DEF M
<1> PICK joins \in BOOLEAN : joins <=> past[row.event].kind \in kinds
  OBVIOUS
<1>16. Joins(g, T, h, M, n, joins)
  BY <1>7, <1>11, <1>13, <1>14 DEF Joins
<1>17. /\ SumFunction(h) = SumFunction(f) - (IF k \in S THEN f[k] ELSE 0) /\ SumFunction(f) \in Int
  BY <1>15, SumLeaves
<1>18. /\ SumFunction(g) = SumFunction(h) + (IF joins THEN g[n] ELSE 0) /\ SumFunction(h) \in Int
  BY <1>16, SumJoins
<1>19. QED
  BY <1>5, <1>8, <1>9, <1>10, <1>12, <1>17, <1>18

LEMMA SettlesMoreSettles ==
    ASSUME NEW more, NEW rows, NEW past, NEW row, SettlesMore(more, rows, past, row),
           row.supersedes = 0 \/ row.supersedes \in DOMAIN rows
    PROVE  Settles(more, past)
<1>1. Settles(rows, past) /\ row.event \in DOMAIN past
  BY DEF SettlesMore
<1>2. /\ more \in Seq(SettlementRow)
      /\ DOMAIN more = DOMAIN rows \cup {Len(more)} /\ Len(more) \notin DOMAIN rows
      /\ more[Len(more)] = row /\ \A s \in DOMAIN rows : more[s] = rows[s]
      /\ DOMAIN rows = 1 .. Len(rows) /\ Len(rows) \in Nat /\ Len(more) = Len(rows) + 1
  BY RowAppended
<1>3. row.supersedes \in 0 .. Len(more) - 1
  BY <1>2
<1>4. QED
  BY <1>1, <1>2, <1>3 DEF Settles

-----------------------------------------------------------------------------
(* The measurement. *)

\* One of finitely many lots was acquired last.
LEMMA LastAcquired ==
    ASSUME NEW S, IsFiniteSet(S), S # {}, NEW day, \A l \in S : day[l] \in Nat
    PROVE  \E l \in S : \A m \in S : day[m] <= day[l]
<1> DEFINE IsLast(s, l) == \A m \in s : day[m] <= day[l]
           T == {s \in SUBSET S : s # {} /\ ~ \E l \in s : IsLast(s, l)}
<1> SUFFICES ASSUME T # {} PROVE FALSE
  <2>1. S \notin T => \E l \in S : IsLast(S, l)
    OBVIOUS
  <2>2. QED
    BY <2>1
<1>0. T \in SUBSET SUBSET S
  OBVIOUS
<1>1. PICK m \in T : \A s \in T : s \subseteq m => s = m
  <2> HIDE DEF T
  <2> QED
    BY <1>0, SmallestSubset
<1>2. m \in SUBSET S /\ m # {} /\ ~ \E l \in m : IsLast(m, l)
  OBVIOUS
<1>3. PICK x : x \in m
  BY <1>2
<1>4. day[x] \in Nat
  BY <1>2, <1>3
<1>5. CASE m \ {x} = {}
  <2>1. IsLast(m, x)
    BY <1>3, <1>4, <1>5
  <2>2. QED
    BY <1>2, <1>3, <2>1
<1>6. CASE m \ {x} # {}
  <2>1. m \ {x} \in SUBSET S /\ m \ {x} \notin T
    BY <1>1, <1>2, <1>3
  <2>2. PICK y \in m \ {x} : IsLast(m \ {x}, y)
    BY <1>6, <2>1
  <2>3. day[y] \in Nat /\ \A z \in m : day[z] \in Nat
    BY <1>2
  <2>4. CASE day[x] <= day[y]
    <3>1. IsLast(m, y)
      BY <2>2, <2>4
    <3>2. QED
      BY <1>2, <3>1
  <2>5. CASE ~ day[x] <= day[y]
    <3>1. IsLast(m, x)
      BY <1>4, <2>2, <2>3, <2>5
    <3>2. QED
      BY <1>2, <1>3, <3>1
  <2>6. QED
    BY <2>4, <2>5
<1>7. QED
  BY <1>5, <1>6

LEMMA KnownSame ==
    ASSUME NEW held, NEW past, Known(held, past), NEW new, SameLots(new, held)
    PROVE  Known(new, past)
BY DEF Known, SameLots

LEMMA NearestInt ==
    ASSUME NEW a \in Int, NEW b \in Nat \ {0}
    PROVE  Nearest(a, b) \in Int
BY DEF Nearest

\* A position's lots as the measurement finds them, and those of them that are open.
Measured(lots, D) == IsFiniteSet(D) /\ lots \in [D -> Lot] /\ LotChecks(lots)
Open(lots) == {l \in DOMAIN lots : lots[l].units > 0}

LEMMA MeasuredFacts ==
    ASSUME NEW lots, NEW D, Measured(lots, D)
    PROVE  /\ DOMAIN lots = D /\ Open(lots) \in SUBSET D /\ IsFiniteSet(Open(lots))
           /\ \A l \in D : /\ lots[l].day \in Nat /\ lots[l].count \in Nat \ {0}
                           /\ lots[l].cost \in Nat /\ lots[l].units \in Nat
                           /\ lots[l].book \in Nat /\ lots[l].tax \in Nat
           /\ \A l \in D \ Open(lots) : lots[l].book = 0
<1>1. lots \in [D -> Lot] /\ IsFiniteSet(D) /\ LotChecks(lots) /\ DOMAIN lots = D
  BY DEF Measured
<1>2. Open(lots) \in SUBSET D
  BY <1>1 DEF Open
<1>3. IsFiniteSet(Open(lots))
  BY <1>1, <1>2, FS_Subset
<1>4. Counts \subseteq Nat \ {0} /\ Days \subseteq Nat
  BY AmountsAssumption
<1>5. ASSUME NEW l \in D
      PROVE  /\ lots[l].day \in Nat /\ lots[l].count \in Nat \ {0}
             /\ lots[l].cost \in Nat /\ lots[l].units \in Nat
             /\ lots[l].book \in Nat /\ lots[l].tax \in Nat
  <2>1. lots[l] \in Lot
    BY <1>1
  <2>2. QED
    BY <1>4, <2>1 DEF Lot
<1>6. ASSUME NEW l \in D \ Open(lots)
      PROVE  lots[l].book = 0
  <2>1. lots[l].units \in Nat /\ ~ lots[l].units > 0
    BY <1>1, <1>5 DEF Open
  <2>2. QED
    BY <1>1, <2>1 DEF LotChecks
<1>7. QED
  BY <1>1, <1>2, <1>3, <1>5, <1>6

LEMMA ProductNat == \A a, b \in Nat : a * b \in Nat
OBVIOUS

LEMMA ProductInt == \A a, b \in Int : a * b \in Int
OBVIOUS

LEMMA ProductPositive == \A a, b \in Nat \ {0} : a * b \in Nat \ {0}
OBVIOUS

LEMMA SourceInt ==
    ASSUME NEW lots, NEW D, Measured(lots, D)
    PROVE  Source(lots, Open(lots)) \in Int /\ (Open(lots) = {} => Source(lots, Open(lots)) = 0)
<1> DEFINE f == [l \in DOMAIN lots |-> Nearest(lots[l].cost * lots[l].units, lots[l].count)]
<1>1. ASSUME NEW l \in Open(lots)
      PROVE  f[l] \in Int
  <2>1. l \in D /\ l \in DOMAIN lots /\ lots[l].cost \in Nat /\ lots[l].units \in Nat
        /\ lots[l].count \in Nat \ {0}
    BY MeasuredFacts
  <2>2. lots[l].cost * lots[l].units \in Nat
    BY <2>1, ProductNat
  <2>3. Nearest(lots[l].cost * lots[l].units, lots[l].count) \in Int
    BY <2>1, <2>2, NearestInt
  <2>4. QED
    BY <2>1, <2>3
<1>2. Source(lots, Open(lots)) = SumFunctionOnSet(f, Open(lots))
  BY DEF Source
<1>3. IsFiniteSet(Open(lots))
  BY MeasuredFacts
<1> HIDE DEF f
<1>4. QED
  BY <1>1, <1>2, <1>3, SumInt, SumEmpty

\* The lots of new are those of lots with another book value, which comes to closing.
Revalued(new, lots, D, closing) ==
    /\ DOMAIN new = D /\ new = [l \in D |-> new[l]]
    /\ \A l \in D : new[l].day = lots[l].day /\ new[l].count = lots[l].count
                    /\ new[l].cost = lots[l].cost /\ new[l].units = lots[l].units
                    /\ new[l].tax = lots[l].tax
    /\ \A l \in D : LotChecks(new) => new[l] \in Lot
    /\ Book(new, D) = closing

\* What rounding leaves over goes to the last lot, so that the closing value is spread
\* over the open lots whole.
LEMMA RescaledAre ==
    ASSUME NEW lots, NEW D, Measured(lots, D), Open(lots) # {},
           Source(lots, Open(lots)) \in Nat \ {0}, NEW closing \in Nat
    PROVE  Revalued(Rescaled(lots, Open(lots), closing), lots, D, closing)
<1> PICK open : open = Open(lots)
  OBVIOUS
<1> PICK source : source = Source(lots, open)
  OBVIOUS
<1> PICK new : new = Rescaled(lots, open, closing)
  OBVIOUS
<1> DEFINE part == [l \in open |-> Nearest(lots[l].cost * lots[l].units * closing,
                                          lots[l].count * source)]
           final == CHOOSE l \in open : \A m \in open : lots[m].day <= lots[l].day
<1>1. /\ DOMAIN lots = D /\ open \in SUBSET D /\ IsFiniteSet(open) /\ open # {}
      /\ \A l \in D : /\ lots[l].day \in Nat /\ lots[l].count \in Nat \ {0}
                      /\ lots[l].cost \in Nat /\ lots[l].units \in Nat
                      /\ lots[l].book \in Nat /\ lots[l].tax \in Nat
      /\ \A l \in D \ open : lots[l].book = 0
      /\ source \in Nat \ {0} /\ IsFiniteSet(D) /\ lots \in [D -> Lot]
  <2>1. IsFiniteSet(D) /\ lots \in [D -> Lot]
    BY DEF Measured
  <2>2. QED
    BY <2>1, MeasuredFacts
<1>2. part \in [open -> Int]
  <2>1. ASSUME NEW l \in open
        PROVE  Nearest(lots[l].cost * lots[l].units * closing, lots[l].count * source) \in Int
    <3>1. lots[l].cost \in Nat /\ lots[l].units \in Nat /\ lots[l].count \in Nat \ {0}
      BY <1>1
    <3>2. lots[l].cost * lots[l].units \in Nat
      BY <3>1, ProductNat
    <3>3. lots[l].cost * lots[l].units * closing \in Nat
      BY <3>2, ProductNat
    <3>4. lots[l].count * source \in Nat \ {0}
      BY <1>1, <3>1, ProductPositive
    <3>5. QED
      BY <3>3, <3>4, NearestInt
  <2>2. QED
    BY <2>1
<1>3. final \in open
  <2>1. \A l \in open : lots[l].day \in Nat
    BY <1>1
  <2> DEFINE day == [l \in open |-> lots[l].day]
  <2>2. \A l \in open : day[l] \in Nat
    BY <2>1
  <2>3. \E l \in open : \A m \in open : day[m] <= day[l]
    <3> HIDE DEF day
    <3> QED
      BY <1>1, <2>2, LastAcquired
  <2>4. \E l \in open : \A m \in open : lots[m].day <= lots[l].day
    BY <2>3
  <2>5. QED
    BY <2>4
<1> PICK p : p = part
  OBVIOUS
<1> PICK last : last = final
  OBVIOUS
<1> PICK rest : rest = closing - SumFunction(p)
  OBVIOUS
<1>4. new = [l \in DOMAIN lots |->
               IF l \in open THEN [lots[l] EXCEPT !.book = p[l] + (IF l = last THEN rest ELSE 0)]
               ELSE lots[l]]
  BY DEF Rescaled
<1>5. p \in [open -> Int] /\ last \in open
  BY <1>2, <1>3
<1> HIDE DEF part, final
<1>6. SumFunction(p) \in Int
  BY <1>1, <1>5, SumFunctionInt
<1>7. DOMAIN new = D /\ new = [l \in D |-> new[l]]
  BY <1>1, <1>4
<1>8. ASSUME NEW l \in D
      PROVE  /\ new[l].day = lots[l].day /\ new[l].count = lots[l].count
             /\ new[l].cost = lots[l].cost /\ new[l].units = lots[l].units
             /\ new[l].tax = lots[l].tax
             /\ l \in open => new[l].book = p[l] + (IF l = last THEN rest ELSE 0)
             /\ l \notin open => new[l].book = 0
             /\ new[l].book \in Nat => new[l] \in Lot
  <2>1. lots[l] \in Lot
    BY <1>1
  <2>2. CASE l \in open
    <3> PICK b : b = p[l] + (IF l = last THEN rest ELSE 0)
      OBVIOUS
    <3>1. new[l] = [lots[l] EXCEPT !.book = b]
      BY <1>1, <1>4, <2>2
    <3>2. QED
      BY <2>1, <2>2, <3>1 DEF Lot
  <2>3. CASE l \notin open
    <3>1. new[l] = lots[l]
      BY <1>1, <1>4, <2>3
    <3>2. QED
      BY <1>1, <2>1, <2>3, <3>1
  <2>4. QED
    BY <2>2, <2>3
<1>9. ASSUME NEW l \in D, LotChecks(new)
      PROVE  new[l] \in Lot
  <2>1. new[l].book \in 0 .. new[l].cost /\ new[l].cost \in Nat
    BY <1>1, <1>7, <1>8, <1>9 DEF LotChecks
  <2>2. QED
    BY <1>8, <2>1
<1>10. Book(new, D) = closing
  <2> DEFINE h == [l \in DOMAIN new |-> new[l].book]
             g == [l \in open |-> p[l] + (IF l = last THEN rest ELSE 0)]
  <2>1. /\ \A l \in open : g[l] = p[l] + (IF l = last THEN rest ELSE 0)
        /\ \A l \in open : h[l] = p[l] + (IF l = last THEN rest ELSE 0)
        /\ \A l \in D \ open : h[l] = 0
    BY <1>1, <1>7, <1>8
  <2>2. Book(new, D) = SumFunctionOnSet(h, D)
    BY DEF Book
  <2> HIDE DEF h, g
  <2>3. \A l \in open : p[l] \in Int /\ g[l] \in Int /\ h[l] = g[l]
    BY <1>5, <1>6, <2>1
  <2>4. SumFunctionOnSet(h, D) = SumFunctionOnSet(g, open)
    BY <1>1, <2>1, <2>3, SumSupport
  <2>5. SumFunctionOnSet(g, open) = SumFunctionOnSet(p, open) + (g[last] - p[last])
    <3>1. \A l \in open : l # last => p[l] = g[l]
      BY <2>1, <2>3
    <3>2. QED
      BY <1>1, <1>5, <2>3, <3>1, SumChange
  <2>6. SumFunctionOnSet(p, open) = SumFunction(p)
    BY <1>5, SumAll
  <2>7. g[last] - p[last] = rest
    BY <1>5, <1>6, <2>1, <2>3
  <2>8. QED
    BY <1>6, <2>2, <2>4, <2>5, <2>6, <2>7
<1>11. Revalued(new, lots, D, closing)
  BY <1>7, <1>8, <1>9, <1>10 DEF Revalued
<1>12. QED
  BY <1>11

LEMMA ChangeLines ==
    ASSUME NEW change \in Int
    PROVE  LET j == Lines([investment |-> change, result |-> -change]) IN
           /\ j \in [Accounts -> Int]
           /\ j["investment"] = change /\ j["payable"] = 0 /\ j["receivable"] = 0 /\ j["bank"] = 0
<1> PICK loss \in Int : loss = -change
  OBVIOUS
<1>1. LET j == Lines([investment |-> change, result |-> loss]) IN
      /\ j["investment"] = change /\ j["payable"] = 0 /\ j["receivable"] = 0 /\ j["bank"] = 0
      /\ j["result"] = loss
  BY DEF Lines, Accounts
<1>2. Lines([investment |-> change, result |-> loss]) \in [Accounts -> Int]
  BY <1>1 DEF Lines, Accounts
<1>3. QED
  BY <1>1, <1>2

\* The journal of the measurement.
LEMMA ChangeBooked ==
    ASSUME NEW held, NEW past, NEW balances, NEW paid, NEW received,
           Booked(held, past, balances, paid, received), held.book \in Int,
           NEW change \in Int, NEW new, new.book = held.book + change,
           {paid, received, Amount(past, {"purchase"}), Amount(past, {"sale", "income"})} \subseteq Int
    PROVE  Booked(new, past, Posted(balances, Lines([investment |-> change, result |-> -change])),
                  paid, received)
<1> PICK j : j = Lines([investment |-> change, result |-> -change])
  OBVIOUS
<1>1. /\ j["investment"] = change /\ j["payable"] = 0 /\ j["receivable"] = 0 /\ j["bank"] = 0
  BY ChangeLines
<1>2. j \in [Accounts -> Int]
  BY ChangeLines
<1>3. balances \in [Accounts -> Int]
  BY DEF Booked
<1>4. /\ Posted(balances, j) \in [Accounts -> Int]
      /\ \A a \in Accounts : Posted(balances, j)[a] = balances[a] + j[a]
      /\ {"investment", "payable", "receivable", "bank"} \subseteq Accounts
  BY <1>2, <1>3, PostedAt
<1>5. \A a \in {"investment", "payable", "receivable", "bank"} : balances[a] \in Int
  BY <1>3, <1>4
<1> PICK after : after = Posted(balances, j)
  OBVIOUS
<1>6. /\ after["investment"] = balances["investment"] + change
      /\ after["payable"] = balances["payable"] /\ after["receivable"] = balances["receivable"]
      /\ after["bank"] = balances["bank"] /\ after \in [Accounts -> Int]
  BY <1>1, <1>4, <1>5
<1>7. Booked(new, past, after, paid, received)
  BY <1>6 DEF Booked
<1>8. QED
  BY <1>7

\* What the standing events come to is an integer.
LEMMA SumsOfEvents ==
    ASSUME NEW past \in Seq(EventRow)
    PROVE  /\ Amount(past, {"purchase"}) \in Int /\ Amount(past, {"sale", "income"}) \in Int
           /\ Carrying(past) \in Int
<1>1. ASSUME NEW kinds
      PROVE  Amount(past, kinds) \in Int
  <2> PICK f : f = [e \in Standing(past, kinds) |-> past[e].amount]
    OBVIOUS
  <2>1. f \in [Standing(past, kinds) -> Int] /\ IsFiniteSet(Standing(past, kinds))
    BY TermsFacts, StandingFacts
  <2>2. Amount(past, kinds) = SumFunction(f)
    BY DEF Amount
  <2>3. QED
    BY <2>1, <2>2, SumFunctionInt
<1>2. Carrying(past) \in Int
  <2> PICK f : f = [e \in Standing(past, {"sale"}) |-> past[e].carrying]
    OBVIOUS
  <2>1. f \in [Standing(past, {"sale"}) -> Int] /\ IsFiniteSet(Standing(past, {"sale"}))
    BY TermsFacts, StandingFacts
  <2>2. Carrying(past) = SumFunction(f)
    BY DEF Carrying
  <2>3. QED
    BY <2>1, <2>2, SumFunctionInt
<1>3. QED
  BY <1>1, <1>2

\* new is the position with its lots revalued to closing.
Remeasures(new, held, past, closing) ==
    /\ Revalued(new.lots, held.lots, DOMAIN held.lots, closing) /\ LotChecks(new.lots)
    /\ new.units = held.units /\ new.tax = held.tax /\ new.book = closing

LEMMA RemeasuredSound ==
    ASSUME NEW held, NEW past, NEW closing, NEW new, Known(held, past), Traced(held, past),
           InStep(held), Remeasures(new, held, past, closing)
    PROVE  Known(new, past) /\ Traced(new, past) /\ InStep(new)
<1> PICK D : D = DOMAIN held.lots
  OBVIOUS
<1> PICK lots, t : lots = held.lots /\ t = new.lots
  OBVIOUS
<1>1. /\ DOMAIN t = D /\ DOMAIN lots = D /\ LotChecks(t)
      /\ \A l \in D : t[l].count = lots[l].count /\ t[l].cost = lots[l].cost
                      /\ t[l].units = lots[l].units /\ t[l].tax = lots[l].tax
      /\ \A l \in D : t[l] \in Lot
      /\ Book(t, D) = closing /\ new.units = held.units /\ new.tax = held.tax /\ new.book = closing
  BY DEF Remeasures, Revalued
<1>2. IsFiniteSet(D)
  BY KnownFacts
<1>3. t \in [D -> Lot]
  <2>1. t = [l \in D |-> t[l]]
    BY DEF Remeasures, Revalued
  <2>2. QED
    BY <1>1, <2>1
<1>4. SameLots(new, held)
  BY <1>1, <1>3 DEF SameLots
<1>5. Known(new, past)
  BY <1>4, KnownSame
<1>6. Traced(new, past)
  BY <1>1 DEF Traced
<1>7. Units(t, D) = Units(lots, D) /\ Tax(t, D) = Tax(lots, D)
  <2>1. Units(t, D) = Units(lots, D)
    <3> DEFINE f == [l \in DOMAIN t |-> t[l].units]
               g == [l \in DOMAIN lots |-> lots[l].units]
    <3>1. \A l \in D : f[l] = g[l]
      BY <1>1
    <3>2. Units(t, D) = SumFunctionOnSet(f, D) /\ Units(lots, D) = SumFunctionOnSet(g, D)
      BY DEF Units
    <3> HIDE DEF f, g
    <3>3. QED
      BY <1>2, <3>1, <3>2, SumAgree
  <2>2. Tax(t, D) = Tax(lots, D)
    <3> DEFINE f == [l \in DOMAIN t |-> t[l].tax]
               g == [l \in DOMAIN lots |-> lots[l].tax]
    <3>1. \A l \in D : f[l] = g[l]
      BY <1>1
    <3>2. Tax(t, D) = SumFunctionOnSet(f, D) /\ Tax(lots, D) = SumFunctionOnSet(g, D)
      BY DEF Tax
    <3> HIDE DEF f, g
    <3>3. QED
      BY <1>2, <3>1, <3>2, SumAgree
  <2>3. QED
    BY <2>1, <2>2
<1>8. held.units = Units(lots, D) /\ held.tax = Tax(lots, D)
  BY DEF InStep
<1>9. InStep(new)
  BY <1>1, <1>7, <1>8 DEF InStep
<1>10. QED
  BY <1>5, <1>6, <1>9

LEMMA MeasureSound ==
    ASSUME NEW paid, NEW received, Sound(register, events, books, 0, paid, received), Measure
    PROVE  Sound(register', events, books', measurement'.change, paid, received)
<1> PICK held, past, balances : held = register /\ past = events /\ balances = books
  OBVIOUS
<1> PICK lots, D : lots = held.lots /\ D = DOMAIN held.lots
  OBVIOUS
<1> PICK open : open = Open(lots)
  OBVIOUS
<1> PICK source : source = Source(lots, open)
  OBVIOUS
<1>1. PICK value \in Values :
        LET closing == Lesser(source, value * Scale)
            change == closing - held.book
        IN /\ measurement' = [done |-> TRUE, change |-> change]
           /\ register' = IF change = 0 THEN held
                          ELSE [held EXCEPT !.lots = Rescaled(lots, open, closing), !.book = closing]
           /\ LotChecks(register'.lots)
           /\ books' = Posted(balances, Lines([investment |-> change, result |-> -change]))
  BY DEF Measure, Open
<1> PICK closing : closing = Lesser(source, value * Scale)
  OBVIOUS
<1> PICK change : change = closing - held.book
  OBVIOUS
<1> PICK new, after : new = register' /\ after = books'
  OBVIOUS
<1>2. /\ measurement'.change = change
      /\ new = IF change = 0 THEN held
               ELSE [held EXCEPT !.lots = Rescaled(lots, open, closing), !.book = closing]
      /\ LotChecks(new.lots)
      /\ after = Posted(balances, Lines([investment |-> change, result |-> -change]))
      /\ held.book <= source
  <2>1. held.book <= source
    BY DEF Measure, Open
  <2>2. QED
    BY <1>1, <2>1
<1>3. /\ Known(held, past) /\ Traced(held, past) /\ InStep(held)
      /\ Valued(held, past, 0) /\ Booked(held, past, balances, paid, received)
      /\ paid \in Int /\ received \in Int
  BY DEF Sound
<1>4. IsFiniteSet(D) /\ past \in Seq(EventRow)
  BY <1>3, KnownFacts
<1>5. Measured(lots, D)
  BY <1>3, <1>4 DEF Measured, Known
<1>6. source \in Int /\ (open = {} => source = 0)
  BY <1>5, SourceInt
<1>7. held.book \in Nat
  <2>1. \A l \in D : lots[l].units \in Nat /\ lots[l].book \in Nat /\ lots[l].tax \in Nat
    BY <1>5, MeasuredFacts
  <2>2. Book(lots, D) \in Nat
    BY <1>4, <2>1, SumsAre
  <2>3. QED
    BY <1>3, <2>2 DEF InStep
<1>8. source \in Nat
  BY <1>2, <1>6, <1>7
<1>9. closing \in Nat /\ closing <= source
  <2>1. value * Scale \in Nat
    BY AmountsAssumption, ProductNat
  <2>2. QED
    BY <1>8, <2>1 DEF Lesser
<1>10. change \in Int /\ held.book + change = closing
  BY <1>7, <1>9
<1>11. Known(new, past) /\ Traced(new, past) /\ InStep(new) /\ new.book = closing
  <2>1. CASE change = 0
    BY <1>2, <1>3, <1>7, <1>10, <2>1
  <2>2. CASE change # 0
    <3>1. source \in Nat \ {0}
      BY <1>2, <1>7, <1>8, <1>9, <1>10, <2>2
    <3>2. open # {}
      BY <1>6, <3>1
    <3> PICK t : t = Rescaled(lots, open, closing)
      OBVIOUS
    <3>3. Revalued(t, lots, D, closing)
      BY <1>5, <1>9, <3>1, <3>2, RescaledAre
    <3>4. Remeasures(new, held, past, closing)
      <4>1. new = [held EXCEPT !.lots = t, !.book = closing]
        BY <1>2, <2>2
      <4>2. new.lots = t /\ new.book = closing /\ new.units = held.units /\ new.tax = held.tax
        BY <1>3, <4>1
      <4>3. QED
        BY <1>2, <3>3, <4>2 DEF Remeasures
    <3>5. QED
      BY <1>3, <3>4, RemeasuredSound DEF Remeasures
  <2>3. QED
    BY <2>1, <2>2
<1>12. {paid, received, Amount(past, {"purchase"}), Amount(past, {"sale", "income"})} \subseteq Int
       /\ Carrying(past) \in Int
  BY <1>3, <1>4, SumsOfEvents
<1>13. Booked(new, past, after, paid, received)
  <2>1. new.book = held.book + change /\ held.book \in Int
    BY <1>7, <1>10, <1>11
  <2>2. Booked(held, past, balances, paid, received) /\ change \in Int
    BY <1>3, <1>10
  <2>3. Booked(new, past, Posted(balances, Lines([investment |-> change, result |-> -change])),
               paid, received)
    BY <1>12, <2>1, <2>2, ChangeBooked
  <2>4. QED
    BY <1>2, <2>3
<1>14. Valued(new, past, change)
  BY <1>3, <1>7, <1>9, <1>10, <1>11, <1>12 DEF Valued
<1>15. Sound(new, past, after, change, paid, received)
  BY <1>3, <1>10, <1>11, <1>13, <1>14 DEF Sound
<1>16. QED
  BY <1>2, <1>15

-----------------------------------------------------------------------------
(* A settlement is recorded, or another put in its place. *)

\* What was paid and received once the event is settled as well.
Pays(paying, paid, receiving, received, event) ==
    /\ paying = paid + (IF event.kind = "purchase" THEN event.amount ELSE 0)
    /\ receiving = received + (IF event.kind = "purchase" THEN 0 ELSE event.amount)

LEMMA PaymentBooked ==
    ASSUME NEW held, NEW past, past \in Seq(EventRow), NEW balances,
           NEW paid \in Int, NEW received \in Int, Booked(held, past, balances, paid, received),
           NEW event \in EventRow, NEW paying, NEW receiving,
           Pays(paying, paid, receiving, received, event)
    PROVE  /\ Booked(held, past, Posted(balances, Payment(event)), paying, receiving)
           /\ paying \in Int /\ receiving \in Int
<1> PICK j : j = Payment(event)
  OBVIOUS
<1> PICK after : after = Posted(balances, j)
  OBVIOUS
<1>1. event.kind \in Kind /\ event.amount \in Int
  BY EventFacts
<1>2. /\ j \in [Accounts -> Int] /\ j["investment"] = 0
      /\ j["payable"] = IF event.kind = "purchase" THEN event.amount ELSE 0
      /\ j["receivable"] = IF event.kind = "purchase" THEN 0 ELSE -event.amount
      /\ j["bank"] = IF event.kind = "purchase" THEN -event.amount ELSE event.amount
  BY <1>1, PaymentAt
<1>3. /\ balances \in [Accounts -> Int]
      /\ balances["investment"] = held.book
      /\ balances["payable"] = paid - Amount(past, {"purchase"})
      /\ balances["receivable"] = Amount(past, {"sale", "income"}) - received
      /\ balances["bank"] = received - paid
  BY DEF Booked
<1>4. /\ after \in [Accounts -> Int]
      /\ \A a \in Accounts : after[a] = balances[a] + j[a]
      /\ {"investment", "payable", "receivable", "bank"} \subseteq Accounts
  BY <1>2, <1>3, PostedAt
<1>5. /\ after["investment"] = balances["investment"] + j["investment"]
      /\ after["payable"] = balances["payable"] + j["payable"]
      /\ after["receivable"] = balances["receivable"] + j["receivable"]
      /\ after["bank"] = balances["bank"] + j["bank"]
      /\ balances["investment"] \in Int /\ balances["payable"] \in Int
      /\ balances["receivable"] \in Int /\ balances["bank"] \in Int
  BY <1>3, <1>4
<1>6. Amount(past, {"purchase"}) \in Int /\ Amount(past, {"sale", "income"}) \in Int
  BY SumsOfEvents
<1> PICK bought \in Int, due \in Int, amount \in Int :
       /\ bought = Amount(past, {"purchase"}) /\ due = Amount(past, {"sale", "income"})
       /\ amount = event.amount
  BY <1>1, <1>6
<1>7. CASE event.kind = "purchase"
  <2>1. j["investment"] = 0 /\ j["payable"] = amount /\ j["receivable"] = 0 /\ j["bank"] = -amount
    BY <1>2, <1>7
  <2>2. paying = paid + amount /\ receiving = received
    BY <1>7 DEF Pays
  <2>3. /\ after["investment"] = held.book /\ after["payable"] = paying - bought
        /\ after["receivable"] = due - receiving /\ after["bank"] = receiving - paying
        /\ paying \in Int /\ receiving \in Int
    <3>1. after["investment"] = held.book
      <4>1. after["investment"] = balances["investment"] + 0 /\ balances["investment"] \in Int
        BY <1>5, <2>1
      <4>2. QED
        BY <1>3, <4>1
    <3>2. after["payable"] = paying - bought
      BY <1>3, <1>5, <2>1, <2>2
    <3>3. after["receivable"] = due - receiving
      BY <1>3, <1>5, <2>1, <2>2
    <3>4. after["bank"] = receiving - paying
      BY <1>3, <1>5, <2>1, <2>2
    <3>5. QED
      BY <2>2, <3>1, <3>2, <3>3, <3>4
  <2>4. QED
    BY <1>4, <2>3 DEF Booked
<1>8. CASE event.kind # "purchase"
  <2>1. j["investment"] = 0 /\ j["payable"] = 0 /\ j["receivable"] = -amount /\ j["bank"] = amount
    BY <1>2, <1>8
  <2>2. paying = paid /\ receiving = received + amount
    BY <1>8 DEF Pays
  <2>3. /\ after["investment"] = held.book /\ after["payable"] = paying - bought
        /\ after["receivable"] = due - receiving /\ after["bank"] = receiving - paying
        /\ paying \in Int /\ receiving \in Int
    <3>1. after["investment"] = held.book
      <4>1. after["investment"] = balances["investment"] + 0 /\ balances["investment"] \in Int
        BY <1>5, <2>1
      <4>2. QED
        BY <1>3, <4>1
    <3>2. after["payable"] = paying - bought
      BY <1>3, <1>5, <2>1, <2>2
    <3>3. after["receivable"] = due - receiving
      BY <1>3, <1>5, <2>1, <2>2
    <3>4. after["bank"] = receiving - paying
      BY <1>3, <1>5, <2>1, <2>2
    <3>5. QED
      BY <2>2, <3>1, <3>2, <3>3, <3>4
  <2>4. QED
    BY <1>4, <2>3 DEF Booked
<1>9. QED
  BY <1>7, <1>8

LEMMA ReversedPosted ==
    ASSUME NEW b \in [Accounts -> Int], NEW j \in [Accounts -> Int]
    PROVE  Reversed(Posted(b, j), j) = b
<1>1. \A a \in Accounts : (b[a] + j[a]) - j[a] = b[a]
  OBVIOUS
<1>2. Posted(b, j) = [a \in Accounts |-> b[a] + j[a]]
  BY DEF Posted
<1>3. QED
  BY <1>1, <1>2 DEF Reversed

-----------------------------------------------------------------------------
(* The invariant and its theorems. *)

InvestmentsInv ==
    /\ Sound(register, events, books, measurement.change,
             PaidFor(settlements, events, {"purchase"}),
             PaidFor(settlements, events, {"sale", "income"}))
    /\ Settles(settlements, events)
    /\ measurement \in [done : BOOLEAN, change : Int]
    /\ ~ measurement.done => measurement.change = 0

LEMMA InvestmentsInitially == InvestmentsInit => InvestmentsInv
<1> SUFFICES ASSUME InvestmentsInit PROVE InvestmentsInv
  OBVIOUS
<1> PICK held, past, rows, balances :
       held = register /\ past = events /\ rows = settlements /\ balances = books
  OBVIOUS
<1>1. /\ held = [lots |-> <<>>, units |-> 0, book |-> 0, tax |-> 0] /\ past = <<>> /\ rows = <<>>
      /\ balances = [a \in Accounts |-> 0] /\ measurement = [done |-> FALSE, change |-> 0]
  BY DEF InvestmentsInit
<1>2. past \in Seq(EventRow) /\ rows \in Seq(SettlementRow) /\ DOMAIN past = {} /\ DOMAIN rows = {}
      /\ DOMAIN held.lots = {}
  BY <1>1
<1>3. Settles(rows, past)
  BY <1>2 DEF Settles
<1>4. \A kinds : Standing(past, kinds) = {} /\ Counted(rows, past, kinds) = {}
  BY <1>2 DEF Standing, Counted
<1>5. \A f \in [{} -> Int] : SumFunction(f) = 0
  BY SumSmall
<1>6. ASSUME NEW kinds
      PROVE  Amount(past, kinds) = 0 /\ PaidFor(rows, past, kinds) = 0
  BY <1>4, <1>5 DEF Amount, PaidFor
<1>7. Carrying(past) = 0
  BY <1>4, <1>5 DEF Carrying
<1>8. Units(held.lots, {}) = 0 /\ Book(held.lots, {}) = 0 /\ Tax(held.lots, {}) = 0
  BY SumEmpty DEF Units, Book, Tax
<1>9. InStep(held)
  BY <1>1, <1>2, <1>8 DEF InStep
<1>10. Known(held, past)
  BY <1>1, <1>2 DEF Known, LotChecks
<1>11. Traced(held, past) /\ Valued(held, past, 0)
  BY <1>1, <1>2, <1>6, <1>7 DEF Traced, Valued
<1>12. Booked(held, past, balances, 0, 0)
  BY <1>1, <1>6 DEF Booked, Accounts
<1>13. Sound(held, past, balances, 0, 0, 0)
  BY <1>9, <1>10, <1>11, <1>12 DEF Sound
<1>14. QED
  BY <1>1, <1>3, <1>6, <1>13 DEF InvestmentsInv

\* A recognized event is appended to what was recorded before.
LEMMA RecognizeAppends ==
    ASSUME NEW kind, NEW held, NEW past, past \in Seq(EventRow), NEW balances,
           Recognize(kind, held, past, balances), events' \in Seq(EventRow)
    PROVE  Preserves(events', past)
<1>1. \E event : events' = Append(past, event)
  <2>1. ASSUME NEW event, NEW new, Record(event, new, past, balances)
        PROVE  events' = Append(past, event)
    BY <2>1 DEF Record
  <2>2. CASE Purchase(held, past, balances)
    BY <2>1, <2>2 DEF Purchase
  <2>3. CASE Sale(held, past, balances)
    BY <2>1, <2>3 DEF Sale
  <2>4. CASE Income(held, past, balances)
    BY <2>1, <2>4 DEF Income
  <2>5. QED
    BY <2>2, <2>3, <2>4 DEF Recognize
<1>2. PICK event : events' = Append(past, event)
  BY <1>1
<1>3. \A e \in DOMAIN past : e \in DOMAIN events' /\ events'[e] = past[e]
  BY <1>2
<1>4. QED
  BY <1>3 DEF Preserves

LEMMA CorrectsPreserves ==
    ASSUME NEW q, NEW past, NEW k, Corrects(q, past, k)
    PROVE  Preserves(q, past)
<1>1. /\ q \in Seq(EventRow) /\ past \in Seq(EventRow) /\ DOMAIN q = DOMAIN past
      /\ \A e \in DOMAIN past : q[e].kind = past[e].kind /\ q[e].amount = past[e].amount
  <2>1. past \in Seq(EventRow)
    BY DEF Corrects
  <2>2. QED
    BY <2>1, Corrected
<1>2. QED
  BY <1>1 DEF Preserves

LEMMA PaidPreservedTwice ==
    ASSUME NEW rows, NEW past, Settles(rows, past), NEW q, Preserves(q, past),
           NEW new, Preserves(new, q)
    PROVE  /\ Settles(rows, new)
           /\ \A kinds : PaidFor(rows, new, kinds) = PaidFor(rows, past, kinds)
<1>1. Settles(rows, q) /\ \A kinds : PaidFor(rows, q, kinds) = PaidFor(rows, past, kinds)
  BY PaidPreserved
<1>2. Settles(rows, new) /\ \A kinds : PaidFor(rows, new, kinds) = PaidFor(rows, q, kinds)
  BY <1>1, PaidPreserved
<1>3. QED
  BY <1>1, <1>2

LEMMA RecognizeKeeps ==
    ASSUME InvestmentsInv, NEW kind, RecognizeEvent(kind)
    PROVE  InvestmentsInv'
<1> PICK change, paid, received :
       /\ change = measurement.change /\ paid = PaidFor(settlements, events, {"purchase"})
       /\ received = PaidFor(settlements, events, {"sale", "income"})
  OBVIOUS
<1> PICK past, q : past = events /\ q = events'
  OBVIOUS
<1>1. /\ Sound(register, past, books, change, paid, received) /\ Settles(settlements, past)
      /\ Recognize(kind, register, past, books)
      /\ settlements' = settlements /\ measurement' = measurement
  BY DEF InvestmentsInv, RecognizeEvent
<1>2. Sound(register', events', books', change, paid, received)
  BY <1>1, RecognizeSound
<1>3. past \in Seq(EventRow) /\ q \in Seq(EventRow)
  BY <1>1, <1>2 DEF Sound, Known
<1>4. Preserves(q, past)
  BY <1>1, <1>3, RecognizeAppends
<1>5. Settles(settlements, q) /\ \A kinds : PaidFor(settlements, q, kinds) = PaidFor(settlements, past, kinds)
  BY <1>1, <1>4, PaidPreserved
<1>6. measurement \in [done : BOOLEAN, change : Int] /\ (~ measurement.done => measurement.change = 0)
  BY DEF InvestmentsInv
<1>7. QED
  BY <1>1, <1>2, <1>5, <1>6 DEF InvestmentsInv

LEMMA CorrectKeeps ==
    ASSUME InvestmentsInv, NEW e \in DOMAIN events, CorrectEvent(e)
    PROVE  InvestmentsInv'
<1> PICK change, paid, received :
       /\ change = measurement.change /\ paid = PaidFor(settlements, events, {"purchase"})
       /\ received = PaidFor(settlements, events, {"sale", "income"})
  OBVIOUS
<1> PICK past, q, held, after, new :
       /\ past = events /\ q = [events EXCEPT ![e].corrected = TRUE] /\ held = Without(e)
       /\ after = Reversed(books, Recognition(events[e])) /\ new = events'
  OBVIOUS
<1>1. /\ Sound(register, past, books, change, paid, received) /\ Settles(settlements, past)
      /\ Recognize(past[e].kind, held, q, after) /\ LotChecks(held.lots)
      /\ settlements' = settlements /\ measurement' = measurement
  BY DEF InvestmentsInv, CorrectEvent
<1>2. past \in Seq(EventRow) /\ ~ past[e].corrected /\ Whole(register, past, e)
  BY <1>1 DEF Sound, Known, CorrectEvent, Correctable, Whole
<1>3. Corrects(q, past, e)
  BY <1>2 DEF Corrects
<1>4. held = Lacking(register, past, e)
  BY DEF Without, Lacking
<1>5. Sound(held, q, after, change, paid, received)
  <2>1. CASE past[e].kind = "purchase"
    BY <1>1, <1>2, <1>3, <1>4, <2>1, PurchaseTakenBack
  <2>2. CASE past[e].kind # "purchase"
    BY <1>1, <1>2, <1>3, <1>4, <2>2, OtherTakenBack
  <2>3. QED
    BY <2>1, <2>2
<1>6. Sound(register', events', books', change, paid, received)
  BY <1>1, <1>5, RecognizeSound
<1>7. q \in Seq(EventRow) /\ new \in Seq(EventRow)
  BY <1>5, <1>6 DEF Sound, Known
<1>8. Preserves(new, q)
  BY <1>1, <1>7, RecognizeAppends
<1>9. Preserves(q, past) /\ Settles(settlements, past)
  BY <1>1, <1>3, CorrectsPreserves
<1>10. /\ Settles(settlements, new)
       /\ \A kinds : PaidFor(settlements, new, kinds) = PaidFor(settlements, past, kinds)
  BY <1>8, <1>9, PaidPreservedTwice
<1>11. measurement \in [done : BOOLEAN, change : Int] /\ (~ measurement.done => measurement.change = 0)
  BY DEF InvestmentsInv
<1>12. QED
  BY <1>1, <1>6, <1>10, <1>11 DEF InvestmentsInv

LEMMA MeasureKeeps ==
    ASSUME InvestmentsInv, Measure
    PROVE  InvestmentsInv'
<1> PICK paid, received :
       /\ paid = PaidFor(settlements, events, {"purchase"})
       /\ received = PaidFor(settlements, events, {"sale", "income"})
  OBVIOUS
<1>1. /\ Sound(register, events, books, 0, paid, received) /\ Settles(settlements, events)
      /\ events' = events /\ settlements' = settlements
  BY DEF InvestmentsInv, Measure
<1>2. Sound(register', events', books', measurement'.change, paid, received)
  BY <1>1, MeasureSound
<1>3. measurement'.change \in Int
  BY <1>2 DEF Sound
<1>4. measurement'.done = TRUE /\ measurement' \in [done : BOOLEAN, change : Int]
  BY <1>3 DEF Measure
<1>5. QED
  BY <1>1, <1>2, <1>4 DEF InvestmentsInv

LEMMA SettleKeeps ==
    ASSUME InvestmentsInv, NEW e \in DOMAIN events, NEW transaction \in Transactions,
           Settle(e, transaction)
    PROVE  InvestmentsInv'
<1> PICK change, paid, received :
       /\ change = measurement.change /\ paid = PaidFor(settlements, events, {"purchase"})
       /\ received = PaidFor(settlements, events, {"sale", "income"})
  OBVIOUS
<1> PICK held, past, rows, balances :
       held = register /\ past = events /\ rows = settlements /\ balances = books
  OBVIOUS
<1> PICK row : row = [event |-> e, transaction |-> transaction, supersedes |-> 0]
  OBVIOUS
<1> PICK more, after : more = settlements' /\ after = books'
  OBVIOUS
<1>1. /\ Sound(held, past, balances, change, paid, received) /\ Settles(rows, past)
      /\ more = Append(rows, row) /\ after = Posted(balances, Payment(past[e]))
      /\ register' = held /\ events' = past /\ measurement' = measurement
  BY DEF InvestmentsInv, Settle
<1>2. /\ Known(held, past) /\ Traced(held, past) /\ InStep(held) /\ Valued(held, past, change)
      /\ Booked(held, past, balances, paid, received)
      /\ change \in Int /\ paid \in Int /\ received \in Int /\ past \in Seq(EventRow)
  BY <1>1 DEF Sound, Known
<1>3. past[e] \in EventRow /\ e \in DOMAIN past /\ e \in Nat
  <2>1. e \in DOMAIN past
    OBVIOUS
  <2>2. QED
    BY <1>2, <2>1, EventsFacts
<1>4. row \in SettlementRow /\ row.event = e /\ row.supersedes = 0
  BY <1>3 DEF SettlementRow
<1>5. SettlesMore(more, rows, past, row)
  BY <1>1, <1>3, <1>4 DEF SettlesMore
<1>6. Settles(more, past)
  BY <1>4, <1>5, SettlesMoreSettles
<1> PICK paying, receiving :
       /\ paying = PaidFor(more, past, {"purchase"})
       /\ receiving = PaidFor(more, past, {"sale", "income"})
  OBVIOUS
<1>7. \A kinds : PaidFor(more, past, kinds) = PaidFor(rows, past, kinds)
                    + (IF past[e].kind \in kinds THEN past[e].amount ELSE 0)
  BY <1>4, <1>5, PaidMore
<1>8. Pays(paying, paid, receiving, received, past[e])
  <2>1. /\ paying = paid + (IF past[e].kind \in {"purchase"} THEN past[e].amount ELSE 0)
        /\ receiving = received + (IF past[e].kind \in {"sale", "income"} THEN past[e].amount ELSE 0)
    BY <1>7
  <2>2. past[e].kind \in Kind
    BY <1>3, EventFacts
  <2>3. QED
    BY <2>1, <2>2, Kinds DEF Pays
<1>9. Booked(held, past, after, paying, receiving) /\ paying \in Int /\ receiving \in Int
  BY <1>1, <1>2, <1>3, <1>8, PaymentBooked
<1>10. Sound(held, past, after, change, paying, receiving)
  BY <1>2, <1>9 DEF Sound
<1>11. measurement \in [done : BOOLEAN, change : Int] /\ (~ measurement.done => measurement.change = 0)
  BY DEF InvestmentsInv
<1>12. QED
  BY <1>1, <1>6, <1>10, <1>11 DEF InvestmentsInv

LEMMA CorrectSettlementKeeps ==
    ASSUME InvestmentsInv, NEW s \in DOMAIN settlements, NEW transaction \in Transactions,
           CorrectSettlement(s, transaction)
    PROVE  InvestmentsInv'
<1> PICK change, paid, received :
       /\ change = measurement.change /\ paid = PaidFor(settlements, events, {"purchase"})
       /\ received = PaidFor(settlements, events, {"sale", "income"})
  OBVIOUS
<1> PICK held, past, rows, balances :
       held = register /\ past = events /\ rows = settlements /\ balances = books
  OBVIOUS
<1> PICK e : e = rows[s].event
  OBVIOUS
<1> PICK row : row = [event |-> e, transaction |-> transaction, supersedes |-> s]
  OBVIOUS
<1> PICK more, after : more = settlements' /\ after = books'
  OBVIOUS
<1>1. /\ Sound(held, past, balances, change, paid, received) /\ Settles(rows, past)
      /\ more = Append(rows, row) /\ ~ \E t \in DOMAIN rows : rows[t].supersedes = s
      /\ after = Reversed(Posted(balances, Payment(past[e])), Payment(past[e]))
      /\ register' = held /\ events' = past /\ measurement' = measurement
  BY DEF InvestmentsInv, CorrectSettlement, Superseded
<1>2. balances \in [Accounts -> Int] /\ past \in Seq(EventRow)
  BY <1>1 DEF Sound, Known, Booked
<1>3. s \in DOMAIN rows /\ s \in Nat /\ e \in DOMAIN past /\ e \in Nat
  <2>1. s \in DOMAIN rows /\ rows \in Seq(SettlementRow)
    BY <1>1 DEF Settles
  <2>2. DOMAIN rows = 1 .. Len(rows) /\ DOMAIN past = 1 .. Len(past)
    BY <1>2, <2>1, LenProperties
  <2>3. e \in DOMAIN past
    BY <1>1, <2>1 DEF Settles
  <2>4. QED
    BY <2>1, <2>2, <2>3
<1>4. row \in SettlementRow /\ row.event = e /\ row.supersedes = s
  BY <1>3 DEF SettlementRow
<1>5. SettlesMore(more, rows, past, row) /\ Replaces(row, rows, s)
  BY <1>1, <1>3, <1>4 DEF SettlesMore, Replaces
<1>6. Settles(more, past)
  BY <1>3, <1>4, <1>5, SettlesMoreSettles
<1>7. \A kinds : PaidFor(more, past, kinds) = PaidFor(rows, past, kinds)
  BY <1>5, PaidReplaced
<1>8. after = balances
  <2>1. past[e] \in EventRow
    BY <1>2, <1>3, EventsFacts
  <2>2. past[e].kind \in Kind /\ past[e].amount \in Int
    BY <2>1, EventFacts
  <2>3. Payment(past[e]) \in [Accounts -> Int]
    BY <2>2, PaymentAt
  <2>4. QED
    BY <1>1, <1>2, <2>3, ReversedPosted
<1>9. measurement \in [done : BOOLEAN, change : Int] /\ (~ measurement.done => measurement.change = 0)
  BY DEF InvestmentsInv
<1>10. QED
  BY <1>1, <1>6, <1>7, <1>8, <1>9 DEF InvestmentsInv

LEMMA InvestmentsInductive ==
    InvestmentsInv /\ [InvestmentsNext]_investmentVars => InvestmentsInv'
<1> SUFFICES ASSUME InvestmentsInv, [InvestmentsNext]_investmentVars
             PROVE  InvestmentsInv'
  OBVIOUS
<1>1. ASSUME NEW kind \in Kind, RecognizeEvent(kind)
      PROVE  InvestmentsInv'
  BY <1>1, RecognizeKeeps
<1>2. ASSUME NEW e \in DOMAIN events, CorrectEvent(e)
      PROVE  InvestmentsInv'
  BY <1>2, CorrectKeeps
<1>3. ASSUME NEW e \in DOMAIN events, NEW t \in Transactions, Settle(e, t)
      PROVE  InvestmentsInv'
  BY <1>3, SettleKeeps
<1>4. ASSUME NEW s \in DOMAIN settlements, NEW t \in Transactions, CorrectSettlement(s, t)
      PROVE  InvestmentsInv'
  BY <1>4, CorrectSettlementKeeps
<1>5. CASE Measure
  BY <1>5, MeasureKeeps
<1>6. CASE UNCHANGED investmentVars
  BY <1>6 DEF investmentVars, InvestmentsInv, Sound, Known, Traced, Valued, Booked, InStep, Settles
<1>7. QED
  BY <1>1, <1>2, <1>3, <1>4, <1>5, <1>6 DEF InvestmentsNext

LEMMA InvestmentsAlways == InvestmentsSpec => []InvestmentsInv
BY InvestmentsInitially, InvestmentsInductive, PTL DEF InvestmentsSpec

\* Every reachable state is well typed: no number of shares and no value of the
\* position, of a lot or of an amount recorded ever goes below zero.
THEOREM InvestmentsTyped == InvestmentsSpec => []InvestmentsTypeOK
<1>1. ASSUME InvestmentsInv
      PROVE  InvestmentsTypeOK
  <2> PICK lots, D : lots = register.lots /\ D = DOMAIN register.lots
    OBVIOUS
  <2>1. /\ Known(register, events) /\ InStep(register) /\ books \in [Accounts -> Int]
        /\ Settles(settlements, events) /\ measurement \in [done : BOOLEAN, change : Int]
    BY <1>1 DEF InvestmentsInv, Sound, Booked
  <2>2. /\ lots \in [D -> Lot] /\ D \subseteq DOMAIN events /\ IsFiniteSet(D)
        /\ events \in Seq(EventRow)
    BY <2>1, KnownFacts DEF Known
  <2>3. Units(lots, D) \in Nat /\ Book(lots, D) \in Nat /\ Tax(lots, D) \in Nat
    <3>1. \A l \in D : lots[l].units \in Nat /\ lots[l].book \in Nat /\ lots[l].tax \in Nat
      BY <2>2, LotFacts
    <3>2. DOMAIN lots = D
      OBVIOUS
    <3>3. QED
      BY <2>2, <3>1, <3>2, SumsAre
  <2>4. {register.units, register.book, register.tax} \subseteq Nat
    BY <2>1, <2>3 DEF InStep
  <2>5. \A e \in DOMAIN events : events[e].kind \in Kind /\ events[e].corrected \in BOOLEAN
    BY <2>2, EventsFacts, EventFacts
  <2>6. \A s \in DOMAIN settlements :
          /\ settlements[s].event \in DOMAIN events /\ settlements[s].transaction \in Transactions
          /\ settlements[s].supersedes \in 0 .. s - 1
    <3>1. settlements \in Seq(SettlementRow)
      BY <2>1 DEF Settles
    <3>2. ASSUME NEW s \in DOMAIN settlements
          PROVE  settlements[s].transaction \in Transactions
      <4>1. settlements[s] \in SettlementRow
        BY <3>1, ElementOfSeq, LenProperties
      <4>2. QED
        BY <4>1 DEF SettlementRow
    <3>3. QED
      BY <2>1, <3>2 DEF Settles
  <2>7. QED
    BY <2>1, <2>2, <2>4, <2>5, <2>6 DEF InvestmentsTypeOK
<1>2. QED
  BY <1>1, InvestmentsAlways, PTL

\* Position, lots and ledger agree to the last part of a cent, and what is owed, due and
\* in the bank are the standing events less the standing settlements, in every order of
\* purchases, sales, incomes, settlements, the measurement and corrections.
THEOREM BooksAlwaysMatchRegister == InvestmentsSpec => []BooksMatchRegister
<1>1. ASSUME InvestmentsInv
      PROVE  BooksMatchRegister
  <2>1. /\ InStep(register)
        /\ Booked(register, events, books, PaidFor(settlements, events, {"purchase"}),
                  PaidFor(settlements, events, {"sale", "income"}))
    BY <1>1 DEF InvestmentsInv, Sound
  <2>2. Booked(register, events, books, Paid({"purchase"}), Paid({"sale", "income"}))
    BY <2>1, PaidIsPaidFor
  <2>3. QED
    BY <2>1, <2>2 DEF Booked, BooksMatchRegister, PositionInBooks, OpenInBooks
<1>2. QED
  BY <1>1, InvestmentsAlways, PTL

\* No share and no cost of a lot is lost or used twice, and the book value differs from
\* the cost that is left by the measurement alone.
THEOREM BasisIsAlwaysHistory == InvestmentsSpec => []BasisIsHistory
<1>1. ASSUME InvestmentsInv
      PROVE  BasisIsHistory
  <2>1. /\ Known(register, events) /\ Traced(register, events)
        /\ Valued(register, events, measurement.change)
    BY <1>1 DEF InvestmentsInv, Sound
  <2>2. ASSUME NEW l \in DOMAIN register.lots
        PROVE  LET lot == register.lots[l]
                   bought == IF events[l].corrected THEN 0 ELSE 1
               IN /\ lot.units + SoldUnits(events, l) = bought * lot.count
                  /\ lot.tax + SoldTax(events, l) = bought * lot.cost
    <3> PICK lot : lot = register.lots[l]
      OBVIOUS
    <3>1. lot.count \in Nat /\ lot.cost \in Nat
      BY <2>1, LotFacts DEF Known
    <3>2. 0 * lot.count = 0 /\ 0 * lot.cost = 0 /\ 1 * lot.count = lot.count /\ 1 * lot.cost = lot.cost
      BY <3>1
    <3>3. /\ lot.units + SoldUnits(events, l) = IF events[l].corrected THEN 0 ELSE lot.count
          /\ lot.tax + SoldTax(events, l) = IF events[l].corrected THEN 0 ELSE lot.cost
      BY <2>1 DEF Traced
    <3>4. QED
      BY <3>2, <3>3
  <2>3. QED
    BY <2>1, <2>2 DEF BasisIsHistory, Valued
<1>2. QED
  BY <1>1, InvestmentsAlways, PTL

=============================================================================
