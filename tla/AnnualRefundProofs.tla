--------------------------- MODULE AnnualRefundProofs ---------------------------
(***************************************************************************)
(* Proofs about refunds, the stop of the renewal and the cleanup, beside   *)
(* the checkout, for every set of keys, requests, evidence references and  *)
(* handlers, every price and every bound on POSTs; and about the refund    *)
(* policy, for every price and calendar.                                   *)
(***************************************************************************)
EXTENDS AnnualRefund, AnnualPolicy, AnnualCheckoutProofs, FiniteSetTheorems

-----------------------------------------------------------------------------
(* The inductive invariant.  The checkout's own stays true beside refunds; the     *)
(* parts below say what refunds, cleanups and their handlers add to it.            *)

\* There is a refund operation for this request.
Exists(r) == refunds[r].key # NoKey

\* Who is named: an operation names a purchase and a case, the request that
\* inserted it and every other request bound to it are for the same ones, and a
\* task under way names what it works on.
RefundNames ==
    /\ \A r \in Requests :
          \/ refunds[r] = NoRefund
          \/ /\ refunds[r].key \in Keys /\ refunds[r].source \in Sources
             /\ refunds[r].status \in {"created", "unknown", "confirmed"}
             /\ requests[r].operation = r
    /\ \A p \in Requests : requests[p].operation # NoRequest =>
          /\ requests[p].key \in Keys /\ requests[p].source \in Sources
          /\ refunds[requests[p].operation].key = requests[p].key
          /\ refunds[requests[p].operation].source = requests[p].source
    /\ \A h \in Refunders : refundTasks[h].pc # "idle" =>
          refundTasks[h].operation \in Requests /\ Exists(refundTasks[h].operation)
    /\ \A c \in Cleaners : stopTasks[c].pc # "idle" => stopTasks[c].key \in Keys

\* Who may POST a refund: only the handler that inserted the operation, while
\* nothing was sent.
RefundConduct ==
    /\ \A r \in Requests :
          /\ refundPosts[r] <= 1
          /\ refundDone[r] => refundPosts[r] > 0
          /\ ~Exists(r) => refundPosts[r] = 0
    /\ \A h \in Refunders :
          refundTasks[h].pc = "execute" => refundPosts[refundTasks[h].operation] = 0
    /\ \A g, h \in Refunders :
          /\ refundTasks[g].pc = "execute" /\ refundTasks[h].pc = "execute"
          /\ refundTasks[g].operation = refundTasks[h].operation
          => g = h

\* An operation was computed from its case, and the purchase has caught up with
\* what it was computed from and with what it has observed.
Computed(r) ==
    LET refund == refunds[r]
        case == cases[refund.key][refund.source]
        row == purchases[refund.key]
    IN  /\ case.open /\ case.refundedBefore <= refund.refundedBefore
        /\ refund.refundedBefore < Lesser(case.entitled, refund.capturedBefore)
        /\ refund.amount = Lesser(case.entitled, refund.capturedBefore) - refund.refundedBefore
        /\ refund.capturedBefore <= row.captured /\ refund.refundedBefore <= row.refunded
        /\ refund.captured <= row.captured /\ refund.refunded <= row.refunded
        /\ refund.refunded <= refund.captured

\* What an operation returns ends here, counted from the first krone returned.
UpTo(r) == refunds[r].refundedBefore + refunds[r].amount

\* What was returned is what the ledger has, and the one unresolved operation
\* accounts for the difference: it is computed from the totals of all before it.
Counted(k) ==
    /\ \A q, r \in Unresolved(k) : q = r
    /\ \A r \in Unresolved(k) :
          vipps[k].refunded = refunds[r].refundedBefore + (IF refundDone[r] THEN refunds[r].amount ELSE 0)
    /\ Unresolved(k) = {} => vipps[k].refunded = purchases[k].refunded
    /\ \A r \in Requests : refunds[r].key = k /\ refunds[r].status = "confirmed" =>
          refundDone[r] /\ UpTo(r) <= purchases[k].refunded

\* A case was opened when no more was returned than now.
CasesSane(k) ==
    \A s \in Sources : cases[k][s].open =>
        cases[k][s].refundedBefore <= purchases[k].refunded /\ purchases[k].status # "none"

\* What has been returned is covered by the entitlement of a recorded case.
Entitled(k) ==
    vipps[k].refunded > 0 =>
        \E s \in Sources : cases[k][s].open /\ vipps[k].refunded <= cases[k][s].entitled

\* Totals of a refund that the provider holds.
RefundCovered(totals, account) ==
    /\ totals.refunded <= totals.captured
    /\ totals.captured <= account.captured
    /\ totals.refunded <= account.refunded

\* What the task of a refund's handler may know of the provider.
TaskBacked(task) ==
    LET r == task.operation
        account == vipps[refunds[r].key]
    IN  /\ task.pc \in {"execute", "await", "reconcile"} => RefundCovered(task, account)
        /\ task.pc = "settle" =>
              /\ RefundCovered(task.obs, account)
              /\ task.obs.status \in {"unknown", "confirmed"}
              /\ task.obs.status = "confirmed" => refundDone[r] /\ UpTo(r) <= task.obs.refunded

\* Money, and an outcome, come with the agreement they belong to.
Referenced(totals) == totals.captured > 0 => totals.agreement

\* What a final status of a purchase rests on.
Final(k) ==
    LET row == purchases[k]
    IN  /\ Referenced(row)
        /\ row.status \in TerminalStatus => row.agreement
        /\ row.status = "failed" => row.op = "failed"
        /\ row.status = "paid" => row.op = "confirmed"
        /\ row.status = "refunded" =>
              row.refunded = Gross /\ (row.op = "confirmed" \/ WholeRefundConfirmed(k))
        /\ row.canceled => row.status # "none"

\* The same for what a checkout handler knows.
HandlerReferenced(w) ==
    /\ Asking(w) => Referenced(tasks[w].seen)
    /\ tasks[w].pc = "settle" =>
          /\ Referenced(tasks[w].obs)
          /\ tasks[w].obs.status \in {"confirmed", "failed"} => tasks[w].obs.agreement

\* A cleanup reads and stops only what was canceled, and stops only a finished charge.
CleanerBacked(c) ==
    LET k == stopTasks[c].key
    IN  /\ stopTasks[c].pc \in {"read", "check", "patch"} => purchases[k].canceled
        /\ stopTasks[c].pc = "patch" => ChargeTerminal(vipps[k])

\* The refund invariant, in the parts it is proved in.
RefundTypeInv == RefundTypeOK /\ RefundNames

RefundMoney ==
    /\ \A r \in Requests : Exists(r) => Computed(r)
    /\ \A k \in Keys : Counted(k) /\ CasesSane(k) /\ Entitled(k)
    /\ RefundsNeverOverlap

TasksBacked == \A h \in Refunders : TaskBacked(refundTasks[h])

Finality ==
    /\ \A k \in Keys : Final(k)
    /\ \A w \in Workers : HandlerReferenced(w)

StopSafety == StopNeverCancelsCharge /\ \A c \in Cleaners : CleanerBacked(c)

RInv ==
    /\ IInv /\ RefundTypeInv /\ RefundConduct
    /\ RefundMoney /\ TasksBacked
    /\ Finality /\ StopSafety

-----------------------------------------------------------------------------
(* The checkout's invariant beside refunds. *)

\* Stopping the renewal of a purchase changes nothing the checkout relies on.
LEMMA CanceledKeeps ==
    ASSUME IInv, NEW k \in Keys, purchases[k].status # "none",
           purchases' = [purchases EXCEPT ![k].canceled = TRUE],
           UNCHANGED <<withdrawn, tasks, posts, vipps>>
    PROVE  IInv'
<1> DEFINE old == purchases[k]
           row == [old EXCEPT !.canceled = TRUE]
<1>1. old \in Row /\ RowSane(old) /\ Covered(old, vipps[k]) /\ StatusBacked(old, vipps[k])
  BY DEF IInv, TypeInv, TypeOK, Backed
<1>2. /\ row \in Row /\ row.year = old.year /\ row.status = old.status /\ row.op = old.op
      /\ row.agreement = old.agreement
      /\ row.captured = old.captured /\ row.refunded = old.refunded
  BY <1>1 DEF Row
<1>3. purchases' = [purchases EXCEPT ![k] = row]
  BY DEF IInv, TypeInv, TypeOK
<1> HIDE DEF row
<1>4. RowSane(row) /\ Covered(row, vipps[k]) /\ StatusBacked(row, vipps[k])
  BY <1>1, <1>2 DEF RowSane, PurchaseChecks, Covered, StatusBacked
<1>5. QED
  BY <1>2, <1>3, <1>4, RowKeeps

\* The provider's accounts may change outside the checkout as far as they grow.
LEMMA AccountsKeep ==
    ASSUME IInv, vipps' \in [Keys -> Account],
           \A j \in Keys : /\ Grows(vipps[j], vipps'[j]) /\ AccountSane(vipps'[j])
                           /\ vipps[j].agreement = "absent" => vipps'[j].agreement = "absent",
           UNCHANGED <<purchases, withdrawn, tasks, posts>>
    PROVE  IInv'
<1>1. \A j \in Keys : vipps[j] \in Account /\ vipps'[j] \in Account /\ purchases[j] \in Row
  BY DEF IInv, TypeInv, TypeOK
<1>2. \A w \in Workers : tasks[w].seen \in Row /\ tasks[w].obs \in Observation
  BY DEF IInv, TypeInv, TypeOK, Task
<1>3. TypeInv' /\ Conduct' /\ OneOccupies'
  BY DEF IInv, TypeInv, TypeOK, TasksNamed, Conduct, Engaged, OneOccupies
<1>4. \A j \in Keys : PurchaseBacked(j)'
  BY <1>1, BackedGrows DEF IInv, Backed, PurchaseBacked
<1>5. \A w \in Workers : HandlerBacked(w)'
  <2> TAKE w \in Workers
  <2>1. HandlerBacked(w)
    BY DEF IInv, Backed, HandlerBacked
  <2>2. Asking(w) \/ tasks[w].pc = "settle" => tasks[w].key \in Keys
    BY DEF IInv, TypeInv, TasksNamed, Asking
  <2>3. QED
    BY <1>1, <1>2, <2>1, <2>2, BackedGrows DEF HandlerBacked, Asking
<1>6. QED
  BY <1>3, <1>4, <1>5 DEF IInv, Backed, PurchaseBacked, HandlerBacked

-----------------------------------------------------------------------------
(* What a refund does to the purchase. *)

\* The larger and the lesser of two amounts.
LEMMA Amounts ==
    ASSUME NEW a \in Money, NEW b \in Money
    PROVE  /\ Lesser(a, b) \in Money /\ Lesser(a, b) <= a /\ Lesser(a, b) <= b
           /\ Greater(a, b) \in Money /\ a <= Greater(a, b) /\ b <= Greater(a, b)
           /\ \A c \in Money : a <= c /\ b <= c => Greater(a, b) <= c
           /\ \A c \in Money : a < c /\ b < c => Greater(a, b) < c
           /\ Greater(a, b) = a \/ Greater(a, b) = b
BY GrossAssumption DEF Lesser, Greater, Money

\* The parts of the row that a settled refund leaves and moves.
LEMMA AfterRefund ==
    ASSUME NEW row \in Row, NEW obs \in RefundObservation
    PROVE  LET new == PurchaseAfterRefund(row, obs) IN
           /\ new \in Row
           /\ new.year = row.year /\ new.op = row.op /\ new.agreement = row.agreement
           /\ new.canceled = row.canceled
           /\ new.captured = Greater(row.captured, obs.captured)
           /\ new.refunded = Greater(row.refunded, obs.refunded)
           /\ \/ new.status = row.status
              \/ /\ new.status = "refunded" /\ obs.status = "confirmed"
                 /\ new.captured = Gross /\ new.refunded = Gross
<1> DEFINE captured == Greater(row.captured, obs.captured)
           refunded == Greater(row.refunded, obs.refunded)
<1>1. captured \in Money /\ refunded \in Money
  BY Amounts DEF Row, RefundObservation
<1> HIDE DEF captured, refunded
<1>2. PurchaseAfterRefund(row, obs) =
          [row EXCEPT !.captured = captured, !.refunded = refunded,
              !.status = IF obs.status = "confirmed" /\ captured = Gross /\ refunded = captured
                         THEN "refunded" ELSE @]
  BY DEF PurchaseAfterRefund, captured, refunded
<1>3. QED
  BY <1>1, <1>2 DEF Row, PurchaseStatus, captured, refunded

\* A settled refund leaves the purchase sane and backed by the provider.
LEMMA AfterRefundBacked ==
    ASSUME NEW row \in Row, NEW obs \in RefundObservation, NEW account \in Account,
           RowSane(row), Covered(row, account), StatusBacked(row, account),
           row.captured > 0, row.status # "none",
           row.status = "refunded" => row.refunded = Gross,
           RefundCovered(obs, account)
    PROVE  LET new == PurchaseAfterRefund(row, obs) IN
           /\ RowSane(new) /\ Covered(new, account) /\ StatusBacked(new, account)
           /\ new.status \in OccupyingStatus => row.status \in OccupyingStatus
           /\ new.status # "none"
<1> DEFINE new == PurchaseAfterRefund(row, obs)
<1>1. /\ row.captured \in Money /\ row.refunded \in Money
      /\ obs.captured \in Money /\ obs.refunded \in Money
      /\ account.captured \in Money /\ account.refunded \in Money
  BY DEF Row, RefundObservation, Account
<1>2. /\ new.captured = Greater(row.captured, obs.captured)
      /\ new.refunded = Greater(row.refunded, obs.refunded)
      /\ new.year = row.year /\ new.op = row.op /\ new.agreement = row.agreement
      /\ \/ new.status = row.status
         \/ new.status = "refunded" /\ new.captured = Gross /\ new.refunded = Gross
  BY AfterRefund
<1> HIDE DEF new
<1>3. /\ new.captured \in Money /\ new.refunded \in Money
      /\ row.captured <= new.captured /\ row.refunded <= new.refunded
      /\ new.refunded <= new.captured
      /\ new.captured <= account.captured /\ new.refunded <= account.refunded
  BY <1>1, <1>2, GrossAssumption DEF Covered, RefundCovered, Greater, Money
<1>4. Covered(new, account)
  BY <1>2, <1>3 DEF Covered
<1>5. StatusBacked(new, account)
  BY <1>1, <1>2, <1>3, GrossAssumption DEF StatusBacked, Money
<1>6. row.status # "failed"
  BY <1>1, GrossAssumption DEF RowSane, PurchaseChecks, Money
<1>7. PurchaseChecks(new)
  BY <1>1, <1>2, <1>3, <1>6, GrossAssumption DEF RowSane, PurchaseChecks, Money
<1>8. RowSane(new)
  BY <1>1, <1>2, <1>7, GrossAssumption DEF RowSane, Money
<1>9. QED
  BY <1>2, <1>4, <1>5, <1>8 DEF new, OccupyingStatus

-----------------------------------------------------------------------------
(* What stands while ledger and provider only grow. *)

\* No step takes money, a stopped renewal or the purchase itself from a row.
RowsGrow ==
    \A k \in Keys :
        /\ purchases[k].captured <= purchases'[k].captured
        /\ purchases[k].refunded <= purchases'[k].refunded
        /\ purchases[k].canceled => purchases'[k].canceled
        /\ purchases[k].status # "none" => purchases'[k].status # "none"

\* Every account grows, and nothing is returned.
AccountsGrow ==
    \A k \in Keys : Grows(vipps[k], vipps'[k]) /\ vipps'[k].refunded = vipps[k].refunded

\* The amounts are natural numbers.
LEMMA MoneyTypes ==
    ASSUME RInv
    PROVE  /\ \A k \in Keys :
                 /\ purchases[k] \in Row /\ vipps[k] \in Account
                 /\ purchases[k].captured \in Money /\ purchases[k].refunded \in Money
                 /\ vipps[k].captured \in Money /\ vipps[k].refunded \in Money
           /\ \A r \in Requests :
                 /\ refunds[r] \in Refund
                 /\ refunds[r].amount \in Money /\ refunds[r].capturedBefore \in Money
                 /\ refunds[r].refundedBefore \in Money
                 /\ refunds[r].captured \in Money /\ refunds[r].refunded \in Money
           /\ \A k \in Keys, s \in Sources :
                 /\ cases[k][s] \in Case
                 /\ cases[k][s].entitled \in Money /\ cases[k][s].refundedBefore \in Money
           /\ \A h \in Refunders :
                 /\ refundTasks[h] \in RefundTask
                 /\ refundTasks[h].captured \in Money /\ refundTasks[h].refunded \in Money
                 /\ refundTasks[h].obs \in RefundObservation
                 /\ refundTasks[h].obs.captured \in Money /\ refundTasks[h].obs.refunded \in Money
           /\ Money \subseteq Nat
BY GrossAssumption
   DEF RInv, RefundTypeInv, RefundTypeOK, TypeOK, Row, Account, Refund, Case, RefundTask,
       RefundObservation, Money

\* The same as natural numbers, to count with.
LEMMA Numbers ==
    ASSUME RInv
    PROVE  /\ \A k \in Keys : /\ purchases[k].captured \in Nat /\ purchases[k].refunded \in Nat
                              /\ vipps[k].captured \in Nat /\ vipps[k].refunded \in Nat
           /\ \A r \in Requests :
                 /\ refunds[r].amount \in Nat /\ refunds[r].capturedBefore \in Nat
                 /\ refunds[r].refundedBefore \in Nat
                 /\ refunds[r].captured \in Nat /\ refunds[r].refunded \in Nat
                 /\ UpTo(r) \in Nat
           /\ \A k \in Keys, s \in Sources :
                 cases[k][s].entitled \in Nat /\ cases[k][s].refundedBefore \in Nat
           /\ \A h \in Refunders :
                 /\ refundTasks[h].captured \in Nat /\ refundTasks[h].refunded \in Nat
                 /\ refundTasks[h].obs.captured \in Nat /\ refundTasks[h].obs.refunded \in Nat
BY MoneyTypes DEF UpTo

\* The names: an operation that exists names a purchase and a case.
LEMMA Named ==
    ASSUME RInv
    PROVE  /\ \A r \in Requests : Exists(r) <=> refunds[r].key \in Keys
           /\ \A r \in Requests : Exists(r) =>
                 /\ refunds[r].source \in Sources
                 /\ refunds[r].status \in {"created", "unknown", "confirmed"}
                 /\ requests[r].operation = r
           /\ \A r \in Requests : ~Exists(r) => refunds[r] = NoRefund
           /\ \A k \in Keys, r \in Requests :
                 r \in Unresolved(k) <=> refunds[r].key = k /\ refunds[r].status # "confirmed"
BY NoKeyAssumption
   DEF RInv, RefundTypeInv, RefundNames, Exists, NoRefund, Unresolved, UnresolvedStatus

\* Where the ledger and the provider stand still they grow.
LEMMA StandingGrows ==
    ASSUME RInv, UNCHANGED <<purchases, vipps>>
    PROVE  RowsGrow /\ AccountsGrow
BY MoneyTypes DEF RowsGrow, AccountsGrow, Grows

\* An opened case stays as it is, and a new one is opened as it should be.
CasesGrow ==
    /\ cases' \in [Keys -> [Sources -> Case]]
    /\ \A k \in Keys : CasesSane(k)'
    /\ \A k \in Keys, s \in Sources : cases[k][s].open => cases'[k][s] = cases[k][s]

\* Cases stand while rows grow.
LEMMA CasesStand ==
    ASSUME RInv, IInv', RowsGrow, UNCHANGED cases
    PROVE  CasesGrow
<1>1. cases \in [Keys -> [Sources -> Case]] /\ \A k \in Keys : CasesSane(k)
  BY DEF RInv, RefundTypeInv, RefundTypeOK, RefundMoney
<1>2. \A k \in Keys : purchases'[k].refunded \in Nat
  BY GrossAssumption DEF IInv, TypeInv, TypeOK, Row, Money
<1>3. \A k \in Keys, s \in Sources : cases[k][s].refundedBefore \in Nat /\ purchases[k].refunded \in Nat
  BY Numbers
<1>4. QED
  BY <1>1, <1>2, <1>3 DEF CasesGrow, CasesSane, RowsGrow

\* What an operation was computed from stays true while the ledger grows.
LEMMA ComputedGrows ==
    ASSUME RInv, IInv', RowsGrow, CasesGrow,
           NEW r \in Requests, Exists(r), refunds'[r] = refunds[r]
    PROVE  Computed(r)'
<1>1. Computed(r)
  BY DEF RInv, RefundMoney
<1>2. PICK k \in Keys : k = refunds[r].key
  BY Named
<1>3. refunds[r].source \in Sources
  BY Named
<1>4. /\ purchases[k].captured <= purchases'[k].captured
      /\ purchases[k].refunded <= purchases'[k].refunded
  BY DEF RowsGrow
<1>5. /\ purchases[k].captured \in Nat /\ purchases[k].refunded \in Nat
      /\ refunds[r].capturedBefore \in Nat /\ refunds[r].refundedBefore \in Nat
      /\ refunds[r].captured \in Nat /\ refunds[r].refunded \in Nat
  BY Numbers
<1>6. purchases'[k].captured \in Nat /\ purchases'[k].refunded \in Nat
  BY GrossAssumption DEF IInv, TypeInv, TypeOK, Row, Money
<1>7. /\ refunds[r].capturedBefore <= purchases'[k].captured
      /\ refunds[r].refundedBefore <= purchases'[k].refunded
      /\ refunds[r].captured <= purchases'[k].captured
      /\ refunds[r].refunded <= purchases'[k].refunded
  BY <1>1, <1>2, <1>4, <1>5, <1>6 DEF Computed
<1>8. cases'[k][refunds[r].source] = cases[k][refunds[r].source]
  BY <1>1, <1>2, <1>3 DEF Computed, CasesGrow
<1>9. QED
  BY <1>1, <1>2, <1>7, <1>8 DEF Computed

\* What was returned for a purchase stays accounted for while its refunds stand.
LEMMA CountedGrows ==
    ASSUME RInv, IInv', RowsGrow, NEW k \in Keys, vipps'[k].refunded = vipps[k].refunded,
           \A r \in Requests : refunds[r].key = k \/ refunds'[r].key = k =>
              refunds'[r] = refunds[r] /\ refundDone'[r] = refundDone[r]
    PROVE  Counted(k)'
<1>1. Counted(k)
  BY DEF RInv, RefundMoney
<1>2. /\ purchases'[k].refunded \in Nat /\ purchases'[k].refunded <= vipps'[k].refunded
      /\ purchases[k].refunded \in Nat /\ vipps[k].refunded \in Nat
      /\ purchases[k].refunded <= purchases'[k].refunded
  BY Numbers, GrossAssumption DEF IInv, TypeInv, TypeOK, Backed, Covered, Row, Money, RowsGrow
<1>3. Unresolved(k)' = Unresolved(k)
  BY DEF Unresolved
<1>4. \A r \in Requests : /\ UpTo(r) \in Nat
                          /\ refunds[r].key = k \/ refunds'[r].key = k => UpTo(r)' = UpTo(r)
  BY Numbers DEF UpTo
<1>5. \A r \in Requests : refunds'[r].key = k /\ refunds'[r].status = "confirmed" =>
          refundDone'[r] /\ UpTo(r)' <= purchases'[k].refunded
  BY <1>1, <1>2, <1>4 DEF Counted
<1>6. Unresolved(k) = {} => vipps'[k].refunded = purchases'[k].refunded
  BY <1>1, <1>2 DEF Counted
<1>7. \A q, r \in Unresolved(k) : q = r
  BY <1>1 DEF Counted
<1>8. \A r \in Unresolved(k) : vipps'[k].refunded =
          refunds'[r].refundedBefore + (IF refundDone'[r] THEN refunds'[r].amount ELSE 0)
  BY <1>1 DEF Counted, Unresolved
<1>9. QED
  BY <1>3, <1>5, <1>6, <1>7, <1>8 DEF Counted

\* What was returned stays covered by a case.
LEMMA EntitledGrows ==
    ASSUME RInv, CasesGrow, NEW k \in Keys, vipps'[k].refunded = vipps[k].refunded
    PROVE  Entitled(k)'
BY DEF RInv, RefundMoney, Entitled, CasesGrow

\* What the refunds account for stays true while ledger, cases and provider grow.
LEMMA MoneyGrows ==
    ASSUME RInv, IInv', RowsGrow, AccountsGrow, CasesGrow, UNCHANGED <<refunds, refundDone>>
    PROVE  RefundMoney'
<1>1. \A r \in Requests : Exists(r)' => Computed(r)'
  BY ComputedGrows DEF Exists
<1>2. \A k \in Keys : Counted(k)' /\ CasesSane(k)' /\ Entitled(k)'
  BY CountedGrows, EntitledGrows DEF AccountsGrow, CasesGrow
<1>3. RefundsNeverOverlap'
  BY DEF RInv, RefundMoney, RefundsNeverOverlap
<1>4. QED
  BY <1>1, <1>2, <1>3 DEF RefundMoney

\* What a task knows stays true while the provider grows.
LEMMA TaskGrows ==
    ASSUME RInv, NEW h \in Refunders, vipps' \in [Keys -> Account],
           \A k \in Keys : Grows(vipps[k], vipps'[k]),
           refundTasks'[h] = refundTasks[h],
           refundTasks[h].pc # "idle" =>
              LET r == refundTasks[h].operation IN
              /\ refunds'[r].key = refunds[r].key
              /\ refunds'[r].refundedBefore = refunds[r].refundedBefore
              /\ refunds'[r].amount = refunds[r].amount
              /\ refundDone[r] => refundDone'[r]
    PROVE  TaskBacked(refundTasks[h])'
<1> DEFINE task == refundTasks[h]
           r == task.operation
<1>1. CASE task.pc = "idle"
  BY <1>1 DEF TaskBacked
<1>2. CASE task.pc # "idle"
  <2>1. r \in Requests /\ Exists(r)
    BY <1>2 DEF RInv, RefundTypeInv, RefundNames
  <2>2. refunds[r].key \in Keys
    BY <2>1, Named
  <2>3. /\ refunds'[r].key = refunds[r].key /\ UpTo(r)' = UpTo(r)
        /\ refundDone[r] => refundDone'[r]
    BY <1>2 DEF UpTo
  <2>4. TaskBacked(task)
    BY DEF RInv, TasksBacked
  <2> DEFINE k == refunds[r].key
  <2>5. /\ vipps[k].captured \in Nat /\ vipps[k].refunded \in Nat
        /\ task.captured \in Nat /\ task.refunded \in Nat
        /\ task.obs.captured \in Nat /\ task.obs.refunded \in Nat
        /\ vipps'[k].captured \in Nat /\ vipps'[k].refunded \in Nat
    BY <2>2, Numbers, GrossAssumption DEF Account, Money
  <2>6. vipps[k].captured <= vipps'[k].captured /\ vipps[k].refunded <= vipps'[k].refunded
    BY <2>2 DEF Grows
  <2>7. /\ RefundCovered(task, vipps[k]) => RefundCovered(task, vipps'[k])
        /\ RefundCovered(task.obs, vipps[k]) => RefundCovered(task.obs, vipps'[k])
    BY <2>5, <2>6 DEF RefundCovered
  <2>8. vipps'[refunds'[r].key] = vipps'[k] /\ refundTasks'[h] = task
    BY <2>3
  <2> HIDE DEF task, r, k
  <2>9. TaskBacked(task)' 
    BY <2>3, <2>4, <2>7, <2>8 DEF TaskBacked, r, k, task
  <2>10. QED
    BY <2>9 DEF task
<1>3. QED
  BY <1>1, <1>2

\* A charge that is over stays over.
LEMMA TerminalStays ==
    ASSUME NEW old \in Account, NEW new \in Account, Grows(old, new), ChargeTerminal(old)
    PROVE  ChargeTerminal(new)
BY GrossAssumption DEF Account, Grows, ChargeTerminal, Money

\* Stops stay justified while renewals stay stopped and accounts grow.
LEMMA StopsStand ==
    ASSUME RInv, RowsGrow, vipps' \in [Keys -> Account],
           \A k \in Keys : Grows(vipps[k], vipps'[k]), UNCHANGED stopVars
    PROVE  StopSafety'
<1>1. \A k \in Keys : /\ vipps[k] \in Account /\ vipps'[k] \in Account
                      /\ ChargeTerminal(vipps[k]) => ChargeTerminal(vipps'[k])
  BY MoneyTypes, TerminalStays
<1>2. stopPosts \subseteq Keys /\ \A c \in Cleaners : stopTasks[c].pc # "idle" => stopTasks[c].key \in Keys
  BY DEF RInv, RefundTypeInv, RefundTypeOK, RefundNames
<1>3. StopNeverCancelsCharge'
  BY <1>1, <1>2 DEF RInv, StopSafety, StopNeverCancelsCharge, stopVars, RowsGrow
<1>4. \A c \in Cleaners : CleanerBacked(c)'
  BY <1>1, <1>2 DEF RInv, StopSafety, CleanerBacked, stopVars, RowsGrow
<1>5. QED
  BY <1>3, <1>4 DEF StopSafety

-----------------------------------------------------------------------------
(* The steps of the checkout. *)

\* A checkout step takes nothing from a row and returns no money.
LEMMA CheckoutGrows ==
    ASSUME RInv, [CheckoutNext]_checkoutVars
    PROVE  RowsGrow /\ AccountsGrow
<1>1. IInv /\ purchases \in [Keys -> Row] /\ vipps \in [Keys -> Account]
  BY DEF RInv, IInv, TypeInv, TypeOK
<1>2. ASSUME UNCHANGED purchases
      PROVE  RowsGrow
  BY <1>2, Numbers DEF RowsGrow
<1>3. ASSUME NEW w \in Workers, ClaimCommit(w)
      PROVE  RowsGrow
  <2> DEFINE k == tasks[w].key
             y == tasks[w].year
  <2>1. purchases[k].status = "none" /\ purchases' = [purchases EXCEPT ![k] = ClaimedRow(y)]
    BY <1>3 DEF ClaimCommit
  <2>2. k \in Keys
    BY <1>1, <1>3 DEF IInv, TypeInv, TasksNamed, ClaimCommit
  <2>3. purchases[k].captured = 0 /\ purchases[k].refunded = 0 /\ ~purchases[k].canceled
    BY <1>1, <2>1, <2>2 DEF IInv, Backed, RowSane, RInv, Finality, Final, Row
  <2>4. ClaimedRow(y).captured = 0 /\ ClaimedRow(y).refunded = 0
    BY DEF ClaimedRow
  <2> HIDE DEF k, y
  <2>5. QED
    BY <1>1, <2>1, <2>2, <2>3, <2>4, Numbers DEF RowsGrow
<1>4. ASSUME NEW w \in Workers, SettleCheckout(w)
      PROVE  RowsGrow
  <2> DEFINE k == tasks[w].key
             row == Settle(purchases[k], tasks[w].obs)
  <2>1. purchases' = [purchases EXCEPT ![k] = row]
    BY <1>4 DEF SettleCheckout
  <2>2. k \in Keys /\ purchases[k].status # "none" /\ tasks[w].obs \in Observation
    BY <1>1, <1>4 DEF IInv, TypeInv, TypeOK, TasksNamed, Conduct, Engaged, SettleCheckout, Task
  <2>3. RowSane(purchases[k]) /\ purchases[k] \in Row
    BY <1>1, <2>2 DEF IInv, Backed
  <2>4. EvidenceGuard(purchases[k], row) /\ row.status # "none" /\ row \in Row
    BY <2>2, <2>3, SettleKeepsEvidence, SettleKeepsPurchase, SettleType
  <2>5. row.captured \in Nat /\ row.refunded \in Nat
    BY <2>4, GrossAssumption DEF Row, Money
  <2> HIDE DEF k, row
  <2>6. QED
    BY <1>1, <2>1, <2>2, <2>4, <2>5, Numbers DEF RowsGrow, EvidenceGuard
<1>5. RowsGrow
  BY <1>1, <1>2, <1>3, <1>4, PurchaseSteps DEF Withdraw
<1>6. AccountsGrow
  <2>1. ASSUME UNCHANGED vipps
        PROVE  AccountsGrow
    BY <2>1, Numbers DEF AccountsGrow, Grows
  <2>2. ASSUME NEW k \in Keys, ProviderStep(k)
        PROVE  AccountsGrow
    <3>1. \A j \in Keys : Grows(vipps[j], vipps'[j])
      BY <1>1, <2>2, ProviderStepGrows
    <3>2. \A j \in Keys : vipps'[j].refunded = vipps[j].refunded
      BY <1>1, <2>2 DEF ProviderStep, ProviderCreate, ProviderApprove, ProviderExpire,
             ProviderCapture, ProviderComplete, ProviderClose, Account
    <3>3. QED
      BY <3>1, <3>2 DEF AccountsGrow
  <2>3. ASSUME NEW w \in Workers, WorkerStep(w)
        PROVE  UNCHANGED vipps
    BY <2>3 DEF WorkerStep, StartKnown, StartNew, Poll, ClaimReplay, ClaimCommit, SendCreate,
           CreateReply, Reconcile, NoAnswer, SettleCheckout, Abandon
  <2>4. QED
    BY <2>1, <2>2, <2>3 DEF CheckoutNext, Withdraw, checkoutVars
<1>7. QED
  BY <1>5, <1>6

\* What a handler settles refers to the agreement its money belongs to.
ReferencedObservation(obs) ==
    /\ Referenced(obs)
    /\ obs.status \in {"confirmed", "failed"} => obs.agreement

\* An answer to a handler that may still call carries the agreement its key has.
LEMMA AnswerReferenced ==
    ASSUME RInv, NEW w \in Workers, CreateReply(w) \/ Reconcile(w) \/ NoAnswer(w)
    PROVE  \E obs \in Observation : tasks' = Answered(w, obs) /\ ReferencedObservation(obs)
<1> DEFINE account == vipps[tasks[w].key]
           row == tasks[w].seen
<1>1. tasks[w].key \in Keys /\ tasks[w] \in Task
  BY DEF RInv, IInv, TypeInv, TypeOK, TasksNamed, CreateReply, Reconcile, NoAnswer
<1>2. account \in Account /\ row \in Row
  BY <1>1, MoneyTypes DEF Task
<1>3. Asking(w) => Referenced(row)
  BY DEF RInv, Finality, HandlerReferenced
<1>4. ASSUME Referenced(row)
      PROVE  /\ UnknownObservation(row) \in Observation
             /\ ReferencedObservation(UnknownObservation(row))
             /\ [UnknownObservation(row) EXCEPT !.captured = 0, !.refunded = 0] \in Observation
             /\ ReferencedObservation([UnknownObservation(row) EXCEPT !.captured = 0, !.refunded = 0])
  <2>1. /\ UnknownObservation(row) \in Observation
        /\ [UnknownObservation(row) EXCEPT !.captured = 0, !.refunded = 0] \in Observation
    BY <1>2, UnknownType, MoneylessType
  <2>2. ReferencedObservation(UnknownObservation(row))
    BY <1>4 DEF UnknownObservation, ReferencedObservation, Referenced
  <2>3. ReferencedObservation([UnknownObservation(row) EXCEPT !.captured = 0, !.refunded = 0])
    BY <1>4 DEF UnknownObservation, ReferencedObservation, Referenced
  <2>4. QED
    BY <2>1, <2>2, <2>3
<1>5. CASE CreateReply(w)
  <2> DEFINE obs == [status |-> "pending", agreement |-> TRUE, captured |-> 0, refunded |-> 0]
  <2>1. obs \in Observation /\ ReferencedObservation(obs)
    BY GrossAssumption DEF Observation, ProviderStatus, Money, ReferencedObservation, Referenced
  <2>2. QED
    BY <1>5, <2>1 DEF CreateReply
<1>6. CASE Reconcile(w)
  <2> DEFINE read == CheckoutRead(account)
             obs == IF ValidObservation(read) THEN read ELSE UnknownObservation(row)
  <2>1. tasks' = Answered(w, obs)
    BY <1>6 DEF Reconcile
  <2>2. Referenced(row)
    BY <1>3, <1>6 DEF Reconcile, Asking
  <2>3. read \in Observation /\ read.agreement
    BY <1>2, ReadType DEF CheckoutRead
  <2> HIDE DEF read, account, row
  <2>4. ReferencedObservation(read)
    BY <2>3 DEF ReferencedObservation, Referenced
  <2>5. QED
    BY <1>4, <2>1, <2>2, <2>3, <2>4
<1>7. CASE NoAnswer(w)
  <2>1. Referenced(row)
    BY <1>3, <1>7 DEF NoAnswer, Asking
  <2>2. QED
    BY <1>4, <1>7, <2>1 DEF NoAnswer
<1>8. QED
  BY <1>5, <1>6, <1>7

\* What every handler of the checkout knows stays referenced.
LEMMA HandlersReferenced ==
    ASSUME RInv, [CheckoutNext]_checkoutVars
    PROVE  \A w \in Workers : HandlerReferenced(w)'
<1>1. /\ IInv /\ tasks \in [Workers -> Task]
      /\ \A v \in Workers : HandlerReferenced(v)
      /\ \A k \in Keys : Referenced(purchases[k])
  BY DEF RInv, IInv, TypeInv, TypeOK, Finality, Final
<1>2. ASSUME UNCHANGED tasks
      PROVE  \A v \in Workers : HandlerReferenced(v)'
  BY <1>1, <1>2 DEF HandlerReferenced, Asking
<1>3. ASSUME NEW w \in Workers, NEW t \in Task, tasks' = [tasks EXCEPT ![w] = t],
             t.pc \in {"execute", "await", "reconcile"} => Referenced(t.seen),
             t.pc = "settle" => ReferencedObservation(t.obs)
      PROVE  \A v \in Workers : HandlerReferenced(v)'
  <2>1. tasks'[w] = t /\ \A v \in Workers : v # w => tasks'[v] = tasks[v]
    BY <1>1, <1>3
  <2>2. QED
    BY <1>1, <1>3, <2>1 DEF HandlerReferenced, Asking, ReferencedObservation
<1>4. ASSUME NEW w \in Workers, WorkerStep(w)
      PROVE  \A v \in Workers : HandlerReferenced(v)'
  <2>1. ASSUME NEW k \in Keys, tasks' = [tasks EXCEPT ![w] = Observing(k, purchases[k], FALSE)]
        PROVE  \A v \in Workers : HandlerReferenced(v)'
    <3> DEFINE t == Observing(k, purchases[k], FALSE)
    <3>1. /\ t \in Task
          /\ t.pc = "idle" \/ (t.pc = "reconcile" /\ t.key = k /\ t.seen = purchases[k])
      BY <1>1, LoadedTask DEF IInv
    <3>2. tasks' = [tasks EXCEPT ![w] = t]
      BY <2>1
    <3> HIDE DEF t
    <3>3. QED
      BY <1>1, <1>3, <3>1, <3>2
  <2>2. ASSUME NEW k \in Keys, Poll(w, k) \/ \E y \in Years : StartKnown(w, k, y)
        PROVE  \A v \in Workers : HandlerReferenced(v)'
    BY <2>1, <2>2 DEF Poll, StartKnown
  <2>3. CASE ClaimReplay(w)
    <3>1. tasks[w].key \in Keys
      BY <1>1, <2>3 DEF IInv, TypeInv, TasksNamed, ClaimReplay
    <3>2. QED
      BY <2>1, <2>3, <3>1 DEF ClaimReplay
  <2>4. ASSUME NEW k \in Keys, NEW y \in Years, StartNew(w, k, y)
        PROVE  \A v \in Workers : HandlerReferenced(v)'
    <3> DEFINE t == [Idle EXCEPT !.pc = "claim", !.key = k, !.year = y]
    <3>1. t \in Task /\ t.pc = "claim"
      BY IdleType DEF Task, Idle
    <3>2. QED
      BY <1>3, <2>4, <3>1 DEF StartNew
  <2>5. CASE ClaimCommit(w)
    <3> DEFINE k == tasks[w].key
               y == tasks[w].year
               t == Observing(k, ClaimedRow(y), TRUE)
    <3>1. k \in Keys /\ y \in Years /\ ClaimedRow(y) \in Row
      BY <1>1, <2>5, RowTypes DEF IInv, TypeInv, TasksNamed, ClaimCommit
    <3>2. t \in Task
      BY <3>1, ObservingType
    <3>3. t.pc = "execute" /\ t.seen = ClaimedRow(y)
      BY DEF Observing, ClaimedRow, TerminalStatus
    <3>4. Referenced(ClaimedRow(y))
      BY DEF Referenced, ClaimedRow
    <3>5. tasks' = [tasks EXCEPT ![w] = t]
      BY <2>5 DEF ClaimCommit
    <3> HIDE DEF t
    <3>6. QED
      BY <1>3, <3>2, <3>3, <3>4, <3>5
  <2>6. CASE SendCreate(w)
    <3> DEFINE t == [tasks[w] EXCEPT !.pc = "await"]
    <3>1. t \in Task /\ t.pc = "await" /\ t.seen = tasks[w].seen
      BY <1>1 DEF Task
    <3>2. tasks' = [tasks EXCEPT ![w] = t]
      BY <1>1, <2>6 DEF SendCreate
    <3>3. Referenced(tasks[w].seen)
      BY <1>1, <2>6 DEF SendCreate, HandlerReferenced, Asking
    <3> HIDE DEF t
    <3>4. QED
      BY <1>3, <3>1, <3>2, <3>3
  <2>7. CASE CreateReply(w) \/ Reconcile(w) \/ NoAnswer(w)
    <3>1. PICK obs \in Observation : tasks' = Answered(w, obs) /\ ReferencedObservation(obs)
      BY <2>7, AnswerReferenced
    <3> DEFINE t == [tasks[w] EXCEPT !.pc = "settle", !.seen = NoRow, !.obs = obs]
    <3>2. t \in Task /\ t.pc = "settle" /\ t.obs = obs
      BY <1>1, RowTypes DEF Task
    <3>3. tasks' = [tasks EXCEPT ![w] = t]
      BY <1>1, <3>1 DEF Answered
    <3> HIDE DEF t
    <3>4. QED
      BY <1>3, <3>1, <3>2, <3>3
  <2>8. CASE SettleCheckout(w) \/ Abandon(w)
    <3>1. Idle \in Task /\ Idle.pc = "idle"
      BY IdleType DEF Idle
    <3>2. QED
      BY <1>3, <2>8, <3>1 DEF SettleCheckout, Abandon
  <2>9. QED
    BY <1>4, <2>2, <2>3, <2>4, <2>5, <2>6, <2>7, <2>8 DEF WorkerStep
<1>5. ASSUME NEW k \in Keys, ProviderStep(k)
      PROVE  UNCHANGED tasks
  BY <1>5, <1>1, ProviderStepGrows
<1>6. QED
  BY <1>2, <1>4, <1>5 DEF CheckoutNext, Withdraw, checkoutVars

\* A settlement finishes a purchase only on evidence.
LEMMA SettleFinal ==
    ASSUME NEW row \in Row, NEW obs \in Observation,
           row.status # "none", Referenced(row), ReferencedObservation(obs),
           obs.status = "confirmed" => obs.captured = Gross
    PROVE  LET new == Settle(row, obs) IN
           \/ new = row
           \/ /\ Referenced(new) /\ new.status # "none" /\ new.canceled = row.canceled
              /\ new.status \in TerminalStatus => new.agreement
              /\ new.status = "failed" => new.op = "failed"
              /\ new.status = "paid" => new.op = "confirmed"
              /\ new.status = "refunded" => new.refunded = Gross /\ new.op = "confirmed"
<1> DEFINE new == Settle(row, obs)
<1>1. CASE /\ new.canceled = row.canceled
           /\ new.status = Outcome(obs)
           /\ new.op = obs.status
           /\ new.agreement = obs.agreement
           /\ new.captured = obs.captured
           /\ new.refunded = obs.refunded
  <2> HIDE DEF new
  <2>1. QED
    BY <1>1, OutcomeCases DEF ReferencedObservation, Referenced, TerminalStatus, new
<1>2. QED
  BY <1>1, SettleCases

\* Final statuses keep what they rest on.
LEMMA CheckoutFinal ==
    ASSUME RInv, [CheckoutNext]_checkoutVars, UNCHANGED refunds
    PROVE  Finality'
<1>1. /\ IInv /\ purchases \in [Keys -> Row]
      /\ \A k \in Keys : Final(k)
      /\ \A w \in Workers : HandlerReferenced(w)
  BY DEF RInv, IInv, TypeInv, TypeOK, Finality
<1>2. \A k \in Keys : WholeRefundConfirmed(k)' = WholeRefundConfirmed(k)
  BY DEF WholeRefundConfirmed
<1>3. \A k \in Keys : purchases'[k] = purchases[k] => Final(k)'
  BY <1>1, <1>2 DEF Final
<1>4. ASSUME NEW w \in Workers, ClaimCommit(w), NEW k \in Keys
      PROVE  Final(k)'
  <2>1. CASE k # tasks[w].key
    BY <1>1, <1>3, <1>4, <2>1 DEF ClaimCommit
  <2>2. CASE k = tasks[w].key
    <3>1. purchases'[k] = ClaimedRow(tasks[w].year)
      BY <1>1, <1>4, <2>2 DEF ClaimCommit
    <3>2. QED
      BY <3>1 DEF Final, ClaimedRow, Referenced, TerminalStatus
  <2>3. QED
    BY <2>1, <2>2
<1>5. ASSUME NEW w \in Workers, SettleCheckout(w), NEW k \in Keys
      PROVE  Final(k)'
  <2>1. CASE k # tasks[w].key
    BY <1>1, <1>3, <1>5, <2>1 DEF SettleCheckout
  <2>2. CASE k = tasks[w].key
    <3> DEFINE row == purchases[k]
               obs == tasks[w].obs
               new == Settle(row, obs)
    <3>1. purchases'[k] = new
      BY <1>1, <1>5, <2>2 DEF SettleCheckout
    <3>2. row \in Row /\ obs \in Observation /\ row.status # "none" /\ Referenced(row)
      BY <1>1, <1>5, <2>2 DEF IInv, TypeInv, TypeOK, Task, Conduct, Engaged, SettleCheckout, Final
    <3>3. ReferencedObservation(obs) /\ (obs.status = "confirmed" => obs.captured = Gross)
      BY <1>1, <1>5 DEF SettleCheckout, HandlerReferenced, ReferencedObservation, IInv, Backed,
                        ObservationBacked
    <3> HIDE DEF row, obs
    <3>4. new = row \/ Final(k)'
      BY <3>1, <3>2, <3>3, SettleFinal DEF Final
    <3>5. QED
      BY <1>3, <3>1, <3>4 DEF row
  <2>3. QED
    BY <2>1, <2>2
<1>6. \A k \in Keys : Final(k)'
  BY <1>1, <1>3, <1>4, <1>5, PurchaseSteps DEF Withdraw
<1>7. QED
  BY <1>6, HandlersReferenced DEF Finality

\* The steps of the checkout keep the invariant.
LEMMA CheckoutKeeps ==
    ASSUME RInv, [CheckoutNext]_checkoutVars, UNCHANGED <<refundVars, stopVars>>
    PROVE  RInv'
<1> USE DEF refundVars
<1>1. IInv' /\ vipps' \in [Keys -> Account]
  <2>1. IInv'
    BY StepInvariant DEF RInv
  <2>2. QED
    BY <2>1 DEF IInv, TypeInv, TypeOK
<1>2. RowsGrow /\ AccountsGrow
  BY CheckoutGrows
<1>3. RefundTypeInv'
  BY <1>1 DEF RInv, RefundTypeInv, RefundTypeOK, RefundNames, Exists, IInv, TypeInv, stopVars
<1>4. RefundConduct'
  BY DEF RInv, RefundConduct, Exists
<1>5. RefundMoney'
  BY <1>1, <1>2, CasesStand, MoneyGrows
<1>6. TasksBacked'
  BY <1>1, <1>2, TaskGrows DEF TasksBacked, AccountsGrow
<1>7. Finality'
  BY CheckoutFinal
<1>8. StopSafety'
  BY <1>1, <1>2, StopsStand DEF AccountsGrow
<1>9. QED
  BY <1>1, <1>3, <1>4, <1>5, <1>6, <1>7, <1>8 DEF RInv

-----------------------------------------------------------------------------
(* The provider, the stopped renewal and the cleanup. *)

\* Where the checkout stands still its invariant, and the final statuses, stand.
LEMMA CheckoutStands ==
    ASSUME RInv, UNCHANGED checkoutVars
    PROVE  /\ IInv' /\ RowsGrow /\ AccountsGrow
           /\ vipps' \in [Keys -> Account] /\ \A k \in Keys : Grows(vipps[k], vipps'[k])
           /\ refunds' = refunds => Finality'
<1>1. IInv'
  BY StepInvariant DEF RInv
<1>2. RowsGrow /\ AccountsGrow
  BY StandingGrows DEF checkoutVars
<1>3. vipps' \in [Keys -> Account]
  BY <1>1 DEF IInv, TypeInv, TypeOK
<1>4. refunds' = refunds => Finality'
  BY CheckoutFinal
<1>5. QED
  BY <1>1, <1>2, <1>3, <1>4 DEF AccountsGrow

\* The provider stops an agreement.
LEMMA ProviderStopKeeps ==
    ASSUME RInv, NEW k \in Keys, ProviderStop(k)
    PROVE  RInv'
<1> USE DEF refundVars, stopVars
<1>1. /\ vipps \in [Keys -> Account] /\ vipps[k] \in Account /\ AccountSane(vipps[k])
      /\ vipps[k].agreement = "active"
  BY DEF ProviderStop, RInv, IInv, TypeInv, TypeOK, Backed
<1> DEFINE new == [vipps[k] EXCEPT !.agreement = "stopped",
                                   !.charge = IF @ = "open" THEN "closed" ELSE @]
<1>2. /\ new \in Account /\ AccountSane(new) /\ new.agreement # "absent"
      /\ new.refunded = vipps[k].refunded /\ Grows(vipps[k], new)
  <2> DEFINE old == vipps[k]
  <2>1. /\ old.charge \in {"open", "charged", "closed"}
        /\ old.captured \in Money /\ old.refunded \in Money
    BY <1>1 DEF Account
  <2>2. /\ new.agreement = "stopped" /\ new.captured = old.captured /\ new.refunded = old.refunded
        /\ new.charge = (IF old.charge = "open" THEN "closed" ELSE old.charge)
    BY <1>1 DEF Account
  <2>3. new \in Account
    BY <1>1, <2>1 DEF Account
  <2> HIDE DEF new, old
  <2>4. AccountSane(new) /\ Grows(old, new)
    BY <1>1, <2>1, <2>2, GrossAssumption DEF AccountSane, Grows, Money, old
  <2>5. QED
    BY <2>2, <2>3, <2>4 DEF old
<1>3. vipps' = [vipps EXCEPT ![k] = new]
  BY <1>1 DEF ProviderStop
<1> HIDE DEF new
<1>4. \A j \in Keys : Grows(vipps[j], vipps[j]) /\ AccountSane(vipps[j])
  BY Numbers DEF Grows, RInv, IInv, Backed
<1>5. /\ vipps' \in [Keys -> Account]
      /\ \A j \in Keys : /\ Grows(vipps[j], vipps'[j]) /\ AccountSane(vipps'[j])
                         /\ vipps[j].agreement = "absent" => vipps'[j].agreement = "absent"
                         /\ vipps'[j].refunded = vipps[j].refunded
  BY <1>1, <1>2, <1>3, <1>4
<1>6. IInv'
  BY <1>5, AccountsKeep DEF ProviderStop, RInv
<1>7. RowsGrow /\ AccountsGrow
  BY <1>5, Numbers DEF RowsGrow, AccountsGrow, ProviderStop
<1>8. RefundTypeInv' /\ RefundConduct'
  BY <1>6 DEF ProviderStop, RInv, RefundTypeInv, RefundTypeOK, RefundNames, RefundConduct, Exists,
              IInv, TypeInv
<1>9. RefundMoney'
  BY <1>6, <1>7, CasesStand, MoneyGrows DEF ProviderStop
<1>10. TasksBacked'
  BY <1>5, TaskGrows DEF TasksBacked, ProviderStop
<1>11. Finality'
  BY DEF ProviderStop, RInv, Finality, Final, WholeRefundConfirmed, HandlerReferenced, Asking
<1>12. StopSafety'
  BY <1>5, <1>7, StopsStand DEF ProviderStop
<1>13. QED
  BY <1>6, <1>8, <1>9, <1>10, <1>11, <1>12 DEF RInv

\* The owner stops the renewal.
LEMMA CancelRenewalKeeps ==
    ASSUME RInv, NEW k \in Keys, CancelRenewal(k)
    PROVE  RInv'
<1> USE DEF refundVars, stopVars
<1>1. /\ purchases \in [Keys -> Row] /\ purchases[k].status # "none"
      /\ purchases' = [purchases EXCEPT ![k].canceled = TRUE]
      /\ UNCHANGED <<withdrawn, tasks, posts, vipps>>
  BY DEF CancelRenewal, RInv, IInv, TypeInv, TypeOK
<1>2. IInv' /\ vipps' \in [Keys -> Account]
  <2>1. IInv'
    BY <1>1, CanceledKeeps DEF RInv
  <2>2. QED
    BY <2>1 DEF IInv, TypeInv, TypeOK
<1>3. RowsGrow
  BY <1>1, Numbers DEF RowsGrow, Row
<1>4. AccountsGrow
  BY <1>1, StandingGrows, Numbers DEF AccountsGrow, Grows
<1>5. RefundTypeInv' /\ RefundConduct'
  BY <1>2 DEF CancelRenewal, RInv, RefundTypeInv, RefundTypeOK, RefundNames, RefundConduct, Exists,
              IInv, TypeInv
<1>6. RefundMoney'
  BY <1>2, <1>3, <1>4, CasesStand, MoneyGrows DEF CancelRenewal
<1>7. TasksBacked'
  BY <1>2, <1>4, TaskGrows DEF TasksBacked, CancelRenewal, AccountsGrow
<1>8. Finality'
  <2>1. \A j \in Keys : Final(j)'
    BY <1>1 DEF CancelRenewal, RInv, Finality, Final, WholeRefundConfirmed, Referenced, Row
  <2>2. QED
    BY <1>1, <2>1 DEF RInv, Finality, HandlerReferenced, Asking
<1>9. StopSafety'
  BY <1>2, <1>3, <1>4, StopsStand DEF CancelRenewal, AccountsGrow
<1>10. QED
  BY <1>2, <1>5, <1>6, <1>7, <1>8, <1>9 DEF RInv

\* A cleanup handler's step that sends nothing need only account for its own task.
LEMMA CleanerAlone ==
    ASSUME RInv, NEW c \in Cleaners, NEW t \in StopTask,
           stopTasks' = [stopTasks EXCEPT ![c] = t],
           t.pc # "idle" => t.key \in Keys,
           t.pc \in {"read", "check", "patch"} => purchases[t.key].canceled,
           t.pc = "patch" => ChargeTerminal(vipps[t.key]),
           stopPosts' \in SUBSET Keys,
           \A k \in stopPosts' : purchases[k].canceled /\ ChargeTerminal(vipps[k]),
           stops' \in [Keys -> {"none", "created", "pending", "unknown", "confirmed"}],
           UNCHANGED <<checkoutVars, refundVars>>
    PROVE  RInv'
<1> USE DEF refundVars, checkoutVars
<1>1. /\ stopTasks \in [Cleaners -> StopTask]
      /\ \A b \in Cleaners : stopTasks[b].pc # "idle" => stopTasks[b].key \in Keys
      /\ \A b \in Cleaners : CleanerBacked(b)
  BY DEF RInv, RefundTypeInv, RefundTypeOK, RefundNames, StopSafety
<1>2. stopTasks'[c] = t /\ \A b \in Cleaners : b # c => stopTasks'[b] = stopTasks[b]
  BY <1>1
<1>3. IInv' /\ Finality' /\ RowsGrow /\ AccountsGrow
      /\ vipps' \in [Keys -> Account] /\ \A k \in Keys : Grows(vipps[k], vipps'[k])
  BY CheckoutStands
<1>4. RefundTypeOK'
  BY <1>1, <1>3 DEF RInv, RefundTypeInv, RefundTypeOK, IInv, TypeInv
<1>5. RefundNames' /\ RefundConduct'
  BY <1>1, <1>2 DEF RInv, RefundTypeInv, RefundNames, RefundConduct, Exists
<1>6. RefundMoney'
  BY <1>3, CasesStand, MoneyGrows
<1>7. TasksBacked'
  BY <1>3, TaskGrows DEF TasksBacked
<1>8. StopSafety'
  <2>1. \A b \in Cleaners : CleanerBacked(b)'
    BY <1>1, <1>2 DEF CleanerBacked
  <2>2. StopNeverCancelsCharge'
    BY DEF StopNeverCancelsCharge
  <2>3. QED
    BY <2>1, <2>2 DEF StopSafety
<1>9. QED
  BY <1>3, <1>4, <1>5, <1>6, <1>7, <1>8 DEF RInv, RefundTypeInv

\* The steps of a cleanup keep the invariant.
LEMMA StopStepKeeps ==
    ASSUME RInv, NEW c \in Cleaners, StopStep(c)
    PROVE  RInv'
<1> DEFINE Stops == {"none", "created", "pending", "unknown", "confirmed"}
<1>1. /\ stopTasks \in [Cleaners -> StopTask] /\ stopTasks[c] \in StopTask
      /\ stopTasks[c].pc # "idle" => stopTasks[c].key \in Keys
      /\ CleanerBacked(c)
      /\ stopPosts \in SUBSET Keys /\ stops \in [Keys -> Stops]
      /\ \A k \in stopPosts : purchases[k].canceled /\ ChargeTerminal(vipps[k])
  BY DEF RInv, RefundTypeInv, RefundTypeOK, RefundNames, StopSafety, StopNeverCancelsCharge
<1>2. NoStopTask \in StopTask /\ NoStopTask.pc = "idle"
  BY NoKeyAssumption DEF NoStopTask, StopTask
<1>3. ASSUME NEW k \in Keys, ClaimCleanup(c, k)
      PROVE  RInv'
  <2> DEFINE t == [NoStopTask EXCEPT !.pc = IF stops[k] = "none" THEN "read" ELSE "check",
                                     !.key = k]
  <2>1. /\ t \in StopTask /\ t.pc \in {"read", "check"} /\ t.key = k
    BY DEF NoStopTask, StopTask
  <2>2. /\ stopTasks' = [stopTasks EXCEPT ![c] = t] /\ purchases[k].canceled
        /\ stops' = [stops EXCEPT ![k] = IF @ = "none" THEN "created" ELSE @]
        /\ stopPosts' = stopPosts /\ UNCHANGED <<checkoutVars, refundVars>>
    BY <1>3 DEF ClaimCleanup, StopSide
  <2>3. stops' \in [Keys -> Stops]
    BY <1>1, <2>2
  <2> HIDE DEF t
  <2>4. QED
    BY <1>1, <2>1, <2>2, <2>3, CleanerAlone
<1>4. ASSUME NEW k \in Keys, RecoverStop(c, k)
      PROVE  RInv'
  <2> DEFINE t == [NoStopTask EXCEPT !.pc = "observe", !.key = k]
  <2>1. t \in StopTask /\ t.pc = "observe" /\ t.key = k
    BY DEF NoStopTask, StopTask
  <2>2. /\ stopTasks' = [stopTasks EXCEPT ![c] = t] /\ stops' = stops
        /\ stopPosts' = stopPosts /\ UNCHANGED <<checkoutVars, refundVars>>
    BY <1>4 DEF RecoverStop, StopSide
  <2> HIDE DEF t
  <2>3. QED
    BY <1>1, <2>1, <2>2, CleanerAlone
<1>5. ASSUME NEW pc \in {"read", "patch"}, stopTasks' = [stopTasks EXCEPT ![c].pc = pc],
             stopTasks[c].pc # "idle", purchases[stopTasks[c].key].canceled,
             pc = "patch" => ChargeTerminal(vipps[stopTasks[c].key]),
             UNCHANGED <<StopSide, stops, stopPosts>>
      PROVE  RInv'
  <2> DEFINE t == [stopTasks[c] EXCEPT !.pc = pc]
  <2>1. t \in StopTask /\ t.pc = pc /\ t.key = stopTasks[c].key
    BY <1>1 DEF StopTask
  <2>2. stopTasks' = [stopTasks EXCEPT ![c] = t]
    BY <1>1, <1>5
  <2> HIDE DEF t
  <2>3. QED
    BY <1>1, <1>5, <2>1, <2>2, CleanerAlone DEF StopSide
<1>6. ASSUME NEW obs \in {"pending", "unknown", "confirmed"}, StopAnswered(c, obs),
             stopTasks[c].pc # "idle", UNCHANGED <<StopSide, stops, stopPosts>>
      PROVE  RInv'
  <2> DEFINE t == [stopTasks[c] EXCEPT !.pc = "settle", !.obs = obs]
  <2>1. t \in StopTask /\ t.pc = "settle" /\ t.key = stopTasks[c].key
    BY <1>1 DEF StopTask
  <2>2. stopTasks' = [stopTasks EXCEPT ![c] = t]
    BY <1>1, <1>6 DEF StopAnswered
  <2> HIDE DEF t
  <2>3. QED
    BY <1>1, <1>6, <2>1, <2>2, CleanerAlone DEF StopSide
<1>7. CASE CheckStop(c)
  BY <1>1, <1>5, <1>6, <1>7 DEF CheckStop, CleanerBacked
<1>8. CASE ReadStop(c)
  <2> DEFINE account == vipps[stopTasks[c].key]
  <2>1. /\ stopTasks[c].pc = "read" /\ purchases[stopTasks[c].key].canceled
        /\ UNCHANGED <<StopSide, stops, stopPosts>>
    BY <1>1, <1>8 DEF ReadStop, CleanerBacked
  <2>2. \/ StopAnswered(c, "confirmed")
        \/ StopAnswered(c, "pending")
        \/ ChargeTerminal(account) /\ stopTasks' = [stopTasks EXCEPT ![c].pc = "patch"]
    BY <1>8 DEF ReadStop
  <2>3. QED
    BY <1>5, <1>6, <2>1, <2>2
<1>9. CASE SendStop(c)
  <2> DEFINE t == [stopTasks[c] EXCEPT !.pc = "await"]
             k == stopTasks[c].key
  <2>1. t \in StopTask /\ t.pc = "await" /\ t.key = k
    BY <1>1 DEF StopTask
  <2>2. stopTasks' = [stopTasks EXCEPT ![c] = t]
    BY <1>1, <1>9 DEF SendStop
  <2>3. k \in Keys /\ purchases[k].canceled /\ ChargeTerminal(vipps[k])
    BY <1>1, <1>9 DEF SendStop, CleanerBacked
  <2>4. stopPosts' = stopPosts \cup {k} /\ stops' = stops /\ UNCHANGED <<checkoutVars, refundVars>>
    BY <1>9 DEF SendStop, StopSide
  <2> HIDE DEF t, k
  <2>5. QED
    BY <1>1, <2>1, <2>2, <2>3, <2>4, CleanerAlone
<1>10. CASE StopReply(c)
  BY <1>6, <1>10 DEF StopReply
<1>11. CASE NoStopAnswer(c)
  BY <1>6, <1>11 DEF NoStopAnswer
<1>12. CASE SettleStop(c)
  <2>1. /\ stops' = [stops EXCEPT ![stopTasks[c].key] =
                        IF @ = "confirmed" THEN @ ELSE stopTasks[c].obs]
        /\ stopTasks' = [stopTasks EXCEPT ![c] = NoStopTask]
        /\ stopPosts' = stopPosts /\ UNCHANGED <<checkoutVars, refundVars>>
    BY <1>12 DEF SettleStop, StopSide
  <2>2. stops' \in [Keys -> Stops]
    BY <1>1, <2>1 DEF StopTask
  <2>3. QED
    BY <1>1, <1>2, <2>1, <2>2, CleanerAlone
<1>13. CASE AbandonStop(c)
  BY <1>1, <1>2, <1>13, CleanerAlone DEF AbandonStop, StopSide
<1>14. QED
  BY <1>3, <1>4, <1>7, <1>8, <1>9, <1>10, <1>11, <1>12, <1>13 DEF StopStep

-----------------------------------------------------------------------------
(* The handlers of refund requests. *)

\* A handler that goes on with an operation has totals the provider covers.
LEMMA HandlingCovered ==
    ASSUME NEW r \in Requests, NEW refund \in Refund, NEW account \in Account, NEW newly \in BOOLEAN,
           refund.refundedBefore <= refund.capturedBefore,
           refund.capturedBefore <= account.captured, refund.refundedBefore <= account.refunded,
           refund.refunded <= refund.captured,
           refund.captured <= account.captured, refund.refunded <= account.refunded
    PROVE  LET t == Handling(r, refund, newly) IN
           /\ t \in RefundTask /\ t.operation = r
           /\ t.pc = IF newly THEN "execute" ELSE "reconcile"
           /\ RefundCovered(t, account)
<1> DEFINE t == Handling(r, refund, newly)
<1>1. NoRefundObservation \in RefundObservation
  BY GrossAssumption DEF NoRefundObservation, RefundObservation, ProviderStatus, Money
<1>2. t \in RefundTask
  BY <1>1 DEF Handling, RefundTask, Refund
<1>3. \/ t.captured = refund.capturedBefore /\ t.refunded = refund.refundedBefore
      \/ t.captured = refund.captured /\ t.refunded = refund.refunded
  BY DEF Handling
<1>4. t.operation = r /\ t.pc = IF newly THEN "execute" ELSE "reconcile"
  BY DEF Handling
<1> HIDE DEF t
<1>5. CASE t.captured = refund.capturedBefore /\ t.refunded = refund.refundedBefore
  <2>1. /\ t.refunded <= t.captured /\ t.captured <= account.captured
        /\ t.refunded <= account.refunded
    BY <1>5
  <2>2. QED
    BY <1>2, <1>4, <2>1 DEF RefundCovered, t
<1>6. CASE t.captured = refund.captured /\ t.refunded = refund.refunded
  <2>1. /\ t.refunded <= t.captured /\ t.captured <= account.captured
        /\ t.refunded <= account.refunded
    BY <1>6
  <2>2. QED
    BY <1>2, <1>4, <2>1 DEF RefundCovered, t
<1>7. QED
  BY <1>3, <1>5, <1>6

\* What an operation was computed from, and what it observed, is covered.
LEMMA OperationCovered ==
    ASSUME RInv, NEW r \in Requests, Exists(r)
    PROVE  LET account == vipps[refunds[r].key] IN
           /\ refunds[r].refundedBefore <= refunds[r].capturedBefore
           /\ refunds[r].capturedBefore <= account.captured
           /\ refunds[r].refundedBefore <= account.refunded
           /\ refunds[r].refunded <= refunds[r].captured
           /\ refunds[r].captured <= account.captured
           /\ refunds[r].refunded <= account.refunded
<1>1. PICK k \in Keys : k = refunds[r].key
  BY Named
<1>2. Computed(r) /\ refunds[r].source \in Sources
  BY Named DEF RInv, RefundMoney
<1>3. Covered(purchases[k], vipps[k])
  BY DEF RInv, IInv, Backed
<1>4. /\ purchases[k].captured \in Nat /\ purchases[k].refunded \in Nat
      /\ vipps[k].captured \in Nat /\ vipps[k].refunded \in Nat
      /\ refunds[r].capturedBefore \in Nat /\ refunds[r].refundedBefore \in Nat
      /\ refunds[r].captured \in Nat /\ refunds[r].refunded \in Nat
      /\ cases[k][refunds[r].source].entitled \in Nat
  BY <1>2, Numbers
<1>5. QED
  BY <1>1, <1>2, <1>3, <1>4 DEF Computed, Covered, Lesser

\* A refund handler's step that decides nothing need only account for its own
\* task and for what it sends.
LEMMA RefunderAlone ==
    ASSUME RInv, NEW h \in Refunders, NEW t \in RefundTask,
           refundTasks' = [refundTasks EXCEPT ![h] = t],
           t.pc # "idle" => t.operation \in Requests /\ Exists(t.operation),
           TaskBacked(t), RefundConduct',
           refundPosts' \in [Requests -> 0 .. MaxPosts],
           UNCHANGED <<checkoutVars, cases, requests, refunds, refundDone, stopVars>>
    PROVE  RInv'
<1>1. /\ refundTasks \in [Refunders -> RefundTask]
      /\ \A g \in Refunders : refundTasks[g].pc # "idle" =>
            refundTasks[g].operation \in Requests /\ Exists(refundTasks[g].operation)
  BY DEF RInv, RefundTypeInv, RefundTypeOK, RefundNames
<1>2. refundTasks'[h] = t /\ \A g \in Refunders : g # h => refundTasks'[g] = refundTasks[g]
  BY <1>1
<1>3. IInv' /\ Finality' /\ RowsGrow /\ AccountsGrow
      /\ vipps' \in [Keys -> Account] /\ \A k \in Keys : Grows(vipps[k], vipps'[k])
  BY CheckoutStands
<1>4. RefundTypeOK'
  BY <1>1, <1>3 DEF RInv, RefundTypeInv, RefundTypeOK, IInv, TypeInv, stopVars
<1>5. RefundNames'
  BY <1>1, <1>2 DEF RInv, RefundTypeInv, RefundNames, Exists, stopVars
<1>6. RefundMoney'
  BY <1>3, CasesStand, MoneyGrows
<1>7. TasksBacked'
  <2>1. TaskBacked(refundTasks[h])'
    BY <1>2 DEF TaskBacked, UpTo, checkoutVars
  <2>2. \A g \in Refunders : g # h => TaskBacked(refundTasks[g])'
    BY <1>2, <1>3, TaskGrows
  <2>3. QED
    BY <2>1, <2>2 DEF TasksBacked
<1>8. StopSafety'
  BY <1>3, StopsStand
<1>9. QED
  BY <1>3, <1>4, <1>5, <1>6, <1>7, <1>8 DEF RInv, RefundTypeInv

\* A step that sends nothing and executes nothing keeps who may POST.
LEMMA QuietRefunder ==
    ASSUME RInv, NEW h \in Refunders, NEW t \in RefundTask, t.pc # "execute",
           refundTasks' = [refundTasks EXCEPT ![h] = t],
           UNCHANGED <<refunds, refundPosts, refundDone>>
    PROVE  RefundConduct' /\ refundPosts' \in [Requests -> 0 .. MaxPosts]
<1>1. refundTasks \in [Refunders -> RefundTask] /\ refundPosts \in [Requests -> 0 .. MaxPosts]
  BY DEF RInv, RefundTypeInv, RefundTypeOK
<1>2. refundTasks'[h] = t /\ \A g \in Refunders : g # h => refundTasks'[g] = refundTasks[g]
  BY <1>1
<1>3. QED
  BY <1>1, <1>2 DEF RInv, RefundConduct, Exists

\* A handler without a request.
LEMMA NoRefundTaskType == NoRefundTask \in RefundTask /\ TaskBacked(NoRefundTask)
<1>1. NoRefundTask \in RefundTask
  BY GrossAssumption DEF NoRefundTask, RefundTask, NoRefundObservation, RefundObservation,
                         ProviderStatus, Money
<1>2. TaskBacked(NoRefundTask)
  BY DEF NoRefundTask, TaskBacked
<1>3. QED
  BY <1>1, <1>2

\* An answer that the provider covers takes its handler to the settlement.
LEMMA AnswerKeeps ==
    ASSUME RInv, NEW h \in Refunders, NEW obs \in RefundObservation, RefundAnswered(h, obs),
           refundTasks[h].pc # "idle",
           RefundCovered(obs, vipps[refunds[refundTasks[h].operation].key]),
           obs.status \in {"unknown", "confirmed"},
           obs.status = "confirmed" =>
              /\ refundDone[refundTasks[h].operation]
              /\ UpTo(refundTasks[h].operation) <= obs.refunded,
           UNCHANGED <<RefundSide, refundPosts, refundDone>>
    PROVE  RInv'
<1> DEFINE old == refundTasks[h]
           t == [old EXCEPT !.pc = "settle", !.captured = 0, !.refunded = 0, !.obs = obs]
<1>1. /\ refundTasks \in [Refunders -> RefundTask] /\ old \in RefundTask
      /\ old.operation \in Requests /\ Exists(old.operation)
  BY DEF RInv, RefundTypeInv, RefundTypeOK, RefundNames
<1>2. /\ t \in RefundTask /\ t.pc = "settle" /\ t.obs = obs /\ t.operation = old.operation
  <2>1. 0 \in Money
    BY GrossAssumption DEF Money
  <2>2. QED
    BY <1>1, <2>1 DEF RefundTask
<1>3. refundTasks' = [refundTasks EXCEPT ![h] = t]
  BY <1>1 DEF RefundAnswered, RefundTask
<1> HIDE DEF t
<1>4. TaskBacked(t)
  BY <1>2 DEF TaskBacked
<1>5. RefundConduct' /\ refundPosts' \in [Requests -> 0 .. MaxPosts]
  BY <1>2, <1>3, QuietRefunder DEF RefundSide
<1>6. QED
  BY <1>1, <1>2, <1>3, <1>4, <1>5, RefunderAlone DEF RefundSide

\* Resuming, reading and giving up keep the invariant.
LEMMA ReadingKeeps ==
    ASSUME RInv, NEW h \in Refunders,
           \/ \E r \in Requests : ResumeRefund(h, r)
           \/ ReadRefund(h) \/ NoRefundAnswer(h) \/ AbandonRefund(h)
    PROVE  RInv'
<1> DEFINE old == refundTasks[h]
           q == old.operation
<1>1. /\ refundTasks \in [Refunders -> RefundTask] /\ old \in RefundTask
      /\ old.pc # "idle" => q \in Requests /\ Exists(q)
      /\ TaskBacked(old)
  BY DEF RInv, RefundTypeInv, RefundTypeOK, RefundNames, TasksBacked
<1>2. ASSUME NEW r \in Requests, ResumeRefund(h, r)
      PROVE  RInv'
  <2> DEFINE u == requests[r].operation
             t == Handling(u, refunds[u], FALSE)
  <2>1. u \in Requests /\ Exists(u)
    BY <1>2, NoRequestAssumption, NoKeyAssumption
       DEF ResumeRefund, RInv, RefundTypeInv, RefundTypeOK, RefundNames, Request, Exists
  <2> HIDE DEF u
  <2>2. /\ t \in RefundTask /\ t.operation = u /\ t.pc = "reconcile"
        /\ RefundCovered(t, vipps[refunds[u].key])
    <3>1. refunds[u] \in Refund /\ vipps[refunds[u].key] \in Account
      BY <2>1, Named, MoneyTypes
    <3> DEFINE account == vipps[refunds[u].key]
    <3>2. /\ refunds[u].refundedBefore <= refunds[u].capturedBefore
          /\ refunds[u].capturedBefore <= account.captured
          /\ refunds[u].refundedBefore <= account.refunded
          /\ refunds[u].refunded <= refunds[u].captured
          /\ refunds[u].captured <= account.captured
          /\ refunds[u].refunded <= account.refunded
      BY <2>1, OperationCovered
    <3> HIDE DEF account
    <3>3. /\ t \in RefundTask /\ t.operation = u
          /\ t.pc = IF FALSE THEN "execute" ELSE "reconcile"
          /\ RefundCovered(t, account)
      BY <2>1, <3>1, <3>2, HandlingCovered, Zenon DEF account
    <3>4. QED
      BY <3>3 DEF account
  <2>3. refundTasks' = [refundTasks EXCEPT ![h] = t]
    BY <1>2 DEF ResumeRefund, u
  <2> HIDE DEF t
  <2>4. TaskBacked(t)
    BY <2>2 DEF TaskBacked
  <2>5. UNCHANGED <<checkoutVars, cases, requests, refunds, refundPosts, refundDone, stopVars>>
    BY <1>2 DEF ResumeRefund
  <2>6. RefundConduct' /\ refundPosts' \in [Requests -> 0 .. MaxPosts]
    BY <2>2, <2>3, <2>5, QuietRefunder
  <2>7. QED
    BY <2>1, <2>2, <2>3, <2>4, <2>5, <2>6, RefunderAlone
<1>3. CASE ReadRefund(h)
  <2> DEFINE account == vipps[refunds[q].key]
             read == [status |-> IF refundDone[q] THEN "confirmed" ELSE "unknown",
                      captured |-> account.captured, refunded |-> account.refunded]
  <2>1. /\ old.pc \in {"await", "reconcile"} /\ ValidRefundObservation(refunds[q], read)
        /\ RefundAnswered(h, read) /\ UNCHANGED <<RefundSide, refundPosts, refundDone>>
    BY <1>3 DEF ReadRefund
  <2>2. q \in Requests /\ refunds[q].key \in Keys
    BY <1>1, <2>1, Named
  <2>3. read \in RefundObservation
    BY <2>2, MoneyTypes DEF RefundObservation, ProviderStatus
  <2>4. /\ account.captured \in Nat /\ account.refunded \in Nat /\ UpTo(q) \in Nat
    BY <2>2, Numbers
  <2>7. /\ read.status \in {"unknown", "confirmed"}
        /\ read.status = "confirmed" => refundDone[q]
        /\ read.captured = account.captured /\ read.refunded = account.refunded
    OBVIOUS
  <2> HIDE DEF read, account
  <2>5. RefundCovered(read, account)
    BY <2>1, <2>4, <2>7 DEF RefundCovered, ValidRefundObservation
  <2>6. read.status = "confirmed" => refundDone[q] /\ UpTo(q) <= read.refunded
    BY <2>1, <2>4, <2>7 DEF ValidRefundObservation, UpTo
  <2>8. QED
    BY <2>1, <2>3, <2>5, <2>6, <2>7, AnswerKeeps DEF account
<1>4. CASE NoRefundAnswer(h)
  <2> DEFINE obs == [status |-> "unknown", captured |-> old.captured, refunded |-> old.refunded]
  <2>1. /\ old.pc \in {"execute", "await", "reconcile"} /\ RefundAnswered(h, obs)
        /\ UNCHANGED <<RefundSide, refundPosts, refundDone>>
    BY <1>4 DEF NoRefundAnswer
  <2>2. obs \in RefundObservation
    BY MoneyTypes DEF RefundObservation, ProviderStatus
  <2>3. RefundCovered(obs, vipps[refunds[q].key])
    BY <1>1, <2>1 DEF TaskBacked, RefundCovered
  <2>4. QED
    BY <2>1, <2>2, <2>3, AnswerKeeps
<1>5. CASE AbandonRefund(h)
  <2>1. /\ refundTasks' = [refundTasks EXCEPT ![h] = NoRefundTask]
        /\ UNCHANGED <<checkoutVars, cases, requests, refunds, refundPosts, refundDone, stopVars>>
    BY <1>5 DEF AbandonRefund
  <2>2. NoRefundTask.pc = "idle"
    BY DEF NoRefundTask
  <2>3. RefundConduct' /\ refundPosts' \in [Requests -> 0 .. MaxPosts]
    BY <2>1, <2>2, NoRefundTaskType, QuietRefunder
  <2>4. QED
    BY <2>1, <2>2, <2>3, NoRefundTaskType, RefunderAlone
<1>6. QED
  BY <1>2, <1>3, <1>4, <1>5

\* The one POST of a refund keeps the invariant.
LEMMA SendRefundKeeps ==
    ASSUME RInv, NEW h \in Refunders, SendRefund(h)
    PROVE  RInv'
<1> DEFINE old == refundTasks[h]
           r == old.operation
           t == [old EXCEPT !.pc = "await"]
<1>1. /\ refundTasks \in [Refunders -> RefundTask] /\ old \in RefundTask
      /\ refundPosts \in [Requests -> 0 .. MaxPosts]
      /\ r \in Requests /\ Exists(r) /\ TaskBacked(old)
  BY DEF SendRefund, RInv, RefundTypeInv, RefundTypeOK, RefundNames, TasksBacked
<1>2. /\ old.pc = "execute" /\ refundPosts[r] < MaxPosts
      /\ refundPosts' = [refundPosts EXCEPT ![r] = @ + 1]
      /\ UNCHANGED <<checkoutVars, cases, requests, refunds, refundDone, stopVars>>
  BY DEF SendRefund, RefundSide
<1>3. /\ t \in RefundTask /\ t.pc = "await" /\ t.operation = r
      /\ t.captured = old.captured /\ t.refunded = old.refunded
  BY <1>1 DEF RefundTask
<1>4. refundTasks' = [refundTasks EXCEPT ![h] = t]
  BY <1>1 DEF SendRefund
<1> HIDE DEF t
<1>5. refundPosts[r] = 0
  BY <1>2 DEF RInv, RefundConduct
<1>6. /\ refundPosts' \in [Requests -> 0 .. MaxPosts] /\ refundPosts'[r] = 1
      /\ \A q \in Requests : q # r => refundPosts'[q] = refundPosts[q]
  BY <1>1, <1>2, <1>5, MaxPostsAssumption
<1>7. /\ refundTasks'[h] = t
      /\ \A g \in Refunders : g # h => refundTasks'[g] = refundTasks[g]
  BY <1>1, <1>4
<1>8. RefundConduct'
  <2>1. \A q \in Requests : /\ refundPosts'[q] <= 1
                            /\ refundDone'[q] => refundPosts'[q] > 0
                            /\ ~Exists(q)' => refundPosts'[q] = 0
    BY <1>1, <1>2, <1>6 DEF RInv, RefundConduct, Exists
  <2>2. \A g \in Refunders : refundTasks'[g].pc = "execute" =>
            /\ g # h /\ refundTasks'[g] = refundTasks[g]
            /\ refundTasks[g].operation # r /\ refundTasks[g].operation \in Requests
    BY <1>2, <1>3, <1>7 DEF RInv, RefundConduct, RefundTypeInv, RefundNames
  <2>3. QED
    BY <1>6, <2>1, <2>2 DEF RInv, RefundConduct
<1>9. TaskBacked(t)
  BY <1>1, <1>2, <1>3 DEF TaskBacked, RefundCovered
<1>10. QED
  BY <1>1, <1>2, <1>3, <1>4, <1>6, <1>8, <1>9, RefunderAlone

\* The provider returns money, once per operation.
LEMMA ProviderRefundKeeps ==
    ASSUME RInv, NEW r \in Requests, ProviderRefund(r)
    PROVE  RInv'
<1> USE DEF stopVars
<1>0. Exists(r)
  BY DEF ProviderRefund, RInv, RefundConduct
<1> PICK k \in Keys : k = refunds[r].key
  BY <1>0, Named
<1> DEFINE new == [vipps[k] EXCEPT !.refunded = @ + refunds[r].amount]
<1>1. /\ vipps \in [Keys -> Account] /\ refundDone \in [Requests -> BOOLEAN]
      /\ refundPosts[r] > 0 /\ ~refundDone[r]
      /\ vipps[k].refunded + refunds[r].amount <= vipps[k].captured
      /\ vipps' = [vipps EXCEPT ![k].refunded = @ + refunds[r].amount]
      /\ refundDone' = [refundDone EXCEPT ![r] = TRUE]
      /\ UNCHANGED <<purchases, withdrawn, tasks, posts, cases, requests, refunds,
                     refundTasks, refundPosts, stopVars>>
  BY DEF ProviderRefund, RInv, IInv, TypeInv, TypeOK, RefundTypeInv, RefundTypeOK
<1>2. Exists(r) /\ k = refunds[r].key
  BY <1>0
<1>3. r \in Unresolved(k)
  BY <1>1, <1>2, Named DEF RInv, RefundMoney, Counted
<1>4. /\ vipps[k] \in Account /\ AccountSane(vipps[k])
      /\ vipps[k].captured \in Money /\ vipps[k].refunded \in Money
      /\ refunds[r].amount \in Nat /\ refunds[r].refundedBefore \in Nat
      /\ refunds[r].capturedBefore \in Nat
  BY <1>2, MoneyTypes, Numbers DEF RInv, IInv, Backed
<1>5. /\ new.agreement = vipps[k].agreement /\ new.charge = vipps[k].charge
      /\ new.captured = vipps[k].captured /\ new.refunded = vipps[k].refunded + refunds[r].amount
  BY <1>4 DEF Account
<1>6. new.refunded \in Money /\ vipps[k].refunded <= new.refunded
  BY <1>1, <1>4, <1>5, GrossAssumption DEF Money
<1>7. new \in Account
  BY <1>4, <1>5, <1>6 DEF Account
<1>8. vipps' = [vipps EXCEPT ![k] = new]
  BY <1>1
<1> HIDE DEF new
<1>9. AccountSane(new) /\ Grows(vipps[k], new)
  BY <1>4, <1>5, <1>6, GrossAssumption DEF AccountSane, Grows, Money
<1>10. \A j \in Keys : Grows(vipps[j], vipps[j]) /\ AccountSane(vipps[j])
  BY Numbers DEF Grows, RInv, IInv, Backed
<1>11. /\ vipps' \in [Keys -> Account]
       /\ \A j \in Keys : /\ Grows(vipps[j], vipps'[j]) /\ AccountSane(vipps'[j])
                          /\ vipps[j].agreement = "absent" => vipps'[j].agreement = "absent"
                          /\ j # k => vipps'[j] = vipps[j]
       /\ vipps'[k].refunded = vipps[k].refunded + refunds[r].amount
  BY <1>1, <1>2, <1>5, <1>7, <1>8, <1>9, <1>10
<1>12. IInv'
  BY <1>1, <1>11, AccountsKeep DEF RInv
<1>13. RowsGrow
  BY <1>1, Numbers DEF RowsGrow
<1>14. RefundTypeInv' /\ RefundConduct'
  BY <1>1, <1>12 DEF RInv, RefundTypeInv, RefundTypeOK, RefundNames, RefundConduct, Exists, IInv,
                     TypeInv
<1>15. CasesGrow
  BY <1>1, <1>12, <1>13, CasesStand
<1>16. Counted(k)' /\ Entitled(k)'
  <2>1. Counted(k)
    BY <1>2 DEF RInv, RefundMoney
  <2>2. vipps'[k].refunded = UpTo(r)
    BY <1>1, <1>3, <1>4, <1>11, <2>1 DEF Counted, UpTo
  <2>3. Unresolved(k)' = Unresolved(k) /\ \A q \in Requests : UpTo(q)' = UpTo(q)
    BY <1>1 DEF Unresolved, UpTo
  <2>4. refundDone'[r] /\ \A q \in Requests : refundDone[q] => refundDone'[q]
    BY <1>1
  <2>5. Unresolved(k) = {r}
    BY <1>3, <2>1 DEF Counted
  <2>6. Counted(k)'
    BY <1>1, <2>1, <2>2, <2>3, <2>4, <2>5 DEF Counted, UpTo
  <2>7. Computed(r) /\ refunds[r].source \in Sources
    BY <1>2, Named DEF RInv, RefundMoney
  <2>8. cases[k][refunds[r].source].entitled \in Nat
    BY <1>2, <2>7, Numbers
  <2>9. UpTo(r) <= cases[k][refunds[r].source].entitled
    BY <1>4, <2>7, <2>8 DEF Computed, UpTo, Lesser
  <2>10. Entitled(k)'
    BY <1>1, <2>2, <2>7, <2>9 DEF Entitled, Computed
  <2>11. QED
    BY <2>6, <2>10
<1>17. ASSUME NEW j \in Keys, j # k
       PROVE  Counted(j)' /\ Entitled(j)'
  <2>1. \A q \in Requests : refunds[q].key = j \/ refunds'[q].key = j =>
            refunds'[q] = refunds[q] /\ refundDone'[q] = refundDone[q]
    BY <1>1, <1>17
  <2>2. QED
    BY <1>11, <1>12, <1>13, <1>15, <1>17, <2>1, CountedGrows, EntitledGrows
<1>18. RefundMoney'
  <2>1. \A q \in Requests : Exists(q)' => Computed(q)'
    BY <1>1, <1>12, <1>13, <1>15, ComputedGrows DEF Exists
  <2>2. RefundsNeverOverlap'
    BY <1>1 DEF RInv, RefundMoney, RefundsNeverOverlap
  <2>3. QED
    BY <1>15, <1>16, <1>17, <2>1, <2>2 DEF RefundMoney, CasesGrow
<1>19. TasksBacked'
  <2>1. \A q \in Requests : refundDone[q] => refundDone'[q]
    BY <1>1
  <2>2. \A h \in Refunders : refundTasks[h].pc # "idle" => refundTasks[h].operation \in Requests
    BY DEF RInv, RefundTypeInv, RefundNames
  <2>3. QED
    BY <1>1, <1>11, <2>1, <2>2, TaskGrows DEF TasksBacked
<1>20. Finality'
  BY <1>1 DEF RInv, Finality, Final, WholeRefundConfirmed, HandlerReferenced, Asking
<1>21. StopSafety'
  BY <1>1, <1>11, <1>13, StopsStand
<1>22. QED
  BY <1>12, <1>14, <1>18, <1>19, <1>20, <1>21 DEF RInv

-----------------------------------------------------------------------------
(* Recording a refund request. *)

\* The case a request is recorded for.
LEMMA CaseFacts ==
    ASSUME RInv, NEW k \in Keys, NEW s \in Sources, NEW entitled \in Money,
           cases[k][s].open \/ purchases[k].captured > 0
    PROVE  LET case == CaseFor(k, s, entitled) IN
           /\ purchases[k].status # "none"
           /\ case \in Case /\ case.open /\ case.entitled \in Money
           /\ case.refundedBefore <= purchases[k].refunded
           /\ cases[k][s].open => case = cases[k][s]
<1>1. CasesSane(k) /\ RowSane(purchases[k])
  BY DEF RInv, RefundMoney, IInv, Backed
<1>2. purchases[k].refunded \in Nat /\ purchases[k].refunded \in Money /\ cases[k][s] \in Case
  BY Numbers, MoneyTypes
<1>3. purchases[k].status # "none"
  BY <1>1 DEF CasesSane, RowSane
<1>4. QED
  BY <1>1, <1>2, <1>3 DEF CaseFor, CasesSane, Case

\* Recording a request leaves ledger, provider and opened cases as they are, but
\* for the stopped renewal.
LEMMA RecordedGrows ==
    ASSUME RInv, NEW r \in Requests, NEW k \in Keys, NEW s \in Sources, NEW entitled \in Money,
           NEW operation,
           cases[k][s].open \/ purchases[k].captured > 0,
           Recorded(r, k, s, CaseFor(k, s, entitled), operation)
    PROVE  /\ IInv' /\ RowsGrow /\ AccountsGrow /\ CasesGrow
           /\ vipps' \in [Keys -> Account] /\ \A j \in Keys : Grows(vipps[j], vipps'[j])
           /\ StopSafety'
           /\ \A j \in Keys : purchases'[j].captured = purchases[j].captured
                              /\ purchases'[j].refunded = purchases[j].refunded
           /\ cases'[k][s] = CaseFor(k, s, entitled)
<1> DEFINE case == CaseFor(k, s, entitled)
<1>1. /\ purchases[k].status # "none"
      /\ case \in Case /\ case.open /\ case.refundedBefore <= purchases[k].refunded
      /\ cases[k][s].open => case = cases[k][s]
  BY CaseFacts
<1>2. /\ purchases' = [purchases EXCEPT ![k].canceled = TRUE]
      /\ cases' = [cases EXCEPT ![k][s] = case]
      /\ UNCHANGED <<withdrawn, tasks, posts, vipps, stopVars>>
  BY DEF Recorded
<1> HIDE DEF case
<1>3. /\ purchases \in [Keys -> Row] /\ cases \in [Keys -> [Sources -> Case]]
      /\ \A j \in Keys : CasesSane(j)
  BY DEF RInv, IInv, TypeInv, TypeOK, RefundTypeInv, RefundTypeOK, RefundMoney
<1>4. IInv'
  BY <1>1, <1>2, CanceledKeeps DEF RInv
<1>5. \A j \in Keys : /\ purchases'[j].captured = purchases[j].captured
                      /\ purchases'[j].refunded = purchases[j].refunded
                      /\ purchases'[j].status = purchases[j].status
                      /\ purchases[j].canceled => purchases'[j].canceled
  BY <1>2, <1>3 DEF Row
<1>6. RowsGrow
  BY <1>5, Numbers DEF RowsGrow
<1>7. AccountsGrow
  BY <1>2, Numbers DEF AccountsGrow, Grows
<1>8. /\ cases' \in [Keys -> [Sources -> Case]] /\ cases'[k][s] = case
      /\ \A j \in Keys, z \in Sources : j # k \/ z # s => cases'[j][z] = cases[j][z]
  BY <1>1, <1>2, <1>3
<1>9. CasesGrow
  <2>1. \A j \in Keys : CasesSane(j)'
    BY <1>1, <1>3, <1>5, <1>8 DEF CasesSane
  <2>2. \A j \in Keys, z \in Sources : cases[j][z].open => cases'[j][z] = cases[j][z]
    BY <1>1, <1>8
  <2>3. QED
    BY <1>8, <2>1, <2>2 DEF CasesGrow
<1>10. vipps' \in [Keys -> Account] /\ \A j \in Keys : Grows(vipps[j], vipps'[j])
  BY <1>4, <1>7 DEF AccountsGrow, IInv, TypeInv, TypeOK
<1>11. StopSafety'
  BY <1>2, <1>6, <1>10, StopsStand
<1>12. QED
  BY <1>4, <1>5, <1>6, <1>7, <1>8, <1>9, <1>10, <1>11 DEF case

\* Recording a request leaves the final statuses and what they rest on.
LEMMA RecordedFinal ==
    ASSUME RInv, NEW k \in Keys, purchases[k].status # "none",
           purchases' = [purchases EXCEPT ![k].canceled = TRUE], UNCHANGED tasks,
           \A j \in Keys : WholeRefundConfirmed(j) => WholeRefundConfirmed(j)'
    PROVE  Finality'
<1>1. purchases \in [Keys -> Row] /\ (\A j \in Keys : Final(j)) /\ \A w \in Workers : HandlerReferenced(w)
  BY DEF RInv, IInv, TypeInv, TypeOK, Finality
<1>2. \A j \in Keys : Final(j)'
  BY <1>1 DEF Final, Referenced, Row
<1>3. \A w \in Workers : HandlerReferenced(w)'
  BY <1>1 DEF HandlerReferenced, Asking
<1>4. QED
  BY <1>2, <1>3 DEF Finality

\* A request that is recorded has inserted no operation yet.
LEMMA RecordableFree ==
    ASSUME RInv, NEW r \in Requests, NEW k \in Keys, NEW s \in Sources, Recordable(r, k, s)
    PROVE  /\ requests[r].operation = NoRequest
           /\ refunds[r] = NoRefund /\ ~Exists(r) /\ refundPosts[r] = 0 /\ ~refundDone[r]
<1>1. requests[r].operation = NoRequest
  BY DEF Recordable, Unrequested
<1>2. refunds[r] = NoRefund
  BY <1>1, NoRequestAssumption DEF RInv, RefundTypeInv, RefundNames
<1>3. ~Exists(r)
  BY <1>2 DEF Exists, NoRefund
<1>4. refundPosts[r] = 0 /\ ~refundDone[r]
  BY <1>3 DEF RInv, RefundConduct
<1>5. QED
  BY <1>1, <1>2, <1>3, <1>4

\* Binding a request to an operation of its case, or to none, keeps the invariant.
LEMMA RecordKeeps ==
    ASSUME RInv, NEW h \in Refunders, NEW t \in RefundTask,
           NEW r \in Requests, NEW k \in Keys, NEW s \in Sources, NEW entitled \in Money,
           NEW o \in Requests \cup {NoRequest},
           Recordable(r, k, s), cases[k][s].open \/ purchases[k].captured > 0,
           Recorded(r, k, s, CaseFor(k, s, entitled), o),
           o # NoRequest => refunds[o].key = k /\ refunds[o].source = s,
           refunds' = refunds, refundTasks' = [refundTasks EXCEPT ![h] = t],
           t.pc # "execute",
           t.pc # "idle" => t.operation \in Requests /\ Exists(t.operation),
           TaskBacked(t)
    PROVE  RInv'
<1>1. /\ IInv' /\ RowsGrow /\ AccountsGrow /\ CasesGrow
      /\ vipps' \in [Keys -> Account] /\ \A j \in Keys : Grows(vipps[j], vipps'[j])
      /\ StopSafety'
  BY RecordedGrows
<1>2. /\ requests' = [requests EXCEPT ![r] = [key |-> k, source |-> s, operation |-> o]]
      /\ purchases' = [purchases EXCEPT ![k].canceled = TRUE]
      /\ UNCHANGED <<withdrawn, tasks, posts, vipps, refundPosts, refundDone, stopVars>>
  BY DEF Recorded
<1>3. /\ refundTasks \in [Refunders -> RefundTask] /\ requests \in [Requests -> Request]
      /\ \A g \in Refunders : refundTasks[g].pc # "idle" =>
            refundTasks[g].operation \in Requests /\ Exists(refundTasks[g].operation)
  BY DEF RInv, RefundTypeInv, RefundTypeOK, RefundNames
<1>4. refundTasks'[h] = t /\ \A g \in Refunders : g # h => refundTasks'[g] = refundTasks[g]
  BY <1>3
<1>5. /\ requests' \in [Requests -> Request]
      /\ requests'[r].key = k /\ requests'[r].source = s /\ requests'[r].operation = o
      /\ \A p \in Requests : p # r => requests'[p] = requests[p]
  BY <1>2, <1>3 DEF Request
<1>6. refunds[r] = NoRefund
  BY RecordableFree
<1>7. RefundTypeOK'
  <2>1. cases' \in [Keys -> [Sources -> Case]] /\ TypeOK'
    BY <1>1 DEF CasesGrow, IInv, TypeInv
  <2>2. refundTasks' \in [Refunders -> RefundTask]
    BY <1>3
  <2>3. QED
    BY <1>2, <1>5, <2>1, <2>2 DEF RInv, RefundTypeInv, RefundTypeOK, stopVars
<1>8. RefundNames'
  <2>1. \A q \in Requests :
           \/ refunds'[q] = NoRefund
           \/ /\ refunds'[q].key \in Keys /\ refunds'[q].source \in Sources
              /\ refunds'[q].status \in {"created", "unknown", "confirmed"}
              /\ requests'[q].operation = q
    BY <1>5, <1>6 DEF RInv, RefundTypeInv, RefundNames
  <2>2. \A p \in Requests : requests'[p].operation # NoRequest =>
           /\ requests'[p].key \in Keys /\ requests'[p].source \in Sources
           /\ refunds'[requests'[p].operation].key = requests'[p].key
           /\ refunds'[requests'[p].operation].source = requests'[p].source
    BY <1>5 DEF RInv, RefundTypeInv, RefundNames
  <2>3. \A g \in Refunders : refundTasks'[g].pc # "idle" =>
           refundTasks'[g].operation \in Requests /\ Exists(refundTasks'[g].operation)
    BY <1>3, <1>4
  <2>4. \A c \in Cleaners : stopTasks'[c].pc # "idle" => stopTasks'[c].key \in Keys
    BY <1>2 DEF RInv, RefundTypeInv, RefundNames, stopVars
  <2>5. QED
    BY <2>1, <2>2, <2>3, <2>4 DEF RefundNames, Exists
<1>9. RefundConduct'
  BY <1>2, QuietRefunder
<1>10. RefundMoney'
  BY <1>1, <1>2, MoneyGrows
<1>11. TasksBacked'
  <2>1. TaskBacked(refundTasks[h])'
    BY <1>2, <1>4 DEF TaskBacked, UpTo
  <2>2. \A g \in Refunders : g # h => TaskBacked(refundTasks[g])'
    BY <1>1, <1>2, <1>4, TaskGrows
  <2>3. QED
    BY <2>1, <2>2 DEF TasksBacked
<1>12. Finality'
  <2>1. purchases[k].status # "none"
    BY CaseFacts
  <2>2. QED
    BY <1>2, <2>1, RecordedFinal DEF WholeRefundConfirmed
<1>13. QED
  BY <1>1, <1>7, <1>8, <1>9, <1>10, <1>11, <1>12 DEF RInv, RefundTypeInv

\* A request for a case whose refund is unresolved, and one that must wait.
LEMMA BindingKeeps ==
    ASSUME RInv, NEW h \in Refunders, NEW r \in Requests, NEW k \in Keys, NEW s \in Sources,
           BindRefund(h, r, k, s) \/ \E entitled \in Money : DeferRefund(h, r, k, s, entitled)
    PROVE  RInv'
<1>1. /\ refundTasks \in [Refunders -> RefundTask] /\ refundTasks[h] \in RefundTask
      /\ TaskBacked(refundTasks[h])
  BY DEF RInv, RefundTypeInv, RefundTypeOK, TasksBacked
<1>2. CASE BindRefund(h, r, k, s)
  <2>1. PICK u \in Unresolved(k) :
           /\ refunds[u].source = s
           /\ Recorded(r, k, s, cases[k][s], u)
           /\ refundTasks' = [refundTasks EXCEPT ![h] = Handling(u, refunds[u], FALSE)]
    BY <1>2 DEF BindRefund
  <2>2. u \in Requests /\ Exists(u) /\ refunds[u].key = k
    BY NoKeyAssumption DEF Unresolved, Exists
  <2>3. /\ Recordable(r, k, s) /\ cases[k][s].open /\ refunds' = refunds
    BY <1>2 DEF BindRefund, Claimable
  <2>4. 0 \in Money /\ CaseFor(k, s, 0) = cases[k][s]
    BY <2>3, GrossAssumption DEF CaseFor, Money
  <2> DEFINE t == Handling(u, refunds[u], FALSE)
  <2>5. /\ t \in RefundTask /\ t.operation = u /\ t.pc = "reconcile"
        /\ RefundCovered(t, vipps[refunds[u].key])
    <3>1. refunds[u] \in Refund /\ vipps[refunds[u].key] \in Account
      BY <2>2, Named, MoneyTypes
    <3> DEFINE account == vipps[refunds[u].key]
    <3>2. /\ refunds[u].refundedBefore <= refunds[u].capturedBefore
          /\ refunds[u].capturedBefore <= account.captured
          /\ refunds[u].refundedBefore <= account.refunded
          /\ refunds[u].refunded <= refunds[u].captured
          /\ refunds[u].captured <= account.captured
          /\ refunds[u].refunded <= account.refunded
      BY <2>2, OperationCovered
    <3> HIDE DEF account
    <3>3. /\ t \in RefundTask /\ t.operation = u
          /\ t.pc = IF FALSE THEN "execute" ELSE "reconcile"
          /\ RefundCovered(t, account)
      BY <2>2, <3>1, <3>2, HandlingCovered, Zenon DEF account
    <3>4. QED
      BY <3>3 DEF account
  <2> HIDE DEF t
  <2>6. TaskBacked(t) /\ t.pc # "execute" /\ t.pc # "idle"
    BY <2>5 DEF TaskBacked
  <2>7. refundTasks' = [refundTasks EXCEPT ![h] = t]
    BY <2>1 DEF t
  <2>8. Recorded(r, k, s, CaseFor(k, s, 0), u)
    BY <2>1, <2>4
  <2>9. QED
    BY <2>1, <2>2, <2>3, <2>4, <2>5, <2>6, <2>7, <2>8, RecordKeeps
<1>3. ASSUME NEW entitled \in Money, DeferRefund(h, r, k, s, entitled)
      PROVE  RInv'
  <2>1. /\ Recordable(r, k, s) /\ (cases[k][s].open \/ purchases[k].captured > 0)
        /\ refundTasks[h].pc = "idle"
        /\ Recorded(r, k, s, CaseFor(k, s, entitled), NoRequest)
        /\ refunds' = refunds /\ refundTasks' = refundTasks
    BY <1>3 DEF DeferRefund, Claimable
  <2>2. refundTasks' = [refundTasks EXCEPT ![h] = refundTasks[h]]
    BY <1>1, <2>1
  <2>3. QED
    BY <1>1, <2>1, <2>2, RecordKeeps
<1>4. QED
  BY <1>2, <1>3

\* What a new operation returns.
LEMMA PayableFacts ==
    ASSUME RInv, NEW k \in Keys, NEW case \in Case, case.entitled \in Money, Payable(k, case) > 0
    PROVE  /\ Payable(k, case) \in Money
           /\ purchases[k].refunded < Lesser(case.entitled, purchases[k].captured)
           /\ Payable(k, case) = Lesser(case.entitled, purchases[k].captured) - purchases[k].refunded
<1>1. purchases[k].captured \in Money /\ purchases[k].refunded \in Money
  BY MoneyTypes
<1>2. Lesser(case.entitled, purchases[k].captured) \in Money
  BY <1>1, Amounts
<1>3. QED
  BY <1>1, <1>2, GrossAssumption DEF Payable, Money

\* Claiming a refund inserts the only unresolved operation of its purchase.
LEMMA ClaimRefundKeeps ==
    ASSUME RInv, NEW h \in Refunders, NEW r \in Requests, NEW k \in Keys, NEW s \in Sources,
           NEW entitled \in Money, ClaimRefund(h, r, k, s, entitled)
    PROVE  RInv'
<1> DEFINE case == CaseFor(k, s, entitled)
           row == purchases[k]
           refund == [key |-> k, source |-> s, status |-> "created", amount |-> Payable(k, case),
                      capturedBefore |-> row.captured, refundedBefore |-> row.refunded,
                      captured |-> 0, refunded |-> 0]
           t == Handling(r, refund, TRUE)
<1>1. /\ Recordable(r, k, s) /\ (cases[k][s].open \/ purchases[k].captured > 0)
      /\ Unresolved(k) = {} /\ Payable(k, case) > 0
      /\ Recorded(r, k, s, case, r)
      /\ refunds' = [refunds EXCEPT ![r] = refund]
      /\ refundTasks' = [refundTasks EXCEPT ![h] = t]
  BY DEF ClaimRefund, Claimable
<1>2. /\ row.status # "none"
      /\ case \in Case /\ case.open /\ case.entitled \in Money
      /\ case.refundedBefore <= row.refunded
  BY <1>1, CaseFacts
<1>3. /\ Payable(k, case) \in Money
      /\ row.refunded < Lesser(case.entitled, row.captured)
      /\ Payable(k, case) = Lesser(case.entitled, row.captured) - row.refunded
  BY <1>1, <1>2, PayableFacts
<1>4. /\ row.captured \in Money /\ row.refunded \in Money
      /\ row.captured \in Nat /\ row.refunded \in Nat /\ 0 \in Money
      /\ vipps[k] \in Account /\ vipps[k].captured \in Nat /\ vipps[k].refunded \in Nat
      /\ case.entitled \in Nat
  BY <1>2, MoneyTypes, Numbers, GrossAssumption DEF Money
<1>5. /\ refund \in Refund
      /\ refund.key = k /\ refund.source = s /\ refund.status = "created"
      /\ refund.amount = Payable(k, case)
      /\ refund.capturedBefore = row.captured /\ refund.refundedBefore = row.refunded
      /\ refund.captured = 0 /\ refund.refunded = 0
  BY <1>3, <1>4 DEF Refund
<1>6. /\ IInv' /\ RowsGrow /\ AccountsGrow /\ CasesGrow
      /\ vipps' \in [Keys -> Account] /\ \A j \in Keys : Grows(vipps[j], vipps'[j])
      /\ StopSafety'
      /\ purchases'[k].captured = row.captured /\ purchases'[k].refunded = row.refunded
      /\ cases'[k][s] = case
  BY <1>1, RecordedGrows
<1>7. /\ requests' = [requests EXCEPT ![r] = [key |-> k, source |-> s, operation |-> r]]
      /\ purchases' = [purchases EXCEPT ![k].canceled = TRUE]
      /\ UNCHANGED <<withdrawn, tasks, posts, vipps, refundPosts, refundDone, stopVars>>
  BY <1>1 DEF Recorded
<1> HIDE DEF case, refund
<1>8. /\ t \in RefundTask /\ t.operation = r /\ t.pc = "execute"
      /\ RefundCovered(t, vipps[k])
  <2>1. Covered(row, vipps[k])
    BY DEF RInv, IInv, Backed
  <2>2. /\ refund.refundedBefore <= refund.capturedBefore
        /\ refund.capturedBefore <= vipps[k].captured /\ refund.refundedBefore <= vipps[k].refunded
        /\ refund.refunded <= refund.captured
        /\ refund.captured <= vipps[k].captured /\ refund.refunded <= vipps[k].refunded
    BY <1>4, <1>5, <2>1 DEF Covered
  <2> DEFINE account == vipps[k]
  <2>3. account \in Account
    BY <1>4
  <2> HIDE DEF account
  <2>4. /\ t \in RefundTask /\ t.operation = r
        /\ t.pc = IF TRUE THEN "execute" ELSE "reconcile"
        /\ RefundCovered(t, account)
    BY <1>5, <2>2, <2>3, HandlingCovered, Zenon DEF account
  <2>5. QED
    BY <2>4 DEF account
<1> HIDE DEF t, row
<1>9. /\ refundTasks \in [Refunders -> RefundTask] /\ requests \in [Requests -> Request]
      /\ refunds \in [Requests -> Refund]
      /\ \A g \in Refunders : refundTasks[g].pc # "idle" =>
            refundTasks[g].operation \in Requests /\ Exists(refundTasks[g].operation)
  BY DEF RInv, RefundTypeInv, RefundTypeOK, RefundNames
<1>10. /\ refundTasks'[h] = t
       /\ \A g \in Refunders : g # h => refundTasks'[g] = refundTasks[g]
       /\ refundTasks' \in [Refunders -> RefundTask]
  BY <1>1, <1>8, <1>9
<1>11. /\ refunds' \in [Requests -> Refund] /\ refunds'[r] = refund
       /\ \A q \in Requests : q # r => refunds'[q] = refunds[q]
  BY <1>1, <1>5, <1>9
<1>12. /\ requests' \in [Requests -> Request]
       /\ requests'[r].key = k /\ requests'[r].source = s /\ requests'[r].operation = r
       /\ \A p \in Requests : p # r => requests'[p] = requests[p]
  BY <1>7, <1>9 DEF Request
<1>13. refunds[r] = NoRefund /\ ~Exists(r) /\ refundPosts[r] = 0 /\ ~refundDone[r]
  BY <1>1, RecordableFree
<1>14. RefundTypeOK'
  <2>1. cases' \in [Keys -> [Sources -> Case]] /\ TypeOK'
    BY <1>6 DEF CasesGrow, IInv, TypeInv
  <2>2. QED
    BY <1>7, <1>10, <1>11, <1>12, <2>1 DEF RInv, RefundTypeInv, RefundTypeOK, stopVars
<1>15. RefundNames'
  <2>1. \A q \in Requests :
           \/ refunds'[q] = NoRefund
           \/ /\ refunds'[q].key \in Keys /\ refunds'[q].source \in Sources
              /\ refunds'[q].status \in {"created", "unknown", "confirmed"}
              /\ requests'[q].operation = q
    BY <1>5, <1>11, <1>12 DEF RInv, RefundTypeInv, RefundNames
  <2>2. \A p \in Requests : p # r /\ requests[p].operation # NoRequest => requests[p].operation # r
    BY <1>13, NoKeyAssumption DEF RInv, RefundTypeInv, RefundNames, Exists
  <2>3. \A p \in Requests : requests'[p].operation # NoRequest =>
           /\ requests'[p].key \in Keys /\ requests'[p].source \in Sources
           /\ refunds'[requests'[p].operation].key = requests'[p].key
           /\ refunds'[requests'[p].operation].source = requests'[p].source
    <3> TAKE p \in Requests
    <3>1. CASE p = r
      BY <1>5, <1>11, <1>12, <3>1
    <3>2. CASE p # r
      <4>1. requests[p] \in Request
        BY <1>9
      <4>2. QED
        BY <1>11, <1>12, <2>2, <3>2, <4>1 DEF RInv, RefundTypeInv, RefundNames, Request
    <3>3. QED
      BY <3>1, <3>2
  <2>4. \A g \in Refunders : refundTasks'[g].pc # "idle" =>
           /\ refundTasks'[g].operation \in Requests
           /\ refunds'[refundTasks'[g].operation].key # NoKey
    BY <1>5, <1>8, <1>9, <1>10, <1>11, NoKeyAssumption DEF Exists
  <2>5. \A c \in Cleaners : stopTasks'[c].pc # "idle" => stopTasks'[c].key \in Keys
    BY <1>7 DEF RInv, RefundTypeInv, RefundNames, stopVars
  <2>6. QED
    BY <2>1, <2>3, <2>4, <2>5 DEF RefundNames, Exists
<1>16. RefundConduct'
  <2>1. \A q \in Requests : /\ refundPosts'[q] <= 1
                            /\ refundDone'[q] => refundPosts'[q] > 0
                            /\ ~Exists(q)' => refundPosts'[q] = 0
    BY <1>7, <1>11, <1>13 DEF RInv, RefundConduct, Exists
  <2>2. \A g \in Refunders : g # h /\ refundTasks'[g].pc = "execute" =>
            refundTasks'[g] = refundTasks[g] /\ refundTasks[g].operation # r
    BY <1>9, <1>10, <1>13
  <2>3. QED
    BY <1>7, <1>8, <1>10, <1>13, <2>1, <2>2 DEF RInv, RefundConduct
<1>17. Computed(r)'
  BY <1>2, <1>3, <1>4, <1>5, <1>6, <1>11 DEF Computed, row
<1>18. Counted(k)'
  <2>1. Counted(k)
    BY DEF RInv, RefundMoney
  <2>2. vipps'[k].refunded = row.refunded
    BY <1>1, <1>7, <2>1 DEF Counted, row
  <2>3. Unresolved(k)' = {r}
    BY <1>1, <1>5, <1>11 DEF Unresolved, UnresolvedStatus
  <2>4. ~refundDone'[r] /\ refunds'[r].refundedBefore = row.refunded
    BY <1>5, <1>7, <1>11, <1>13
  <2>5. row.refunded + 0 = row.refunded
    BY <1>4
  <2>6. ASSUME NEW q \in Requests, refunds'[q].key = k, refunds'[q].status = "confirmed"
        PROVE  refundDone'[q] /\ UpTo(q)' <= purchases'[k].refunded
    <3>1. q # r /\ refunds'[q] = refunds[q] /\ UpTo(q)' = UpTo(q)
      BY <1>5, <1>11, <2>6 DEF UpTo
    <3>2. QED
      BY <1>6, <1>7, <2>1, <2>6, <3>1 DEF Counted, row
  <2>7. \A q \in Unresolved(k)' : vipps'[k].refunded =
            refunds'[q].refundedBefore + (IF refundDone'[q] THEN refunds'[q].amount ELSE 0)
    BY <2>2, <2>3, <2>4, <2>5
  <2>8. QED
    BY <2>3, <2>6, <2>7 DEF Counted
<1>19. \A j \in Keys : Counted(j)' /\ CasesSane(j)' /\ Entitled(j)'
  <2>1. ASSUME NEW j \in Keys, j # k
        PROVE  Counted(j)'
    <3>1. \A q \in Requests : refunds[q].key = j \/ refunds'[q].key = j =>
              refunds'[q] = refunds[q] /\ refundDone'[q] = refundDone[q]
      BY <1>5, <1>7, <1>11, <1>13, <2>1, NoKeyAssumption DEF NoRefund
    <3>2. QED
      BY <1>6, <1>7, <3>1, CountedGrows
  <2>2. QED
    BY <1>6, <1>7, <1>18, <2>1, EntitledGrows DEF CasesGrow
<1>20. RefundsNeverOverlap'
  <2>1. ASSUME NEW q \in Requests, q # r, refunds'[q].key = k
        PROVE  refunds'[q].refundedBefore + refunds'[q].amount <= refunds'[r].refundedBefore
    <3>1. refunds'[q] = refunds[q] /\ Exists(q)
      BY <1>11, <2>1, NoKeyAssumption DEF Exists
    <3>2. refunds[q].status = "confirmed"
      BY <1>1, <2>1, <3>1, Named
    <3>3. UpTo(q) <= row.refunded
      BY <2>1, <3>1, <3>2 DEF RInv, RefundMoney, Counted, row
    <3>4. QED
      BY <1>5, <1>11, <3>1, <3>3 DEF UpTo
  <2>2. ASSUME NEW p \in Requests, NEW q \in Requests, p # q,
               refunds'[p].key = refunds'[q].key, refunds'[p].key # NoKey
        PROVE  \/ refunds'[p].refundedBefore + refunds'[p].amount <= refunds'[q].refundedBefore
               \/ refunds'[q].refundedBefore + refunds'[q].amount <= refunds'[p].refundedBefore
    <3>1. CASE p # r /\ q # r
      BY <1>11, <2>2, <3>1 DEF RInv, RefundMoney, RefundsNeverOverlap
    <3>2. CASE p = r \/ q = r
      BY <1>5, <1>11, <2>1, <2>2, <3>2
    <3>3. QED
      BY <3>1, <3>2
  <2>3. QED
    BY <2>2 DEF RefundsNeverOverlap
<1>21. RefundMoney'
  <2>1. ASSUME NEW q \in Requests, Exists(q)'
        PROVE  Computed(q)'
    <3>1. CASE q = r
      BY <1>17, <3>1
    <3>2. CASE q # r
      BY <1>6, <1>11, <2>1, <3>2, ComputedGrows DEF Exists
    <3>3. QED
      BY <3>1, <3>2
  <2>2. QED
    BY <1>19, <1>20, <2>1 DEF RefundMoney
<1>22. TasksBacked'
  <2>1. TaskBacked(refundTasks[h])'
    BY <1>5, <1>7, <1>8, <1>10, <1>11 DEF TaskBacked
  <2>2. ASSUME NEW g \in Refunders, g # h
        PROVE  TaskBacked(refundTasks[g])'
    <3>1. refundTasks[g].pc # "idle" =>
              /\ refunds'[refundTasks[g].operation] = refunds[refundTasks[g].operation]
              /\ refundTasks[g].operation \in Requests
      BY <1>9, <1>11, <1>13
    <3>2. QED
      BY <1>6, <1>7, <1>10, <2>2, <3>1, TaskGrows
  <2>3. QED
    BY <2>1, <2>2 DEF TasksBacked
<1>23. Finality'
  <2>1. ASSUME NEW j \in Keys, WholeRefundConfirmed(j)
        PROVE  WholeRefundConfirmed(j)'
    <3>1. PICK q \in Requests :
             /\ refunds[q].key = j /\ refunds[q].status = "confirmed"
             /\ refunds[q].captured = Gross /\ refunds[q].refunded = Gross
      BY <2>1 DEF WholeRefundConfirmed
    <3>2. q # r
      BY <1>13, <3>1, NoKeyAssumption DEF NoRefund
    <3>3. QED
      BY <1>11, <3>1, <3>2 DEF WholeRefundConfirmed
  <2>2. QED
    BY <1>2, <1>7, <2>1, RecordedFinal DEF row
<1>24. QED
  BY <1>6, <1>14, <1>15, <1>16, <1>21, <1>22, <1>23 DEF RInv, RefundTypeInv

-----------------------------------------------------------------------------
(* Settling a refund. *)

\* A settlement that is not dropped takes its observation over.
LEMMA RefundSettledCases ==
    ASSUME NEW refund \in Refund, NEW obs \in RefundObservation
    PROVE  LET new == RefundSettled(refund, obs) IN
           \/ new = refund
           \/ /\ refund.status # "confirmed" /\ new \in Refund
              /\ new.key = refund.key /\ new.source = refund.source
              /\ new.amount = refund.amount /\ new.capturedBefore = refund.capturedBefore
              /\ new.refundedBefore = refund.refundedBefore
              /\ new.status = obs.status
              /\ new.captured = obs.captured /\ new.refunded = obs.refunded
BY DEF RefundSettled, Refund, RefundObservation

\* The purchase of a refund under way has captured money, and what its handler
\* settles is covered by the provider.
LEMMA SettlingFacts ==
    ASSUME RInv, NEW h \in Refunders, refundTasks[h].pc = "settle"
    PROVE  LET r == refundTasks[h].operation
               k == refunds[r].key
               obs == refundTasks[h].obs
           IN
           /\ r \in Requests /\ Exists(r) /\ k \in Keys /\ refunds[r].source \in Sources
           /\ refunds[r] \in Refund /\ obs \in RefundObservation
           /\ RefundCovered(obs, vipps[k]) /\ obs.status \in {"unknown", "confirmed"}
           /\ obs.status = "confirmed" => refundDone[r] /\ UpTo(r) <= obs.refunded
           /\ purchases[k].captured > 0 /\ purchases[k].status # "none"
           /\ purchases[k].status # "failed"
           /\ purchases[k].status = "refunded" => purchases[k].refunded = Gross
<1> DEFINE r == refundTasks[h].operation
           obs == refundTasks[h].obs
<1>1. r \in Requests /\ Exists(r) /\ TaskBacked(refundTasks[h])
  BY DEF RInv, RefundTypeInv, RefundNames, TasksBacked
<1>2. /\ refunds[r].key \in Keys /\ refunds[r].source \in Sources /\ refunds[r] \in Refund
      /\ obs \in RefundObservation
  BY <1>1, Named, MoneyTypes
<1>3. /\ RefundCovered(obs, vipps[refunds[r].key]) /\ obs.status \in {"unknown", "confirmed"}
      /\ obs.status = "confirmed" => refundDone[r] /\ UpTo(r) <= obs.refunded
  BY <1>1 DEF TaskBacked
<1>4. PICK k \in Keys : k = refunds[r].key
  BY <1>2
<1>5. Computed(r) /\ RowSane(purchases[k]) /\ Final(k)
  BY <1>1 DEF RInv, RefundMoney, IInv, Backed, Finality
<1>6. /\ refunds[r].refundedBefore \in Nat /\ refunds[r].capturedBefore \in Nat
      /\ purchases[k].captured \in Nat /\ cases[k][refunds[r].source].entitled \in Nat
  BY <1>1, <1>2, Numbers
<1>7. purchases[k].captured > 0
  <2>1. refunds[r].refundedBefore <
            Lesser(cases[k][refunds[r].source].entitled, refunds[r].capturedBefore)
    BY <1>4, <1>5 DEF Computed
  <2>2. refunds[r].capturedBefore <= purchases[k].captured
    BY <1>4, <1>5 DEF Computed
  <2> HIDE DEF r
  <2>3. QED
    BY <1>4, <1>6, <2>1, <2>2 DEF Lesser
<1>8. purchases[k].status # "none" /\ purchases[k].status # "failed"
  BY <1>5, <1>6, <1>7 DEF RowSane, PurchaseChecks
<1>9. QED
  BY <1>1, <1>2, <1>3, <1>4, <1>5, <1>7, <1>8 DEF Final

\* What a refund's settlement does to the ledger: nothing, or totals grow and the
\* purchase may be refunded.
LEMMA SettleRefundRow ==
    ASSUME RInv, NEW h \in Refunders, SettleRefund(h)
    PROVE  \/ UNCHANGED <<purchases, refunds>>
           \/ \E k \in Keys, new \in Row :
                 /\ purchases' = [purchases EXCEPT ![k] = new]
                 /\ new.year = purchases[k].year /\ new.op = purchases[k].op
                 /\ new.agreement = purchases[k].agreement /\ new.canceled = purchases[k].canceled
                 /\ purchases[k].captured <= new.captured /\ purchases[k].refunded <= new.refunded
                 /\ purchases[k].status # "none"
                 /\ \/ new.status = purchases[k].status
                    \/ purchases[k].status \in {"pending", "paid"} /\ new.status = "refunded"
<1> DEFINE r == refundTasks[h].operation
           k == refunds[r].key
           obs == refundTasks[h].obs
           settled == RefundSettled(refunds[r], obs)
           new == PurchaseAfterRefund(purchases[k], obs)
<1>1. /\ refundTasks[h].pc = "settle"
      /\ refunds' = [refunds EXCEPT ![r] = settled]
      /\ purchases' = IF settled = refunds[r] THEN purchases ELSE [purchases EXCEPT ![k] = new]
  BY DEF SettleRefund, RInv, IInv, TypeInv, TypeOK
<1>2. CASE settled = refunds[r]
  BY <1>1, <1>2 DEF RInv, RefundTypeInv, RefundTypeOK
<1>3. CASE settled # refunds[r]
  <2>1. k \in Keys /\ obs \in RefundObservation /\ purchases[k].status # "none"
        /\ purchases[k].status # "failed"
    BY <1>1, SettlingFacts
  <2>2. purchases[k] \in Row /\ purchases[k].captured \in Money /\ purchases[k].refunded \in Money
        /\ obs.captured \in Money /\ obs.refunded \in Money
    BY <2>1, MoneyTypes
  <2>3. /\ new \in Row
        /\ new.year = purchases[k].year /\ new.op = purchases[k].op
        /\ new.agreement = purchases[k].agreement /\ new.canceled = purchases[k].canceled
        /\ new.captured = Greater(purchases[k].captured, obs.captured)
        /\ new.refunded = Greater(purchases[k].refunded, obs.refunded)
        /\ new.status = purchases[k].status \/ new.status = "refunded"
    BY <2>1, <2>2, AfterRefund
  <2>4. purchases[k].captured <= new.captured /\ purchases[k].refunded <= new.refunded
    BY <2>2, <2>3, Amounts
  <2>5. purchases[k].status \in {"pending", "paid", "refunded"}
    BY <2>1, <2>2 DEF Row, PurchaseStatus
  <2>6. purchases' = [purchases EXCEPT ![k] = new]
    BY <1>1, <1>3
  <2> HIDE DEF new, k
  <2>7. QED
    BY <2>1, <2>3, <2>4, <2>5, <2>6
<1>4. QED
  BY <1>2, <1>3

\* Settling a refund keeps the invariant.
LEMMA SettleRefundKeeps ==
    ASSUME RInv, NEW h \in Refunders, SettleRefund(h)
    PROVE  RInv'
<1> PICK r \in Requests : r = refundTasks[h].operation
  BY SettlingFacts DEF SettleRefund
<1> PICK k \in Keys : k = refunds[r].key
  BY SettlingFacts DEF SettleRefund
<1> DEFINE obs == refundTasks[h].obs
           row == purchases[k]
           settled == RefundSettled(refunds[r], obs)
           new == PurchaseAfterRefund(row, obs)
<1>1. /\ refundTasks[h].pc = "settle"
      /\ refunds' = [refunds EXCEPT ![r] = settled]
      /\ purchases' = IF settled = refunds[r] THEN purchases ELSE [purchases EXCEPT ![k] = new]
      /\ refundTasks' = [refundTasks EXCEPT ![h] = NoRefundTask]
      /\ UNCHANGED <<withdrawn, tasks, posts, vipps, cases, requests, refundPosts, refundDone,
                     stopVars>>
  BY DEF SettleRefund, RInv, IInv, TypeInv, TypeOK
<1>2. /\ Exists(r) /\ refunds[r].source \in Sources
      /\ refunds[r] \in Refund /\ obs \in RefundObservation
      /\ RefundCovered(obs, vipps[k]) /\ obs.status \in {"unknown", "confirmed"}
      /\ obs.status = "confirmed" => refundDone[r] /\ UpTo(r) <= obs.refunded
      /\ row.captured > 0 /\ row.status # "none" /\ row.status # "failed"
      /\ row.status = "refunded" => row.refunded = Gross
  BY <1>1, SettlingFacts
<1>3. /\ refundTasks \in [Refunders -> RefundTask] /\ refunds \in [Requests -> Refund]
      /\ purchases \in [Keys -> Row]
  BY DEF RInv, RefundTypeInv, RefundTypeOK, TypeOK
<1>4. NoRefundTask \in RefundTask /\ TaskBacked(NoRefundTask) /\ NoRefundTask.pc = "idle"
  BY NoRefundTaskType DEF NoRefundTask
<1>5. CASE settled = refunds[r]
  <2>1. refunds' = refunds /\ purchases' = purchases
    BY <1>1, <1>3, <1>5
  <2>2. UNCHANGED <<checkoutVars, cases, requests, refunds, refundDone, stopVars>>
    BY <1>1, <2>1 DEF checkoutVars
  <2>3. RefundConduct' /\ refundPosts' \in [Requests -> 0 .. MaxPosts]
    BY <1>1, <1>4, <2>1, QuietRefunder
  <2>4. QED
    BY <1>1, <1>4, <2>2, <2>3, RefunderAlone
<1>6. CASE settled # refunds[r]
  <2>1. /\ refunds[r].status # "confirmed" /\ settled \in Refund
        /\ settled.key = k /\ settled.source = refunds[r].source
        /\ settled.amount = refunds[r].amount
        /\ settled.capturedBefore = refunds[r].capturedBefore
        /\ settled.refundedBefore = refunds[r].refundedBefore
        /\ settled.status = obs.status
        /\ settled.captured = obs.captured /\ settled.refunded = obs.refunded
    BY <1>2, <1>6, RefundSettledCases
  <2>2. /\ row \in Row /\ vipps[k] \in Account
        /\ RowSane(row) /\ Covered(row, vipps[k]) /\ StatusBacked(row, vipps[k]) /\ Final(k)
        /\ Counted(k)
    BY <1>3, MoneyTypes DEF RInv, IInv, Backed, Finality, RefundMoney
  <2>3. /\ new \in Row
        /\ new.year = row.year /\ new.op = row.op /\ new.agreement = row.agreement
        /\ new.canceled = row.canceled
        /\ new.captured = Greater(row.captured, obs.captured)
        /\ new.refunded = Greater(row.refunded, obs.refunded)
        /\ \/ new.status = row.status
           \/ /\ new.status = "refunded" /\ obs.status = "confirmed"
              /\ new.captured = Gross /\ new.refunded = Gross
    BY <1>2, <2>2, AfterRefund
  <2>4. /\ RowSane(new) /\ Covered(new, vipps[k]) /\ StatusBacked(new, vipps[k])
        /\ new.status \in OccupyingStatus => row.status \in OccupyingStatus
        /\ new.status # "none"
    BY <1>2, <2>2, AfterRefundBacked
  <2>5. purchases' = [purchases EXCEPT ![k] = new]
    BY <1>1, <1>6
  <2> HIDE DEF new, settled
  <2>6. /\ purchases'[k] = new /\ \A j \in Keys : j # k => purchases'[j] = purchases[j]
        /\ refunds'[r] = settled /\ \A q \in Requests : q # r => refunds'[q] = refunds[q]
        /\ refunds' \in [Requests -> Refund]
        /\ refundTasks'[h] = NoRefundTask
        /\ \A g \in Refunders : g # h => refundTasks'[g] = refundTasks[g]
        /\ refundTasks' \in [Refunders -> RefundTask]
    BY <1>1, <1>3, <1>4, <2>1, <2>5
  <2>7. /\ row.captured \in Money /\ row.refunded \in Money
        /\ obs.captured \in Money /\ obs.refunded \in Money
        /\ new.captured \in Money /\ new.refunded \in Money
        /\ row.captured \in Nat /\ row.refunded \in Nat
        /\ obs.captured \in Nat /\ obs.refunded \in Nat
        /\ new.captured \in Nat /\ new.refunded \in Nat
        /\ vipps[k].refunded \in Nat /\ vipps[k].captured \in Nat
        /\ UpTo(r) \in Nat
    BY <2>3, MoneyTypes, Numbers, <2>2 DEF Row
  <2>8. /\ row.captured <= new.captured /\ row.refunded <= new.refunded
        /\ obs.captured <= new.captured /\ obs.refunded <= new.refunded
    BY <2>3, <2>7, Amounts
  <2>9. IInv'
    BY <1>1, <1>2, <2>3, <2>4, <2>5, RowKeeps DEF RInv
  <2>10. RowsGrow /\ AccountsGrow
    <3>1. \A j \in Keys : /\ purchases[j].captured \in Nat /\ purchases[j].refunded \in Nat
      BY Numbers
    <3>2. ASSUME NEW j \in Keys
          PROVE  /\ purchases[j].captured <= purchases'[j].captured
                 /\ purchases[j].refunded <= purchases'[j].refunded
                 /\ purchases[j].canceled => purchases'[j].canceled
                 /\ purchases[j].status # "none" => purchases'[j].status # "none"
      <4>1. CASE j = k
        BY <2>3, <2>4, <2>6, <2>8, <4>1
      <4>2. CASE j # k
        BY <2>6, <3>1, <4>2
      <4>3. QED
        BY <4>1, <4>2
    <3>3. AccountsGrow
      BY <1>1, Numbers DEF AccountsGrow, Grows
    <3>4. QED
      BY <3>2, <3>3 DEF RowsGrow
  <2>11. vipps' \in [Keys -> Account] /\ \A j \in Keys : Grows(vipps[j], vipps'[j])
    BY <2>9, <2>10 DEF AccountsGrow, IInv, TypeInv, TypeOK
  <2>12. CasesGrow
    BY <1>1, <2>9, <2>10, CasesStand
  <2>13. \A q \in Requests : /\ refunds'[q].key = refunds[q].key
                             /\ refunds'[q].source = refunds[q].source
                             /\ refunds'[q].refundedBefore = refunds[q].refundedBefore
                             /\ refunds'[q].amount = refunds[q].amount
                             /\ UpTo(q)' = UpTo(q)
    BY <2>1, <2>6 DEF UpTo
  <2>14. RefundTypeOK'
    BY <1>1, <2>6, <2>9 DEF RInv, RefundTypeInv, RefundTypeOK, IInv, TypeInv, stopVars
  <2>15. RefundNames'
    <3>1. \A q \in Requests :
             \/ refunds'[q] = NoRefund
             \/ /\ refunds'[q].key \in Keys /\ refunds'[q].source \in Sources
                /\ refunds'[q].status \in {"created", "unknown", "confirmed"}
                /\ requests'[q].operation = q
      <4>1. requests[r].operation = r
        BY <1>2, Named
      <4>2. QED
        BY <1>1, <1>2, <2>1, <2>6, <4>1 DEF RInv, RefundTypeInv, RefundNames
    <3>2. \A p \in Requests : requests'[p].operation # NoRequest =>
             /\ requests'[p].key \in Keys /\ requests'[p].source \in Sources
             /\ refunds'[requests'[p].operation].key = requests'[p].key
             /\ refunds'[requests'[p].operation].source = requests'[p].source
      <4>1. \A p \in Requests : requests[p].operation \in Requests \cup {NoRequest}
        BY DEF RInv, RefundTypeInv, RefundTypeOK, Request
      <4>2. QED
        BY <1>1, <2>13, <4>1 DEF RInv, RefundTypeInv, RefundNames
    <3>3. \A g \in Refunders : refundTasks'[g].pc # "idle" =>
             /\ refundTasks'[g].operation \in Requests
             /\ refunds'[refundTasks'[g].operation].key # NoKey
      BY <1>4, <2>6, <2>13 DEF RInv, RefundTypeInv, RefundNames, Exists
    <3>4. \A c \in Cleaners : stopTasks'[c].pc # "idle" => stopTasks'[c].key \in Keys
      BY <1>1 DEF RInv, RefundTypeInv, RefundNames, stopVars
    <3>5. QED
      BY <3>1, <3>2, <3>3, <3>4 DEF RefundNames, Exists
  <2>16. RefundConduct'
    BY <1>1, <1>4, <2>6, <2>13 DEF RInv, RefundConduct, Exists
  <2>17. Computed(r)'
    <3>1. Computed(r)
      BY <1>2 DEF RInv, RefundMoney
    <3>2. refunds[r].capturedBefore \in Nat /\ refunds[r].refundedBefore \in Nat
      BY Numbers
    <3>3. refunds[r].capturedBefore <= new.captured /\ refunds[r].refundedBefore <= new.refunded
      <4>1. refunds[r].capturedBefore <= row.captured /\ refunds[r].refundedBefore <= row.refunded
        BY <3>1 DEF Computed
      <4>2. QED
        BY <2>7, <2>8, <3>2, <4>1
    <3>4. obs.refunded <= obs.captured
      BY <1>2 DEF RefundCovered
    <3>5. QED
      BY <1>1, <2>1, <2>6, <2>8, <3>1, <3>3, <3>4 DEF Computed
  <2>18. obs.status = "confirmed" =>
            /\ UpTo(r) = vipps[k].refunded /\ new.refunded = vipps[k].refunded
            /\ obs.refunded = vipps[k].refunded
    <3>1. r \in Unresolved(k)
      BY <1>2, <2>1, Named
    <3>2. obs.status = "confirmed" => vipps[k].refunded = UpTo(r)
      BY <1>2, <2>2, <3>1 DEF Counted, UpTo
    <3>3. new.refunded <= vipps[k].refunded
      BY <2>4 DEF Covered
    <3> DEFINE seen == obs.refunded
               held == vipps[k].refunded
               total == new.refunded
               upTo == UpTo(r)
    <3>4. seen \in Nat /\ held \in Nat /\ total \in Nat /\ upTo \in Nat /\ seen <= total /\ total <= held
      BY <2>7, <2>8, <3>3
    <3>5. obs.status = "confirmed" => held = upTo /\ upTo <= seen
      BY <1>2, <3>2
    <3> HIDE DEF seen, held, total, upTo
    <3>6. obs.status = "confirmed" => upTo = held /\ total = held /\ seen = held
      BY <3>4, <3>5
    <3>7. QED
      BY <3>6 DEF seen, held, total, upTo
  <2>19. Counted(k)'
    <3>1. r \in Unresolved(k) /\ \A q \in Unresolved(k) : q = r
      BY <1>2, <2>1, <2>2, Named DEF Counted
    <3>2. Unresolved(k)' = IF obs.status = "confirmed" THEN {} ELSE {r}
      <4>1. refunds'[r].key = k /\ refunds'[r].status = obs.status
        BY <2>1, <2>6
      <4>2. obs.status \in {"unknown", "confirmed"}
        BY <1>2
      <4>3. \A q \in Requests : q # r => refunds'[q] = refunds[q] /\ q \notin Unresolved(k)
        BY <2>6, <3>1
      <4> HIDE DEF obs
      <4>4. QED
        BY <4>1, <4>2, <4>3 DEF Unresolved, UnresolvedStatus
    <3>3. \A q \in Requests : refunds'[q].key = k /\ refunds'[q].status = "confirmed" =>
              refundDone'[q] /\ UpTo(q)' <= purchases'[k].refunded
      <4> TAKE q \in Requests
      <4>1. CASE q = r
        <5>1. refunds'[r].status = obs.status /\ purchases'[k].refunded = new.refunded
          BY <2>1, <2>6
        <5>2. obs.status = "confirmed" => refundDone'[r]
          BY <1>1, <1>2
        <5>3. obs.status = "confirmed" => UpTo(r) <= new.refunded
          BY <2>7, <2>18
        <5>4. UpTo(q)' = UpTo(r)
          BY <2>13, <4>1
        <5>5. QED
          BY <4>1, <5>1, <5>2, <5>3, <5>4
      <4>2. CASE q # r
        <5>1. refunds'[q].key = k /\ refunds'[q].status = "confirmed" =>
                  refundDone[q] /\ UpTo(q) <= row.refunded
          BY <2>2, <2>6, <4>2 DEF Counted
        <5>2. UpTo(q) \in Nat
          BY Numbers
        <5>3. QED
          BY <1>1, <2>6, <2>7, <2>8, <2>13, <5>1, <5>2
      <4>3. QED
        BY <4>1, <4>2
    <3>4. \A q \in Unresolved(k)' : vipps'[k].refunded =
              refunds'[q].refundedBefore + (IF refundDone'[q] THEN refunds'[q].amount ELSE 0)
      <4>1. vipps[k].refunded =
                refunds[r].refundedBefore + (IF refundDone[r] THEN refunds[r].amount ELSE 0)
        BY <2>2, <3>1 DEF Counted
      <4>2. vipps'[k].refunded =
                refunds'[r].refundedBefore + (IF refundDone'[r] THEN refunds'[r].amount ELSE 0)
        BY <1>1, <2>13, <4>1
      <4>3. QED
        BY <3>2, <4>2
    <3>5. Unresolved(k)' = {} => vipps'[k].refunded = purchases'[k].refunded
      BY <1>1, <2>6, <2>18, <3>2
    <3>6. \A p, q \in Unresolved(k)' : p = q
      BY <3>2
    <3>7. QED
      BY <3>3, <3>4, <3>5, <3>6 DEF Counted
  <2>20. RefundMoney'
    <3>1. ASSUME NEW q \in Requests, Exists(q)'
          PROVE  Computed(q)'
      BY <2>6, <2>9, <2>10, <2>12, <2>13, <2>17, <3>1, ComputedGrows DEF Exists
    <3>2. ASSUME NEW j \in Keys, j # k
          PROVE  Counted(j)'
      <4>1. \A q \in Requests : refunds[q].key = j \/ refunds'[q].key = j =>
                refunds'[q] = refunds[q] /\ refundDone'[q] = refundDone[q]
        BY <1>1, <2>6, <2>13, <3>2
      <4>2. QED
        BY <1>1, <2>9, <2>10, <4>1, CountedGrows
    <3>3. \A j \in Keys : Counted(j)' /\ CasesSane(j)' /\ Entitled(j)'
      BY <1>1, <2>12, <2>19, <3>2, EntitledGrows DEF CasesGrow
    <3>4. RefundsNeverOverlap'
      BY <2>13 DEF RInv, RefundMoney, RefundsNeverOverlap
    <3>5. QED
      BY <3>1, <3>3, <3>4 DEF RefundMoney
  <2>21. TasksBacked'
    <3>1. TaskBacked(refundTasks[h])'
      BY <1>4, <2>6 DEF TaskBacked
    <3>2. ASSUME NEW g \in Refunders, g # h
          PROVE  TaskBacked(refundTasks[g])'
      <4>1. refundTasks[g].pc # "idle" => refundTasks[g].operation \in Requests
        BY DEF RInv, RefundTypeInv, RefundNames
      <4>2. QED
        BY <1>1, <2>6, <2>11, <2>13, <3>2, <4>1, TaskGrows
    <3>3. QED
      BY <3>1, <3>2 DEF TasksBacked
  <2>22. Finality'
    <3>1. ASSUME NEW j \in Keys, WholeRefundConfirmed(j)
          PROVE  WholeRefundConfirmed(j)'
      <4>1. PICK q \in Requests :
               /\ refunds[q].key = j /\ refunds[q].status = "confirmed"
               /\ refunds[q].captured = Gross /\ refunds[q].refunded = Gross
        BY <3>1 DEF WholeRefundConfirmed
      <4>2. refunds'[q] = refunds[q]
        BY <2>1, <2>6, <4>1
      <4>3. QED
        BY <4>1, <4>2 DEF WholeRefundConfirmed
    <3>2. ASSUME new.status = "refunded", obs.status = "confirmed", new.refunded = Gross
          PROVE  WholeRefundConfirmed(k)'
      <4>1. obs.refunded = Gross
        BY <2>18, <3>2
      <4>2. obs.captured = Gross
        BY <1>2, <2>7, <4>1, GrossAssumption DEF RefundCovered, Money
      <4>3. QED
        BY <2>1, <2>6, <3>2, <4>1, <4>2 DEF WholeRefundConfirmed
    <3>3. Final(k)'
      <4>1. row.agreement
        BY <1>2, <2>2 DEF Final, Referenced
      <4>2. row.status = "refunded" => new.refunded = Gross
        <5>1. new.refunded \in 0 .. Gross /\ row.refunded \in Nat /\ Gross \in Nat
          BY <2>7, GrossAssumption DEF Money
        <5>2. row.refunded <= new.refunded
          BY <2>8
        <5>3. row.status = "refunded" => row.refunded = Gross
          BY <1>2
        <5> DEFINE before == row.refunded
                   after == new.refunded
        <5> HIDE DEF before, after
        <5>4. before \in Nat /\ after \in 0 .. Gross /\ before <= after
          BY <5>1, <5>2 DEF before, after
        <5>5. before = Gross => after = Gross
          BY <5>1, <5>4
        <5>6. QED
          BY <5>3, <5>5 DEF before, after
      <4>3. QED
        BY <1>2, <2>2, <2>3, <2>4, <2>6, <3>1, <3>2, <4>1, <4>2 DEF Final, Referenced
    <3>4. \A j \in Keys : j # k => Final(j)'
      BY <2>6, <3>1 DEF RInv, Finality, Final
    <3>5. \A w \in Workers : HandlerReferenced(w)'
      BY <1>1 DEF RInv, Finality, HandlerReferenced, Asking
    <3>6. QED
      BY <3>3, <3>4, <3>5 DEF Finality
  <2>23. StopSafety'
    BY <1>1, <2>10, <2>11, StopsStand
  <2>24. QED
    BY <2>9, <2>14, <2>15, <2>16, <2>20, <2>21, <2>22, <2>23 DEF RInv, RefundTypeInv
<1>7. QED
  BY <1>5, <1>6

-----------------------------------------------------------------------------
(* The theorems. *)

\* The invariant holds initially.
LEMMA RefundInitially == RefundInit => RInv
<1> SUFFICES ASSUME RefundInit
             PROVE  RInv
  OBVIOUS
<1> USE DEF RefundInit
<1>1. IInv
  BY InitInvariant
<1>2. 0 \in Money /\ 0 \in 0 .. MaxPosts
  BY GrossAssumption, MaxPostsAssumption DEF Money
<1>3. RefundTypeOK
  <2>1. NoCase \in Case /\ Unrequested \in Request /\ NoRefund \in Refund
    BY <1>2 DEF NoCase, Case, Unrequested, Request, NoRefund, Refund
  <2>2. NoStopTask \in StopTask /\ NoRefundTask \in RefundTask
    BY NoRefundTaskType DEF NoStopTask, StopTask
  <2>3. TypeOK
    BY <1>1 DEF IInv, TypeInv
  <2>4. QED
    BY <1>2, <2>1, <2>2, <2>3 DEF RefundTypeOK
<1>4. RefundNames
  BY DEF RefundNames, Unrequested, NoRefundTask, NoStopTask
<1>5. RefundConduct
  BY DEF RefundConduct, NoRefundTask
<1>6. RefundMoney
  <2>1. \A r \in Requests : ~Exists(r) /\ refunds[r].key = NoKey
    BY DEF Exists, NoRefund
  <2>2. \A k \in Keys : Unresolved(k) = {}
    BY <2>1, NoKeyAssumption DEF Unresolved
  <2>3. \A k \in Keys : vipps[k].refunded = 0 /\ purchases[k].refunded = 0
    BY DEF CheckoutInit, NoAccount, NoRow
  <2>4. \A k \in Keys : Counted(k)
    BY <2>1, <2>2, <2>3, NoKeyAssumption DEF Counted
  <2>5. \A k \in Keys : CasesSane(k) /\ Entitled(k)
    BY <2>3 DEF CasesSane, Entitled, NoCase
  <2>6. RefundsNeverOverlap
    BY <2>1 DEF RefundsNeverOverlap
  <2>7. QED
    BY <2>1, <2>4, <2>5, <2>6 DEF RefundMoney
<1>7. TasksBacked
  BY NoRefundTaskType DEF TasksBacked
<1>8. Finality
  <2>1. \A k \in Keys : Final(k)
    BY DEF Final, CheckoutInit, NoRow, Referenced, TerminalStatus
  <2>2. \A w \in Workers : HandlerReferenced(w)
    BY DEF HandlerReferenced, CheckoutInit, Idle, Asking
  <2>3. QED
    BY <2>1, <2>2 DEF Finality
<1>9. StopSafety
  BY DEF StopSafety, StopNeverCancelsCharge, CleanerBacked, NoStopTask
<1>10. QED
  BY <1>1, <1>3, <1>4, <1>5, <1>6, <1>7, <1>8, <1>9 DEF RInv, RefundTypeInv

\* Every step keeps it.
LEMMA RefundStepKeeps == RInv /\ [RefundNext]_annualVars => RInv'
<1> SUFFICES ASSUME RInv, [RefundNext]_annualVars
             PROVE  RInv'
  OBVIOUS
<1>1. CASE UNCHANGED annualVars
  <2>1. UNCHANGED checkoutVars /\ UNCHANGED <<refundVars, stopVars>>
    BY <1>1 DEF annualVars, checkoutVars, refundVars, stopVars
  <2>2. QED
    BY <2>1, CheckoutKeeps
<1>2. CASE CheckoutNext /\ UNCHANGED <<refundVars, stopVars>>
  BY <1>2, CheckoutKeeps
<1>3. ASSUME NEW h \in Refunders, RefundStep(h)
      PROVE  RInv'
  BY <1>3, ClaimRefundKeeps, BindingKeeps, ReadingKeeps, SendRefundKeeps, SettleRefundKeeps
     DEF RefundStep
<1>4. QED
  BY <1>1, <1>2, <1>3, StopStepKeeps, ProviderRefundKeeps, CancelRenewalKeeps, ProviderStopKeeps
     DEF RefundNext, RefundOnlyStep

\* The invariant holds in every behaviour of checkout, refunds and cleanup.
THEOREM RefundInvariance == RefundSpec => []RInv
BY RefundInitially, RefundStepKeeps, PTL DEF RefundSpec

\* Refunds, cleanups and their handlers hold what their variables say.
THEOREM RefundTypeCorrect == RefundSpec => []RefundTypeOK
<1>1. RInv => RefundTypeOK
  BY DEF RInv, RefundTypeInv
<1>2. QED
  BY RefundInvariance, <1>1, PTL

\* An uncertain refund is never POSTed again: only the claim that inserted the
\* operation executes it, and everyone else reads.
THEOREM RefundPostedOnce == RefundSpec => []RefundExecutedOnce
<1>1. RInv => RefundExecutedOnce
  BY DEF RInv, RefundConduct, RefundExecutedOnce
<1>2. QED
  BY RefundInvariance, <1>1, PTL

\* No krone is returned twice: a new operation is computed from totals in which
\* every earlier one is resolved.
THEOREM NoRefundTwice == RefundSpec => []RefundsNeverOverlap
<1>1. RInv => RefundsNeverOverlap
  BY DEF RInv, RefundMoney
<1>2. QED
  BY RefundInvariance, <1>1, PTL

\* What an operation returns ends at the lesser of what its case entitles to and
\* what was captured.
LEMMA EndsAtEntitlement ==
    ASSUME RInv, NEW r \in Requests, Exists(r)
    PROVE  /\ UpTo(r) = Lesser(cases[refunds[r].key][refunds[r].source].entitled,
                               refunds[r].capturedBefore)
           /\ refunds[r].capturedBefore <= purchases[refunds[r].key].captured
<1>1. Computed(r) /\ refunds[r].key \in Keys /\ refunds[r].source \in Sources
  BY Named DEF RInv, RefundMoney
<1>2. /\ refunds[r].capturedBefore \in Nat /\ refunds[r].refundedBefore \in Nat
      /\ cases[refunds[r].key][refunds[r].source].entitled \in Nat
  BY <1>1, Numbers
<1>3. QED
  BY <1>1, <1>2 DEF Computed, UpTo, Lesser

\* Money is returned only up to what some recorded case entitles the customer to,
\* and no refund is POSTed that could return more.
LEMMA Within == RInv => RefundWithinEntitlement
<1> SUFFICES ASSUME RInv, NEW k \in Keys
             PROVE  /\ Entitled(k)
                    /\ \A r \in Requests : refunds[r].key = k =>
                          UpTo(r) <= Lesser(cases[k][refunds[r].source].entitled, vipps[k].captured)
  BY DEF RefundWithinEntitlement, Entitled, UpTo
<1>1. Entitled(k)
  BY DEF RInv, RefundMoney
<1>2. ASSUME NEW r \in Requests, refunds[r].key = k
      PROVE  UpTo(r) <= Lesser(cases[k][refunds[r].source].entitled, vipps[k].captured)
  <2>1. Exists(r) /\ refunds[r].source \in Sources
    BY <1>2, Named
  <2>2. /\ UpTo(r) = Lesser(cases[k][refunds[r].source].entitled, refunds[r].capturedBefore)
        /\ refunds[r].capturedBefore <= vipps[k].captured
    BY <1>2, <2>1, EndsAtEntitlement, OperationCovered
  <2>3. /\ refunds[r].capturedBefore \in Nat /\ vipps[k].captured \in Nat
        /\ cases[k][refunds[r].source].entitled \in Nat
    BY <2>1, Numbers
  <2>4. QED
    BY <2>2, <2>3 DEF Lesser
<1>3. QED
  BY <1>1, <1>2

\* Money is returned only up to what some recorded case entitles the customer to, and
\* no refund is POSTed that could return more, however cases and refunds interleave.
THEOREM RefundsWithinEntitlement == RefundSpec => []RefundWithinEntitlement
BY RefundInvariance, Within, PTL

\* The checks of a recovery never refuse a bound request: the purchase stays at or
\* above what its operation was computed from and what it has observed.
LEMMA Recoverable == RInv => RecoveryNeverRefused
<1> SUFFICES ASSUME RInv, NEW p \in Requests, requests[p].operation # NoRequest
             PROVE  LET refund == refunds[requests[p].operation]
                        case == cases[requests[p].key][requests[p].source]
                        row == purchases[requests[p].key]
                    IN /\ refund.key = requests[p].key /\ refund.source = requests[p].source
                       /\ case.refundedBefore <= refund.refundedBefore
                       /\ refund.refundedBefore < refund.capturedBefore
                       /\ refund.amount = Lesser(case.entitled, refund.capturedBefore)
                                              - refund.refundedBefore
                       /\ refund.capturedBefore <= row.captured /\ refund.refundedBefore <= row.refunded
                       /\ refund.captured <= row.captured /\ refund.refunded <= row.refunded
  BY DEF RecoveryNeverRefused
<1>1. PICK q \in Requests : q = requests[p].operation
  BY DEF RInv, RefundTypeInv, RefundTypeOK, Request
<1>2. /\ requests[p].key \in Keys /\ requests[p].source \in Sources
      /\ refunds[q].key = requests[p].key /\ refunds[q].source = requests[p].source
  BY <1>1 DEF RInv, RefundTypeInv, RefundNames
<1>3. Exists(q)
  BY <1>2, NoKeyAssumption DEF Exists
<1>4. Computed(q)
  BY <1>3 DEF RInv, RefundMoney
<1>5. /\ refunds[q].capturedBefore \in Nat /\ refunds[q].refundedBefore \in Nat
      /\ cases[requests[p].key][requests[p].source].entitled \in Nat
  BY <1>2, Numbers
<1>6. refunds[q].refundedBefore < refunds[q].capturedBefore
  BY <1>2, <1>4, <1>5 DEF Computed, Lesser
<1>7. QED
  BY <1>1, <1>2, <1>4, <1>6 DEF Computed

\* A request bound to an operation can always be recovered: the checks made when it is
\* recovered accept whatever checkout, other refunds and late answers did meanwhile.
THEOREM RecoveryStands == RefundSpec => []RecoveryNeverRefused
BY RefundInvariance, Recoverable, PTL

\* A stop is sent only when the renewal was stopped and the original charge can no
\* longer collect, or has wholly collected.
THEOREM StopsAfterCharge == RefundSpec => []StopNeverCancelsCharge
<1>1. RInv => StopNeverCancelsCharge
  BY DEF RInv, StopSafety
<1>2. QED
  BY RefundInvariance, <1>1, PTL

\* A finished purchase has the evidence its cleanup asks for.
LEMMA Cleanable == RInv => FinishedIsCleanable
<1> SUFFICES ASSUME RInv, NEW k \in Keys, purchases[k].status \in TerminalStatus,
                    Unresolved(k) = {}
             PROVE  ChargeResolved(k)
  BY DEF FinishedIsCleanable
<1>1. Final(k) /\ PurchaseChecks(purchases[k])
  BY DEF RInv, Finality, IInv, Backed, RowSane
<1>2. QED
  BY <1>1 DEF Final, PurchaseChecks, ChargeResolved, TerminalStatus

\* A finished purchase without an unresolved refund can be cleaned up: the references
\* and the final operation its cleanup asks for are there.
THEOREM FinishedGetsCleaned == RefundSpec => []FinishedIsCleanable
BY RefundInvariance, Cleanable, PTL

\* The ledger follows the provider also while refunds move both.
THEOREM RefundLedgerNeverAhead == RefundSpec => []LedgerFollowsProvider
<1>1. RInv => LedgerFollowsProvider
  BY DEF RInv, IInv, Backed, Covered, StatusBacked, LedgerFollowsProvider
<1>2. QED
  BY RefundInvariance, <1>1, PTL

\* A company-year that is sold again after a whole refund is never paid for twice.
THEOREM RepurchasePaidOnce == RefundSpec => []OneLivePayment
<1>1. RInv => OneLivePayment
  BY PaidOnce DEF RInv
<1>2. QED
  BY RefundInvariance, <1>1, PTL

\* Beside the checkout's own steps the ledger changes by a stopped renewal or by a
\* settled refund only.
LEMMA LedgerSteps ==
    ASSUME RInv, [RefundNext]_annualVars
    PROVE  \/ [CheckoutNext]_checkoutVars
           \/ UNCHANGED <<purchases, withdrawn>>
           \/ \E k \in Keys, new \in Row :
                 /\ purchases' = [purchases EXCEPT ![k] = new] /\ withdrawn' = withdrawn
                 /\ new.year = purchases[k].year /\ new.op = purchases[k].op
                 /\ new.agreement = purchases[k].agreement
                 /\ purchases[k].canceled => new.canceled
                 /\ purchases[k].captured <= new.captured /\ purchases[k].refunded <= new.refunded
                 /\ purchases[k].status # "none"
                 /\ \/ new.status = purchases[k].status
                    \/ purchases[k].status \in {"pending", "paid"} /\ new.status = "refunded"
<1> DEFINE Moved ==
             \E k \in Keys, new \in Row :
                 /\ purchases' = [purchases EXCEPT ![k] = new] /\ withdrawn' = withdrawn
                 /\ new.year = purchases[k].year /\ new.op = purchases[k].op
                 /\ new.agreement = purchases[k].agreement
                 /\ purchases[k].canceled => new.canceled
                 /\ purchases[k].captured <= new.captured /\ purchases[k].refunded <= new.refunded
                 /\ purchases[k].status # "none"
                 /\ \/ new.status = purchases[k].status
                    \/ purchases[k].status \in {"pending", "paid"} /\ new.status = "refunded"
<1>1. ASSUME NEW k \in Keys, purchases[k].status # "none",
             purchases' = [purchases EXCEPT ![k].canceled = TRUE], withdrawn' = withdrawn
      PROVE  Moved
  <2> DEFINE new == [purchases[k] EXCEPT !.canceled = TRUE]
  <2>1. purchases[k] \in Row /\ purchases \in [Keys -> Row]
    BY DEF RInv, IInv, TypeInv, TypeOK
  <2>2. /\ new \in Row /\ new.year = purchases[k].year /\ new.op = purchases[k].op
        /\ new.agreement = purchases[k].agreement /\ new.canceled
        /\ new.captured = purchases[k].captured /\ new.refunded = purchases[k].refunded
        /\ new.status = purchases[k].status
    BY <2>1 DEF Row
  <2>3. purchases' = [purchases EXCEPT ![k] = new]
    BY <1>1, <2>1
  <2>4. purchases[k].captured <= purchases[k].captured /\ purchases[k].refunded <= purchases[k].refunded
    BY Numbers
  <2> HIDE DEF new
  <2>5. QED
    BY <1>1, <2>2, <2>3, <2>4
<1>2. ASSUME NEW h \in Refunders, RefundStep(h)
      PROVE  UNCHANGED <<purchases, withdrawn>> \/ Moved
  <2>1. ASSUME NEW r \in Requests, NEW k \in Keys, NEW s \in Sources, NEW case, NEW o,
               Claimable(h, r, k, s), Recorded(r, k, s, case, o)
        PROVE  Moved
    <3>1. purchases[k].status # "none"
      BY <2>1, CaseFacts, GrossAssumption DEF Claimable, Money
    <3>2. purchases' = [purchases EXCEPT ![k].canceled = TRUE] /\ withdrawn' = withdrawn
      BY <2>1 DEF Recorded
    <3> HIDE DEF Moved
    <3>3. QED
      BY <1>1, <3>1, <3>2
  <2>2. CASE SettleRefund(h)
    <3>1. withdrawn' = withdrawn
      BY <2>2 DEF SettleRefund
    <3>2. QED
      BY <2>2, <3>1, SettleRefundRow
  <2> HIDE DEF Moved
  <2>3. ASSUME NEW r \in Requests, NEW k \in Keys, NEW s \in Sources,
               \/ \E entitled \in Money : ClaimRefund(h, r, k, s, entitled)
                                          \/ DeferRefund(h, r, k, s, entitled)
               \/ BindRefund(h, r, k, s)
        PROVE  Moved
    BY <2>1, <2>3 DEF ClaimRefund, DeferRefund, BindRefund
  <2>4. QED
    BY <1>2, <2>2, <2>3 DEF RefundStep, ResumeRefund, SendRefund, ReadRefund, NoRefundAnswer,
       AbandonRefund, RefundSide, checkoutVars
<1>3. ASSUME NEW c \in Cleaners, StopStep(c)
      PROVE  UNCHANGED <<purchases, withdrawn>>
  BY <1>3 DEF StopStep, ClaimCleanup, RecoverStop, CheckStop, ReadStop, SendStop, StopReply,
         NoStopAnswer, SettleStop, AbandonStop, StopSide, checkoutVars
<1>4. ASSUME NEW k \in Keys, CancelRenewal(k)
      PROVE  Moved
  <2> HIDE DEF Moved
  <2>1. QED
    BY <1>1, <1>4 DEF CancelRenewal
<1> HIDE DEF Moved
<1>5. [CheckoutNext]_checkoutVars \/ UNCHANGED <<purchases, withdrawn>> \/ Moved
  BY <1>2, <1>3, <1>4 DEF RefundNext, RefundOnlyStep, ProviderRefund, ProviderStop, annualVars
<1>6. QED
  BY <1>5 DEF Moved

\* Refunds keep the promise too: a settled refund is its Resolve, and everything
\* else about refunds and cleanups is not visible in it.
LEMMA RefundPromiseStep ==
    ASSUME RInv, [RefundNext]_annualVars
    PROVE  [Promise!Next]_(Promise!vars)
<1>1. CASE [CheckoutNext]_checkoutVars
  BY <1>1, PromiseStep DEF RInv
<1>2. CASE UNCHANGED <<purchases, withdrawn>>
  BY <1>2 DEF Promise!vars
<1>3. ASSUME NEW k \in Keys, NEW new \in Row,
             purchases' = [purchases EXCEPT ![k] = new], withdrawn' = withdrawn,
             new.year = purchases[k].year, purchases[k].status # "none",
             \/ new.status = purchases[k].status
             \/ purchases[k].status \in {"pending", "paid"} /\ new.status = "refunded"
      PROVE  [Promise!Next]_(Promise!vars)
  <2>1. purchases \in [Keys -> Row] /\ withdrawn \in [Keys -> Years \cup {NoYear}]
    BY DEF RInv, IInv, TypeInv, TypeOK
  <2>2. CASE new.status = purchases[k].status
    BY <1>3, <2>1, <2>2 DEF Promise!vars
  <2>3. CASE purchases[k].status \in {"pending", "paid"} /\ new.status = "refunded"
    <3>1. Promise!Resolve(k, "refunded")
      BY <1>3, <2>1, <2>3 DEF Promise!Resolve
    <3>2. QED
      BY <3>1 DEF Promise!Next
  <2>4. QED
    BY <1>3, <2>2, <2>3
<1>4. QED
  BY <1>1, <1>2, <1>3, LedgerSteps

\* Checkout, refunds and cleanup together implement the promise.
THEOREM RefundsKeepPromise == RefundSpec => KeepsPromise
<1>1. RefundInit => Promise!Init
  BY DEF RefundInit, CheckoutInit, Promise!Init, NoRow
<1>2. QED
  BY RefundInvariance, <1>1, RefundPromiseStep, PTL DEF RefundSpec, KeepsPromise, Promise!Spec

\* Refunds rewrite no evidence either: their settlements only add to the totals, and
\* a purchase that failed or was refunded stays so.
THEOREM RefundsKeepEvidence == RefundSpec => EvidenceNeverRewritten
<1>1. ASSUME RInv, [RefundNext]_annualVars, NEW k \in Keys, purchases[k].status # "none"
      PROVE  EvidenceGuard(purchases[k], purchases'[k])
  <2>1. purchases \in [Keys -> Row] /\ purchases[k].captured \in Nat /\ purchases[k].refunded \in Nat
    BY <1>1, Numbers DEF RInv, IInv, TypeInv, TypeOK
  <2>2. CASE [CheckoutNext]_checkoutVars
    BY <1>1, <2>2, EvidenceStep DEF RInv
  <2>3. CASE purchases'[k] = purchases[k]
    BY <2>1, <2>3 DEF EvidenceGuard
  <2>4. ASSUME NEW j \in Keys, NEW new \in Row,
               purchases' = [purchases EXCEPT ![j] = new],
               new.year = purchases[j].year, new.op = purchases[j].op,
               new.agreement = purchases[j].agreement,
               purchases[j].canceled => new.canceled,
               purchases[j].captured <= new.captured, purchases[j].refunded <= new.refunded,
               \/ new.status = purchases[j].status
               \/ purchases[j].status \in {"pending", "paid"} /\ new.status = "refunded"
        PROVE  EvidenceGuard(purchases[k], purchases'[k])
    <3>1. CASE j # k
      BY <2>1, <2>3, <2>4, <3>1
    <3>2. CASE j = k
      <4>1. new.captured \in Nat /\ new.refunded \in Nat
        BY GrossAssumption DEF Row, Money
      <4>2. purchases'[k] = new
        BY <2>1, <2>4, <3>2
      <4>3. QED
        BY <2>1, <2>4, <3>2, <4>1, <4>2 DEF EvidenceGuard
    <3>3. QED
      BY <3>1, <3>2
  <2>5. CASE UNCHANGED <<purchases, withdrawn>>
    BY <2>3, <2>5
  <2>6. QED
    BY <1>1, <2>2, <2>4, <2>5, LedgerSteps
<1>2. [RefundNext]_annualVars /\ RInv => [\A k \in Keys : purchases[k].status # "none"
            => EvidenceGuard(purchases[k], purchases'[k])]_checkoutVars
  BY <1>1
<1>3. QED
  BY RefundInvariance, <1>2, PTL DEF RefundSpec, EvidenceNeverRewritten

-----------------------------------------------------------------------------
(* The refund policy. *)

\* The days until the last of `remaining` weekdays, in closed form: a weekend in
\* between adds its two days.
Calendar(remaining, weekday) ==
    IF remaining = 0 THEN 0
    ELSE IF weekday = 6 THEN remaining
    ELSE IF weekday = 5 THEN remaining + 1
    ELSE IF weekday + remaining < 5 THEN remaining ELSE remaining + 2

\* d satisfies the equation of DaysToInitiate.
Counts(d) ==
    d = [p \in (0 .. 5) \X Weekdays |->
            LET next == (p[2] + 1) % 7
                left == IF next < 5 THEN p[1] - 1 ELSE p[1]
            IN IF p[1] = 0 THEN 0 ELSE 1 + d[<<left, next>>]]

LEMMA NextDay ==
    ASSUME NEW w \in Weekdays
    PROVE  /\ w \in Nat /\ w <= 6
           /\ (w + 1) % 7 = IF w = 6 THEN 0 ELSE w + 1
           /\ (w + 1) % 7 \in Weekdays
<1>1. w \in {0, 1, 2, 3, 4, 5, 6}
  BY DEF Weekdays
<1>2. QED
  BY <1>1 DEF Weekdays

LEMMA CalendarStep ==
    ASSUME NEW r \in 1 .. 5, NEW w \in Weekdays
    PROVE  LET next == (w + 1) % 7
               left == IF next < 5 THEN r - 1 ELSE r
           IN  /\ next \in Weekdays /\ left \in 0 .. 5
               /\ Calendar(r, w) = 1 + Calendar(left, next)
<1> DEFINE next == (w + 1) % 7
<1>1. w \in Nat /\ w <= 6 /\ next = (IF w = 6 THEN 0 ELSE w + 1) /\ next \in Weekdays
  BY NextDay
<1> HIDE DEF next
<1>2. QED
  BY <1>1 DEF Calendar

LEMMA CountsSomething == \E d : Counts(d)
<1> DEFINE c == [p \in (0 .. 5) \X Weekdays |-> Calendar(p[1], p[2])]
           Next(p) == (p[2] + 1) % 7
           Left(p) == IF Next(p) < 5 THEN p[1] - 1 ELSE p[1]
           Value(p) == IF p[1] = 0 THEN 0 ELSE 1 + c[<<Left(p), Next(p)>>]
<1>1. ASSUME NEW p \in (0 .. 5) \X Weekdays
      PROVE  Calendar(p[1], p[2]) = Value(p)
  <2>1. p[1] \in 0 .. 5 /\ p[2] \in Weekdays
    OBVIOUS
  <2>2. CASE p[1] = 0
    BY <2>2 DEF Calendar
  <2>3. CASE p[1] # 0
    <3>1. p[1] \in 1 .. 5
      BY <2>1, <2>3
    <3>2. /\ Next(p) \in Weekdays /\ Left(p) \in 0 .. 5
          /\ Calendar(p[1], p[2]) = 1 + Calendar(Left(p), Next(p))
      BY <2>1, <3>1, CalendarStep
    <3> HIDE DEF Next, Left
    <3>3. PICK q : q = <<Left(p), Next(p)>>
      OBVIOUS
    <3>4. q \in (0 .. 5) \X Weekdays /\ q[1] = Left(p) /\ q[2] = Next(p)
      BY <3>2, <3>3
    <3>5. c[q] = Calendar(q[1], q[2])
      BY <3>4
    <3>6. QED
      BY <2>3, <3>2, <3>3, <3>4, <3>5
  <2>4. QED
    BY <2>2, <2>3
<1>2. c = [p \in (0 .. 5) \X Weekdays |-> Value(p)]
  BY <1>1, Zenon
<1>3. Counts(c)
  BY <1>2, Zenon DEF Counts
<1>4. QED
  BY <1>3, Zenon

LEMMA DaysAreCounted == Counts(DaysToInitiate)
<1>1. DaysToInitiate = CHOOSE d : Counts(d)
  BY Zenon DEF DaysToInitiate, Counts
<1>2. QED
  BY <1>1, CountsSomething, Zenon

LEMMA DayByDay ==
    ASSUME NEW r \in 0 .. 5, NEW w \in Weekdays
    PROVE  LET next == (w + 1) % 7
               left == IF next < 5 THEN r - 1 ELSE r
           IN  DaysToInitiate[<<r, w>>] =
                   IF r = 0 THEN 0 ELSE 1 + DaysToInitiate[<<left, next>>]
<1>1. PICK q : q = <<r, w>>
  OBVIOUS
<1>2. q \in (0 .. 5) \X Weekdays /\ q[1] = r /\ q[2] = w
  BY <1>1
<1>3. DaysToInitiate = [p \in (0 .. 5) \X Weekdays |->
            LET next == (p[2] + 1) % 7
                left == IF next < 5 THEN p[1] - 1 ELSE p[1]
            IN IF p[1] = 0 THEN 0 ELSE 1 + DaysToInitiate[<<left, next>>]]
  BY DaysAreCounted, Zenon DEF Counts
<1> HIDE DEF DaysToInitiate
<1>4. DaysToInitiate[q] =
            LET next == (q[2] + 1) % 7
                left == IF next < 5 THEN q[1] - 1 ELSE q[1]
            IN IF q[1] = 0 THEN 0 ELSE 1 + DaysToInitiate[<<left, next>>]
  BY <1>2, <1>3, Zenon
<1>5. QED
  BY <1>1, <1>2, <1>4, Zenon

LEMMA OneMoreDay ==
    ASSUME NEW r \in 1 .. 5,
           \A w \in Weekdays : DaysToInitiate[<<r - 1, w>>] = Calendar(r - 1, w)
    PROVE  \A w \in Weekdays : DaysToInitiate[<<r, w>>] = Calendar(r, w)
<1>0. r \in 0 .. 5 /\ r # 0
  OBVIOUS
<1>1. ASSUME NEW w \in Weekdays,
             LET next == (w + 1) % 7
                 left == IF next < 5 THEN r - 1 ELSE r
             IN  DaysToInitiate[<<left, next>>] = Calendar(left, next)
      PROVE  DaysToInitiate[<<r, w>>] = Calendar(r, w)
  <2> DEFINE next == (w + 1) % 7
             left == IF next < 5 THEN r - 1 ELSE r
  <2>1. DaysToInitiate[<<r, w>>] = 1 + DaysToInitiate[<<left, next>>]
    BY <1>0, <1>1, DayByDay, Zenon
  <2>2. Calendar(r, w) = 1 + Calendar(left, next)
    BY <1>1, CalendarStep, Zenon
  <2>3. QED
    BY <1>1, <2>1, <2>2, Zenon
<1>2. ASSUME NEW w \in Weekdays, w \notin {4, 5}
      PROVE  DaysToInitiate[<<r, w>>] = Calendar(r, w)
  <2>1. (w + 1) % 7 < 5 /\ (w + 1) % 7 \in Weekdays
    BY <1>2, NextDay
  <2>2. QED
    BY <1>1, <2>1, Zenon
<1>3. DaysToInitiate[<<r, 5>>] = Calendar(r, 5)
  <2>1. (5 + 1) % 7 = 6 /\ ~ (6 < 5) /\ 5 \in Weekdays /\ 6 \in Weekdays /\ 6 \notin {4, 5}
    BY DEF Weekdays
  <2>2. DaysToInitiate[<<r, 6>>] = Calendar(r, 6)
    BY <2>1, <1>2
  <2>3. QED
    BY <1>1, <2>1, <2>2, Zenon
<1>4. DaysToInitiate[<<r, 4>>] = Calendar(r, 4)
  <2>1. (4 + 1) % 7 = 5 /\ ~ (5 < 5) /\ 4 \in Weekdays
    BY DEF Weekdays
  <2>2. QED
    BY <1>1, <1>3, <2>1, Zenon
<1>5. QED
  BY <1>2, <1>3, <1>4, Zenon

LEMMA DaysByCalendar == \A w \in Weekdays : InitiateIn(w) = Calendar(5, w)
<1> DEFINE Fits(r) == \A w \in Weekdays : DaysToInitiate[<<r, w>>] = Calendar(r, w)
<1>0. Fits(0)
  <2> SUFFICES ASSUME NEW w \in Weekdays PROVE DaysToInitiate[<<0, w>>] = Calendar(0, w)
    BY Zenon
  <2>1. DaysToInitiate[<<0, w>>] = 0
    BY DayByDay, 0 \in 0 .. 5, Zenon
  <2>2. QED
    BY <2>1 DEF Calendar
<1>1. ASSUME NEW r \in 1 .. 5, Fits(r - 1) PROVE Fits(r)
  BY <1>1, OneMoreDay, Zenon
<1> HIDE DEF Fits
<1>2. Fits(5)
  <2>1. Fits(1)
    BY <1>0, <1>1, 1 - 1 = 0
  <2>2. Fits(2)
    BY <2>1, <1>1, 2 - 1 = 1
  <2>3. Fits(3)
    BY <2>2, <1>1, 3 - 1 = 2
  <2>4. Fits(4)
    BY <2>3, <1>1, 4 - 1 = 3
  <2>5. QED
    BY <2>4, <1>1, 5 - 1 = 4
<1>3. QED
  BY <1>2, Zenon DEF Fits, InitiateIn

LEMMA FiveElements ==
    ASSUME NEW a, NEW b, NEW c, NEW d, NEW e,
           a # b, a # c, a # d, a # e, b # c, b # d, b # e, c # d, c # e, d # e
    PROVE  Cardinality({a, b, c, d, e}) = 5
<1>0. IsFiniteSet({}) /\ Cardinality({}) = 0
  BY FS_EmptySet
<1>1. IsFiniteSet({a}) /\ Cardinality({a}) = 1
  BY FS_Singleton
<1>2. IsFiniteSet({a, b}) /\ Cardinality({a, b}) = 2
  <2>1. {a, b} = {a} \cup {b} /\ b \notin {a}
    OBVIOUS
  <2>2. QED
    BY <1>1, <2>1, FS_AddElement
<1>3. IsFiniteSet({a, b, c}) /\ Cardinality({a, b, c}) = 3
  <2>1. {a, b, c} = {a, b} \cup {c} /\ c \notin {a, b}
    OBVIOUS
  <2>2. QED
    BY <1>2, <2>1, FS_AddElement
<1>4. IsFiniteSet({a, b, c, d}) /\ Cardinality({a, b, c, d}) = 4
  <2>1. {a, b, c, d} = {a, b, c} \cup {d} /\ d \notin {a, b, c}
    OBVIOUS
  <2>2. QED
    BY <1>3, <2>1, FS_AddElement
<1>5. PICK four : four = {a, b, c, d}
  OBVIOUS
<1>6. {a, b, c, d, e} = four \cup {e} /\ e \notin four
  BY <1>5
<1>7. Cardinality(four \cup {e}) = 4 + 1
  BY <1>4, <1>5, <1>6, FS_AddElement
<1>8. QED
  BY <1>6, <1>7

LEMMA FiveDays ==
    \A a, b, c, d, e \in Int : a < b /\ b < c /\ c < d /\ d < e => Cardinality({a, b, c, d, e}) = 5
<1> SUFFICES ASSUME NEW a \in Int, NEW b \in Int, NEW c \in Int, NEW d \in Int, NEW e \in Int,
                    a < b, b < c, c < d, d < e
             PROVE  Cardinality({a, b, c, d, e}) = 5
  OBVIOUS
<1>1. a # b /\ a # c /\ a # d /\ a # e /\ b # c /\ b # d /\ b # e /\ c # d /\ c # e /\ d # e
  OBVIOUS
<1>2. QED
  BY <1>1, FiveElements, Zenon

\* The weekdays among the next n days.
Later(weekday, n) == {i \in 1 .. n : (weekday + i) % 7 < 5}

LEMMA FifthWeekday ==
    ASSUME NEW w \in Weekdays
    PROVE  /\ Cardinality(Later(w, Calendar(5, w))) = 5
           /\ Calendar(5, w) \in Later(w, Calendar(5, w))
<1>0. w \in {0, 1, 2, 3, 4, 5, 6}
  BY DEF Weekdays
<1>1. CASE w = 0
  <2>1. Calendar(5, w) = 7 /\ Later(w, 7) = {1, 2, 3, 4, 7}
    BY <1>1 DEF Calendar, Later
  <2>2. Cardinality({1, 2, 3, 4, 7}) = 5
    BY FiveDays
  <2>3. QED
    BY <2>1, <2>2
<1>2. CASE w = 1
  <2>1. Calendar(5, w) = 7 /\ Later(w, 7) = {1, 2, 3, 6, 7}
    BY <1>2 DEF Calendar, Later
  <2>2. Cardinality({1, 2, 3, 6, 7}) = 5
    BY FiveDays
  <2>3. QED
    BY <2>1, <2>2
<1>3. CASE w = 2
  <2>1. Calendar(5, w) = 7 /\ Later(w, 7) = {1, 2, 5, 6, 7}
    BY <1>3 DEF Calendar, Later
  <2>2. Cardinality({1, 2, 5, 6, 7}) = 5
    BY FiveDays
  <2>3. QED
    BY <2>1, <2>2
<1>4. CASE w = 3
  <2>1. Calendar(5, w) = 7 /\ Later(w, 7) = {1, 4, 5, 6, 7}
    BY <1>4 DEF Calendar, Later
  <2>2. Cardinality({1, 4, 5, 6, 7}) = 5
    BY FiveDays
  <2>3. QED
    BY <2>1, <2>2
<1>5. CASE w = 4
  <2>1. Calendar(5, w) = 7 /\ Later(w, 7) = {3, 4, 5, 6, 7}
    BY <1>5 DEF Calendar, Later
  <2>2. Cardinality({3, 4, 5, 6, 7}) = 5
    BY FiveDays
  <2>3. QED
    BY <2>1, <2>2
<1>6. CASE w = 5
  <2>1. Calendar(5, w) = 6 /\ Later(w, 6) = {2, 3, 4, 5, 6}
    BY <1>6 DEF Calendar, Later
  <2>2. Cardinality({2, 3, 4, 5, 6}) = 5
    BY FiveDays
  <2>3. QED
    BY <2>1, <2>2
<1>7. CASE w = 6
  <2>1. Calendar(5, w) = 5 /\ Later(w, 5) = {1, 2, 3, 4, 5}
    BY <1>7 DEF Calendar, Later
  <2>2. Cardinality({1, 2, 3, 4, 5}) = 5
    BY FiveDays
  <2>3. QED
    BY <2>1, <2>2
<1>8. QED
  BY <1>0, <1>1, <1>2, <1>3, <1>4, <1>5, <1>6, <1>7

LEMMA MonthsCounted ==
    ASSUME NEW blocked \in Instant
    PROVE  /\ UnusedMonths(blocked) = Cardinality({m \in Months : StartsAfter(m, blocked)})
           /\ UnusedMonths(blocked) \in Nat
<1> DEFINE first == blocked.year * 12 + blocked.month + (IF blocked.first THEN 0 ELSE 1)
           start == Greatest(1, first)
<1>1. blocked.year \in Int /\ blocked.month \in 1 .. 12 /\ blocked.first \in BOOLEAN
  BY OffsetsAssumption DEF Instant, Months
<1>2. first \in Int
  BY <1>1
<1>3. {m \in Months : StartsAfter(m, blocked)} = {m \in 1 .. 12 : m >= first}
  BY DEF Months, StartsAfter
<1>4. UnusedMonths(blocked) = Greatest(0, Least(12, 13 - first))
  BY <1>1 DEF UnusedMonths
<1> HIDE DEF first
<1>5. start \in Int /\ {m \in 1 .. 12 : m >= first} = start .. 12
  BY <1>2 DEF Greatest
<1>6. Cardinality(start .. 12) = IF start > 12 THEN 0 ELSE 12 - start + 1
  <2> HIDE DEF start
  <2> QED
    BY <1>5, FS_Interval
<1>7. start = IF 1 < first THEN first ELSE 1
  BY DEF Greatest
<1>8. Greatest(0, Least(12, 13 - first)) = IF start > 12 THEN 0 ELSE 12 - start + 1
  BY <1>2, <1>7 DEF Greatest, Least
<1>9. (IF start > 12 THEN 0 ELSE 12 - start + 1) \in Nat
  BY <1>5
<1>10. QED
  BY <1>3, <1>4, <1>5, <1>6, <1>8, <1>9

LEMMA TwelfthsRounded ==
    ASSUME NEW p \in Nat
    PROVE  LET error == 12 * ((p + 6) \div 12) - p IN -6 < error /\ error <= 6
OBVIOUS

(***************************************************************************)
(* A new unsupported condition returns the unused months' share of the     *)
(* price, rounded to the nearest minor unit, for every price and every     *)
(* instant of a block (annual_refund).                                     *)
(***************************************************************************)
THEOREM EntitledToUnused == EntitlementIsUnusedShare
<1> SUFFICES ASSUME NEW f \in Facts,
                    f.reason = "new_unsupported_condition",
                    f.elapsed > 30 \/ f.submitted
             PROVE  LET unused == Cardinality({m \in Months : StartsAfter(m, f.blocked)})
                        error == 12 * Decision(f).total - GrossMinor * unused
                    IN -6 < error /\ error <= 6
  BY DEF EntitlementIsUnusedShare
<1>1. f.elapsed \in Nat /\ f.submitted \in BOOLEAN /\ f.blocked \in Instant
  BY ElapsedAssumption DEF Facts
<1>2. ~ Full(f)
  BY <1>1 DEF Full
<1>3. Decision(f).total = (GrossMinor * UnusedMonths(f.blocked) + 6) \div 12
  BY <1>2 DEF Decision, Entitlement
<1> DEFINE price == GrossMinor * UnusedMonths(f.blocked)
<1>4. price \in Nat
  <2>1. \A g, u \in Nat : g * u \in Nat
    OBVIOUS
  <2>2. QED
    BY <1>1, <2>1, MonthsCounted, GrossMinorAssumption
<1>5. price = GrossMinor * Cardinality({m \in Months : StartsAfter(m, f.blocked)})
  BY <1>1, MonthsCounted
<1> HIDE DEF price
<1>6. Decision(f).total = (price + 6) \div 12
  BY <1>3 DEF price
<1>7. QED
  BY <1>4, <1>5, <1>6, TwelfthsRounded

(***************************************************************************)
(* The deadline to initiate a refund is the fifth weekday after the        *)
(* discovery (_initiation_deadline).                                       *)
(***************************************************************************)
THEOREM InitiatedInTime == DeadlineIsFifthWeekday
<1> SUFFICES ASSUME NEW f \in Facts
             PROVE  LET later == {i \in 1 .. Decision(f).initiateIn : (f.weekday + i) % 7 < 5}
                    IN Cardinality(later) = 5 /\ Decision(f).initiateIn \in later
  BY DEF DeadlineIsFifthWeekday
<1>1. f.weekday \in Weekdays
  BY DEF Facts
<1>2. Decision(f).initiateIn = Calendar(5, f.weekday)
  BY <1>1, DaysByCalendar DEF Decision
<1>3. QED
  BY <1>1, <1>2, FifthWeekday, Zenon DEF Later

=============================================================================
