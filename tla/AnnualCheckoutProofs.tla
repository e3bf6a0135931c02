------------------------ MODULE AnnualCheckoutProofs -------------------------
(***************************************************************************)
(* Proofs about the annual checkout and about the one-pass observer beside *)
(* it, for every set of keys, company-years, handlers, observers and lease *)
(* tokens, every price and every bound on POSTs.                           *)
(***************************************************************************)
EXTENDS AnnualObserver, TLAPS

-----------------------------------------------------------------------------
(* Types. *)

\* A task under way names a key, and a claim names the company-year it is for.
TasksNamed ==
    \A w \in Workers :
        /\ tasks[w].pc # "idle" => tasks[w].key \in Keys
        /\ tasks[w].pc = "claim" => tasks[w].year \in Years

TypeInv == TypeOK /\ TasksNamed

\* Settling an observation leaves a row: the policy never produces a value the
\* columns cannot hold.
LEMMA SettleType ==
    ASSUME NEW row \in Row, NEW obs \in Observation
    PROVE  Settle(row, obs) \in Row
<1>1. Outcome(obs) \in PurchaseStatus
  BY DEF Outcome, PurchaseStatus, Observation, ProviderStatus
<1>2. QED
  BY <1>1 DEF Settle, Row, Observation, ProviderStatus, PurchaseStatus

\* An UNKNOWN observation repeats the row's own totals.
LEMMA UnknownType ==
    ASSUME NEW row \in Row
    PROVE  UnknownObservation(row) \in Observation
BY DEF UnknownObservation, Observation, Row, ProviderStatus

\* An answer without money is an observation.
LEMMA MoneylessType ==
    ASSUME NEW obs \in Observation
    PROVE  [obs EXCEPT !.captured = 0, !.refunded = 0] \in Observation
<1>1. 0 \in Money
  BY GrossAssumption DEF Money
<1>2. QED
  BY <1>1 DEF Observation

\* The rows the ledger starts with and the rows a claim inserts.
LEMMA RowTypes ==
    /\ NoRow \in Row
    /\ \A y \in Years : ClaimedRow(y) \in Row
BY GrossAssumption DEF NoRow, ClaimedRow, Row, Money, PurchaseStatus, ProviderStatus

\* What the adapter reads is an observation.
LEMMA ReadType ==
    ASSUME NEW account \in Account
    PROVE  CheckoutRead(account) \in Observation
BY GrossAssumption DEF CheckoutRead, Account, Observation, ProviderStatus, Money

\* A handler without a request.
LEMMA IdleType == Idle \in Task
BY RowTypes, UnknownType DEF Idle, NoObservation, Task

\* The task that goes on with a loaded checkout.
LEMMA ObservingType ==
    ASSUME NEW k \in Keys, NEW row \in Row, NEW b \in BOOLEAN
    PROVE  /\ Observing(k, row, b) \in Task
           /\ Observing(k, row, b).pc # "idle" => Observing(k, row, b).key = k
           /\ Observing(k, row, b).pc # "claim"
BY IdleType, RowTypes, UnknownType DEF Observing, Task, NoObservation, Idle

\* The initial state.
LEMMA InitTyped == CheckoutInit => TypeInv
BY RowTypes, IdleType, GrossAssumption, MaxPostsAssumption
   DEF CheckoutInit, TypeInv, TypeOK, TasksNamed, Idle, NoAccount, Account, Money

\* A step that gives one handler a well-named task keeps the tasks typed.
LEMMA TaskUpdate ==
    ASSUME TypeInv, NEW w \in Workers, NEW t \in Task,
           t.pc # "idle" => t.key \in Keys,
           t.pc = "claim" => t.year \in Years,
           tasks' = [tasks EXCEPT ![w] = t]
    PROVE  tasks' \in [Workers -> Task] /\ TasksNamed'
BY DEF TypeInv, TypeOK, TasksNamed

\* A step that answers a handler's exchange keeps the tasks typed.
LEMMA AnswerUpdate ==
    ASSUME TypeInv, NEW w \in Workers, NEW obs \in Observation,
           tasks[w].pc # "idle", tasks' = Answered(w, obs)
    PROVE  tasks' \in [Workers -> Task] /\ TasksNamed'
<1> DEFINE t == [tasks[w] EXCEPT !.pc = "settle", !.seen = NoRow, !.obs = obs]
<1>1. tasks' = [tasks EXCEPT ![w] = t]
  BY DEF Answered, TypeInv, TypeOK, Task
<1>2. t \in Task /\ t.pc = "settle" /\ t.key \in Keys
  BY RowTypes DEF TypeInv, TypeOK, TasksNamed, Task
<1>3. QED
  BY <1>1, <1>2, TaskUpdate

\* Every answer a handler accepts is an observation.
LEMMA AnswerTyped ==
    ASSUME TypeInv, NEW w \in Workers, CreateReply(w) \/ Reconcile(w) \/ NoAnswer(w)
    PROVE  \E obs \in Observation : tasks' = Answered(w, obs)
<1> USE DEF TypeInv
<1>1. CASE CreateReply(w)
  <2> DEFINE obs == [status |-> "pending", agreement |-> TRUE, captured |-> 0, refunded |-> 0]
  <2>1. obs \in Observation
    BY GrossAssumption DEF Observation, ProviderStatus, Money
  <2>2. QED
    BY <1>1, <2>1 DEF CreateReply
<1>2. CASE Reconcile(w)
  <2> DEFINE read == CheckoutRead(vipps[tasks[w].key])
             obs == IF ValidObservation(read) THEN read
                    ELSE UnknownObservation(tasks[w].seen)
  <2>1. tasks[w].key \in Keys
    BY <1>2 DEF Reconcile, TasksNamed
  <2>2. obs \in Observation
    BY <2>1, ReadType, UnknownType DEF TypeOK, Task
  <2>3. tasks' = Answered(w, obs)
    BY <1>2 DEF Reconcile
  <2>4. QED
    BY <2>2, <2>3
<1>3. CASE NoAnswer(w)
  <2>1. UnknownObservation(tasks[w].seen) \in Observation
    BY UnknownType DEF TypeOK, Task
  <2>2. [UnknownObservation(tasks[w].seen) EXCEPT !.captured = 0, !.refunded = 0] \in Observation
    BY <2>1, MoneylessType
  <2>3. QED
    BY <1>3, <2>1, <2>2 DEF NoAnswer
<1>4. QED
  BY <1>1, <1>2, <1>3

\* Every step of a handler keeps the types.
LEMMA WorkerStepTyped ==
    ASSUME TypeInv, NEW w \in Workers, WorkerStep(w)
    PROVE  TypeInv'
<1> USE DEF TypeInv
<1>1. ASSUME NEW k \in Keys, NEW y \in Years, StartKnown(w, k, y)
      PROVE  TypeInv'
  BY <1>1, ObservingType, TaskUpdate DEF StartKnown, TypeOK
<1>2. ASSUME NEW k \in Keys, NEW y \in Years, StartNew(w, k, y)
      PROVE  TypeInv'
  <2> DEFINE t == [Idle EXCEPT !.pc = "claim", !.key = k, !.year = y]
  <2>1. t \in Task /\ t.key \in Keys /\ t.year \in Years
    BY IdleType DEF Task, Idle
  <2>2. tasks' = [tasks EXCEPT ![w] = t]
    BY <1>2 DEF StartNew
  <2>3. QED
    BY <1>2, <2>1, <2>2, TaskUpdate DEF StartNew, TypeOK
<1>3. ASSUME NEW k \in Keys, Poll(w, k)
      PROVE  TypeInv'
  BY <1>3, ObservingType, TaskUpdate DEF Poll, TypeOK
<1>4. ASSUME ClaimReplay(w)
      PROVE  TypeInv'
  <2>1. tasks[w].key \in Keys
    BY <1>4 DEF ClaimReplay, TasksNamed
  <2>2. QED
    BY <1>4, <2>1, ObservingType, TaskUpdate DEF ClaimReplay, TypeOK
<1>5. ASSUME ClaimCommit(w)
      PROVE  TypeInv'
  <2>1. tasks[w].key \in Keys /\ tasks[w].year \in Years
    BY <1>5 DEF ClaimCommit, TasksNamed
  <2>2. ClaimedRow(tasks[w].year) \in Row
    BY <2>1, RowTypes
  <2>3. QED
    BY <1>5, <2>1, <2>2, ObservingType, TaskUpdate DEF ClaimCommit, TypeOK
<1>6. ASSUME SendCreate(w)
      PROVE  TypeInv'
  <2> DEFINE t == [tasks[w] EXCEPT !.pc = "await"]
  <2>1. tasks[w].key \in Keys
    BY <1>6 DEF SendCreate, TasksNamed
  <2>2. t \in Task /\ t.pc = "await" /\ t.key \in Keys
    BY <2>1 DEF TypeOK, Task
  <2>3. tasks' = [tasks EXCEPT ![w] = t]
    BY <1>6 DEF SendCreate, TypeOK, Task
  <2>4. posts' \in [Keys -> 0 .. MaxPosts]
    BY <1>6, <2>1, MaxPostsAssumption DEF SendCreate, TypeOK
  <2>5. QED
    BY <1>6, <2>2, <2>3, <2>4, TaskUpdate DEF SendCreate, TypeOK
<1>7. ASSUME CreateReply(w) \/ Reconcile(w) \/ NoAnswer(w)
      PROVE  TypeInv'
  <2>1. PICK obs \in Observation : tasks' = Answered(w, obs)
    BY <1>7, AnswerTyped
  <2>2. QED
    BY <1>7, <2>1, AnswerUpdate DEF CreateReply, Reconcile, NoAnswer, TypeOK
<1>8. ASSUME SettleCheckout(w)
      PROVE  TypeInv'
  <2>1. tasks[w].key \in Keys
    BY <1>8 DEF SettleCheckout, TasksNamed
  <2>2. Settle(purchases[tasks[w].key], tasks[w].obs) \in Row
    BY <2>1, SettleType DEF TypeOK, Task
  <2>3. Idle.pc = "idle"
    BY DEF Idle
  <2>4. QED
    BY <1>8, <2>1, <2>2, <2>3, IdleType, TaskUpdate DEF SettleCheckout, TypeOK
<1>9. ASSUME Abandon(w)
      PROVE  TypeInv'
  <2>1. Idle.pc = "idle"
    BY DEF Idle
  <2>2. QED
    BY <1>9, <2>1, IdleType, TaskUpdate DEF Abandon, TypeOK
<1>10. QED
  BY <1>1, <1>2, <1>3, <1>4, <1>5, <1>6, <1>7, <1>8, <1>9 DEF WorkerStep

\* Every step of the provider keeps the types.
LEMMA ProviderStepTyped ==
    ASSUME TypeInv, NEW k \in Keys, ProviderStep(k)
    PROVE  TypeInv'
<1>1. vipps[k] \in Account
  BY DEF TypeInv, TypeOK
<1>2. \E account \in Account : vipps' = [vipps EXCEPT ![k] = account]
  <2>1. CASE ProviderCreate(k)
    <3> DEFINE a == [vipps[k] EXCEPT !.agreement = "pending"]
    <3>1. a \in Account /\ vipps' = [vipps EXCEPT ![k] = a]
      BY <1>1, <2>1 DEF ProviderCreate, Account, TypeInv, TypeOK
    <3>2. QED BY <3>1
  <2>2. CASE ProviderApprove(k)
    <3> DEFINE a == [vipps[k] EXCEPT !.agreement = "active"]
    <3>1. a \in Account /\ vipps' = [vipps EXCEPT ![k] = a]
      BY <1>1, <2>2 DEF ProviderApprove, Account, TypeInv, TypeOK
    <3>2. QED BY <3>1
  <2>3. CASE ProviderExpire(k)
    <3> DEFINE a == [vipps[k] EXCEPT !.agreement = "expired", !.charge = "closed"]
    <3>1. a \in Account /\ vipps' = [vipps EXCEPT ![k] = a]
      BY <1>1, <2>3 DEF ProviderExpire, Account, TypeInv, TypeOK
    <3>2. QED BY <3>1
  <2>4. ASSUME NEW amount \in 1 .. Gross, ProviderCapture(k, amount)
        PROVE  \E account \in Account : vipps' = [vipps EXCEPT ![k] = account]
    <3> DEFINE a == [vipps[k] EXCEPT !.captured = @ + amount]
    <3>1. a \in Account /\ vipps' = [vipps EXCEPT ![k] = a]
      BY <1>1, <2>4, GrossAssumption DEF ProviderCapture, Account, Money, TypeInv, TypeOK
    <3>2. QED BY <3>1
  <2>5. CASE ProviderComplete(k)
    <3> DEFINE a == [vipps[k] EXCEPT !.charge = "charged"]
    <3>1. a \in Account /\ vipps' = [vipps EXCEPT ![k] = a]
      BY <1>1, <2>5 DEF ProviderComplete, Account, TypeInv, TypeOK
    <3>2. QED BY <3>1
  <2>6. CASE ProviderClose(k)
    <3> DEFINE a == [vipps[k] EXCEPT !.charge = "closed"]
    <3>1. a \in Account /\ vipps' = [vipps EXCEPT ![k] = a]
      BY <1>1, <2>6 DEF ProviderClose, Account, TypeInv, TypeOK
    <3>2. QED BY <3>1
  <2>7. QED
    BY <2>1, <2>2, <2>3, <2>4, <2>5, <2>6 DEF ProviderStep
<1>3. UNCHANGED <<purchases, withdrawn, tasks, posts>>
  BY DEF ProviderStep, ProviderCreate, ProviderApprove, ProviderExpire, ProviderCapture,
         ProviderComplete, ProviderClose
<1>4. QED
  BY <1>2, <1>3 DEF TypeInv, TypeOK, TasksNamed

\* The types are kept by every step.
LEMMA StepTyped == TypeInv /\ [CheckoutNext]_checkoutVars => TypeInv'
<1> SUFFICES ASSUME TypeInv, [CheckoutNext]_checkoutVars
             PROVE  TypeInv'
  OBVIOUS
<1>1. ASSUME NEW w \in Workers, WorkerStep(w)
      PROVE  TypeInv'
  BY <1>1, WorkerStepTyped
<1>2. ASSUME NEW k \in Keys, NEW y \in Years, Withdraw(k, y)
      PROVE  TypeInv'
  BY <1>2 DEF Withdraw, TypeInv, TypeOK, TasksNamed
<1>3. ASSUME NEW k \in Keys, ProviderStep(k)
      PROVE  TypeInv'
  BY <1>3, ProviderStepTyped
<1>4. CASE UNCHANGED checkoutVars
  BY <1>4 DEF checkoutVars, TypeInv, TypeOK, TasksNamed
<1>5. QED
  BY <1>1, <1>2, <1>3, <1>4 DEF CheckoutNext

\* Every value the checkout reaches is one its variables may hold.
THEOREM TypeCorrect == CheckoutSpec => []TypeOK
<1>1. TypeInv => TypeOK
  BY DEF TypeInv
<1>2. QED
  BY InitTyped, StepTyped, <1>1, PTL DEF CheckoutSpec

-----------------------------------------------------------------------------
(* The inductive invariant.  The properties of AnnualCheckout speak of the *)
(* ledger and the provider only; what makes them inductive is what the     *)
(* handlers in between may know and do.                                    *)

\* The tasks that work on a purchase, and those that may still call the provider.
Engaged(w) == tasks[w].pc \in {"execute", "await", "reconcile", "settle"}
Asking(w) == tasks[w].pc \in {"execute", "await", "reconcile"}

\* Who may POST: only the handler that won the claim, while nothing was sent.
Conduct ==
    /\ \A k \in Keys :
          /\ posts[k] <= 1
          /\ purchases[k].status = "none" => posts[k] = 0
          /\ vipps[k].agreement # "absent" => posts[k] > 0
          /\ withdrawn[k] # NoYear => purchases[k].status = "none"
    /\ \A w \in Workers :
          /\ Engaged(w) => purchases[tasks[w].key].status # "none"
          /\ tasks[w].pc = "execute" => posts[tasks[w].key] = 0
    /\ \A v, w \in Workers :
          tasks[v].pc = "execute" /\ tasks[w].pc = "execute" /\ tasks[v].key = tasks[w].key
              => v = w

\* Nothing is collected before the customer agrees, and a charge is complete only
\* with the whole price captured.
AccountSane(account) ==
    /\ account.agreement \in {"absent", "pending"} =>
          account.charge = "open" /\ account.captured = 0
    /\ account.charge = "charged" => account.captured = Gross

\* The totals are covered by what the provider holds.
Covered(totals, account) ==
    /\ totals.refunded <= totals.captured
    /\ totals.captured <= account.captured
    /\ totals.refunded <= account.refunded
    /\ totals.agreement => account.agreement # "absent"

\* A row that only settled observations have changed.
RowSane(row) ==
    /\ row.status = "none" \/ row.op = "created" =>
          row.captured = 0 /\ row.refunded = 0 /\ ~row.agreement
    /\ row.status = "pending" => row.op \in {"created", "pending", "unknown"}
    /\ row.status = "none" => row.year = NoYear
    /\ PurchaseChecks(row)

\* A final status is backed by a charge that can no longer change.
StatusBacked(row, account) ==
    /\ row.status = "paid" => account.charge = "charged"
    /\ row.status = "failed" => account.charge = "closed" /\ account.captured = 0
    /\ row.status = "refunded" => account.refunded = Gross

\* The same for an observation on its way to the ledger.
ObservationBacked(obs, account) ==
    /\ Covered(obs, account)
    /\ obs.status = "confirmed" => obs.captured = Gross /\ account.charge = "charged"
    /\ obs.status = "failed" =>
          obs.captured = 0 /\ account.charge = "closed" /\ account.captured = 0

\* What the ledger, and every handler, knows of the provider.
Backed ==
    /\ \A k \in Keys :
          /\ AccountSane(vipps[k])
          /\ RowSane(purchases[k])
          /\ Covered(purchases[k], vipps[k])
          /\ StatusBacked(purchases[k], vipps[k])
    /\ \A w \in Workers :
          /\ Asking(w) => Covered(tasks[w].seen, vipps[tasks[w].key])
          /\ tasks[w].pc = "settle" => ObservationBacked(tasks[w].obs, vipps[tasks[w].key])

\* At most one pending or paid purchase occupies a company-year.
OneOccupies ==
    \A j, k \in Keys :
        /\ purchases[j].year = purchases[k].year
        /\ purchases[j].status \in OccupyingStatus
        /\ purchases[k].status \in OccupyingStatus
        => j = k

IInv == TypeInv /\ Conduct /\ Backed /\ OneOccupies

\* What a settlement does to a row: nothing, or it takes over the observation.
LEMMA SettleCases ==
    ASSUME NEW row \in Row, NEW obs \in Observation
    PROVE  \/ Settle(row, obs) = row
           \/ /\ row.status \notin TerminalStatus
              /\ ~Obsolete(row, obs)
              /\ Settle(row, obs).year = row.year
              /\ Settle(row, obs).canceled = row.canceled
              /\ Settle(row, obs).status = Outcome(obs)
              /\ Settle(row, obs).op = obs.status
              /\ Settle(row, obs).agreement = obs.agreement
              /\ Settle(row, obs).captured = obs.captured
              /\ Settle(row, obs).refunded = obs.refunded
BY DEF Settle, Row

\* How the observation decides the purchase.
LEMMA OutcomeCases ==
    ASSUME NEW obs \in Observation
    PROVE  \/ obs.status \in {"pending", "unknown"} /\ Outcome(obs) = "pending"
           \/ obs.status = "failed" /\ Outcome(obs) = "failed"
           \/ obs.status = "confirmed" /\ obs.refunded = Gross /\ Outcome(obs) = "refunded"
           \/ obs.status = "confirmed" /\ obs.refunded # Gross /\ Outcome(obs) = "paid"
BY DEF Outcome, Observation, ProviderStatus

\* A settlement never takes a purchase away.
LEMMA SettleKeepsPurchase ==
    ASSUME NEW row \in Row, NEW obs \in Observation
    PROVE  /\ Settle(row, obs).year = row.year
           /\ row.status # "none" => Settle(row, obs).status # "none"
           /\ Settle(row, obs).status \in OccupyingStatus /\ row.status # "none"
                 => row.status \in OccupyingStatus
<1>1. row.status \in PurchaseStatus \cup {"none"}
  BY DEF Row
<1>2. QED
  BY <1>1, SettleCases, OutcomeCases DEF OccupyingStatus, TerminalStatus, PurchaseStatus

\* A handler that loaded a checkout someone else claimed does not execute.
LEMMA LoadedTask ==
    ASSUME TypeInv, NEW k \in Keys
    PROVE  LET t == Observing(k, purchases[k], FALSE)
           IN  /\ t \in Task
               /\ \/ t.pc = "idle"
                  \/ t.pc = "reconcile" /\ t.key = k /\ t.seen = purchases[k]
<1>1. purchases[k] \in Row
  BY DEF TypeInv, TypeOK
<1>2. Observing(k, purchases[k], FALSE) \in Task
  BY <1>1, ObservingType
<1>3. QED
  BY <1>1, <1>2 DEF Observing, Idle

\* A handler that does not win a claim, and works on a purchase only if there is
\* one, does not disturb the conduct.
LEMMA QuietTask ==
    ASSUME TypeInv, Conduct, NEW w \in Workers, NEW t \in Task,
           tasks' = [tasks EXCEPT ![w] = t],
           t.pc # "execute",
           t.pc \in {"await", "reconcile", "settle"} => purchases[t.key].status # "none",
           UNCHANGED <<purchases, withdrawn, posts, vipps>>
    PROVE  Conduct'
<1>1. tasks'[w] = t /\ \A v \in Workers : v # w => tasks'[v] = tasks[v]
  BY DEF TypeInv, TypeOK
<1>2. QED
  BY <1>1 DEF Conduct, Engaged

\* The conduct of the handlers is kept by every step of one.
LEMMA WorkerConduct ==
    ASSUME IInv, NEW w \in Workers, WorkerStep(w)
    PROVE  Conduct'
<1> USE DEF IInv, TypeInv, TypeOK
<1>a. Idle.pc = "idle"
  BY DEF Idle
<1>1. ASSUME NEW k \in Keys, NEW y \in Years, StartKnown(w, k, y)
      PROVE  Conduct'
  BY <1>1, LoadedTask, QuietTask DEF StartKnown
<1>2. ASSUME NEW k \in Keys, NEW y \in Years, StartNew(w, k, y)
      PROVE  Conduct'
  <2>1. tasks'[w].pc = "claim"
    BY <1>2 DEF StartNew, Idle
  <2>2. \A v \in Workers : v # w => tasks'[v] = tasks[v]
    BY <1>2 DEF StartNew
  <2>3. QED
    BY <1>2, <2>1, <2>2 DEF StartNew, Conduct, Engaged
<1>3. ASSUME NEW k \in Keys, Poll(w, k)
      PROVE  Conduct'
  BY <1>3, LoadedTask, QuietTask DEF Poll
<1>4. ASSUME ClaimReplay(w)
      PROVE  Conduct'
  <2>1. tasks[w].key \in Keys
    BY <1>4 DEF ClaimReplay, TasksNamed
  <2> DEFINE k == tasks[w].key
             t == Observing(k, purchases[k], FALSE)
  <2>2. /\ purchases[k].status # "none"
        /\ tasks' = [tasks EXCEPT ![w] = t]
        /\ UNCHANGED <<purchases, withdrawn, posts, vipps>>
    BY <1>4 DEF ClaimReplay
  <2>3. t \in Task /\ (t.pc = "idle" \/ (t.pc = "reconcile" /\ t.key = k))
    BY <2>1, LoadedTask
  <2> HIDE DEF k, t
  <2>4. QED
    BY <2>2, <2>3, QuietTask
<1>5. ASSUME ClaimCommit(w)
      PROVE  Conduct'
  <2> DEFINE k == tasks[w].key
             y == tasks[w].year
  <2>1. k \in Keys /\ y \in Years
    BY <1>5 DEF ClaimCommit, TasksNamed
  <2>2. ClaimedRow(y) \in Row /\ ClaimedRow(y).status = "pending"
    BY <2>1, RowTypes DEF ClaimedRow
  <2>3. posts[k] = 0 /\ withdrawn[k] = NoYear
    BY <1>5, <2>1 DEF ClaimCommit, Conduct
  <2>4. \A v \in Workers : Engaged(v) => tasks[v].key # k
    BY <1>5 DEF ClaimCommit, Conduct
  <2>5. \A v \in Workers : v # w => tasks'[v] = tasks[v]
    BY <1>5 DEF ClaimCommit
  <2>6. tasks'[w].pc = "execute" /\ tasks'[w].key = k
    <3>1. tasks'[w] = Observing(k, ClaimedRow(y), TRUE)
      BY <1>5 DEF ClaimCommit
    <3>2. QED
      BY <3>1 DEF Observing, ClaimedRow, TerminalStatus
  <2>7. \A j \in Keys : purchases'[j] = IF j = k THEN ClaimedRow(y) ELSE purchases[j]
    BY <1>5 DEF ClaimCommit
  <2>8. UNCHANGED <<withdrawn, posts, vipps>>
    BY <1>5 DEF ClaimCommit
  <2> HIDE DEF k, y
  <2>9. (\A j \in Keys :
            /\ posts[j] <= 1
            /\ purchases[j].status = "none" => posts[j] = 0
            /\ vipps[j].agreement # "absent" => posts[j] > 0
            /\ withdrawn[j] # NoYear => purchases[j].status = "none")'
    BY <2>1, <2>2, <2>3, <2>7, <2>8 DEF Conduct
  <2>10. (\A v \in Workers :
             /\ Engaged(v) => purchases[tasks[v].key].status # "none"
             /\ tasks[v].pc = "execute" => posts[tasks[v].key] = 0)'
    <3> SUFFICES ASSUME NEW v \in Workers
                 PROVE  /\ Engaged(v)' => purchases'[tasks'[v].key].status # "none"
                        /\ tasks'[v].pc = "execute" => posts'[tasks'[v].key] = 0
      OBVIOUS
    <3>1. CASE v = w
      BY <3>1, <2>1, <2>2, <2>3, <2>6, <2>7, <2>8 DEF Engaged
    <3>2. CASE v # w
      <4>1. Engaged(v) => tasks[v].key \in Keys
        BY DEF TasksNamed, Engaged
      <4>2. QED
        BY <3>2, <4>1, <2>1, <2>2, <2>5, <2>7, <2>8 DEF Engaged, Conduct
    <3>3. QED
      BY <3>1, <3>2
  <2>11. (\A u, v \in Workers :
            tasks[u].pc = "execute" /\ tasks[v].pc = "execute" /\ tasks[u].key = tasks[v].key
               => u = v)'
    <3>1. \A u, v \in Workers :
             tasks[u].pc = "execute" /\ tasks[v].pc = "execute" /\ tasks[u].key = tasks[v].key
                => u = v
      BY DEF Conduct
    <3>2. \A v \in Workers : tasks[v].pc = "execute" => tasks[v].key # k
      BY <2>4 DEF Engaged
    <3>3. QED
      BY <3>1, <3>2, <2>5, <2>6
  <2>12. QED
    BY <2>9, <2>10, <2>11 DEF Conduct, Engaged
<1>6. ASSUME SendCreate(w)
      PROVE  Conduct'
  <2> DEFINE k == tasks[w].key
  <2>1. k \in Keys /\ posts[k] = 0 /\ purchases[k].status # "none"
    BY <1>6 DEF SendCreate, TasksNamed, Conduct, Engaged
  <2>2. \A v \in Workers : v # w => tasks'[v] = tasks[v]
    BY <1>6 DEF SendCreate
  <2>3. tasks'[w].pc = "await" /\ tasks'[w].key = k
    BY <1>6 DEF SendCreate, Task
  <2>4. posts' = [posts EXCEPT ![k] = 1]
    BY <1>6, <2>1 DEF SendCreate
  <2>5. \A v \in Workers : v # w /\ tasks[v].pc = "execute" => tasks[v].key # k
    BY <1>6 DEF SendCreate, Conduct
  <2> HIDE DEF k
  <2>6. QED
    BY <1>6, <2>1, <2>2, <2>3, <2>4, <2>5 DEF SendCreate, Conduct, Engaged
<1>7. ASSUME Engaged(w),
             \E obs \in Observation : tasks' = Answered(w, obs),
             UNCHANGED <<purchases, withdrawn, posts, vipps>>
      PROVE  Conduct'
  <2>1. tasks'[w].pc = "settle" /\ tasks'[w].key = tasks[w].key
    BY <1>7 DEF Answered, Task
  <2>2. \A v \in Workers : v # w => tasks'[v] = tasks[v]
    BY <1>7 DEF Answered
  <2>3. QED
    BY <1>7, <2>1, <2>2 DEF Conduct, Engaged
<1>8. ASSUME CreateReply(w) \/ Reconcile(w) \/ NoAnswer(w)
      PROVE  Conduct'
  BY <1>7, <1>8, AnswerTyped DEF CreateReply, Reconcile, NoAnswer, Engaged
<1>9. ASSUME SettleCheckout(w)
       PROVE  Conduct'
  <2> DEFINE k == tasks[w].key
             row == Settle(purchases[k], tasks[w].obs)
  <2>1. k \in Keys /\ purchases[k].status # "none"
    BY <1>9 DEF SettleCheckout, TasksNamed, Conduct, Engaged
  <2>2. row.status # "none"
    BY <2>1, SettleKeepsPurchase DEF Task
  <2>3. purchases' = [purchases EXCEPT ![k] = row]
    BY <1>9 DEF SettleCheckout
  <2>4. tasks' = [tasks EXCEPT ![w] = Idle]
    BY <1>9 DEF SettleCheckout
  <2> HIDE DEF k, row
  <2>5. QED
    BY <1>9, <1>a, <2>1, <2>2, <2>3, <2>4 DEF SettleCheckout, Conduct, Engaged, TasksNamed
<1>10. ASSUME Abandon(w)
       PROVE  Conduct'
  BY <1>10, <1>a DEF Abandon, Conduct, Engaged
<1>11. QED
  BY <1>1, <1>2, <1>3, <1>4, <1>5, <1>6, <1>8, <1>9, <1>10 DEF WorkerStep

\* The conduct is kept by every step.
LEMMA StepConduct == IInv /\ [CheckoutNext]_checkoutVars => Conduct'
<1> SUFFICES ASSUME IInv, [CheckoutNext]_checkoutVars
             PROVE  Conduct'
  OBVIOUS
<1>1. ASSUME NEW w \in Workers, WorkerStep(w)
      PROVE  Conduct'
  BY <1>1, WorkerConduct
<1>2. ASSUME NEW k \in Keys, NEW y \in Years, Withdraw(k, y)
      PROVE  Conduct'
  BY <1>2 DEF Withdraw, IInv, TypeInv, TypeOK, Conduct, Engaged
<1>3. ASSUME NEW k \in Keys, ProviderStep(k)
      PROVE  Conduct'
  <2>1. UNCHANGED <<purchases, withdrawn, tasks, posts>>
    BY <1>3 DEF ProviderStep, ProviderCreate, ProviderApprove, ProviderExpire, ProviderCapture,
                ProviderComplete, ProviderClose
  <2>2. \A j \in Keys : vipps'[j].agreement # "absent" =>
                            vipps[j].agreement # "absent" \/ posts[j] > 0
    BY <1>3 DEF ProviderStep, ProviderCreate, ProviderApprove, ProviderExpire, ProviderCapture,
                ProviderComplete, ProviderClose, IInv, TypeInv, TypeOK, Account
  <2>3. QED
    BY <2>1, <2>2 DEF IInv, Conduct, Engaged
<1>4. CASE UNCHANGED checkoutVars
  BY <1>4 DEF checkoutVars, IInv, Conduct, Engaged
<1>5. QED
  BY <1>1, <1>2, <1>3, <1>4 DEF CheckoutNext

-----------------------------------------------------------------------------
(* The ledger follows the provider. *)

\* What the provider holds only ever becomes more definite.
Grows(old, new) ==
    /\ old.captured <= new.captured
    /\ old.refunded <= new.refunded
    /\ old.agreement # "absent" => new.agreement # "absent"
    /\ old.charge = "charged" => new.charge = "charged"
    /\ old.charge = "closed" => new.charge = "closed" /\ new.captured = old.captured

\* What was backed stays backed while the provider's account grows.
LEMMA BackedGrows ==
    ASSUME NEW old \in Account, NEW new \in Account, Grows(old, new)
    PROVE  /\ \A row \in Row : Covered(row, old) => Covered(row, new)
           /\ \A row \in Row : StatusBacked(row, old) => StatusBacked(row, new)
           /\ \A obs \in Observation : ObservationBacked(obs, old) => ObservationBacked(obs, new)
BY GrossAssumption
   DEF Grows, Covered, StatusBacked, ObservationBacked, Account, Row, Observation, Money

\* What the adapter reads is backed by what it read, if the policy accepts it.
LEMMA ReadBacked ==
    ASSUME NEW account \in Account, AccountSane(account), account.agreement # "absent",
           ValidObservation(CheckoutRead(account))
    PROVE  ObservationBacked(CheckoutRead(account), account)
<1>1. CASE account.agreement = "pending"
  BY <1>1, GrossAssumption
     DEF CheckoutRead, AccountSane, ObservationBacked, Covered, Account, Money
<1>2. CASE account.agreement # "pending"
  BY <1>2, GrossAssumption
     DEF CheckoutRead, AccountSane, ObservationBacked, Covered, ValidObservation, Account, Money
<1>3. QED
  BY <1>1, <1>2

\* An UNKNOWN answer is backed if what the handler had loaded is.
LEMMA UnknownBacked ==
    ASSUME NEW row \in Row, NEW account \in Account, Covered(row, account)
    PROVE  /\ ObservationBacked(UnknownObservation(row), account)
           /\ ObservationBacked([UnknownObservation(row) EXCEPT !.captured = 0, !.refunded = 0],
                                account)
BY GrossAssumption DEF UnknownObservation, ObservationBacked, Covered, Row, Account, Money

\* A settled row is as sane, and as backed, as the observation it takes over.
LEMMA SettleBacked ==
    ASSUME NEW row \in Row, NEW obs \in Observation, NEW account \in Account,
           row.status # "none",
           AccountSane(account), RowSane(row), Covered(row, account), StatusBacked(row, account),
           ObservationBacked(obs, account)
    PROVE  /\ RowSane(Settle(row, obs))
           /\ Covered(Settle(row, obs), account)
           /\ StatusBacked(Settle(row, obs), account)
<1> DEFINE new == Settle(row, obs)
<1>1. CASE new = row
  BY <1>1
<1>2. CASE /\ row.status \notin TerminalStatus
           /\ new.year = row.year
           /\ new.status = Outcome(obs)
           /\ new.op = obs.status
           /\ new.agreement = obs.agreement
           /\ new.captured = obs.captured
           /\ new.refunded = obs.refunded
  <2> HIDE DEF new
  <2>1. Covered(new, account)
    BY <1>2 DEF Covered, ObservationBacked
  <2>2. StatusBacked(new, account)
    BY <1>2, OutcomeCases, GrossAssumption
       DEF StatusBacked, ObservationBacked, Covered, Observation, Account, Money
  <2>3. PurchaseChecks(new)
    BY <1>2, OutcomeCases, GrossAssumption
       DEF PurchaseChecks, ObservationBacked, Covered, Observation, Account, Money
  <2>4. RowSane(new)
    BY <1>2, <2>3, OutcomeCases DEF RowSane, Observation, ProviderStatus
  <2>5. QED
    BY <2>1, <2>2, <2>4 DEF new
<1>3. QED
  BY <1>1, <1>2, SettleCases

\* The answers a handler accepts are backed.
LEMMA AnswerBacked ==
    ASSUME IInv, NEW w \in Workers, CreateReply(w) \/ Reconcile(w) \/ NoAnswer(w)
    PROVE  \E obs \in Observation :
              tasks' = Answered(w, obs) /\ ObservationBacked(obs, vipps[tasks[w].key])
<1> DEFINE account == vipps[tasks[w].key]
           row == tasks[w].seen
<1>1. tasks[w].key \in Keys
  BY DEF IInv, TypeInv, TasksNamed, CreateReply, Reconcile, NoAnswer
<1>2. account \in Account /\ AccountSane(account) /\ row \in Row
  BY <1>1 DEF IInv, TypeInv, TypeOK, Backed, Task
<1>3. Asking(w) => Covered(row, account)
  BY DEF IInv, Backed
<1>4. CASE CreateReply(w)
  <2> DEFINE obs == [status |-> "pending", agreement |-> TRUE, captured |-> 0, refunded |-> 0]
  <2>1. account.agreement # "absent" /\ tasks' = Answered(w, obs)
    BY <1>4 DEF CreateReply
  <2> HIDE DEF account
  <2>2. obs \in Observation /\ ObservationBacked(obs, account)
    BY <1>2, <2>1, GrossAssumption
       DEF Observation, ProviderStatus, Money, Account, ObservationBacked, Covered
  <2>3. QED
    BY <2>1, <2>2 DEF account
<1>5. CASE Reconcile(w)
  <2> DEFINE read == CheckoutRead(account)
             obs == IF ValidObservation(read) THEN read ELSE UnknownObservation(row)
  <2>1. account.agreement # "absent" /\ tasks' = Answered(w, obs)
    BY <1>5 DEF Reconcile
  <2>2. Covered(row, account)
    BY <1>5, <1>3 DEF Reconcile, Asking
  <2> HIDE DEF account, row
  <2>3. obs \in Observation /\ ObservationBacked(obs, account)
    BY <1>2, <2>1, <2>2, ReadType, ReadBacked, UnknownType, UnknownBacked
  <2>4. QED
    BY <2>1, <2>3 DEF account
<1>6. CASE NoAnswer(w)
  <2>1. Covered(row, account)
    BY <1>6, <1>3 DEF NoAnswer, Asking
  <2>2. PICK obs \in {UnknownObservation(row),
                      [UnknownObservation(row) EXCEPT !.captured = 0, !.refunded = 0]} :
             tasks' = Answered(w, obs)
    BY <1>6 DEF NoAnswer
  <2> HIDE DEF account, row
  <2>3. UnknownObservation(row) \in Observation
    BY <1>2, UnknownType
  <2>4. [UnknownObservation(row) EXCEPT !.captured = 0, !.refunded = 0] \in Observation
    BY <2>3, MoneylessType
  <2>5. obs \in Observation /\ ObservationBacked(obs, account)
    BY <1>2, <2>1, <2>3, <2>4, UnknownBacked
  <2>6. QED
    BY <2>2, <2>5 DEF account
<1>7. QED
  BY <1>4, <1>5, <1>6

\* The parts of Backed that speak of one purchase and of one handler.
PurchaseBacked(k) ==
    /\ AccountSane(vipps[k])
    /\ RowSane(purchases[k])
    /\ Covered(purchases[k], vipps[k])
    /\ StatusBacked(purchases[k], vipps[k])

HandlerBacked(w) ==
    /\ Asking(w) => Covered(tasks[w].seen, vipps[tasks[w].key])
    /\ tasks[w].pc = "settle" => ObservationBacked(tasks[w].obs, vipps[tasks[w].key])

\* A handler's step that leaves ledger and provider alone need only account for its
\* own task.
LEMMA HandlerStepBacked ==
    ASSUME TypeInv, Backed, NEW w \in Workers, NEW t \in Task,
           tasks' = [tasks EXCEPT ![w] = t],
           t.pc \in {"execute", "await", "reconcile"} => Covered(t.seen, vipps[t.key]),
           t.pc = "settle" => ObservationBacked(t.obs, vipps[t.key]),
           UNCHANGED <<purchases, vipps>>
    PROVE  Backed'
<1>1. tasks'[w] = t /\ \A v \in Workers : v # w => tasks'[v] = tasks[v]
  BY DEF TypeInv, TypeOK
<1>2. \A v \in Workers : HandlerBacked(v)'
  <2> TAKE v \in Workers
  <2>1. HandlerBacked(v)
    BY DEF Backed, HandlerBacked
  <2>2. CASE v = w
    BY <1>1, <2>2 DEF HandlerBacked, Asking
  <2>3. CASE v # w
    BY <1>1, <2>1, <2>3 DEF HandlerBacked, Asking
  <2>4. QED
    BY <2>2, <2>3
<1>3. \A k \in Keys : PurchaseBacked(k)'
  BY DEF Backed, PurchaseBacked
<1>4. QED
  BY <1>2, <1>3 DEF Backed, HandlerBacked, PurchaseBacked

\* Backing is kept by every step of a handler.
LEMMA WorkerBacked ==
    ASSUME IInv, NEW w \in Workers, WorkerStep(w)
    PROVE  Backed'
<1>1. TypeInv /\ Conduct /\ Backed
  BY DEF IInv
<1>2. Idle \in Task /\ Idle.pc = "idle"
  BY IdleType DEF Idle
<1>3. ASSUME NEW k \in Keys,
             tasks' = [tasks EXCEPT ![w] = Observing(k, purchases[k], FALSE)],
             UNCHANGED <<purchases, vipps>>
      PROVE  Backed'
  <2> DEFINE t == Observing(k, purchases[k], FALSE)
  <2>1. t \in Task
    BY <1>1, LoadedTask
  <2>2. t.pc = "idle" \/ (t.pc = "reconcile" /\ t.key = k /\ t.seen = purchases[k])
    BY <1>1, LoadedTask
  <2>3. Covered(purchases[k], vipps[k])
    BY <1>1 DEF Backed
  <2>4. tasks' = [tasks EXCEPT ![w] = t]
    BY <1>3
  <2> HIDE DEF t
  <2>5. QED
    BY <1>1, <1>3, <2>1, <2>2, <2>3, <2>4, HandlerStepBacked
<1>4. ASSUME NEW k \in Keys, Poll(w, k) \/ \E y \in Years : StartKnown(w, k, y)
      PROVE  Backed'
  BY <1>3, <1>4 DEF StartKnown, Poll
<1>5. ASSUME ClaimReplay(w)
      PROVE  Backed'
  BY <1>1, <1>3, <1>5 DEF ClaimReplay, TypeInv, TasksNamed
<1>6. ASSUME NEW k \in Keys, NEW y \in Years, StartNew(w, k, y)
      PROVE  Backed'
  <2> DEFINE t == [Idle EXCEPT !.pc = "claim", !.key = k, !.year = y]
  <2>1. t \in Task /\ t.pc = "claim"
    BY <1>2, IdleType DEF Task, Idle
  <2>2. tasks' = [tasks EXCEPT ![w] = t]
    BY <1>6 DEF StartNew
  <2> HIDE DEF t
  <2>3. QED
    BY <1>1, <1>6, <2>1, <2>2, HandlerStepBacked DEF StartNew
<1>7. ASSUME ClaimCommit(w)
      PROVE  Backed'
  <2> DEFINE k == tasks[w].key
             y == tasks[w].year
             row == ClaimedRow(y)
  <2>1. k \in Keys /\ y \in Years /\ row \in Row
    BY <1>1, <1>7, RowTypes DEF ClaimCommit, TypeInv, TasksNamed
  <2>2. purchases' = [purchases EXCEPT ![k] = row] /\ vipps' = vipps
    BY <1>7 DEF ClaimCommit
  <2>3. tasks' = [tasks EXCEPT ![w] = Observing(k, row, TRUE)]
    BY <1>7 DEF ClaimCommit
  <2>4. /\ RowSane(row)
        /\ \A account \in Account : Covered(row, account) /\ StatusBacked(row, account)
    BY GrossAssumption DEF ClaimedRow, RowSane, PurchaseChecks, Covered, StatusBacked, Account, Money
  <2>5. /\ tasks'[w].pc = "execute"
        /\ tasks'[w].key = k
        /\ tasks'[w].seen = row
    BY <1>1, <2>3 DEF Observing, ClaimedRow, TerminalStatus, TypeInv, TypeOK
  <2>6. \A v \in Workers : v # w => tasks'[v] = tasks[v]
    BY <2>3
  <2> HIDE DEF k, y, row
  <2>7. \A j \in Keys : PurchaseBacked(j)'
    BY <1>1, <2>1, <2>2, <2>4 DEF Backed, PurchaseBacked, TypeInv, TypeOK
  <2>8. \A v \in Workers : HandlerBacked(v)'
    BY <1>1, <2>1, <2>2, <2>4, <2>5, <2>6 DEF Backed, HandlerBacked, Asking, TypeInv, TypeOK
  <2>9. QED
    BY <2>7, <2>8 DEF Backed, PurchaseBacked, HandlerBacked
<1>8. ASSUME SendCreate(w)
      PROVE  Backed'
  <2> DEFINE t == [tasks[w] EXCEPT !.pc = "await"]
  <2>1. tasks[w] \in Task
    BY <1>1 DEF TypeInv, TypeOK
  <2>2. t \in Task /\ t.pc = "await" /\ t.seen = tasks[w].seen /\ t.key = tasks[w].key
    BY <2>1 DEF Task
  <2>3. tasks' = [tasks EXCEPT ![w] = t]
    BY <1>1, <1>8 DEF SendCreate, TypeInv, TypeOK, Task
  <2>4. Covered(tasks[w].seen, vipps[tasks[w].key])
    BY <1>1, <1>8 DEF SendCreate, Backed, Asking
  <2> HIDE DEF t
  <2>5. QED
    BY <1>1, <1>8, <2>2, <2>3, <2>4, HandlerStepBacked DEF SendCreate
<1>9. ASSUME CreateReply(w) \/ Reconcile(w) \/ NoAnswer(w)
      PROVE  Backed'
  <2>1. PICK obs \in Observation :
             tasks' = Answered(w, obs) /\ ObservationBacked(obs, vipps[tasks[w].key])
    BY <1>9, AnswerBacked
  <2> DEFINE t == [tasks[w] EXCEPT !.pc = "settle", !.seen = NoRow, !.obs = obs]
  <2>2. tasks' = [tasks EXCEPT ![w] = t]
    BY <1>1, <2>1 DEF Answered, TypeInv, TypeOK, Task
  <2>3. t \in Task /\ t.pc = "settle" /\ t.key = tasks[w].key /\ t.obs = obs
    BY <1>1, RowTypes DEF TypeInv, TypeOK, Task
  <2>4. UNCHANGED <<purchases, vipps>>
    BY <1>9 DEF CreateReply, Reconcile, NoAnswer
  <2> HIDE DEF t
  <2>5. QED
    BY <1>1, <2>1, <2>2, <2>3, <2>4, HandlerStepBacked
<1>10. ASSUME SettleCheckout(w)
       PROVE  Backed'
  <2> DEFINE k == tasks[w].key
             row == Settle(purchases[k], tasks[w].obs)
  <2>1. k \in Keys /\ purchases[k].status # "none"
    BY <1>1, <1>10 DEF SettleCheckout, TypeInv, TasksNamed, Conduct, Engaged
  <2>2. purchases[k] \in Row /\ tasks[w].obs \in Observation /\ vipps[k] \in Account
    BY <1>1, <2>1 DEF TypeInv, TypeOK, Task
  <2>3. PurchaseBacked(k) /\ ObservationBacked(tasks[w].obs, vipps[k])
    BY <1>1, <1>10, <2>1 DEF SettleCheckout, Backed, PurchaseBacked
  <2>4. RowSane(row) /\ Covered(row, vipps[k]) /\ StatusBacked(row, vipps[k])
    BY <2>1, <2>2, <2>3, SettleBacked DEF PurchaseBacked
  <2>5. purchases' = [purchases EXCEPT ![k] = row] /\ vipps' = vipps
    BY <1>10 DEF SettleCheckout
  <2>6. tasks' = [tasks EXCEPT ![w] = Idle]
    BY <1>10 DEF SettleCheckout
  <2> HIDE DEF k, row
  <2>7. \A j \in Keys : PurchaseBacked(j)'
    BY <1>1, <2>1, <2>4, <2>5 DEF Backed, PurchaseBacked, TypeInv, TypeOK
  <2>8. \A v \in Workers : HandlerBacked(v)'
    BY <1>1, <1>2, <2>5, <2>6 DEF Backed, HandlerBacked, Asking, TypeInv, TypeOK
  <2>9. QED
    BY <2>7, <2>8 DEF Backed, PurchaseBacked, HandlerBacked
<1>11. ASSUME Abandon(w)
       PROVE  Backed'
  <2>1. Idle \in Task
    BY IdleType
  <2>2. QED
    BY <1>1, <1>2, <1>11, <2>1, HandlerStepBacked DEF Abandon
<1>12. QED
  BY <1>4, <1>5, <1>6, <1>7, <1>8, <1>9, <1>10, <1>11 DEF WorkerStep

\* One step of the provider only makes its account more definite.
LEMMA ProviderStepGrows ==
    ASSUME IInv, NEW k \in Keys, ProviderStep(k)
    PROVE  /\ UNCHANGED <<purchases, withdrawn, tasks, posts>>
           /\ \A j \in Keys : Grows(vipps[j], vipps'[j]) /\ AccountSane(vipps'[j])
<1>1. UNCHANGED <<purchases, withdrawn, tasks, posts>>
  BY DEF ProviderStep, ProviderCreate, ProviderApprove, ProviderExpire, ProviderCapture,
         ProviderComplete, ProviderClose
<1>2. \A j \in Keys : vipps[j] \in Account /\ AccountSane(vipps[j])
  BY DEF IInv, TypeInv, TypeOK, Backed
<1>3. vipps \in [Keys -> Account]
  BY DEF IInv, TypeInv, TypeOK
<1> DEFINE Goal == \A j \in Keys : Grows(vipps[j], vipps'[j]) /\ AccountSane(vipps'[j])
<1>4. CASE ProviderCreate(k)
  BY <1>2, <1>3, <1>4, GrossAssumption DEF ProviderCreate, Grows, AccountSane, Account, Money
<1>5. CASE ProviderApprove(k)
  BY <1>2, <1>3, <1>5, GrossAssumption DEF ProviderApprove, Grows, AccountSane, Account, Money
<1>6. CASE ProviderExpire(k)
  BY <1>2, <1>3, <1>6, GrossAssumption DEF ProviderExpire, Grows, AccountSane, Account, Money
<1>7. ASSUME NEW amount \in 1 .. Gross, ProviderCapture(k, amount)
      PROVE  Goal
  BY <1>2, <1>3, <1>7, GrossAssumption DEF ProviderCapture, Grows, AccountSane, Account, Money
<1>8. CASE ProviderComplete(k)
  BY <1>2, <1>3, <1>8, GrossAssumption DEF ProviderComplete, Grows, AccountSane, Account, Money
<1>9. CASE ProviderClose(k)
  BY <1>2, <1>3, <1>9, GrossAssumption DEF ProviderClose, Grows, AccountSane, Account, Money
<1>10. QED
  BY <1>1, <1>4, <1>5, <1>6, <1>7, <1>8, <1>9 DEF ProviderStep

\* Backing is kept by every step.
LEMMA StepBacked == IInv /\ TypeInv' /\ [CheckoutNext]_checkoutVars => Backed'
<1> SUFFICES ASSUME IInv, TypeInv', [CheckoutNext]_checkoutVars
             PROVE  Backed'
  OBVIOUS
<1>1. ASSUME NEW w \in Workers, WorkerStep(w)
      PROVE  Backed'
  BY <1>1, WorkerBacked
<1>2. CASE UNCHANGED <<purchases, tasks, vipps>>
  BY <1>2 DEF IInv, Backed, Asking
<1>3. ASSUME NEW k \in Keys, ProviderStep(k)
      PROVE  Backed'
  <2>1. UNCHANGED <<purchases, tasks>>
    BY <1>3, ProviderStepGrows
  <2>2. \A j \in Keys : Grows(vipps[j], vipps'[j]) /\ AccountSane(vipps'[j])
    BY <1>3, ProviderStepGrows
  <2>3. \A j \in Keys : vipps[j] \in Account /\ vipps'[j] \in Account /\ purchases[j] \in Row
    BY DEF IInv, TypeInv, TypeOK
  <2>4. \A w \in Workers : tasks[w].seen \in Row /\ tasks[w].obs \in Observation
    BY DEF IInv, TypeInv, TypeOK, Task
  <2>5. \A j \in Keys : PurchaseBacked(j)'
    BY <2>1, <2>2, <2>3, BackedGrows DEF IInv, Backed, PurchaseBacked
  <2>6. \A w \in Workers : HandlerBacked(w)'
    <3> TAKE w \in Workers
    <3>1. HandlerBacked(w)
      BY DEF IInv, Backed, HandlerBacked
    <3>2. Asking(w) \/ tasks[w].pc = "settle" => tasks[w].key \in Keys
      BY DEF IInv, TypeInv, TasksNamed, Asking
    <3>3. QED
      BY <2>1, <2>2, <2>3, <2>4, <3>1, <3>2, BackedGrows DEF HandlerBacked, Asking
  <2>7. QED
    BY <2>5, <2>6 DEF Backed, PurchaseBacked, HandlerBacked
<1>4. QED
  BY <1>1, <1>2, <1>3 DEF CheckoutNext, checkoutVars, Withdraw

-----------------------------------------------------------------------------
(* One purchase per company-year. *)

\* Only a claim starts to occupy a company-year, and it is refused for one that is
\* occupied.
LEMMA StepOneOccupies == IInv /\ [CheckoutNext]_checkoutVars => OneOccupies'
<1> SUFFICES ASSUME IInv, [CheckoutNext]_checkoutVars
             PROVE  OneOccupies'
  OBVIOUS
<1>1. purchases \in [Keys -> Row] /\ OneOccupies
  BY DEF IInv, TypeInv, TypeOK
<1>2. CASE UNCHANGED purchases
  BY <1>1, <1>2 DEF OneOccupies
<1>3. ASSUME NEW w \in Workers, ClaimCommit(w)
      PROVE  OneOccupies'
  <2> DEFINE k == tasks[w].key
             y == tasks[w].year
  <2>1. k \in Keys
    BY <1>3 DEF IInv, TypeInv, TasksNamed, ClaimCommit
  <2>2. \A j \in Keys : purchases[j].year = y => purchases[j].status \notin OccupyingStatus
    BY <1>3 DEF ClaimCommit, Occupied
  <2>3. purchases' = [purchases EXCEPT ![k] = ClaimedRow(y)]
    BY <1>3 DEF ClaimCommit
  <2>4. ClaimedRow(y).year = y
    BY DEF ClaimedRow
  <2> HIDE DEF k, y
  <2>5. QED
    BY <1>1, <2>1, <2>2, <2>3, <2>4 DEF OneOccupies
<1>4. ASSUME NEW w \in Workers, SettleCheckout(w)
      PROVE  OneOccupies'
  <2> DEFINE k == tasks[w].key
             row == Settle(purchases[k], tasks[w].obs)
  <2>1. k \in Keys /\ purchases[k].status # "none"
    BY <1>4 DEF SettleCheckout, IInv, TypeInv, TasksNamed, Conduct, Engaged
  <2>2. purchases[k] \in Row /\ tasks[w].obs \in Observation
    BY <1>1, <2>1 DEF IInv, TypeInv, TypeOK, Task
  <2>3. row.year = purchases[k].year
    BY <2>2, SettleKeepsPurchase
  <2>4. row.status \in OccupyingStatus => purchases[k].status \in OccupyingStatus
    BY <2>1, <2>2, SettleKeepsPurchase
  <2>5. purchases' = [purchases EXCEPT ![k] = row]
    BY <1>4 DEF SettleCheckout
  <2> HIDE DEF k, row
  <2>6. QED
    BY <1>1, <2>1, <2>3, <2>4, <2>5 DEF OneOccupies
<1>5. QED
  BY <1>2, <1>3, <1>4
     DEF CheckoutNext, WorkerStep, StartKnown, StartNew, Poll, ClaimReplay, SendCreate,
         CreateReply, Reconcile, NoAnswer, Abandon, Withdraw, ProviderStep, ProviderCreate,
         ProviderApprove, ProviderExpire, ProviderCapture, ProviderComplete, ProviderClose,
         checkoutVars

-----------------------------------------------------------------------------
(* The theorems. *)

\* The invariant holds initially.
LEMMA InitInvariant == CheckoutInit => IInv
<1> SUFFICES ASSUME CheckoutInit
             PROVE  IInv
  OBVIOUS
<1>1. TypeInv
  BY InitTyped
<1>2. Conduct
  BY DEF CheckoutInit, Conduct, Engaged, Idle, NoRow, NoAccount
<1>3. Backed
  BY GrossAssumption
     DEF CheckoutInit, Backed, Asking, Idle, NoRow, NoAccount, AccountSane, RowSane,
         PurchaseChecks, Covered, StatusBacked
<1>4. OneOccupies
  BY DEF CheckoutInit, OneOccupies, OccupyingStatus, NoRow
<1>5. QED
  BY <1>1, <1>2, <1>3, <1>4 DEF IInv

\* Every step keeps the invariant.
LEMMA StepInvariant == IInv /\ [CheckoutNext]_checkoutVars => IInv'
<1> SUFFICES ASSUME IInv, [CheckoutNext]_checkoutVars
             PROVE  IInv'
  OBVIOUS
<1>1. TypeInv'
  BY StepTyped DEF IInv
<1>2. QED
  BY <1>1, StepConduct, StepBacked, StepOneOccupies DEF IInv

\* The invariant holds in every behaviour of the checkout.
THEOREM Invariance == CheckoutSpec => []IInv
BY InitInvariant, StepInvariant, PTL DEF CheckoutSpec

\* However requests race, repeat, crash or lose their answers, the agreement of a
\* purchase is created by one POST only: only the handler that committed the claim
\* executes, and it does so once.
THEOREM AgreementCreatedOnce == CheckoutSpec => []ExecutedOnce
<1>1. IInv => ExecutedOnce
  BY DEF IInv, Conduct, ExecutedOnce
<1>2. QED
  BY Invariance, <1>1, PTL

\* A request whose withdrawal was receipted is never bought, whatever claim of the
\* same key raced it: receipt and purchase exclude each other in the database, and
\* without a purchase nothing is sent.
THEOREM WithdrawalIsFinal == CheckoutSpec => []WithdrawnNeverBought
<1>1. IInv => WithdrawnNeverBought
  <2> SUFFICES ASSUME IInv, NEW k \in Keys, withdrawn[k] # NoYear
               PROVE  /\ purchases[k].status = "none"
                      /\ posts[k] = 0
                      /\ vipps[k].agreement = "absent"
    BY DEF WithdrawnNeverBought
  <2>1. purchases[k].status = "none" /\ posts[k] = 0
    BY DEF IInv, Conduct
  <2>2. ~(posts[k] > 0)
    BY <2>1
  <2>3. QED
    BY <2>1, <2>2 DEF IInv, Conduct
<1>2. QED
  BY Invariance, <1>1, PTL

\* Nothing is recorded that the provider does not hold, although what is settled may
\* have been read long before.
THEOREM LedgerNeverAhead == CheckoutSpec => []LedgerFollowsProvider
<1>1. IInv => LedgerFollowsProvider
  BY DEF IInv, Backed, Covered, StatusBacked, LedgerFollowsProvider
<1>2. QED
  BY Invariance, <1>1, PTL

\* The table's CHECK constraints never abort a settlement.
THEOREM ChecksHold == CheckoutSpec => []ChecksNeverFire
<1>1. IInv => ChecksNeverFire
  BY DEF IInv, Backed, RowSane, ChecksNeverFire
<1>2. QED
  BY Invariance, <1>1, PTL

\* Of two purchases for one company-year, one does not occupy it any more, and what
\* does not occupy it has a charge that is dead or was paid back.
LEMMA PaidOnce == IInv => OneLivePayment
<1> SUFFICES ASSUME IInv, NEW j \in Keys, NEW k \in Keys,
                    j # k, purchases[j].year = purchases[k].year,
                    Collectable(j), Collectable(k)
             PROVE  FALSE
  BY DEF OneLivePayment
<1>1. \A i \in Keys : Collectable(i) => purchases[i].status \in OccupyingStatus
  <2> SUFFICES ASSUME NEW i \in Keys, Collectable(i)
               PROVE  purchases[i].status \in OccupyingStatus
    OBVIOUS
  <2>1. purchases[i] \in Row /\ StatusBacked(purchases[i], vipps[i])
    BY DEF IInv, TypeInv, TypeOK, Backed
  <2>2. vipps[i] \in Account
    BY DEF IInv, TypeInv, TypeOK
  <2>3. purchases[i].status \in {"pending", "paid", "failed", "refunded"}
    BY <2>1 DEF Collectable, Row, PurchaseStatus
  <2>4. QED
    BY <2>1, <2>2, <2>3, GrossAssumption
       DEF StatusBacked, Collectable, OccupyingStatus, Account, Money
<1>2. QED
  BY <1>1 DEF IInv, OneOccupies

\* A company-year is never paid for twice: of two purchases made for it, one has
\* failed or was refunded, and then its charge is dead or paid back.
THEOREM NeverPaidTwice == CheckoutSpec => []OneLivePayment
BY Invariance, PaidOnce, PTL

-----------------------------------------------------------------------------
(* The ledger beside others: refunds and the observer write to the same rows.    *)

\* A row may change outside the checkout as far as it stays sane and backed and
\* occupies no company-year anew.
LEMMA RowKeeps ==
    ASSUME IInv, NEW k \in Keys, NEW row \in Row,
           purchases' = [purchases EXCEPT ![k] = row],
           row.year = purchases[k].year,
           purchases[k].status # "none", row.status # "none",
           row.status \in OccupyingStatus => purchases[k].status \in OccupyingStatus,
           RowSane(row), Covered(row, vipps[k]), StatusBacked(row, vipps[k]),
           UNCHANGED <<withdrawn, tasks, posts, vipps>>
    PROVE  IInv'
<1>1. purchases \in [Keys -> Row]
  BY DEF IInv, TypeInv, TypeOK
<1>2. \A j \in Keys : purchases'[j] = IF j = k THEN row ELSE purchases[j]
  BY <1>1
<1>3. TypeInv'
  BY <1>1 DEF IInv, TypeInv, TypeOK, TasksNamed
<1>4. Conduct'
  <2>1. \A j \in Keys : purchases'[j].status = "none" <=> purchases[j].status = "none"
    BY <1>2
  <2>2. \A w \in Workers : Engaged(w) => tasks[w].key \in Keys
    BY DEF IInv, TypeInv, TasksNamed, Engaged
  <2>3. QED
    BY <2>1, <2>2 DEF IInv, Conduct, Engaged
<1>5. Backed'
  <2>1. \A j \in Keys : PurchaseBacked(j)'
    BY <1>2 DEF IInv, Backed, PurchaseBacked
  <2>2. QED
    BY <2>1 DEF IInv, Backed, PurchaseBacked, Asking
<1>6. OneOccupies'
  BY <1>2 DEF IInv, OneOccupies
<1>7. QED
  BY <1>3, <1>4, <1>5, <1>6 DEF IInv

-----------------------------------------------------------------------------
(* What a step may never do, and the promise. *)

\* A settlement by itself respects the immutable evidence.
LEMMA SettleKeepsEvidence ==
    ASSUME NEW row \in Row, NEW obs \in Observation, row.status # "none", RowSane(row)
    PROVE  EvidenceGuard(row, Settle(row, obs))
<1>1. CASE Settle(row, obs) = row
  BY <1>1 DEF EvidenceGuard, Row, Money
<1> DEFINE new == Settle(row, obs)
<1>2. CASE /\ row.status \notin TerminalStatus
           /\ ~Obsolete(row, obs)
           /\ new.year = row.year
           /\ new.canceled = row.canceled
           /\ new.agreement = obs.agreement
           /\ new.captured = obs.captured
           /\ new.refunded = obs.refunded
  <2> HIDE DEF new
  <2>1. row.status = "pending"
    BY <1>2 DEF Row, TerminalStatus, PurchaseStatus
  <2>2. row.op \in {"created", "pending", "unknown"}
    BY <2>1 DEF RowSane
  <2>3. new.captured >= row.captured /\ new.refunded >= row.refunded
    BY <1>2, GrossAssumption DEF Obsolete, RowSane, Row, Observation, Money
  <2>4. row.agreement => new.agreement
    BY <1>2 DEF Obsolete, RowSane, Row, Observation
  <2>5. QED
    BY <1>2, <2>1, <2>2, <2>3, <2>4 DEF EvidenceGuard, new
<1>3. QED
  BY <1>1, <1>2, SettleCases

\* Purchases change by settlement only, once they exist.
LEMMA PurchaseSteps ==
    ASSUME IInv, [CheckoutNext]_checkoutVars
    PROVE  \/ UNCHANGED <<purchases, withdrawn>>
           \/ \E k \in Keys, y \in Years : Withdraw(k, y)
           \/ \E w \in Workers : ClaimCommit(w)
           \/ \E w \in Workers : SettleCheckout(w)
BY DEF CheckoutNext, WorkerStep, StartKnown, StartNew, Poll, ClaimReplay, SendCreate,
       CreateReply, Reconcile, NoAnswer, Abandon, ProviderStep, ProviderCreate,
       ProviderApprove, ProviderExpire, ProviderCapture, ProviderComplete, ProviderClose,
       checkoutVars

\* No step of the checkout rewrites evidence: late and reordered reads leave money,
\* references and final statuses alone by themselves.
LEMMA EvidenceStep ==
    ASSUME IInv, [CheckoutNext]_checkoutVars,
           NEW k \in Keys, purchases[k].status # "none"
    PROVE  EvidenceGuard(purchases[k], purchases'[k])
<1>1. purchases[k] \in Row /\ RowSane(purchases[k]) /\ purchases \in [Keys -> Row]
  BY DEF IInv, TypeInv, TypeOK, Backed
<1>2. CASE purchases'[k] = purchases[k]
  BY <1>1, <1>2 DEF EvidenceGuard, Row, Money
<1>3. ASSUME NEW w \in Workers, ClaimCommit(w)
      PROVE  purchases'[k] = purchases[k]
  BY <1>1, <1>3 DEF ClaimCommit
<1>4. ASSUME NEW w \in Workers, SettleCheckout(w), tasks[w].key = k
      PROVE  EvidenceGuard(purchases[k], purchases'[k])
  <2>1. purchases'[k] = Settle(purchases[k], tasks[w].obs)
    BY <1>1, <1>4 DEF SettleCheckout
  <2>2. tasks[w].obs \in Observation
    BY DEF IInv, TypeInv, TypeOK, Task
  <2>3. QED
    BY <1>1, <2>1, <2>2, SettleKeepsEvidence
<1>5. ASSUME NEW w \in Workers, SettleCheckout(w), tasks[w].key # k
      PROVE  purchases'[k] = purchases[k]
  BY <1>1, <1>5 DEF SettleCheckout
<1>6. QED
  BY <1>2, <1>3, <1>4, <1>5, PurchaseSteps DEF Withdraw

\* The immutable-evidence trigger never aborts a settlement.
THEOREM EvidenceStands == CheckoutSpec => EvidenceNeverRewritten
<1>1. IInv /\ [CheckoutNext]_checkoutVars =>
          \A k \in Keys : purchases[k].status # "none" => EvidenceGuard(purchases[k], purchases'[k])
  BY EvidenceStep
<1>2. QED
  BY Invariance, <1>1, PTL DEF CheckoutSpec, EvidenceNeverRewritten

\* A settlement resolves a pending purchase or is not visible in the promise.
LEMMA SettlementPromised ==
    ASSUME IInv, NEW k \in Keys, NEW obs \in Observation, purchases[k].status # "none",
           purchases' = [purchases EXCEPT ![k] = Settle(purchases[k], obs)], withdrawn' = withdrawn
    PROVE  [Promise!Next]_(Promise!vars)
<1> USE DEF Promise!vars
<1> DEFINE row == Settle(purchases[k], obs)
<1>1. /\ purchases \in [Keys -> Row] /\ purchases[k] \in Row
      /\ withdrawn \in [Keys -> Years \cup {NoYear}]
  BY DEF IInv, TypeInv, TypeOK
<1>2. row.year = purchases[k].year
  BY <1>1, SettleKeepsPurchase
<1>3. \/ row = purchases[k]
      \/ /\ purchases[k].status = "pending"
         /\ row.status \in {"pending", "paid", "failed", "refunded"}
  BY <1>1, SettleCases, OutcomeCases DEF Row, TerminalStatus, PurchaseStatus
<1>4. purchases' = [purchases EXCEPT ![k] = row]
  OBVIOUS
<1> HIDE DEF row
<1>5. CASE row.status = purchases[k].status
  BY <1>1, <1>2, <1>4, <1>5
<1>6. CASE row.status # purchases[k].status
  <2>1. PICK status \in {"paid", "failed", "refunded"} : status = row.status
    BY <1>3, <1>6
  <2>2. withdrawn[k] = NoYear
    BY DEF IInv, Conduct
  <2>3. Promise!Resolve(k, status)
    BY <1>1, <1>2, <1>3, <1>4, <1>6, <2>1, <2>2 DEF Promise!Resolve
  <2>4. QED
    BY <2>3 DEF Promise!Next
<1>7. QED
  BY <1>5, <1>6

\* Every step is one of the promise, or not visible in it: a withdrawal receipt is
\* its Withdraw, the commit of a claim its Buy, a settlement its Resolve or nothing,
\* and everything that happens at or on the way to the provider is not visible.
LEMMA PromiseStep ==
    ASSUME IInv, [CheckoutNext]_checkoutVars
    PROVE  [Promise!Next]_(Promise!vars)
<1> USE DEF Promise!vars
<1>1. /\ purchases \in [Keys -> Row]
      /\ withdrawn \in [Keys -> Years \cup {NoYear}]
  BY DEF IInv, TypeInv, TypeOK
<1>2. CASE UNCHANGED <<purchases, withdrawn>>
  BY <1>2
<1>3. ASSUME NEW k \in Keys, NEW y \in Years, Withdraw(k, y)
      PROVE  Promise!Next
  <2>1. Promise!Withdraw(k)
    BY <1>1, <1>3, NoYearAssumption DEF Withdraw, Promise!Withdraw
  <2>2. QED
    BY <2>1 DEF Promise!Next
<1>4. ASSUME NEW w \in Workers, ClaimCommit(w)
      PROVE  Promise!Next
  <2>1. PICK k \in Keys, y \in Years : k = tasks[w].key /\ y = tasks[w].year
    BY <1>4 DEF IInv, TypeInv, TasksNamed, ClaimCommit
  <2>2. /\ purchases[k].status = "none" /\ withdrawn[k] = NoYear /\ ~Occupied(y)
        /\ purchases' = [purchases EXCEPT ![k] = ClaimedRow(y)]
        /\ withdrawn' = withdrawn
    BY <1>4, <2>1 DEF ClaimCommit
  <2>3. ClaimedRow(y).year = y /\ ClaimedRow(y).status = "pending"
    BY DEF ClaimedRow
  <2>4. ~Promise!Occupying(y)
    BY <2>2 DEF Occupied, OccupyingStatus, Promise!Occupying
  <2>5. Promise!Buy(k, y)
    BY <1>1, <2>2, <2>3, <2>4 DEF Promise!Buy
  <2>6. QED
    BY <2>5 DEF Promise!Next
<1>5. ASSUME NEW w \in Workers, SettleCheckout(w)
      PROVE  [Promise!Next]_(Promise!vars)
  <2>1. PICK k \in Keys : k = tasks[w].key
    BY <1>5 DEF SettleCheckout, IInv, TypeInv, TasksNamed
  <2>2. purchases[k].status # "none"
    BY <1>5, <2>1 DEF SettleCheckout, IInv, Conduct, Engaged
  <2>3. tasks[w].obs \in Observation
    BY DEF IInv, TypeInv, TypeOK, Task
  <2>4. /\ purchases' = [purchases EXCEPT ![k] = Settle(purchases[k], tasks[w].obs)]
        /\ withdrawn' = withdrawn
    BY <1>1, <1>5, <2>1 DEF SettleCheckout
  <2>5. QED
    BY <2>2, <2>3, <2>4, SettlementPromised
<1>6. QED
  BY <1>2, <1>3, <1>4, <1>5, PurchaseSteps

\* The checkout implements the promise.
THEOREM CheckoutKeepsPromise == CheckoutSpec => KeepsPromise
<1>1. CheckoutInit => Promise!Init
  BY DEF CheckoutInit, Promise!Init, NoRow
<1>2. QED
  BY Invariance, <1>1, PromiseStep, PTL DEF CheckoutSpec, KeepsPromise, Promise!Spec

-----------------------------------------------------------------------------
(* The one-pass observer beside the checkout.  The inductive invariant. *)

\* A pass under way works on a purchase and carries a token; no other does.
PassesNamed ==
    \A o \in Observers :
        /\ passes[o].pc = "idle" => passes[o].token = NoToken
        /\ passes[o].pc # "idle" =>
              /\ passes[o].key \in Keys /\ passes[o].token \in Tokens
              /\ purchases[passes[o].key].status # "none"

\* A token is carried by one pass, and leased, if at all, for the key it was drawn for.
TokensOwned ==
    /\ \A o, p \in Observers :
          passes[o].token # NoToken /\ passes[o].token = passes[p].token => o = p
    /\ \A o \in Observers, k \in Keys :
          passes[o].token # NoToken /\ work[k].token = passes[o].token => k = passes[o].key

\* Work is done only for a purchase that is finished.
WorkFinished == \A k \in Keys : work[k].done => purchases[k].status \in TerminalStatus

\* What a pass may know of the provider.
PassBacked(pass) ==
    /\ pass.pc \in {"claimed", "reading"} /\ pass.agreement =>
          vipps[pass.key].agreement # "absent"
    /\ pass.pc = "settling" => ObservationBacked(pass.obs, vipps[pass.key])

PassesBacked == \A o \in Observers : PassBacked(passes[o])

\* The observer's invariant.
OInv ==
    /\ IInv /\ ObserverTypeOK /\ PassesNamed
    /\ TokensOwned /\ WorkFinished /\ PassesBacked

\* The variables' types, as facts the provers can use one by one.
LEMMA ObserverFacts ==
    ASSUME OInv
    PROVE  /\ purchases \in [Keys -> Row] /\ vipps \in [Keys -> Account]
           /\ passes \in [Observers -> Pass] /\ work \in [Keys -> Work]
           /\ enabled \in BOOLEAN /\ accepted \in Seq(Keys)
BY DEF OInv, ObserverTypeOK, TypeOK

\* No pass, and what an observation without money says.
LEMMA NoPassType ==
    /\ NoPass \in Pass
    /\ NoPass.pc = "idle" /\ NoPass.token = NoToken
    /\ NoObservation \in Observation
    /\ NoObservation.status = "unknown" /\ NoObservation.captured = 0
    /\ NoObservation.refunded = 0 /\ ~NoObservation.agreement
<1>1. /\ NoObservation \in Observation
      /\ NoObservation.status = "unknown" /\ NoObservation.captured = 0
      /\ NoObservation.refunded = 0 /\ ~NoObservation.agreement
  BY RowTypes, UnknownType DEF NoObservation, UnknownObservation, NoRow
<1>2. QED
  BY <1>1 DEF NoPass, Pass

\* The initial state.
LEMMA ObserverInitially == ObserverInit => OInv
<1> SUFFICES ASSUME ObserverInit
             PROVE  OInv
  OBVIOUS
<1>1. IInv
  BY InitInvariant DEF ObserverInit
<1>2. \A o \in Observers : passes[o] = NoPass
  BY DEF ObserverInit
<1>3. ObserverTypeOK
  <2>1. NewWork \in Work
    BY DEF NewWork, Work
  <2>2. << >> \in Seq(Keys)
    OBVIOUS
  <2>3. QED
    BY <1>1, <2>1, <2>2, NoPassType DEF ObserverInit, ObserverTypeOK, IInv, TypeInv
<1>4. PassesNamed /\ TokensOwned /\ PassesBacked
  BY <1>2, NoPassType DEF PassesNamed, TokensOwned, PassesBacked, PassBacked
<1>5. WorkFinished
  BY DEF WorkFinished, ObserverInit, NewWork
<1>6. QED
  BY <1>1, <1>3, <1>4, <1>5 DEF OInv

-----------------------------------------------------------------------------
(* The owners' requests and the provider beside the observer. *)

\* A checkout step only makes the provider's accounts more definite, takes no
\* purchase away and does not reopen a finished one.
LEMMA CheckoutMoves ==
    ASSUME IInv, [CheckoutNext]_checkoutVars
    PROVE  /\ \A k \in Keys : Grows(vipps[k], vipps'[k])
           /\ \A k \in Keys : purchases[k].status # "none" => purchases'[k].status # "none"
           /\ \A k \in Keys : purchases[k].status \in TerminalStatus =>
                                  purchases'[k].status \in TerminalStatus
<1>1. purchases \in [Keys -> Row] /\ vipps \in [Keys -> Account]
  BY DEF IInv, TypeInv, TypeOK
<1> DEFINE Stands(k) ==
               /\ purchases[k].status # "none" => purchases'[k].status # "none"
               /\ purchases[k].status \in TerminalStatus =>
                      purchases'[k].status \in TerminalStatus
<1>2. ASSUME NEW w \in Workers, ClaimCommit(w)
      PROVE  \A k \in Keys : Stands(k)
  <2>1. PICK k \in Keys : k = tasks[w].key
    BY <1>2 DEF IInv, TypeInv, TasksNamed, ClaimCommit
  <2>2. purchases[k].status = "none" /\ \A j \in Keys : j # k => purchases'[j] = purchases[j]
    BY <1>1, <1>2, <2>1 DEF ClaimCommit
  <2>3. QED
    BY <2>2 DEF TerminalStatus
<1>3. ASSUME NEW w \in Workers, SettleCheckout(w)
      PROVE  \A k \in Keys : Stands(k)
  <2>1. PICK k \in Keys : k = tasks[w].key
    BY <1>3 DEF IInv, TypeInv, TasksNamed, SettleCheckout
  <2>2. tasks[w].obs \in Observation /\ purchases[k] \in Row
    BY <1>1 DEF IInv, TypeInv, TypeOK, Task
  <2>3. purchases' = [purchases EXCEPT ![k] = Settle(purchases[k], tasks[w].obs)]
    BY <1>3, <2>1 DEF SettleCheckout
  <2>4. purchases[k].status \in TerminalStatus =>
            Settle(purchases[k], tasks[w].obs) = purchases[k]
    BY DEF Settle
  <2>5. QED
    BY <1>1, <2>2, <2>3, <2>4, SettleKeepsPurchase
<1>4. \A k \in Keys : Stands(k)
  BY <1>2, <1>3, PurchaseSteps DEF Withdraw
<1>5. \A k \in Keys : Grows(vipps[k], vipps'[k])
  <2>1. CASE UNCHANGED vipps
    BY <1>1, <2>1, GrossAssumption DEF Grows, Account, Money
  <2>2. ASSUME NEW k \in Keys, ProviderStep(k)
        PROVE  \A j \in Keys : Grows(vipps[j], vipps'[j])
    BY <2>2, ProviderStepGrows
  <2>3. ASSUME NEW w \in Workers, WorkerStep(w)
        PROVE  UNCHANGED vipps
    BY <2>3 DEF WorkerStep, StartKnown, StartNew, Poll, ClaimReplay, ClaimCommit, SendCreate,
           CreateReply, Reconcile, NoAnswer, SettleCheckout, Abandon
  <2>4. QED
    BY <2>1, <2>2, <2>3 DEF CheckoutNext, Withdraw, checkoutVars
<1>6. QED
  BY <1>4, <1>5

\* A step of the checkout keeps what the observer relies on.
LEMMA CheckoutBeside ==
    ASSUME OInv, [CheckoutNext]_checkoutVars, UNCHANGED observerOnly, accepted' \in Seq(Keys)
    PROVE  OInv'
<1>1. IInv /\ IInv'
  BY StepInvariant DEF OInv
<1>2. UNCHANGED <<passes, work, enabled>>
  BY DEF observerOnly
<1>3. ObserverTypeOK'
  BY <1>1, <1>2 DEF OInv, ObserverTypeOK, IInv, TypeInv
<1>4. PassesNamed'
  BY <1>1, <1>2, CheckoutMoves DEF OInv, PassesNamed
<1>5. TokensOwned'
  BY <1>2 DEF OInv, TokensOwned
<1>6. WorkFinished'
  BY <1>1, <1>2, CheckoutMoves DEF OInv, WorkFinished
<1>7. PassesBacked'
  <2> SUFFICES ASSUME NEW o \in Observers
               PROVE  PassBacked(passes[o])'
    BY DEF PassesBacked
  <2>1. PassBacked(passes[o]) /\ passes[o].obs \in Observation
    BY ObserverFacts DEF OInv, PassesBacked, Pass
  <2>2. CASE passes[o].pc = "idle"
    BY <1>2, <2>2 DEF PassBacked
  <2>3. CASE passes[o].pc # "idle"
    <3>1. PICK k \in Keys : k = passes[o].key
      BY <2>3 DEF OInv, PassesNamed
    <3>2. vipps[k] \in Account /\ vipps'[k] \in Account /\ Grows(vipps[k], vipps'[k])
      BY <1>1, CheckoutMoves DEF IInv, TypeInv, TypeOK
    <3>3. vipps[k].agreement # "absent" => vipps'[k].agreement # "absent"
      BY <3>2 DEF Grows
    <3>4. ObservationBacked(passes[o].obs, vipps[k]) => ObservationBacked(passes[o].obs, vipps'[k])
      BY <2>1, <3>2, BackedGrows
    <3>5. QED
      BY <1>2, <2>1, <3>1, <3>3, <3>4 DEF PassBacked
  <2>4. QED
    BY <2>2, <2>3
<1>8. QED
  BY <1>1, <1>3, <1>4, <1>5, <1>6, <1>7 DEF OInv

\* A line of keys with one more key is a line of keys.
LEMMA AppendType == \A line \in Seq(Keys), k \in Keys : Append(line, k) \in Seq(Keys)
OBVIOUS

\* Where an accepted purchase enters the line, the line stays one of keys.
LEMMA AcceptedTyped ==
    ASSUME OInv,
           accepted' = IF NewlyAccepted = {} THEN accepted
                        ELSE Append(accepted, CHOOSE k \in NewlyAccepted : TRUE)
    PROVE  accepted' \in Seq(Keys)
<1>1. accepted \in Seq(Keys)
  BY ObserverFacts
<1>2. CASE NewlyAccepted = {}
  BY <1>1, <1>2
<1>3. CASE NewlyAccepted # {}
  <2>1. PICK k \in Keys : k = CHOOSE j \in NewlyAccepted : TRUE
    BY <1>3 DEF NewlyAccepted
  <2>2. accepted' = Append(accepted, k)
    BY <1>3, <2>1
  <2>3. QED
    BY <1>1, <2>2, AppendType
<1>4. QED
  BY <1>2, <1>3

-----------------------------------------------------------------------------
(* The steps of a pass. *)

\* Nothing but the observer's own state moves.
LEMMA CheckoutRests ==
    ASSUME OInv, UNCHANGED checkoutVars
    PROVE  IInv' /\ UNCHANGED <<purchases, vipps>> /\ TypeOK'
BY StepInvariant DEF OInv, checkoutVars, IInv, TypeInv

\* A pass that goes on under its key and token, or ends, need only account for what
\* it knows.
LEMMA PassAlone ==
    ASSUME OInv, NEW o \in Observers, NEW t \in Pass,
           passes' = [passes EXCEPT ![o] = t],
           \/ t = NoPass
           \/ /\ passes[o].pc # "idle" /\ t.pc # "idle"
              /\ t.key = passes[o].key /\ t.token = passes[o].token,
           PassBacked(t),
           UNCHANGED <<checkoutVars, work, enabled, accepted>>
    PROVE  OInv'
<1>1. IInv' /\ UNCHANGED <<purchases, vipps>> /\ TypeOK'
  BY CheckoutRests
<1>2. \A p \in Observers : passes'[p] = IF p = o THEN t ELSE passes[p]
  BY ObserverFacts
<1>3. ObserverTypeOK'
  BY <1>1, ObserverFacts DEF ObserverTypeOK
<1>4. t.token = NoToken \/ (t.token = passes[o].token /\ t.key = passes[o].key)
  BY NoPassType
<1>5. PassesNamed'
  BY <1>1, <1>2, NoPassType DEF OInv, PassesNamed
<1>6. TokensOwned'
  <2>1. \A p \in Observers : \/ passes'[p].token = NoToken
                             \/ /\ passes'[p].token = passes[p].token
                                /\ passes'[p].key = passes[p].key
    BY <1>2, <1>4
  <2>2. QED
    BY <2>1 DEF OInv, TokensOwned
<1>7. WorkFinished'
  BY <1>1 DEF OInv, WorkFinished
<1>8. PassesBacked'
  BY <1>1, <1>2 DEF OInv, PassesBacked, PassBacked
<1>9. QED
  BY <1>1, <1>3, <1>5, <1>6, <1>7, <1>8 DEF OInv

\* A pass that ends without a write.
LEMMA EndedPassKeeps ==
    ASSUME OInv, NEW o \in Observers, passes' = [passes EXCEPT ![o] = NoPass],
           UNCHANGED <<checkoutVars, work, enabled, accepted>>
    PROVE  OInv'
BY NoPassType, PassAlone DEF PassBacked

\* The claim: the fresh token is nobody else's.
LEMMA ClaimKeeps ==
    ASSUME OInv, NEW o \in Observers, NEW k \in Keys, ClaimObservation(o, k)
    PROVE  OInv'
<1>1. IInv' /\ UNCHANGED <<purchases, vipps>> /\ TypeOK'
  BY CheckoutRests DEF ClaimObservation
<1>2. PICK token \in Tokens :
          /\ Fresh(token)
          /\ work' = [work EXCEPT ![k].token = token, ![k].current = TRUE]
          /\ passes' = [passes EXCEPT ![o] = [NoPass EXCEPT !.pc = "claimed", !.key = k,
                                              !.token = token, !.agreement = purchases[k].agreement]]
  BY DEF ClaimObservation
<1> DEFINE t == [NoPass EXCEPT !.pc = "claimed", !.key = k, !.token = token,
                               !.agreement = purchases[k].agreement]
<1>3. purchases[k] \in Row /\ purchases[k].status = "pending"
  BY ObserverFacts DEF ClaimObservation, Candidate
<1>4. /\ t \in Pass /\ t.pc = "claimed" /\ t.key = k /\ t.token = token
      /\ t.agreement = purchases[k].agreement
  BY <1>3, NoPassType DEF Pass, Row
<1>5. \A p \in Observers : passes'[p] = IF p = o THEN t ELSE passes[p]
  BY <1>2, ObserverFacts
<1>6. /\ work' \in [Keys -> Work]
      /\ \A j \in Keys : work'[j].token = (IF j = k THEN token ELSE work[j].token)
                         /\ work'[j].done = work[j].done
  BY <1>2, ObserverFacts DEF Work
<1> HIDE DEF t
<1>7. ObserverTypeOK'
  BY <1>1, <1>2, <1>4, <1>5, <1>6, ObserverFacts DEF ObserverTypeOK, ClaimObservation, t
<1>8. PassesNamed'
  BY <1>1, <1>3, <1>4, <1>5 DEF OInv, PassesNamed
<1>9. TokensOwned'
  <2>1. \A p \in Observers : passes[p].token # token
    BY <1>2 DEF Fresh
  <2>2. \A j \in Keys : work[j].token # token
    BY <1>2 DEF Fresh
  <2>3. (\A p, q \in Observers :
            passes[p].token # NoToken /\ passes[p].token = passes[q].token => p = q)'
    BY <1>4, <1>5, <2>1 DEF OInv, TokensOwned
  <2>4. (\A p \in Observers, j \in Keys :
            passes[p].token # NoToken /\ work[j].token = passes[p].token => j = passes[p].key)'
    BY <1>4, <1>5, <1>6, <2>1, <2>2 DEF OInv, TokensOwned
  <2>5. QED
    BY <2>3, <2>4 DEF TokensOwned
<1>10. WorkFinished'
  BY <1>1, <1>6 DEF OInv, WorkFinished
<1>11. PassesBacked'
  <2>1. purchases[k].agreement => vipps[k].agreement # "absent"
    BY DEF OInv, IInv, Backed, Covered
  <2>2. PassBacked(t)
    BY <1>4, <2>1 DEF PassBacked
  <2>3. \A p \in Observers : PassBacked(passes[p])
    BY DEF OInv, PassesBacked
  <2>4. QED
    BY <1>1, <1>5, <2>2, <2>3 DEF PassesBacked, PassBacked
<1>12. QED
  BY <1>1, <1>7, <1>8, <1>9, <1>10, <1>11 DEF OInv

\* What a pass reads, or does not get to read, is backed by the provider.
LEMMA ReadingPassKeeps ==
    ASSUME OInv, NEW o \in Observers, AuthorizePass(o) \/ ReadPass(o) \/ SilentPass(o)
    PROVE  OInv'
<1>1. UNCHANGED <<checkoutVars, work, enabled, accepted>> /\ passes[o].pc \in {"claimed", "reading"}
  BY DEF AuthorizePass, ReadPass, SilentPass
<1>2. PICK k \in Keys : k = passes[o].key
  BY <1>1 DEF OInv, PassesNamed
<1>3. /\ passes[o] \in Pass /\ vipps[k] \in Account /\ AccountSane(vipps[k])
      /\ PassBacked(passes[o])
  BY ObserverFacts DEF OInv, PassesBacked, IInv, Backed
<1>4. ASSUME AuthorizePass(o)
      PROVE  OInv'
  <2> DEFINE t == [passes[o] EXCEPT !.pc = "reading"]
  <2>1. passes' = [passes EXCEPT ![o] = t]
    BY <1>4 DEF AuthorizePass
  <2>2. /\ t \in Pass /\ t.pc = "reading" /\ t.key = passes[o].key
        /\ t.token = passes[o].token /\ t.agreement = passes[o].agreement
    BY <1>3 DEF Pass
  <2> HIDE DEF t
  <2>3. PassBacked(t)
    BY <1>3, <1>4, <2>2 DEF PassBacked, AuthorizePass
  <2>4. QED
    BY <1>1, <2>1, <2>2, <2>3, PassAlone
<1>5. ASSUME NEW obs \in Observation, NEW answered \in BOOLEAN, ObservationBacked(obs, vipps[k]),
             passes' = [passes EXCEPT ![o].pc = "settling", ![o].answered = answered,
                                      ![o].agreement = FALSE, ![o].obs = obs]
      PROVE  OInv'
  <2> DEFINE t == [passes[o] EXCEPT !.pc = "settling", !.answered = answered,
                                    !.agreement = FALSE, !.obs = obs]
  <2>1. passes' = [passes EXCEPT ![o] = t]
    BY <1>5, ObserverFacts
  <2>2. /\ t \in Pass /\ t.pc = "settling" /\ t.key = passes[o].key
        /\ t.token = passes[o].token /\ t.obs = obs
    BY <1>3 DEF Pass
  <2> HIDE DEF t
  <2>3. PassBacked(t)
    BY <1>2, <1>5, <2>2 DEF PassBacked
  <2>4. QED
    BY <1>1, <2>1, <2>2, <2>3, PassAlone
<1>6. ASSUME ReadPass(o)
      PROVE  OInv'
  <2> DEFINE read == CheckoutRead(vipps[k])
             obs == IF ValidObservation(read) THEN read ELSE NoObservation
  <2>1. /\ vipps[k].agreement # "absent"
        /\ passes' = [passes EXCEPT ![o].pc = "settling", ![o].answered = ValidObservation(read),
                                    ![o].agreement = FALSE, ![o].obs = obs]
    BY <1>2, <1>6 DEF ReadPass
  <2>2. ValidObservation(read) \in BOOLEAN
    BY DEF ValidObservation
  <2>3. ObservationBacked(NoObservation, vipps[k])
    BY <1>3, NoPassType, GrossAssumption DEF ObservationBacked, Covered, Account, Money
  <2>4. obs \in Observation /\ ObservationBacked(obs, vipps[k])
    BY <1>3, <2>1, <2>3, ReadType, ReadBacked, NoPassType
  <2> HIDE DEF read, obs
  <2>5. QED
    BY <1>5, <2>1, <2>2, <2>4
<1>7. ASSUME SilentPass(o)
      PROVE  OInv'
  <2>1. PICK answered \in BOOLEAN :
          passes' = [passes EXCEPT
              ![o].pc = "settling", ![o].answered = answered, ![o].agreement = FALSE,
              ![o].obs = [NoObservation EXCEPT !.agreement = answered /\ passes[o].agreement]]
    BY <1>7 DEF SilentPass
  <2> DEFINE obs == [NoObservation EXCEPT !.agreement = answered /\ passes[o].agreement]
  <2>2. /\ obs \in Observation /\ obs.status = "unknown" /\ obs.captured = 0
        /\ obs.refunded = 0 /\ (obs.agreement => passes[o].agreement)
    BY <1>3, NoPassType DEF Observation, Pass
  <2>3. passes[o].agreement => vipps[k].agreement # "absent"
    BY <1>1, <1>2, <1>3 DEF PassBacked
  <2> HIDE DEF obs
  <2>4. ObservationBacked(obs, vipps[k])
    BY <1>3, <2>2, <2>3, GrossAssumption DEF ObservationBacked, Covered, Account, Money
  <2>5. QED
    BY <1>5, <2>1, <2>2, <2>4 DEF obs
<1>8. QED
  BY <1>4, <1>6, <1>7

\* What a pass that settles finds: its purchase exists and its answer is backed.
LEMMA SettlingPass ==
    ASSUME OInv, NEW o \in Observers, NEW k \in Keys, SettlePass(o), k = passes[o].key
    PROVE  /\ purchases[k] \in Row /\ purchases[k].status # "none"
           /\ passes[o].obs \in Observation /\ passes[o].answered \in BOOLEAN
           /\ vipps[k] \in Account /\ AccountSane(vipps[k]) /\ RowSane(purchases[k])
           /\ Covered(purchases[k], vipps[k]) /\ StatusBacked(purchases[k], vipps[k])
           /\ ObservationBacked(passes[o].obs, vipps[k])
           /\ passes[o].token \in Tokens /\ work[k].token = passes[o].token
           /\ PassResult(o) = purchases[k] \/ PassResult(o) = Settle(purchases[k], passes[o].obs)
<1>1. passes[o].pc = "settling" /\ Authorized(o)
  BY DEF SettlePass
<1>2. passes[o] \in Pass /\ purchases[k] \in Row /\ vipps[k] \in Account
  BY ObserverFacts
<1>3. purchases[k].status # "none" /\ passes[o].token \in Tokens
  BY <1>1 DEF OInv, PassesNamed
<1>4. ObservationBacked(passes[o].obs, vipps[k])
  BY <1>1 DEF OInv, PassesBacked, PassBacked
<1>5. /\ AccountSane(vipps[k]) /\ RowSane(purchases[k])
      /\ Covered(purchases[k], vipps[k]) /\ StatusBacked(purchases[k], vipps[k])
  BY DEF OInv, IInv, Backed
<1>6. work[k].token = passes[o].token
  BY <1>1 DEF Authorized
<1>7. QED
  BY <1>2, <1>3, <1>4, <1>5, <1>6 DEF Pass, PassResult

\* A settlement under a lease that still holds.
LEMMA SettlePassKeeps ==
    ASSUME OInv, NEW o \in Observers, SettlePass(o)
    PROVE  OInv'
<1>1. PICK k \in Keys : k = passes[o].key
  BY DEF OInv, PassesNamed, SettlePass
<1>2. PICK row : row = PassResult(o)
  OBVIOUS
<1>3. /\ purchases' = [purchases EXCEPT ![k] = row]
      /\ work' = [work EXCEPT ![k].token = NoToken, ![k].current = FALSE, ![k].due = FALSE,
                              ![k].done = row.status \in TerminalStatus]
      /\ passes' = [passes EXCEPT ![o] = NoPass]
      /\ UNCHANGED <<withdrawn, tasks, posts, vipps, enabled, accepted>>
  BY <1>1, <1>2 DEF SettlePass
<1>4. /\ row \in Row /\ row.year = purchases[k].year /\ row.status # "none"
      /\ row.status \in OccupyingStatus => purchases[k].status \in OccupyingStatus
      /\ RowSane(row) /\ Covered(row, vipps[k]) /\ StatusBacked(row, vipps[k])
  BY <1>1, <1>2, SettlingPass, SettleType, SettleKeepsPurchase, SettleBacked
<1>5. IInv /\ purchases[k].status # "none"
  BY <1>1, SettlingPass DEF OInv
<1>6. IInv'
  BY <1>3, <1>4, <1>5, RowKeeps
<1>7. \A j \in Keys : purchases'[j] = IF j = k THEN row ELSE purchases[j]
  BY <1>3, ObserverFacts
<1>8. \A p \in Observers : passes'[p] = IF p = o THEN NoPass ELSE passes[p]
  BY <1>3, ObserverFacts
<1>9. /\ work' \in [Keys -> Work]
      /\ \A j \in Keys : j # k => work'[j] = work[j]
      /\ work'[k].token = NoToken /\ (work'[k].done => row.status \in TerminalStatus)
  <2>1. ASSUME NEW done \in BOOLEAN, done <=> row.status \in TerminalStatus,
               work' = [work EXCEPT ![k].token = NoToken, ![k].current = FALSE, ![k].due = FALSE,
                                    ![k].done = done]
        PROVE  /\ work' \in [Keys -> Work]
               /\ \A j \in Keys : j # k => work'[j] = work[j]
               /\ work'[k].token = NoToken /\ (work'[k].done => row.status \in TerminalStatus)
    <3>1. work[k] \in Work /\ work \in [Keys -> Work]
      BY ObserverFacts
    <3> DEFINE t == [work[k] EXCEPT !.token = NoToken, !.current = FALSE, !.due = FALSE,
                                    !.done = done]
    <3>2. work' = [work EXCEPT ![k] = t]
      BY <2>1, <3>1
    <3>3. t \in Work /\ t.token = NoToken /\ (t.done => row.status \in TerminalStatus)
      BY <2>1, <3>1 DEF Work
    <3> HIDE DEF t
    <3>4. work'[k] = t /\ work' \in [Keys -> Work] /\ \A j \in Keys : j # k => work'[j] = work[j]
      BY <3>1, <3>2, <3>3
    <3>5. QED
      BY <3>3, <3>4
  <2>2. CASE row.status \in TerminalStatus
    <3>1. (row.status \in TerminalStatus) = TRUE
      BY <2>2
    <3>2. QED
      BY <1>3, <2>1, <2>2, <3>1
  <2>3. CASE row.status \notin TerminalStatus
    <3>1. (row.status \in TerminalStatus) = FALSE
      BY <2>3
    <3>2. QED
      BY <1>3, <2>1, <2>3, <3>1
  <2>4. QED
    BY <2>2, <2>3
<1>10. ObserverTypeOK'
  BY <1>3, <1>6, <1>8, <1>9, ObserverFacts, NoPassType DEF ObserverTypeOK, IInv, TypeInv
<1>11. PassesNamed'
  BY <1>4, <1>7, <1>8, NoPassType DEF OInv, PassesNamed
<1>12. TokensOwned'
  <2>1. \A p \in Observers : passes'[p].token = NoToken \/ passes'[p] = passes[p]
    BY <1>8, NoPassType
  <2>2. \A j \in Keys : work'[j].token = NoToken \/ work'[j] = work[j]
    BY <1>9
  <2>3. QED
    BY <2>1, <2>2 DEF OInv, TokensOwned
<1>13. WorkFinished'
  BY <1>7, <1>9 DEF OInv, WorkFinished
<1>14. PassesBacked'
  BY <1>3, <1>8, NoPassType DEF OInv, PassesBacked, PassBacked
<1>15. QED
  BY <1>6, <1>10, <1>11, <1>12, <1>13, <1>14 DEF OInv

-----------------------------------------------------------------------------
(* The clock and the administrator. *)

\* Leases may end, attempts fall due and registrations change: no lease is given to
\* anyone, and no work is finished.
LEMMA WorkAlone ==
    ASSUME OInv, work' \in [Keys -> Work], enabled' \in BOOLEAN,
           \A k \in Keys : /\ work'[k].token \in {work[k].token, NoToken}
                           /\ work'[k].done = work[k].done,
           UNCHANGED <<checkoutVars, passes, accepted>>
    PROVE  OInv'
<1>1. IInv' /\ UNCHANGED <<purchases, vipps>> /\ TypeOK'
  BY CheckoutRests
<1>2. ObserverTypeOK'
  BY <1>1, ObserverFacts DEF ObserverTypeOK
<1>3. PassesNamed'
  BY <1>1 DEF OInv, PassesNamed
<1>4. TokensOwned'
  BY DEF OInv, TokensOwned
<1>5. WorkFinished'
  BY <1>1 DEF OInv, WorkFinished
<1>6. PassesBacked'
  BY <1>1 DEF OInv, PassesBacked, PassBacked
<1>7. QED
  BY <1>1, <1>2, <1>3, <1>4, <1>5, <1>6 DEF OInv

\* Every step that is not the checkout's.
LEMMA ObserverOnlyKeeps ==
    ASSUME OInv, ObserverOnlyStep
    PROVE  OInv'
<1>1. ASSUME NEW o \in Observers, PassStep(o)
      PROVE  OInv'
  <2>1. ASSUME RefusePass(o) \/ DropPass(o)
        PROVE  OInv'
    BY <2>1, EndedPassKeeps DEF RefusePass, DropPass
  <2>2. QED
    BY <1>1, <2>1, ClaimKeeps, ReadingPassKeeps, SettlePassKeeps DEF PassStep
<1>2. ASSUME NEW k \in Keys, LeaseExpires(k)
      PROVE  OInv'
  <2>1. /\ work' \in [Keys -> Work]
        /\ \A j \in Keys : /\ work'[j].token \in {work[j].token, NoToken}
                           /\ work'[j].done = work[j].done
    BY <1>2, ObserverFacts DEF LeaseExpires, Work
  <2>2. UNCHANGED <<checkoutVars, passes, accepted>> /\ enabled' \in BOOLEAN
    BY <1>2, ObserverFacts DEF LeaseExpires
  <2>3. QED
    BY <2>1, <2>2, WorkAlone
<1>3. ASSUME NEW k \in Keys, AttemptDue(k)
      PROVE  OInv'
  <2>1. /\ work' \in [Keys -> Work]
        /\ \A j \in Keys : /\ work'[j].token \in {work[j].token, NoToken}
                           /\ work'[j].done = work[j].done
    BY <1>3, ObserverFacts DEF AttemptDue, Work
  <2>2. UNCHANGED <<checkoutVars, passes, accepted>> /\ enabled' \in BOOLEAN
    BY <1>3, ObserverFacts DEF AttemptDue
  <2>3. QED
    BY <2>1, <2>2, WorkAlone
<1>4. ASSUME UpdatePrincipal
      PROVE  OInv'
  <2>1. /\ work' \in [Keys -> Work]
        /\ \A j \in Keys : /\ work'[j].token \in {work[j].token, NoToken}
                           /\ work'[j].done = work[j].done
    BY <1>4, ObserverFacts DEF UpdatePrincipal, Work
  <2>2. UNCHANGED <<checkoutVars, passes, accepted>> /\ enabled' \in BOOLEAN
    BY <1>4 DEF UpdatePrincipal
  <2>3. QED
    BY <2>1, <2>2, WorkAlone
<1>5. QED
  BY <1>1, <1>2, <1>3, <1>4 DEF ObserverOnlyStep

\* Every step keeps the invariant.
LEMMA ObserverStepKeeps == OInv /\ [ObserverNext]_observerVars => OInv'
<1> SUFFICES ASSUME OInv, [ObserverNext]_observerVars
             PROVE  OInv'
  OBVIOUS
<1>1. CASE UNCHANGED observerVars
  <2>1. UNCHANGED checkoutVars /\ UNCHANGED observerOnly /\ accepted' = accepted
    BY <1>1 DEF observerVars, checkoutVars, observerOnly
  <2>2. QED
    BY <2>1, CheckoutBeside, ObserverFacts
<1>2. ASSUME CheckoutNext, UNCHANGED observerOnly,
             accepted' = IF NewlyAccepted = {} THEN accepted
                          ELSE Append(accepted, CHOOSE k \in NewlyAccepted : TRUE)
      PROVE  OInv'
  BY <1>2, CheckoutBeside, AcceptedTyped
<1>3. QED
  BY <1>1, <1>2, ObserverOnlyKeeps DEF ObserverNext

-----------------------------------------------------------------------------
(* The theorems. *)

\* The invariant holds in every behaviour of the checkout with its observer.
THEOREM ObserverInvariance == ObserverSpec => []OInv
BY ObserverInitially, ObserverStepKeeps, PTL DEF ObserverSpec

\* Passes, leases and the line of accepted purchases hold what their variables say.
THEOREM ObserverTypeCorrect == ObserverSpec => []ObserverTypeOK
<1>1. OInv => ObserverTypeOK
  BY DEF OInv
<1>2. QED
  BY ObserverInvariance, <1>1, PTL

\* However many passes run, die or outlive their leases, at most one of them may
\* settle a checkout: authority needs the token now leased, and no two passes carry
\* the same.
THEOREM OnePassHasAuthority == ObserverSpec => []SingleAuthority
<1>1. OInv => SingleAuthority
  <2> SUFFICES ASSUME OInv, NEW o \in Observers, NEW p \in Observers,
                      Authorized(o), Authorized(p), passes[o].key = passes[p].key
               PROVE  o = p
    BY DEF SingleAuthority
  <2>1. passes[o].token = passes[p].token
    BY DEF Authorized
  <2>2. passes[o].token # NoToken
    BY NoTokenAssumption DEF OInv, PassesNamed, Authorized
  <2>3. QED
    BY <2>1, <2>2 DEF OInv, TokensOwned
<1>2. QED
  BY ObserverInvariance, <1>1, PTL

\* A pending checkout is never lost to the observer, whoever settled it last: only
\* a finished purchase ends its work, and a pending one's operation is unresolved.
THEOREM PendingIsObserved == ObserverSpec => []PendingStaysObservable
<1>1. OInv => PendingStaysObservable
  <2> SUFFICES ASSUME OInv, NEW k \in Keys, purchases[k].status = "pending"
               PROVE  ~work[k].done /\ purchases[k].op \in UnresolvedStatus
    BY DEF PendingStaysObservable
  <2>1. RowSane(purchases[k])
    BY DEF OInv, IInv, Backed
  <2>2. QED
    BY <2>1 DEF OInv, WorkFinished, TerminalStatus, RowSane, UnresolvedStatus
<1>2. QED
  BY ObserverInvariance, <1>1, PTL

\* With the observer settling beside the owners, nothing is recorded that the
\* provider does not hold.
THEOREM ObservedLedgerNeverAhead == ObserverSpec => []LedgerFollowsProvider
<1>1. OInv => LedgerFollowsProvider
  BY DEF OInv, IInv, Backed, Covered, StatusBacked, LedgerFollowsProvider
<1>2. QED
  BY ObserverInvariance, <1>1, PTL

\* Nor is a company-year paid for twice.
THEOREM ObservedPaidOnce == ObserverSpec => []OneLivePayment
<1>1. OInv => OneLivePayment
  BY PaidOnce DEF OInv
<1>2. QED
  BY ObserverInvariance, <1>1, PTL

\* What the observer does to the ledger: nothing, or one settlement.
LEMMA ObserverLedgerSteps ==
    ASSUME OInv, [ObserverNext]_observerVars
    PROVE  \/ [CheckoutNext]_checkoutVars
           \/ \E k \in Keys, obs \in Observation :
                 /\ purchases[k].status # "none" /\ withdrawn' = withdrawn
                 /\ purchases' = [purchases EXCEPT ![k] = Settle(purchases[k], obs)]
<1>1. CASE UNCHANGED observerVars
  BY <1>1 DEF observerVars, checkoutVars
<1>2. ASSUME NEW o \in Observers, SettlePass(o)
      PROVE  \/ UNCHANGED checkoutVars
             \/ \E k \in Keys, obs \in Observation :
                   /\ purchases[k].status # "none" /\ withdrawn' = withdrawn
                   /\ purchases' = [purchases EXCEPT ![k] = Settle(purchases[k], obs)]
  <2>1. PICK k \in Keys : k = passes[o].key
    BY <1>2 DEF OInv, PassesNamed, SettlePass
  <2>2. /\ purchases' = [purchases EXCEPT ![k] = PassResult(o)]
        /\ UNCHANGED <<withdrawn, tasks, posts, vipps>>
    BY <1>2, <2>1 DEF SettlePass
  <2>3. /\ purchases[k].status # "none" /\ passes[o].obs \in Observation
        /\ PassResult(o) = purchases[k] \/ PassResult(o) = Settle(purchases[k], passes[o].obs)
    BY <1>2, <2>1, SettlingPass
  <2>4. CASE PassResult(o) = purchases[k]
    BY <2>2, <2>4, ObserverFacts DEF checkoutVars
  <2>5. QED
    BY <2>2, <2>3, <2>4
<1>3. ASSUME NEW o \in Observers, PassStep(o), ~SettlePass(o)
      PROVE  UNCHANGED checkoutVars
  BY <1>3 DEF PassStep, ClaimObservation, AuthorizePass, ReadPass, SilentPass, RefusePass, DropPass
<1>4. ASSUME NEW k \in Keys, LeaseExpires(k) \/ AttemptDue(k)
      PROVE  UNCHANGED checkoutVars
  BY <1>4 DEF LeaseExpires, AttemptDue
<1>5. ASSUME UpdatePrincipal
      PROVE  UNCHANGED checkoutVars
  BY <1>5 DEF UpdatePrincipal
<1>6. QED
  BY <1>1, <1>2, <1>3, <1>4, <1>5 DEF ObserverNext, ObserverOnlyStep

\* The observer keeps the promise made to the customer: a settled pass is its
\* Resolve, and everything else about passes and leases is not visible in it.
THEOREM ObserverKeepsPromise == ObserverSpec => KeepsPromise
<1>1. ObserverInit => Promise!Init
  BY DEF ObserverInit, CheckoutInit, Promise!Init, NoRow
<1>2. OInv /\ [ObserverNext]_observerVars => [Promise!Next]_(Promise!vars)
  BY ObserverLedgerSteps, PromiseStep, SettlementPromised DEF OInv
<1>3. QED
  BY ObserverInvariance, <1>1, <1>2, PTL DEF ObserverSpec, KeepsPromise, Promise!Spec

\* A late pass rewrites no evidence: what it read before others settled leaves
\* money, references and final statuses alone.
THEOREM ObserverKeepsEvidence == ObserverSpec => EvidenceNeverRewritten
<1>1. ASSUME OInv, [ObserverNext]_observerVars, NEW k \in Keys, purchases[k].status # "none"
      PROVE  EvidenceGuard(purchases[k], purchases'[k])
  <2>1. CASE [CheckoutNext]_checkoutVars
    BY <1>1, <2>1, EvidenceStep DEF OInv
  <2>2. ASSUME NEW j \in Keys, NEW obs \in Observation,
               purchases' = [purchases EXCEPT ![j] = Settle(purchases[j], obs)]
        PROVE  EvidenceGuard(purchases[k], purchases'[k])
    <3>1. purchases[k] \in Row /\ RowSane(purchases[k])
      BY <1>1, ObserverFacts DEF OInv, IInv, Backed
    <3>2. CASE j = k
      BY <1>1, <2>2, <3>1, <3>2, SettleKeepsEvidence, ObserverFacts
    <3>3. CASE j # k
      <4>1. purchases'[k] = purchases[k]
        BY <1>1, <2>2, <3>3, ObserverFacts
      <4>2. QED
        BY <3>1, <4>1 DEF EvidenceGuard, Row, Money
    <3>4. QED
      BY <3>2, <3>3
  <2>3. QED
    BY <1>1, <2>1, <2>2, ObserverLedgerSteps
<1>2. OInv /\ [ObserverNext]_observerVars => [\A k \in Keys : purchases[k].status # "none"
            => EvidenceGuard(purchases[k], purchases'[k])]_checkoutVars
  BY <1>1
<1>3. QED
  BY ObserverInvariance, <1>2, PTL DEF ObserverSpec, EvidenceNeverRewritten

=============================================================================
