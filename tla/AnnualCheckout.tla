----------------------------- MODULE AnnualCheckout -----------------------------
(***************************************************************************)
(* The annual checkout: an owner's request is committed as a purchase      *)
(* before the provider is called, only the request that won the claim      *)
(* executes, every other one reads, and what was seen is settled under the *)
(* purchase's row lock.  Each action is one transaction of                 *)
(* PostgresAnnualCheckoutSession, one exchange with the provider, or one   *)
(* step of the provider (Vipps) itself.                                    *)
(*                                                                         *)
(* A purchase is named by the idempotency key that won its claim: keys are *)
(* unique over all operations and a claim inserts one purchase and one     *)
(* operation.  Requests carry the company-year they are for; the rest of   *)
(* the fingerprint is taken to match.                                      *)
(***************************************************************************)
EXTENDS AnnualSettlement

CONSTANTS Keys,     \* idempotency keys clients use
          Workers,  \* request handlers of the backend processes
          NoKey,    \* no key
          MaxPosts  \* bound on the POSTs of one key

ASSUME NoKeyAssumption == NoKey \notin Keys
ASSUME MaxPostsAssumption == MaxPosts \in Nat

VARIABLES
    purchases,  \* key -> the purchase and its checkout operation
    withdrawn,  \* key -> the company-year of its withdrawal receipt, or NoYear
    tasks,      \* worker -> the request it is handling; lost in a crash
    posts,      \* key -> how often "create agreement" was sent with its operation key
    vipps       \* key -> the agreement and charge the provider holds for it

checkoutVars == <<purchases, withdrawn, tasks, posts, vipps>>

-----------------------------------------------------------------------------
(* State. *)

Account == [agreement : {"absent", "pending", "active", "stopped", "expired"},
            charge : {"open", "charged", "closed"},
            captured : Money,
            refunded : Money]

\* What the provider holds before the agreement is created.
NoAccount == [agreement |-> "absent", charge |-> "open", captured |-> 0, refunded |-> 0]

NoObservation == UnknownObservation(NoRow)

Task == [pc : {"idle", "claim", "execute", "await", "reconcile", "settle"},
         key : Keys \cup {NoKey},
         year : Years \cup {NoYear},
         seen : Row,
         obs : Observation]

Idle == [pc |-> "idle", key |-> NoKey, year |-> NoYear, seen |-> NoRow, obs |-> NoObservation]

TypeOK ==
    /\ purchases \in [Keys -> Row]
    /\ withdrawn \in [Keys -> Years \cup {NoYear}]
    /\ tasks \in [Workers -> Task]
    /\ posts \in [Keys -> 0 .. MaxPosts]
    /\ vipps \in [Keys -> Account]

CheckoutInit ==
    /\ purchases = [k \in Keys |-> NoRow]
    /\ withdrawn = [k \in Keys |-> NoYear]
    /\ tasks = [w \in Workers |-> Idle]
    /\ posts = [k \in Keys |-> 0]
    /\ vipps = [k \in Keys |-> NoAccount]

\* The worker goes on with a loaded checkout: a terminal one is simply
\* returned, the winner of a claim executes, everyone else reconciles.
Observing(k, row, newlyClaimed) ==
    IF row.status \in TerminalStatus
    THEN Idle
    ELSE [pc |-> IF newlyClaimed THEN "execute" ELSE "reconcile",
          key |-> k, year |-> NoYear, seen |-> row, obs |-> NoObservation]

\* Mutant: only a paid purchase occupies its company-year.
OccupiedByPaid(y) == \E k \in Keys : purchases[k].year = y /\ purchases[k].status = "paid"

Occupied(y) == \E k \in Keys : purchases[k].year = y /\ purchases[k].status \in OccupyingStatus

-----------------------------------------------------------------------------
(* The owner's requests. *)

\* withdraw_checkout_request: the receipt that ends a key no operation has used.
Withdraw(k, y) ==
    /\ purchases[k].status = "none"
    /\ withdrawn[k] = NoYear
    /\ withdrawn' = [withdrawn EXCEPT ![k] = y]
    /\ UNCHANGED <<purchases, tasks, posts, vipps>>

\* start_checkout up to find_checkout: the key is known for this company-year.
StartKnown(w, k, y) ==
    /\ tasks[w].pc = "idle"
    /\ purchases[k].status = "pending" /\ purchases[k].year = y
    /\ tasks' = [tasks EXCEPT ![w] = Observing(k, purchases[k], FALSE)]
    /\ UNCHANGED <<purchases, withdrawn, posts, vipps>>

\* start_checkout up to claim_checkout: the key is new and was not withdrawn.
StartNew(w, k, y) ==
    /\ tasks[w].pc = "idle"
    /\ purchases[k].status = "none" /\ withdrawn[k] = NoYear
    /\ tasks' = [tasks EXCEPT ![w] = [Idle EXCEPT !.pc = "claim", !.key = k, !.year = y]]
    /\ UNCHANGED <<purchases, withdrawn, posts, vipps>>

\* Mutant: the request that lost the claim executes as well.
ClaimReplayExecuting(w) ==
    LET k == tasks[w].key IN
    /\ tasks[w].pc = "claim"
    /\ purchases[k].status # "none" /\ purchases[k].year = tasks[w].year
    /\ tasks' = [tasks EXCEPT ![w] = Observing(k, purchases[k], TRUE)]
    /\ UNCHANGED <<purchases, withdrawn, posts, vipps>>

\* claim_checkout when another request with this key committed first.
ClaimReplay(w) ==
    LET k == tasks[w].key IN
    /\ tasks[w].pc = "claim"
    /\ purchases[k].status # "none" /\ purchases[k].year = tasks[w].year
    /\ tasks' = [tasks EXCEPT ![w] = Observing(k, purchases[k], FALSE)]
    /\ UNCHANGED <<purchases, withdrawn, posts, vipps>>

\* Mutant: the claim trusts the withdrawal check made before it.
ClaimCommitUnchecked(w) ==
    LET k == tasks[w].key
        y == tasks[w].year
    IN
    /\ tasks[w].pc = "claim"
    /\ purchases[k].status = "none"
    /\ ~Occupied(y)
    /\ purchases' = [purchases EXCEPT ![k] = ClaimedRow(y)]
    /\ tasks' = [tasks EXCEPT ![w] = Observing(k, ClaimedRow(y), TRUE)]
    /\ UNCHANGED <<withdrawn, posts, vipps>>

\* claim_checkout commits the purchase and its operation.
ClaimCommit(w) ==
    LET k == tasks[w].key
        y == tasks[w].year
    IN
    /\ tasks[w].pc = "claim"
    /\ purchases[k].status = "none"
    /\ withdrawn[k] = NoYear
    /\ ~Occupied(y)
    /\ purchases' = [purchases EXCEPT ![k] = ClaimedRow(y)]
    /\ tasks' = [tasks EXCEPT ![w] = Observing(k, ClaimedRow(y), TRUE)]
    /\ UNCHANGED <<withdrawn, posts, vipps>>

\* poll_checkout: load the purchase under its lock, then read the provider.
Poll(w, k) ==
    /\ tasks[w].pc = "idle"
    /\ purchases[k].status = "pending"
    /\ tasks' = [tasks EXCEPT ![w] = Observing(k, purchases[k], FALSE)]
    /\ UNCHANGED <<purchases, withdrawn, posts, vipps>>

\* The request ends without a further effect of its own: the process died, the
\* owner's authority was gone, the claim was refused or the database was not
\* available.  What was committed or sent stays.
Abandon(w) ==
    /\ tasks[w].pc # "idle"
    /\ tasks' = [tasks EXCEPT ![w] = Idle]
    /\ UNCHANGED <<purchases, withdrawn, posts, vipps>>

-----------------------------------------------------------------------------
(* Exchanges with the provider. *)

\* The worker goes on to settle what it observed; what it had loaded is used up.
Answered(w, obs) == [tasks EXCEPT ![w].pc = "settle", ![w].seen = NoRow, ![w].obs = obs]

\* VippsTestBillingProvider._execute: the POST that creates the agreement.
SendCreate(w) ==
    LET k == tasks[w].key IN
    /\ tasks[w].pc = "execute"
    /\ posts[k] < MaxPosts
    /\ posts' = [posts EXCEPT ![k] = @ + 1]
    /\ tasks' = [tasks EXCEPT ![w].pc = "await"]
    /\ UNCHANGED <<purchases, withdrawn, vipps>>

\* Its 201 answer names the agreement.
CreateReply(w) ==
    /\ tasks[w].pc = "await"
    /\ vipps[tasks[w].key].agreement # "absent"
    /\ tasks' = Answered(w, [status |-> "pending", agreement |-> TRUE, captured |-> 0, refunded |-> 0])
    /\ UNCHANGED <<purchases, withdrawn, posts, vipps>>

\* Mutant: the captured amount alone confirms the charge.
CheckoutReadEarly(account) ==
    IF account.agreement = "pending"
    THEN [status |-> "pending", agreement |-> TRUE, captured |-> 0, refunded |-> 0]
    ELSE [status |-> CASE account.captured = Gross -> "confirmed"
                       [] account.charge = "closed" -> "failed"
                       [] OTHER -> "pending",
          agreement |-> TRUE, captured |-> account.captured, refunded |-> account.refunded]

\* What _reconcile makes of the provider's agreement and charge.
CheckoutRead(account) ==
    IF account.agreement = "pending"
    THEN [status |-> "pending", agreement |-> TRUE, captured |-> 0, refunded |-> 0]
    ELSE [status |-> CASE account.captured = Gross /\ account.charge = "charged" -> "confirmed"
                       [] account.charge = "closed" -> "failed"
                       [] OTHER -> "pending",
          agreement |-> TRUE, captured |-> account.captured, refunded |-> account.refunded]

\* reconcile answers.  An observation the policy rejects is replaced by UNKNOWN.
Reconcile(w) ==
    LET account == vipps[tasks[w].key]
        read == CheckoutRead(account)
    IN
    /\ tasks[w].pc = "reconcile"
    /\ account.agreement # "absent"
    /\ tasks' = Answered(w, IF ValidObservation(read) THEN read
                            ELSE UnknownObservation(tasks[w].seen))
    /\ UNCHANGED <<purchases, withdrawn, posts, vipps>>

\* No usable answer: the call never left, its answer was lost, late or odd, or
\* the agreement is not (or not uniquely) listed.  The adapter answers UNKNOWN
\* with no money, the service UNKNOWN with the money it had loaded.
NoAnswer(w) ==
    /\ tasks[w].pc \in {"execute", "await", "reconcile"}
    /\ \E obs \in {UnknownObservation(tasks[w].seen),
                   [UnknownObservation(tasks[w].seen) EXCEPT !.captured = 0, !.refunded = 0]} :
          tasks' = Answered(w, obs)
    /\ UNCHANGED <<purchases, withdrawn, posts, vipps>>

\* settle_checkout: the policy is applied again to the row as it is now.
SettleCheckout(w) ==
    LET k == tasks[w].key IN
    /\ tasks[w].pc = "settle"
    /\ purchases' = [purchases EXCEPT ![k] = Settle(@, tasks[w].obs)]
    /\ tasks' = [tasks EXCEPT ![w] = Idle]
    /\ UNCHANGED <<withdrawn, posts, vipps>>

-----------------------------------------------------------------------------
(* The provider: external, modelled from the answers the adapter accepts. *)

\* A POST arrives, however late; a repeated operation key changes nothing.
ProviderCreate(k) ==
    /\ posts[k] > 0 /\ vipps[k].agreement = "absent"
    /\ vipps' = [vipps EXCEPT ![k].agreement = "pending"]
    /\ UNCHANGED <<purchases, withdrawn, tasks, posts>>

\* The customer confirms the agreement.
ProviderApprove(k) ==
    /\ vipps[k].agreement = "pending"
    /\ vipps' = [vipps EXCEPT ![k].agreement = "active"]
    /\ UNCHANGED <<purchases, withdrawn, tasks, posts>>

\* The customer lets the agreement lapse: its charge is never collected.
ProviderExpire(k) ==
    /\ vipps[k].agreement = "pending"
    /\ vipps' = [vipps EXCEPT ![k].agreement = "expired", ![k].charge = "closed"]
    /\ UNCHANGED <<purchases, withdrawn, tasks, posts>>

\* Money is captured, possibly in parts.
ProviderCapture(k, amount) ==
    /\ vipps[k].agreement = "active" /\ vipps[k].charge = "open"
    /\ vipps[k].captured + amount <= Gross
    /\ vipps' = [vipps EXCEPT ![k].captured = @ + amount]
    /\ UNCHANGED <<purchases, withdrawn, tasks, posts>>

\* The charge reports CHARGED once everything is captured.
ProviderComplete(k) ==
    /\ vipps[k].charge = "open" /\ vipps[k].captured = Gross
    /\ vipps' = [vipps EXCEPT ![k].charge = "charged"]
    /\ UNCHANGED <<purchases, withdrawn, tasks, posts>>

\* The charge ends as FAILED or CANCELLED before everything is captured.
ProviderClose(k) ==
    /\ vipps[k].agreement = "active" /\ vipps[k].charge = "open" /\ vipps[k].captured < Gross
    /\ vipps' = [vipps EXCEPT ![k].charge = "closed"]
    /\ UNCHANGED <<purchases, withdrawn, tasks, posts>>

-----------------------------------------------------------------------------

WorkerStep(w) ==
    \/ \E k \in Keys, y \in Years : StartKnown(w, k, y) \/ StartNew(w, k, y)
    \/ \E k \in Keys : Poll(w, k)
    \/ ClaimReplay(w) \/ ClaimCommit(w)
    \/ SendCreate(w) \/ CreateReply(w) \/ Reconcile(w) \/ NoAnswer(w)
    \/ SettleCheckout(w)
    \/ Abandon(w)

ProviderStep(k) ==
    \/ ProviderCreate(k) \/ ProviderApprove(k) \/ ProviderExpire(k)
    \/ \E amount \in 1 .. Gross : ProviderCapture(k, amount)
    \/ ProviderComplete(k) \/ ProviderClose(k)

CheckoutNext ==
    \/ \E w \in Workers : WorkerStep(w)
    \/ \E k \in Keys, y \in Years : Withdraw(k, y)
    \/ \E k \in Keys : ProviderStep(k)

CheckoutSpec == CheckoutInit /\ [][CheckoutNext]_checkoutVars

-----------------------------------------------------------------------------
(* Properties. *)

\* The money of this purchase has been or may still be collected.
Collectable(k) ==
    /\ purchases[k].status # "none"
    /\ ~(vipps[k].charge = "closed" /\ vipps[k].captured = 0)
    /\ vipps[k].refunded < Gross

\* A company-year is never paid for twice: whatever retries, races and lost
\* answers happen, at most one of the purchases made for it can hold or still
\* collect the customer's money at the provider.  (The claim is refused while a
\* pending or paid purchase occupies the company-year, and settlement frees it
\* only on evidence that the old charge is dead or was paid back.)
OneLivePayment ==
    \A j, k \in Keys :
        j # k /\ purchases[j].year = purchases[k].year => ~(Collectable(j) /\ Collectable(k))

\* The agreement of a purchase is created by one POST only: an uncertain outcome,
\* a replay or a crash never leads to a second one, with or without the
\* provider's own deduplication.
ExecutedOnce == \A k \in Keys : posts[k] <= 1

\* A withdrawn request has no purchase and never reached the provider, also when
\* the withdrawal raced the claim of the same key, or came for another year.
WithdrawnNeverBought ==
    \A k \in Keys : withdrawn[k] # NoYear =>
        purchases[k].status = "none" /\ posts[k] = 0 /\ vipps[k].agreement = "absent"

\* Nothing is recorded that the provider does not hold: no money beyond what it
\* captured and refunded, paid only for a completed charge, failed only for a
\* charge that ended with nothing captured, refunded only when all was paid back.
LedgerFollowsProvider ==
    \A k \in Keys :
        LET row == purchases[k]
            account == vipps[k]
        IN /\ row.captured <= account.captured /\ row.refunded <= account.refunded
           /\ row.agreement => account.agreement # "absent"
           /\ row.status = "paid" => account.charge = "charged"
           /\ row.status = "failed" => account.charge = "closed" /\ account.captured = 0
           /\ row.status = "refunded" => account.refunded = Gross

\* The CHECK constraints never abort a settlement the policy has accepted.
ChecksNeverFire == \A k \in Keys : PurchaseChecks(purchases[k])

\* The immutable-evidence trigger never aborts one either: settlements of late and
\* reordered reads keep money, references and final statuses by themselves.
EvidenceNeverRewritten ==
    [][\A k \in Keys : purchases[k].status # "none"
            => EvidenceGuard(purchases[k], purchases'[k])]_checkoutVars

\* What the customer is promised about each request: AnnualPromise.
Promise == INSTANCE AnnualPromise WITH
    decision <- [k \in Keys |-> IF withdrawn[k] # NoYear THEN "withdrawn"
                                ELSE IF purchases[k].status = "none" THEN "open" ELSE "bought"],
    boughtFor <- [k \in Keys |-> purchases[k].year],
    standing <- [k \in Keys |-> purchases[k].status]

\* The checkout implements the promise.
KeepsPromise == Promise!Spec

=============================================================================
