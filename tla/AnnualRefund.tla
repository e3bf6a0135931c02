------------------------------ MODULE AnnualRefund ------------------------------
(***************************************************************************)
(* Refunds of an annual purchase, the stop of its renewal and the cleanup  *)
(* of its provider agreement, beside the checkout of AnnualCheckout.       *)
(*                                                                         *)
(* A refund request is bound to one case (an evidence reference with the   *)
(* entitlement decided from it) and, once there is money to return and no  *)
(* other refund is unresolved, to one operation.  Only the claim that      *)
(* inserted the operation executes it; replays and the owner's and         *)
(* support's recovery read.  A request inserts at most one operation, so   *)
(* the operation carries the key of the request that inserted it.          *)
(***************************************************************************)
EXTENDS AnnualCheckout

CONSTANTS Requests,   \* idempotency keys of refund requests
          Sources,    \* evidence references
          Refunders,  \* handlers of refund requests
          Cleaners,   \* handlers of cleanup requests
          NoRequest,  \* no request
          NoSource    \* no evidence reference

ASSUME NoRequestAssumption == NoRequest \notin Requests
ASSUME NoSourceAssumption == NoSource \notin Sources

VARIABLES
    cases,        \* key -> evidence reference -> its refund case
    requests,     \* request -> what it was recorded with
    refunds,      \* request -> the operation it inserted
    refundTasks,  \* refunder -> the refund it is handling; lost in a crash
    refundPosts,  \* request -> how often its refund was POSTed
    refundDone,   \* request -> the provider has the refund in its history
    stops,        \* key -> the stop_agreement operation of its purchase
    stopTasks,    \* cleaner -> the cleanup it is handling; lost in a crash
    stopPosts     \* keys whose agreement was PATCHed to STOPPED

refundVars == <<cases, requests, refunds, refundTasks, refundPosts, refundDone>>
stopVars == <<stops, stopTasks, stopPosts>>
annualVars == <<purchases, withdrawn, tasks, posts, vipps,
                cases, requests, refunds, refundTasks, refundPosts, refundDone,
                stops, stopTasks, stopPosts>>

-----------------------------------------------------------------------------
(* State. *)

\* refundedBefore is the facts' refunded_minor at discovery.
Case == [open : BOOLEAN, entitled : Money, refundedBefore : Money]
NoCase == [open |-> FALSE, entitled |-> 0, refundedBefore |-> 0]

Request == [key : Keys \cup {NoKey}, source : Sources \cup {NoSource},
            operation : Requests \cup {NoRequest}]
Unrequested == [key |-> NoKey, source |-> NoSource, operation |-> NoRequest]

\* A refund operation: its purchase and case, what its intent was computed from,
\* and the totals of its last observation.
Refund == [key : Keys \cup {NoKey}, source : Sources \cup {NoSource},
           status : ProviderStatus \cup {"none", "created"},
           amount : Money, capturedBefore : Money, refundedBefore : Money,
           captured : Money, refunded : Money]
NoRefund == [key |-> NoKey, source |-> NoSource, status |-> "none", amount |-> 0,
             capturedBefore |-> 0, refundedBefore |-> 0, captured |-> 0, refunded |-> 0]

RefundObservation == [status : ProviderStatus, captured : Money, refunded : Money]
NoRefundObservation == [status |-> "unknown", captured |-> 0, refunded |-> 0]

RefundTask == [pc : {"idle", "execute", "await", "reconcile", "settle"},
               operation : Requests \cup {NoRequest},
               captured : Money, refunded : Money,
               obs : RefundObservation]
NoRefundTask == [pc |-> "idle", operation |-> NoRequest, captured |-> 0, refunded |-> 0,
                 obs |-> NoRefundObservation]

StopTask == [pc : {"idle", "read", "check", "patch", "await", "observe", "settle"},
             key : Keys \cup {NoKey}, obs : {"pending", "unknown", "confirmed"}]
NoStopTask == [pc |-> "idle", key |-> NoKey, obs |-> "unknown"]

RefundTypeOK ==
    /\ TypeOK
    /\ cases \in [Keys -> [Sources -> Case]]
    /\ requests \in [Requests -> Request]
    /\ refunds \in [Requests -> Refund]
    /\ refundTasks \in [Refunders -> RefundTask]
    /\ refundPosts \in [Requests -> 0 .. MaxPosts]
    /\ refundDone \in [Requests -> BOOLEAN]
    /\ stops \in [Keys -> {"none", "created", "pending", "unknown", "confirmed"}]
    /\ stopTasks \in [Cleaners -> StopTask]
    /\ stopPosts \in SUBSET Keys

RefundInit ==
    /\ CheckoutInit
    /\ cases = [k \in Keys |-> [s \in Sources |-> NoCase]]
    /\ requests = [r \in Requests |-> Unrequested]
    /\ refunds = [r \in Requests |-> NoRefund]
    /\ refundTasks = [h \in Refunders |-> NoRefundTask]
    /\ refundPosts = [r \in Requests |-> 0]
    /\ refundDone = [r \in Requests |-> FALSE]
    /\ stops = [k \in Keys |-> "none"]
    /\ stopTasks = [c \in Cleaners |-> NoStopTask]
    /\ stopPosts = {}

-----------------------------------------------------------------------------
(* Claiming a refund. *)

Lesser(a, b) == IF a < b THEN a ELSE b
Greater(a, b) == IF a < b THEN b ELSE a

\* Mutant: an unknown outcome gives its reservation back.
UnresolvedButUnknown(k) ==
    {r \in Requests : refunds[r].key = k /\ refunds[r].status \in {"created", "pending"}}

\* The refund operations of a purchase that still hold their reservation.
Unresolved(k) == {r \in Requests : refunds[r].key = k /\ refunds[r].status \in UnresolvedStatus}

\* Mutant: an operation nobody has observed yet is executed again.
HandlingAnew(r, refund, newlyClaimed) ==
    [pc |-> IF newlyClaimed \/ refund.status = "created" THEN "execute" ELSE "reconcile",
     operation |-> r,
     captured |-> IF refund.status = "created" THEN refund.capturedBefore ELSE refund.captured,
     refunded |-> IF refund.status = "created" THEN refund.refundedBefore ELSE refund.refunded,
     obs |-> NoRefundObservation]

\* The handler goes on with operation r as recorded in `refund`.
Handling(r, refund, newlyClaimed) ==
    [pc |-> IF newlyClaimed THEN "execute" ELSE "reconcile", operation |-> r,
     captured |-> IF refund.status = "created" THEN refund.capturedBefore ELSE refund.captured,
     refunded |-> IF refund.status = "created" THEN refund.refundedBefore ELSE refund.refunded,
     obs |-> NoRefundObservation]

\* The case of this evidence: the recorded one, or a new one with an entitlement
\* decided from source facts, which takes a captured payment.
CaseFor(k, s, entitled) ==
    IF cases[k][s].open THEN cases[k][s]
    ELSE [open |-> TRUE, entitled |-> entitled, refundedBefore |-> purchases[k].refunded]

\* Mutant: what was already returned is not subtracted.
PayableAgain(k, case) == Lesser(case.entitled, purchases[k].captured)

\* What a new operation would return: the entitlement that is captured and not
\* yet returned.  Nothing when it is not positive.
Payable(k, case) ==
    LET due == Lesser(case.entitled, purchases[k].captured)
    IN IF due > purchases[k].refunded THEN due - purchases[k].refunded ELSE 0

\* The request is unknown, or recorded for the same purchase and evidence with
\* no operation yet.
Recordable(r, k, s) ==
    \/ requests[r] = Unrequested
    \/ requests[r] = [key |-> k, source |-> s, operation |-> NoRequest]

\* Recording a request stops the renewal (apply_annual_refund_request_v1).
Recorded(r, k, s, case, operation) ==
    /\ cases' = [cases EXCEPT ![k][s] = case]
    /\ requests' = [requests EXCEPT ![r] = [key |-> k, source |-> s, operation |-> operation]]
    /\ purchases' = [purchases EXCEPT ![k].canceled = TRUE]
    /\ UNCHANGED <<withdrawn, tasks, posts, vipps, refundPosts, refundDone, stopVars>>

Claimable(h, r, k, s) ==
    /\ refundTasks[h].pc = "idle"
    /\ Recordable(r, k, s)
    /\ cases[k][s].open \/ purchases[k].captured > 0

\* claim_refund inserts the operation and wins the right to execute it.
ClaimRefund(h, r, k, s, entitled) ==
    LET case == CaseFor(k, s, entitled)
        refund == [key |-> k, source |-> s, status |-> "created", amount |-> Payable(k, case),
                   capturedBefore |-> purchases[k].captured, refundedBefore |-> purchases[k].refunded,
                   captured |-> 0, refunded |-> 0]
    IN
    /\ Claimable(h, r, k, s)
    /\ Unresolved(k) = {}
    /\ Payable(k, case) > 0
    /\ Recorded(r, k, s, case, r)
    /\ refunds' = [refunds EXCEPT ![r] = refund]
    /\ refundTasks' = [refundTasks EXCEPT ![h] = Handling(r, refund, TRUE)]

\* claim_refund binds the request to the unresolved operation of the same case.
BindRefund(h, r, k, s) ==
    /\ Claimable(h, r, k, s)
    /\ cases[k][s].open
    /\ \E u \in Unresolved(k) :
          /\ refunds[u].source = s
          /\ Recorded(r, k, s, cases[k][s], u)
          /\ refundTasks' = [refundTasks EXCEPT ![h] = Handling(u, refunds[u], FALSE)]
    /\ UNCHANGED refunds

\* claim_refund only records the liability: another case's refund is unresolved,
\* or there is nothing to return.
DeferRefund(h, r, k, s, entitled) ==
    LET case == CaseFor(k, s, entitled) IN
    /\ Claimable(h, r, k, s)
    /\ IF Unresolved(k) = {} THEN Payable(k, case) = 0
       ELSE \A u \in Unresolved(k) : refunds[u].source # s
    /\ Recorded(r, k, s, case, NoRequest)
    /\ UNCHANGED <<refunds, refundTasks>>

\* claim_refund of a bound request, and the owner's and support's recovery of
\* one: load its operation and, unless it is final, read the provider.
ResumeRefund(h, r) ==
    LET q == requests[r].operation IN
    /\ refundTasks[h].pc = "idle"
    /\ q # NoRequest
    /\ refunds[q].status \in UnresolvedStatus
    /\ refundTasks' = [refundTasks EXCEPT ![h] = Handling(q, refunds[q], FALSE)]
    /\ UNCHANGED <<checkoutVars, cases, requests, refunds, refundPosts, refundDone, stopVars>>

AbandonRefund(h) ==
    /\ refundTasks[h].pc # "idle"
    /\ refundTasks' = [refundTasks EXCEPT ![h] = NoRefundTask]
    /\ UNCHANGED <<checkoutVars, cases, requests, refunds, refundPosts, refundDone, stopVars>>

-----------------------------------------------------------------------------
(* Executing, reading and settling a refund. *)

RefundAnswered(h, obs) ==
    refundTasks' = [refundTasks EXCEPT ![h].pc = "settle", ![h].captured = 0,
                                       ![h].refunded = 0, ![h].obs = obs]

RefundSide == <<checkoutVars, cases, requests, refunds, stopVars>>

\* _execute for a refund: agreement and charge were read, the refund is POSTed.
SendRefund(h) ==
    LET r == refundTasks[h].operation IN
    /\ refundTasks[h].pc = "execute"
    /\ refundPosts[r] < MaxPosts
    /\ refundPosts' = [refundPosts EXCEPT ![r] = @ + 1]
    /\ refundTasks' = [refundTasks EXCEPT ![h].pc = "await"]
    /\ UNCHANGED <<RefundSide, refundDone>>

\* _validate_observation of annual_refund.
ValidRefundObservation(refund, obs) ==
    /\ refund.capturedBefore <= obs.captured
    /\ refund.refundedBefore <= obs.refunded /\ obs.refunded <= obs.captured
    /\ obs.status = "confirmed" => obs.refunded >= refund.refundedBefore + refund.amount
    /\ obs.status = "failed" => obs.refunded = refund.refundedBefore

\* The charge is read, after the POST's 204 answer or to reconcile: the refund is
\* confirmed when the history holds it under its own key, and unknown otherwise.
ReadRefund(h) ==
    LET r == refundTasks[h].operation
        account == vipps[refunds[r].key]
        read == [status |-> IF refundDone[r] THEN "confirmed" ELSE "unknown",
                 captured |-> account.captured, refunded |-> account.refunded]
    IN
    /\ refundTasks[h].pc \in {"await", "reconcile"}
    /\ ValidRefundObservation(refunds[r], read)
    /\ RefundAnswered(h, read)
    /\ UNCHANGED <<RefundSide, refundPosts, refundDone>>

\* No usable answer: UNKNOWN with the totals the operation had.
NoRefundAnswer(h) ==
    /\ refundTasks[h].pc \in {"execute", "await", "reconcile"}
    /\ RefundAnswered(h, [status |-> "unknown", captured |-> refundTasks[h].captured,
                          refunded |-> refundTasks[h].refunded])
    /\ UNCHANGED <<RefundSide, refundPosts, refundDone>>

\* Mutant: confirming keeps the totals of the observation before.
RefundSettledStatusOnly(refund, obs) ==
    IF refund.status \in {"confirmed", "failed"} THEN refund ELSE [refund EXCEPT !.status = obs.status]

\* settle_refund of annual_refund: final evidence stays, obsolete totals are dropped.
RefundSettled(refund, obs) ==
    IF \/ refund.status \in {"confirmed", "failed"}
       \/ refund.status # "created"
          /\ (obs.refunded < refund.refunded \/ obs.captured < refund.captured)
    THEN refund
    ELSE [refund EXCEPT !.status = obs.status, !.captured = obs.captured, !.refunded = obs.refunded]

\* Mutant: only the status is carried over.
PurchaseAfterRefundStatusOnly(row, obs) ==
    [row EXCEPT !.status = IF obs.status = "confirmed" /\ obs.captured = Gross /\ obs.refunded = Gross
                           THEN "refunded" ELSE @]

\* Mutant: a confirmed partial refund frees the company-year.
PurchaseAfterRefundEarly(row, obs) ==
    [row EXCEPT !.captured = Greater(row.captured, obs.captured),
                !.refunded = Greater(row.refunded, obs.refunded),
                !.status = IF obs.status = "confirmed" THEN "refunded" ELSE @]

\* Mutant: a refund that does not finish the purchase makes it pending.
PurchaseAfterRefundPending(row, obs) ==
    [row EXCEPT !.captured = Greater(row.captured, obs.captured),
                !.refunded = Greater(row.refunded, obs.refunded),
                !.status = IF obs.status = "confirmed" /\ obs.captured = Gross /\ obs.refunded = Gross
                           THEN "refunded" ELSE "pending"]

\* _settle_locked: totals only grow, and the purchase is refunded when a confirmed
\* refund leaves nothing of the whole price.
PurchaseAfterRefund(row, obs) ==
    LET captured == Greater(row.captured, obs.captured)
        refunded == Greater(row.refunded, obs.refunded)
    IN [row EXCEPT !.captured = captured, !.refunded = refunded,
            !.status = IF obs.status = "confirmed" /\ captured = Gross /\ refunded = captured
                       THEN "refunded" ELSE @]

\* settle_refund and settle_refund_recovery, under the purchase lock.
SettleRefund(h) ==
    LET r == refundTasks[h].operation
        obs == refundTasks[h].obs
        k == refunds[r].key
        settled == RefundSettled(refunds[r], obs)
    IN
    /\ refundTasks[h].pc = "settle"
    /\ refunds' = [refunds EXCEPT ![r] = settled]
    /\ purchases' = IF settled = refunds[r] THEN purchases
                    ELSE [purchases EXCEPT ![k] = PurchaseAfterRefund(@, obs)]
    /\ refundTasks' = [refundTasks EXCEPT ![h] = NoRefundTask]
    /\ UNCHANGED <<withdrawn, tasks, posts, vipps, cases, requests, refundPosts, refundDone, stopVars>>

\* The provider applies a POST, however late, once per operation key.
ProviderRefund(r) ==
    LET k == refunds[r].key IN
    /\ refundPosts[r] > 0 /\ ~refundDone[r]
    /\ vipps[k].refunded + refunds[r].amount <= vipps[k].captured
    /\ vipps' = [vipps EXCEPT ![k].refunded = @ + refunds[r].amount]
    /\ refundDone' = [refundDone EXCEPT ![r] = TRUE]
    /\ UNCHANGED <<purchases, withdrawn, tasks, posts, cases, requests, refunds,
                   refundTasks, refundPosts, stopVars>>

-----------------------------------------------------------------------------
(* Stopping the renewal and cleaning the agreement up. *)

\* cancel_renewal: the receipt, and the first one stops the renewal for good.
CancelRenewal(k) ==
    /\ purchases[k].status # "none" /\ ~purchases[k].canceled
    /\ purchases' = [purchases EXCEPT ![k].canceled = TRUE]
    /\ UNCHANGED <<withdrawn, tasks, posts, vipps, refundVars, stopVars>>

\* A refund of the whole price, confirmed with totals that show it.
WholeRefundConfirmed(k) ==
    \E r \in Requests :
        /\ refunds[r].key = k /\ refunds[r].status = "confirmed"
        /\ refunds[r].captured = Gross /\ refunds[r].refunded = Gross

\* annual_original_charge_resolved_v1: no stop may race money that is undecided.
ChargeResolved(k) ==
    LET row == purchases[k] IN
    /\ row.agreement /\ Unresolved(k) = {}
    /\ \/ row.status = "failed" /\ row.captured = 0 /\ row.op = "failed"
       \/ row.status \in {"paid", "refunded"} /\ row.captured = Gross /\ row.op = "confirmed"
       \/ row.status = "refunded" /\ row.captured = Gross /\ row.refunded = Gross
          /\ WholeRefundConfirmed(k)

StopSide == <<checkoutVars, refundVars>>

\* claim_agreement_cleanup: the one stop operation of the purchase, new or not.
ClaimCleanup(c, k) ==
    /\ stopTasks[c].pc = "idle"
    /\ purchases[k].canceled /\ ChargeResolved(k)
    /\ stops[k] # "confirmed"
    /\ stops' = [stops EXCEPT ![k] = IF @ = "none" THEN "created" ELSE @]
    /\ stopTasks' = [stopTasks EXCEPT ![c] =
                        [NoStopTask EXCEPT !.pc = IF stops[k] = "none" THEN "read" ELSE "check", !.key = k]]
    /\ UNCHANGED <<StopSide, stopPosts>>

\* Support's recovery of a recorded stop, which is only read and never sent again.
RecoverStop(c, k) ==
    /\ stopTasks[c].pc = "idle"
    /\ stops[k] \notin {"none", "confirmed"}
    /\ stopTasks' = [stopTasks EXCEPT ![c] = [NoStopTask EXCEPT !.pc = "observe", !.key = k]]
    /\ UNCHANGED <<StopSide, stops, stopPosts>>

StopAnswered(c, obs) == stopTasks' = [stopTasks EXCEPT ![c].pc = "settle", ![c].obs = obs]

\* Reconciling an earlier stop: confirmed, or execute it again under its key.
CheckStop(c) ==
    /\ stopTasks[c].pc = "check"
    /\ IF vipps[stopTasks[c].key].agreement = "stopped"
       THEN StopAnswered(c, "confirmed")
       ELSE stopTasks' = [stopTasks EXCEPT ![c].pc = "read"]
    /\ UNCHANGED <<StopSide, stops, stopPosts>>

\* The provider's charge can no longer collect or is wholly collected.
ChargeTerminal(account) ==
    \/ account.captured = Gross /\ account.charge = "charged"
    \/ account.captured = 0 /\ account.charge = "closed"

\* Mutant: the provider's charge is not read before the stop.
ReadStopUnchecked(c) ==
    LET account == vipps[stopTasks[c].key] IN
    /\ stopTasks[c].pc = "read"
    /\ CASE account.agreement = "stopped" -> StopAnswered(c, "confirmed")
         [] account.agreement = "active" ->
                stopTasks' = [stopTasks EXCEPT ![c].pc = "patch"]
         [] OTHER -> StopAnswered(c, "pending")
    /\ UNCHANGED <<StopSide, stops, stopPosts>>

\* _execute for a stop reads agreement and charge before it touches anything.
ReadStop(c) ==
    LET account == vipps[stopTasks[c].key] IN
    /\ stopTasks[c].pc = "read"
    /\ CASE account.agreement = "stopped" -> StopAnswered(c, "confirmed")
         [] account.agreement = "active" /\ ChargeTerminal(account) ->
                stopTasks' = [stopTasks EXCEPT ![c].pc = "patch"]
         [] OTHER -> StopAnswered(c, "pending")
    /\ UNCHANGED <<StopSide, stops, stopPosts>>

SendStop(c) ==
    /\ stopTasks[c].pc = "patch"
    /\ stopPosts' = stopPosts \cup {stopTasks[c].key}
    /\ stopTasks' = [stopTasks EXCEPT ![c].pc = "await"]
    /\ UNCHANGED <<StopSide, stops>>

\* The agreement is read once more after the 204 answer, or for support.
StopReply(c) ==
    /\ stopTasks[c].pc \in {"await", "observe"}
    /\ StopAnswered(c, IF vipps[stopTasks[c].key].agreement = "stopped" THEN "confirmed" ELSE "pending")
    /\ UNCHANGED <<StopSide, stops, stopPosts>>

NoStopAnswer(c) ==
    /\ stopTasks[c].pc \in {"read", "check", "patch", "await", "observe"}
    /\ StopAnswered(c, "unknown")
    /\ UNCHANGED <<StopSide, stops, stopPosts>>

\* settle_agreement_cleanup: confirmed evidence stays, anything else is replaced.
SettleStop(c) ==
    LET k == stopTasks[c].key IN
    /\ stopTasks[c].pc = "settle"
    /\ stops' = [stops EXCEPT ![k] = IF @ = "confirmed" THEN @ ELSE stopTasks[c].obs]
    /\ stopTasks' = [stopTasks EXCEPT ![c] = NoStopTask]
    /\ UNCHANGED <<StopSide, stopPosts>>

AbandonStop(c) ==
    /\ stopTasks[c].pc # "idle"
    /\ stopTasks' = [stopTasks EXCEPT ![c] = NoStopTask]
    /\ UNCHANGED <<StopSide, stops, stopPosts>>

\* The provider stops the agreement, which cancels a charge it still collects.
ProviderStop(k) ==
    /\ k \in stopPosts /\ vipps[k].agreement = "active"
    /\ vipps' = [vipps EXCEPT ![k].agreement = "stopped",
                              ![k].charge = IF @ = "open" THEN "closed" ELSE @]
    /\ UNCHANGED <<purchases, withdrawn, tasks, posts, refundVars, stopVars>>

-----------------------------------------------------------------------------

RefundStep(h) ==
    \/ \E r \in Requests, k \in Keys, s \in Sources :
          \/ \E entitled \in Money : ClaimRefund(h, r, k, s, entitled) \/ DeferRefund(h, r, k, s, entitled)
          \/ BindRefund(h, r, k, s)
    \/ \E r \in Requests : ResumeRefund(h, r)
    \/ SendRefund(h) \/ ReadRefund(h) \/ NoRefundAnswer(h) \/ SettleRefund(h) \/ AbandonRefund(h)

StopStep(c) ==
    \/ \E k \in Keys : ClaimCleanup(c, k) \/ RecoverStop(c, k)
    \/ CheckStop(c) \/ ReadStop(c) \/ SendStop(c) \/ StopReply(c) \/ NoStopAnswer(c)
    \/ SettleStop(c) \/ AbandonStop(c)

RefundOnlyStep ==
    \/ \E h \in Refunders : RefundStep(h)
    \/ \E c \in Cleaners : StopStep(c)
    \/ \E r \in Requests : ProviderRefund(r)
    \/ \E k \in Keys : CancelRenewal(k) \/ ProviderStop(k)

RefundNext ==
    \/ CheckoutNext /\ UNCHANGED <<refundVars, stopVars>>
    \/ RefundOnlyStep

RefundSpec == RefundInit /\ [][RefundNext]_annualVars

-----------------------------------------------------------------------------
(* Properties. *)

\* The provider never gives back more than some recorded case entitles the
\* customer to, nor is a refund POSTed that could: cases with different
\* entitlements, lost answers and late settlements included.
RefundWithinEntitlement ==
    \A k \in Keys :
        /\ vipps[k].refunded > 0 =>
              \E s \in Sources : cases[k][s].open /\ vipps[k].refunded <= cases[k][s].entitled
        /\ \A r \in Requests : refunds[r].key = k =>
              refunds[r].refundedBefore + refunds[r].amount
                  <= Lesser(cases[k][refunds[r].source].entitled, vipps[k].captured)

\* No krone is returned twice: the parts of a payment that two refund operations
\* return do not overlap, because a new one is computed from the totals only when
\* every earlier one is resolved and in them.
RefundsNeverOverlap ==
    \A q, r \in Requests :
        q # r /\ refunds[q].key = refunds[r].key /\ refunds[q].key # NoKey =>
            \/ refunds[q].refundedBefore + refunds[q].amount <= refunds[r].refundedBefore
            \/ refunds[r].refundedBefore + refunds[r].amount <= refunds[q].refundedBefore

\* An uncertain refund is never POSTed again, by a retry, a replay or a recovery.
RefundExecutedOnce == \A r \in Requests : refundPosts[r] <= 1

\* Recovery of a bound request is never refused by its own checks
\* (_load_bound_recovery and _validate_resolution): whatever checkout and refund
\* settlements interleave, the purchase's totals stay at or above what the
\* operation was computed from and what it has observed.
RecoveryNeverRefused ==
    \A p \in Requests : requests[p].operation # NoRequest =>
        LET refund == refunds[requests[p].operation]
            case == cases[requests[p].key][requests[p].source]
            row == purchases[requests[p].key]
        IN /\ refund.key = requests[p].key /\ refund.source = requests[p].source
           /\ case.refundedBefore <= refund.refundedBefore
           /\ refund.refundedBefore < refund.capturedBefore
           /\ refund.amount = Lesser(case.entitled, refund.capturedBefore) - refund.refundedBefore
           /\ refund.capturedBefore <= row.captured /\ refund.refundedBefore <= row.refunded
           /\ refund.captured <= row.captured /\ refund.refunded <= row.refunded

\* An agreement is stopped only for a purchase whose renewal was stopped and whose
\* original charge is over at the provider, so that the stop cannot cancel a
\* payment that is still being collected.
StopNeverCancelsCharge ==
    \A k \in stopPosts : purchases[k].canceled /\ ChargeTerminal(vipps[k])

\* A finished purchase is never stuck before cleanup: when no refund of it is
\* unresolved, the recorded evidence is enough for annual_original_charge_resolved_v1,
\* whichever of checkout and refund settlement finished it.
FinishedIsCleanable ==
    \A k \in Keys :
        purchases[k].status \in TerminalStatus /\ Unresolved(k) = {} => ChargeResolved(k)

=============================================================================
