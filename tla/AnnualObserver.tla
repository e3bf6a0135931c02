----------------------------- MODULE AnnualObserver -----------------------------
(***************************************************************************)
(* The one-pass checkout observer.  A process that logs in as the one      *)
(* registered database principal leases a pending checkout, reads the      *)
(* provider with no transaction open, and settles what it saw only while   *)
(* its lease, its token and the principal's epoch are still the ones it    *)
(* was admitted with.  It runs beside the owners' requests of              *)
(* AnnualCheckout and settles with the same policy.                        *)
(*                                                                         *)
(* A claim draws a fresh lease token and raises the fence, and both are    *)
(* compared at every later step; the token alone stands for the pair, and  *)
(* a value counts as fresh when no pass and no lease holds it.  The epoch  *)
(* only grows, so all that is kept of it is whether the one a lease was    *)
(* bound to is still current.  Times become facts that change on their own *)
(* (an attempt falls due, a lease expires), and an expired lease, which    *)
(* nothing can revive, is kept as no lease at all.                         *)
(***************************************************************************)
EXTENDS AnnualCheckout, Sequences

CONSTANTS Observers,  \* processes running a pass
          Tokens,     \* lease tokens
          NoToken     \* no token

ASSUME NoTokenAssumption == NoToken \notin Tokens

VARIABLES
    passes,   \* observer -> its pass; lost in a crash
    work,     \* key -> the observation work of its checkout operation
    enabled,  \* the principal's registration is enabled
    accepted  \* the purchases in the order of their accepted_at

observerOnly == <<passes, work, enabled>>
observerVars == <<purchases, withdrawn, tasks, posts, vipps, passes, work, enabled, accepted>>

Pass == [pc : {"idle", "claimed", "reading", "settling"},
         key : Keys \cup {NoKey},
         token : Tokens \cup {NoToken},
         agreement : BOOLEAN,  \* the agreement bound to the intent it reads with
         answered : BOOLEAN,
         obs : Observation]

NoPass == [pc |-> "idle", key |-> NoKey, token |-> NoToken, agreement |-> FALSE,
           answered |-> FALSE, obs |-> NoObservation]

Work == [token : Tokens \cup {NoToken}, current : BOOLEAN, due : BOOLEAN, done : BOOLEAN]

\* A checkout nobody has admitted yet may be claimed at once.
NewWork == [token |-> NoToken, current |-> FALSE, due |-> TRUE, done |-> FALSE]

ObserverTypeOK ==
    /\ TypeOK
    /\ passes \in [Observers -> Pass]
    /\ work \in [Keys -> Work]
    /\ enabled \in BOOLEAN
    /\ accepted \in Seq(Keys)

ObserverInit ==
    /\ CheckoutInit
    /\ passes = [o \in Observers |-> NoPass]
    /\ work = [k \in Keys |-> NewWork]
    /\ enabled = TRUE
    /\ accepted = << >>

-----------------------------------------------------------------------------

\* Mutant: an operation with an unknown outcome is not observed again.
CandidateUnlessUnknown(k) ==
    /\ purchases[k].status = "pending" /\ purchases[k].op \in {"created", "pending"}
    /\ ~work[k].done /\ work[k].due /\ work[k].token = NoToken

\* annual_observer_candidate_v1 may offer this checkout.
Candidate(k) ==
    /\ purchases[k].status = "pending" /\ purchases[k].op \in UnresolvedStatus
    /\ ~work[k].done /\ work[k].due /\ work[k].token = NoToken

\* Mutant: any live lease of the checkout will do.
AuthorizedByAnyLease(o) ==
    LET k == passes[o].key IN
    /\ passes[o].pc # "idle"
    /\ work[k].token # NoToken /\ work[k].current /\ ~work[k].done
    /\ enabled

\* annual_observer_authorize_v1 accepts the lease this pass carries.
Authorized(o) ==
    LET k == passes[o].key IN
    /\ passes[o].pc # "idle"
    /\ work[k].token = passes[o].token
    /\ work[k].current /\ ~work[k].done
    /\ enabled

\* No candidate was accepted before this one.  The query offers the first by
\* accepted_at, but skips purchases whose row another transaction holds locked.
First(k) ==
    \A i, j \in 1 .. Len(accepted) :
        i < j /\ accepted[j] = k => ~Candidate(accepted[i])

Fresh(token) == /\ \A k \in Keys : work[k].token # token
                /\ \A o \in Observers : passes[o].token # token

\* claim_checkout_observation: candidate, admit and authorize in one transaction.
ClaimObservation(o, k) ==
    /\ passes[o].pc = "idle"
    /\ enabled
    /\ Candidate(k)
    /\ \E token \in Tokens :
          /\ Fresh(token)
          /\ work' = [work EXCEPT ![k].token = token, ![k].current = TRUE]
          /\ passes' = [passes EXCEPT ![o] = [NoPass EXCEPT !.pc = "claimed", !.key = k,
                                              !.token = token, !.agreement = purchases[k].agreement]]
    /\ UNCHANGED <<checkoutVars, enabled, accepted>>

\* authorize_checkout_observation, in a transaction of its own before the read.
AuthorizePass(o) ==
    /\ passes[o].pc = "claimed"
    /\ Authorized(o)
    /\ passes' = [passes EXCEPT ![o].pc = "reading"]
    /\ UNCHANGED <<checkoutVars, work, enabled, accepted>>

\* reconcile answers; an answer the policy rejects is dropped.
ReadPass(o) ==
    LET account == vipps[passes[o].key]
        read == CheckoutRead(account)
    IN
    /\ passes[o].pc = "reading"
    /\ account.agreement # "absent"
    /\ passes' = [passes EXCEPT ![o].pc = "settling", ![o].answered = ValidObservation(read),
                                ![o].agreement = FALSE,
                                ![o].obs = IF ValidObservation(read) THEN read ELSE NoObservation]
    /\ UNCHANGED <<checkoutVars, work, enabled, accepted>>

\* The adapter answers UNKNOWN with no money, or the pass times out with nothing.
SilentPass(o) ==
    /\ passes[o].pc = "reading"
    /\ \E answered \in BOOLEAN :
          passes' = [passes EXCEPT
              ![o].pc = "settling", ![o].answered = answered, ![o].agreement = FALSE,
              ![o].obs = [NoObservation EXCEPT !.agreement = answered /\ passes[o].agreement]]
    /\ UNCHANGED <<checkoutVars, work, enabled, accepted>>

\* What settle_checkout_observation writes to the purchase.
PassResult(o) == IF passes[o].answered THEN Settle(purchases[passes[o].key], passes[o].obs)
                 ELSE purchases[passes[o].key]

\* Mutant: a settled pass finishes the work whatever it saw.
SettlePassFinishing(o) ==
    LET k == passes[o].key IN
    /\ passes[o].pc = "settling"
    /\ Authorized(o)
    /\ purchases' = [purchases EXCEPT ![k] = PassResult(o)]
    /\ work' = [work EXCEPT ![k].token = NoToken, ![k].current = FALSE, ![k].due = FALSE,
                            ![k].done = TRUE]
    /\ passes' = [passes EXCEPT ![o] = NoPass]
    /\ UNCHANGED <<withdrawn, tasks, posts, vipps, enabled, accepted>>

\* settle_checkout_observation: lock, authorize, settle and finish, or nothing.
SettlePass(o) ==
    LET k == passes[o].key IN
    /\ passes[o].pc = "settling"
    /\ Authorized(o)
    /\ purchases' = [purchases EXCEPT ![k] = PassResult(o)]
    /\ work' = [work EXCEPT ![k].token = NoToken, ![k].current = FALSE, ![k].due = FALSE,
                            ![k].done = PassResult(o).status \in TerminalStatus]
    /\ passes' = [passes EXCEPT ![o] = NoPass]
    /\ UNCHANGED <<withdrawn, tasks, posts, vipps, enabled, accepted>>

\* A pass whose authority is gone ends with an error and no write.
RefusePass(o) ==
    /\ passes[o].pc \in {"claimed", "settling"}
    /\ ~Authorized(o)
    /\ passes' = [passes EXCEPT ![o] = NoPass]
    /\ UNCHANGED <<checkoutVars, work, enabled, accepted>>

\* The process is killed, times out as a whole, or loses the database.
DropPass(o) ==
    /\ passes[o].pc # "idle"
    /\ passes' = [passes EXCEPT ![o] = NoPass]
    /\ UNCHANGED <<checkoutVars, work, enabled, accepted>>

-----------------------------------------------------------------------------
(* The clock and the administrator. *)

LeaseExpires(k) ==
    /\ work[k].token # NoToken
    /\ work' = [work EXCEPT ![k].token = NoToken, ![k].current = FALSE]
    /\ UNCHANGED <<checkoutVars, passes, enabled, accepted>>

AttemptDue(k) ==
    /\ ~work[k].due
    /\ work' = [work EXCEPT ![k].due = TRUE]
    /\ UNCHANGED <<checkoutVars, passes, enabled, accepted>>

\* Any update of the registration raises its epoch (annual_observer_guard_v1).
UpdatePrincipal ==
    /\ enabled' \in BOOLEAN
    /\ work' = [k \in Keys |-> [work[k] EXCEPT !.current = FALSE]]
    /\ UNCHANGED <<checkoutVars, passes, accepted>>

-----------------------------------------------------------------------------

PassStep(o) ==
    \/ \E k \in Keys : ClaimObservation(o, k)
    \/ AuthorizePass(o) \/ ReadPass(o) \/ SilentPass(o)
    \/ SettlePass(o) \/ RefusePass(o) \/ DropPass(o)

ObserverOnlyStep ==
    \/ \E o \in Observers : PassStep(o)
    \/ \E k \in Keys : LeaseExpires(k) \/ AttemptDue(k)
    \/ UpdatePrincipal

\* The purchase a checkout step accepts, if it accepts one.
NewlyAccepted == {k \in Keys : purchases[k].status = "none" /\ purchases'[k].status # "none"}

ObserverNext ==
    \/ /\ CheckoutNext
       /\ accepted' = IF NewlyAccepted = {} THEN accepted
                       ELSE Append(accepted, CHOOSE k \in NewlyAccepted : TRUE)
       /\ UNCHANGED observerOnly
    \/ ObserverOnlyStep

ObserverSpec == ObserverInit /\ [][ObserverNext]_observerVars

-----------------------------------------------------------------------------
(* Properties. *)

\* At most one pass holds authority over a checkout at any time, whatever leases
\* have expired under passes that are still running: a late pass finds its token
\* replaced, and the work it comes back to is not its own.
SingleAuthority ==
    \A o, p \in Observers :
        Authorized(o) /\ Authorized(p) /\ passes[o].key = passes[p].key => o = p

\* A pending checkout is never lost to the observer: its work is not marked done
\* and its operation is still unresolved, so a later pass can claim it.
PendingStaysObservable ==
    \A k \in Keys : purchases[k].status = "pending" =>
        ~work[k].done /\ purchases[k].op \in UnresolvedStatus

\* The provider's answer about the checkout is final and usable.
Decided(k) ==
    \/ vipps[k].charge = "charged"
    \/ vipps[k].charge = "closed" /\ vipps[k].captured = 0

\* What keeps a pass from ending well: it dies, gets no answer although the
\* provider holds the agreement, outlives its lease, finds the first candidate
\* locked, or the registration changes under it.
Disturbance ==
    \/ \E o \in Observers : DropPass(o)
    \/ \E o \in Observers : SilentPass(o) /\ vipps[passes[o].key].agreement # "absent"
    \/ \E o \in Observers, k \in Keys : ClaimObservation(o, k) /\ ~First(k)
    \/ \E k \in Keys : LeaseExpires(k) /\ \E o \in Observers : passes[o].token = work[k].token
    \/ UpdatePrincipal

\* Passes are run again and again, each of them steps on (every wait in it has a
\* timeout), and time passes.  No customer, owner or administrator has to act.
ObserverFairness ==
    /\ \A o \in Observers :
          WF_observerVars(\E k \in Keys : ClaimObservation(o, k))
    /\ \A o \in Observers :
          WF_observerVars(AuthorizePass(o) \/ ReadPass(o) \/ SilentPass(o)
                             \/ SettlePass(o) \/ RefusePass(o))
    /\ \A k \in Keys : WF_observerVars(LeaseExpires(k)) /\ WF_observerVars(AttemptDue(k))

FairObserverSpec == ObserverSpec /\ ObserverFairness

\* No purchase accepted before this one is still pending.
FirstInLine(k) ==
    \A i, j \in 1 .. Len(accepted) :
        i < j /\ accepted[j] = k => purchases[accepted[i]].status # "pending"

\* Once the provider has decided, the pending checkout that is first in line is
\* eventually recorded as decided, with no owner polling and after any number of
\* dead, late or silent passes, provided these end at some time and the principal
\* stays enabled.  Behind an older checkout that stays pending no such promise can
\* be made: a pass takes the oldest candidate that is due, and the older one may
\* be due again whenever a pass is run.
EventuallyRecorded ==
    <>[][~Disturbance]_observerVars /\ <>[]enabled =>
        \A k \in Keys :
            (Decided(k) /\ purchases[k].status = "pending" /\ FirstInLine(k))
                ~> (purchases[k].status # "pending")

=============================================================================
