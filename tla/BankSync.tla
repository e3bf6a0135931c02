------------------------------- MODULE BankSync -------------------------------
(***************************************************************************)
(* One bank connection with one account: consent, revocation and the paged  *)
(* synchronisation of bank facts.  Every database call is a transaction of  *)
(* its own and every call to the bank lies between two of them, so callers  *)
(* interleave at each call and may die before any.  A consent is the code   *)
(* the bank hands out for it and the session the code is exchanged for; the *)
(* account is the same under every session.  A page holds one fact, known   *)
(* by its source hash, and the bank lists a fact on the same page always.   *)
(***************************************************************************)
EXTENDS Naturals

CONSTANTS
  Callers,        \* requests in progress
  Keys,           \* sync requests: idempotency key, interval and request id
  LastPage,       \* pages of the interval; at most 1000 in the code
  MaxConsents,    \* bound: consents the bank begins
  Idle            \* a caller without a request

ASSUME PagesAreCounted == LastPage \in Nat \ {0}
ASSUME ConsentsAreCounted == MaxConsents \in Nat

Pages == 1 .. LastPage
Consents == 1 .. MaxConsents
None == 0                       \* no cursor, no session, no fact
Pending == 1
Booked == 2

VARIABLES
  connection,     \* banking.connections: status, recorded state and session
  account,        \* banking.accounts: its status
  attempts,       \* banking.sync_attempts by key; asOf is not stored
  coverage,       \* banking.coverage_intervals: the attempt and its completeness
  facts,          \* banking.transactions: the state of each page's fact
  bank,           \* the bank's facts, consents begun, codes spent, sessions alive
  shown,          \* consents whose redirect reached the owner
  calls           \* what each caller is about to do

bankVars == <<connection, account, attempts, coverage, facts, bank, shown, calls>>
access == <<connection, account, shown>>
collected == <<attempts, coverage, facts>>

NoAttempt == [status |-> "NONE", cursor |-> None, asOf |-> [p \in Pages |-> None]]

BankInit ==
  /\ connection = [status |-> "NONE", state |-> FALSE, session |-> None]
  /\ account = "NONE"
  /\ attempts = [k \in Keys |-> NoAttempt]
  /\ coverage = {}
  /\ facts = [p \in Pages |-> None]
  /\ bank = [facts |-> [p \in Pages |-> Pending], begun |-> 0, spent |-> {}, alive |-> {}]
  /\ shown = {}
  /\ calls = [c \in Callers |-> Idle]

At(c, next) == calls[c] # Idle /\ calls[c].next = next
Goes(c, call) == calls' = [calls EXCEPT ![c] = call]
Ends(c) == Goes(c, Idle)

(* A request may die, or the database may fail it, before any of its steps. *)
Die(c) ==
  /\ calls[c] # Idle
  /\ Ends(c)
  /\ UNCHANGED <<access, collected, bank>>

-----------------------------------------------------------------------------
(* BankingConsentWorkflow.start: the row comes first, again for a repeated  *)
(* request, whatever became of the connection.                             *)
BeginConnection(c) ==
  /\ calls[c] = Idle
  /\ bank.begun < MaxConsents
  /\ connection' = IF connection.status = "NONE"
                   THEN [connection EXCEPT !.status = "CONSENT_PENDING"] ELSE connection
  /\ Goes(c, [next |-> "begin"])
  /\ UNCHANGED <<account, collected, bank, shown>>

BeginConsent(c) ==
  /\ At(c, "begin")
  /\ \/ /\ bank.begun < MaxConsents
        /\ bank' = [bank EXCEPT !.begun = @ + 1]
        /\ Goes(c, [next |-> "redirect", consent |-> bank.begun + 1])
     \/ bank' = bank /\ Goes(c, [next |-> "fail"])
  /\ UNCHANGED <<access, collected>>

RecordRedirect(c) ==
  /\ At(c, "redirect")
  /\ IF connection.status = "CONSENT_PENDING"
     THEN /\ connection' = [connection EXCEPT !.state = TRUE]
          /\ shown' = shown \cup {calls[c].consent}
     ELSE UNCHANGED <<connection, shown>>
  /\ Ends(c)
  /\ UNCHANGED <<account, collected, bank>>

(* fail_connection_v1 asks for no status.                                  *)
FailConnection(c) ==
  /\ At(c, "fail")
  /\ connection' = [connection EXCEPT !.status = "FAILED"]
  /\ Ends(c)
  /\ UNCHANGED <<account, collected, bank, shown>>

-----------------------------------------------------------------------------
(* BankingConsentWorkflow.complete: the bank may call back for a consent    *)
(* any number of times; an active connection is answered as it stands.     *)
Callback(c, n) ==
  /\ calls[c] = Idle /\ n \in shown
  /\ connection.status # "ACTIVE"
  /\ Goes(c, [next |-> "exchange", consent |-> n])
  /\ UNCHANGED <<access, collected, bank>>

(* A code opens one session.  The exchange fails, with or without effect,   *)
(* or names the session, again for a bank that lets itself be asked again. *)
ExchangeCode(c) ==
  /\ At(c, "exchange")
  /\ LET n == calls[c].consent
         opened == [bank EXCEPT !.spent = @ \cup {n}, !.alive = @ \cup {n}]
     IN  \/ /\ n \notin bank.spent /\ bank' = opened
            /\ \E next \in {"activate", "fail"} : Goes(c, [next |-> next, consent |-> n])
         \/ /\ bank' = bank
            /\ \/ n \in bank.alive /\ Goes(c, [next |-> "activate", consent |-> n])
               \/ Goes(c, [next |-> "fail"])
  /\ UNCHANGED <<access, collected>>

\* Mutant: only a failed connection cannot be completed any more.
CompletableUnlessFailed == connection.status # "FAILED" /\ connection.state

Completable == connection.status \in {"CONSENT_PENDING", "ACTIVE"} /\ connection.state

CompleteConnection(c) ==
  /\ At(c, "activate")
  /\ IF Completable
     THEN /\ connection' = [connection EXCEPT !.status = "ACTIVE", !.session = calls[c].consent]
          /\ account' = "ACTIVE"
     ELSE UNCHANGED <<connection, account>>
  /\ Ends(c)
  /\ UNCHANGED <<collected, bank, shown>>

-----------------------------------------------------------------------------
(* BankingConsentWorkflow.revoke.                                          *)
BeginRevocation(c) ==
  /\ calls[c] = Idle
  /\ connection.status = "ACTIVE"
  /\ connection' = [connection EXCEPT !.status = "REVOKING"]
  /\ account' = "DISCONNECTED"
  /\ Goes(c, [next |-> "revoke", session |-> connection.session])
  /\ UNCHANGED <<collected, bank, shown>>

RevokeConsent(c) ==
  /\ At(c, "revoke")
  /\ LET closed == [bank EXCEPT !.alive = @ \ {calls[c].session}]
     IN  \/ bank' = closed /\ Goes(c, [next |-> "revoked"])
         \/ bank' \in {bank, closed} /\ Ends(c)
  /\ UNCHANGED <<access, collected>>

CompleteRevocation(c) ==
  /\ At(c, "revoked")
  /\ connection' = IF connection.status = "REVOKING"
                   THEN [status |-> "REVOKED", state |-> FALSE, session |-> None]
                   ELSE connection
  /\ Ends(c)
  /\ UNCHANGED <<account, collected, bank, shown>>

-----------------------------------------------------------------------------
(* BankingSyncWorkflow.sync: a new attempt, or a started one that goes on   *)
(* at its checkpoint, the first page when there is none.  A decided attempt *)
(* is answered or refused.                                                 *)
Checkpoint(k) == IF attempts[k].cursor = None THEN 1 ELSE attempts[k].cursor

PrepareSync(c, k) ==
  /\ calls[c] = Idle
  /\ connection.status = "ACTIVE" /\ account = "ACTIVE"
  /\ attempts[k].status \in {"NONE", "STARTED"}
  /\ attempts' = IF attempts[k].status = "NONE"
                 THEN [attempts EXCEPT ![k] = [status |-> "STARTED", cursor |-> None,
                                               asOf |-> bank.facts]]
                 ELSE attempts
  /\ Goes(c, [next |-> "fetch", key |-> k, session |-> connection.session,
              page |-> Checkpoint(k)])
  /\ UNCHANGED <<access, coverage, facts, bank>>

FetchPage(c) ==
  /\ At(c, "fetch")
  /\ \/ /\ calls[c].session \in bank.alive
        /\ Goes(c, [next |-> "apply", key |-> calls[c].key, session |-> calls[c].session,
                    page |-> calls[c].page, seen |-> bank.facts[calls[c].page]])
     \/ Goes(c, [next |-> "fault", key |-> calls[c].key])
  /\ UNCHANGED <<access, collected, bank>>

\* Mutant: the page that is applied is what the fact becomes.
MergedLast(known, seen) == seen

(* Pending, booked and reversed facts only move forward.                   *)
Merged(known, seen) == IF seen > known THEN seen ELSE known
After(page) == IF page = LastPage THEN None ELSE page + 1

(* Facts and checkpoint commit together.                                   *)
Apply(k, page, seen) ==
  /\ facts' = [facts EXCEPT ![page] = Merged(@, seen)]
  /\ attempts' = [attempts EXCEPT ![k].cursor = After(page)]

ApplyPage(c) ==
  /\ At(c, "apply")
  /\ LET call == calls[c]
         k == call.key
     IN  \/ /\ attempts[k].status = "STARTED"
            /\ Apply(k, call.page, call.seen)
            /\ \/ Goes(c, [next |-> "fault", key |-> k])
               \/ Goes(c, IF call.page = LastPage THEN [next |-> "complete", key |-> k]
                          ELSE [next |-> "fetch", key |-> k, session |-> call.session,
                                page |-> After(call.page)])
         \/ /\ UNCHANGED <<attempts, facts>>
            /\ Goes(c, [next |-> "fault", key |-> k])
  /\ UNCHANGED <<access, coverage, bank>>

\* Mutant: whatever became of the attempt.
DecidesAnyway(k, status, completeness) ==
  /\ attempts' = [attempts EXCEPT ![k].status = status, ![k].cursor = None]
  /\ coverage' = coverage \cup {<<k, completeness>>}

(* complete_sync_v1 and fail_sync_v1 decide a started attempt.             *)
Decides(k, status, completeness) ==
  IF attempts[k].status = "STARTED"
  THEN /\ attempts' = [attempts EXCEPT ![k].status = status, ![k].cursor = None]
       /\ coverage' = coverage \cup {<<k, completeness>>}
  ELSE UNCHANGED <<attempts, coverage>>

CompleteSync(c) ==
  /\ At(c, "complete")
  /\ Decides(calls[c].key, "SUCCEEDED", "COMPLETE")
  /\ Ends(c)
  /\ UNCHANGED <<access, facts, bank>>

FailSync(c) ==
  /\ At(c, "fault")
  /\ Decides(calls[c].key, "FAILED", "GAP")
  /\ Ends(c)
  /\ UNCHANGED <<access, facts, bank>>

-----------------------------------------------------------------------------
(* The bank books what was pending.                                        *)
BankBooks(p) ==
  /\ bank.facts[p] = Pending
  /\ bank' = [bank EXCEPT !.facts[p] = Booked]
  /\ UNCHANGED <<access, collected, calls>>

Start(c) == BeginConnection(c) \/ BeginConsent(c) \/ RecordRedirect(c) \/ FailConnection(c)
Complete(c) ==
  (\E n \in Consents : Callback(c, n)) \/ ExchangeCode(c) \/ CompleteConnection(c)
Revoke(c) == BeginRevocation(c) \/ RevokeConsent(c) \/ CompleteRevocation(c)
Sync(c) ==
  \/ \E k \in Keys : PrepareSync(c, k)
  \/ FetchPage(c) \/ ApplyPage(c) \/ CompleteSync(c) \/ FailSync(c)

BankNext ==
  \/ \E c \in Callers : Start(c) \/ Complete(c) \/ Revoke(c) \/ Sync(c) \/ Die(c)
  \/ \E p \in Pages : BankBooks(p)

BankSpec == BankInit /\ [][BankNext]_bankVars

-----------------------------------------------------------------------------
(***************************************************************************)
(* An interval that counts as complete holds every fact of its pages, each  *)
(* at least in the state the bank had when the attempt was made: across     *)
(* resumed attempts, two callers on one attempt, pages that are applied     *)
(* long after they were fetched, and checkpoints that a slower caller sets  *)
(* back (apply_sync_page_v1, complete_sync_v1).                             *)
(***************************************************************************)
CompleteIsWhole ==
  \A k \in Keys : <<k, "COMPLETE">> \in coverage =>
    \A p \in Pages : facts[p] >= attempts[k].asOf[p]

(***************************************************************************)
(* A synchronisation is decided once: a caller that lags behind neither     *)
(* records a gap in an interval another caller completed nor completes one  *)
(* that failed (complete_sync_v1, fail_sync_v1).                            *)
(***************************************************************************)
DecidedOnce ==
  \A k \in Keys :
    /\ <<k, "COMPLETE">> \in coverage <=> attempts[k].status = "SUCCEEDED"
    /\ <<k, "GAP">> \in coverage <=> attempts[k].status = "FAILED"

(***************************************************************************)
(* A connection that is being revoked, is revoked or failed never collects  *)
(* anew, whichever callback comes late, and it is not called revoked before *)
(* the bank closed the session it kept (complete_connection_v1,             *)
(* complete_connection_revocation_v1).                                      *)
(***************************************************************************)
Over == connection.status \in {"REVOKING", "REVOKED", "FAILED"}
RevocationHolds ==
  [][/\ Over => Over' /\ \A k \in Keys : attempts[k].status = "NONE" => attempts'[k].status = "NONE"
     /\ connection'.status = "REVOKED" => connection.session \notin bank.alive]_bankVars
=============================================================================
