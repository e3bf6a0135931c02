# Talli in TLA+

A verification project for the backend of Talli (`src/apps/backend`), an accounting
service for Norwegian holding companies. It models the parts of the program where a
wrong order of steps costs money or breaks the books: the annual billing, the filing of
the shareholder register with the authority (RF-1086), the ledger of a company year with
the corporate events that post to it, the collection of bank transactions, and the lots
of an investment with its events and settlements. The models are checked with TLC on
small instances; the safety properties of the annual billing (checkout, observer, refunds
and cleanup), of sending a filing and reading its feedback, of the ledger year, of the
corporate events and of the bank collection are proved with TLAPS for every instance.

## 1. Inventory

### 1.1 Annual billing

An owner buys one *company-year* for a fixed price. The purchase and every exchange
with the payment provider (Vipps) live in PostgreSQL; the code never holds a lock
while it talks to the provider. All parts share one discipline: *commit the intent,
call the provider at most once, read afterwards, settle what was seen under the row
lock*.

| part | code (`talli_backend/`) | state | operations |
|---|---|---|---|
| checkout | `modules/billing/annual_service.py`, `adapters/postgres_annual_checkout.py` | `annual_purchases`, its checkout row in `annual_operations`, withdrawal receipts | start (find or claim), withdraw, execute, reconcile, settle, poll |
| settlement policy | `modules/billing/annual_settlement.py` | none | validate an observation, drop an obsolete one, decide the outcome |
| observer | `modules/billing/annual_observation.py`, `adapters/postgres_annual_observation.py`, migration `20260907153938` | observation work with lease, token, fence; the principal's registration and epoch | claim a candidate, authorise, read, settle and finish |
| refunds | `modules/billing/annual_refund.py`, `adapters/postgres_annual_refund.py`, migration `20260905141500` | refund cases, requests, refund operations | claim, defer, bind, execute, read, recover, settle |
| cancellation and cleanup | `annual_cleanup.py`, `annual_support_cleanup.py` and their adapters, migrations `20260905100130`, `20260905145000` | renewal flag, stop operation | cancel renewal, claim a stop, check, stop, settle, recover |
| refund policy | `modules/billing/annual_policy.py` | none | entitlement, amount due, VAT, deadline |
| provider adapter | `adapters/vipps_billing.py` | none (the provider is external) | create agreement, read agreement and charge, refund, stop |
| notification inbox | `adapters/vipps_webhook.py`, `postgres_annual_notifications.py` | received notifications | store; settles nothing |
| legacy billing | `modules/billing/service.py`, `supabase_billing.py` | simulated subscriptions | start, cancel |

How they interact. Checkout, observer and refunds write the same purchase row: each
reads the provider at its own time, with no lock held, and settles later under the row
lock, so that a settlement can be older than what the row already says. The refund
claims lock the purchase and compute their amount from its totals. Cleanup may only
run when checkout and refunds have left evidence that the original charge is over.
The database adds its own rules: unique keys, one open purchase per company-year, one
unresolved refund per purchase, CHECK constraints, and the trigger
`guard_annual_evidence_v1`, which refuses any update that rewrites evidence.

What is hard: handlers die between any two steps; answers are lost or late; clients
repeat keys, withdraw while another request claims, and use several keys for one
company-year; two handlers read and settle in different orders; leases expire below
running passes; a charge may be captured or refunded in parts.

What makes it correct: a company-year is never paid for twice, no uncertain POST is
repeated, no record is ahead of the provider, money and final statuses never go back,
no krone is refunded twice or without an entitlement, a stop never cancels a payment,
and a decided checkout is recorded in the end.

### 1.2 Filing the shareholder register

| part | code | state | operations |
|---|---|---|---|
| operation journal | `modules/shareholder_register_filing/production.py`, `adapters/postgres_shareholder_register_filing.py`, `adapters/rf1086_authority.py` | approvals, submissions with a status, an append-only journal of operations | approve, begin, prepare, send, record the outcome, resume |
| feedback | `feedback.py`, the same adapter | feedback state, a lease, document rows and files, reconciliations | claim, read the archive, store a document, append a verdict, release |

Each mutation (main form, forms, confirmation) is journaled before and after the
exchange; no transaction spans it. What is hard: a process dies or two requests race
between the two; the authority acts and its answer is lost; the success cannot be
journaled; a reconciler outlives its lease of five minutes; a file is stored and its row
is not, or the insert is ambiguous. What makes it correct: each operation reaches the
authority under one key, nothing of unknown outcome is sent again, the confirmation
covers complete forms, a verdict is the authority's own, and evidence is not lost.

### 1.3 Ledger and corporate governance

| part | code | state | operations |
|---|---|---|---|
| account policy | `modules/ledger/service.py` (`recognize_holding_action`) | none | the journal of an event, the lines of an opening component |
| event chains | the ledger's lifecycle migrations, `application/corporate_governance_workflow.py` | opening components, recorded phases, bank matches, journals | record a phase, claim its bank transaction, replay, reverse |
| company year | `modules/ledger/service.py`, `adapters/supabase_ledger.py`, `application/ledger_workflow.py`, migrations `20260827*` | entries, corrections, period lock, assessments, closes, close lock, receipts | post, correct, reverse, lock, assess, close |

An event is one transaction of governance, ledger and banking. A ledger command is one
transaction with a receipt; the adapter sends it twice when its answer is lost, and a
close reads twice before it commits. What is hard: keys are reused across commands, the
year is locked or closed between two attempts, something is posted between the reads of
a close and its commit, phases arrive out of order or twice or on top of an opening.
What makes it correct: a refused booking is not in the books, a close is over the
assessed books, books agree with the bank and with how far each event came.

### 1.4 Banking

| part | code | state | operations |
|---|---|---|---|
| consent | `application/banking_consent.py`, `adapters/enable_banking.py`, `supabase_banking.py` | the connection's status, consent state and session | start, callback, revoke |
| synchronisation | `application/banking_sync.py`, the same adapters | attempts with a checkpoint, facts, coverage intervals | prepare, fetch and apply a page, complete, fail |

What is hard: a page loop fails in the middle; two callers work on one attempt; a page is
applied long after it was fetched; a callback comes twice, late, or after a revocation.
What makes it correct: a complete interval has all its facts, an attempt is decided once,
a connection that is over stays over.

### 1.5 Investments

| part | code | state | operations |
|---|---|---|---|
| recognition | `application/investments_workflow.py`, `modules/investments/service.py`, migrations `20260901113000` to `20260901115000` | positions (units, book and tax value), acquisition lots, economic events, the allocation of each sale | recognize a purchase, a sale, an income |
| settlement | the same, `20260901117000` | cash settlements, each with a bank transaction | settle |
| measurement | `20260901203025` | one measurement per position and year | measure at year end |
| correction | `20260901116000`, `20260901100000` (`link_investment_correction_v1`) | corrections; the settlement a settlement supersedes | correct an event, correct a settlement |

Each operation is one transaction that also posts a journal and, when cash moves, claims
the bank transaction. What is hard: a sale takes lots in the order of acquisition, while
purchases may be recorded late; the cost of a part is rounded to cents; a measurement
spreads a value over lots in fractions of a cent, and journals have none; a correction must
restore what later events have not used yet. What makes it correct: position, lots, ledger
and bank agree, and no share or cost is lost or used twice.

### 1.6 The other parts

| part | state and operations | hard behaviour | status |
|---|---|---|---|
| authority connections | connection state; a started and completed audit around each provider operation | a crash between the two | planned |
| notification inbox, legacy billing | received notifications; simulated subscriptions | repeated deliveries | planned |
| company access | memberships, invitations | races of accept and cancel | planned |
| company tax, annual accounts | calculations and rendered forms | pure functions | not planned |
| documents, marketing, validation observation, audit | rows | none to speak of | not planned |
| HTTP layer, web application, API client, vendored schemas and logs | | | not modelled |

## 2. The modules

```
AnnualSettlement        rows, observations, Settle, the database's two guards (pure)
  AnnualCheckout        the checkout protocol and the provider
    AnnualObserver      checkout and observer processes
      AnnualCheckoutProofs  theorems of both
    AnnualRefund        checkout, refunds, cancellation and cleanup
      AnnualRefundProofs    its theorems, over the checkout's, and the policy's
AnnualPromise           what a customer is promised (abstract)
AnnualPolicy            the refund policy
Rf1086Journal           sending an approved filing
Rf1086Feedback          reading the authority's feedback
  Rf1086Proofs          theorems of both
FiniteSums              what sums over finite sets are (theorems)
LedgerRecognition       journals of corporate events and opening components (pure)
  CorporateEvents       recording, claiming and reversing events over an opening
    CorporateEventsProofs   its theorems
LedgerYear              posting, correcting, locking, assessing and closing a year
  LedgerYearProofs      its theorems
BankSync                consent, revocation and synchronisation of one connection
  BankSyncProofs        its theorems
Investments             lots, events, settlements and the measurement of one position
  InvestmentsProofs     its theorems
MC*                     instances for TLC
```

**AnnualSettlement** is `settle_annual_checkout`. A `Row` is a purchase joined with its
checkout operation, as `_checkout` reads them. Money is counted in units of which
`Gross` make the price, so that `Gross = 2` already has partial captures and refunds.
`Settle` is the whole policy; `PurchaseChecks` and `EvidenceGuard` are the CHECK
constraints and the trigger. They are not guards of the model: the model writes what
the policy returns, and the properties say that the database would not have refused.

**AnnualCheckout** has one action per transaction and one per exchange with the
provider. A handler (`tasks[w]`) is at one of the points where the code holds no lock:
`claim` (the key was looked up and not found), `execute`, `await` (POST sent),
`reconcile`, `settle`. `Abandon` ends a request anywhere: a crash, or a refusal that
writes nothing. `posts` counts the POSTs of a key; nothing in the code bounds it but the
protocol, which `ExecutedOnce` is about. The provider (`vipps`) is external: it receives
a POST as late as it likes, ignores a repeated one, lets the customer approve or lapse,
and captures in parts. `NoAnswer` stands for every way in which the adapter answers
UNKNOWN.

**AnnualObserver** adds passes of observer processes, the work rows with their lease
token, the registration's `enabled` flag, and the order in which purchases were
accepted, by which candidates are chosen. The fence and the epoch are kept as what they
decide: a work row's claim is `current` until the registration changes or the lease ends.

**AnnualRefund** adds refund cases, requests, operations, their handlers, and the stop
of the agreement. `ReadRefund` requires the refund in the charge's history under its own
key (`refundDone`), as the adapter does.

**AnnualPolicy** is `annual_refund`: an instant is kept as year, month and whether it
is midnight of the month's first day, which is what the code looks at. It is a function without
state: that it agrees with reference definitions by counting (`EntitlementIsUnusedShare`,
`DeadlineIsFifthWeekday`) is proved, and TLC evaluates it as an assumption of MCAnnualRefund
(`PolicyAgrees`: price 149000, blocks in every month from the year before the income year to the
second after it, every reason and weekday).

**AnnualPromise** is the abstract specification: a request is decided once, a purchase
takes its final standings in order, and a company-year is sold again only when nothing
occupies it. `KeepsPromise` (the abstract `Spec` under the substitution at the end of
AnnualCheckout) is checked for the checkout alone and together with refunds.

**Rf1086Journal** sends one submission per approval: `tasks` is what a request knows
between two transactions, `wire` what is on its way, `held` what the authority has
processed, and under which keys. `Resumed` is the rule that decides whether an operation
is sent again, `Allowed` and `NewStatus` are what the journal's append function accepts
and makes of the submission. `LoseSuccess` is the handler that catches its own failure to
journal a success and journals a failure instead.

**Rf1086Feedback** has the steps of one reconciliation: claim, read, store a document's
file, insert its row, look again after an ambiguous insert, roll the file back, append
the verdict while the lease is held, release. A document is the facts the classifier
looks at.

**LedgerRecognition** and **CorporateEvents**: a phase is recorded when the chain of its
reference allows it over the opening and the recorded phases (`ChainAllows`); the event
posts `Lines`, and the claim of its bank transaction is part of the same step. A reversal posts
the opposite lines and leaves phase row and claim, as the code does. A loan is carried in on
the account of its maturity (`LoanAccount`: 2220 or 2380); what is disbursed or paid this year is
on 2220, whatever the opening said. Ledger receipts are
not kept apart from the events: both are written in one transaction.

**LedgerYear** keeps what each caller asked and was told (`calls`), so that the second
attempt after a lost answer, and the three transactions of a close, are steps of their
own. An entry is known by its source, a digest by the books it is computed from.

**BankSync** gives every database call and every call to the bank a step of its own. The
bank's facts move from pending to booked; `asOf` in an attempt is not stored by the code:
it is what the bank had when the attempt was made, for `CompleteIsWhole`.

**Investments** is one position. `register` is the position row with its lots, `events` and
`settlements` are in the order they were recorded, and `books` are the balances of the
accounts the journals touch. `Allocation` is the FIFO loop of a sale and does not change
anything; `Recognize` takes the register, the events and the balances it starts from, so
that a correction is what it is in the code: the register without the event
(`Without`), and the same recognition over it. The CHECK constraints of lots
(`LotChecks`) are guards here, since the transaction they refuse is rolled back. Amounts
are counted in parts of a cent, and `Portion`, `Rescaled`, `Source` and `CentExact` round
where SQL and `Money` do.

A definition preceded by a comment "Mutant" is a plausible bug in the definition that
follows it. No specification uses it: with it in place of the original, the property it
is meant for is violated.

## 3. The runs

| run | instance | shows |
|---|---|---|
| `checkout` | 2 handlers, 2 keys, 2 company-years, `Gross` 2, up to 2 POSTs | safety and the refinement of the checkout |
| `observer` | 1 handler, 2 observers, 2 tokens, 1 key, fair | lease and authority with late passes; a decided checkout is recorded |
| `refund` | 1 handler, 2 refund handlers, 2 requests, 2 cases, 1 cleanup handler | refunds among themselves, beside checkout and cleanup |
| `repurchase` | 2 keys for one company-year, 1 refund handler | refunding or failing and buying again |
| `rf1086_journal` | 1 submission, 2 requests, 1 form, 2 attempts per operation | each operation at the authority once |
| `rf1086_feedback` | 2 reconcilers, an acceptance and a refusal of another transmission, 2 reads, fair | evidence and verdict with overtaken reconcilers; a verdict is reached |
| `corporate_events` | 3 events, 1 reference, amounts 1 and 2, extras 0 and 1, 2 days, 3 bank transactions, 5 openings | books, bank and chains agree |
| `corporate_reduced_twice` | the same | a violation, see below |
| `ledger_year` | 2 callers, 2 keys, 2 records, 4 sources, 4 committed commands | refusals and close |
| `ledger_closed_year` | the same | a violation, see below |
| `bank_sync` | 2 callers, 2 requests, 2 pages, 2 consents | coverage, verdicts, revocation |
| `investments` | 4 events, purchases of 2 shares on 3 days, 2 costs, 2 observed values, 3 bank transactions | register, ledger and bank after rounding, measurement and corrections |

*Why the bounds are enough.* Every race of the code is between two parties over one row
(a key, a purchase, a submission, a company-year, an attempt), with the provider as a
third, so two of each are the smallest instance with all of them; a third repeats the
role of one of the two. Two company-years allow a withdrawal and a claim of one key for
different years. `Gross = 2` has all the comparisons of none, part and all; the fair
run uses 1, since a partial capture is left out there anyway. `MaxPosts = 2` is one more
than the code may send where `ExecutedOnce` and `RefundExecutedOnce` are checked. Two
observers and two tokens let a lease expire and be replaced while its first holder
still runs. One form beside the main form and the confirmation has every kind of
operation, and two attempts one retry and its limit. Three events reach every phase of a chain, or two
phases and a competitor; longer chains start from an opening that
carries phases: nothing, a paid increase, a decided reduction, a long-term loan or a short-term one. Four
committed commands are a posting, its correction or a second posting, an assessment and a
close, in every order and with both keys reused. Two pages have a checkpoint in the
middle and a last page. Four events are two purchases in either order of their days, a
sale over both and its correction, or a sale between two purchases; an odd cost over two
shares makes a half that is rounded, and six parts to a cent make thirds and halves exact,
quarters not. What is proved (section 5) needs none of its bounds.

*Types.* Type invariants document a module's state; only the checkout's is a property of a
run, and it is proved. The other runs spend their time on what could fail by itself.

*Symmetry* is used over sets whose members the specification treats alike, and in runs
without liveness only.

*Deadlock* is checked in no run: a system whose requests have ended and whose provider
has nothing left to do rests, and the bounds on attempts, commands and consents end the
others.

*Fairness.* `observer` assumes `ObserverFairness`:
passes are run again and again and take their next step (every wait in a pass is bounded:
10 to 12 seconds for the provider, 45 for the pass, 30 for the lease), leases end and
attempts become due. The repetition is the operator's: `run_once` does one pass, and
`docs/billing/annual-checkout-reconciliation.md` says that there is no automatic repeat.
No customer, owner or administrator, and no handler, has to act. `EventuallyRecorded`
further assumes that disturbances (dead, silent or late passes, a locked candidate, changes of the
registration) end at some time. `rf1086_feedback` assumes that the owner asks for
the status again and again, that a request that was made steps on, and that time passes;
`EventuallyDecided` further, that troubles (`FeedbackTrouble`) end and the archive has an
answer.

### What the runs do not promise

* A charge that ends after a *partial* capture is rejected as FAILED
  (`annual_settlement.py:48`) and never becomes anything else, so its purchase stays
  pending and occupies its company-year. `EventuallyRecorded` leaves it out (`Decided`).
* The observer takes the oldest candidate that is due. Behind an older checkout that
  stays pending, a younger one may wait for as long as passes come no faster than
  the older one is due again. Liveness is checked with one purchase under way.
* When the POST of a refund never arrives, its operation stays unknown and its
  reservation blocks other refunds of that purchase for good. This is the price of
  never repeating it; the code says so (`annual_refund.py:164`).
* Between an event's reversal and its replacement the chain still counts the reversed
  phase, and its bank transaction stays claimed. `IncreaseInBooks` and `LoanOwed` speak
  of chains without a reversal.
* Neither bank-loan account shows by itself what is owed: the principal of a short-term loan that
  the opening carries stays on 2380, its payments are debited to 2220. `LoanOwed` speaks of the two
  together.
* The books of a closed year change by more than linked corrections: owner dividends and
  shareholder loans are still booked. Without them, nothing else goes round the close
  (theorem `LinkedChanges`, section 5.4).
* A reconstruction whose answer is lost is refused at the second attempt when something
  was posted in between, although its assessment stands. A close over it is refused too.
* A synchronisation that began before a revocation applies its pages and completes.
* A recognized event that was corrected can still be settled: `prepare_cash_settlement_v2`
  asks for the amount and for no other settlement. The reversed payable or receivable then
  has a balance, as `BooksMatchRegister` computes it. A superseded settlement's bank
  transaction stays claimed.
* A year-end measurement is refused while the cost that is left is not exact in cents, or
  is below the book value after a rounded sale; a lot that a measurement left with a
  fraction of a cent cannot be sold whole, because `Money` rounds its share
  (`shared/kernel.py:104`) and the completion compares it with the column.
* A connection whose callback fails late becomes FAILED even when it was active, and one
  whose revocation the bank did not confirm stays REVOKING: neither is left again, and
  the session may stay alive at the bank. `RevocationHolds` says that nothing new is
  collected, and that a connection called revoked has no session.

### Where code and documents disagree

*Found by a run*, each against a line of `docs/accounting/supported-ledger-patterns.md`:

* `corporate_reduced_twice`: a decided capital reduction that the opening carries can be
  recognized directly and then registered as well, and lowers share capital twice
  (`20260827108000_ledger_loss_coverage_capital_reduction_lifecycle.sql:423`). Line 92 says that
  competing settlements fail.
* `ledger_closed_year`: `post_entry_with_id_v1` asks for the period lock and not for the close
  lock, so owner dividends and shareholder loans are booked in a closed year
  (`20260827100500_ledger_writer_coordinators.sql:791`). Line 70 says "After locking, only the linked
  correction flow may change economic effect."

*Met while reading, and modelled as the code does it:*

* Approvals are kept per approval and not per preview: a preview may be approved and sent
  again (`postgres_shareholder_register_filing.py:457`;
  `docs/filing/rf1086-production-submission-runbook.md:61`: "Never create duplicate logical
  submissions for the same confirmed preview.").
* When the success of an operation cannot be journaled, the handler journals a blocked
  failure and the submission reads as rejected, although the confirmation may be filed
  (`:681`;
  `docs/superpowers/specs/2026-07-16-rf1086-self-service-production-hardening-design.md:190`
  has it only on an explicit response).
* A document that cannot be stored ends as action required (`:786`;
  `docs/filing/rf1086-production-pilot-runbook.md:92` says `unknown`).
* A failed read of the archive is recorded as unknown (`feedback.py:124`; line 209 of the
  same design says `processing`).
* The opening carries a short-term bank loan on account 2380 (`modules/ledger/service.py:260`), which
  is accepted as the basis of payments (`20260827109000:833`), and the principal of every payment
  is debited to 2220 (`service.py:1419`): after it 2380 shows more than is owed, and 2220 a debit
  that belongs to no loan. `docs/accounting/supported-ledger-patterns.md:177` says "Present debt by
  contractual maturity".
* The correction of a *settled* investment event cannot commit: it makes the settlement of
  the replacement supersede the one of the original
  (`20260901205331_investments_settled_event_corrections.sql:360`), and the foreign key
  `cash_settlements_supersedes_same_event_fk` (`20260901116000`, line 27) asks both to be of one
  event. `tests/investments_capability_schema.test.mjs:1204` names the operation ("settled
  wrong-amount corrections bind both reversals atomically");
  `modules/investments/MODULE.md:82` has settled events blocked. `Investments` has no such step.

## 4. Correspondence and abstractions

`PROJECT.json` maps each definition to its lines. What is left out, and why that is
sound:

* *Fingerprints.* Requests that reuse a key with different content are refused before
  they change anything; the company-year is the only part of a fingerprint that is kept.
* *Authority.* A request whose session is refused changes nothing: it is `Abandon`, or
  never starts.
* *The offer, its terms and the checkout prerequisites* decide whether a claim is
  admitted. The model admits every claim the database would.
* *Timestamps.* `captured_at` is set exactly when `captured > 0`. Clocks appear as the
  events that depend on them (lease ends, attempt becomes due).
* *Row locks.* A transaction is one action; waiting for a lock is not a state of its own,
  except where the code skips locked rows (`ClaimObservation` of a key that is not `First`).
* *Renewal charges and CANCEL_CHARGE* have adapter code and no caller that is modelled.
* *Rf1086Journal.* The latest event of an operation is the one committed last; the code
  orders by `created_at`. Forms and readiness decide whether an approval is admitted.
* *Rf1086Feedback.* A commit whose answer was lost is decided by the time its caller reads
  again. In the run, the archive does not list the submitted forms, which a reader skips.
* *CorporateEvents.* The year is open and admitted; facts that only governance looks at
  (documents, approvals, relations' proofs) are taken as given; bank transactions are
  matched by nothing else. Only a carried loan has a maturity: the event of a disbursement has none,
  and is on the long-term account in the code. A replayed or a refused request changes nothing and has no
  step. A key is an owner together with an idempotency key.
* *LedgerYear.* A reconstruction is as of the last day of the year; the evidence of a
  close has the digest of the assessment it names; locks on a key that is in progress and
  the year's admission are left out; unbalanced and duplicate entries cannot be in the
  books by constraint, so that a close never meets these gaps. A refused call stays in
  `calls` for `RefusedIsNotBooked` until its caller leaves.
* *BankSync.* The bank lists a fact on the same page always and moves it from pending to
  booked (a reversed fact would be a third rank). Every consent of a connection has the
  same state, as with Enable Banking, so that any callback passes the check; other
  connectors allow fewer. A retry is the same request, its request id included, since the
  code's fingerprint includes it. Only the connection's owner acts. A connector that does
  not match, the caps of 1000 pages and of repeated cursors, encryption, counters, balances
  and covered dates are left out, and so are `REAUTH_REQUIRED` and `UNKNOWN`, which nothing sets.
* *Investments.* One position (a replacement has to keep it). The last event is the one recorded
  last; the code orders by `created_at`, on which no property depends. A day is a place in the order
  of acquisition date and lot id; parts of a cent (`Scale`) stand for the twelve decimals of
  the columns; the accounts of results are one, and so are the receivables of sales and
  incomes. Dividends and fund distributions are one kind; their tax, the fund ratios,
  evidence and boundary confirmations decide whether a request is admitted, or are
  computed and stored and not read back. Transactions lock the position or the event, and a
  replay changes nothing. A settled event's correction is left out as said above.

## 5. The proofs

### 5.1 Checkout

`AnnualCheckoutProofs` proves, for every set of keys, company-years and handlers, every
price `Gross` in `Nat \ {0}` and every `MaxPosts` in `Nat`:

| theorem | statement |
|---|---|
| `TypeCorrect` | `CheckoutSpec => []TypeOK` |
| `AgreementCreatedOnce` | `CheckoutSpec => []ExecutedOnce` |
| `WithdrawalIsFinal` | `CheckoutSpec => []WithdrawnNeverBought` |
| `LedgerNeverAhead` | `CheckoutSpec => []LedgerFollowsProvider` |
| `ChecksHold` | `CheckoutSpec => []ChecksNeverFire` |
| `NeverPaidTwice` | `CheckoutSpec => []OneLivePayment` |
| `EvidenceStands` | `CheckoutSpec => EvidenceNeverRewritten` |
| `CheckoutKeepsPromise` | `CheckoutSpec => KeepsPromise` |

*Assumptions*: `GrossAssumption`, `NoYearAssumption`, `NoKeyAssumption` and
`MaxPostsAssumption`, which TLC evaluates in every run, and the behaviour of the
provider as modelled.

*The argument.* The properties speak of ledger and provider; what makes them inductive
is what the handlers in between know. The invariant `IInv` has four parts:

1. `TypeInv`: types, and every task under way names a key.
2. `Conduct`: a key without a purchase was never POSTed; at most one handler is about
   to POST, and then nothing was sent yet; a handler past its claim works on a purchase
   that exists; a withdrawn key has none. `AgreementCreatedOnce` and `WithdrawalIsFinal`
   follow.
3. `Backed`: rows, loaded checkouts and observations on their way are covered by what
   the provider holds, and a final status by a charge that cannot change any more. A late
   settlement is harmless because accounts only become more definite (`Grows`,
   `BackedGrows`) and because `Settle` takes over only what is not obsolete
   (`SettleBacked`, `SettleKeepsEvidence`). `LedgerNeverAhead`, `ChecksHold` and
   `EvidenceStands` follow.
4. `OneOccupies`: one pending or paid purchase per company-year. With `Backed`, the
   others are dead or paid back at the provider: `NeverPaidTwice`.

`CheckoutKeepsPromise` shows step by step that a receipt is the promise's `Withdraw`, a
committed claim its `Buy`, a settlement its `Resolve` or nothing, and that no other step
is visible.

### 5.2 Observer

`AnnualCheckoutProofs` also proves, for every set of observers and lease tokens beside the
checkout's constants:

| theorem | statement |
|---|---|
| `ObserverTypeCorrect` | `ObserverSpec => []ObserverTypeOK` |
| `OnePassHasAuthority` | `ObserverSpec => []SingleAuthority` |
| `PendingIsObserved` | `ObserverSpec => []PendingStaysObservable` |
| `ObservedLedgerNeverAhead` | `ObserverSpec => []LedgerFollowsProvider` |
| `ObservedPaidOnce` | `ObserverSpec => []OneLivePayment` |
| `ObserverKeepsPromise` | `ObserverSpec => KeepsPromise` |
| `ObserverKeepsEvidence` | `ObserverSpec => EvidenceNeverRewritten` |

The invariant `OInv` is the checkout's `IInv` with what a pass adds. `TokensOwned`: a
token is carried by one pass and leased, if at all, for the key it was drawn for, so that
two passes with authority over one key would be one pass (`OnePassHasAuthority`).
`WorkFinished`: work is done only for a purchase whose status is final, and no step takes
that back (`CheckoutMoves`), so that a pending purchase is never lost (`PendingIsObserved`).
`PassesBacked`: what a pass read is covered by the provider's account. Nothing in it says
that the lease still holds when the pass settles: a late settlement is harmless for the
reason it is in the checkout, and `SettleBacked` and `SettleKeepsEvidence` are cited again.

### 5.3 Refunds, cancellation and cleanup

`AnnualRefundProofs` proves, for every set of requests, evidence references, refund
handlers and cleaners beside the checkout's constants:

| theorem | statement |
|---|---|
| `RefundTypeCorrect` | `RefundSpec => []RefundTypeOK` |
| `RefundPostedOnce` | `RefundSpec => []RefundExecutedOnce` |
| `NoRefundTwice` | `RefundSpec => []RefundsNeverOverlap` |
| `RefundsWithinEntitlement` | `RefundSpec => []RefundWithinEntitlement` |
| `RecoveryStands` | `RefundSpec => []RecoveryNeverRefused` |
| `StopsAfterCharge` | `RefundSpec => []StopNeverCancelsCharge` |
| `FinishedGetsCleaned` | `RefundSpec => []FinishedIsCleanable` |
| `RefundLedgerNeverAhead` | `RefundSpec => []LedgerFollowsProvider` |
| `RepurchasePaidOnce` | `RefundSpec => []OneLivePayment` |
| `RefundsKeepPromise` | `RefundSpec => KeepsPromise` |
| `RefundsKeepEvidence` | `RefundSpec => EvidenceNeverRewritten` |

The invariant `RInv` is `IInv` with these parts:

1. `RefundNames`: an operation names its purchase and case, and every request bound to
   it is for the same ones.
2. `RefundConduct`: only the handler whose claim inserted an operation may POST it, and
   only while nothing was sent.
3. `RefundMoney`. `Computed`: the amount of an operation is what its case entitles to
   less what was returned before, and the purchase has caught up with both. `Counted`: a
   purchase has at most one unresolved operation, and that one accounts for the whole
   difference between what the provider has returned and what the ledger knows; with
   none, the two agree. So a new operation starts where all earlier ones end
   (`NoRefundTwice`), and `Entitled`: whatever was returned, a recorded case covers.
4. `TasksBacked`: what a refund's handler has read, the provider holds.
5. `Finality`: what a final status rests on (an agreement, a confirmed charge, refunds
   that return the whole price), which a cleanup needs as evidence (`FinishedGetsCleaned`).
6. `StopSafety`: a cleaner sends its stop only for a purchase that was canceled and whose
   charge had ended when it looked; that a charge stays ended makes the check good later.

A claim of the refund, its settlement and the cleanup change a purchase's row only by
`RowKeeps` (key, company-year and reference stay, money and final statuses do not go
back); `PaidOnce`, `PromiseStep` and `EvidenceStep` turn that into the checkout's
properties, so that none of the checkout's proofs is repeated.

*The refund policy.* The same module proves, for every price, every set of years, of days
since the first purchase and of amounts refunded before:

| theorem | statement |
|---|---|
| `EntitledToUnused` | `EntitlementIsUnusedShare` |
| `InitiatedInTime` | `DeadlineIsFifthWeekday` |

The number of unused months that `UnusedMonths` computes by cutting off at 0 and 12 is the
number of months that begin after the block (`MonthsCounted`: those months are an
interval), and the quotient is the nearest minor unit (`TwelfthsRounded`). The deadline
counts day by day. `Calendar`, a closed form over the weekdays left and the weekday of the
discovery, satisfies the recursion of `DaysToInitiate`, so that `DaysToInitiate` does, too
(`CountsSomething`, `DaysAreCounted`); from one number of weekdays left to the next the two
agree (`OneMoreDay`), which five steps carry from 0 to 5 without an induction.

### 5.4 Ledger year

`LedgerYearProofs` proves, for every set of callers, keys, records and sources and every
`MaxCommands`:

| theorem | statement |
|---|---|
| `ClosedBooks` | `YearSpec => []ClosedOnAssessedBooks` |
| `RefusedBookings` | `YearSpec => []RefusedIsNotBooked` |
| `LinkedChanges` | `NoOwnerSources` implies `YearSpec => ChangedByCorrection` |

`ClosedOnAssessedBooks` is inductive as it stands: whatever a close read before, its commit
asks again for the latest assessment and compares its digest with the books
(`StillCurrent`), and no other step writes closes. `RefusedBookings` is not inductive: that no receipt exists *now* does
not keep one from coming. The invariant says why it cannot come any more: a call is
refused at a moment when its command is barred (`Barred`: its record is used, its
original is corrected, the year is locked or closed), and nothing lifts a bar.
`ChangedByCorrection` is false of the code as it is (run `ledger_closed_year`). `LinkedChanges` says
what it takes: with no owner dividend and no shareholder loan among the sources
(`NoOwnerSources`) it holds, so that their writer is the only way round the close. It rests on
`OriginalsBooked`, that what is corrected or reversed is booked and stays, and on `PostsOfSources`,
that only sources are posted: what a closed year takes on is linked to what it had.

### 5.5 Bank synchronisation

`BankSyncProofs` proves, for every set of callers and requests, every number of pages in
`Nat \ {0}` and every number of consents:

| theorem | statement |
|---|---|
| `WholeIntervals` | `BankSpec => []CompleteIsWhole` |
| `OneDecision` | `BankSpec => []DecidedOnce` |
| `RevocationKept` | `BankSpec => RevocationHolds` |

The invariant of `WholeIntervals` is `CollectInv`: whatever a checkpoint or a caller
says comes next, all the pages before it are known as well as the attempt could see them
(`Covered`), and the facts of the bank and of the database only move forward
(`Forward`), so that neither an old page nor a checkpoint that a slower caller sets back
takes anything away. `RevocationKept` rests on `ConsentInv`: a code opens one session, a
caller that revokes names the session the connection keeps, and the session it closed
cannot be opened again before the connection forgets it.

### 5.6 Sending a filing

`Rf1086Proofs` proves, for every set of approvals and requests, every number of
forms `Subs` in `Nat \ {0}` and every `AttemptLimit` in `Nat \ {0}`:

| theorem | statement |
|---|---|
| `JournalHeldUnderOneKey` | `JournalSpec => []HeldUnderOneKey` |
| `JournalConfirmedComplete` | `JournalSpec => []ConfirmedComplete` |
| `JournalResentOnlyAfterRetryable` | `JournalSpec => []ResentOnlyAfterRetryable` |

One invariant, `JournalInv`, carries all three. What authority, wire, journal and
requests say of an operation hangs on the first row of its journal, which no later write
touches (`Kept`): every row, prepared request, message and processed mutation has that
row's key. A journaled success, and an answer not yet journaled, are mutations the
authority holds; a request is at an operation only when it holds all the earlier ones
(`HeldBefore`), and what is held stays held (`Onward`). `SentOk` says why a crash never
resends: before a retryable failure is journaled, only the request that wrote the first
row may be about to send, and it has not sent yet.

### 5.7 Reading the feedback

`Rf1086Proofs` also proves, for every non-empty set of documents, every set of
reconcilers and every `MaxReads` in `Nat \ {0}`:

| theorem | statement |
|---|---|
| `FeedbackTypeCorrect` | `FeedbackSpec => []FeedbackTypeOK` |
| `FeedbackEvidenceKept` | `FeedbackSpec => []EvidenceKept` |
| `FeedbackVerdictIsTheirs` | `FeedbackSpec => []VerdictIsTheirs` |
| `FeedbackVerdictUncontradicted` | `FeedbackSpec => VerdictUncontradicted` |

The invariant `Inv1086` says of every reconciler, overtaken or not, what it carries.
`OwnRows`: a row whose insert was ambiguous belongs to the reconciler that is about to look
for it, so that a file is rolled back only when no row points to it. `FromArchive`: every
recorded document, and everything a reconciler still has to take, was filed by the
authority. A verdict is appended from the rows as they are then, hence `VerdictIsTheirs`
and `VerdictUncontradicted`.

### 5.8 Corporate events

`CorporateEventsProofs` proves, for every set of event ids, keys and bank transactions,
every finite set of references, all amounts and days, and every set of admissible openings:

| theorem | statement |
|---|---|
| `BooksFollowBank` | `EventsSpec => []BooksMatchBank` |
| `LoansInBooks` | `EventsSpec => []LoanOwed` |
| `IncreasesShow` | `EventsSpec => []IncreaseInBooks` |

The three share `Typed`: the recorded events are commands, the reversed ones are recorded,
the books are integers, and only finitely many events and claims exist, so that the sums
the properties speak of are sums.

`BooksInv` adds `ClaimsAgree`: a matched transaction belongs to a recorded event of a cash
phase that names it and whose bank amount it shows, and every such event has its
transaction. So a journal moves the two bank accounts by what its transaction
adds to the right side, and a reversal takes back just that transaction.

`LoansInv` adds `OneLoan`, and `IncreasesInv` adds `OneIncrease`: a reference has at most one
basis of each kind, be it recorded or carried, and the bases of a payment or registration
have its amounts. Without them the chain checks, which ask for *some* basis, would not tie
the amount of a payment to the loan that the accounts show. The long-term and the short-term account
are summed separately over the opening, by the maturity a loan has there, and then added, since
payments of either are on one of them. Each is a sum over
references in which one event changes the term of one reference (`SumStep`); the opening's books,
a sum over components, are regrouped by reference once (`SumGroups`, `OpeningBook`).

### 5.9 Investments

`InvestmentsProofs` proves, for every scale of the columns, all sets of days, counts and
amounts, every set of bank transactions and every `MaxEvents`:

| theorem | statement |
|---|---|
| `InvestmentsTyped` | `InvestmentsSpec => []InvestmentsTypeOK` |
| `BooksAlwaysMatchRegister` | `InvestmentsSpec => []BooksMatchRegister` |
| `BasisIsAlwaysHistory` | `InvestmentsSpec => []BasisIsHistory` |

The invariant `InvestmentsInv` says that register, events, ledger, measurement and
settlements are `Sound` together. `Known`: the lots are those of the recorded
purchases, with the cost and within the CHECK constraints, and every sale carries what its
allocation took. `Traced`: what is left of a lot and what standing sales took is what was
bought. `Valued`: the book value is the standing cost, less what sales carried, plus
what the measurement changed. `Booked`: the ledger's accounts. The properties do not hold
on by themselves: without `Known` a sale taken back would return something else than its
allocation took, and a purchase taken back another cost than was booked.

`Sound` is a relation between values, not a predicate of the state. A correction needs
that: it takes the event back (`PurchaseTakenBack`, `OtherTakenBack`) and recognizes
another over the result (`RecognizeSound`), and the position between the two is no
state of the specification. A purchase can be taken back since it must be whole and be the last
event; a sale since its allocation says what every lot gets back (`ReturningMoves`), whatever
`Portion` rounded. An event recorded or corrected changes one term of every sum
(`AmountGrows`, `AmountFalls`, `SoldGrows`, `SoldFalls`).

What settlements paid is a sum over those not superseded, of the amounts of their
events. Recording and correcting an event keep both (`PaidPreserved`); the correction of a
settlement exchanges one row for another of the same event (`PaidReplaced`) and reverses the
journal it posts. `RescaledAre` is the measurement: whatever the parts round to, the
lot acquired last takes the rest, so that the lots come to the closing value; there is a
last lot (`LastAcquired`), since nothing is rescaled unless a lot is open.

*Sums* (`FiniteSums`). The community modules define a sum by a fold, through recursion over the set.
The library's induction theorems cannot be instantiated here, and are not needed: `SumIsTable` shows that a sum is a
table over the subsets of a finite set, each subset's entry one term more than that of
the subset without its chosen element; where a law of sums failed, there would be
a smallest subset for which it fails (`SmallestSubset`), and the table excludes it.

*Assumptions* of all proofs are those the modules name, which TLC evaluates in the runs:
constants that stand for "nothing" are not members of their sets, bounds and prices are
natural numbers, `SourcesAreEntries` (a source is an entry of the year),
`DocumentsAssumption` (there are documents, with the facts the classifier looks at),
`AmountsAssumption` (amounts are positive, days ordered, the scale not zero),
`ReferencesAreListed` (finitely many references) and `OpeningsAreUnique` (the unique indexes
of `opening_position_components`: a reference is carried once in each chain).

*Only model-checked.* All liveness (`EventuallyRecorded`,
`EventuallyDecided`: temporal proofs under fairness and ENABLED are beyond the prover).

## 6. Not modelled, and the plan

The list of section 1.6, and within the modelled components what the notes in
`PROJECT.json` name. Most of the remaining code is no protocol: HTTP handlers, request
models, rendered forms and read models, whose state changes are single statements.

1. Authority operations and connections: the started audit around a provider operation.
2. The bank file import and the acceptance of suggestions, which post to the ledger year.
3. Company access; the notification inbox.
