------------------------------ MODULE LedgerYear ------------------------------
(***************************************************************************)
(* The books of one admitted company year: posting, correction, reversal,  *)
(* the period lock, reconstruction and close.  Every command is one         *)
(* database transaction under the company-year lock, found again by its     *)
(* receipt; the adapter sends it twice when an answer is lost.  A close     *)
(* reads in transactions of its own before it commits.  A ledger state      *)
(* digest is modelled by the books it is computed from, reconstructions are *)
(* as of the last day of the year (any other day only blocks a close), and  *)
(* the evidence of a close carries the digest of the assessment it names    *)
(* (other evidence is refused).                                            *)
(***************************************************************************)
EXTENDS Naturals, Sequences, FiniteSets, SequencesExt

CONSTANTS
  Callers,         \* requests in progress
  Keys,            \* an owner together with an idempotency key
  Documents,       \* records that back an entry
  Sources,         \* the entries that may be posted: kind and record
  MaxCommands,     \* bound: commands the year has room for
  NoCall

(* An entry is known by its source: a record, or the entry it reverses.     *)
Entry(kind, record) == [kind |-> kind, record |-> record]

ASSUME CommandsAreCounted == MaxCommands \in Nat
ASSUME SourcesAreEntries ==
  Sources \subseteq {Entry(kind, d) : kind \in {"COST", "EVENT", "OWNER"}, d \in Documents}

VARIABLES
  entries,         \* ledger.entries
  corrections,     \* ledger.entry_corrections: original and replacement
  periodLock,      \* ledger.period_locks
  assessed,        \* ledger.reconstruction_assessments by recorded_at
  closes,          \* ledger.company_year_close_assessments
  closeLock,       \* ledger.company_year_close_locks
  receipts,        \* backend_system.ledger_command_receipts
  calls            \* what each caller asked, and what it was told

books == <<entries, corrections>>
store == <<entries, corrections, periodLock, assessed, closes, closeLock, receipts>>
yearVars == <<entries, corrections, periodLock, assessed, closes, closeLock, receipts, calls>>

Capability(kind) ==
  CASE kind = "COST" -> "DOCUMENTS"
    [] kind \in {"EVENT", "OWNER"} -> "CORPORATE_GOVERNANCE"
    [] kind = "REVERSAL" -> "LEDGER"
Unused(new) ==
  \A e \in entries : Capability(e.kind) = Capability(new.kind) => e.record # new.record
Reversal(e) == Entry("REVERSAL", e)
Digest == [entries |-> entries, corrections |-> corrections]
Latest == assessed[Len(assessed)]

YearInit ==
  /\ entries = {} /\ corrections = {}
  /\ periodLock = FALSE /\ closeLock = FALSE
  /\ assessed = <<>> /\ closes = {} /\ receipts = {}
  /\ calls = [c \in Callers |-> NoCall]

-----------------------------------------------------------------------------
(* Requests.  A cost or a supported event is posted by post_entry, an owner *)
(* dividend or a shareholder loan by post_entry_with_id; both keep their    *)
(* receipt under post_entry.                                               *)
Posts == {[op |-> "POST", entry |-> new] : new \in Sources}
Corrects == {[op |-> "CORRECT", original |-> e, entry |-> Entry("COST", d)] :
               e \in {f \in entries : f.kind = "COST"}, d \in Documents}
Reverses == {[op |-> "REVERSE", original |-> e] : e \in {f \in entries : f.kind = "EVENT"}}
Assesses == {[op |-> "ASSESS", state |-> s] : s \in {"READY", "BLOCKED"}}
Closes == {[op |-> "CLOSE", assessment |-> a, evidence |-> e] :
             a \in ToSet(assessed), e \in {"CONFIRMED", "GAP"}}
Requests == Posts \cup Corrects \cup Reverses \cup Assesses \cup Closes \cup {[op |-> "LOCK"]}

(* What the caller brings along: a reconstruction lists the entries it saw  *)
(* and its statement time lies behind the assessments that are there; a     *)
(* close starts with the look for a replay.                                *)
Brought(q) ==
  CASE q.op = "ASSESS" -> [facts |-> entries, after |-> Len(assessed)]
    [] q.op = "CLOSE" -> [next |-> "REPLAY"]
    [] OTHER -> <<>>

Ask(c, k, q) ==
  /\ calls[c] = NoCall
  /\ Cardinality(receipts) + Cardinality({d \in Callers : calls[d] # NoCall}) < MaxCommands
  /\ calls' = [calls EXCEPT ![c] = [key |-> k, request |-> q, attempt |-> 1,
                                    answer |-> "NONE", with |-> Brought(q)]]
  /\ UNCHANGED store

Asked(c, op) == calls[c] # NoCall /\ calls[c].answer = "NONE" /\ calls[c].request.op = op

(* _one_idempotent_row: an answer that does not arrive is asked for once    *)
(* more under the same key.  The second statement has its own time.  After  *)
(* that the caller is told nothing and may ask anew.                       *)
NotHeard(c) ==
  calls' = [calls EXCEPT ![c] =
    IF @.attempt = 2 THEN NoCall
    ELSE IF @.request.op = "ASSESS"
         THEN [@ EXCEPT !.attempt = 2, !.with.after = Len(assessed')]
         ELSE [@ EXCEPT !.attempt = 2]]
(* An answer ends the call; the refusal of a booking stays to be looked at. *)
Bookings == {"POST", "CORRECT", "REVERSE", "LOCK"}
Told(c, answer) ==
  calls' = [calls EXCEPT ![c] =
    IF answer = "REFUSED" /\ @.request.op \in Bookings
    THEN [@ EXCEPT !.answer = answer] ELSE NoCall]
Answers(c, answer) == Told(c, answer) \/ NotHeard(c)

(* The statement never reaches the database.                               *)
NotReached(c) ==
  /\ calls[c] # NoCall /\ calls[c].answer = "NONE"
  /\ calls[c].request.op = "CLOSE" => calls[c].with.next = "COMMIT"
  /\ UNCHANGED store /\ NotHeard(c)

(* The first two reads of a close are not repeated.                        *)
ReadFails(c) ==
  /\ Asked(c, "CLOSE") /\ calls[c].with.next # "COMMIT"
  /\ calls' = [calls EXCEPT ![c] = NoCall]
  /\ UNCHANGED store

Leave(c) ==
  /\ calls[c] # NoCall /\ calls[c].answer # "NONE"
  /\ calls' = [calls EXCEPT ![c] = NoCall]
  /\ UNCHANGED store

-----------------------------------------------------------------------------
(* Receipts: the same command again is answered from its receipt, another   *)
(* command under the key is refused.                                       *)
Receipt(c) == [key |-> calls[c].key, request |-> calls[c].request]

\* Mutant: the close lock is looked at before the receipt.
ReplayedWhileOpen(c) == ~closeLock /\ Receipt(c) \in receipts

Replayed(c) == Receipt(c) \in receipts

KeyReused(c) ==
  \E r \in receipts : /\ r.key = calls[c].key
                      /\ r.request.op = calls[c].request.op
                      /\ r.request # calls[c].request
New(c) == ~Replayed(c) /\ ~KeyReused(c)
Commits(c) == receipts' = receipts \cup {Receipt(c)} /\ Answers(c, "DONE")

FromReceipt(c) ==
  /\ \E op \in Bookings : Asked(c, op)
  /\ UNCHANGED store
  /\ \/ Replayed(c) /\ Answers(c, "DONE")
     \/ ~Replayed(c) /\ KeyReused(c) /\ Answers(c, "REFUSED")

Refuse(c) == UNCHANGED store /\ Answers(c, "REFUSED")

(* post_entry refuses a closed year, post_entry_with_id does not ask.      *)
Postable(new) ==
  /\ closeLock => new.kind = "OWNER"
  /\ ~periodLock /\ Unused(new)

Post(c) ==
  /\ Asked(c, "POST") /\ New(c)
  /\ LET new == calls[c].request.entry
     IN  IF Postable(new)
         THEN /\ entries' = entries \cup {new}
              /\ Commits(c)
              /\ UNCHANGED <<corrections, periodLock, assessed, closes, closeLock>>
         ELSE Refuse(c)

(* correct_entry: a full reversal and a documented replacement, once for an *)
(* original, whatever is locked.                                           *)
Correct(c) ==
  /\ Asked(c, "CORRECT") /\ New(c)
  /\ LET old == calls[c].request.original
         new == calls[c].request.entry
     IN  IF Reversal(old) \notin entries /\ Unused(new)
         THEN /\ entries' = entries \cup {Reversal(old), new}
              /\ corrections' = corrections \cup {<<old, new>>}
              /\ Commits(c)
              /\ UNCHANGED <<periodLock, assessed, closes, closeLock>>
         ELSE Refuse(c)

ReverseEvent(c) ==
  /\ Asked(c, "REVERSE") /\ New(c)
  /\ LET old == calls[c].request.original
     IN  IF Reversal(old) \notin entries
         THEN /\ entries' = entries \cup {Reversal(old)}
              /\ Commits(c)
              /\ UNCHANGED <<corrections, periodLock, assessed, closes, closeLock>>
         ELSE Refuse(c)

LockPeriod(c) ==
  /\ Asked(c, "LOCK") /\ New(c)
  /\ IF ~periodLock
     THEN /\ periodLock' = TRUE
          /\ Commits(c)
          /\ UNCHANGED <<entries, corrections, assessed, closes, closeLock>>
     ELSE Refuse(c)

-----------------------------------------------------------------------------
(* record_reconstruction_assessment: the listed facts must be the entries   *)
(* of the year, also for a replay, whose facts must be the recorded ones.   *)
(* It is ordered by the time its statement began.                          *)
Complete(c) == calls[c].with.facts = entries
RecordedBy(k) == CHOOSE a \in ToSet(assessed) : a.id = k

Assess(c) ==
  /\ Asked(c, "ASSESS")
  /\ IF New(c) /\ Complete(c)
     THEN /\ \E i \in calls[c].with.after + 1 .. Len(assessed) + 1 :
               assessed' = InsertAt(assessed, i,
                 [id |-> calls[c].key, state |-> calls[c].request.state, digest |-> Digest])
          /\ Commits(c)
          /\ UNCHANGED <<entries, corrections, periodLock, closes, closeLock>>
     ELSE /\ UNCHANGED store
          /\ IF Replayed(c) /\ Complete(c)
                  /\ RecordedBy(calls[c].key).digest = Digest
             THEN Answers(c, "DONE")
             ELSE Answers(c, "REFUSED")

-----------------------------------------------------------------------------
(* close_company_year.  First the look for a replay.                       *)
CloseReplay(c) ==
  /\ Asked(c, "CLOSE") /\ calls[c].with.next = "REPLAY"
  /\ UNCHANGED store
  /\ calls' = [calls EXCEPT ![c] =
       IF Replayed(c) THEN NoCall
       ELSE IF KeyReused(c) THEN NoCall
       ELSE [@ EXCEPT !.with.next = "READ"]]

(* Then the service reads the current assessment: another one is stale.    *)
CloseRead(c) ==
  /\ Asked(c, "CLOSE") /\ calls[c].with.next = "READ"
  /\ UNCHANGED store
  /\ calls' = [calls EXCEPT ![c] =
       IF Latest = calls[c].request.assessment
       THEN [@ EXCEPT !.with.next = "COMMIT"]
       ELSE NoCall]

(* The commit compares again, with the books it finds under the lock.      *)
\* Mutant: the comparison of the service is enough.
StillCurrentById(a) == Latest = a

StillCurrent(a) == Latest = a /\ a.digest = Digest
DerivedState(q) ==
  IF q.assessment.state = "READY" /\ q.evidence = "CONFIRMED" THEN "CLOSED" ELSE "BLOCKED"

CloseCommit(c) ==
  /\ Asked(c, "CLOSE") /\ calls[c].with.next = "COMMIT"
  /\ LET q == calls[c].request
     IN  IF New(c) /\ StillCurrent(q.assessment)
         THEN /\ closes' = closes \cup {[id |-> calls[c].key, assessment |-> q.assessment,
                                         state |-> DerivedState(q), digest |-> Digest]}
              /\ closeLock' = (closeLock \/ DerivedState(q) = "CLOSED")
              /\ Commits(c)
              /\ UNCHANGED <<entries, corrections, periodLock, assessed>>
         ELSE IF Replayed(c) THEN UNCHANGED store /\ Answers(c, "DONE")
              ELSE Refuse(c)

-----------------------------------------------------------------------------
AskAny(c) == \E k \in Keys, q \in Requests : Ask(c, k, q)

YearNext ==
  \E c \in Callers :
    \/ AskAny(c) \/ NotReached(c) \/ ReadFails(c) \/ Leave(c)
    \/ FromReceipt(c) \/ Post(c) \/ Correct(c) \/ ReverseEvent(c) \/ LockPeriod(c)
    \/ Assess(c) \/ CloseReplay(c) \/ CloseRead(c) \/ CloseCommit(c)

YearSpec == YearInit /\ [][YearNext]_yearVars

-----------------------------------------------------------------------------
(***************************************************************************)
(* An owner who is told that a booking, a correction, a reversal or a lock *)
(* is refused does not have it in the books, then or later: not after a     *)
(* lost answer, and not when the year was locked or closed between the two  *)
(* attempts (_one_idempotent_row).                                         *)
(***************************************************************************)
RefusedIsNotBooked ==
  \A c \in Callers :
    /\ calls[c] # NoCall /\ calls[c].answer = "REFUSED"
    => Receipt(c) \notin receipts

(***************************************************************************)
(* A year that counts as closed was closed over exactly the books its       *)
(* reconstruction had assessed as ready: nothing posted or corrected       *)
(* between the reads of the close and its commit slips in                  *)
(* (close_company_year_v1).                                                *)
(***************************************************************************)
ClosedOnAssessedBooks ==
  /\ closeLock => \E k \in closes : k.state = "CLOSED"
  /\ \A k \in closes : k.state = "CLOSED" =>
       closeLock /\ k.assessment.state = "READY" /\ k.assessment.digest = k.digest

(***************************************************************************)
(* After the close only the linked correction flow changes the books: what  *)
(* is added reverses an entry or replaces a reversed one, and an entry once *)
(* booked stays (docs/accounting/supported-ledger-patterns.md, period close *)
(* and locks).                                                             *)
(***************************************************************************)
Linked(e) ==
  \/ e.kind = "REVERSAL" /\ e.record \in entries
  \/ \E pair \in corrections : pair[2] = e /\ Reversal(pair[1]) \in entries
ChangedByCorrection ==
  [][closeLock => /\ entries \subseteq entries'
                  /\ \A e \in entries' \ entries : Linked(e)']_yearVars
=============================================================================
