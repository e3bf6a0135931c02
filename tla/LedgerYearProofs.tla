--------------------------- MODULE LedgerYearProofs ---------------------------
(***************************************************************************)
(* Proofs about one company year, for every set of callers, keys, records  *)
(* and postable entries and every number of commands.                      *)
(***************************************************************************)
EXTENDS LedgerYear, TLAPS

-----------------------------------------------------------------------------
(* Calls. *)

CallFields == {"key", "request", "attempt", "answer", "with"}

\* A call is a record of its five fields, unanswered or refused, and what it
\* corrects or reverses is booked.
CallsShaped ==
  /\ calls = [c \in Callers |-> calls[c]]
  /\ \A c \in Callers : calls[c] # NoCall =>
       /\ calls[c] = [f \in CallFields |-> calls[c][f]]
       /\ calls[c].answer \in {"NONE", "REFUSED"}

\* What an action does to the calls: c's alone changes, and it ends, is
\* refused or goes on unanswered.
OnlyCall(c, refused) ==
  /\ CallsShaped'
  /\ \A d \in Callers : d # c => calls'[d] = calls[d]
  /\ calls'[c] # NoCall =>
       /\ calls'[c].key = calls[c].key
       /\ calls'[c].request = calls[c].request
       /\ calls'[c].answer = "REFUSED" =>
            \/ refused /\ calls[c].request.op \in Bookings
            \/ calls[c].answer = "REFUSED"

LEMMA NotHeardKeeps ==
  ASSUME CallsShaped, NEW c \in Callers, calls[c] # NoCall, NotHeard(c), NEW refused
  PROVE  OnlyCall(c, refused)
BY DEF CallsShaped, NotHeard, OnlyCall, CallFields

LEMMA ToldKeeps ==
  ASSUME CallsShaped, NEW c \in Callers, calls[c] # NoCall,
         NEW answer, Told(c, answer)
  PROVE  OnlyCall(c, answer = "REFUSED")
BY DEF CallsShaped, Told, OnlyCall, CallFields

LEMMA AnswersKeep ==
  ASSUME CallsShaped, NEW c \in Callers, calls[c] # NoCall,
         NEW answer, Answers(c, answer)
  PROVE  OnlyCall(c, answer = "REFUSED")
BY NotHeardKeeps, ToldKeeps DEF Answers

-----------------------------------------------------------------------------
(* What never comes undone. *)

Grows ==
  /\ entries \subseteq entries'
  /\ receipts \subseteq receipts'
  /\ periodLock => periodLock'
  /\ closeLock => closeLock'

LEMMA StepGrows ==
  ASSUME [YearNext]_yearVars
  PROVE  Grows
<1>1. ASSUME UNCHANGED yearVars PROVE Grows
  BY <1>1 DEF yearVars, Grows
<1>2. ASSUME UNCHANGED store PROVE Grows
  BY <1>2 DEF store, Grows
<1>3. ASSUME NEW c \in Callers,
             \/ AskAny(c) \/ NotReached(c) \/ ReadFails(c) \/ Leave(c)
             \/ FromReceipt(c) \/ CloseReplay(c) \/ CloseRead(c)
      PROVE  Grows
  BY <1>2, <1>3 DEF AskAny, Ask, NotReached, ReadFails, Leave, FromReceipt,
     CloseReplay, CloseRead
<1>4. ASSUME NEW c \in Callers,
             \/ Post(c) \/ Correct(c) \/ ReverseEvent(c) \/ LockPeriod(c)
             \/ Assess(c) \/ CloseCommit(c)
      PROVE  Grows
  BY <1>2, <1>4 DEF Post, Correct, ReverseEvent, LockPeriod, Assess, CloseCommit,
     Refuse, Commits, Grows
<1>5. QED
  BY <1>1, <1>3, <1>4 DEF YearNext

-----------------------------------------------------------------------------
(* The close. *)

\* A CLOSED assessment comes from a ready reconstruction of the very books it
\* is committed with, and is what the close lock stands for.
LEMMA CloseStep ==
  ASSUME ClosedOnAssessedBooks, [YearNext]_yearVars
  PROVE  ClosedOnAssessedBooks'
<1>1. CASE UNCHANGED <<closes, closeLock>>
  BY <1>1 DEF ClosedOnAssessedBooks
<1>2. ASSUME NEW c \in Callers, CloseCommit(c) PROVE ClosedOnAssessedBooks'
  <2> DEFINE q == calls[c].request
             new == [id |-> calls[c].key, assessment |-> q.assessment,
                     state |-> DerivedState(q), digest |-> Digest]
  <2>1. CASE New(c) /\ StillCurrent(q.assessment)
    <3>1. closes' = closes \cup {new} /\ closeLock' = (closeLock \/ DerivedState(q) = "CLOSED")
      BY <1>2, <2>1 DEF CloseCommit
    <3>2. new.state = DerivedState(q) /\ new.assessment = q.assessment /\ new.digest = Digest
      OBVIOUS
    <3>3. DerivedState(q) = "CLOSED" => q.assessment.state = "READY"
      BY DEF DerivedState
    <3>4. q.assessment.digest = Digest
      BY <2>1 DEF StillCurrent
    <3> HIDE DEF new, q
    <3>5. QED
      BY <3>1, <3>2, <3>3, <3>4 DEF ClosedOnAssessedBooks
  <2>2. CASE ~(New(c) /\ StillCurrent(q.assessment))
    BY <1>1, <1>2, <2>2 DEF CloseCommit, Refuse, store
  <2>3. QED
    BY <2>1, <2>2
<1>3. ASSUME NEW c \in Callers,
             \/ AskAny(c) \/ NotReached(c) \/ ReadFails(c) \/ Leave(c)
             \/ FromReceipt(c) \/ Post(c) \/ Correct(c) \/ ReverseEvent(c) \/ LockPeriod(c)
             \/ Assess(c) \/ CloseReplay(c) \/ CloseRead(c)
      PROVE  UNCHANGED <<closes, closeLock>>
  BY <1>3 DEF AskAny, Ask, NotReached, ReadFails, Leave, FromReceipt, Post, Correct,
     ReverseEvent, LockPeriod, Assess, CloseReplay, CloseRead, Refuse, store
<1>4. CASE UNCHANGED yearVars
  BY <1>1, <1>4 DEF yearVars
<1>5. QED
  BY <1>1, <1>2, <1>3, <1>4 DEF YearNext

\* A year that counts as closed was closed over exactly the books that a ready
\* reconstruction had assessed (close_company_year_v1).
THEOREM ClosedBooks == YearSpec => []ClosedOnAssessedBooks
<1>1. YearInit => ClosedOnAssessedBooks
  BY DEF YearInit, ClosedOnAssessedBooks
<1>2. ClosedOnAssessedBooks /\ [YearNext]_yearVars => ClosedOnAssessedBooks'
  BY CloseStep
<1>3. QED
  BY <1>1, <1>2, PTL DEF YearSpec

-----------------------------------------------------------------------------
(* Refusals. *)

\* Why a booking under this key can never be committed any more.
Barred(k, q) ==
  \/ \E r \in receipts : r.key = k /\ r.request.op = q.op /\ r.request # q
  \/ q.op = "POST" /\ ~Postable(q.entry)
  \/ q.op = "CORRECT" /\ (Reversal(q.original) \in entries \/ ~Unused(q.entry))
  \/ q.op = "REVERSE" /\ Reversal(q.original) \in entries
  \/ q.op = "LOCK" /\ periodLock

\* A refused call is a booking whose receipt is not there and cannot come.
RefusedForGood ==
  \A c \in Callers :
    calls[c] # NoCall /\ calls[c].answer = "REFUSED" =>
      /\ calls[c].request.op \in Bookings
      /\ Receipt(c) \notin receipts
      /\ Barred(calls[c].key, calls[c].request)

RefusalInv == CallsShaped /\ RefusedForGood

LEMMA BarredStays ==
  ASSUME Grows, NEW k, NEW q, Barred(k, q)
  PROVE  Barred(k, q)'
<1>1. ASSUME NEW new, ~Unused(new) PROVE ~Unused(new)'
  BY <1>1 DEF Grows, Unused
<1>2. ASSUME NEW new, ~Postable(new) PROVE ~Postable(new)'
  BY <1>1, <1>2 DEF Grows, Postable
<1>3. QED
  BY <1>1, <1>2 DEF Grows, Barred, Reversal, Entry

\* A step commits at most the command of its caller, and no barred booking.
Commitable(c) ==
  /\ receipts' \subseteq receipts \cup {Receipt(c)}
  /\ receipts' # receipts /\ calls[c].request.op \in Bookings =>
       ~Barred(calls[c].key, calls[c].request)

LEMMA CallStep ==
  ASSUME RefusalInv, NEW c \in Callers, calls[c] # NoCall, UNCHANGED store
  PROVE  Commitable(c)
BY DEF store, Commitable

\* A step on c's call, with what is true when it is refused.
LEMMA RefusalKept ==
  ASSUME RefusalInv, Grows, NEW c \in Callers, calls[c] # NoCall, Commitable(c),
         NEW refused, OnlyCall(c, refused),
         refused => \/ calls[c].request.op \notin Bookings
                    \/ /\ Receipt(c) \notin receipts'
                       /\ Barred(calls[c].key, calls[c].request)
  PROVE  RefusalInv'
<1>1. CallsShaped'
  BY DEF OnlyCall
<1>2. SUFFICES ASSUME NEW d \in Callers, calls'[d] # NoCall, calls'[d].answer = "REFUSED"
               PROVE  /\ calls'[d].request.op \in Bookings
                      /\ Receipt(d)' \notin receipts'
                      /\ Barred(calls[d].key, calls[d].request)'
  BY <1>1 DEF RefusalInv, RefusedForGood
<1>3. calls'[d].key = calls[d].key /\ calls'[d].request = calls[d].request
  BY <1>2 DEF OnlyCall
<1>4. Receipt(d)' = Receipt(d)
  BY <1>3 DEF Receipt
<1>5. ASSUME Barred(calls[d].key, calls[d].request)
      PROVE  Barred(calls[d].key, calls[d].request)'
  <2>1. PICK k, q : k = calls[d].key /\ q = calls[d].request
    OBVIOUS
  <2>2. Barred(k, q)'
    BY <1>5, <2>1, BarredStays
  <2>3. QED
    BY <1>3, <2>1, <2>2
<1>6. CASE calls[d] # NoCall /\ calls[d].answer = "REFUSED"
  <2>1. /\ calls[d].request.op \in Bookings
        /\ Receipt(d) \notin receipts
        /\ Barred(calls[d].key, calls[d].request)
    BY <1>6 DEF RefusalInv, RefusedForGood
  <2>2. Receipt(d) \notin receipts'
    <3>1. SUFFICES ASSUME Receipt(d) \in receipts' PROVE FALSE
      OBVIOUS
    <3>2. Receipt(d) = Receipt(c) /\ receipts' # receipts
      BY <2>1, <3>1 DEF Commitable
    <3>3. calls[d].key = calls[c].key /\ calls[d].request = calls[c].request
      BY <3>2 DEF Receipt
    <3>4. QED
      BY <2>1, <3>2, <3>3 DEF Commitable
  <2>3. QED
    BY <1>3, <1>4, <1>5, <2>1, <2>2
<1>7. CASE ~(calls[d] # NoCall /\ calls[d].answer = "REFUSED")
  <2>1. d = c /\ refused /\ calls[c].request.op \in Bookings
    BY <1>2, <1>7 DEF OnlyCall
  <2>2. QED
    BY <1>3, <1>4, <1>5, <2>1
<1>8. QED
  BY <1>6, <1>7

\* An answered booking: committed under its key, or refused because it is barred.
LEMMA BookingStep ==
  ASSUME RefusalInv, [YearNext]_yearVars, NEW c \in Callers, calls[c] # NoCall,
         New(c),
         \/ Refuse(c) /\ Barred(calls[c].key, calls[c].request)
         \/ Commits(c) /\ ~Barred(calls[c].key, calls[c].request)
  PROVE  RefusalInv'
<1>1. Grows
  BY StepGrows
<1>2. CASE Refuse(c) /\ Barred(calls[c].key, calls[c].request)
  <2>1. OnlyCall(c, "REFUSED" = "REFUSED")
    BY <1>2, AnswersKeep DEF Refuse, RefusalInv
  <2>2. Receipt(c) \notin receipts'
    BY <1>2 DEF Refuse, store, New, Replayed
  <2>3. Commitable(c)
    BY <1>2, CallStep DEF Refuse
  <2>4. QED
    BY <1>1, <1>2, <2>1, <2>2, <2>3, RefusalKept
<1>3. CASE Commits(c) /\ ~Barred(calls[c].key, calls[c].request)
  <2>1. OnlyCall(c, "DONE" = "REFUSED")
    BY <1>3, AnswersKeep DEF Commits, RefusalInv
  <2>2. Commitable(c)
    BY <1>3 DEF Commits, Commitable
  <2>3. QED
    BY <1>1, <2>1, <2>2, RefusalKept
<1>4. QED
  BY <1>2, <1>3

\* A step that leaves the store alone and refuses nothing.
LEMMA QuietStep ==
  ASSUME RefusalInv, [YearNext]_yearVars, NEW c \in Callers, calls[c] # NoCall,
         UNCHANGED store, OnlyCall(c, FALSE)
  PROVE  RefusalInv'
BY StepGrows, CallStep, RefusalKept

LEMMA RefusalStep ==
  ASSUME RefusalInv, [YearNext]_yearVars
  PROVE  RefusalInv'
<1> USE DEF RefusalInv
<1>1. CASE UNCHANGED yearVars
  <2>1. UNCHANGED <<calls, receipts>> /\ CallsShaped' /\ Grows
    BY <1>1, StepGrows DEF yearVars, CallsShaped
  <2>2. ASSUME NEW c \in Callers, Barred(calls[c].key, calls[c].request)
        PROVE  Barred(calls[c].key, calls[c].request)'
    BY <1>1, <2>2 DEF yearVars, Barred, Postable, Unused
  <2>3. QED
    BY <2>1, <2>2 DEF RefusedForGood, Receipt
<1>2. ASSUME NEW c \in Callers, AskAny(c) PROVE RefusalInv'
  <2>1. PICK k \in Keys, q \in Requests : Ask(c, k, q)
    BY <1>2 DEF AskAny
  <2>2. UNCHANGED <<receipts, entries, periodLock, closeLock>>
    BY <2>1 DEF Ask, store
  <2>3. /\ calls'[c].answer = "NONE"
        /\ CallsShaped'
        /\ \A d \in Callers : d # c => calls'[d] = calls[d]
    BY <2>1 DEF Ask, CallsShaped, CallFields
  <2>4. ASSUME NEW d \in Callers, d # c, Barred(calls[d].key, calls[d].request)
        PROVE  Barred(calls[d].key, calls[d].request)'
    BY <2>2, <2>3, <2>4 DEF Barred, Postable, Unused
  <2>5. QED
    BY <2>2, <2>3, <2>4 DEF RefusedForGood, Receipt
<1>3. ASSUME NEW c \in Callers, NotReached(c) PROVE RefusalInv'
  BY <1>3, QuietStep, NotHeardKeeps DEF NotReached
<1>4. ASSUME NEW c \in Callers, ReadFails(c) \/ Leave(c) \/ CloseReplay(c) \/ CloseRead(c)
      PROVE  RefusalInv'
  <2>1. calls[c] # NoCall /\ UNCHANGED store
    BY <1>4 DEF ReadFails, Leave, CloseReplay, CloseRead, Asked
  <2>2. OnlyCall(c, FALSE)
    BY <1>4 DEF ReadFails, Leave, CloseReplay, CloseRead, Asked, OnlyCall, CallsShaped, CallFields
  <2>3. QED
    BY <2>1, <2>2, QuietStep
<1>5. ASSUME NEW c \in Callers, FromReceipt(c) PROVE RefusalInv'
  <2>1. calls[c] # NoCall /\ UNCHANGED store
    BY <1>5 DEF FromReceipt, Asked
  <2>2. CASE Answers(c, "DONE")
    <3>1. OnlyCall(c, "DONE" = "REFUSED")
      BY <2>1, <2>2, AnswersKeep
    <3>2. QED
      BY <2>1, <3>1, QuietStep
  <2>3. CASE KeyReused(c) /\ ~Replayed(c) /\ Answers(c, "REFUSED")
    <3>1. OnlyCall(c, "REFUSED" = "REFUSED")
      BY <2>1, <2>3, AnswersKeep
    <3>2. Barred(calls[c].key, calls[c].request)
      BY <2>3 DEF KeyReused, Barred
    <3>3. Receipt(c) \notin receipts'
      BY <2>1, <2>3 DEF store, Replayed
    <3>4. QED
      BY <2>1, <3>1, <3>2, <3>3, StepGrows, CallStep, RefusalKept
  <2>4. QED
    BY <1>5, <2>2, <2>3 DEF FromReceipt
<1>6. ASSUME NEW c \in Callers,
             Post(c) \/ Correct(c) \/ ReverseEvent(c) \/ LockPeriod(c)
      PROVE  RefusalInv'
  <2>1. calls[c] # NoCall /\ New(c)
    BY <1>6 DEF Post, Correct, ReverseEvent, LockPeriod, Asked
  <2>2. ~(\E r \in receipts : /\ r.key = calls[c].key
                               /\ r.request.op = calls[c].request.op
                               /\ r.request # calls[c].request)
    BY <2>1 DEF New, KeyReused
  <2>3. \/ Refuse(c) /\ Barred(calls[c].key, calls[c].request)
        \/ Commits(c) /\ ~Barred(calls[c].key, calls[c].request)
    <3>1. CASE Post(c)
      BY <2>2, <3>1 DEF Post, Asked, Barred
    <3>2. CASE Correct(c)
      BY <2>2, <3>2 DEF Correct, Asked, Barred
    <3>3. CASE ReverseEvent(c)
      BY <2>2, <3>3 DEF ReverseEvent, Asked, Barred
    <3>4. CASE LockPeriod(c)
      BY <2>2, <3>4 DEF LockPeriod, Asked, Barred
    <3>5. QED
      BY <1>6, <3>1, <3>2, <3>3, <3>4
  <2>4. QED
    BY <2>1, <2>3, BookingStep
<1>7. ASSUME NEW c \in Callers, Assess(c) \/ CloseCommit(c) PROVE RefusalInv'
  <2>1. calls[c] # NoCall /\ calls[c].request.op \notin Bookings
    BY <1>7 DEF Assess, CloseCommit, Asked, Bookings
  <2>2. Answers(c, "DONE") \/ Answers(c, "REFUSED")
    BY <1>7 DEF Assess, CloseCommit, Commits, Refuse
  <2>3. OnlyCall(c, TRUE)
    <3>1. OnlyCall(c, "DONE" = "REFUSED") \/ OnlyCall(c, "REFUSED" = "REFUSED")
      BY <2>1, <2>2, AnswersKeep
    <3>2. QED
      BY <3>1 DEF OnlyCall
  <2>4. Commitable(c)
    BY <1>7, <2>1 DEF Assess, CloseCommit, Commits, Refuse, store, Commitable
  <2>5. QED
    BY <2>1, <2>3, <2>4, StepGrows, RefusalKept
<1>8. QED
  BY <1>1, <1>2, <1>3, <1>4, <1>5, <1>6, <1>7 DEF YearNext

\* A booking that was refused is not in the books, then or later, whatever
\* answers were lost and whatever was locked or closed (_one_idempotent_row).
THEOREM RefusedBookings == YearSpec => []RefusedIsNotBooked
<1>1. YearInit => RefusalInv
  BY DEF YearInit, RefusalInv, CallsShaped, RefusedForGood
<1>2. RefusalInv /\ [YearNext]_yearVars => RefusalInv'
  BY RefusalStep
<1>3. RefusalInv => RefusedIsNotBooked
  BY DEF RefusalInv, RefusedForGood, RefusedIsNotBooked
<1>4. QED
  BY <1>1, <1>2, <1>3, PTL DEF YearSpec

-----------------------------------------------------------------------------
(* Changes after the close. *)

\* A step leaves a call, ends it or begins one, with a request of its own.
LEMMA RequestsKept ==
  ASSUME CallsShaped, [YearNext]_yearVars
  PROVE  /\ CallsShaped'
         /\ \A d \in Callers : calls'[d] # NoCall =>
              \/ calls[d] # NoCall /\ calls'[d].request = calls[d].request
              \/ calls'[d].request \in Requests
<1>1. CASE UNCHANGED yearVars
  BY <1>1 DEF yearVars, CallsShaped
<1>2. ASSUME NEW c \in Callers, AskAny(c)
      PROVE  /\ CallsShaped' /\ calls'[c].request \in Requests
             /\ \A d \in Callers : d # c => calls'[d] = calls[d]
  <2>1. PICK k \in Keys, q \in Requests : Ask(c, k, q)
    BY <1>2 DEF AskAny
  <2>2. QED
    BY <2>1 DEF Ask, CallsShaped, CallFields
<1>3. ASSUME NEW c \in Callers,
             ReadFails(c) \/ Leave(c) \/ CloseReplay(c) \/ CloseRead(c)
      PROVE  calls[c] # NoCall /\ OnlyCall(c, TRUE)
  BY <1>3 DEF ReadFails, Leave, CloseReplay, CloseRead, Asked, OnlyCall, CallsShaped, CallFields
<1>4. ASSUME NEW c \in Callers,
             \/ NotReached(c) \/ FromReceipt(c)
             \/ Post(c) \/ Correct(c) \/ ReverseEvent(c) \/ LockPeriod(c)
             \/ Assess(c) \/ CloseCommit(c)
      PROVE  calls[c] # NoCall /\ \E refused : OnlyCall(c, refused)
  <2>1. calls[c] # NoCall
    BY <1>4 DEF NotReached, FromReceipt, Post, Correct, ReverseEvent, LockPeriod,
       Assess, CloseCommit, Asked
  <2>2. NotHeard(c) \/ Answers(c, "DONE") \/ Answers(c, "REFUSED")
    BY <1>4 DEF NotReached, FromReceipt, Post, Correct, ReverseEvent, LockPeriod,
       Assess, CloseCommit, Commits, Refuse
  <2>3. CASE NotHeard(c)
    BY <2>1, <2>3, NotHeardKeeps
  <2>4. CASE Answers(c, "DONE") \/ Answers(c, "REFUSED")
    <3>1. OnlyCall(c, "DONE" = "REFUSED") \/ OnlyCall(c, "REFUSED" = "REFUSED")
      BY <2>1, <2>4, AnswersKeep
    <3>2. QED
      BY <2>1, <3>1
  <2>5. QED
    BY <2>2, <2>3, <2>4
<1>5. QED
  BY <1>1, <1>2, <1>3, <1>4 DEF YearNext, OnlyCall

\* What is corrected or reversed is booked.
OriginalsBooked ==
  \A c \in Callers :
    calls[c] # NoCall /\ calls[c].request.op \in {"CORRECT", "REVERSE"} =>
      calls[c].request.original \in entries

\* What is posted is one of the year's sources.
PostsOfSources ==
  \A c \in Callers :
    calls[c] # NoCall /\ calls[c].request.op = "POST" => calls[c].request.entry \in Sources

ChangeInv == CallsShaped /\ OriginalsBooked /\ PostsOfSources

LEMMA ChangeStep ==
  ASSUME ChangeInv, [YearNext]_yearVars
  PROVE  ChangeInv'
<1>1. CallsShaped /\ OriginalsBooked /\ PostsOfSources
  BY DEF ChangeInv
<1>2. entries \subseteq entries'
  BY StepGrows DEF Grows
<1>3. ASSUME NEW d \in Callers, calls'[d] # NoCall
      PROVE  /\ calls'[d].request.op \in {"CORRECT", "REVERSE"} =>
                  calls'[d].request.original \in entries'
             /\ calls'[d].request.op = "POST" => calls'[d].request.entry \in Sources
  <2>1. CASE calls'[d].request \in Requests
    BY <1>2, <2>1 DEF Requests, Posts, Corrects, Reverses, Assesses, Closes
  <2>2. CASE calls[d] # NoCall /\ calls'[d].request = calls[d].request
    BY <1>1, <1>2, <2>2 DEF OriginalsBooked, PostsOfSources
  <2>3. QED
    BY <1>1, <1>3, <2>1, <2>2, RequestsKept
<1>4. QED
  BY <1>1, <1>3, RequestsKept DEF ChangeInv, OriginalsBooked, PostsOfSources

\* Nothing is posted by the owner dividend and shareholder loan writer.
NoOwnerSources == \A new \in Sources : new.kind # "OWNER"

\* What a step may do to the books of a closed year.
LinkedChange ==
  closeLock => /\ entries \subseteq entries'
               /\ \A e \in entries' \ entries : Linked(e)'

LEMMA LinkedStep ==
  ASSUME NoOwnerSources, ChangeInv, YearNext
  PROVE  LinkedChange
<1>1. SUFFICES ASSUME closeLock, NEW e \in entries', e \notin entries
               PROVE  Linked(e)'
  BY StepGrows DEF LinkedChange, Grows
<1>2. PICK c \in Callers : Post(c) \/ Correct(c) \/ ReverseEvent(c)
  <2>1. PICK c \in Callers :
          \/ AskAny(c) \/ NotReached(c) \/ ReadFails(c) \/ Leave(c)
          \/ FromReceipt(c) \/ Post(c) \/ Correct(c) \/ ReverseEvent(c) \/ LockPeriod(c)
          \/ Assess(c) \/ CloseReplay(c) \/ CloseRead(c) \/ CloseCommit(c)
    BY DEF YearNext
  <2>2. entries' # entries
    BY <1>1
  <2>3. QED
    BY <2>1, <2>2 DEF AskAny, Ask, NotReached, ReadFails, Leave, FromReceipt, LockPeriod,
       Assess, CloseReplay, CloseRead, CloseCommit, Refuse, store
<1>3. CASE Post(c)
  <2>1. e = calls[c].request.entry /\ Postable(e)
    BY <1>1, <1>3 DEF Post, Refuse, store
  <2>2. e \in Sources
    BY <1>3, <2>1 DEF Post, Asked, ChangeInv, PostsOfSources
  <2>3. QED
    BY <1>1, <2>1, <2>2 DEF Postable, NoOwnerSources
<1>4. CASE Correct(c)
  <2> DEFINE old == calls[c].request.original
             new == calls[c].request.entry
  <2>1. /\ entries' = entries \cup {Reversal(old), new}
        /\ corrections' = corrections \cup {<<old, new>>}
    BY <1>1, <1>4 DEF Correct, Refuse, store
  <2>2. old \in entries
    BY <1>4 DEF Correct, Asked, ChangeInv, OriginalsBooked
  <2>3. CASE e = Reversal(old)
    BY <2>1, <2>2, <2>3 DEF Linked, Reversal, Entry
  <2>4. CASE e = new
    <3>1. <<old, new>> \in corrections' /\ Reversal(old) \in entries'
      BY <2>1
    <3>2. <<old, new>>[1] = old /\ <<old, new>>[2] = e
      BY <2>4
    <3>3. \E pair \in corrections' : pair[2] = e /\ Reversal(pair[1]) \in entries'
      BY <3>1, <3>2
    <3>4. QED
      BY <3>3 DEF Linked, Reversal
  <2>5. QED
    BY <1>1, <2>1, <2>3, <2>4
<1>5. CASE ReverseEvent(c)
  <2> DEFINE old == calls[c].request.original
  <2>1. entries' = entries \cup {Reversal(old)}
    BY <1>1, <1>5 DEF ReverseEvent, Refuse, store
  <2>2. old \in entries
    BY <1>5 DEF ReverseEvent, Asked, ChangeInv, OriginalsBooked
  <2>3. QED
    BY <1>1, <2>1, <2>2 DEF Linked, Reversal, Entry
<1>6. QED
  BY <1>2, <1>3, <1>4, <1>5

\* Owner dividends and shareholder loans are the only way round the close: in
\* a year without them, the books change by linked corrections and reversals
\* alone once it is closed, and nothing booked disappears (post_entry,
\* correct_entry, reverse_supported_entry; post_entry_with_id_v1 is the way).
THEOREM LinkedChanges ==
  ASSUME NoOwnerSources
  PROVE  YearSpec => ChangedByCorrection
<1>1. YearInit => ChangeInv
  BY DEF YearInit, ChangeInv, CallsShaped, OriginalsBooked, PostsOfSources
<1>2. ChangeInv /\ [YearNext]_yearVars => ChangeInv'
  BY ChangeStep
<1>3. ChangeInv /\ [YearNext]_yearVars => [LinkedChange]_yearVars
  BY LinkedStep
<1>4. QED
  BY <1>1, <1>2, <1>3, PTL DEF YearSpec, ChangedByCorrection, LinkedChange
=============================================================================
