----------------------------- MODULE Rf1086Journal -----------------------------
(***************************************************************************)
(* Sending an approved RF-1086 filing.  One submission is a fixed sequence *)
(* of operations: the main form, one form per shareholder, the             *)
(* confirmation, and a read of the archive.  Before each operation a row   *)
(* is committed to a journal; after the authority's answer another one is. *)
(* No transaction spans the exchange, so a process may die or lose the     *)
(* answer anywhere, and another request may send the same submission at    *)
(* the same time.                                                          *)
(*                                                                         *)
(* A mutation whose latest row is neither a success nor a failure resumes  *)
(* as unknown and is not sent; one that failed retryably is sent again     *)
(* with the idempotency key of its first attempt.  The authority is        *)
(* external: it processes what arrives, possibly late, and answers or not. *)
(*                                                                         *)
(* All approvals are of one preview.  Times are left out: the latest row   *)
(* of an operation is the last one committed.                              *)
(***************************************************************************)
EXTENDS Integers, Sequences, FiniteSets

CONSTANTS Approvals,    \* approvals of one preview
          Senders,      \* requests sending at the same time
          Subs,         \* shareholder forms of the filing
          AttemptLimit  \* attempts of one operation; 20 in the code

ASSUME SubsAssumption == Subs \in Nat \ {0}
ASSUME LimitAssumption == AttemptLimit \in Nat \ {0}

Main == 1
Confirm == Subs + 2
List == Subs + 3
Steps == 1 .. List
Mutations == 1 .. Confirm

VARIABLES
    approval,  \* approval -> "none", "current" or "invalidated"
    status,    \* approval -> status of its submission, "none" before there is one
    journal,   \* approval -> operation -> its rows, in the order committed
    tasks,     \* sender -> what it is doing; lost in a crash
    wire,      \* mutations on their way to the authority
    held,      \* approval -> mutation -> keys the authority has processed it under
    sent       \* approval -> mutation -> times it was sent, 2 for more (history)

journalVars == <<approval, status, journal, tasks, wire, held, sent>>

Key == 1 .. 2 * AttemptLimit + 1

Event == [state : {"prepared", "succeeded", "failed", "unknown"},
          attempt : 1 .. AttemptLimit,
          class : {"none", "retryable", "blocked", "unknown"},
          key : Key]

Task == [pc : {"prepare", "ready", "sent", "succeeded", "failed"},
         approval : Approvals, step : Steps, op : Event]

Idle == [pc |-> "idle"]

Status == {"none", "sending", "received", "processing", "unknown", "rejected"}

\* A message is one sender's copy of a mutation under a key.
Message == [sender : Senders, approval : Approvals, step : Mutations, key : Key]

JournalTypeOK ==
    /\ approval \in [Approvals -> {"none", "current", "invalidated"}]
    /\ status \in [Approvals -> Status]
    /\ journal \in [Approvals -> [Steps -> Seq(Event)]]
    /\ tasks \in [Senders -> Task \cup {Idle}]
    /\ wire \subseteq Message
    /\ held \in [Approvals -> [Mutations -> SUBSET Key]]
    /\ sent \in [Approvals -> [Mutations -> 0 .. 2]]

JournalInit ==
    /\ approval = [a \in Approvals |-> "none"]
    /\ status = [a \in Approvals |-> "none"]
    /\ journal = [a \in Approvals |-> [i \in Steps |-> << >>]]
    /\ tasks = [w \in Senders |-> Idle]
    /\ wire = {}
    /\ held = [a \in Approvals |-> [i \in Mutations |-> {}]]
    /\ sent = [a \in Approvals |-> [i \in Mutations |-> 0]]

-----------------------------------------------------------------------------

\* A new approval of the preview takes the place of the current one, whatever has
\* been sent under it.
Approve(a) ==
    /\ approval[a] = "none"
    /\ approval' = [b \in Approvals |-> IF b = a THEN "current"
                                        ELSE IF approval[b] = "current" THEN "invalidated"
                                        ELSE approval[b]]
    /\ UNCHANGED <<status, journal, tasks, wire, held, sent>>

\* begin_production_filing: the submission of a current approval, new or resumed.
Begin(w, a) ==
    /\ tasks[w] = Idle
    /\ approval[a] = "current"
    /\ status' = [status EXCEPT ![a] = IF @ = "none" THEN "sending" ELSE @]
    /\ tasks' = [tasks EXCEPT ![w] = [pc |-> "prepare", approval |-> a, step |-> Main,
                                      op |-> [state |-> "prepared", attempt |-> 1,
                                              class |-> "none", key |-> 1]]]
    /\ UNCHANGED <<approval, journal, wire, held, sent>>

Rows(w) == journal[tasks[w].approval][tasks[w].step]

\* Mutant: an operation that was only prepared may be sent.
ResumedWhenPrepared(latest, mutation) ==
    LET retryable == latest.state = "failed" /\ latest.class = "retryable"
        exhausted == retryable /\ latest.attempt >= AttemptLimit
    IN [latest EXCEPT !.attempt = IF retryable /\ ~exhausted THEN @ + 1 ELSE @,
                      !.class = IF exhausted THEN "blocked" ELSE @]

\* resume_production_operation: what the latest row of an operation amounts to.
Resumed(latest, mutation) ==
    LET retryable == latest.state = "failed" /\ latest.class = "retryable"
        exhausted == retryable /\ latest.attempt >= AttemptLimit
    IN [latest EXCEPT
          !.state = IF mutation /\ @ \notin {"succeeded", "failed"} THEN "unknown" ELSE @,
          !.attempt = IF retryable /\ ~exhausted THEN @ + 1 ELSE @,
          !.class = IF exhausted THEN "blocked" ELSE @]

\* A key no row of the operation has.
FreshKey(rows) == Len(rows) + 1

\* Mutant: every call sends under the key it drew itself.
PreparedUnderNewKey(rows, mutation) ==
    IF rows = << >> THEN [state |-> "prepared", attempt |-> 1, class |-> "none",
                          key |-> FreshKey(rows)]
    ELSE [Resumed(rows[Len(rows)], mutation) EXCEPT !.key = FreshKey(rows)]

\* prepare: the operation as it is journaled now.
Prepared(rows, mutation) ==
    IF rows = << >> THEN [state |-> "prepared", attempt |-> 1, class |-> "none",
                          key |-> FreshKey(rows)]
    ELSE Resumed(rows[Len(rows)], mutation)

\* A mutation is not sent when its outcome is unknown, its failure final, or its
\* attempts are used up; a read is always made again.
Stopped(op) ==
    \/ op.state = "unknown"
    \/ op.attempt > AttemptLimit
    \/ op.state = "failed" /\ op.class = "blocked"

\* The sender goes on with the next operation, if there is one.
Advance(w) ==
    LET task == tasks[w] IN
    tasks' = [tasks EXCEPT ![w] =
        IF task.step = List THEN Idle
        ELSE [task EXCEPT !.pc = "prepare", !.step = task.step + 1]]

\* Mutant: a failed operation is skipped.
PrepareSkipping(w) ==
    LET task == tasks[w]
        mutation == task.step \in Mutations
        op == Prepared(Rows(w), mutation)
    IN
    /\ task # Idle /\ task.pc = "prepare"
    /\ journal' = IF Rows(w) = << >>
                  THEN [journal EXCEPT ![task.approval][task.step] = <<op>>] ELSE journal
    /\ \/ /\ op.state = "succeeded" \/ (mutation /\ Stopped(op))
          /\ Advance(w)
       \/ /\ op.state # "succeeded" /\ ~(mutation /\ Stopped(op))
          /\ tasks' = [tasks EXCEPT ![w].pc = "ready", ![w].op = op]
    /\ UNCHANGED <<approval, status, wire, held, sent>>

\* prepare, in a transaction of its own, and the checks on what it returns.
Prepare(w) ==
    LET task == tasks[w]
        mutation == task.step \in Mutations
        op == Prepared(Rows(w), mutation)
    IN
    /\ task # Idle /\ task.pc = "prepare"
    /\ journal' = IF Rows(w) = << >>
                  THEN [journal EXCEPT ![task.approval][task.step] = <<op>>] ELSE journal
    /\ \/ /\ op.state = "succeeded"
          /\ Advance(w)
       \/ /\ op.state # "succeeded" /\ mutation /\ Stopped(op)
          /\ tasks' = [tasks EXCEPT ![w] = Idle]
       \/ /\ op.state # "succeeded" /\ ~(mutation /\ Stopped(op))
          /\ tasks' = [tasks EXCEPT ![w].pc = "ready", ![w].op = op]
    /\ UNCHANGED <<approval, status, wire, held, sent>>

\* The message a sender has out, as a set: a read sends none.
Outstanding(w) ==
    IF tasks[w].step \in Mutations
    THEN {[sender |-> w, approval |-> tasks[w].approval, step |-> tasks[w].step,
           key |-> tasks[w].op.key]}
    ELSE {}

\* The request to the authority leaves.
Send(w) ==
    LET task == tasks[w] IN
    /\ task # Idle /\ task.pc = "ready"
    /\ tasks' = [tasks EXCEPT ![w].pc = "sent"]
    /\ wire' = wire \cup Outstanding(w)
    /\ sent' = IF task.step \in Mutations
               THEN [sent EXCEPT ![task.approval][task.step] = IF @ = 2 THEN 2 ELSE @ + 1]
               ELSE sent
    /\ UNCHANGED <<approval, status, journal, held>>

\* The authority processes a message, perhaps long after its sender gave up.
AuthorityProcess(message) ==
    /\ message \in wire
    /\ wire' = wire \ {message}
    /\ held' = [held EXCEPT ![message.approval][message.step] = @ \cup {message.key}]
    /\ UNCHANGED <<approval, status, journal, tasks, sent>>

\* A good answer: the mutation is held under the key it was sent with.
AnswerOk(w) ==
    LET task == tasks[w] IN
    /\ task # Idle /\ task.pc = "sent"
    /\ task.step \in Mutations => task.op.key \in held[task.approval][task.step]
    /\ tasks' = [tasks EXCEPT ![w].pc = "succeeded"]
    /\ UNCHANGED <<approval, status, journal, wire, held, sent>>

\* What a failed exchange is taken for.  A read has no unknown outcome.
Failed(w, class) ==
    tasks' = [tasks EXCEPT ![w].pc = "failed",
        ![w].op.class = IF class = "unknown" /\ tasks[w].step = List THEN "retryable" ELSE class]

\* No answer, a redirect or a timeout (unknown), or a status the adapter lists as
\* retryable.  The request may be processed all the same.
AnswerLost(w) ==
    /\ tasks[w] # Idle /\ tasks[w].pc = "sent"
    /\ \E class \in {"unknown", "retryable"} : Failed(w, class)
    /\ UNCHANGED <<approval, status, journal, wire, held, sent>>

\* A refusal, after which the request is not processed any more; or an answer the
\* adapter cannot use to a request that was.
AnswerRefused(w) ==
    /\ tasks[w] # Idle /\ tasks[w].pc = "sent"
    /\ Failed(w, "blocked")
    /\ wire' = wire \ Outstanding(w)
    /\ UNCHANGED <<approval, status, journal, held, sent>>

-----------------------------------------------------------------------------
(* append_production_filing_event. *)

Allowed(old, new) ==
    \/ new = old
    \/ old = "sending" /\ new \in {"received", "unknown", "rejected"}
    \/ old = "received" /\ new \in {"processing", "rejected"}
    \/ old = "processing" /\ new = "rejected"

\* The status a success of an operation writes.
SuccessStatus(step) ==
    IF step = List THEN "processing" ELSE IF step = Confirm THEN "received" ELSE "sending"

FailureStatus(class) ==
    CASE class = "unknown" -> "unknown"
      [] class = "blocked" -> "rejected"
      [] class = "retryable" -> "sending"

\* The event a sender wants to append, and the status that goes with it.
Outcome(task) ==
    [task.op EXCEPT
       !.state = IF task.pc = "succeeded" THEN "succeeded"
                 ELSE IF task.op.class = "unknown" THEN "unknown" ELSE "failed",
       !.class = IF task.pc = "succeeded" THEN "none" ELSE @]

NewStatus(task) ==
    IF task.pc = "succeeded" THEN SuccessStatus(task.step) ELSE FailureStatus(task.op.class)

\* The status may change that way and no row has the same attempt and state.
Appendable(w) ==
    /\ Allowed(status[tasks[w].approval], NewStatus(tasks[w]))
    /\ \A n \in 1 .. Len(Rows(w)) :
          \/ Rows(w)[n].attempt # Outcome(tasks[w]).attempt
          \/ Rows(w)[n].state # Outcome(tasks[w]).state

Append1086(w) ==
    /\ Appendable(w)
    /\ journal' = [journal EXCEPT ![tasks[w].approval][tasks[w].step] =
                      Append(@, Outcome(tasks[w]))]
    /\ status' = [status EXCEPT ![tasks[w].approval] = NewStatus(tasks[w])]

\* The success is journaled and the sender goes on.
RecordSuccess(w) ==
    /\ tasks[w] # Idle /\ tasks[w].pc = "succeeded"
    /\ Append1086(w)
    /\ Advance(w)
    /\ UNCHANGED <<approval, wire, held, sent>>

\* Journaling the success fails, before or after it was committed: the handler
\* that catches the authority's errors catches this one too.
LoseSuccess(w) ==
    /\ tasks[w] # Idle /\ tasks[w].pc = "succeeded"
    /\ Append1086(w) \/ UNCHANGED <<journal, status>>
    /\ Failed(w, "blocked")
    /\ UNCHANGED <<approval, wire, held, sent>>

\* The failure is journaled, or not, and the request ends with an error.
RecordFailure(w) ==
    /\ tasks[w] # Idle /\ tasks[w].pc = "failed"
    /\ Append1086(w) \/ UNCHANGED <<journal, status>>
    /\ tasks' = [tasks EXCEPT ![w] = Idle]
    /\ UNCHANGED <<approval, wire, held, sent>>

\* The process dies, or the request is cancelled.
Die(w) ==
    /\ tasks[w] # Idle
    /\ tasks' = [tasks EXCEPT ![w] = Idle]
    /\ UNCHANGED <<approval, status, journal, wire, held, sent>>

SenderStep(w) ==
    \/ \E a \in Approvals : Begin(w, a)
    \/ Prepare(w) \/ Send(w)
    \/ AnswerOk(w) \/ AnswerLost(w) \/ AnswerRefused(w)
    \/ RecordSuccess(w) \/ LoseSuccess(w) \/ RecordFailure(w) \/ Die(w)

JournalNext ==
    \/ \E a \in Approvals : Approve(a)
    \/ \E w \in Senders : SenderStep(w)
    \/ \E message \in wire : AuthorityProcess(message)

JournalSpec == JournalInit /\ [][JournalNext]_journalVars

-----------------------------------------------------------------------------
(* Properties. *)

\* However many requests send one submission, race, crash and resume, the
\* authority gets each of its operations under one key only, and so holds it once.
HeldUnderOneKey ==
    \A a \in Approvals, i \in Mutations :
        Cardinality(held[a][i] \cup {m.key : m \in {n \in wire : n.approval = a /\ n.step = i}}) <= 1

\* The confirmation is never on its way, let alone processed, while one of the
\* forms it covers is missing at the authority.
ConfirmedComplete ==
    \A a \in Approvals :
        held[a][Confirm] # {} \/ (\E m \in wire : m.approval = a /\ m.step = Confirm)
            => \A i \in Main .. Confirm - 1 : held[a][i] # {}

\* A mutation leaves a second time only when a retryable failure of it has been
\* journaled: a lost answer or a crash never makes it leave again.
ResentOnlyAfterRetryable ==
    \A a \in Approvals, i \in Mutations :
        sent[a][i] > 1 => \E n \in 1 .. Len(journal[a][i]) : journal[a][i][n].class = "retryable"

=============================================================================
