---------------------------- MODULE Rf1086Proofs -----------------------------
(***************************************************************************)
(* Proofs about sending an approved RF-1086 filing, for every number of    *)
(* approvals, requests, forms and attempts, and about reading the          *)
(* authority's feedback, for every set of documents and reconcilers and    *)
(* every number of reads.                                                  *)
(***************************************************************************)
EXTENDS Rf1086Journal, Rf1086Feedback, FiniteSetTheorems, TLAPS

-----------------------------------------------------------------------------
(* Sending a filing. *)

LEMMA Numbers ==
  /\ Main \in Mutations /\ Confirm \in Mutations /\ List \in Steps /\ Main \in Steps
  /\ Mutations \subseteq Steps /\ Steps \subseteq Nat
  /\ \A i \in Steps : i # List => i \in Mutations /\ i + 1 \in Steps
  /\ \A j \in Mutations, i \in Steps : j < i + 1 => j < i \/ j = i
  /\ AttemptLimit \in Nat /\ AttemptLimit >= 1 /\ 1 \in Key
BY SubsAssumption, LimitAssumption DEF Main, Confirm, List, Steps, Mutations, Key

-----------------------------------------------------------------------------
(* The journal grows. *)

First(a, i) == journal[a][i][1]
Begun(a, i) == Len(journal[a][i]) > 0
Retryable(a, i) == \E n \in 1 .. Len(journal[a][i]) : journal[a][i][n].class = "retryable"

\* No row is removed or changed.
Kept ==
  \A a \in Approvals, i \in Steps :
    /\ Len(journal'[a][i]) >= Len(journal[a][i])
    /\ \A n \in 1 .. Len(journal[a][i]) : journal'[a][i][n] = journal[a][i][n]

JournalTyped == journal \in [Approvals -> [Steps -> Seq(Event)]]

LEMMA Unwritten ==
  ASSUME JournalTyped, journal' = journal
  PROVE  JournalTyped' /\ Kept
<1>1. \A a \in Approvals, i \in Steps : Len(journal[a][i]) \in Nat
  BY DEF JournalTyped
<1>2. QED
  BY <1>1 DEF JournalTyped, Kept

\* One row is written.
Writes(a, i, row) == journal' = [journal EXCEPT ![a][i] = Append(@, row)]

LEMMA Written ==
  ASSUME JournalTyped, NEW a \in Approvals, NEW i \in Steps, NEW row \in Event,
         Writes(a, i, row)
  PROVE  /\ JournalTyped' /\ Kept
         /\ \A b \in Approvals, j \in Steps : b # a \/ j # i => journal'[b][j] = journal[b][j]
         /\ Len(journal'[a][i]) = Len(journal[a][i]) + 1
         /\ journal'[a][i][Len(journal[a][i]) + 1] = row
<1>1. journal[a] \in [Steps -> Seq(Event)] /\ journal[a][i] \in Seq(Event)
  BY DEF JournalTyped
<1>2. journal' = [journal EXCEPT ![a] = [journal[a] EXCEPT ![i] = Append(journal[a][i], row)]]
  BY DEF Writes
<1>3. /\ Append(journal[a][i], row) \in Seq(Event)
      /\ Len(Append(journal[a][i], row)) = Len(journal[a][i]) + 1
      /\ \A n \in 1 .. Len(journal[a][i]) : Append(journal[a][i], row)[n] = journal[a][i][n]
      /\ Append(journal[a][i], row)[Len(journal[a][i]) + 1] = row
      /\ Len(journal[a][i]) \in Nat
  BY <1>1
<1>4. /\ journal'[a] = [journal[a] EXCEPT ![i] = Append(journal[a][i], row)]
      /\ \A b \in Approvals : b # a => journal'[b] = journal[b]
  BY <1>2 DEF JournalTyped
<1>5. /\ journal'[a][i] = Append(journal[a][i], row)
      /\ \A b \in Approvals, j \in Steps : b # a \/ j # i => journal'[b][j] = journal[b][j]
  BY <1>1, <1>4
<1>6. JournalTyped'
  BY <1>1, <1>2, <1>3 DEF JournalTyped
<1>7. Kept
  <2>1. \A b \in Approvals, j \in Steps : Len(journal[b][j]) \in Nat
    BY DEF JournalTyped
  <2>2. QED
    BY <1>3, <1>5, <2>1 DEF Kept
<1>8. QED
  BY <1>3, <1>5, <1>6, <1>7

LEMMA Lengths ==
  ASSUME JournalTyped
  PROVE  \A a \in Approvals, i \in Steps : /\ Len(journal[a][i]) \in Nat
                                           /\ journal[a][i] \in Seq(Event)
                                           /\ journal[a][i] = <<>> <=> ~Begun(a, i)
BY DEF JournalTyped, Begun

LEMMA FirstStays ==
  ASSUME JournalTyped, JournalTyped', Kept, NEW a \in Approvals, NEW i \in Steps, Begun(a, i)
  PROVE  Begun(a, i)' /\ First(a, i)' = First(a, i)
<1>1. Len(journal[a][i]) \in Nat /\ Len(journal'[a][i]) \in Nat
  BY Lengths DEF JournalTyped
<1>2. QED
  BY <1>1 DEF Kept, Begun, First

LEMMA RetryableStays ==
  ASSUME JournalTyped, JournalTyped', Kept, NEW a \in Approvals, NEW i \in Steps, Retryable(a, i)
  PROVE  Retryable(a, i)'
<1>1. Len(journal[a][i]) \in Nat /\ Len(journal'[a][i]) \in Nat
  BY Lengths DEF JournalTyped
<1>2. QED
  BY <1>1 DEF Kept, Retryable

-----------------------------------------------------------------------------
(* What prepare makes of the rows. *)

LEMMA ResumedRow ==
  ASSUME NEW e \in Event, NEW i
  PROVE  /\ Resumed(e, i \in Mutations) \in Event
         /\ Resumed(e, i \in Mutations).key = e.key
         /\ Resumed(e, i \in Mutations).state = "succeeded" <=> e.state = "succeeded"
         /\ i \in Mutations /\ Resumed(e, i \in Mutations).state \notin {"succeeded", "unknown"}
              /\ Resumed(e, i \in Mutations).class # "blocked"
              => e.state = "failed" /\ e.class # "blocked"
<1> DEFINE retryable == e.state = "failed" /\ e.class = "retryable"
           exhausted == retryable /\ e.attempt >= AttemptLimit
           s == IF i \in Mutations /\ e.state \notin {"succeeded", "failed"} THEN "unknown" ELSE e.state
           n == IF retryable /\ ~exhausted THEN e.attempt + 1 ELSE e.attempt
           k == IF exhausted THEN "blocked" ELSE e.class
<1>1. Resumed(e, i \in Mutations) = [e EXCEPT !.state = s, !.attempt = n, !.class = k]
  BY DEF Resumed
<1>2. n \in 1 .. AttemptLimit
  BY Numbers DEF Event
<1>3. s \in {"prepared", "succeeded", "failed", "unknown"}
      /\ k \in {"none", "retryable", "blocked", "unknown"}
  BY DEF Event
<1>4. (s = "succeeded" <=> e.state = "succeeded")
      /\ (i \in Mutations /\ s \notin {"succeeded", "unknown"} => e.state = "failed")
      /\ (k # "blocked" => e.class # "blocked")
  BY DEF Event
<1> HIDE DEF s, n, k
<1>5. /\ Resumed(e, i \in Mutations) \in Event /\ Resumed(e, i \in Mutations).key = e.key
      /\ Resumed(e, i \in Mutations).state = s /\ Resumed(e, i \in Mutations).class = k
  BY <1>1, <1>2, <1>3 DEF Event
<1>6. QED
  BY <1>4, <1>5

LEMMA PreparedRow ==
  ASSUME NEW written \in Seq(Event), NEW i
  PROVE  /\ Prepared(written, i \in Mutations) \in Event
         /\ written # <<>> => /\ written[Len(written)] \in Event /\ Len(written) \in 1 .. Len(written)
                           /\ Prepared(written, i \in Mutations) = Resumed(written[Len(written)], i \in Mutations)
         /\ written = <<>> => Prepared(written, i \in Mutations).state = "prepared"
<1>1. CASE written = <<>>
  <2>1. Prepared(written, i \in Mutations) = [state |-> "prepared", attempt |-> 1, class |-> "none",
                                    key |-> 1]
    BY <1>1 DEF Prepared, FreshKey
  <2>2. QED
    BY <1>1, <2>1, Numbers DEF Event
<1>2. CASE written # <<>>
  <2>1. written[Len(written)] \in Event /\ Len(written) \in 1 .. Len(written)
    BY <1>2
  <2>2. Prepared(written, i \in Mutations) = Resumed(written[Len(written)], i \in Mutations)
    BY <1>2 DEF Prepared
  <2>3. QED
    BY <1>2, <2>1, <2>2, ResumedRow
<1>3. QED
  BY <1>1, <1>2

-----------------------------------------------------------------------------
(* The invariant. *)

Busy(w) == tasks[w] # Idle
ReadyAt(w, a, i) ==
  Busy(w) /\ tasks[w].pc = "ready" /\ tasks[w].approval = a /\ tasks[w].step = i

Held(a, i) == i \in Mutations => held[a][i] # {}
HeldBefore(a, i) == \A j \in Mutations : j < i => held[a][j] # {}

\* A row has the key of its operation, and a success is the authority's.
RowOk(a, i, e) ==
  /\ e.key = First(a, i).key
  /\ e.state = "succeeded" => Held(a, i)
  /\ e.state = "failed" => e.class \in {"retryable", "blocked"}

\* A task that prepared its operation has that operation's key, and everything
\* before it is held.
TaskOk(t) ==
  /\ t.pc # "prepare" => Begun(t.approval, t.step) /\ t.op.key = First(t.approval, t.step).key
  /\ t.pc = "failed" => t.op.class # "none"
  /\ t.pc = "succeeded" => Held(t.approval, t.step)
  /\ HeldBefore(t.approval, t.step)

RowsInv == \A a \in Approvals, i \in Steps : \A n \in 1 .. Len(journal[a][i]) :
             RowOk(a, i, journal[a][i][n])
TasksInv == \A w \in Senders : Busy(w) => TaskOk(tasks[w])
MessageOk(m) ==
  /\ Begun(m.approval, m.step) /\ m.key = First(m.approval, m.step).key
  /\ HeldBefore(m.approval, m.step)
WireInv == \A m \in wire : MessageOk(m)
HeldOk(a, i) ==
  held[a][i] # {} => /\ Begun(a, i) /\ HeldBefore(a, i)
                     /\ \A k \in held[a][i] : k = First(a, i).key
HeldInv == \A a \in Approvals, i \in Mutations : HeldOk(a, i)

\* Before a retryable failure is journaled an operation is sent once, by the one
\* request that prepared it first.
SentOk(a, i) ==
  /\ sent[a][i] > 0 => Begun(a, i)
  /\ sent[a][i] > 1 => Retryable(a, i)
  /\ \A w \in Senders : ReadyAt(w, a, i) =>
       \/ Retryable(a, i)
       \/ sent[a][i] = 0 /\ \A v \in Senders : ReadyAt(v, a, i) => v = w
SentInv == \A a \in Approvals, i \in Mutations : SentOk(a, i)

Typed ==
  /\ JournalTyped
  /\ tasks \in [Senders -> Task \cup {Idle}]
  /\ wire \subseteq Message
  /\ held \in [Approvals -> [Mutations -> SUBSET Key]]
  /\ sent \in [Approvals -> [Mutations -> 0 .. 2]]

JournalInv == Typed /\ RowsInv /\ TasksInv /\ WireInv /\ HeldInv /\ SentInv

LEMMA IdleIsNoTask == Idle \notin Task
BY DEF Idle, Task

LEMMA Working ==
  ASSUME Typed, NEW w \in Senders, Busy(w)
  PROVE  tasks[w] \in Task
BY DEF Typed, Busy

-----------------------------------------------------------------------------
(* What a step leaves true of the others. *)

\* The journal is kept, and what is held stays held.
Onward == Kept /\ \A a \in Approvals, i \in Mutations : held[a][i] \subseteq held'[a][i]

LEMMA HeldStays ==
  ASSUME Onward, NEW a \in Approvals, NEW i \in Steps
  PROVE  (Held(a, i) => Held(a, i)') /\ (HeldBefore(a, i) => HeldBefore(a, i)')
BY DEF Onward, Held, HeldBefore

LEMMA TaskStays ==
  ASSUME JournalTyped, JournalTyped', Onward, NEW t \in Task, TaskOk(t)
  PROVE  TaskOk(t)'
<1>1. t.approval \in Approvals /\ t.step \in Steps
  BY DEF Task
<1>2. PICK a, i : a = t.approval /\ i = t.step
  OBVIOUS
<1>3. Begun(a, i) => Begun(a, i)' /\ First(a, i)' = First(a, i)
  BY <1>1, <1>2, FirstStays DEF Onward
<1>4. (Held(a, i) => Held(a, i)') /\ (HeldBefore(a, i) => HeldBefore(a, i)')
  BY <1>1, <1>2, HeldStays
<1>5. QED
  BY <1>2, <1>3, <1>4 DEF TaskOk

LEMMA MessageStays ==
  ASSUME JournalTyped, JournalTyped', Onward, NEW m \in Message, MessageOk(m)
  PROVE  MessageOk(m)'
<1>1. m.approval \in Approvals /\ m.step \in Steps
  BY Numbers DEF Message
<1>2. PICK a, i : a = m.approval /\ i = m.step
  OBVIOUS
<1>3. Begun(a, i) => Begun(a, i)' /\ First(a, i)' = First(a, i)
  BY <1>1, <1>2, FirstStays DEF Onward
<1>4. HeldBefore(a, i) => HeldBefore(a, i)'
  BY <1>1, <1>2, HeldStays
<1>5. QED
  BY <1>2, <1>3, <1>4 DEF MessageOk

LEMMA RowStays ==
  ASSUME JournalTyped, JournalTyped', Onward, NEW a \in Approvals, NEW i \in Steps,
         Begun(a, i), NEW e, RowOk(a, i, e)
  PROVE  RowOk(a, i, e)'
<1>1. First(a, i)' = First(a, i)
  BY FirstStays DEF Onward
<1>2. Held(a, i) => Held(a, i)'
  BY HeldStays
<1>3. QED
  BY <1>1, <1>2 DEF RowOk

\* Rows: nothing is written, or one row that is right.
LEMMA RowsUnwritten ==
  ASSUME Typed, RowsInv, Onward, journal' = journal
  PROVE  RowsInv'
<1>1. JournalTyped /\ JournalTyped'
  BY Unwritten DEF Typed
<1>2. ASSUME NEW a \in Approvals, NEW i \in Steps, NEW n \in 1 .. Len(journal[a][i])
      PROVE  RowOk(a, i, journal[a][i][n])'
  <2>1. Begun(a, i)
    BY <1>1, Lengths DEF Begun
  <2>2. PICK e : e = journal[a][i][n]
    OBVIOUS
  <2>3. RowOk(a, i, e)'
    BY <1>1, <2>1, <2>2, RowStays DEF RowsInv
  <2>4. QED
    BY <2>2, <2>3
<1>3. QED
  BY <1>2 DEF RowsInv

LEMMA RowsWritten ==
  ASSUME Typed, RowsInv, Onward, NEW a \in Approvals, NEW i \in Steps, NEW row \in Event,
         Writes(a, i, row),
         Begun(a, i) => RowOk(a, i, row),
         ~Begun(a, i) => row.state = "prepared"
  PROVE  RowsInv' /\ Begun(a, i)' /\ First(a, i)'.key = row.key
<1>1. /\ JournalTyped /\ JournalTyped' /\ Kept
      /\ \A b \in Approvals, j \in Steps : b # a \/ j # i => journal'[b][j] = journal[b][j]
      /\ Len(journal'[a][i]) = Len(journal[a][i]) + 1
      /\ journal'[a][i][Len(journal[a][i]) + 1] = row
  BY Written DEF Typed
<1>2. Len(journal[a][i]) \in Nat
  BY <1>1, Lengths
<1>3. Begun(a, i)' /\ First(a, i)'.key = row.key
  <2>1. CASE Begun(a, i)
    BY <1>1, <2>1, FirstStays DEF RowOk
  <2>2. CASE ~Begun(a, i)
    <3>1. Len(journal[a][i]) = 0
      BY <1>2, <2>2 DEF Begun
    <3>2. QED
      BY <1>1, <3>1 DEF Begun, First
  <2>3. QED
    BY <2>1, <2>2
<1>4. ASSUME NEW b \in Approvals, NEW j \in Steps, NEW n \in 1 .. Len(journal'[b][j])
      PROVE  RowOk(b, j, journal[b][j][n])'
  <2>1. PICK e : e = journal'[b][j][n]
    OBVIOUS
  <2>2. CASE n \in 1 .. Len(journal[b][j])
    <3>1. e = journal[b][j][n] /\ Begun(b, j)
      BY <1>1, <2>1, <2>2, Lengths DEF Kept, Begun
    <3>2. RowOk(b, j, e)'
      BY <1>1, <2>2, <3>1, RowStays DEF RowsInv
    <3>3. QED
      BY <2>1, <3>2
  <2>3. CASE n \notin 1 .. Len(journal[b][j])
    <3>1. b = a /\ j = i /\ n = Len(journal[a][i]) + 1 /\ e = row
      BY <1>1, <1>2, <1>4, <2>1, <2>3
    <3>2. CASE Begun(a, i)
      <4>1. RowOk(a, i, e)'
        BY <1>1, <3>1, <3>2, RowStays
      <4>2. QED
        BY <2>1, <3>1, <4>1
    <3>3. CASE ~Begun(a, i)
      BY <1>3, <2>1, <3>1, <3>3 DEF RowOk
    <3>4. QED
      BY <3>2, <3>3
  <2>4. QED
    BY <2>2, <2>3
<1>5. QED
  BY <1>3, <1>4 DEF RowsInv

\* Tasks: one sender has another task.
LEMMA TasksKept ==
  ASSUME Typed, JournalTyped', TasksInv, Onward, NEW w \in Senders, NEW t \in Task \cup {Idle},
         tasks' = [tasks EXCEPT ![w] = t], t # Idle => TaskOk(t)'
  PROVE  TasksInv' /\ tasks' \in [Senders -> Task \cup {Idle}]
<1>1. tasks' \in [Senders -> Task \cup {Idle}]
  BY DEF Typed
<1>2. ASSUME NEW v \in Senders, Busy(v)' PROVE TaskOk(tasks[v])'
  <2>1. PICK x : x = tasks'[v]
    OBVIOUS
  <2>2. CASE v = w
    <3>1. x = t /\ x # Idle
      BY <1>2, <2>1, <2>2 DEF Typed, Busy
    <3>2. QED
      BY <2>1, <3>1
  <2>3. CASE v # w
    <3>1. x = tasks[v] /\ x \in Task /\ TaskOk(x)
      BY <1>2, <2>1, <2>3, Working DEF Typed, Busy, TasksInv
    <3>2. TaskOk(x)'
      BY <3>1, TaskStays DEF Typed
    <3>3. QED
      BY <2>1, <3>2
  <2>4. QED
    BY <2>2, <2>3
<1>3. QED
  BY <1>1, <1>2 DEF TasksInv

LEMMA WireKept ==
  ASSUME Typed, JournalTyped', WireInv, Onward, wire' \subseteq Message,
         \A m \in wire' : m \in wire \/ MessageOk(m)
  PROVE  WireInv'
<1>1. ASSUME NEW m \in wire' PROVE MessageOk(m)'
  BY <1>1, MessageStays DEF Typed, WireInv
<1>2. QED
  BY <1>1 DEF WireInv

LEMMA HeldKept ==
  ASSUME Typed, JournalTyped', HeldInv, Onward, held' = held
  PROVE  HeldInv'
<1>1. ASSUME NEW a \in Approvals, NEW i \in Mutations PROVE HeldOk(a, i)'
  <2>1. i \in Steps
    BY Numbers
  <2>2. Begun(a, i) => Begun(a, i)' /\ First(a, i)' = First(a, i)
    BY <2>1, FirstStays DEF Onward, Typed
  <2>3. HeldBefore(a, i) => HeldBefore(a, i)'
    BY <2>1, HeldStays
  <2>4. QED
    BY <2>2, <2>3 DEF HeldInv, HeldOk
<1>2. QED
  BY <1>1 DEF HeldInv

\* Sending: no more is sent, and nobody becomes ready but for an operation that
\* failed retryably or begins now.
LEMMA SentKept ==
  ASSUME Typed, JournalTyped', SentInv, Kept, sent' = sent,
         \A a \in Approvals, i \in Mutations, v \in Senders : ReadyAt(v, a, i)' =>
           \/ ReadyAt(v, a, i)
           \/ Retryable(a, i)
           \/ sent[a][i] = 0 /\ \A u \in Senders : ReadyAt(u, a, i)' => u = v
  PROVE  SentInv'
<1>1. ASSUME NEW a \in Approvals, NEW i \in Mutations PROVE SentOk(a, i)'
  <2>1. i \in Steps /\ JournalTyped
    BY Numbers DEF Typed
  <2>2. (Begun(a, i) => Begun(a, i)') /\ (Retryable(a, i) => Retryable(a, i)')
    BY <2>1, FirstStays, RetryableStays
  <2>3. SentOk(a, i)
    BY DEF SentInv
  <2>4. QED
    BY <2>2, <2>3 DEF SentOk
<1>2. QED
  BY <1>1 DEF SentInv

-----------------------------------------------------------------------------
(* The steps. *)

LEMMA Parts ==
  ASSUME JournalTyped', tasks' \in [Senders -> Task \cup {Idle}], wire' \subseteq Message,
         held' \in [Approvals -> [Mutations -> SUBSET Key]],
         sent' \in [Approvals -> [Mutations -> 0 .. 2]],
         RowsInv', TasksInv', WireInv', HeldInv', SentInv'
  PROVE  JournalInv'
BY DEF JournalInv, Typed

LEMMA StillOnward ==
  ASSUME Typed, Kept, held' = held
  PROVE  Onward
BY DEF Onward

\* A sender that writes at most a right row and becomes idle, or goes on without
\* being ready to send.
LEMMA TaskStep ==
  ASSUME JournalInv, NEW w \in Senders, NEW t \in Task \cup {Idle},
         tasks' = [tasks EXCEPT ![w] = t], held' = held, sent' = sent, wire' \subseteq wire,
         JournalTyped', Kept, RowsInv', t # Idle => TaskOk(t) /\ t.pc # "ready"
  PROVE  JournalInv'
<1>1. Typed /\ RowsInv /\ TasksInv /\ WireInv /\ HeldInv /\ SentInv /\ JournalTyped
  BY DEF JournalInv, Typed
<1>2. Onward
  BY <1>1, StillOnward
<1>3. t # Idle => TaskOk(t)'
  BY <1>1, <1>2, TaskStays
<1>4. TasksInv' /\ tasks' \in [Senders -> Task \cup {Idle}]
  BY <1>1, <1>2, <1>3, TasksKept
<1>5. wire' \subseteq Message
  BY <1>1 DEF Typed
<1>6. WireInv'
  BY <1>1, <1>2, <1>5, WireKept
<1>7. HeldInv'
  BY <1>1, <1>2, HeldKept
<1>8. \A a \in Approvals, i \in Mutations, v \in Senders : ReadyAt(v, a, i)' => ReadyAt(v, a, i)
  BY <1>1 DEF ReadyAt, Busy, Typed
<1>9. SentInv'
  BY <1>1, <1>8, SentKept
<1>10. QED
  BY <1>1, <1>4, <1>5, <1>6, <1>7, <1>9, Parts DEF Typed

\* The same without a row.
LEMMA QuietStep ==
  ASSUME JournalInv, NEW w \in Senders, NEW t \in Task \cup {Idle},
         tasks' = [tasks EXCEPT ![w] = t], UNCHANGED <<journal, held, sent>>, wire' \subseteq wire,
         t # Idle => TaskOk(t) /\ t.pc # "ready"
  PROVE  JournalInv'
<1>1. JournalTyped' /\ Kept
  BY Unwritten DEF JournalInv, Typed
<1>2. RowsInv'
  BY <1>1, RowsUnwritten, StillOnward DEF JournalInv
<1>3. QED
  BY <1>1, <1>2, TaskStep

LEMMA OutcomeRow ==
  ASSUME JournalInv, NEW w \in Senders, Busy(w), tasks[w].pc \in {"succeeded", "failed"}
  PROVE  /\ Outcome(tasks[w]) \in Event
         /\ Begun(tasks[w].approval, tasks[w].step)
         /\ RowOk(tasks[w].approval, tasks[w].step, Outcome(tasks[w]))
<1>1. PICK t : t = tasks[w]
  OBVIOUS
<1>2. t \in Task /\ t.op \in Event /\ TaskOk(t)
  BY <1>1, Working DEF JournalInv, TasksInv, Task
<1>3. /\ Outcome(t) \in Event /\ Outcome(t).key = t.op.key
      /\ Outcome(t).state = "succeeded" <=> t.pc = "succeeded"
      /\ Outcome(t).state = "failed" => t.op.class # "unknown" /\ Outcome(t).class = t.op.class
  BY <1>1, <1>2 DEF Outcome, Event
<1>4. t.op.class \in {"none", "retryable", "blocked", "unknown"}
  BY <1>2 DEF Event
<1>5. QED
  BY <1>1, <1>2, <1>3, <1>4 DEF TaskOk, RowOk

\* A sender journals the outcome, or the journaling fails.
LEMMA OutcomeWritten ==
  ASSUME JournalInv, NEW w \in Senders, Busy(w), tasks[w].pc \in {"succeeded", "failed"},
         Append1086(w) \/ journal' = journal, held' = held
  PROVE  JournalTyped' /\ Kept /\ RowsInv'
<1>1. Typed /\ RowsInv /\ JournalTyped /\ tasks[w] \in Task
  BY Working DEF JournalInv, Typed
<1>2. CASE journal' = journal
  <2>1. JournalTyped' /\ Kept
    BY <1>1, <1>2, Unwritten
  <2>2. QED
    BY <1>1, <1>2, <2>1, RowsUnwritten, StillOnward
<1>3. CASE Append1086(w)
  <2>1. PICK a, i, row : a = tasks[w].approval /\ i = tasks[w].step /\ row = Outcome(tasks[w])
    OBVIOUS
  <2>2. /\ a \in Approvals /\ i \in Steps /\ row \in Event
        /\ Begun(a, i) /\ RowOk(a, i, row)
    BY <1>1, <2>1, OutcomeRow DEF Task
  <2>3. Writes(a, i, row)
    BY <1>3, <2>1 DEF Append1086, Writes
  <2>4. JournalTyped' /\ Kept
    BY <1>1, <2>2, <2>3, Written
  <2>5. RowsInv'
    BY <1>1, <2>2, <2>3, <2>4, RowsWritten, StillOnward
  <2>6. QED
    BY <2>4, <2>5
<1>4. QED
  BY <1>2, <1>3

\* The sender goes on when what it is at is held.
LEMMA Advances ==
  ASSUME JournalInv, NEW w \in Senders, Busy(w), Advance(w),
         Held(tasks[w].approval, tasks[w].step)
  PROVE  \E t \in Task \cup {Idle} : /\ tasks' = [tasks EXCEPT ![w] = t]
                                     /\ t # Idle => TaskOk(t) /\ t.pc # "ready"
<1>1. PICK t : t = tasks[w]
  OBVIOUS
<1>2. t \in Task /\ TaskOk(t)
  BY <1>1, Working DEF JournalInv, TasksInv
<1>3. CASE t.step = List
  BY <1>1, <1>3 DEF Advance
<1>4. CASE t.step # List
  <2> PICK next : next = [t EXCEPT !.pc = "prepare", !.step = t.step + 1]
    OBVIOUS
  <2>1. tasks' = [tasks EXCEPT ![w] = next]
    BY <1>1, <1>4 DEF Advance, JournalInv, Typed
  <2>2. t.step \in Mutations /\ t.step + 1 \in Steps
    BY <1>2, <1>4, Numbers DEF Task
  <2>3. next \in Task /\ next.pc = "prepare" /\ next.approval = t.approval
        /\ next.step = t.step + 1
    BY <1>2, <2>2 DEF Task
  <2>4. HeldBefore(t.approval, t.step + 1)
    BY <1>1, <1>2, <2>2, Numbers DEF HeldBefore, Held, TaskOk
  <2>5. TaskOk(next)
    BY <2>3, <2>4 DEF TaskOk
  <2>6. QED
    BY <2>1, <2>3, <2>5
<1>5. QED
  BY <1>3, <1>4

LEMMA BeginKeeps ==
  ASSUME JournalInv, NEW w \in Senders, NEW a \in Approvals, Begin(w, a)
  PROVE  JournalInv'
<1> DEFINE t == [pc |-> "prepare", approval |-> a, step |-> Main,
                 op |-> [state |-> "prepared", attempt |-> 1, class |-> "none", key |-> 1]]
<1>1. tasks' = [tasks EXCEPT ![w] = t] /\ UNCHANGED <<journal, wire, held, sent>>
  BY DEF Begin
<1>2. t \in Task
  BY Numbers DEF Task, Event
<1>3. HeldBefore(a, Main)
  BY DEF HeldBefore, Main, Mutations
<1>4. TaskOk(t) /\ t.pc # "ready"
  BY <1>3 DEF TaskOk
<1>5. QED
  BY <1>1, <1>2, <1>4, QuietStep

LEMMA AnswerKeeps ==
  ASSUME JournalInv, NEW w \in Senders, AnswerOk(w) \/ AnswerLost(w) \/ AnswerRefused(w)
  PROVE  JournalInv'
<1>1. PICK t : t = tasks[w]
  OBVIOUS
<1>2. t \in Task /\ t.op \in Event /\ TaskOk(t) /\ t.pc = "sent"
  BY <1>1, Working DEF AnswerOk, AnswerLost, AnswerRefused, Busy, JournalInv, TasksInv, Task
<1>3. UNCHANGED <<journal, held, sent>> /\ wire' \subseteq wire
  BY DEF AnswerOk, AnswerLost, AnswerRefused
<1>4. CASE AnswerOk(w)
  <2> DEFINE next == [t EXCEPT !.pc = "succeeded"]
  <2>1. tasks' = [tasks EXCEPT ![w] = next] /\ next \in Task /\ next # Idle
    BY <1>1, <1>2, <1>4, IdleIsNoTask DEF AnswerOk, Task
  <2>2. Held(t.approval, t.step)
    BY <1>1, <1>4 DEF AnswerOk, Held
  <2>3. TaskOk(next) /\ next.pc # "ready"
    BY <1>2, <2>2 DEF TaskOk, Task
  <2>4. QED
    BY <1>3, <2>1, <2>3, QuietStep
<1>5. CASE AnswerLost(w) \/ AnswerRefused(w)
  <2>1. PICK class \in {"unknown", "retryable", "blocked"} :
          tasks' = [tasks EXCEPT ![w].pc = "failed", ![w].op.class = class]
    BY <1>5 DEF AnswerLost, AnswerRefused, Failed
  <2>2. PICK next : next = [t EXCEPT !.pc = "failed", !.op = [t.op EXCEPT !.class = class]]
    OBVIOUS
  <2>3. /\ next \in Task /\ next.pc = "failed" /\ next.op.class = class
        /\ next.op.key = t.op.key /\ next.approval = t.approval /\ next.step = t.step
    BY <1>2, <2>2 DEF Task, Event
  <2>4. tasks' = [tasks EXCEPT ![w] = next]
    BY <1>1, <2>1, <2>2 DEF JournalInv, Typed
  <2>5. TaskOk(next)
    BY <1>2, <2>3 DEF TaskOk
  <2>6. QED
    BY <1>3, <2>3, <2>4, <2>5, QuietStep
<1>6. QED
  BY <1>4, <1>5

LEMMA RecordKeeps ==
  ASSUME JournalInv, NEW w \in Senders,
         RecordSuccess(w) \/ LoseSuccess(w) \/ RecordFailure(w) \/ Die(w)
  PROVE  JournalInv'
<1>1. Busy(w) /\ held' = held /\ sent' = sent /\ wire' = wire
  BY DEF RecordSuccess, LoseSuccess, RecordFailure, Die, Busy
<1>2. CASE RecordSuccess(w)
  <2>1. Advance(w) /\ Append1086(w) /\ tasks[w].pc = "succeeded"
    BY <1>2 DEF RecordSuccess
  <2>2. Held(tasks[w].approval, tasks[w].step)
    BY <1>1, <2>1 DEF JournalInv, TasksInv, TaskOk
  <2>3. JournalTyped' /\ Kept /\ RowsInv'
    BY <1>1, <2>1, OutcomeWritten
  <2>4. PICK t \in Task \cup {Idle} : /\ tasks' = [tasks EXCEPT ![w] = t]
                                      /\ t # Idle => TaskOk(t) /\ t.pc # "ready"
    BY <1>1, <2>1, <2>2, Advances
  <2>5. QED
    BY <1>1, <2>3, <2>4, TaskStep
<1>3. CASE LoseSuccess(w)
  <2>1. PICK t : t = tasks[w]
    OBVIOUS
  <2>2. t \in Task /\ t.op \in Event /\ TaskOk(t) /\ t.pc = "succeeded"
    BY <1>1, <1>3, <2>1, Working DEF LoseSuccess, JournalInv, TasksInv, Task
  <2>3. PICK next : next = [t EXCEPT !.pc = "failed", !.op = [t.op EXCEPT !.class = "blocked"]]
    OBVIOUS
  <2>4. /\ next \in Task /\ next.pc = "failed" /\ next.op.class = "blocked"
        /\ next.op.key = t.op.key /\ next.approval = t.approval /\ next.step = t.step
    BY <2>2, <2>3 DEF Task, Event
  <2>5. tasks' = [tasks EXCEPT ![w] = next]
    BY <1>3, <2>1, <2>3 DEF LoseSuccess, Failed, JournalInv, Typed
  <2>6. TaskOk(next)
    BY <2>2, <2>4 DEF TaskOk
  <2>7. JournalTyped' /\ Kept /\ RowsInv'
    BY <1>1, <1>3, <2>1, <2>2, OutcomeWritten DEF LoseSuccess
  <2>8. QED
    BY <1>1, <2>4, <2>5, <2>6, <2>7, TaskStep
<1>4. CASE RecordFailure(w)
  <2>1. JournalTyped' /\ Kept /\ RowsInv'
    BY <1>1, <1>4, OutcomeWritten DEF RecordFailure
  <2>2. tasks' = [tasks EXCEPT ![w] = Idle]
    BY <1>4 DEF RecordFailure
  <2>3. QED
    BY <1>1, <2>1, <2>2, TaskStep
<1>5. CASE Die(w)
  BY <1>5, QuietStep DEF Die
<1>6. QED
  BY <1>2, <1>3, <1>4, <1>5

\* What prepare does to the sender.
LEMMA PreparedTask ==
  ASSUME JournalInv, NEW w \in Senders, Prepare(w)
  PROVE  LET t == tasks[w]
         IN /\ Busy(w) /\ t \in Task /\ t.pc = "prepare" /\ TaskOk(t)
            /\ t.approval \in Approvals /\ t.step \in Steps
            /\ UNCHANGED <<wire, held, sent>>
BY Working DEF Prepare, Busy, JournalInv, TasksInv, Task

\* The first row of an operation is written.
LEMMA PrepareFirstKeeps ==
  ASSUME JournalInv, NEW w \in Senders, Prepare(w), Rows(w) = <<>>
  PROVE  JournalInv'
<1>1. PICK t, a, i, op : /\ t = tasks[w] /\ a = t.approval /\ i = t.step
                         /\ op = Prepared(journal[a][i], i \in Mutations)
  OBVIOUS
<1>2. /\ t \in Task /\ t.pc = "prepare" /\ TaskOk(t) /\ a \in Approvals /\ i \in Steps
      /\ UNCHANGED <<wire, held, sent>>
  BY <1>1, PreparedTask
<1>3. Typed /\ JournalTyped /\ RowsInv /\ TasksInv /\ WireInv /\ HeldInv /\ SentInv
  BY DEF JournalInv, Typed
<1>4. journal[a][i] = <<>> /\ ~Begun(a, i) /\ journal[a][i] \in Seq(Event)
  BY <1>1, <1>2, <1>3, Lengths DEF Rows
<1>5. op \in Event /\ op.state = "prepared"
  BY <1>1, <1>4, PreparedRow
<1>6. Writes(a, i, op)
  <2>1. journal' = [journal EXCEPT ![a][i] = <<op>>]
    BY <1>1, <1>4 DEF Prepare, Rows
  <2>2. Append(journal[a][i], op) = <<op>>
    BY <1>4, <1>5
  <2>3. QED
    BY <2>1, <2>2 DEF Writes
<1>7. JournalTyped' /\ Kept /\ Onward
  BY <1>2, <1>3, <1>5, <1>6, Written, StillOnward
<1>8. RowsInv' /\ Begun(a, i)' /\ First(a, i)'.key = op.key
  BY <1>2, <1>3, <1>4, <1>5, <1>6, <1>7, RowsWritten
<1>9. PICK n : n = [t EXCEPT !.pc = "ready", !.op = op]
  OBVIOUS
<1>10. n \in Task /\ n.pc = "ready" /\ n.op = op /\ n.approval = a /\ n.step = i
  BY <1>1, <1>2, <1>5, <1>9 DEF Task
<1>11. tasks' = [tasks EXCEPT ![w] = Idle] \/ tasks' = [tasks EXCEPT ![w] = n]
  BY <1>1, <1>4, <1>5, <1>9 DEF Prepare, Rows, JournalInv, Typed
<1>12. TaskOk(n)'
  BY <1>1, <1>2, <1>7, <1>8, <1>10, HeldStays DEF TaskOk
<1>13. TasksInv' /\ tasks' \in [Senders -> Task \cup {Idle}]
  BY <1>3, <1>7, <1>10, <1>11, <1>12, TasksKept
<1>14. \A v \in Senders : ~ReadyAt(v, a, i)
  BY <1>3, <1>4 DEF ReadyAt, TasksInv, TaskOk
<1>15. i \in Mutations => sent[a][i] = 0
  BY <1>2, <1>3, <1>4 DEF SentInv, SentOk, Typed
<1>16. \A b \in Approvals, j \in Mutations, v \in Senders :
         ReadyAt(v, b, j)' => ReadyAt(v, b, j) \/ (v = w /\ b = a /\ j = i)
  BY <1>3, <1>10, <1>11 DEF ReadyAt, Busy, Typed
<1>17. SentInv'
  BY <1>2, <1>3, <1>7, <1>14, <1>15, <1>16, SentKept
<1>18. WireInv' /\ HeldInv' /\ wire' \subseteq Message
  BY <1>2, <1>3, <1>7, WireKept, HeldKept DEF Typed
<1>19. QED
  BY <1>2, <1>3, <1>7, <1>8, <1>13, <1>17, <1>18, Parts DEF Typed

\* The latest row of an operation decides.
LEMMA PrepareAgainKeeps ==
  ASSUME JournalInv, NEW w \in Senders, Prepare(w), Rows(w) # <<>>
  PROVE  JournalInv'
<1>1. PICK t, a, i, last, op :
        /\ t = tasks[w] /\ a = t.approval /\ i = t.step
        /\ last = journal[a][i][Len(journal[a][i])]
        /\ op = Prepared(journal[a][i], i \in Mutations)
  OBVIOUS
<1>2. /\ Busy(w) /\ t \in Task /\ t.pc = "prepare" /\ TaskOk(t) /\ a \in Approvals /\ i \in Steps
      /\ UNCHANGED <<wire, held, sent>>
  BY <1>1, PreparedTask
<1>3. Typed /\ JournalTyped /\ RowsInv /\ TasksInv /\ WireInv /\ HeldInv /\ SentInv
  BY DEF JournalInv, Typed
<1>4. journal[a][i] # <<>> /\ journal[a][i] \in Seq(Event) /\ Begun(a, i)
  BY <1>1, <1>2, <1>3, Lengths DEF Rows
<1>5. /\ last \in Event /\ Len(journal[a][i]) \in 1 .. Len(journal[a][i])
      /\ op \in Event /\ op = Resumed(last, i \in Mutations)
  BY <1>1, <1>4, PreparedRow
<1>6. RowOk(a, i, last)
  BY <1>1, <1>2, <1>3, <1>5 DEF RowsInv
<1>7. /\ op.key = First(a, i).key
      /\ op.state = "succeeded" => Held(a, i)
      /\ i \in Mutations /\ op.state # "succeeded" /\ ~Stopped(op) => Retryable(a, i)
  <2>1. op.key = last.key /\ (op.state = "succeeded" <=> last.state = "succeeded")
    BY <1>5, ResumedRow
  <2>2. ASSUME i \in Mutations, op.state # "succeeded", ~Stopped(op) PROVE Retryable(a, i)
    <3>1. op.state # "unknown" /\ ~(op.state = "failed" /\ op.class = "blocked")
      BY <2>2 DEF Stopped
    <3>2. last.class = "retryable"
      BY <1>5, <1>6, <2>2, <3>1 DEF Resumed, RowOk, Event
    <3>3. QED
      BY <1>1, <1>5, <3>2 DEF Retryable
  <2>3. QED
    BY <1>6, <2>1, <2>2 DEF RowOk
<1>8. UNCHANGED <<journal, held, sent>> /\ wire' \subseteq wire
  BY <1>2 DEF Prepare
<1>9. CASE op.state = "succeeded"
  <2>1. Advance(w)
    BY <1>1, <1>9 DEF Prepare, Rows
  <2>2. PICK n \in Task \cup {Idle} : /\ tasks' = [tasks EXCEPT ![w] = n]
                                      /\ n # Idle => TaskOk(n) /\ n.pc # "ready"
    BY <1>1, <1>2, <1>7, <1>9, <2>1, Advances
  <2>3. QED
    BY <1>8, <2>2, QuietStep
<1>10. CASE op.state # "succeeded" /\ i \in Mutations /\ Stopped(op)
  <2>1. tasks' = [tasks EXCEPT ![w] = Idle]
    BY <1>1, <1>10 DEF Prepare, Rows
  <2>2. QED
    BY <1>8, <2>1, QuietStep
<1>11. CASE op.state # "succeeded" /\ ~(i \in Mutations /\ Stopped(op))
  <2>1. PICK n : n = [t EXCEPT !.pc = "ready", !.op = op]
    OBVIOUS
  <2>2. tasks' = [tasks EXCEPT ![w] = n]
    BY <1>1, <1>11, <2>1 DEF Prepare, Rows, JournalInv, Typed
  <2>3. n \in Task /\ n.pc = "ready" /\ n.op = op /\ n.approval = a /\ n.step = i
    BY <1>1, <1>2, <1>5, <2>1 DEF Task
  <2>4. TaskOk(n)
    BY <1>1, <1>2, <1>4, <1>7, <2>3 DEF TaskOk
  <2>5. JournalTyped' /\ Kept /\ Onward /\ RowsInv'
    BY <1>3, <1>8, Unwritten, StillOnward, RowsUnwritten
  <2>6. TaskOk(n)'
    BY <1>3, <2>3, <2>4, <2>5, TaskStays
  <2>7. TasksInv' /\ tasks' \in [Senders -> Task \cup {Idle}]
    BY <1>3, <2>2, <2>3, <2>5, <2>6, TasksKept
  <2>8. \A b \in Approvals, j \in Mutations, v \in Senders :
          ReadyAt(v, b, j)' => ReadyAt(v, b, j) \/ (v = w /\ b = a /\ j = i)
    BY <1>3, <2>2, <2>3 DEF ReadyAt, Busy, Typed
  <2>9. SentInv'
    BY <1>3, <1>7, <1>8, <1>11, <2>5, <2>8, SentKept
  <2>10. WireInv' /\ HeldInv' /\ wire' \subseteq Message
    BY <1>2, <1>3, <2>5, WireKept, HeldKept DEF Typed
  <2>11. QED
    BY <1>2, <1>3, <2>5, <2>7, <2>9, <2>10, Parts DEF Typed
<1>12. QED
  BY <1>9, <1>10, <1>11

LEMMA SendKeeps ==
  ASSUME JournalInv, NEW w \in Senders, Send(w)
  PROVE  JournalInv'
<1>1. PICK t, a, i, n : /\ t = tasks[w] /\ a = t.approval /\ i = t.step
                        /\ n = [t EXCEPT !.pc = "sent"]
  OBVIOUS
<1>2. t \in Task /\ TaskOk(t) /\ t.pc = "ready" /\ a \in Approvals /\ i \in Steps /\ ReadyAt(w, a, i)
  BY <1>1, Working DEF Send, Busy, ReadyAt, JournalInv, TasksInv, Task
<1>3. Typed /\ JournalTyped /\ RowsInv /\ TasksInv /\ WireInv /\ HeldInv /\ SentInv
  BY DEF JournalInv, Typed
<1>4. JournalTyped' /\ Kept /\ Onward /\ RowsInv' /\ UNCHANGED <<journal, held>>
  BY <1>3, Unwritten, StillOnward, RowsUnwritten DEF Send
<1>5. n \in Task /\ n.pc = "sent" /\ TaskOk(n)
  BY <1>1, <1>2 DEF Task, TaskOk
<1>6. tasks' = [tasks EXCEPT ![w] = n]
  BY <1>1 DEF Send, JournalInv, Typed
<1>7. TasksInv' /\ tasks' \in [Senders -> Task \cup {Idle}]
  BY <1>3, <1>4, <1>5, <1>6, TaskStays, TasksKept
<1>8. \A m \in Outstanding(w) : m \in Message /\ MessageOk(m)
  BY <1>1, <1>2 DEF Outstanding, Message, MessageOk, TaskOk, Task, Event
<1>9. WireInv' /\ wire' \subseteq Message
  <2>1. wire' = wire \cup Outstanding(w) /\ wire' \subseteq Message
    BY <1>3, <1>8 DEF Send, Typed
  <2>2. QED
    BY <1>3, <1>4, <1>8, <2>1, WireKept
<1>10. HeldInv'
  BY <1>3, <1>4, HeldKept
<1>11. \A b \in Approvals, j \in Mutations, v \in Senders :
         ReadyAt(v, b, j)' => ReadyAt(v, b, j) /\ v # w
  BY <1>3, <1>5, <1>6 DEF ReadyAt, Busy, Typed
<1>12. /\ sent' \in [Approvals -> [Mutations -> 0 .. 2]]
       /\ \A b \in Approvals, j \in Mutations :
            sent'[b][j] = sent[b][j] \/ (b = a /\ j = i /\ sent'[b][j] <= sent[b][j] + 1)
  <2>1. CASE i \in Mutations
    <3>1. sent' = [sent EXCEPT ![a][i] = IF sent[a][i] = 2 THEN 2 ELSE sent[a][i] + 1]
      BY <1>1, <2>1 DEF Send
    <3>2. QED
      BY <1>2, <1>3, <2>1, <3>1 DEF Typed
  <2>2. CASE i \notin Mutations
    BY <1>1, <1>3, <2>2 DEF Send, Typed
  <2>3. QED
    BY <2>1, <2>2
<1>13. ASSUME NEW b \in Approvals, NEW j \in Mutations PROVE SentOk(b, j)'
  <2>1. SentOk(b, j) /\ sent[b][j] \in 0 .. 2 /\ sent'[b][j] \in 0 .. 2
    BY <1>3, <1>12 DEF SentInv, Typed
  <2>2. (Begun(b, j)' <=> Begun(b, j)) /\ (Retryable(b, j)' <=> Retryable(b, j))
    BY <1>4 DEF Begun, Retryable
  <2>3. CASE b = a /\ j = i
    <3>1. Begun(b, j)
      BY <1>1, <1>2, <2>3 DEF TaskOk
    <3>2. Retryable(b, j) \/ (sent[b][j] = 0 /\ \A v \in Senders : ReadyAt(v, b, j) => v = w)
      BY <1>2, <2>1, <2>3 DEF SentOk
    <3>3. QED
      BY <1>11, <1>12, <2>1, <2>2, <3>1, <3>2 DEF SentOk
  <2>4. CASE ~(b = a /\ j = i)
    BY <1>11, <1>12, <2>1, <2>2, <2>4 DEF SentOk
  <2>5. QED
    BY <2>3, <2>4
<1>14. QED
  BY <1>3, <1>4, <1>7, <1>9, <1>10, <1>12, <1>13, Parts DEF SentInv, Typed

LEMMA ProcessKeeps ==
  ASSUME JournalInv, NEW m \in wire, AuthorityProcess(m)
  PROVE  JournalInv'
<1>1. PICK a, i, k : a = m.approval /\ i = m.step /\ k = m.key
  OBVIOUS
<1>2. Typed /\ JournalTyped /\ RowsInv /\ TasksInv /\ WireInv /\ HeldInv /\ SentInv
  BY DEF JournalInv, Typed
<1>3. m \in Message /\ MessageOk(m) /\ a \in Approvals /\ i \in Mutations /\ k \in Key
  BY <1>1, <1>2 DEF WireInv, Typed, Message
<1>4. held' = [held EXCEPT ![a][i] = held[a][i] \cup {k}]
      /\ UNCHANGED <<journal, tasks, sent>> /\ wire' \subseteq wire
  BY <1>1 DEF AuthorityProcess
<1>5. /\ held' \in [Approvals -> [Mutations -> SUBSET Key]]
      /\ \A b \in Approvals, j \in Mutations :
           held'[b][j] = IF b = a /\ j = i THEN held[a][i] \cup {k} ELSE held[b][j]
  BY <1>2, <1>3, <1>4 DEF Typed
<1>6. JournalTyped' /\ Kept /\ Onward
  BY <1>2, <1>4, <1>5, Unwritten DEF Onward
<1>7. RowsInv'
  BY <1>2, <1>4, <1>6, RowsUnwritten
<1>8. TasksInv'
  <2>1. ASSUME NEW w \in Senders, Busy(w)' PROVE TaskOk(tasks[w])'
    <3>1. PICK t : t = tasks[w]
      OBVIOUS
    <3>2. t = tasks'[w] /\ t \in Task /\ TaskOk(t)
      BY <1>2, <1>4, <2>1, <3>1, Working DEF Busy, TasksInv
    <3>3. TaskOk(t)'
      BY <1>2, <1>6, <3>2, TaskStays
    <3>4. QED
      BY <3>2, <3>3
  <2>2. QED
    BY <2>1 DEF TasksInv
<1>9. WireInv' /\ wire' \subseteq Message
  <2>1. wire' \subseteq Message
    BY <1>2, <1>4 DEF Typed
  <2>2. QED
    BY <1>2, <1>4, <1>6, <2>1, WireKept
<1>10. ASSUME NEW b \in Approvals, NEW j \in Mutations PROVE HeldOk(b, j)'
  <2>1. j \in Steps
    BY Numbers
  <2>2. Begun(b, j) => Begun(b, j)' /\ First(b, j)' = First(b, j)
    BY <1>2, <1>6, <2>1, FirstStays
  <2>3. HeldBefore(b, j) => HeldBefore(b, j)'
    BY <1>6, <2>1, HeldStays
  <2>4. HeldOk(b, j)
    BY <1>2 DEF HeldInv
  <2>5. CASE b = a /\ j = i
    <3>1. Begun(b, j) /\ k = First(b, j).key /\ HeldBefore(b, j)
      BY <1>1, <1>3, <2>5 DEF MessageOk
    <3>2. QED
      BY <1>5, <2>2, <2>3, <2>4, <2>5, <3>1 DEF HeldOk
  <2>6. CASE ~(b = a /\ j = i)
    BY <1>5, <2>2, <2>3, <2>4, <2>6 DEF HeldOk
  <2>7. QED
    BY <2>5, <2>6
<1>11. SentInv'
  <2>1. \A b \in Approvals, j \in Mutations, v \in Senders :
          ReadyAt(v, b, j)' => ReadyAt(v, b, j)
    BY <1>4 DEF ReadyAt, Busy
  <2>2. QED
    BY <1>2, <1>4, <1>6, <2>1, SentKept
<1>12. QED
  BY <1>2, <1>4, <1>5, <1>6, <1>7, <1>8, <1>9, <1>10, <1>11, Parts DEF HeldInv, Typed

\* A step that leaves all of this alone.
LEMMA StutterKeeps ==
  ASSUME JournalInv, UNCHANGED <<journal, tasks, wire, held, sent>>
  PROVE  JournalInv'
BY DEF JournalInv, Typed, JournalTyped, RowsInv, RowOk, Held, First, TasksInv, Busy, TaskOk, Begun,
       HeldBefore, WireInv, MessageOk, HeldInv, HeldOk, SentInv, SentOk, ReadyAt, Retryable

LEMMA JournalStarts == JournalInit => JournalInv
<1> SUFFICES ASSUME JournalInit PROVE JournalInv
  OBVIOUS
<1>1. \A a \in Approvals, i \in Steps : journal[a][i] = <<>> /\ Len(journal[a][i]) = 0
  BY DEF JournalInit
<1>2. \A w \in Senders : ~Busy(w)
  BY DEF JournalInit, Busy
<1>3. \A a \in Approvals, i \in Mutations : held[a][i] = {} /\ sent[a][i] = 0
  BY DEF JournalInit
<1>4. Typed
  BY DEF JournalInit, Typed, JournalTyped
<1>5. RowsInv
  BY <1>1 DEF RowsInv
<1>6. TasksInv /\ WireInv
  BY <1>2 DEF TasksInv, WireInv, JournalInit
<1>7. HeldInv /\ SentInv
  BY <1>2, <1>3 DEF HeldInv, HeldOk, SentInv, SentOk, ReadyAt
<1>8. QED
  BY <1>4, <1>5, <1>6, <1>7 DEF JournalInv

LEMMA JournalStep == JournalInv /\ [JournalNext]_journalVars => JournalInv'
<1> SUFFICES ASSUME JournalInv, [JournalNext]_journalVars PROVE JournalInv'
  OBVIOUS
<1>1. ASSUME NEW a \in Approvals, Approve(a) PROVE JournalInv'
  BY <1>1, StutterKeeps DEF Approve
<1>2. ASSUME NEW w \in Senders, SenderStep(w) PROVE JournalInv'
  <2>1. ASSUME NEW a \in Approvals, Begin(w, a) PROVE JournalInv'
    BY <2>1, BeginKeeps
  <2>2. CASE Prepare(w)
    BY <2>2, PrepareFirstKeeps, PrepareAgainKeeps
  <2>3. CASE Send(w)
    BY <2>3, SendKeeps
  <2>4. CASE AnswerOk(w) \/ AnswerLost(w) \/ AnswerRefused(w)
    BY <2>4, AnswerKeeps
  <2>5. CASE RecordSuccess(w) \/ LoseSuccess(w) \/ RecordFailure(w) \/ Die(w)
    BY <2>5, RecordKeeps
  <2>6. QED
    BY <1>2, <2>1, <2>2, <2>3, <2>4, <2>5 DEF SenderStep
<1>3. ASSUME NEW m \in wire, AuthorityProcess(m) PROVE JournalInv'
  BY <1>3, ProcessKeeps
<1>4. CASE UNCHANGED journalVars
  BY <1>4, StutterKeeps DEF journalVars
<1>5. QED
  BY <1>1, <1>2, <1>3, <1>4 DEF JournalNext

LEMMA JournalInductive == JournalSpec => []JournalInv
BY JournalStarts, JournalStep, PTL DEF JournalSpec

-----------------------------------------------------------------------------
(* The results. *)

\* For every number of requests, forms and attempts: the authority is never sent,
\* and never holds, one operation of a submission under two idempotency keys.  The
\* key of every row, of every prepared request and of every message is the key of
\* the operation's first row, which no later write changes.
THEOREM JournalHeldUnderOneKey == JournalSpec => []HeldUnderOneKey
<1>1. JournalInv => HeldUnderOneKey
  <2> SUFFICES ASSUME JournalInv, NEW a \in Approvals, NEW i \in Mutations
               PROVE  Cardinality(held[a][i] \cup
                        {m.key : m \in {n \in wire : n.approval = a /\ n.step = i}}) <= 1
    BY DEF HeldUnderOneKey
  <2> DEFINE keys == held[a][i] \cup {m.key : m \in {n \in wire : n.approval = a /\ n.step = i}}
  <2>1. keys \subseteq {First(a, i).key}
    BY DEF JournalInv, HeldInv, HeldOk, WireInv, MessageOk
  <2>2. IsFiniteSet({First(a, i).key}) /\ Cardinality({First(a, i).key}) = 1
    BY FS_Singleton
  <2>3. Cardinality(keys) <= 1
    BY <2>1, <2>2, FS_Subset
  <2>4. QED
    BY <2>3
<1>2. QED
  BY <1>1, JournalInductive, PTL

\* A confirmation that has left was preceded by every form at the authority: a
\* request goes on to the next operation only from a success it was answered with
\* or found in the journal, and every journaled success is held.
THEOREM JournalConfirmedComplete == JournalSpec => []ConfirmedComplete
<1>1. JournalInv => ConfirmedComplete
  <2> SUFFICES ASSUME JournalInv, NEW a \in Approvals,
                      held[a][Confirm] # {} \/ (\E m \in wire : m.approval = a /\ m.step = Confirm),
                      NEW i \in Main .. Confirm - 1
               PROVE  held[a][i] # {}
    BY DEF ConfirmedComplete
  <2>1. HeldBefore(a, Confirm)
    <3>1. CASE held[a][Confirm] # {}
      BY <3>1, Numbers DEF JournalInv, HeldInv, HeldOk
    <3>2. CASE \E m \in wire : m.approval = a /\ m.step = Confirm
      BY <3>2 DEF JournalInv, WireInv, MessageOk
    <3>3. QED
      BY <3>1, <3>2
  <2>2. i \in Mutations /\ i < Confirm
    BY SubsAssumption DEF Main, Confirm, Mutations
  <2>3. QED
    BY <2>1, <2>2 DEF HeldBefore
<1>2. QED
  BY <1>1, JournalInductive, PTL

\* However many requests resume a submission after lost answers and crashes, a
\* mutation leaves twice only after a retryable failure of it was journaled: until
\* then the one request that wrote its first row is the only one that may send it.
THEOREM JournalResentOnlyAfterRetryable == JournalSpec => []ResentOnlyAfterRetryable
<1>1. JournalInv => ResentOnlyAfterRetryable
  BY DEF JournalInv, SentInv, SentOk, Retryable, ResentOnlyAfterRetryable
<1>2. QED
  BY <1>1, JournalInductive, PTL

-----------------------------------------------------------------------------
(* Reading the feedback.  Types. *)

\* Every document is classified, and every read concludes something.
LEMMA ClassificationType ==
    /\ \A d : Classification(d) \in Verdict
    /\ \A classes \in SUBSET Verdict : Concluded(classes) \in Open \cup Verdict
<1>1. \A d : Classification(d) \in Verdict
  BY DEF Classification, Verdict
<1>2. ASSUME NEW classes \in SUBSET Verdict
      PROVE  Concluded(classes) \in Open \cup Verdict
  <2>1. classes = {"accepted"} => (CHOOSE c \in classes : TRUE) = "accepted"
    OBVIOUS
  <2>2. classes = {"rejected"} => (CHOOSE c \in classes : TRUE) = "rejected"
    OBVIOUS
  <2>3. CASE classes \in {{"accepted"}, {"rejected"}}
    <3>1. Concluded(classes) = CHOOSE c \in classes : TRUE
      BY <2>3 DEF Concluded
    <3>2. QED
      BY <2>1, <2>2, <2>3, <3>1 DEF Verdict
  <2>4. CASE classes \notin {{"accepted"}, {"rejected"}}
    BY <2>4 DEF Concluded, Open, Verdict
  <2>5. QED
    BY <2>3, <2>4
<1>3. QED
  BY <1>1, <1>2

\* The document a reader holds when it holds none.
LEMMA AnyDocumentType == AnyDocument \in Documents
BY DocumentsAssumption DEF AnyDocument

\* The readers, on their own.
ReadersTyped == readers \in [Reconcilers -> Reader \cup {Gone}]

\* A step that gives one reconciler a reader, or takes it away, keeps them typed.
LEMMA ReaderUpdate ==
    ASSUME ReadersTyped, NEW r \in Reconcilers, NEW t \in Reader \cup {Gone},
           readers' = [readers EXCEPT ![r] = t]
    PROVE  /\ ReadersTyped'
           /\ readers'[r] = t
           /\ \A q \in Reconcilers : q # r => readers'[q] = readers[q]
BY DEF ReadersTyped

\* A reader that is somewhere is one.
LEMMA ReaderAt ==
    ASSUME ReadersTyped, NEW r \in Reconcilers, readers[r].pc # "idle"
    PROVE  readers[r] \in Reader
BY DEF ReadersTyped, Gone

\* A concluded read: nothing is left to take, and the reader reads again or appends.
LEMMA ConcludedReader ==
    ASSUME ReadersTyped, NEW r \in Reconcilers, readers[r] \in Reader,
           NEW outcome \in Open \cup Verdict, NEW why \in Code, Conclude(r, outcome, why)
    PROVE  /\ ReadersTyped'
           /\ readers'[r] \in Reader
           /\ readers'[r].pc \in {"reading", "append"}
           /\ readers'[r].todo = {}
           /\ \A q \in Reconcilers : q # r => readers'[q] = readers[q]
<1> DEFINE again == outcome = "processing" /\ readers[r].reads > 1
           t == [readers[r] EXCEPT
                    !.pc = IF again THEN "reading" ELSE "append",
                    !.reads = IF again THEN @ - 1 ELSE 1,
                    !.todo = {}, !.classes = {}, !.document = AnyDocument,
                    !.outcome = outcome, !.code = why]
<1>1. readers' = [readers EXCEPT ![r] = t]
  BY DEF Conclude, ReadersTyped
<1>2. (IF again THEN readers[r].reads - 1 ELSE 1) \in 1 .. MaxReads
  BY ReadsAssumption DEF Reader
<1>3. t \in Reader /\ t.pc \in {"reading", "append"} /\ t.todo = {}
  BY <1>2, AnyDocumentType DEF Reader
<1> HIDE DEF t
<1>4. QED
  BY <1>1, <1>3, ReaderUpdate

-----------------------------------------------------------------------------
(* The inductive invariant.  The properties of Rf1086Feedback speak of rows, files   *)
(* and verdicts; what makes them inductive is what the readers hold in between.       *)

\* A row whose insert its own reader could not decide belongs to a reader that is
\* about to look for it, and no other row does.
OwnRows ==
    \A d \in Documents : rows[d] \in Reconcilers =>
        readers[rows[d]].pc = "recheck" /\ readers[rows[d]].document = d

\* What a reader has still to take, and what it is storing, is in the archive, and
\* it stores none of the forms.
ReaderOk(reader) ==
    /\ reader.pc # "idle" => reader.todo \subseteq archive
    /\ reader.pc \in {"insert", "recheck"} => reader.document \in archive \ Submitted

\* Every recorded document is one the authority filed.
FromArchive ==
    /\ Recorded \subseteq archive \ Submitted
    /\ \A r \in Reconcilers : ReaderOk(readers[r])

Inv1086 ==
    FeedbackTypeOK /\ OwnRows /\ FromArchive /\ EvidenceKept /\ VerdictIsTheirs

\* A step of a reader whose insert is decided, and that touches neither rows nor
\* verdict, need only account for what the reader holds after it.
LEMMA ReaderAlone ==
    ASSUME Inv1086, NEW r \in Reconcilers, readers[r].pc # "recheck",
           ReadersTyped', ReaderOk(readers[r])',
           \A q \in Reconcilers : q # r => readers'[q] = readers[q],
           UNCHANGED <<state, code, rows, lost, archive>>,
           lease' \in Reconcilers \cup {Nobody, Abandoned}, fresh' \in BOOLEAN
    PROVE  Inv1086'
<1>1. FeedbackTypeOK'
  BY DEF Inv1086, FeedbackTypeOK, ReadersTyped
<1>2. OwnRows'
  BY DEF Inv1086, OwnRows
<1>3. FromArchive'
  <2>1. Recorded' = Recorded
    BY DEF Recorded
  <2>2. QED
    BY <2>1 DEF Inv1086, FromArchive, ReaderOk
<1>4. EvidenceKept' /\ VerdictIsTheirs'
  BY DEF Inv1086, EvidenceKept, VerdictIsTheirs
<1>5. QED
  BY <1>1, <1>2, <1>3, <1>4 DEF Inv1086

\* A step of a reader that settles its rows and is not looking for one any more.
LEMMA ReaderSettles ==
    ASSUME Inv1086, NEW r \in Reconcilers, Settle1086(r),
           ReadersTyped', ReaderOk(readers[r])',
           \A q \in Reconcilers : q # r => readers'[q] = readers[q],
           UNCHANGED <<state, code, lost, archive>>,
           lease' \in Reconcilers \cup {Nobody, Abandoned}, fresh' \in BOOLEAN
    PROVE  Inv1086'
<1>1. rows \in [Documents -> Reconcilers \cup {Nobody, Settled}]
  BY DEF Inv1086, FeedbackTypeOK
<1>2. \A d \in Documents :
          /\ rows[d] = r => rows'[d] = Settled
          /\ rows[d] # r => rows'[d] = rows[d]
  BY DEF Settle1086
<1>3. rows' \in [Documents -> Reconcilers \cup {Nobody, Settled}]
  BY <1>1 DEF Settle1086
<1>4. FeedbackTypeOK'
  BY <1>3 DEF Inv1086, FeedbackTypeOK, ReadersTyped
<1>5. OwnRows'
  BY <1>1, <1>2, NamesAssumption DEF Inv1086, OwnRows
<1>6. FromArchive'
  <2>1. Recorded' = Recorded
    BY <1>2, NamesAssumption DEF Recorded
  <2>2. QED
    BY <2>1 DEF Inv1086, FromArchive, ReaderOk
<1>7. EvidenceKept' /\ VerdictIsTheirs'
  BY DEF Inv1086, EvidenceKept, VerdictIsTheirs
<1>8. QED
  BY <1>4, <1>5, <1>6, <1>7 DEF Inv1086

\* A read that concludes, with or without settling the reader's rows.
LEMMA ConclusionAlone ==
    ASSUME Inv1086, NEW r \in Reconcilers, readers[r] \in Reader,
           NEW outcome \in Open \cup Verdict, NEW why \in Code, Conclude(r, outcome, why),
           \/ readers[r].pc # "recheck" /\ UNCHANGED rows
           \/ Settle1086(r),
           UNCHANGED <<state, code, lease, fresh, lost, archive>>
    PROVE  Inv1086'
<1>1. ReadersTyped
  BY DEF Inv1086, FeedbackTypeOK, ReadersTyped
<1>2. /\ ReadersTyped'
      /\ readers'[r].pc \in {"reading", "append"} /\ readers'[r].todo = {}
      /\ \A q \in Reconcilers : q # r => readers'[q] = readers[q]
  BY <1>1, ConcludedReader
<1>3. ReaderOk(readers[r])'
  BY <1>2 DEF ReaderOk
<1>4. lease' \in Reconcilers \cup {Nobody, Abandoned} /\ fresh' \in BOOLEAN
  BY DEF Inv1086, FeedbackTypeOK
<1>5. QED
  BY <1>2, <1>3, <1>4, ReaderAlone, ReaderSettles

\* Reading the archive: claims, snapshots, lists, takes and fails.
LEMMA ReadingKeeps ==
    ASSUME Inv1086, NEW r \in Reconcilers,
           \/ Claim(r) \/ ReadSnapshot(r) \/ ListArchive(r) \/ ReadFails(r) \/ ReadEnds(r)
           \/ StoreFails(r) \/ \E d \in Documents : TakeDocument(r, d)
    PROVE  Inv1086'
<1> USE DEF FeedbackTypeOK
<1>1. /\ ReadersTyped
      /\ lease \in Reconcilers \cup {Nobody, Abandoned} /\ fresh \in BOOLEAN
      /\ archive \subseteq Documents /\ ReaderOk(readers[r])
  BY DEF Inv1086, ReadersTyped, FromArchive
<1>2. ASSUME NEW t \in Reader, readers' = [readers EXCEPT ![r] = t],
             readers[r].pc # "recheck", ReaderOk(t),
             UNCHANGED <<state, code, lease, fresh, rows, lost, archive>>
      PROVE  Inv1086'
  <2>1. /\ ReadersTyped' /\ readers'[r] = t
        /\ \A q \in Reconcilers : q # r => readers'[q] = readers[q]
    BY <1>1, <1>2, ReaderUpdate
  <2>2. ReaderOk(readers[r])'
    BY <1>2, <2>1 DEF ReaderOk
  <2>3. QED
    BY <1>1, <1>2, <2>1, <2>2, ReaderAlone
<1>3. CASE Claim(r)
  <2>1. PICK n \in {1, MaxReads} : readers' = [readers EXCEPT ![r] =
            [pc |-> "claimed", reads |-> n, todo |-> {}, classes |-> {}, hashes |-> {},
             document |-> AnyDocument, outcome |-> "processing", code |-> "none"]]
    BY <1>3 DEF Claim
  <2> DEFINE t == [pc |-> "claimed", reads |-> n, todo |-> {}, classes |-> {}, hashes |-> {},
                   document |-> AnyDocument, outcome |-> "processing", code |-> "none"]
  <2>2. n \in 1 .. MaxReads
    BY ReadsAssumption
  <2>3. t \in Reader
    BY <2>2, AnyDocumentType DEF Reader, Open, Code
  <2>4. /\ ReadersTyped' /\ readers'[r] = t
        /\ \A q \in Reconcilers : q # r => readers'[q] = readers[q]
    BY <1>1, <2>1, <2>3, ReaderUpdate
  <2>5. ReaderOk(readers[r])'
    BY <2>4 DEF ReaderOk
  <2>6. readers[r].pc # "recheck"
    BY <1>3 DEF Claim, Gone
  <2>7. QED
    BY <1>3, <2>4, <2>5, <2>6, ReaderAlone DEF Claim
<1>4. CASE ReadSnapshot(r)
  <2> DEFINE t == [readers[r] EXCEPT !.pc = "reading", !.hashes = Recorded]
  <2>1. readers[r] \in Reader
    BY <1>1, <1>4, ReaderAt DEF ReadSnapshot
  <2>2. t \in Reader /\ ReaderOk(t)
    BY <1>1, <1>4, <2>1 DEF ReadSnapshot, Reader, ReaderOk, Recorded
  <2>3. readers' = [readers EXCEPT ![r] = t]
    BY <1>1, <1>4 DEF ReadSnapshot, ReadersTyped
  <2>4. QED
    BY <1>2, <1>4, <2>2, <2>3 DEF ReadSnapshot
<1>5. CASE ListArchive(r)
  <2> DEFINE t == [readers[r] EXCEPT !.pc = "artifacts", !.todo = archive, !.classes = {}]
  <2>1. readers[r] \in Reader
    BY <1>1, <1>5, ReaderAt DEF ListArchive
  <2>2. t \in Reader /\ ReaderOk(t)
    BY <1>1, <2>1 DEF Reader, ReaderOk
  <2>3. readers' = [readers EXCEPT ![r] = t]
    BY <1>1, <1>5 DEF ListArchive, ReadersTyped
  <2>4. QED
    BY <1>2, <1>5, <2>2, <2>3 DEF ListArchive
<1>6. CASE ReadFails(r)
  <2>1. readers[r] \in Reader /\ readers[r].pc # "recheck"
    BY <1>1, <1>6, ReaderAt DEF ReadFails
  <2>2. PICK outcome \in {"processing", "unknown", "action_required"},
             why \in {"none", "read_failed", "shape"} : Conclude(r, outcome, why)
    BY <1>6 DEF ReadFails
  <2>3. outcome \in Open \cup Verdict /\ why \in Code
    BY DEF Open, Verdict, Code
  <2>4. QED
    BY <1>6, <2>1, <2>2, <2>3, ConclusionAlone DEF ReadFails
<1>7. CASE ReadEnds(r)
  <2> DEFINE why == IF readers[r].classes = {} THEN "none" ELSE "feedback"
  <2>1. readers[r] \in Reader /\ readers[r].pc # "recheck"
    BY <1>1, <1>7, ReaderAt DEF ReadEnds
  <2>2. Concluded(readers[r].classes) \in Open \cup Verdict
    BY <2>1, ClassificationType DEF Reader
  <2>3. why \in Code /\ Conclude(r, Concluded(readers[r].classes), why)
    BY <1>7 DEF ReadEnds, Code
  <2>4. QED
    BY <1>7, <2>1, <2>2, <2>3, ConclusionAlone DEF ReadEnds
<1>8. CASE StoreFails(r)
  <2>1. readers[r] \in Reader /\ readers[r].pc # "recheck"
    BY <1>1, <1>8, ReaderAt DEF StoreFails
  <2>2. PICK outcome \in {"unknown", "action_required"},
             why \in {"persist_retry", "persist_failed"} : Conclude(r, outcome, why)
    BY <1>8 DEF StoreFails
  <2>3. outcome \in Open \cup Verdict /\ why \in Code
    BY DEF Open, Verdict, Code
  <2>4. QED
    BY <1>8, <2>1, <2>2, <2>3, ConclusionAlone DEF StoreFails
<1>9. ASSUME NEW d \in Documents, TakeDocument(r, d)
      PROVE  Inv1086'
  <2> DEFINE x == readers[r]
  <2>1. x \in Reader /\ x.pc = "artifacts" /\ d \in x.todo /\ x.todo \subseteq archive
    BY <1>1, <1>9, ReaderAt DEF TakeDocument, ReaderOk
  <2>2. Classification(d) \in Verdict
    BY ClassificationType
  <2>3. \E t \in Reader : readers' = [readers EXCEPT ![r] = t] /\ ReaderOk(t)
    <3>1. CASE d \in Submitted /\ readers' = [readers EXCEPT ![r].todo = @ \ {d}]
      <4> DEFINE t == [x EXCEPT !.todo = @ \ {d}]
      <4>1. t \in Reader /\ ReaderOk(t)
        BY <2>1 DEF Reader, ReaderOk
      <4>2. readers' = [readers EXCEPT ![r] = t]
        BY <1>1, <3>1 DEF ReadersTyped
      <4>3. QED BY <4>1, <4>2
    <3>2. CASE readers' = [readers EXCEPT ![r].todo = @ \ {d},
                                          ![r].classes = @ \cup {Classification(d)},
                                          ![r].hashes = @ \cup {d}]
      <4> DEFINE t == [x EXCEPT !.todo = @ \ {d}, !.classes = @ \cup {Classification(d)},
                                !.hashes = @ \cup {d}]
      <4>1. t \in Reader /\ ReaderOk(t)
        BY <2>1, <2>2 DEF Reader, ReaderOk
      <4>2. readers' = [readers EXCEPT ![r] = t]
        BY <1>1, <3>2 DEF ReadersTyped
      <4>3. QED BY <4>1, <4>2
    <3>3. CASE /\ d \notin Submitted
               /\ readers' = [readers EXCEPT ![r].pc = "insert", ![r].document = d,
                                             ![r].todo = @ \ {d},
                                             ![r].classes = @ \cup {Classification(d)}]
      <4> DEFINE t == [x EXCEPT !.pc = "insert", !.document = d, !.todo = @ \ {d},
                                !.classes = @ \cup {Classification(d)}]
      <4>1. t \in Reader /\ ReaderOk(t)
        BY <2>1, <2>2, <3>3 DEF Reader, ReaderOk
      <4>2. readers' = [readers EXCEPT ![r] = t]
        BY <1>1, <3>3 DEF ReadersTyped
      <4>3. QED BY <4>1, <4>2
    <3>4. QED
      BY <1>9, <3>1, <3>2, <3>3 DEF TakeDocument
  <2>4. QED
    BY <1>2, <1>9, <2>1, <2>3 DEF TakeDocument
<1>10. QED
  BY <1>3, <1>4, <1>5, <1>6, <1>7, <1>8, <1>9

\* The reader that goes on with the document it holds counted.
LEMMA KeptReader ==
    ASSUME Inv1086, NEW r \in Reconcilers, readers[r].pc \in {"insert", "recheck"}, Keep(r)
    PROVE  /\ ReadersTyped' /\ readers'[r].pc = "artifacts"
           /\ readers'[r].todo \subseteq archive
           /\ \A q \in Reconcilers : q # r => readers'[q] = readers[q]
<1> DEFINE x == readers[r]
           t == [x EXCEPT !.pc = "artifacts", !.document = AnyDocument,
                          !.hashes = @ \cup {x.document}]
<1>1. ReadersTyped /\ ReaderOk(x)
  BY DEF Inv1086, FeedbackTypeOK, ReadersTyped, FromArchive
<1>2. x \in Reader
  BY <1>1, ReaderAt
<1>3. t \in Reader /\ t.pc = "artifacts" /\ t.todo \subseteq archive
  BY <1>1, <1>2, AnyDocumentType DEF Reader, ReaderOk
<1>4. readers' = [readers EXCEPT ![r] = t]
  BY <1>1 DEF Keep, ReadersTyped
<1> HIDE DEF t
<1>5. QED
  BY <1>1, <1>3, <1>4, ReaderUpdate

\* Storing a document: its row is written, or an ambiguous insert is looked up and,
\* when the row is not there, its file removed.
LEMMA StoringKeeps ==
    ASSUME Inv1086, NEW r \in Reconcilers,
           InsertRow(r) \/ InsertFails(r) \/ Recheck(r) \/ Rollback(r)
    PROVE  Inv1086'
<1> DEFINE x == readers[r]
<1>1. /\ ReadersTyped /\ ReaderOk(x)
      /\ rows \in [Documents -> Reconcilers \cup {Nobody, Settled}]
      /\ lease \in Reconcilers \cup {Nobody, Abandoned} /\ fresh \in BOOLEAN
  BY DEF Inv1086, FeedbackTypeOK, ReadersTyped, FromArchive
<1>2. x \in Reader
  BY <1>1, ReaderAt DEF InsertRow, InsertFails, Recheck, Rollback
<1>3. CASE InsertRow(r)
  <2> DEFINE doc == x.document
  <2>1. doc \in archive \ Submitted /\ doc \in Documents
    BY <1>1, <1>2, <1>3 DEF InsertRow, ReaderOk, Reader
  <2>2. /\ ReadersTyped' /\ readers'[r].pc = "artifacts" /\ readers'[r].todo \subseteq archive
        /\ \A q \in Reconcilers : q # r => readers'[q] = readers[q]
    BY <1>3, KeptReader DEF InsertRow
  <2>3. rows' = [rows EXCEPT ![doc] = IF @ = Nobody THEN Settled ELSE @]
    BY <1>3 DEF InsertRow
  <2> HIDE DEF doc
  <2>4. FeedbackTypeOK'
    BY <1>1, <1>3, <2>2, <2>3 DEF InsertRow, Inv1086, FeedbackTypeOK, ReadersTyped
  <2>5. OwnRows'
    BY <1>1, <1>3, <2>1, <2>2, <2>3, NamesAssumption DEF InsertRow, Inv1086, OwnRows
  <2>6. FromArchive'
    <3>1. Recorded' \subseteq Recorded \cup {doc}
      BY <1>1, <2>3 DEF Recorded
    <3>2. archive' = archive
      BY <1>3 DEF InsertRow
    <3>3. QED
      BY <2>1, <2>2, <3>1, <3>2 DEF Inv1086, FromArchive, ReaderOk
  <2>7. EvidenceKept' /\ VerdictIsTheirs'
    BY <1>3 DEF InsertRow, Inv1086, EvidenceKept, VerdictIsTheirs
  <2>8. QED
    BY <2>4, <2>5, <2>6, <2>7 DEF Inv1086
<1>4. CASE InsertFails(r)
  <2> DEFINE doc == x.document
             t == [x EXCEPT !.pc = "recheck"]
  <2>1. doc \in archive \ Submitted /\ doc \in Documents
    BY <1>1, <1>2, <1>4 DEF InsertFails, ReaderOk, Reader
  <2>2. t \in Reader /\ t.pc = "recheck" /\ t.document = doc /\ t.todo = x.todo
    BY <1>2 DEF Reader
  <2>3. readers' = [readers EXCEPT ![r] = t]
    BY <1>1, <1>4 DEF InsertFails, ReadersTyped
  <2>4. /\ ReadersTyped' /\ readers'[r] = t
        /\ \A q \in Reconcilers : q # r => readers'[q] = readers[q]
    BY <1>1, <2>2, <2>3, ReaderUpdate
  <2>5. x.todo \subseteq archive
    BY <1>1, <1>4 DEF InsertFails, ReaderOk
  <2>6. \/ rows' = [rows EXCEPT ![doc] = IF @ = Nobody THEN r ELSE @]
        \/ rows' = rows
    BY <1>4 DEF InsertFails
  <2>7. \A d \in Documents : rows[d] # r
    BY <1>4 DEF InsertFails, Inv1086, OwnRows
  <2> HIDE DEF doc, t
  <2>8. FeedbackTypeOK'
    BY <1>1, <1>4, <2>4, <2>6 DEF InsertFails, Inv1086, FeedbackTypeOK, ReadersTyped
  <2>9. OwnRows'
    BY <1>1, <2>1, <2>2, <2>4, <2>6, <2>7, NamesAssumption DEF Inv1086, OwnRows
  <2>10. FromArchive'
    <3>1. Recorded' \subseteq Recorded \cup {doc}
      BY <1>1, <2>6 DEF Recorded
    <3>2. archive' = archive
      BY <1>4 DEF InsertFails
    <3>3. QED
      BY <2>1, <2>2, <2>4, <2>5, <3>1, <3>2 DEF Inv1086, FromArchive, ReaderOk
  <2>11. EvidenceKept' /\ VerdictIsTheirs'
    BY <1>4 DEF InsertFails, Inv1086, EvidenceKept, VerdictIsTheirs
  <2>12. QED
    BY <2>8, <2>9, <2>10, <2>11 DEF Inv1086
<1>5. CASE Recheck(r)
  <2>1. CASE Settle1086(r) /\ Conclude(r, "unknown", "persist_retry")
    BY <1>2, <1>5, <2>1, ConclusionAlone DEF Recheck, Open, Code
  <2>2. CASE Settle1086(r) /\ Keep(r)
    <3>1. /\ ReadersTyped' /\ readers'[r].pc = "artifacts" /\ readers'[r].todo \subseteq archive
          /\ \A q \in Reconcilers : q # r => readers'[q] = readers[q]
      BY <1>5, <2>2, KeptReader DEF Recheck
    <3>2. ReaderOk(readers[r])'
      BY <1>5, <3>1 DEF ReaderOk, Recheck
    <3>3. QED
      BY <1>1, <1>5, <2>2, <3>1, <3>2, ReaderSettles DEF Recheck
  <2>3. CASE /\ rows[x.document] = Nobody
             /\ readers' = [readers EXCEPT ![r].pc = "rollback"]
             /\ rows' = rows
    <3> DEFINE t == [x EXCEPT !.pc = "rollback"]
    <3>1. t \in Reader /\ t.pc = "rollback" /\ t.todo = x.todo
      BY <1>2 DEF Reader
    <3>2. readers' = [readers EXCEPT ![r] = t]
      BY <1>1, <2>3 DEF ReadersTyped
    <3>3. /\ ReadersTyped' /\ readers'[r] = t
          /\ \A q \in Reconcilers : q # r => readers'[q] = readers[q]
      BY <1>1, <3>1, <3>2, ReaderUpdate
    <3>4. ReaderOk(readers[r])'
      BY <1>1, <1>5, <3>1, <3>3 DEF ReaderOk, Recheck
    <3>5. \A d \in Documents : rows[d] # r
      BY <1>5, <2>3, NamesAssumption DEF Recheck, Inv1086, OwnRows
    <3>6. Settle1086(r)
      BY <1>1, <2>3, <3>5 DEF Settle1086
    <3>7. QED
      BY <1>1, <1>5, <3>3, <3>4, <3>6, ReaderSettles DEF Recheck
  <2>4. QED
    BY <1>5, <2>1, <2>2, <2>3 DEF Recheck
<1>6. CASE Rollback(r)
  <2>1. \A d \in Documents : rows[d] # r
    BY <1>6 DEF Rollback, Inv1086, OwnRows
  <2>2. lost' = lost
    BY <1>6, <2>1 DEF Rollback
  <2>3. QED
    BY <1>2, <1>6, <2>2, ConclusionAlone DEF Rollback, Open, Code
<1>7. QED
  BY <1>3, <1>4, <1>5, <1>6

\* The reader that has nothing left to do but to release its lease.
LEMMA LeavingReader ==
    ASSUME Inv1086, NEW r \in Reconcilers, readers[r].pc = "append", Leave(r)
    PROVE  /\ ReadersTyped' /\ readers'[r].pc = "release" /\ readers'[r].todo \subseteq archive
           /\ \A q \in Reconcilers : q # r => readers'[q] = readers[q]
<1> DEFINE x == readers[r]
           t == [x EXCEPT !.pc = "release", !.hashes = {}, !.outcome = "processing",
                          !.code = "none"]
<1>1. ReadersTyped /\ ReaderOk(x)
  BY DEF Inv1086, FeedbackTypeOK, ReadersTyped, FromArchive
<1>2. x \in Reader
  BY <1>1, ReaderAt
<1>3. t \in Reader /\ t.pc = "release" /\ t.todo \subseteq archive
  BY <1>1, <1>2 DEF Reader, ReaderOk, Open, Code
<1>4. readers' = [readers EXCEPT ![r] = t]
  BY <1>1 DEF Leave, ReadersTyped
<1> HIDE DEF t
<1>5. QED
  BY <1>1, <1>3, <1>4, ReaderUpdate

\* A document that is classified as a verdict gives it.
LEMMA VerdictOfDocument ==
    ASSUME NEW d \in Documents, Classification(d) \in {"accepted", "rejected"}
    PROVE  /\ d.xml /\ d.recognised
           /\ d.verdict = (IF Classification(d) = "accepted" THEN "godkjent" ELSE "avvist")
           /\ d.transmission # "other" /\ d.year # "other"
<1>1. d \in DocumentFacts
  BY DocumentsAssumption
<1>2. ~(\/ ~d.xml \/ ~d.recognised \/ d.verdict = "other"
        \/ d.transmission = "other" \/ d.year = "other")
  BY DEF Classification
<1>3. d.verdict \in {"godkjent", "avvist"}
  BY <1>1, <1>2 DEF DocumentFacts
<1>4. QED
  BY <1>2, <1>3 DEF Classification

\* Ending a reconciliation: the verdict, the release and the crash.
LEMMA EndingKeeps ==
    ASSUME Inv1086, NEW r \in Reconcilers,
           AppendVerdict(r) \/ AppendFails(r) \/ Release(r) \/ DieReading(r)
    PROVE  Inv1086'
<1>1. /\ ReadersTyped
      /\ lease \in Reconcilers \cup {Nobody, Abandoned} /\ fresh \in BOOLEAN
  BY DEF Inv1086, FeedbackTypeOK, ReadersTyped
<1>2. CASE AppendVerdict(r)
  <2> DEFINE x == readers[r]
  <2>1. x \in Reader /\ x.pc = "append"
    BY <1>1, <1>2, ReaderAt DEF AppendVerdict
  <2>2. /\ ReadersTyped' /\ readers'[r].pc = "release" /\ readers'[r].todo \subseteq archive
        /\ \A q \in Reconcilers : q # r => readers'[q] = readers[q]
    BY <1>2, LeavingReader DEF AppendVerdict
  <2>3. FeedbackTypeOK'
    BY <1>1, <1>2, <2>1, <2>2 DEF AppendVerdict, Inv1086, FeedbackTypeOK, ReadersTyped, Reader
  <2>4. OwnRows'
    BY <1>2, <2>1, <2>2 DEF AppendVerdict, Inv1086, OwnRows
  <2>5. FromArchive'
    <3>1. Recorded' = Recorded /\ archive' = archive
      BY <1>2 DEF AppendVerdict, Recorded
    <3>2. QED
      BY <2>2, <3>1 DEF Inv1086, FromArchive, ReaderOk
  <2>6. EvidenceKept'
    BY <1>2 DEF AppendVerdict, Inv1086, EvidenceKept
  <2>7. VerdictIsTheirs'
    <3>1. state' = x.outcome /\ archive' = archive
      BY <1>2 DEF AppendVerdict
    <3>2. CASE x.outcome \in {"accepted", "rejected"}
      <4>1. PICK d \in Recorded : Classification(d) = x.outcome
        BY <1>2, <3>2 DEF AppendVerdict, Evidence
      <4>2. d \in archive \ Submitted /\ d \in Documents
        BY <4>1 DEF Inv1086, FromArchive, Recorded
      <4>3. QED
        BY <3>1, <3>2, <4>1, <4>2, VerdictOfDocument DEF VerdictIsTheirs
    <3>3. CASE x.outcome \notin {"accepted", "rejected"}
      BY <3>1, <3>3 DEF VerdictIsTheirs
    <3>4. QED
      BY <3>2, <3>3
  <2>8. QED
    BY <2>3, <2>4, <2>5, <2>6, <2>7 DEF Inv1086
<1>3. CASE AppendFails(r)
  <2>1. /\ ReadersTyped' /\ readers'[r].pc = "release" /\ readers'[r].todo \subseteq archive
        /\ \A q \in Reconcilers : q # r => readers'[q] = readers[q]
    BY <1>3, LeavingReader DEF AppendFails
  <2>2. ReaderOk(readers[r])'
    BY <1>3, <2>1 DEF ReaderOk, AppendFails
  <2>3. QED
    BY <1>1, <1>3, <2>1, <2>2, ReaderAlone DEF AppendFails
<1>4. ASSUME readers' = [readers EXCEPT ![r] = Gone]
      PROVE  /\ ReadersTyped' /\ ReaderOk(readers[r])'
             /\ \A q \in Reconcilers : q # r => readers'[q] = readers[q]
  <2>1. Gone \in Reader \cup {Gone} /\ Gone.pc = "idle"
    BY DEF Gone
  <2>2. /\ ReadersTyped' /\ readers'[r] = Gone
        /\ \A q \in Reconcilers : q # r => readers'[q] = readers[q]
    BY <1>1, <1>4, <2>1, ReaderUpdate
  <2>3. QED
    BY <2>1, <2>2 DEF ReaderOk
<1>5. CASE Release(r)
  BY <1>1, <1>4, <1>5, ReaderAlone DEF Release
<1>6. CASE DieReading(r)
  BY <1>1, <1>4, <1>6, ReaderSettles DEF DieReading
<1>7. QED
  BY <1>2, <1>3, <1>5, <1>6

-----------------------------------------------------------------------------
(* The theorems. *)

\* The invariant holds when the submission has just been confirmed.
LEMMA FeedbackInitially == FeedbackInit => Inv1086
<1> SUFFICES ASSUME FeedbackInit
             PROVE  Inv1086
  OBVIOUS
<1>1. FeedbackTypeOK
  BY DEF FeedbackInit, FeedbackTypeOK, Open, Code
<1>2. OwnRows /\ FromArchive
  BY NamesAssumption DEF FeedbackInit, OwnRows, FromArchive, Recorded, ReaderOk, Gone
<1>3. EvidenceKept /\ VerdictIsTheirs
  BY DEF FeedbackInit, EvidenceKept, VerdictIsTheirs
<1>4. QED
  BY <1>1, <1>2, <1>3 DEF Inv1086

\* Every step keeps the invariant.
LEMMA FeedbackStep == Inv1086 /\ [FeedbackNext]_feedbackVars => Inv1086'
<1> SUFFICES ASSUME Inv1086, [FeedbackNext]_feedbackVars
             PROVE  Inv1086'
  OBVIOUS
<1>1. ASSUME NEW r \in Reconcilers, Claim(r) \/ Progress(r) \/ Failure(r)
      PROVE  Inv1086'
  BY <1>1, ReadingKeeps, StoringKeeps, EndingKeeps DEF Progress, Failure
<1>2. CASE FiveMinutes
  BY <1>2 DEF FiveMinutes, Inv1086, FeedbackTypeOK, OwnRows, FromArchive, Recorded, ReaderOk,
              EvidenceKept, VerdictIsTheirs
<1>3. ASSUME NEW d \in Documents, FileDocument(d)
      PROVE  Inv1086'
  <2>1. archive' = archive \cup {d} /\ Recorded' = Recorded
    BY <1>3 DEF FileDocument, Recorded
  <2>2. FeedbackTypeOK' /\ OwnRows' /\ EvidenceKept'
    BY <1>3, <2>1 DEF FileDocument, Inv1086, FeedbackTypeOK, OwnRows, EvidenceKept
  <2>3. FromArchive'
    BY <1>3, <2>1 DEF FileDocument, Inv1086, FromArchive, ReaderOk
  <2>4. VerdictIsTheirs'
    BY <1>3, <2>1 DEF FileDocument, Inv1086, VerdictIsTheirs
  <2>5. QED
    BY <2>2, <2>3, <2>4 DEF Inv1086
<1>4. CASE UNCHANGED feedbackVars
  BY <1>4 DEF feedbackVars, Inv1086, FeedbackTypeOK, OwnRows, FromArchive, Recorded, ReaderOk,
              EvidenceKept, VerdictIsTheirs
<1>5. QED
  BY <1>1, <1>2, <1>3, <1>4 DEF FeedbackNext

\* The invariant holds in every behaviour.
LEMMA FeedbackInvariance == FeedbackSpec => []Inv1086
BY FeedbackInitially, FeedbackStep, PTL DEF FeedbackSpec

\* Every value a reconciliation reaches is one its variables may hold.
THEOREM FeedbackTypeCorrect == FeedbackSpec => []FeedbackTypeOK
<1>1. Inv1086 => FeedbackTypeOK
  BY DEF Inv1086
<1>2. QED
  BY FeedbackInvariance, <1>1, PTL

\* The file of a recorded document is never removed: a reader removes one only after
\* it looked for the row of its own ambiguous insert and found none, and a row that
\* another reader wrote first points to that reader's file.
THEOREM FeedbackEvidenceKept == FeedbackSpec => []EvidenceKept
<1>1. Inv1086 => EvidenceKept
  BY DEF Inv1086
<1>2. QED
  BY FeedbackInvariance, <1>1, PTL

\* A verdict is the authority's own, about this transmission and year: it is appended
\* on recorded documents only, and each of them was taken from the archive.
THEOREM FeedbackVerdictIsTheirs == FeedbackSpec => []VerdictIsTheirs
<1>1. Inv1086 => VerdictIsTheirs
  BY DEF Inv1086
<1>2. QED
  BY FeedbackInvariance, <1>1, PTL

\* No verdict is appended against a document recorded before it, also when another
\* reader recorded it after this one had read: the append compares what the reader
\* counted with what is recorded now.
THEOREM FeedbackVerdictUncontradicted == FeedbackSpec => VerdictUncontradicted
<1>1. ASSUME [FeedbackNext]_feedbackVars, state' # state, state' \in {"accepted", "rejected"}
      PROVE  \A d \in Recorded : Classification(d) = state'
  <2>1. PICK r \in Reconcilers : Claim(r) \/ Progress(r) \/ Failure(r)
    BY <1>1 DEF FeedbackNext, feedbackVars, FiveMinutes, FileDocument
  <2>2. ~ Claim(r) /\ ~ Failure(r)
    BY <1>1 DEF Claim, Failure, ReadFails, StoreFails, InsertFails, AppendFails, DieReading
  <2>3. ~ ReadSnapshot(r) /\ ~ ListArchive(r) /\ ~ (\E d \in Documents : TakeDocument(r, d))
    BY <1>1 DEF ReadSnapshot, ListArchive, TakeDocument
  <2>4. ~ InsertRow(r) /\ ~ Recheck(r) /\ ~ Rollback(r) /\ ~ ReadEnds(r) /\ ~ Release(r)
    BY <1>1 DEF InsertRow, Recheck, Rollback, ReadEnds, Release
  <2>5. AppendVerdict(r)
    BY <2>1, <2>2, <2>3, <2>4 DEF Progress
  <2>6. QED
    BY <1>1, <2>5 DEF AppendVerdict, Evidence
<1>2. [FeedbackNext]_feedbackVars =>
          [state' # state /\ state' \in {"accepted", "rejected"} =>
              \A d \in Recorded : Classification(d) = state']_feedbackVars
  BY <1>1
<1>3. QED
  BY <1>2, PTL DEF FeedbackSpec, VerdictUncontradicted

=============================================================================
