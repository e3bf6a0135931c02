----------------------------- MODULE Rf1086Feedback -----------------------------
(***************************************************************************)
(* Reading the authority's feedback on one confirmed RF-1086 submission.   *)
(* A reconciler takes a lease on the submission, lists the authority's     *)
(* archive, stores every document that is new (file first, then its row),  *)
(* classifies it, and appends one verdict while it still holds the lease.  *)
(* Lease, rows and verdict are single transactions with nothing held in    *)
(* between, so a reconciler may die or be overtaken anywhere.              *)
(*                                                                         *)
(* A document is what the classifier sees of it.  A failed commit is taken *)
(* to be decided by the time its caller reads again.  Lease identities are *)
(* fresh; a lease nobody carries any more is Abandoned, whoever took it.   *)
(***************************************************************************)
EXTENDS Integers, FiniteSets

CONSTANTS Documents,    \* what the authority may file in the archive
          Submitted,    \* the forms themselves, which it files as well
          Reconcilers,  \* requests reconciling at the same time
          MaxReads,     \* reads of the archive after a send; 5 in the code
          Nobody, Abandoned, Settled

\* The facts of a document that its classification depends on.
DocumentFacts ==
    [xml : BOOLEAN, recognised : BOOLEAN,
     verdict : {"godkjent", "avvist", "other"},
     transmission : {"absent", "ours", "other"},
     year : {"absent", "ours", "other"}]

ASSUME DocumentsAssumption ==
    Documents # {} /\ Documents \subseteq DocumentFacts /\ Submitted \subseteq Documents
ASSUME ReadsAssumption == MaxReads \in Nat \ {0}
ASSUME NamesAssumption ==
    /\ {Nobody, Abandoned, Settled} \cap Reconcilers = {}
    /\ Nobody # Abandoned /\ Nobody # Settled

VARIABLES
    state,    \* feedback_state of the submission
    code,     \* what the last appended reconciliation says went wrong
    lease,    \* who holds the lease
    fresh,    \* the lease is less than five minutes old
    rows,     \* document -> Nobody without a row, or whose file its row points to
    lost,     \* documents whose row points to a file that was removed
    archive,  \* the authority's archive
    readers   \* reconciler -> what it is doing; lost in a crash

feedbackVars == <<state, code, lease, fresh, rows, lost, archive, readers>>

Open == {"sent", "processing", "unknown"}
Verdict == {"accepted", "rejected", "action_required"}
Code == {"none", "read_failed", "persist_retry", "persist_failed", "shape", "feedback"}

Reader == [pc : {"claimed", "reading", "artifacts", "insert", "recheck", "rollback",
                 "append", "release"},
           reads : 1 .. MaxReads,
           todo : SUBSET Documents,
           classes : SUBSET Verdict,
           hashes : SUBSET Documents,
           document : Documents,
           outcome : Open \cup Verdict, code : Code]

Gone == [pc |-> "idle"]

FeedbackTypeOK ==
    /\ state \in Open \cup Verdict
    /\ code \in Code
    /\ lease \in Reconcilers \cup {Nobody, Abandoned}
    /\ fresh \in BOOLEAN
    /\ rows \in [Documents -> Reconcilers \cup {Nobody, Settled}]
    /\ lost \subseteq Documents
    /\ archive \subseteq Documents
    /\ readers \in [Reconcilers -> Reader \cup {Gone}]

FeedbackInit ==
    /\ state = "sent"
    /\ code = "none"
    /\ lease = Nobody
    /\ fresh = FALSE
    /\ rows = [d \in Documents |-> Nobody]
    /\ lost = {}
    /\ archive = {}
    /\ readers = [r \in Reconcilers |-> Gone]

Recorded == {d \in Documents : rows[d] # Nobody}

\* Mutant: a verdict about another transmission counts.
ClassificationOfAny(d) ==
    IF ~d.xml \/ ~d.recognised \/ d.verdict = "other" \/ d.year = "other"
    THEN "action_required"
    ELSE IF d.verdict = "godkjent" THEN "accepted" ELSE "rejected"

\* classify_rf1086_feedback.
Classification(d) ==
    IF \/ ~d.xml \/ ~d.recognised \/ d.verdict = "other"
       \/ d.transmission = "other" \/ d.year = "other"
    THEN "action_required"
    ELSE IF d.verdict = "godkjent" THEN "accepted" ELSE "rejected"

\* What a complete read of the archive amounts to.
Concluded(classes) ==
    IF classes = {} THEN "processing"
    ELSE IF classes \in {{"accepted"}, {"rejected"}} THEN CHOOSE c \in classes : TRUE
    ELSE "action_required"

-----------------------------------------------------------------------------

AnyDocument == CHOOSE d \in Documents : TRUE

\* Mutant: a lease that was never released is never taken over.
ClaimReleased(r) ==
    /\ readers[r] = Gone
    /\ state \in Open
    /\ lease = Nobody
    /\ lease' = r
    /\ fresh' = TRUE
    /\ \E n \in {1, MaxReads} :
          readers' = [readers EXCEPT ![r] = [pc |-> "claimed", reads |-> n, todo |-> {},
              classes |-> {}, hashes |-> {}, document |-> AnyDocument,
              outcome |-> "processing", code |-> "none"]]
    /\ UNCHANGED <<state, code, rows, lost, archive>>

\* claim_feedback_lease: open, and not leased or leased more than five minutes ago.
\* One read is made for an owner's request, MaxReads right after a send.
Claim(r) ==
    /\ readers[r] = Gone
    /\ state \in Open
    /\ lease = Nobody \/ ~fresh
    /\ lease' = r
    /\ fresh' = TRUE
    /\ \E n \in {1, MaxReads} :
          readers' = [readers EXCEPT ![r] = [pc |-> "claimed", reads |-> n, todo |-> {},
              classes |-> {}, hashes |-> {}, document |-> AnyDocument,
              outcome |-> "processing", code |-> "none"]]
    /\ UNCHANGED <<state, code, rows, lost, archive>>

\* read_reconciliation_state: the documents recorded so far.
ReadSnapshot(r) ==
    /\ readers[r].pc = "claimed"
    /\ readers' = [readers EXCEPT ![r].pc = "reading", ![r].hashes = Recorded]
    /\ UNCHANGED <<state, code, lease, fresh, rows, lost, archive>>

\* The read ends; a read that is still without a result is repeated.
Conclude(r, outcome, why) ==
    LET again == outcome = "processing" /\ readers[r].reads > 1 IN
    readers' = [readers EXCEPT
        ![r].pc = IF again THEN "reading" ELSE "append",
        ![r].reads = IF again THEN @ - 1 ELSE 1,
        ![r].todo = {}, ![r].classes = {}, ![r].document = AnyDocument,
        ![r].outcome = outcome, ![r].code = why]

\* list_documents answers.
ListArchive(r) ==
    /\ readers[r].pc = "reading"
    /\ readers' = [readers EXCEPT ![r].pc = "artifacts", ![r].todo = archive, ![r].classes = {}]
    /\ UNCHANGED <<state, code, lease, fresh, rows, lost, archive>>

\* Listing or fetching fails: the archive is not there yet, no answer or a retryable
\* one, or a refusal or a page that does not add up.
ReadFails(r) ==
    /\ \/ readers[r].pc = "reading"
       \/ readers[r].pc = "artifacts" /\ readers[r].todo # {}
    /\ \/ Conclude(r, "processing", "none")
       \/ Conclude(r, "unknown", "read_failed")
       \/ Conclude(r, "action_required", "shape")
    /\ UNCHANGED <<state, code, lease, fresh, rows, lost, archive>>

\* The next document: a form of ours is skipped, a recorded one counted, and the
\* file of a new one uploaded before its row is written.
TakeDocument(r, d) ==
    /\ readers[r].pc = "artifacts" /\ d \in readers[r].todo
    /\ \/ /\ d \in Submitted
          /\ readers' = [readers EXCEPT ![r].todo = @ \ {d}]
       \/ /\ d \notin Submitted /\ rows[d] # Nobody
          /\ readers' = [readers EXCEPT ![r].todo = @ \ {d},
                                        ![r].classes = @ \cup {Classification(d)},
                                        ![r].hashes = @ \cup {d}]
       \/ /\ d \notin Submitted /\ rows[d] = Nobody
          /\ readers' = [readers EXCEPT ![r].pc = "insert", ![r].document = d,
                                        ![r].todo = @ \ {d},
                                        ![r].classes = @ \cup {Classification(d)}]
    /\ UNCHANGED <<state, code, lease, fresh, rows, lost, archive>>

\* Looking for the row fails, which may be tried again; or storing the file fails,
\* an error of the document store that the caller does not know as retryable.
StoreFails(r) ==
    /\ readers[r].pc = "artifacts" /\ readers[r].todo \ Submitted # {}
    /\ \/ Conclude(r, "unknown", "persist_retry")
       \/ /\ readers[r].todo \ (Submitted \cup Recorded) # {}
          /\ Conclude(r, "action_required", "persist_failed")
    /\ UNCHANGED <<state, code, lease, fresh, rows, lost, archive>>

\* The next document after this one: no file is at stake any more.
Keep(r) == readers' = [readers EXCEPT ![r].pc = "artifacts", ![r].document = AnyDocument,
                                      ![r].hashes = @ \cup {readers[r].document}]

Settle1086(r) == rows' = [d \in Documents |-> IF rows[d] = r THEN Settled ELSE rows[d]]

\* record_production_feedback_artifact: the row that is there already stays.
InsertRow(r) ==
    /\ readers[r].pc = "insert"
    /\ rows' = [rows EXCEPT ![readers[r].document] = IF @ = Nobody THEN Settled ELSE @]
    /\ Keep(r)
    /\ UNCHANGED <<state, code, lease, fresh, lost, archive>>

\* The insert raises, committed or not.
InsertFails(r) ==
    /\ readers[r].pc = "insert"
    /\ \/ rows' = [rows EXCEPT ![readers[r].document] = IF @ = Nobody THEN r ELSE @]
       \/ rows' = rows
    /\ readers' = [readers EXCEPT ![r].pc = "recheck"]
    /\ UNCHANGED <<state, code, lease, fresh, lost, archive>>

\* Mutant: a failed insert is rolled back without looking.
RecheckNot(r) ==
    /\ readers[r].pc = "recheck"
    /\ readers' = [readers EXCEPT ![r].pc = "rollback"]
    /\ UNCHANGED <<state, code, lease, fresh, rows, lost, archive>>

\* Is the row there after all?  If that cannot be told, the file stays.
Recheck(r) ==
    /\ readers[r].pc = "recheck"
    /\ \/ /\ Settle1086(r)
          /\ Conclude(r, "unknown", "persist_retry")
       \/ /\ rows[readers[r].document] # Nobody
          /\ Settle1086(r)
          /\ Keep(r)
       \/ /\ rows[readers[r].document] = Nobody
          /\ readers' = [readers EXCEPT ![r].pc = "rollback"]
          /\ rows' = rows
    /\ UNCHANGED <<state, code, lease, fresh, lost, archive>>

\* The uploaded file is removed again.
Rollback(r) ==
    /\ readers[r].pc = "rollback"
    /\ lost' = lost \cup {d \in Documents : rows[d] = r}
    /\ Settle1086(r)
    /\ Conclude(r, "unknown", "persist_retry")
    /\ UNCHANGED <<state, code, lease, fresh, archive>>

\* Every document has been taken.
ReadEnds(r) ==
    /\ readers[r].pc = "artifacts" /\ readers[r].todo = {}
    /\ Conclude(r, Concluded(readers[r].classes),
                IF readers[r].classes = {} THEN "none" ELSE "feedback")
    /\ UNCHANGED <<state, code, lease, fresh, rows, lost, archive>>

\* Mutant: the documents counted need not be the documents recorded.
EvidenceOfReader(r) ==
    readers[r].outcome \in {"accepted", "rejected"} => readers[r].hashes # {}

\* The evidence append_production_feedback_reconciliation asks for.
Evidence(r) ==
    /\ readers[r].hashes = Recorded
    /\ readers[r].outcome \in {"accepted", "rejected"} =>
          /\ Recorded # {}
          /\ \A d \in Recorded : Classification(d) = readers[r].outcome

\* Nothing is left to do but to release the lease.
Leave(r) == readers' = [readers EXCEPT ![r].pc = "release", ![r].hashes = {},
                                       ![r].outcome = "processing", ![r].code = "none"]

\* append_reconciliation: by the holder of the lease, on what is recorded now.
AppendVerdict(r) ==
    /\ readers[r].pc = "append"
    /\ lease = r
    /\ state \in Verdict => readers[r].outcome = state
    /\ Evidence(r)
    /\ state' = readers[r].outcome
    /\ code' = readers[r].code
    /\ Leave(r)
    /\ UNCHANGED <<lease, fresh, rows, lost, archive>>

\* The append is refused, or the database cannot be reached.
AppendFails(r) ==
    /\ readers[r].pc = "append"
    /\ Leave(r)
    /\ UNCHANGED <<state, code, lease, fresh, rows, lost, archive>>

\* release_feedback_lease, as far as it succeeds: only a lease of one's own.
Release(r) ==
    /\ readers[r].pc = "release"
    /\ \E left \in {Nobody, Abandoned} : lease' = IF lease = r THEN left ELSE lease
    /\ readers' = [readers EXCEPT ![r] = Gone]
    /\ UNCHANGED <<state, code, fresh, rows, lost, archive>>

\* The process dies.
DieReading(r) ==
    /\ readers[r] # Gone
    /\ lease' = IF lease = r THEN Abandoned ELSE lease
    /\ Settle1086(r)
    /\ readers' = [readers EXCEPT ![r] = Gone]
    /\ UNCHANGED <<state, code, fresh, lost, archive>>

FiveMinutes ==
    /\ fresh
    /\ fresh' = FALSE
    /\ UNCHANGED <<state, code, lease, rows, lost, archive, readers>>

\* The authority files another document; it removes none.
FileDocument(d) ==
    /\ d \notin archive
    /\ archive' = archive \cup {d}
    /\ UNCHANGED <<state, code, lease, fresh, rows, lost, readers>>

Progress(r) ==
    \/ ReadSnapshot(r) \/ ListArchive(r)
    \/ \E d \in Documents : TakeDocument(r, d)
    \/ InsertRow(r) \/ Recheck(r) \/ Rollback(r) \/ ReadEnds(r)
    \/ AppendVerdict(r) \/ Release(r)

Failure(r) == ReadFails(r) \/ StoreFails(r) \/ InsertFails(r) \/ AppendFails(r) \/ DieReading(r)

FeedbackNext ==
    \/ \E r \in Reconcilers : Claim(r) \/ Progress(r) \/ Failure(r)
    \/ FiveMinutes
    \/ \E d \in Documents : FileDocument(d)

FeedbackSpec == FeedbackInit /\ [][FeedbackNext]_feedbackVars

-----------------------------------------------------------------------------
(* Properties. *)

\* A row of a received document never points to a file that was removed, whatever
\* insert was ambiguous and whoever recorded it first.
EvidenceKept == lost = {}

\* A verdict is the authority's own: its archive holds a recognised document that
\* says so about this transmission and year, none of the forms we sent.
VerdictIsTheirs ==
    state \in {"accepted", "rejected"} =>
        \E d \in archive \ Submitted :
            /\ d.xml /\ d.recognised
            /\ d.verdict = (IF state = "accepted" THEN "godkjent" ELSE "avvist")
            /\ d.transmission # "other" /\ d.year # "other"

\* A verdict is not appended against a document that was recorded before it, by
\* another reconciler in the meantime too.
VerdictUncontradicted ==
    [][state' # state /\ state' \in {"accepted", "rejected"} =>
          \A d \in Recorded : Classification(d) = state']_feedbackVars

\* The owner asks for the status again and again, a request that was made steps on
\* (each of its waits has a timeout), and time passes.
FeedbackFairness ==
    /\ WF_feedbackVars(FiveMinutes)
    /\ \A r \in Reconcilers :
          WF_feedbackVars(Claim(r)) /\ WF_feedbackVars(Progress(r) \/ AppendFails(r))

FairFeedbackSpec == FeedbackSpec /\ FeedbackFairness

\* What keeps a reconciliation from ending well.  An append the database refuses is
\* none of them.
FeedbackTrouble ==
    \/ \E r \in Reconcilers :
          ReadFails(r) \/ StoreFails(r) \/ InsertFails(r) \/ DieReading(r)
          \/ (AppendFails(r) /\ lease = r /\ Evidence(r))
    \/ FiveMinutes /\ lease \in Reconcilers
    \/ \E d \in Documents : FileDocument(d)

\* Once the archive holds an answer and troubles end, some verdict is reached,
\* although reconcilers died with the lease before and rows were left behind.
EventuallyDecided ==
    <>[][~FeedbackTrouble]_feedbackVars /\ <>(archive \ Submitted # {}) => <>(state \in Verdict)

=============================================================================
