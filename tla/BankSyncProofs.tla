---------------------------- MODULE BankSyncProofs ----------------------------
(***************************************************************************)
(* Proofs about one bank connection, for every number of callers, sync      *)
(* requests, pages and consents.                                           *)
(***************************************************************************)
EXTENDS BankSync, TLAPS

-----------------------------------------------------------------------------
(* Shapes. *)

Attempt == [status : {"NONE", "STARTED", "SUCCEEDED", "FAILED"},
            cursor : {None} \cup Pages, asOf : [Pages -> Nat]]

\* The records and functions have the fields they are updated at.
Shaped ==
  /\ connection = [status |-> connection.status, state |-> connection.state,
                   session |-> connection.session]
  /\ bank = [facts |-> bank.facts, begun |-> bank.begun, spent |-> bank.spent,
             alive |-> bank.alive]
  /\ bank.facts \in [Pages -> Nat]
  /\ facts \in [Pages -> Nat]
  /\ attempts \in [Keys -> Attempt]
  /\ \A k \in Keys : attempts[k].status = "NONE" => attempts[k].cursor = None
  /\ calls = [c \in Callers |-> calls[c]]

-----------------------------------------------------------------------------
(* Collection. *)

\* Every fact before page q is known at least as the attempt could see it.
Covered(k, q) == \A p \in Pages : p < q => facts[p] >= attempts[k].asOf[p]
Begun(k) == k \in Keys /\ attempts[k].status # "NONE"

CallCovers(call) ==
  /\ call.next \in {"fetch", "apply", "complete", "fault"} => Begun(call.key)
  /\ call.next \in {"fetch", "apply"} => call.page \in Pages /\ Covered(call.key, call.page)
  /\ call.next = "apply" =>
       call.seen \in Nat /\ call.seen >= attempts[call.key].asOf[call.page]
  /\ call.next = "complete" => Covered(call.key, LastPage + 1)

\* Checkpoints and callers have everything before them, and the bank's facts
\* only move forward.
CollectInv ==
  /\ Shaped
  /\ \A k \in Keys : Begun(k) => \A p \in Pages : bank.facts[p] >= attempts[k].asOf[p]
  /\ \A k \in Keys : attempts[k].status = "STARTED" => Covered(k, Checkpoint(k))
  /\ \A k \in Keys : <<k, "COMPLETE">> \in coverage => Begun(k) /\ Covered(k, LastPage + 1)
  /\ \A c \in Callers : calls[c] # Idle => CallCovers(calls[c])

\* What every step does.
Forward ==
  /\ \A p \in Pages : facts'[p] >= facts[p] /\ bank'.facts[p] >= bank.facts[p]
  /\ \A k \in Keys : Begun(k) => Begun(k)' /\ attempts'[k].asOf = attempts[k].asOf

LEMMA CoveredStays ==
  ASSUME Shaped, Shaped', Forward, NEW k \in Keys, Begun(k), NEW q, Covered(k, q)
  PROVE  Covered(k, q)'
<1>1. attempts'[k].asOf = attempts[k].asOf
  BY DEF Forward
<1>2. SUFFICES ASSUME NEW p \in Pages, p < q PROVE facts'[p] >= attempts'[k].asOf[p]
  BY DEF Covered
<1>3. facts[p] >= attempts[k].asOf[p] /\ facts'[p] >= facts[p]
  BY <1>2 DEF Covered, Forward
<1>4. facts[p] \in Nat /\ facts'[p] \in Nat /\ attempts[k].asOf[p] \in Nat
  BY DEF Shaped, Attempt
<1>5. QED
  BY <1>1, <1>3, <1>4

LEMMA CallStays ==
  ASSUME Shaped, Shaped', Forward, NEW call, CallCovers(call)
  PROVE  CallCovers(call)'
<1>1. PICK k : k = call.key
  OBVIOUS
<1>2. Begun(k) => Begun(k)' /\ attempts'[k].asOf = attempts[k].asOf
  BY DEF Forward, Begun
<1>3. ASSUME NEW q, Begun(k), Covered(k, q) PROVE Covered(k, q)'
  BY <1>3, CoveredStays DEF Begun
<1>4. QED
  BY <1>1, <1>2, <1>3 DEF CallCovers

\* A step that moves forward need only answer for the call it makes, the verdict
\* it gives and the checkpoint it sets.
LEMMA CollectKept ==
  ASSUME CollectInv, Shaped', Forward, NEW c \in Callers, NEW call,
         Goes(c, call), call # Idle => CallCovers(call)',
         \A k \in Keys : <<k, "COMPLETE">> \in coverage' =>
           <<k, "COMPLETE">> \in coverage \/ (Begun(k) /\ Covered(k, LastPage + 1)),
         \A k \in Keys : Begun(k)' =>
           Begun(k) \/ \A p \in Pages : bank'.facts[p] >= attempts'[k].asOf[p],
         \A k \in Keys : attempts'[k].status = "STARTED" =>
           \/ attempts'[k] = attempts[k]
           \/ Covered(k, Checkpoint(k))'
  PROVE  CollectInv'
<1>1. ASSUME NEW k \in Keys, Begun(k)', NEW p \in Pages
      PROVE  bank'.facts[p] >= attempts'[k].asOf[p]
  <2>1. CASE Begun(k)
    <3>1. bank.facts[p] >= attempts[k].asOf[p] /\ bank'.facts[p] >= bank.facts[p]
      BY <2>1 DEF CollectInv, Forward
    <3>2. attempts'[k].asOf = attempts[k].asOf
      BY <2>1 DEF Forward
    <3>3. bank.facts[p] \in Nat /\ bank'.facts[p] \in Nat /\ attempts[k].asOf[p] \in Nat
      BY DEF CollectInv, Shaped, Attempt
    <3>4. QED
      BY <3>1, <3>2, <3>3
  <2>2. QED
    BY <1>1, <2>1
<1>2. ASSUME NEW k \in Keys, attempts'[k].status = "STARTED"
      PROVE  Covered(k, Checkpoint(k))'
  <2>1. CASE attempts'[k] = attempts[k]
    <3>1. Begun(k) /\ Covered(k, Checkpoint(k))
      BY <1>2, <2>1 DEF CollectInv, Begun
    <3>2. PICK q : q = Checkpoint(k)
      OBVIOUS
    <3>3. Covered(k, q)'
      BY <3>1, <3>2, CoveredStays DEF CollectInv
    <3>4. Checkpoint(k)' = q
      BY <2>1, <3>2 DEF Checkpoint
    <3>5. QED
      BY <3>3, <3>4 DEF Covered
  <2>2. QED
    BY <1>2, <2>1
<1>3. ASSUME NEW k \in Keys, <<k, "COMPLETE">> \in coverage'
      PROVE  Begun(k)' /\ Covered(k, LastPage + 1)'
  <2>1. Begun(k) /\ Covered(k, LastPage + 1)
    BY <1>3 DEF CollectInv
  <2>2. PICK q : q = LastPage + 1
    OBVIOUS
  <2>3. Covered(k, q)' /\ Begun(k)'
    BY <2>1, <2>2, CoveredStays DEF CollectInv, Forward
  <2>4. QED
    BY <2>2, <2>3
<1>4. ASSUME NEW d \in Callers, calls'[d] # Idle PROVE CallCovers(calls[d])'
  <2>1. CASE d = c
    BY <1>4, <2>1 DEF Goes, CollectInv, Shaped
  <2>2. CASE d # c
    <3>1. PICK x : x = calls[d]
      OBVIOUS
    <3>2. calls'[d] = x
      BY <2>2, <3>1 DEF Goes, CollectInv, Shaped
    <3>3. CallCovers(x)'
      BY <1>4, <3>1, <3>2, CallStays DEF CollectInv
    <3>4. QED
      BY <3>2, <3>3
  <2>3. QED
    BY <2>1, <2>2
<1>5. QED
  BY <1>1, <1>2, <1>3, <1>4 DEF CollectInv

\* Steps of the consent and the revocation, and a death.
Aside(c) == Start(c) \/ Complete(c) \/ Revoke(c) \/ Die(c)

LEMMA AsideStep ==
  ASSUME NEW c \in Callers, Shaped, Aside(c)
  PROVE  /\ UNCHANGED collected
         /\ bank'.facts = bank.facts
         /\ bank' = [facts |-> bank'.facts, begun |-> bank'.begun, spent |-> bank'.spent,
                     alive |-> bank'.alive]
         /\ connection' = [status |-> connection'.status, state |-> connection'.state,
                           session |-> connection'.session]
         /\ \E call : /\ Goes(c, call)
                      /\ call # Idle => call.next \notin {"fetch", "apply", "complete", "fault"}
<1> USE DEF Shaped, collected, access
<1>1. CASE BeginConnection(c)
  BY <1>1 DEF BeginConnection
<1>2. CASE BeginConsent(c)
  BY <1>2 DEF BeginConsent
<1>3. CASE RecordRedirect(c)
  BY <1>3 DEF RecordRedirect, Ends
<1>4. CASE FailConnection(c)
  BY <1>4 DEF FailConnection, Ends
<1>5. CASE \E n \in Consents : Callback(c, n)
  BY <1>5 DEF Callback
<1>6. CASE ExchangeCode(c)
  <2>1. UNCHANGED <<access, collected>>
    BY <1>6 DEF ExchangeCode
  <2>2. bank' = bank \/ bank' = [bank EXCEPT !.spent = @ \cup {calls[c].consent},
                                            !.alive = @ \cup {calls[c].consent}]
    BY <1>6 DEF ExchangeCode
  <2>3. \E call : Goes(c, call) /\ call.next \in {"activate", "fail"}
    BY <1>6 DEF ExchangeCode
  <2>4. QED
    BY <2>1, <2>2, <2>3
<1>7. CASE CompleteConnection(c)
  BY <1>7 DEF CompleteConnection, Ends
<1>8. CASE BeginRevocation(c)
  BY <1>8 DEF BeginRevocation
<1>9. CASE RevokeConsent(c)
  BY <1>9 DEF RevokeConsent, Ends
<1>10. CASE CompleteRevocation(c)
  BY <1>10 DEF CompleteRevocation, Ends
<1>11. CASE Die(c)
  BY <1>11 DEF Die, Ends
<1>12. QED
  BY <1>1, <1>2, <1>3, <1>4, <1>5, <1>6, <1>7, <1>8, <1>9, <1>10, <1>11
     DEF Aside, Start, Complete, Revoke

\* A step that leaves facts, attempts and the bank's facts alone moves forward.
LEMMA StillForward ==
  ASSUME Shaped, facts' = facts, attempts' = attempts, bank'.facts = bank.facts
  PROVE  Forward
<1>1. \A p \in Pages : facts[p] \in Nat /\ bank.facts[p] \in Nat
  BY DEF Shaped
<1>2. QED
  BY <1>1 DEF Forward, Begun

LEMMA AsideKeeps ==
  ASSUME NEW c \in Callers, CollectInv, Aside(c)
  PROVE  CollectInv'
<1>1. PICK call : /\ Goes(c, call)
                  /\ call # Idle => call.next \notin {"fetch", "apply", "complete", "fault"}
  BY AsideStep DEF CollectInv
<1>2. UNCHANGED collected /\ bank'.facts = bank.facts
  BY AsideStep DEF CollectInv
<1>3. Shaped'
  <2>1. calls' = [d \in Callers |-> calls'[d]]
    BY <1>1 DEF Goes, CollectInv, Shaped
  <2>2. QED
    BY <1>2, <2>1, AsideStep DEF CollectInv, Shaped, collected
<1>4. Forward
  BY <1>2, StillForward DEF CollectInv, collected
<1>5. call # Idle => CallCovers(call)'
  BY <1>1 DEF CallCovers
<1>6. QED
  BY <1>1, <1>2, <1>3, <1>4, <1>5, CollectKept DEF collected, Begun

-----------------------------------------------------------------------------
(* The steps of a synchronisation. *)

LEMMA PrepareKeeps ==
  ASSUME NEW c \in Callers, NEW k \in Keys, CollectInv, PrepareSync(c, k)
  PROVE  CollectInv'
<1> DEFINE call == [next |-> "fetch", key |-> k, session |-> connection.session,
                    page |-> Checkpoint(k)]
           new == [status |-> "STARTED", cursor |-> None, asOf |-> bank.facts]
<1>1. /\ Goes(c, call)
      /\ UNCHANGED <<access, coverage, facts, bank>>
      /\ attempts[k].status \in {"NONE", "STARTED"}
      /\ attempts' = IF attempts[k].status = "NONE" THEN [attempts EXCEPT ![k] = new]
                     ELSE attempts
  BY DEF PrepareSync
<1>2. Shaped /\ new \in Attempt /\ attempts \in [Keys -> Attempt]
  BY DEF CollectInv, Shaped, Attempt
<1>3. attempts' \in [Keys -> Attempt]
  BY <1>1, <1>2
<1>4. Shaped'
  <2>1. \A j \in Keys : attempts'[j].status = "NONE" => attempts'[j].cursor = None
    BY <1>1, <1>2 DEF Shaped
  <2>2. QED
    BY <1>1, <1>2, <1>3, <2>1 DEF Shaped, Goes, access
<1>0. PICK x : x = call
  OBVIOUS
<1>5. Forward
  <2>1. \A p \in Pages : facts[p] \in Nat /\ bank.facts[p] \in Nat
    BY <1>2 DEF Shaped
  <2>2. \A j \in Keys : Begun(j) => attempts'[j] = attempts[j]
    BY <1>1, <1>2 DEF Begun
  <2>3. QED
    BY <1>1, <2>1, <2>2 DEF Forward, Begun
<1>6. CASE attempts[k].status = "STARTED"
  <2>1. attempts' = attempts /\ Begun(k) /\ Checkpoint(k) \in Pages
    <3>1. 1 \in Pages
      BY PagesAreCounted DEF Pages
    <3>2. attempts[k].cursor \in {None} \cup Pages
      BY <1>2 DEF Attempt
    <3>3. QED
      BY <1>1, <1>6, <3>1, <3>2 DEF Begun, Checkpoint
  <2>2. Covered(k, Checkpoint(k))
    BY <1>6 DEF CollectInv
  <2>3. CallCovers(x)'
    <3>1. x.next = "fetch" /\ x.key = k /\ x.page = Checkpoint(k)
      BY <1>0
    <3>2. Begun(k)' /\ Covered(k, x.page)'
      BY <1>1, <2>1, <2>2, <3>1 DEF Covered, Begun
    <3>3. QED
      BY <2>1, <3>1, <3>2 DEF CallCovers
  <2>4. QED
    <3>2. Goes(c, x)
      BY <1>0, <1>1
    <3>3. \A j \in Keys : Begun(j)' => Begun(j)
      BY <2>1 DEF Begun
    <3>4. coverage' = coverage /\ \A j \in Keys : attempts'[j] = attempts[j]
      BY <1>1, <2>1
    <3>5. QED
      BY <1>4, <1>5, <2>3, <3>2, <3>3, <3>4, CollectKept
<1>7. CASE attempts[k].status = "NONE"
  <2>1. attempts' = [attempts EXCEPT ![k] = new] /\ attempts'[k] = new
    BY <1>1, <1>2, <1>7
  <2>2. \A p \in Pages : bank.facts[p] \in Nat /\ ~(p < 1)
    BY <1>2, PagesAreCounted DEF Shaped, Pages
  <2>3. 1 \in Pages /\ Checkpoint(k)' = 1
    BY <2>1, PagesAreCounted DEF Pages, Checkpoint
  <2>4. Covered(k, Checkpoint(k))'
    BY <2>2, <2>3 DEF Covered
  <2>5. CallCovers(x)'
    <3>1. Begun(k)'
      BY <2>1 DEF Begun
    <3>2. Checkpoint(k) = 1
      <4>1. attempts[k].cursor = None
        BY <1>2, <1>7 DEF Shaped
      <4>2. QED
        BY <4>1 DEF Checkpoint
    <3>3. x.next = "fetch" /\ x.key = k /\ x.page = 1
      BY <1>0, <3>2
    <3>4. QED
      BY <2>3, <2>4, <3>1, <3>3 DEF CallCovers, Covered
  <2>6. \A j \in Keys : j # k => attempts'[j] = attempts[j]
    BY <1>2, <2>1
  <2>7. \A j \in Keys : Begun(j)' =>
          Begun(j) \/ \A p \in Pages : bank'.facts[p] >= attempts'[j].asOf[p]
    BY <1>1, <2>1, <2>2, <2>6 DEF Begun
  <2>8. QED
    <3>2. Goes(c, x) /\ coverage' = coverage
      BY <1>0, <1>1
    <3>3. \A j \in Keys : attempts'[j].status = "STARTED" =>
            attempts'[j] = attempts[j] \/ Covered(j, Checkpoint(j))'
      BY <2>4, <2>6
    <3>4. QED
      BY <1>4, <1>5, <2>5, <2>7, <3>2, <3>3, CollectKept
<1>8. QED
  BY <1>1, <1>6, <1>7

LEMMA FetchKeeps ==
  ASSUME NEW c \in Callers, CollectInv, FetchPage(c)
  PROVE  CollectInv'
<1>1. UNCHANGED <<access, collected, bank>> /\ At(c, "fetch")
  BY DEF FetchPage
<1>2. PICK k, p : k = calls[c].key /\ p = calls[c].page
  OBVIOUS
<1>3. Begun(k) /\ k \in Keys /\ p \in Pages /\ Covered(k, p)
  BY <1>1, <1>2 DEF CollectInv, CallCovers, At, Begun
<1>4. PICK x : Goes(c, x) /\ CallCovers(x)
  <2>1. CASE Goes(c, [next |-> "fault", key |-> k])
    <3>1. CallCovers([next |-> "fault", key |-> k])
      BY <1>3 DEF CallCovers
    <3>2. QED
      BY <2>1, <3>1
  <2>2. CASE Goes(c, [next |-> "apply", key |-> k, session |-> calls[c].session,
                      page |-> p, seen |-> bank.facts[p]])
    <3>1. bank.facts[p] \in Nat /\ bank.facts[p] >= attempts[k].asOf[p]
      BY <1>3 DEF CollectInv, Shaped
    <3>2. CallCovers([next |-> "apply", key |-> k, session |-> calls[c].session,
                      page |-> p, seen |-> bank.facts[p]])
      BY <1>3, <3>1 DEF CallCovers
    <3>3. QED
      BY <2>2, <3>2
  <2>3. QED
    BY <1>2, <2>1, <2>2 DEF FetchPage
<1>5. Shaped'
  BY <1>1, <1>4 DEF CollectInv, Shaped, Goes, access, collected
<1>6. Forward
  BY <1>1, StillForward DEF CollectInv, collected
<1>7. CallCovers(x)'
  BY <1>4, <1>5, <1>6, CallStays DEF CollectInv
<1>8. QED
  BY <1>1, <1>4, <1>5, <1>6, <1>7, CollectKept DEF collected, Begun

LEMMA BooksKeeps ==
  ASSUME NEW p \in Pages, CollectInv, BankBooks(p)
  PROVE  CollectInv'
<1>1. /\ bank.facts[p] = 1 /\ bank' = [bank EXCEPT !.facts[p] = 2]
      /\ UNCHANGED <<access, collected, calls>>
  BY DEF BankBooks, Pending, Booked
<1>2. Shaped /\ bank'.facts = [bank.facts EXCEPT ![p] = 2]
  BY <1>1 DEF CollectInv, Shaped
<1>3. bank'.facts \in [Pages -> Nat]
  BY <1>2 DEF Shaped
<1>4. Shaped'
  BY <1>1, <1>2, <1>3 DEF Shaped, access, collected
<1>5. \A q \in Pages : facts'[q] >= facts[q] /\ bank'.facts[q] >= bank.facts[q]
  BY <1>1, <1>2 DEF Shaped, collected
<1>6. Forward
  BY <1>1, <1>5 DEF Forward, Begun, collected
<1>7. \A k \in Keys : Begun(k) => \A q \in Pages : bank'.facts[q] >= attempts[k].asOf[q]
  <2>1. SUFFICES ASSUME NEW k \in Keys, Begun(k), NEW q \in Pages
                 PROVE  bank'.facts[q] >= attempts[k].asOf[q]
    OBVIOUS
  <2>2. bank.facts[q] >= attempts[k].asOf[q]
    BY <2>1 DEF CollectInv
  <2>3. bank.facts[q] \in Nat /\ bank'.facts[q] \in Nat /\ attempts[k].asOf[q] \in Nat
    BY <1>2, <1>3 DEF Shaped, Attempt
  <2>4. QED
    BY <1>5, <2>2, <2>3
<1>8. ASSUME NEW c \in Callers, calls[c] # Idle PROVE CallCovers(calls[c])'
  <2>1. PICK x : x = calls[c]
    OBVIOUS
  <2>2. CallCovers(x)'
    BY <1>2, <1>4, <1>6, <1>8, <2>1, CallStays DEF CollectInv
  <2>3. QED
    BY <1>1, <2>1, <2>2
<1>9. QED
  BY <1>1, <1>4, <1>7, <1>8 DEF CollectInv, Covered, Begun, Checkpoint, collected

\* An attempt is completed only by a caller that has every page.
LEMMA DecidesKeeps ==
  ASSUME NEW c \in Callers, NEW k \in Keys, CollectInv, Ends(c), Begun(k),
         UNCHANGED <<access, facts, bank>>,
         NEW status \in {"SUCCEEDED", "FAILED"}, NEW completeness,
         completeness = "COMPLETE" => Covered(k, LastPage + 1),
         Decides(k, status, completeness)
  PROVE  CollectInv'
<1>1. CASE attempts[k].status = "STARTED"
  <2> DEFINE new == [attempts[k] EXCEPT !.status = status, !.cursor = None]
  <2>1. /\ attempts' = [attempts EXCEPT ![k].status = status, ![k].cursor = None]
        /\ coverage' = coverage \cup {<<k, completeness>>}
    BY <1>1 DEF Decides
  <2>2. Shaped /\ attempts \in [Keys -> Attempt]
    BY DEF CollectInv, Shaped
  <2>3. attempts' = [attempts EXCEPT ![k] = new] /\ new \in Attempt
    BY <2>1, <2>2 DEF Attempt
  <2>4. attempts' \in [Keys -> Attempt]
    BY <2>2, <2>3
  <2>5. /\ attempts'[k].status = status /\ attempts'[k].asOf = attempts[k].asOf
        /\ \A j \in Keys : j # k => attempts'[j] = attempts[j]
    BY <2>2, <2>3 DEF Attempt
  <2>6. Shaped'
    BY <2>2, <2>4, <2>5 DEF Shaped, Goes, Ends, access
  <2>7. Forward
    <3>1. \A p \in Pages : facts[p] \in Nat /\ bank.facts[p] \in Nat
      BY <2>2 DEF Shaped
    <3>2. QED
      BY <2>5, <3>1 DEF Forward, Begun
  <2>8. \A j \in Keys : Begun(j)' => Begun(j)
    BY <1>1, <2>5 DEF Begun
  <2>9. \A j \in Keys : attempts'[j].status = "STARTED" => attempts'[j] = attempts[j]
    BY <2>5
  <2>10. \A j \in Keys : <<j, "COMPLETE">> \in coverage' =>
           <<j, "COMPLETE">> \in coverage \/ (Begun(j) /\ Covered(j, LastPage + 1))
    BY <2>1
  <2>11. QED
    BY <2>6, <2>7, <2>8, <2>9, <2>10, CollectKept DEF Ends
<1>2. CASE attempts[k].status # "STARTED"
  <2>1. UNCHANGED <<attempts, coverage>>
    BY <1>2 DEF Decides
  <2>2. Shaped'
    BY <2>1 DEF CollectInv, Shaped, Goes, Ends, access
  <2>3. Forward
    BY <2>1, StillForward DEF CollectInv
  <2>4. QED
    BY <2>1, <2>2, <2>3, CollectKept DEF Ends, Begun
<1>3. QED
  BY <1>1, <1>2

\* The page an attempt holds is applied: it is known up to the next one.
LEMMA AppliedPage ==
  ASSUME NEW k \in Keys, NEW p \in Pages, NEW seen \in Nat, CollectInv,
         attempts[k].status = "STARTED", seen >= attempts[k].asOf[p],
         Covered(k, p), Apply(k, p, seen), UNCHANGED <<access, bank>>,
         calls' = [c \in Callers |-> calls'[c]]
  PROVE  /\ Shaped' /\ Forward /\ Covered(k, p + 1)'
         /\ \A j \in Keys : Begun(j)' => Begun(j)
         /\ \A j \in Keys : attempts'[j].status = "STARTED" =>
              attempts'[j] = attempts[j] \/ Covered(j, Checkpoint(j))'
<1> DEFINE new == [attempts[k] EXCEPT !.cursor = After(p)]
<1>1. /\ facts' = [facts EXCEPT ![p] = Merged(facts[p], seen)]
      /\ attempts' = [attempts EXCEPT ![k].cursor = After(p)]
  BY DEF Apply
<1>2. /\ Shaped /\ attempts \in [Keys -> Attempt]
      /\ facts \in [Pages -> Nat] /\ facts[p] \in Nat /\ attempts[k].asOf[p] \in Nat
  BY DEF CollectInv, Shaped, Attempt
<1>3. After(p) \in {None} \cup Pages /\ (After(p) # None => After(p) = p + 1)
  BY PagesAreCounted DEF After, Pages
<1>4. attempts' = [attempts EXCEPT ![k] = new] /\ new \in Attempt
  BY <1>1, <1>2, <1>3 DEF Attempt
<1>5. attempts' \in [Keys -> Attempt]
  BY <1>2, <1>4
<1>6. /\ attempts'[k].status = "STARTED" /\ attempts'[k].asOf = attempts[k].asOf
      /\ attempts'[k].cursor = After(p)
      /\ \A j \in Keys : j # k => attempts'[j] = attempts[j]
  BY <1>2, <1>4 DEF Attempt
<1>7. Merged(facts[p], seen) \in Nat /\ Merged(facts[p], seen) >= facts[p]
      /\ Merged(facts[p], seen) >= seen
  BY <1>2 DEF Merged
<1>8. facts' \in [Pages -> Nat] /\ facts'[p] = Merged(facts[p], seen)
      /\ \A q \in Pages : q # p => facts'[q] = facts[q]
  BY <1>1, <1>2, <1>7
<1>9. Shaped'
  <2>1. \A j \in Keys : attempts'[j].status = "NONE" => attempts'[j].cursor = None
    BY <1>2, <1>6 DEF Shaped
  <2>2. QED
    BY <1>2, <1>5, <1>8, <2>1 DEF Shaped, access
<1>10. Forward
  <2>1. \A q \in Pages : facts'[q] >= facts[q] /\ bank'.facts[q] >= bank.facts[q]
    <3>1. \A q \in Pages : facts[q] \in Nat /\ bank.facts[q] \in Nat
      BY <1>2 DEF Shaped
    <3>2. QED
      BY <1>7, <1>8, <3>1
  <2>2. \A j \in Keys : Begun(j) => Begun(j)' /\ attempts'[j].asOf = attempts[j].asOf
    BY <1>6 DEF Begun
  <2>3. QED
    BY <2>1, <2>2 DEF Forward
<1>11. Covered(k, p + 1)'
  <2>1. SUFFICES ASSUME NEW q \in Pages, q < p + 1 PROVE facts'[q] >= attempts'[k].asOf[q]
    BY DEF Covered
  <2>2. CASE q = p
    <3>1. facts'[p] \in Nat /\ facts'[p] >= seen
      BY <1>7, <1>8
    <3>2. QED
      BY <1>2, <1>6, <2>2, <3>1
  <2>3. CASE q # p
    <3>1. q < p
      BY <2>1, <2>3, PagesAreCounted DEF Pages
    <3>2. QED
      BY <1>6, <1>8, <2>3, <3>1 DEF Covered
  <2>4. QED
    BY <2>2, <2>3
<1>12. Covered(k, Checkpoint(k))'
  <2>1. CASE After(p) = None
    <3>1. \A q \in Pages : ~(q < 1)
      BY PagesAreCounted DEF Pages
    <3>2. Checkpoint(k)' = 1
      BY <1>6, <2>1 DEF Checkpoint
    <3>3. QED
      BY <3>1, <3>2 DEF Covered
  <2>2. CASE After(p) # None
    <3>1. Checkpoint(k)' = p + 1
      BY <1>3, <1>6, <2>2 DEF Checkpoint
    <3>2. QED
      BY <1>11, <3>1 DEF Covered
  <2>3. QED
    BY <2>1, <2>2
<1>13. QED
  BY <1>6, <1>9, <1>10, <1>11, <1>12 DEF Begun

LEMMA ApplyKeeps ==
  ASSUME NEW c \in Callers, CollectInv, ApplyPage(c)
  PROVE  CollectInv'
<1>1. UNCHANGED <<access, coverage, bank>> /\ At(c, "apply")
  BY DEF ApplyPage
<1>2. PICK k, p, seen, s :
        k = calls[c].key /\ p = calls[c].page /\ seen = calls[c].seen /\ s = calls[c].session
  OBVIOUS
<1>3. /\ Begun(k) /\ k \in Keys /\ p \in Pages /\ Covered(k, p)
      /\ seen \in Nat /\ seen >= attempts[k].asOf[p]
  BY <1>1, <1>2 DEF CollectInv, CallCovers, At, Begun
<1> DEFINE fault == [next |-> "fault", key |-> k]
           done == [next |-> "complete", key |-> k]
           fetch == [next |-> "fetch", key |-> k, session |-> s, page |-> After(p)]
<1>4. \/ /\ attempts[k].status = "STARTED" /\ Apply(k, p, seen)
         /\ Goes(c, fault) \/ Goes(c, IF p = LastPage THEN done ELSE fetch)
      \/ UNCHANGED <<attempts, facts>> /\ Goes(c, fault)
  BY <1>2 DEF ApplyPage
<1>5. calls' = [d \in Callers |-> calls'[d]]
  BY <1>4 DEF Goes, CollectInv, Shaped
<1>6. CASE attempts[k].status = "STARTED" /\ Apply(k, p, seen)
  <2>1. /\ Shaped' /\ Forward /\ Covered(k, p + 1)'
        /\ \A j \in Keys : Begun(j)' => Begun(j)
        /\ \A j \in Keys : attempts'[j].status = "STARTED" =>
             attempts'[j] = attempts[j] \/ Covered(j, Checkpoint(j))'
    BY <1>1, <1>3, <1>5, <1>6, AppliedPage
  <2>2. Begun(k)'
    BY <1>3, <2>1 DEF Forward
  <2>3. CallCovers(fault)'
    BY <2>2 DEF CallCovers
  <2>4. ASSUME p = LastPage PROVE CallCovers(done)'
    BY <2>1, <2>2, <2>4 DEF CallCovers
  <2>5. ASSUME p # LastPage PROVE CallCovers(fetch)'
    <3>1. After(p) = p + 1 /\ p + 1 \in Pages
      BY <1>3, <2>5, PagesAreCounted DEF After, Pages
    <3>2. QED
      BY <2>1, <2>2, <3>1 DEF CallCovers, Covered
  <2>6. PICK x : Goes(c, x) /\ CallCovers(x)'
    BY <1>4, <1>6, <2>3, <2>4, <2>5
  <2>7. QED
    BY <1>1, <2>1, <2>6, CollectKept
<1>7. CASE UNCHANGED <<attempts, facts>> /\ Goes(c, fault)
  <2>1. Shaped'
    BY <1>1, <1>5, <1>7 DEF CollectInv, Shaped, access
  <2>2. Forward
    BY <1>1, <1>7, StillForward DEF CollectInv
  <2>3. PICK x : x = fault
    OBVIOUS
  <2>4. CallCovers(x)'
    BY <1>3, <1>7, <2>3 DEF CallCovers, Begun
  <2>5. QED
    BY <1>1, <1>7, <2>1, <2>2, <2>3, <2>4, CollectKept DEF Begun
<1>8. QED
  BY <1>4, <1>6, <1>7

-----------------------------------------------------------------------------
LEMMA CollectStep == CollectInv /\ [BankNext]_bankVars => CollectInv'
<1> SUFFICES ASSUME CollectInv, [BankNext]_bankVars PROVE CollectInv'
  OBVIOUS
<1>1. ASSUME NEW c \in Callers, Start(c) \/ Complete(c) \/ Revoke(c) \/ Die(c)
      PROVE  CollectInv'
  BY <1>1, AsideKeeps DEF Aside
<1>2. ASSUME NEW c \in Callers, NEW k \in Keys, PrepareSync(c, k) PROVE CollectInv'
  BY <1>2, PrepareKeeps
<1>3. ASSUME NEW c \in Callers, FetchPage(c) PROVE CollectInv'
  BY <1>3, FetchKeeps
<1>4. ASSUME NEW c \in Callers, ApplyPage(c) PROVE CollectInv'
  BY <1>4, ApplyKeeps
<1>5. ASSUME NEW c \in Callers, CompleteSync(c) PROVE CollectInv'
  <2>1. PICK k : k = calls[c].key
    OBVIOUS
  <2>2. k \in Keys /\ Begun(k) /\ Covered(k, LastPage + 1)
    BY <1>5, <2>1 DEF CompleteSync, CollectInv, CallCovers, At, Begun
  <2>3. Decides(k, "SUCCEEDED", "COMPLETE") /\ Ends(c) /\ UNCHANGED <<access, facts, bank>>
    BY <1>5, <2>1 DEF CompleteSync
  <2>4. QED
    BY <2>2, <2>3, DecidesKeeps
<1>6. ASSUME NEW c \in Callers, FailSync(c) PROVE CollectInv'
  <2>1. PICK k : k = calls[c].key
    OBVIOUS
  <2>2. k \in Keys /\ Begun(k)
    BY <1>6, <2>1 DEF FailSync, CollectInv, CallCovers, At, Begun
  <2>3. Decides(k, "FAILED", "GAP") /\ Ends(c) /\ UNCHANGED <<access, facts, bank>>
    BY <1>6, <2>1 DEF FailSync
  <2>4. QED
    BY <2>2, <2>3, DecidesKeeps
<1>7. ASSUME NEW p \in Pages, BankBooks(p) PROVE CollectInv'
  BY <1>7, BooksKeeps
<1>8. CASE UNCHANGED bankVars
  BY <1>8 DEF bankVars, CollectInv, Shaped, Covered, Begun, CallCovers, Checkpoint
<1>9. QED
  BY <1>1, <1>2, <1>3, <1>4, <1>5, <1>6, <1>7, <1>8 DEF BankNext, Sync

LEMMA CollectInit == BankInit => CollectInv
<1> SUFFICES ASSUME BankInit PROVE CollectInv
  OBVIOUS
<1>1. \A k \in Keys : attempts[k] = NoAttempt
  BY DEF BankInit
<1>2. NoAttempt \in Attempt /\ NoAttempt.status = "NONE" /\ NoAttempt.cursor = None
  BY DEF NoAttempt, Attempt, None
<1>3. Shaped
  <2>1. attempts \in [Keys -> Attempt]
    BY <1>2 DEF BankInit
  <2>2. facts \in [Pages -> Nat] /\ bank.facts \in [Pages -> Nat]
    BY DEF BankInit, None, Pending
  <2>3. QED
    BY <1>1, <1>2, <2>1, <2>2 DEF BankInit, Shaped
<1>4. QED
  BY <1>1, <1>2, <1>3 DEF BankInit, CollectInv, Begun

(***************************************************************************)
(* What counts as completely collected was collected: an interval recorded  *)
(* COMPLETE holds every fact as the bank had it when the attempt was made.  *)
(***************************************************************************)
THEOREM WholeIntervals == BankSpec => []CompleteIsWhole
<1>1. CollectInv => CompleteIsWhole
  <2>1. \A p \in Pages : p < LastPage + 1
    BY PagesAreCounted DEF Pages
  <2>2. QED
    BY <2>1 DEF CollectInv, CompleteIsWhole, Covered
<1>2. QED
  BY <1>1, CollectInit, CollectStep, PTL DEF BankSpec

-----------------------------------------------------------------------------
(* Verdicts. *)

\* A step that gives no verdict leaves every attempt decided as it was.
LEMMA NoVerdict ==
  ASSUME DecidedOnce, coverage' = coverage,
         \A k \in Keys : \/ attempts'[k].status = attempts[k].status
                         \/ {attempts[k].status, attempts'[k].status} \subseteq {"NONE", "STARTED"}
  PROVE  DecidedOnce'
BY DEF DecidedOnce

LEMMA OneVerdict ==
  ASSUME DecidedOnce, attempts \in [Keys -> Attempt], NEW k \in Keys,
         NEW status, NEW completeness, Decides(k, status, completeness),
         \/ status = "SUCCEEDED" /\ completeness = "COMPLETE"
         \/ status = "FAILED" /\ completeness = "GAP"
  PROVE  DecidedOnce'
<1>1. CASE attempts[k].status = "STARTED"
  <2>1. coverage' = coverage \cup {<<k, completeness>>}
    BY <1>1 DEF Decides
  <2>2. attempts'[k].status = status /\ \A j \in Keys : j # k => attempts'[j] = attempts[j]
    BY <1>1 DEF Decides, Attempt
  <2>3. <<k, "COMPLETE">> \notin coverage /\ <<k, "GAP">> \notin coverage
    BY <1>1 DEF DecidedOnce
  <2>4. ASSUME NEW j \in Keys, j # k
        PROVE  \A x \in {"COMPLETE", "GAP"} : <<j, x>> \in coverage' <=> <<j, x>> \in coverage
    BY <2>1, <2>4
  <2>5. \A x \in {"COMPLETE", "GAP"} : <<k, x>> \in coverage' <=> x = completeness
    BY <2>1, <2>3
  <2>6. QED
    BY <2>2, <2>4, <2>5 DEF DecidedOnce
<1>2. CASE attempts[k].status # "STARTED"
  BY <1>2, NoVerdict DEF Decides
<1>3. QED
  BY <1>1, <1>2

LEMMA DecidedStep == CollectInv /\ DecidedOnce /\ [BankNext]_bankVars => DecidedOnce'
<1> SUFFICES ASSUME CollectInv, DecidedOnce, [BankNext]_bankVars PROVE DecidedOnce'
  OBVIOUS
<1>1. Shaped /\ attempts \in [Keys -> Attempt]
  BY DEF CollectInv, Shaped
<1>2. ASSUME NEW c \in Callers, Start(c) \/ Complete(c) \/ Revoke(c) \/ Die(c)
      PROVE  DecidedOnce'
  BY <1>1, <1>2, AsideStep, NoVerdict DEF Aside, collected
<1>3. ASSUME NEW c \in Callers, NEW k \in Keys, PrepareSync(c, k) PROVE DecidedOnce'
  <2>1. /\ coverage' = coverage
        /\ attempts' = attempts \/ (attempts[k].status = "NONE" /\
             attempts' = [attempts EXCEPT ![k] = [status |-> "STARTED", cursor |-> None,
                                                  asOf |-> bank.facts]])
    BY <1>3 DEF PrepareSync
  <2>2. QED
    BY <1>1, <2>1, NoVerdict
<1>4. ASSUME NEW c \in Callers, FetchPage(c) PROVE DecidedOnce'
  BY <1>4, NoVerdict DEF FetchPage, collected
<1>5. ASSUME NEW c \in Callers, ApplyPage(c) PROVE DecidedOnce'
  <2>1. PICK k : k = calls[c].key
    OBVIOUS
  <2>2. /\ coverage' = coverage
        /\ \/ attempts' = attempts
           \/ \E q : attempts' = [attempts EXCEPT ![k].cursor = q]
    BY <1>5, <2>1 DEF ApplyPage, Apply
  <2>3. \A j \in Keys : attempts'[j].status = attempts[j].status
    BY <1>1, <2>2 DEF Attempt
  <2>4. QED
    BY <2>2, <2>3, NoVerdict
<1>6. ASSUME NEW c \in Callers, CompleteSync(c) \/ FailSync(c) PROVE DecidedOnce'
  <2>1. PICK k : k = calls[c].key
    OBVIOUS
  <2>2. k \in Keys
    BY <1>6, <2>1 DEF CompleteSync, FailSync, CollectInv, CallCovers, At, Begun
  <2>3. Decides(k, "SUCCEEDED", "COMPLETE") \/ Decides(k, "FAILED", "GAP")
    BY <1>6, <2>1 DEF CompleteSync, FailSync
  <2>4. QED
    BY <1>1, <2>2, <2>3, OneVerdict
<1>7. ASSUME NEW p \in Pages, BankBooks(p) PROVE DecidedOnce'
  BY <1>7, NoVerdict DEF BankBooks, collected
<1>8. CASE UNCHANGED bankVars
  BY <1>8, NoVerdict DEF bankVars
<1>9. QED
  BY <1>2, <1>3, <1>4, <1>5, <1>6, <1>7, <1>8 DEF BankNext, Sync

(***************************************************************************)
(* A synchronisation is decided once, however many callers work on it.      *)
(***************************************************************************)
THEOREM OneDecision == BankSpec => []DecidedOnce
<1>1. BankInit => DecidedOnce
  BY DEF BankInit, DecidedOnce, NoAttempt
<1>2. QED
  BY <1>1, CollectInit, CollectStep, DecidedStep, PTL DEF BankSpec

-----------------------------------------------------------------------------
(* Consents. *)

Revoking == connection.status = "REVOKING"

CallConsents(call) ==
  /\ call.next = "exchange" => call.consent \in Consents
  /\ call.next = "activate" => call.consent \in bank.spent
  /\ call.next = "revoke" => Over /\ (Revoking => call.session = connection.session)
  /\ call.next = "revoked" => Over /\ (Revoking => connection.session \notin bank.alive)

\* A session is opened once, and who revokes names the session that is kept.
ConsentInv ==
  /\ bank.alive \subseteq bank.spent /\ bank.spent \subseteq Consents
  /\ connection.status \in {"ACTIVE", "REVOKING"} => connection.session \in bank.spent
  /\ connection.status = "REVOKED" => connection.session = None
  /\ \A c \in Callers : calls[c] # Idle => CallConsents(calls[c])

\* What every step does to a connection that is over, and to the sessions.
Steady ==
  /\ bank.spent \subseteq bank'.spent
  /\ Over => Over'
  /\ Over /\ Revoking' =>
       /\ Revoking /\ connection'.session = connection.session
       /\ connection.session \notin bank.alive => connection.session \notin bank'.alive

LEMMA ConsentsKept ==
  ASSUME ConsentInv, Shaped, Steady, NEW c \in Callers, NEW call,
         Goes(c, call), call # Idle => CallConsents(call)',
         bank'.alive \subseteq bank'.spent, bank'.spent \subseteq Consents,
         connection'.status \in {"ACTIVE", "REVOKING"} => connection'.session \in bank'.spent,
         connection'.status = "REVOKED" => connection'.session = None
  PROVE  ConsentInv'
<1>1. ASSUME NEW d \in Callers, calls'[d] # Idle PROVE CallConsents(calls[d])'
  <2>1. CASE d = c
    BY <1>1, <2>1 DEF Goes, Shaped
  <2>2. CASE d # c
    <3>1. PICK x : x = calls[d]
      OBVIOUS
    <3>2. calls'[d] = x /\ CallConsents(x)
      BY <1>1, <2>2, <3>1 DEF Goes, Shaped, ConsentInv
    <3>3. CallConsents(x)'
      BY <3>2 DEF CallConsents, Steady
    <3>4. QED
      BY <3>2, <3>3
  <2>3. QED
    BY <2>1, <2>2
<1>2. QED
  BY <1>1 DEF ConsentInv

\* A step that leaves the connection and the sessions alone.
LEMMA ConsentsStill ==
  ASSUME ConsentInv, Shaped, connection' = connection,
         bank'.alive = bank.alive, bank'.spent = bank.spent, NEW c \in Callers, NEW call,
         Goes(c, call), call # Idle => CallConsents(call)
  PROVE  ConsentInv' /\ Steady
<1>1. Steady
  BY DEF Steady, Over, Revoking
<1>2. call # Idle => CallConsents(call)'
  BY DEF CallConsents, Over, Revoking
<1>3. QED
  BY <1>1, <1>2, ConsentsKept DEF ConsentInv

LEMMA StartConsents ==
  ASSUME NEW c \in Callers, ConsentInv, Shaped, Start(c)
  PROVE  ConsentInv' /\ Steady
<1>1. CASE BeginConnection(c)
  <2>1. CASE connection.status = "NONE"
    <3>1. connection'.status = "CONSENT_PENDING" /\ bank' = bank
      BY <1>1, <2>1 DEF BeginConnection, Shaped
    <3>2. Steady
      BY <2>1, <3>1 DEF Steady, Over, Revoking
    <3>3. PICK x : x = [next |-> "begin"] /\ Goes(c, x)
      BY <1>1 DEF BeginConnection
    <3>4. CallConsents(x)'
      BY <3>3 DEF CallConsents
    <3>5. QED
      BY <3>1, <3>2, <3>3, <3>4, ConsentsKept DEF ConsentInv
  <2>2. CASE connection.status # "NONE"
    <3>1. connection' = connection /\ bank' = bank
      BY <1>1, <2>2 DEF BeginConnection
    <3>2. PICK x : x = [next |-> "begin"] /\ Goes(c, x)
      BY <1>1 DEF BeginConnection
    <3>3. CallConsents(x)
      BY <3>2 DEF CallConsents
    <3>4. QED
      BY <3>1, <3>2, <3>3, ConsentsStill
  <2>3. QED
    BY <2>1, <2>2
<1>2. CASE BeginConsent(c)
  <2>1. connection' = connection /\ bank'.alive = bank.alive /\ bank'.spent = bank.spent
    BY <1>2 DEF BeginConsent, access, Shaped
  <2>2. PICK x : Goes(c, x) /\ x.next \in {"redirect", "fail"}
    BY <1>2 DEF BeginConsent
  <2>3. CallConsents(x)
    BY <2>2 DEF CallConsents
  <2>4. QED
    BY <2>1, <2>2, <2>3, ConsentsStill
<1>3. CASE RecordRedirect(c)
  <2>1. /\ connection'.status = connection.status /\ connection'.session = connection.session
        /\ bank' = bank /\ Goes(c, Idle)
    BY <1>3 DEF RecordRedirect, Ends, Shaped
  <2>2. Steady
    BY <2>1 DEF Steady, Over, Revoking
  <2>3. QED
    BY <2>1, <2>2, ConsentsKept DEF ConsentInv
<1>4. CASE FailConnection(c)
  <2>1. connection'.status = "FAILED" /\ bank' = bank /\ Goes(c, Idle)
    BY <1>4 DEF FailConnection, Ends, Shaped
  <2>2. Steady
    BY <2>1 DEF Steady, Over, Revoking
  <2>3. QED
    BY <2>1, <2>2, ConsentsKept DEF ConsentInv
<1>5. QED
  BY <1>1, <1>2, <1>3, <1>4 DEF Start

LEMMA CompleteConsents ==
  ASSUME NEW c \in Callers, ConsentInv, Shaped, Complete(c)
  PROVE  ConsentInv' /\ Steady
<1>1. ASSUME NEW n \in Consents, Callback(c, n) PROVE ConsentInv' /\ Steady
  <2>1. connection' = connection /\ bank' = bank
    BY <1>1 DEF Callback, access
  <2>2. PICK x : x = [next |-> "exchange", consent |-> n] /\ Goes(c, x)
    BY <1>1 DEF Callback
  <2>3. CallConsents(x)
    BY <2>2 DEF CallConsents
  <2>4. QED
    BY <2>1, <2>2, <2>3, ConsentsStill
<1>2. CASE ExchangeCode(c)
  <2>1. PICK n : n = calls[c].consent
    OBVIOUS
  <2>2. n \in Consents /\ connection' = connection
    BY <1>2, <2>1 DEF ExchangeCode, At, ConsentInv, CallConsents, access
  <2>3. CASE /\ n \notin bank.spent
             /\ bank' = [bank EXCEPT !.spent = @ \cup {n}, !.alive = @ \cup {n}]
             /\ \E next \in {"activate", "fail"} : Goes(c, [next |-> next, consent |-> n])
    <3>1. bank'.spent = bank.spent \cup {n} /\ bank'.alive = bank.alive \cup {n}
      BY <2>3 DEF Shaped
    <3>2. Steady
      BY <2>2, <2>3, <3>1 DEF Steady, Over, Revoking, ConsentInv
    <3>3. PICK x : Goes(c, x) /\ x.next \in {"activate", "fail"} /\ x.consent = n
      BY <2>3
    <3>4. CallConsents(x)'
      BY <3>1, <3>3 DEF CallConsents
    <3>5. QED
      BY <2>2, <3>1, <3>2, <3>3, <3>4, ConsentsKept DEF ConsentInv
  <2>4. CASE bank' = bank
    <3>1. PICK x : /\ Goes(c, x)
                   /\ \/ x.next = "activate" /\ x.consent = n /\ n \in bank.spent
                      \/ x.next = "fail"
      <4>1. CASE Goes(c, [next |-> "fail"])
        BY <4>1
      <4>2. CASE n \in bank.alive /\ Goes(c, [next |-> "activate", consent |-> n])
        BY <4>2 DEF ConsentInv
      <4>3. n \notin bank.spent => bank' # [bank EXCEPT !.spent = @ \cup {n}, !.alive = @ \cup {n}]
        BY <2>4 DEF Shaped
      <4>4. QED
        BY <1>2, <2>1, <4>1, <4>2, <4>3 DEF ExchangeCode
    <3>2. CallConsents(x)
      BY <3>1 DEF CallConsents
    <3>3. QED
      BY <2>2, <2>4, <3>1, <3>2, ConsentsStill
  <2>5. QED
    BY <1>2, <2>1, <2>3, <2>4 DEF ExchangeCode
<1>3. CASE CompleteConnection(c)
  <2>1. Goes(c, Idle) /\ bank' = bank /\ calls[c].consent \in bank.spent
    BY <1>3 DEF CompleteConnection, Ends, At, ConsentInv, CallConsents
  <2>2. CASE Completable
    <3>1. connection'.status = "ACTIVE" /\ connection'.session = calls[c].consent
      BY <1>3, <2>2 DEF CompleteConnection, Shaped
    <3>2. Steady
      BY <2>1, <2>2, <3>1 DEF Steady, Over, Revoking, Completable
    <3>3. QED
      BY <2>1, <3>1, <3>2, ConsentsKept DEF ConsentInv
  <2>3. CASE ~Completable
    <3>1. connection' = connection
      BY <1>3, <2>3 DEF CompleteConnection
    <3>2. QED
      BY <2>1, <3>1, ConsentsStill
  <2>4. QED
    BY <2>2, <2>3
<1>4. QED
  BY <1>1, <1>2, <1>3 DEF Complete

LEMMA RevokeConsents ==
  ASSUME NEW c \in Callers, ConsentInv, Shaped, Revoke(c)
  PROVE  ConsentInv' /\ Steady
<1>1. CASE BeginRevocation(c)
  <2>1. /\ connection.status = "ACTIVE" /\ connection'.status = "REVOKING"
        /\ connection'.session = connection.session /\ bank' = bank
    BY <1>1 DEF BeginRevocation, Shaped
  <2>2. Steady
    BY <2>1 DEF Steady, Over, Revoking
  <2>3. PICK x : x = [next |-> "revoke", session |-> connection.session] /\ Goes(c, x)
    BY <1>1 DEF BeginRevocation
  <2>4. CallConsents(x)'
    BY <2>1, <2>3 DEF CallConsents, Over, Revoking
  <2>5. QED
    BY <2>1, <2>2, <2>3, <2>4, ConsentsKept DEF ConsentInv
<1>2. CASE RevokeConsent(c)
  <2>1. connection' = connection /\ Over /\ (Revoking => calls[c].session = connection.session)
    BY <1>2 DEF RevokeConsent, At, ConsentInv, CallConsents, access
  <2>2. bank' = bank \/ bank' = [bank EXCEPT !.alive = @ \ {calls[c].session}]
    BY <1>2 DEF RevokeConsent
  <2>3. bank'.spent = bank.spent /\ bank'.alive \subseteq bank.alive
    BY <2>2 DEF Shaped
  <2>4. Steady
    BY <2>1, <2>3 DEF Steady, Over, Revoking
  <2>5. PICK x : /\ Goes(c, x)
                 /\ \/ x = Idle
                    \/ /\ x = [next |-> "revoked"]
                       /\ bank' = [bank EXCEPT !.alive = @ \ {calls[c].session}]
    BY <1>2 DEF RevokeConsent, Ends
  <2>6. x # Idle => CallConsents(x)'
    <3>1. SUFFICES ASSUME x # Idle PROVE CallConsents(x)'
      OBVIOUS
    <3>2. x.next = "revoked" /\ calls[c].session \notin bank'.alive
      BY <2>5, <3>1 DEF Shaped
    <3>3. QED
      BY <2>1, <3>2 DEF CallConsents, Over, Revoking
  <2>7. QED
    BY <2>1, <2>3, <2>4, <2>5, <2>6, ConsentsKept DEF ConsentInv
<1>3. CASE CompleteRevocation(c)
  <2>1. Goes(c, Idle) /\ bank' = bank
    BY <1>3 DEF CompleteRevocation, Ends
  <2>2. CASE Revoking
    <3>1. connection'.status = "REVOKED" /\ connection'.session = None
      BY <1>3, <2>2 DEF CompleteRevocation, Revoking
    <3>2. Steady
      BY <2>1, <3>1 DEF Steady, Over, Revoking
    <3>3. QED
      BY <2>1, <3>1, <3>2, ConsentsKept DEF ConsentInv
  <2>3. CASE ~Revoking
    <3>1. connection' = connection
      BY <1>3, <2>3 DEF CompleteRevocation, Revoking
    <3>2. QED
      BY <2>1, <3>1, ConsentsStill
  <2>4. QED
    BY <2>2, <2>3
<1>4. QED
  BY <1>1, <1>2, <1>3 DEF Revoke

LEMMA SyncConsents ==
  ASSUME NEW c \in Callers, ConsentInv, Shaped, Sync(c) \/ Die(c)
  PROVE  ConsentInv' /\ Steady
<1>1. connection' = connection /\ bank' = bank
  BY DEF Sync, PrepareSync, FetchPage, ApplyPage, CompleteSync, FailSync, Die, access
<1>2. PICK call : /\ Goes(c, call)
                  /\ call # Idle => call.next \in {"fetch", "apply", "complete", "fault"}
  <2>1. CASE \E k \in Keys : PrepareSync(c, k)
    BY <2>1 DEF PrepareSync
  <2>2. CASE FetchPage(c)
    BY <2>2 DEF FetchPage
  <2>3. CASE ApplyPage(c)
    BY <2>3 DEF ApplyPage
  <2>4. CASE CompleteSync(c) \/ FailSync(c) \/ Die(c)
    BY <2>4 DEF CompleteSync, FailSync, Die, Ends
  <2>5. QED
    BY <2>1, <2>2, <2>3, <2>4 DEF Sync
<1>3. call # Idle => CallConsents(call)
  BY <1>2 DEF CallConsents
<1>4. QED
  BY <1>1, <1>2, <1>3, ConsentsStill

\* A step outside the consent and the revocation of the connection.
LEMMA OtherConsents ==
  ASSUME ConsentInv, connection' = connection, calls' = calls,
         bank'.alive = bank.alive, bank'.spent = bank.spent
  PROVE  ConsentInv' /\ Steady
BY DEF ConsentInv, Steady, CallConsents, Over, Revoking

LEMMA ConsentStep ==
  ASSUME CollectInv, ConsentInv, [BankNext]_bankVars
  PROVE  ConsentInv' /\ Steady
<1>1. Shaped
  BY DEF CollectInv
<1>2. ASSUME NEW c \in Callers, Start(c) \/ Complete(c) \/ Revoke(c) \/ Sync(c) \/ Die(c)
      PROVE  ConsentInv' /\ Steady
  BY <1>1, <1>2, StartConsents, CompleteConsents, RevokeConsents, SyncConsents
<1>3. ASSUME NEW p \in Pages, BankBooks(p) PROVE ConsentInv' /\ Steady
  BY <1>1, <1>3, OtherConsents DEF BankBooks, access, Shaped
<1>4. CASE UNCHANGED bankVars
  BY <1>4, OtherConsents DEF bankVars
<1>5. QED
  BY <1>2, <1>3, <1>4 DEF BankNext

\* Nothing is begun for a connection that is over.
LEMMA NothingNew ==
  ASSUME CollectInv, [BankNext]_bankVars, Over, NEW k \in Keys, attempts[k].status = "NONE"
  PROVE  attempts'[k].status = "NONE"
<1>1. Shaped /\ attempts \in [Keys -> Attempt]
  BY DEF CollectInv, Shaped
<1>2. ASSUME NEW c \in Callers, Start(c) \/ Complete(c) \/ Revoke(c) \/ Die(c)
      PROVE  attempts' = attempts
  BY <1>1, <1>2, AsideStep DEF Aside, collected
<1>3. ASSUME NEW c \in Callers, NEW j \in Keys, PrepareSync(c, j) PROVE FALSE
  BY <1>3 DEF PrepareSync, Over
<1>4. ASSUME NEW c \in Callers, ApplyPage(c) PROVE attempts'[k].status = "NONE"
  <2>1. attempts' = attempts \/ \E j, q : attempts' = [attempts EXCEPT ![j].cursor = q]
    BY <1>4 DEF ApplyPage, Apply
  <2>2. QED
    BY <1>1, <2>1 DEF Attempt
<1>5. ASSUME NEW c \in Callers, CompleteSync(c) \/ FailSync(c)
      PROVE  attempts'[k].status = "NONE"
  <2>1. PICK j, status, completeness :
          j = calls[c].key /\ Decides(j, status, completeness)
    BY <1>5 DEF CompleteSync, FailSync
  <2>2. attempts' = attempts \/ (j # k /\ attempts[j].status = "STARTED" /\
          attempts' = [attempts EXCEPT ![j].status = status, ![j].cursor = None])
    BY <2>1 DEF Decides
  <2>3. QED
    BY <1>1, <2>2
<1>6. ASSUME NEW c \in Callers, FetchPage(c) PROVE attempts' = attempts
  BY <1>6 DEF FetchPage, collected
<1>7. ASSUME NEW p \in Pages, BankBooks(p) PROVE attempts' = attempts
  BY <1>7 DEF BankBooks, collected
<1>8. CASE UNCHANGED bankVars
  BY <1>8 DEF bankVars
<1>9. QED
  BY <1>2, <1>3, <1>4, <1>5, <1>6, <1>7, <1>8 DEF BankNext, Sync

\* Only who closed the session that is kept calls the connection revoked.
LEMMA RevokedClosed ==
  ASSUME CollectInv, ConsentInv, [BankNext]_bankVars, connection'.status = "REVOKED"
  PROVE  connection.session \notin bank.alive
<1>1. Shaped /\ None \notin bank.alive
  BY DEF CollectInv, ConsentInv, Consents, None
<1>2. CASE connection.status = "REVOKED"
  BY <1>1, <1>2 DEF ConsentInv
<1>3. CASE connection.status # "REVOKED"
  <2>1. PICK c \in Callers : CompleteRevocation(c)
    <3>1. ASSUME NEW c \in Callers, Start(c) PROVE FALSE
      BY <1>1, <1>3, <3>1
         DEF Start, BeginConnection, BeginConsent, RecordRedirect, FailConnection, Shaped, access
    <3>2. ASSUME NEW c \in Callers, Complete(c) PROVE FALSE
      BY <1>1, <1>3, <3>2
         DEF Complete, Callback, ExchangeCode, CompleteConnection, Shaped, access
    <3>3. ASSUME NEW c \in Callers, BeginRevocation(c) \/ RevokeConsent(c) PROVE FALSE
      BY <1>1, <1>3, <3>3 DEF BeginRevocation, RevokeConsent, Shaped, access
    <3>4. ASSUME NEW c \in Callers, Sync(c) \/ Die(c) PROVE FALSE
      BY <1>3, <3>4
         DEF Sync, PrepareSync, FetchPage, ApplyPage, CompleteSync, FailSync, Die, access
    <3>5. ASSUME NEW p \in Pages, BankBooks(p) PROVE FALSE
      BY <1>3, <3>5 DEF BankBooks, access
    <3>6. connection' # connection
      BY <1>3
    <3>7. QED
      BY <3>1, <3>2, <3>3, <3>4, <3>5, <3>6 DEF BankNext, Revoke, bankVars
  <2>2. Revoking /\ calls[c] # Idle /\ calls[c].next = "revoked"
    BY <1>3, <2>1 DEF CompleteRevocation, At, Revoking
  <2>3. QED
    BY <2>2 DEF ConsentInv, CallConsents
<1>4. QED
  BY <1>2, <1>3

(***************************************************************************)
(* A connection that is over collects nothing anew and never works again,   *)
(* and the one that is called revoked has no session left at the bank.      *)
(***************************************************************************)
THEOREM RevocationKept == BankSpec => RevocationHolds
<1>1. BankInit => ConsentInv
  BY DEF BankInit, ConsentInv
<1>2. CollectInv /\ ConsentInv /\ [BankNext]_bankVars => ConsentInv'
  BY ConsentStep
<1>3. CollectInv /\ ConsentInv /\ [BankNext]_bankVars =>
        [/\ Over => Over' /\ \A k \in Keys : attempts[k].status = "NONE" => attempts'[k].status = "NONE"
         /\ connection'.status = "REVOKED" => connection.session \notin bank.alive]_bankVars
  BY ConsentStep, NothingNew, RevokedClosed DEF Steady
<1>4. QED
  BY <1>1, <1>2, <1>3, CollectInit, CollectStep, PTL DEF BankSpec, RevocationHolds
=============================================================================
