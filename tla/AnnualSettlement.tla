---------------------------- MODULE AnnualSettlement ----------------------------
(***************************************************************************)
(* The pure settlement policy of the annual purchase: how one provider     *)
(* observation changes the recorded checkout, and the two rules PostgreSQL *)
(* puts around every such write (the table's CHECK constraints and the     *)
(* immutable-evidence trigger).                                            *)
(*                                                                         *)
(* A row joins the purchase row with its checkout operation, as _checkout  *)
(* reads them under one lock.  Money is counted in units of which Gross    *)
(* make the price, so that a capture or a refund may be partial.           *)
(* captured_at is not kept: the adapter reports the first capture of the   *)
(* charge, so it is set exactly when captured > 0 and never moves.  The    *)
(* observation of the operation is not kept apart either: _checkout        *)
(* overlays its money and agreement with the purchase's, which leaves its  *)
(* status, and that is the status of the operation row.                    *)
(***************************************************************************)
EXTENDS Naturals

CONSTANTS Gross,    \* the price, in the units money is counted in
          Years,    \* the company-years on sale
          NoYear    \* no company-year

ASSUME GrossAssumption == Gross \in Nat \ {0}
ASSUME NoYearAssumption == NoYear \notin Years

Money == 0 .. Gross

PurchaseStatus == {"pending", "paid", "failed", "refunded"}
TerminalStatus == {"paid", "failed", "refunded"}
OccupyingStatus == {"pending", "paid"}
ProviderStatus == {"pending", "unknown", "confirmed", "failed"}
UnresolvedStatus == {"created", "pending", "unknown"}

Row == [year : Years \cup {NoYear},
        status : PurchaseStatus \cup {"none"},
        op : ProviderStatus \cup {"none", "created"},
        agreement : BOOLEAN,
        captured : Money,
        refunded : Money,
        canceled : BOOLEAN]

\* A key under which nothing has been bought.
NoRow == [year |-> NoYear, status |-> "none", op |-> "none", agreement |-> FALSE,
          captured |-> 0, refunded |-> 0, canceled |-> FALSE]

\* The purchase and its checkout operation as claim_checkout inserts them.
ClaimedRow(y) == [year |-> y, status |-> "pending", op |-> "created", agreement |-> FALSE,
                  captured |-> 0, refunded |-> 0, canceled |-> FALSE]

Observation == [status : ProviderStatus, agreement : BOOLEAN, captured : Money, refunded : Money]

\* An answer that says nothing new: UNKNOWN with the totals already known.
UnknownObservation(row) ==
    [status |-> "unknown", agreement |-> row.agreement,
     captured |-> row.captured, refunded |-> row.refunded]

ValidObservation(obs) ==
    /\ obs.refunded <= obs.captured
    /\ obs.captured > 0 => obs.agreement
    /\ obs.status = "confirmed" => obs.captured = Gross
    /\ obs.status = "failed" => obs.captured = 0

\* Mutant: late reads are not told apart from current ones.
NeverObsolete(row, obs) == FALSE

\* A valid read that a later locked observation has overtaken.
Obsolete(row, obs) ==
    /\ row.op # "created"
    /\ \/ obs.captured < row.captured
       \/ obs.refunded < row.refunded
       \/ row.agreement /\ ~obs.agreement

\* Mutant: any captured money counts as the payment.
OutcomeOfAnyCapture(obs) ==
    CASE obs.status = "failed" -> "failed"
      [] obs.captured > 0 -> IF obs.refunded = Gross THEN "refunded" ELSE "paid"
      [] OTHER -> "pending"

Outcome(obs) ==
    CASE obs.status = "confirmed" -> IF obs.refunded = Gross THEN "refunded" ELSE "paid"
      [] obs.status = "failed" -> "failed"
      [] OTHER -> "pending"

\* Mutant: totals are added up instead of taken over.
SettleAddingUp(row, obs) ==
    IF row.status \in TerminalStatus \/ Obsolete(row, obs)
    THEN row
    ELSE [row EXCEPT !.status = Outcome(obs), !.op = obs.status, !.agreement = obs.agreement,
                     !.captured = @ + obs.captured, !.refunded = @ + obs.refunded]

\* Mutant: a finished purchase is settled again.
SettleFinished(row, obs) ==
    IF Obsolete(row, obs)
    THEN row
    ELSE [row EXCEPT !.status = Outcome(obs), !.op = obs.status, !.agreement = obs.agreement,
                     !.captured = obs.captured, !.refunded = obs.refunded]

Settle(row, obs) ==
    IF row.status \in TerminalStatus \/ Obsolete(row, obs)
    THEN row
    ELSE [row EXCEPT !.status = Outcome(obs), !.op = obs.status, !.agreement = obs.agreement,
                     !.captured = obs.captured, !.refunded = obs.refunded]

\* The CHECK constraints of billing.annual_purchases that relate its columns.
PurchaseChecks(row) ==
    /\ row.refunded <= row.captured /\ row.captured <= Gross
    /\ row.status = "paid" => row.captured = Gross
    /\ row.status = "failed" => row.captured = 0
    /\ row.status = "refunded" => row.captured > 0 /\ row.captured = row.refunded

\* What guard_annual_evidence_v1 lets an UPDATE do; anything else it raises on.
EvidenceGuard(old, new) ==
    /\ new.year = old.year
    /\ new.captured >= old.captured /\ new.refunded >= old.refunded
    /\ old.agreement => new.agreement
    /\ old.canceled => new.canceled
    /\ old.status \in {"failed", "refunded"} => new.status = old.status
    /\ old.op \in {"confirmed", "failed"} => new.op = old.op

=============================================================================
