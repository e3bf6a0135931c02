------------------------------ MODULE AnnualPolicy ------------------------------
(***************************************************************************)
(* The refund policy of the annual offer (annual_refund): what a case      *)
(* entitles the customer to and until when the refund must be initiated.   *)
(*                                                                         *)
(* An instant of the Oslo calendar is kept as far as the policy looks at   *)
(* it: its year (relative to the income year), its month, and whether it   *)
(* is midnight of the month's first day.  Monday is weekday 0, as in the   *)
(* code.                                                                   *)
(***************************************************************************)
EXTENDS Integers, FiniteSets

CONSTANTS GrossMinor,  \* the price in minor units
          Offsets,     \* years of a block, relative to the income year
          Elapsed,     \* days from the first purchase to the discovery
          Returned     \* amounts already refunded

ASSUME GrossMinorAssumption == GrossMinor \in Nat \ {0}
ASSUME OffsetsAssumption == Offsets \subseteq Int
ASSUME ElapsedAssumption == Elapsed \subseteq Nat
ASSUME ReturnedAssumption == Returned \subseteq 0 .. GrossMinor

Months == 1 .. 12
Weekdays == 0 .. 6

Reason == {"change_of_mind", "talli_acceptance_failure", "talli_delivery_failure",
           "new_unsupported_condition", "customer_unresolved"}

Instant == [year : Offsets, month : Months, first : BOOLEAN]

Facts == [reason : Reason, elapsed : Elapsed, submitted : BOOLEAN, blocked : Instant,
          refunded : Returned, weekday : Weekdays]

Greatest(a, b) == IF a < b THEN b ELSE a
Least(a, b) == IF a < b THEN a ELSE b

\* The whole months of the accounting year that are left when access is blocked.
UnusedMonths(blocked) ==
    LET firstUnused == IF blocked.first THEN blocked.month ELSE blocked.month + 1
    IN Greatest(0, Least(12, 13 - firstUnused - blocked.year * 12))

Full(f) ==
    \/ f.reason \in {"talli_acceptance_failure", "talli_delivery_failure"}
    \/ f.elapsed <= 30 /\ ~f.submitted

\* _initiation_deadline: days from the discovery on <<remaining, weekday>> until
\* `remaining` weekdays have passed.
DaysToInitiate[p \in (0 .. 5) \X Weekdays] ==
    LET next == (p[2] + 1) % 7
        left == IF next < 5 THEN p[1] - 1 ELSE p[1]
    IN IF p[1] = 0 THEN 0 ELSE 1 + DaysToInitiate[<<left, next>>]

InitiateIn(weekday) == DaysToInitiate[<<5, weekday>>]

Entitlement(f) ==
    IF Full(f) THEN GrossMinor
    ELSE IF f.reason = "new_unsupported_condition"
         THEN (GrossMinor * UnusedMonths(f.blocked) + 6) \div 12
         ELSE 0

Due(f) == Greatest(0, Entitlement(f) - f.refunded)

Decision(f) == [total |-> Entitlement(f), due |-> Due(f), vat |-> (Due(f) + 2) \div 5,
                initiateIn |-> InitiateIn(f.weekday)]

-----------------------------------------------------------------------------
(* Properties. *)

\* Month m of the income year, m from its start on, lies after the block.
StartsAfter(m, blocked) == m >= blocked.year * 12 + blocked.month + (IF blocked.first THEN 0 ELSE 1)

\* A new unsupported condition entitles to a twelfth of the price, rounded to the
\* nearest minor unit, for each month of the accounting year that had not begun when
\* access was blocked: none after the year, all twelve before it (annual_refund).
EntitlementIsUnusedShare ==
    \A f \in Facts :
        f.reason = "new_unsupported_condition" /\ (f.elapsed > 30 \/ f.submitted) =>
            LET unused == Cardinality({m \in Months : StartsAfter(m, f.blocked)})
                error == 12 * Decision(f).total - GrossMinor * unused
            IN -6 < error /\ error <= 6

\* The deadline is the fifth weekday after the discovery, wherever the weekend falls
\* (_initiation_deadline).
DeadlineIsFifthWeekday ==
    \A f \in Facts :
        LET later == {i \in 1 .. Decision(f).initiateIn : (f.weekday + i) % 7 < 5}
        IN Cardinality(later) = 5 /\ Decision(f).initiateIn \in later

=============================================================================
