---------------------------- MODULE MCAnnualRefund ----------------------------
(* Instances of AnnualRefund, and of the policy of what it refunds, for TLC. *)
EXTENDS AnnualRefund, AnnualPolicy, TLC

\* From the year before the income year to the second year after it.
OffsetValues == -1 .. 2

\* What AnnualRefundProofs proves of the policy for all inputs, over those of the
\* instance (annual_refund).
ASSUME PolicyAgrees == EntitlementIsUnusedShare /\ DeadlineIsFifthWeekday

\* Refund requests, evidence references and handlers are interchangeable.
Symmetric == Permutations(Requests) \cup Permutations(Sources) \cup Permutations(Refunders)

\* Purchases are interchangeable.
SymmetricKeys == Permutations(Keys)

=============================================================================
