---------------------------- MODULE MCAnnualCheckout ----------------------------
(* Instances of AnnualCheckout for TLC. *)
EXTENDS AnnualCheckout, TLC

\* Handlers are interchangeable, and so are keys and company-years.
Symmetric == Permutations(Workers) \cup Permutations(Keys) \cup Permutations(Years)

=============================================================================
