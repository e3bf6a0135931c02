---------------------------- MODULE MCAnnualObserver ----------------------------
(* Instances of AnnualObserver for TLC. *)
EXTENDS AnnualObserver, TLC

Symmetric == Permutations(Observers) \cup Permutations(Tokens)

=============================================================================
