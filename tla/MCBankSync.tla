------------------------------ MODULE MCBankSync ------------------------------
(* An instance of BankSync for TLC. *)
EXTENDS BankSync, TLC

Symmetric == Permutations(Callers) \cup Permutations(Keys)
=============================================================================
