---------------------------- MODULE MCRf1086Journal ----------------------------
(* Instances of Rf1086Journal for TLC. *)
EXTENDS Rf1086Journal, TLC

Symmetric == Permutations(Senders) \cup Permutations(Approvals)

=============================================================================
