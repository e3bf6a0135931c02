---------------------------- MODULE MCInvestments ----------------------------
(* An instance of Investments for TLC: one transaction that pays a purchase, two *)
(* that pay a sale or an income. *)
EXTENDS Investments

Bank == {[id |-> 1, amount |-> -90], [id |-> 2, amount |-> 40], [id |-> 3, amount |-> 40]}
=============================================================================
