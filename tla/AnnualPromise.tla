------------------------------ MODULE AnnualPromise ------------------------------
(***************************************************************************)
(* What the annual billing promises about requests and purchases, with no  *)
(* provider, worker or retry in sight.  A request is decided once: it is   *)
(* withdrawn or it buys one company-year.  A purchase starts pending,      *)
(* becomes paid, failed or refunded, and only a paid one may change again, *)
(* by being refunded.  A company-year is sold again only when no pending   *)
(* or paid purchase occupies it.                                           *)
(***************************************************************************)
CONSTANTS Keys, Years, NoYear

VARIABLES decision,   \* key -> "open", "withdrawn" or "bought"
          boughtFor,  \* key -> the company-year bought under it
          standing    \* key -> where that purchase stands

vars == <<decision, boughtFor, standing>>

Init ==
    /\ decision = [k \in Keys |-> "open"]
    /\ boughtFor = [k \in Keys |-> NoYear]
    /\ standing = [k \in Keys |-> "none"]

Occupying(y) == \E k \in Keys : boughtFor[k] = y /\ standing[k] \in {"pending", "paid"}

Withdraw(k) ==
    /\ decision[k] = "open"
    /\ decision' = [decision EXCEPT ![k] = "withdrawn"]
    /\ UNCHANGED <<boughtFor, standing>>

Buy(k, y) ==
    /\ decision[k] = "open" /\ ~Occupying(y)
    /\ decision' = [decision EXCEPT ![k] = "bought"]
    /\ boughtFor' = [boughtFor EXCEPT ![k] = y]
    /\ standing' = [standing EXCEPT ![k] = "pending"]

Resolve(k, status) ==
    /\ \/ standing[k] = "pending" /\ status \in {"paid", "failed", "refunded"}
       \/ standing[k] = "paid" /\ status = "refunded"
    /\ standing' = [standing EXCEPT ![k] = status]
    /\ UNCHANGED <<decision, boughtFor>>

Next ==
    \E k \in Keys :
        \/ Withdraw(k)
        \/ \E y \in Years : Buy(k, y)
        \/ \E status \in {"paid", "failed", "refunded"} : Resolve(k, status)

Spec == Init /\ [][Next]_vars

=============================================================================
