-------------------------------- MODULE Payout --------------------------------
(***************************************************************************)
(* What the two jobs promise of each withdrawal, every step whole: it is   *)
(* asked for, its money is handed to the network once and only before its  *)
(* outcome is known, the network delivers it or not, and it is done when   *)
(* that has been seen or has failed.  A lost write to the database may     *)
(* turn one outcome into the other, never into an open withdrawal.         *)
(***************************************************************************)
EXTENDS Naturals

CONSTANT Txns

VARIABLES
    outcome,        \* of each withdrawal
    handed,         \* how often its money was handed over
    delivered,      \* the withdrawals the network has delivered
    mishap          \* a write to the database has failed

vars == <<outcome, handed, delivered, mishap>>

Init ==
    /\ outcome = [w \in Txns |-> "none"]
    /\ handed = [w \in Txns |-> 0]
    /\ delivered = {}
    /\ mishap = FALSE

Becomes(w, value) ==
    /\ outcome' = [outcome EXCEPT ![w] = value]
    /\ UNCHANGED <<handed, delivered, mishap>>

Ask(w) == outcome[w] = "none" /\ Becomes(w, "open")

HandOver(w) ==
    /\ outcome[w] = "open"
    /\ handed[w] = 0
    /\ handed' = [handed EXCEPT ![w] = 1]
    /\ UNCHANGED <<outcome, delivered, mishap>>

Deliver(w) ==
    /\ handed[w] = 1
    /\ delivered' = delivered \cup {w}
    /\ UNCHANGED <<outcome, handed, mishap>>

Confirm(w) ==
    /\ outcome[w] = "open" \/ (outcome[w] = "failed" /\ mishap)
    /\ w \in delivered
    /\ Becomes(w, "done")

Fail(w) ==
    /\ outcome[w] = "open" \/ (outcome[w] = "done" /\ mishap)
    /\ Becomes(w, "failed")

Mishap ==
    /\ mishap' = TRUE
    /\ UNCHANGED <<outcome, handed, delivered>>

Next ==
    \/ \E w \in Txns : Ask(w) \/ HandOver(w) \/ Deliver(w) \/ Confirm(w) \/ Fail(w)
    \/ Mishap

Spec == Init /\ [][Next]_vars
===============================================================================
