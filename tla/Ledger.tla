-------------------------------- MODULE Ledger --------------------------------
(***************************************************************************)
(* What the wallet service promises to each account holder, with every     *)
(* operation in one step: money is free or held, a deposit adds free       *)
(* money, a hold moves free money that is really there, a release pays     *)
(* held money out.  `deposited` counts all that ever came in, so nothing   *)
(* is lost and nothing appears.                                            *)
(***************************************************************************)
EXTENDS Integers

CONSTANTS
    Accounts,       \* the balances: one per user, wallet type, token and symbol
    Bounded,        \* the accounts that may not be overdrawn: the users'
    Amounts         \* what one operation may move, positive integers

VARIABLES
    free,           \* what the holder may spend
    held,           \* what is promised to a withdrawal or a transfer
    deposited       \* what was ever credited

vars == <<free, held, deposited>>

Init ==
    /\ free = [a \in Accounts |-> 0]
    /\ held = [a \in Accounts |-> 0]
    /\ deposited = [a \in Accounts |-> 0]

Deposit(a, n) ==
    /\ free' = [free EXCEPT ![a] = @ + n]
    /\ deposited' = [deposited EXCEPT ![a] = @ + n]
    /\ UNCHANGED held

Hold(a, n) ==
    /\ a \in Bounded => n <= free[a]
    /\ free' = [free EXCEPT ![a] = @ - n]
    /\ held' = [held EXCEPT ![a] = @ + n]
    /\ UNCHANGED deposited

Release(a, n) ==
    /\ n <= held[a]
    /\ held' = [held EXCEPT ![a] = @ - n]
    /\ UNCHANGED <<free, deposited>>

Next ==
    \E a \in Accounts, n \in Amounts :
        Deposit(a, n) \/ Hold(a, n) \/ Release(a, n)

Spec == Init /\ [][Next]_vars
===============================================================================
