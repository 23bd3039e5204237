----------------------------- MODULE MCWithdrawals -----------------------------
(***************************************************************************)
(* Instances of Withdrawals for TLC.                                       *)
(***************************************************************************)
EXTENDS Withdrawals

CONSTANTS s1, s2, v1, v2

OneAndFive == <<1, 5>>
===============================================================================
