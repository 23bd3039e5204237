----------------------------- MODULE MCDepositScan -----------------------------
(***************************************************************************)
(* Instances of DepositScan for TLC.                                       *)
(***************************************************************************)
EXTENDS DepositScan

CONSTANTS t1, t2, ann, bob, home

FromHome == [e \in Events |-> home]

\* A deposit that names bob, a transfer that does not parse, and a deposit known by
\* its sender only; or nothing but deposits that name him.
Mixed == <<"usdt", "malformed", "usdt">>
BobFirst == <<bob, None, None>>
OnlyUsdt == [e \in Events |-> "usdt"]
AllBob == [e \in Events |-> bob]
===============================================================================
