------------------------- MODULE MCTransactionService -------------------------
(***************************************************************************)
(* Instances of TransactionService and TransactionLedger for TLC.          *)
(***************************************************************************)
EXTENDS TransactionLedger, TLC

CONSTANTS r1, r2, r3, r4, alice, bob, system, event

In(kind, fromAcc, toAcc, amount, ref) ==
    [kind |-> kind, from |-> fromAcc, to |-> toAcc, amount |-> amount, ref |-> ref]

\* Every kind, the two ways a request is refused before it reads, a transfer of
\* an account to itself, and a withdrawal with a refId.
EveryInput ==
    {In("DEPOSIT", None, alice, 2, event),
     In("DEPOSIT", None, None, 1, event),
     In("WITHDRAW", alice, None, 1, None),
     In("WITHDRAW", alice, None, 2, event),
     In("WITHDRAW", alice, None, 0, None),
     In("TRANSFER", alice, bob, 1, None),
     In("TRANSFER", alice, alice, 1, None),
     In("TRANSFER", system, alice, 1, None),
     In("LOCK", alice, None, 1, None),
     In("MY_WALLETS", bob, alice, 0, None)}

\* The requests the controllers and the scan make, and a transfer.
SerialInputs ==
    {In("DEPOSIT", None, alice, 2, event),
     In("DEPOSIT", None, alice, 1, None),
     In("WITHDRAW", alice, None, 2, event),
     In("TRANSFER", alice, bob, 1, None),
     In("TRANSFER", system, alice, 1, None),
     In("MY_WALLETS", alice, bob, 0, None)}

DepositAndWithdraw ==
    {In("DEPOSIT", None, alice, 2, event),
     In("WITHDRAW", alice, None, 2, None)}

\* A balance of 4 units and a withdrawal of 5, which Number() takes for 4.
RoundedInputs ==
    {In("DEPOSIT", None, alice, 4, event),
     In("WITHDRAW", alice, None, 5, None)}

ExactNumber(x) == x

\* Doubles with a mantissa of two bits: exact below 4, even up to 8, with ties
\* to the even mantissa, as 53 bits do beyond 2^53.
RoundedNumber(x) == IF x = 5 THEN 4 ELSE IF x = 7 THEN 8 ELSE x

Symmetry == Permutations(Requests)
===============================================================================
