--------------------------- MODULE TransactionLedger ---------------------------
(***************************************************************************)
(* What the records and the rows of TransactionService say together about  *)
(* an account, and TransactionService without overlapping requests as an   *)
(* implementation of Ledger.                                               *)
(***************************************************************************)
EXTENDS TransactionService, FiniteSetsExt

\* What an account was ever credited, over all its rows.
CreditedTo(a) == SumFunctionOnSet(credits, RowsOf(a))

\* What the recorded withdrawals and transfers take from an account.
SpendingFrom(a) ==
    {r \in Requests : /\ txn[r] # None
                      /\ input[r].kind \in {"WITHDRAW", "TRANSFER"}
                      /\ input[r].from = a}
SpentBy(a) == SumFunctionOnSet([r \in Requests |-> input[r].amount], SpendingFrom(a))

\* The withdrawals and transfers recorded for a user never exceed what was
\* credited to that user: each one passed the 'Insufficient balance' check of
\* submitTransaction on a balance that the others had already been taken from.
SolventWithdrawals == \A a \in UserAccounts : SpentBy(a) <= CreditedTo(a)

\* findAndCreateIfNotExist keeps one wallet row per user, type and symbol.
OneWalletPerAccount ==
    \A v, w \in exists : v[2] = w[2] => v = w

\* No two records carry the same refId: an event is deposited at most once
\* ('Transaction already exist').
RefIdUnique ==
    \A q, r \in Requests :
        /\ q # r
        /\ txn[q] # None /\ txn[r] # None
        => input[q].ref = None \/ input[q].ref # input[r].ref

-------------------------------------------------------------------------------
\* The refinement mapping: an account's one row, zeros before there is one.
RowOf(a) == CHOOSE w \in RowsOf(a) : TRUE
BalanceOf(a) == IF RowsOf(a) = {} THEN ZeroBalance ELSE wallet[RowOf(a)]

Abstract == INSTANCE Ledger WITH
    Bounded   <- UserAccounts,
    Amounts   <- {i.amount : i \in Inputs} \ {0},
    free      <- [a \in Accounts |-> BalanceOf(a).available],
    held      <- [a \in Accounts |-> BalanceOf(a).locked],
    deposited <- [a \in Accounts |-> CreditedTo(a)]

\* With requests on an account kept apart, each database write of
\* submitTransaction and processTransaction is one whole Deposit, Hold or
\* Release of the ledger, and every other step, a failure included, is none:
\* no update is lost and no money is spent twice.
LedgerSpec == Abstract!Spec
===============================================================================
