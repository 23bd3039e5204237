-------------------------- MODULE TransactionService --------------------------
(***************************************************************************)
(* Requests of the wallet service running side by side in one Node         *)
(* process (or several): TransactionService.submitTransaction with         *)
(* processTransaction behind it, and WalletController.getMyWallets.  Every *)
(* `await` of a database call is a point where other requests run, so      *)
(* every such call is an action; the code between two calls belongs to the *)
(* action of the second one.  No call is in a database transaction and     *)
(* update() writes the whole row from memory.                              *)
(*                                                                         *)
(* An account stands for the (userId, walletType, tokenType, symbol) a     *)
(* wallet row is looked up by.  Amounts and balances are integers in the   *)
(* smallest unit the decimal strings of the code express.                  *)
(***************************************************************************)
EXTENDS Integers

CONSTANTS
    Requests,       \* calls of the service; a new row or record takes its id
                    \*   from the request that makes it (randomUUID())
    Accounts,
    UserAccounts,   \* those with walletType USER
    Refs,           \* refIds: the event ids of deposits
    None,           \* undefined
    Inputs,         \* what callers may ask for
    Number(_)       \* JavaScript's Number(): the double nearest to a decimal

Kinds == {"DEPOSIT", "WITHDRAW", "TRANSFER", "LOCK", "UNLOCK", "MY_WALLETS"}

\* A malformed amount or a missing symbol is refused like a zero amount is,
\* and an input with amount 0 stands for each of them.
Input == [kind : Kinds, from : Accounts \cup {None}, to : Accounts \cup {None},
          amount : Nat, ref : Refs \cup {None}]

ASSUME NoneIsFresh ==
    /\ None \notin Accounts \cup Refs \cup (Requests \X Accounts)
    /\ None \notin {"PENDING", "SUCCESS"}
ASSUME UsersAreAccounts == UserAccounts \subseteq Accounts
ASSUME InputsAreInput == Inputs \subseteq Input
\* The route is guarded: both wallets of a my-wallet call are the caller's.
ASSUME MyWalletsInputs ==
    \A i \in Inputs : i.kind = "MY_WALLETS" => i.from # None /\ i.to # None

Rows == Requests \X Accounts
Balance == [available : Int, locked : Int, total : Int]
ZeroBalance == [available |-> 0, locked |-> 0, total |-> 0]
NoInput == [kind |-> "MY_WALLETS", from |-> None, to |-> None, amount |-> 0,
            ref |-> None]

VARIABLES
    exists,         \* the ids of the wallet rows in the database
    wallet,         \* their balances
    txn,            \* status of each transaction record, None before create
    pc, input,      \* per request: where it is, and its TransactionDto
    fromId, toId,   \* per request: the rows it found or made
    from, to,       \* per request: its in-memory copies of them
    credits         \* history: the sum of the amounts credited to each row

local == <<input, fromId, toId, from, to>>
vars == <<exists, wallet, txn, pc, local, credits>>

InFlight == {"findFrom", "createFrom", "findTo", "createTo", "reserve",
             "checkRef", "create", "process", "loadFrom", "loadTo",
             "debitFrom", "credit", "markSuccess"}
Stopped == {"done", "threw", "failed"}

TypeOK ==
    /\ exists \subseteq Rows
    /\ wallet \in [Rows -> Balance]
    /\ txn \in [Requests -> {None, "PENDING", "SUCCESS"}]
    /\ pc \in [Requests -> {"idle"} \cup InFlight \cup Stopped]
    /\ input \in [Requests -> Input]
    /\ fromId \in [Requests -> Rows \cup {None}]
    /\ toId \in [Requests -> Rows \cup {None}]
    /\ from \in [Requests -> Balance]
    /\ to \in [Requests -> Balance]
    /\ credits \in [Rows -> Nat]

Init ==
    /\ exists = {}
    /\ wallet = [w \in Rows |-> ZeroBalance]
    /\ txn = [r \in Requests |-> None]
    /\ pc = [r \in Requests |-> "idle"]
    /\ input = [r \in Requests |-> NoInput]
    /\ fromId = [r \in Requests |-> None]
    /\ toId = [r \in Requests |-> None]
    /\ from = [r \in Requests |-> ZeroBalance]
    /\ to = [r \in Requests |-> ZeroBalance]
    /\ credits = [w \in Rows |-> 0]

-------------------------------------------------------------------------------
\* Faulty variants of the arithmetic: a reservation that only locks, a debit
\* that adds to the total, a credit that forgets the available balance.
ReservedOnlyLocked(b, n) ==
    [available |-> b.available, locked |-> b.locked + n, total |-> b.total]
DebitedBackwards(b, n) ==
    [available |-> b.available, locked |-> b.locked - n, total |-> b.total + n]
CreditedOnlyTotal(b, n) ==
    [available |-> b.available, locked |-> b.locked, total |-> b.total + n]

\* The arithmetic on an in-memory row.
Reserved(b, n) ==
    [available |-> b.available - n, locked |-> b.locked + n, total |-> b.total]
Debited(b, n) ==
    [available |-> b.available, locked |-> b.locked - n, total |-> b.total - n]
Credited(b, n) ==
    [available |-> b.available + n, locked |-> b.locked, total |-> b.total + n]

Goto(r, label) == pc' = [pc EXCEPT ![r] = label]

RowsOf(a) == {w \in exists : w[2] = a}

\* A faulty variant: the missing recipient of a deposit goes unnoticed.
ValidWithoutTo(i) ==
    /\ i.kind \in {"WITHDRAW", "TRANSFER"} => i.from # None
    /\ i.kind \in {"DEPOSIT", "WITHDRAW", "TRANSFER"}
    /\ i.amount > 0

Valid(i) ==
    /\ i.kind \in {"DEPOSIT", "TRANSFER"} => i.to # None
    /\ i.kind \in {"WITHDRAW", "TRANSFER"} => i.from # None
    /\ i.kind \in {"DEPOSIT", "WITHDRAW", "TRANSFER"}
    /\ i.amount > 0

\* A faulty variant: only transfers are checked.
OnlyTransfersChecked(i) == i.kind = "TRANSFER" /\ i.from \in UserAccounts

BalanceChecked(i) ==
    \/ i.kind = "WITHDRAW"
    \/ i.kind = "TRANSFER" /\ i.from \in UserAccounts

\* A faulty variant: deposits are not looked up by refId.
NoRefCheckForDeposits(i) ==
    IF i.ref = None \/ i.kind = "DEPOSIT" THEN "create" ELSE "checkRef"

\* What follows the lookup of the from wallet, and of the to wallet.
AfterFrom(i) == IF i.kind = "WITHDRAW" THEN "reserve" ELSE "findTo"
AfterReserve(i) == IF i.ref = None THEN "create" ELSE "checkRef"
AfterTo(i) ==
    CASE i.kind = "TRANSFER" -> "reserve"
      [] i.kind = "MY_WALLETS" -> "done"
      [] OTHER -> AfterReserve(i)

-------------------------------------------------------------------------------
\* submitTransaction up to its first database call.
Submit(r, i) ==
    /\ pc[r] = "idle"
    /\ i.kind # "MY_WALLETS"
    /\ input' = [input EXCEPT ![r] = i]
    /\ Goto(r, IF ~Valid(i) THEN "threw"
               ELSE IF i.kind = "DEPOSIT" THEN "findTo" ELSE "findFrom")
    /\ UNCHANGED <<exists, wallet, txn, fromId, toId, from, to, credits>>

\* getMyWallets: the wallet of the project token, then the USDT wallet.
GetMyWallets(r, i) ==
    /\ pc[r] = "idle"
    /\ i.kind = "MY_WALLETS"
    /\ input' = [input EXCEPT ![r] = i]
    /\ Goto(r, "findFrom")
    /\ UNCHANGED <<exists, wallet, txn, fromId, toId, from, to, credits>>

\* findAndCreateIfNotExist, the lookup: any matching row, for no order is asked.
FindFrom(r) ==
    /\ pc[r] = "findFrom"
    /\ \/ /\ RowsOf(input[r].from) = {}
          /\ Goto(r, "createFrom")
          /\ UNCHANGED <<fromId, from>>
       \/ \E w \in RowsOf(input[r].from) :
            /\ fromId' = [fromId EXCEPT ![r] = w]
            /\ from' = [from EXCEPT ![r] = wallet[w]]
            /\ Goto(r, AfterFrom(input[r]))
    /\ UNCHANGED <<exists, wallet, txn, input, toId, to, credits>>

\* A faulty variant: a wallet is made without looking for one.
FindToNeverLooks(r) ==
    /\ pc[r] = "findTo"
    /\ Goto(r, "createTo")
    /\ UNCHANGED <<exists, wallet, txn, input, toId, to, fromId, from, credits>>

FindTo(r) ==
    /\ pc[r] = "findTo"
    /\ \/ /\ RowsOf(input[r].to) = {}
          /\ Goto(r, "createTo")
          /\ UNCHANGED <<toId, to>>
       \/ \E w \in RowsOf(input[r].to) :
            /\ toId' = [toId EXCEPT ![r] = w]
            /\ to' = [to EXCEPT ![r] = wallet[w]]
            /\ Goto(r, AfterTo(input[r]))
    /\ UNCHANGED <<exists, wallet, txn, input, fromId, from, credits>>

\* findAndCreateIfNotExist, the insert of a row of zeros under a fresh id.
CreateFrom(r) ==
    LET w == <<r, input[r].from>>
    IN  /\ pc[r] = "createFrom"
        /\ exists' = exists \cup {w}
        /\ fromId' = [fromId EXCEPT ![r] = w]
        /\ from' = [from EXCEPT ![r] = ZeroBalance]
        /\ Goto(r, AfterFrom(input[r]))
        /\ UNCHANGED <<wallet, txn, input, toId, to, credits>>

CreateTo(r) ==
    LET w == <<r, input[r].to>>
    IN  /\ pc[r] = "createTo"
        /\ exists' = exists \cup {w}
        /\ toId' = [toId EXCEPT ![r] = w]
        /\ to' = [to EXCEPT ![r] = ZeroBalance]
        /\ Goto(r, AfterTo(input[r]))
        /\ UNCHANGED <<wallet, txn, input, fromId, from, credits>>

\* The balance check on the copy read earlier, then the write of that copy.
Reserve(r) ==
    LET n == input[r].amount
    IN  /\ pc[r] = "reserve"
        /\ IF BalanceChecked(input[r]) /\ Number(from[r].available) < Number(n)
           THEN /\ Goto(r, "threw")
                /\ UNCHANGED wallet
           ELSE /\ wallet' = [wallet EXCEPT ![fromId[r]] = Reserved(from[r], n)]
                /\ Goto(r, AfterReserve(input[r]))
        /\ UNCHANGED <<exists, txn, local, credits>>

\* The duplicate check, which comes after the reservation was written.
CheckRef(r) ==
    /\ pc[r] = "checkRef"
    /\ Goto(r, IF \E q \in Requests : txn[q] # None /\ input[q].ref = input[r].ref
               THEN "threw" ELSE "create")
    /\ UNCHANGED <<exists, wallet, txn, local, credits>>

CreateTransaction(r) ==
    /\ pc[r] = "create"
    /\ txn' = [txn EXCEPT ![r] = "PENDING"]
    /\ Goto(r, "process")
    /\ UNCHANGED <<exists, wallet, local, credits>>

\* processTransaction reads the record back; a withdrawal ends here, PENDING.
ProcessTransaction(r) ==
    /\ pc[r] = "process"
    /\ Goto(r, IF txn[r] # "PENDING" THEN "done"
               ELSE CASE input[r].kind = "DEPOSIT" -> "loadTo"
                      [] input[r].kind = "TRANSFER" -> "loadFrom"
                      [] OTHER -> "done")
    /\ UNCHANGED <<exists, wallet, txn, local, credits>>

LoadFrom(r) ==
    /\ pc[r] = "loadFrom"
    /\ from' = [from EXCEPT ![r] = wallet[fromId[r]]]
    /\ Goto(r, "loadTo")
    /\ UNCHANGED <<exists, wallet, txn, input, fromId, toId, to, credits>>

LoadTo(r) ==
    /\ pc[r] = "loadTo"
    /\ to' = [to EXCEPT ![r] = wallet[toId[r]]]
    /\ Goto(r, IF input[r].kind = "TRANSFER" THEN "debitFrom" ELSE "credit")
    /\ UNCHANGED <<exists, wallet, txn, input, fromId, toId, from, credits>>

DebitFrom(r) ==
    /\ pc[r] = "debitFrom"
    /\ wallet' = [wallet EXCEPT ![fromId[r]] = Debited(from[r], input[r].amount)]
    /\ Goto(r, "credit")
    /\ UNCHANGED <<exists, txn, local, credits>>

Credit(r) ==
    LET n == input[r].amount
    IN  /\ pc[r] = "credit"
        /\ wallet' = [wallet EXCEPT ![toId[r]] = Credited(to[r], n)]
        /\ credits' = [credits EXCEPT ![toId[r]] = @ + n]
        /\ Goto(r, "markSuccess")
        /\ UNCHANGED <<exists, txn, local>>

MarkSuccess(r) ==
    /\ pc[r] = "markSuccess"
    /\ txn' = [txn EXCEPT ![r] = "SUCCESS"]
    /\ Goto(r, "done")
    /\ UNCHANGED <<exists, wallet, local, credits>>

\* The next database call rejects, or the process dies: what was written stays.
Fail(r) ==
    /\ pc[r] \in InFlight
    /\ Goto(r, "failed")
    /\ UNCHANGED <<exists, wallet, txn, local, credits>>

Step(r) ==
    \/ FindFrom(r)
    \/ CreateFrom(r)
    \/ FindTo(r)
    \/ CreateTo(r)
    \/ Reserve(r)
    \/ CheckRef(r)
    \/ CreateTransaction(r)
    \/ ProcessTransaction(r)
    \/ LoadFrom(r)
    \/ LoadTo(r)
    \/ DebitFrom(r)
    \/ Credit(r)
    \/ MarkSuccess(r)
    \/ Fail(r)

Begin(r, i) == Submit(r, i) \/ GetMyWallets(r, i)

Next == \E r \in Requests : Step(r) \/ \E i \in Inputs : Begin(r, i)

Spec == Init /\ [][Next]_vars

-------------------------------------------------------------------------------
\* The same service with requests on one account kept apart, and no transfer
\* from an account to itself: what the code has no lock to ensure.
Touched(i) == {i.from, i.to} \ {None}

Alone(r, i) ==
    /\ \A q \in Requests \ {r} :
          pc[q] \in InFlight => Touched(input[q]) \cap Touched(i) = {}
    /\ i.from = i.to => i.from = None

SerialNext ==
    \E r \in Requests : Step(r) \/ \E i \in Inputs : Alone(r, i) /\ Begin(r, i)

SerialSpec == Init /\ [][SerialNext]_vars

-------------------------------------------------------------------------------
\* Whatever requests overlap, and whichever of them overwrites another's
\* update, the three balances of a row always add up: the service only ever
\* writes back a consistent copy (submitTransaction, processTransaction).
RowBalanced ==
    \A w \in exists : wallet[w].available + wallet[w].locked = wallet[w].total

\* Lost updates can lose a user's money but never create any: the total of a
\* row stays within what deposits and transfers credited to that row.
CreditBound == \A w \in exists : wallet[w].total <= credits[w]

\* No interleaving takes a user's available balance below zero: a stale copy
\* passes the 'Insufficient balance' check and is what gets written.
NoOverdraft ==
    \A w \in exists : w[2] \in UserAccounts => wallet[w].available >= 0
===============================================================================
