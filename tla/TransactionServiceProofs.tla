----------------------- MODULE TransactionServiceProofs -----------------------
(***************************************************************************)
(* For any number of requests, accounts and amounts, in every interleaving *)
(* and with failures anywhere: the rows stay consistent, no update creates *)
(* money, and with an exact Number() no user is overdrawn.                 *)
(*                                                                         *)
(* The three facts about rows are not inductive alone, because a request   *)
(* writes back a copy it read long before.  What is inductive is that the  *)
(* copies have them too, and that the histories they are compared with     *)
(* only grow.                                                              *)
(***************************************************************************)
EXTENDS TransactionService, TLAPS

\* The kinds that take from a wallet, and those that give to one.
Takes(r) == input[r].kind \in {"WITHDRAW", "TRANSFER"}
Gives(r) == input[r].kind \in {"DEPOSIT", "TRANSFER"}

Past(r) ==
    pc[r] \in {"checkRef", "create", "process", "loadFrom", "loadTo",
               "debitFrom", "credit", "markSuccess"}

\* Where a request is, what it asked for and which rows it holds agree.
Control(r) ==
    /\ pc[r] = "idle" => fromId[r] = None /\ toId[r] = None
    /\ fromId[r] # None => fromId[r][2] = input[r].from
    /\ pc[r] \in InFlight => /\ input[r].kind \notin {"LOCK", "UNLOCK"}
                             /\ Takes(r) => input[r].from # None
                             /\ Gives(r) => input[r].to # None
                             /\ input[r].kind # "MY_WALLETS" => input[r].amount > 0
                             /\ input[r].kind = "MY_WALLETS" =>
                                    input[r].from # None /\ input[r].to # None
    /\ pc[r] \in {"findFrom", "createFrom"} => input[r].kind # "DEPOSIT"
    /\ pc[r] \in {"findTo", "createTo"} =>
          /\ input[r].kind # "WITHDRAW"
          /\ Takes(r) => fromId[r] \in Rows
    /\ pc[r] = "reserve" \/ Past(r) =>
          /\ input[r].kind # "MY_WALLETS"
          /\ Takes(r) => fromId[r] \in Rows
          /\ Gives(r) => toId[r] \in Rows
    /\ pc[r] = "reserve" => Takes(r)
    /\ pc[r] \in {"loadFrom", "debitFrom"} => input[r].kind = "TRANSFER"
    /\ pc[r] \in {"loadTo", "credit"} => Gives(r)

TypeInv == TypeOK /\ \A r \in Requests : Control(r)

\* The balance check compares what it is meant to compare.
NumberIsExact == \A x, y \in Int : (Number(x) < Number(y)) <=> (x < y)

\* A row, or a copy of one, that adds up and stays within the row's credits,
\* and on which a user owes nothing, if the balance check can be trusted.
Sound(w, b) ==
    /\ b.available + b.locked = b.total
    /\ b.total <= credits[w]
    /\ NumberIsExact /\ w[2] \in UserAccounts => b.available >= 0

SoundInv ==
    /\ \A w \in Rows : Sound(w, wallet[w])
    /\ \A r \in Requests : fromId[r] # None => Sound(fromId[r], from[r])
    /\ \A r \in Requests : toId[r] # None => Sound(toId[r], to[r])

-------------------------------------------------------------------------------
LEMMA InitTypeInv == Init => TypeInv
BY NoneIsFresh DEF Init, TypeInv, TypeOK, Control, Rows, Balance, ZeroBalance,
   NoInput, Input, Kinds, InFlight, Stopped, Takes, Gives, Past

\* A step that leaves all that belongs to request q alone.
Untouched(q) ==
    /\ pc'[q] = pc[q] /\ input'[q] = input[q]
    /\ fromId'[q] = fromId[q] /\ toId'[q] = toId[q]
    /\ from'[q] = from[q] /\ to'[q] = to[q]

LEMMA ControlUntouched ==
    ASSUME NEW q \in Requests, Control(q), Untouched(q)
    PROVE  Control(q)'
BY DEF Control, Untouched, Takes, Gives, Past

LEMMA BeginTypeInv ==
    ASSUME TypeInv, NEW r \in Requests, NEW i \in Inputs, Begin(r, i)
    PROVE  TypeInv'
<1>1. i \in Input
  BY InputsAreInput
<1>2. TypeOK'
  BY <1>1 DEF TypeInv, TypeOK, Begin, Submit, GetMyWallets, Goto, InFlight, Stopped
<1>3. ASSUME NEW q \in Requests, q # r PROVE Control(q)'
  <2>1. Untouched(q)
    BY <1>3 DEF TypeInv, TypeOK, Begin, Submit, GetMyWallets, Goto, Untouched
  <2>2. QED
    BY <2>1, ControlUntouched DEF TypeInv
<1>4. Control(r)'
  <2>1. input'[r] = i /\ fromId'[r] = None /\ toId'[r] = None
    BY DEF TypeInv, TypeOK, Control, Begin, Submit, GetMyWallets
  <2>2. CASE Submit(r, i)
    <3>1. CASE ~Valid(i)
      BY <2>1, <2>2, <3>1 DEF TypeInv, TypeOK, Control, Submit, Goto, InFlight, Past
    <3>2. CASE Valid(i)
      <4>1. pc'[r] = IF i.kind = "DEPOSIT" THEN "findTo" ELSE "findFrom"
        BY <2>2, <3>2 DEF Submit, Goto, TypeInv, TypeOK
      <4>2. QED
        BY <1>1, <2>1, <3>2, <4>1
        DEF Control, Valid, InFlight, Takes, Gives, Past, Input, Kinds
    <3>3. QED
      BY <3>1, <3>2
  <2>3. CASE GetMyWallets(r, i)
    <3>1. pc'[r] = "findFrom" /\ i.kind = "MY_WALLETS" /\ i.from # None /\ i.to # None
      BY <2>3, MyWalletsInputs DEF GetMyWallets, Goto, TypeInv, TypeOK
    <3>2. QED
      BY <2>1, <3>1 DEF Control, InFlight, Takes, Gives, Past
  <2>4. QED
    BY <2>2, <2>3 DEF Begin
<1>5. QED
  BY <1>2, <1>3, <1>4 DEF TypeInv

LEMMA StepUntouched ==
    ASSUME TypeOK, NEW r \in Requests, Step(r), NEW q \in Requests, q # r
    PROVE  Untouched(q)
<1>1. CASE FindFrom(r)
  BY <1>1 DEF FindFrom, Untouched, TypeOK, Goto, local
<1>2. CASE CreateFrom(r)
  BY <1>2 DEF CreateFrom, Untouched, TypeOK, Goto, local
<1>3. CASE FindTo(r)
  BY <1>3 DEF FindTo, Untouched, TypeOK, Goto, local
<1>4. CASE CreateTo(r)
  BY <1>4 DEF CreateTo, Untouched, TypeOK, Goto, local
<1>5. CASE Reserve(r)
  BY <1>5 DEF Reserve, Untouched, TypeOK, Goto, local
<1>6. CASE CheckRef(r)
  BY <1>6 DEF CheckRef, Untouched, TypeOK, Goto, local
<1>7. CASE CreateTransaction(r)
  BY <1>7 DEF CreateTransaction, Untouched, TypeOK, Goto, local
<1>8. CASE ProcessTransaction(r)
  BY <1>8 DEF ProcessTransaction, Untouched, TypeOK, Goto, local
<1>9. CASE LoadFrom(r)
  BY <1>9 DEF LoadFrom, Untouched, TypeOK, Goto, local
<1>10. CASE LoadTo(r)
  BY <1>10 DEF LoadTo, Untouched, TypeOK, Goto, local
<1>11. CASE DebitFrom(r)
  BY <1>11 DEF DebitFrom, Untouched, TypeOK, Goto, local
<1>12. CASE Credit(r)
  BY <1>12 DEF Credit, Untouched, TypeOK, Goto, local
<1>13. CASE MarkSuccess(r)
  BY <1>13 DEF MarkSuccess, Untouched, TypeOK, Goto, local
<1>14. CASE Fail(r)
  BY <1>14 DEF Fail, Untouched, TypeOK, Goto, local
<1>15. QED
  BY <1>1, <1>2, <1>3, <1>4, <1>5, <1>6, <1>7, <1>8, <1>9, <1>10, <1>11, <1>12, <1>13, <1>14 DEF Step

\* The accounts a lookup is made for, and the rows that follow it.
LEMMA LookupAccounts ==
    ASSUME TypeInv, NEW r \in Requests
    PROVE  /\ pc[r] \in {"findFrom", "createFrom"} => input[r].from \in Accounts
           /\ pc[r] \in {"findTo", "createTo"} => input[r].to \in Accounts
BY DEF TypeInv, TypeOK, Control, InFlight, Takes, Gives, Input, Kinds

LEMMA RowsInUse ==
    ASSUME TypeInv, NEW r \in Requests
    PROVE  /\ pc[r] \in {"reserve", "loadFrom", "debitFrom"} => fromId[r] \in Rows
           /\ pc[r] \in {"loadTo", "credit"} => toId[r] \in Rows
           /\ pc[r] \in {"reserve", "debitFrom", "credit"} =>
                 input[r].amount \in Nat /\ input[r].amount > 0
BY DEF TypeInv, TypeOK, Control, InFlight, Takes, Gives, Past, Input, Kinds

LEMMA BalanceArithmetic ==
    ASSUME NEW b \in Balance, NEW n \in Nat
    PROVE  /\ Reserved(b, n) \in Balance
           /\ Reserved(b, n).available = b.available - n
           /\ Reserved(b, n).locked = b.locked + n
           /\ Reserved(b, n).total = b.total
           /\ Debited(b, n) \in Balance
           /\ Debited(b, n).available = b.available
           /\ Debited(b, n).locked = b.locked - n
           /\ Debited(b, n).total = b.total - n
           /\ Credited(b, n) \in Balance
           /\ Credited(b, n).available = b.available + n
           /\ Credited(b, n).locked = b.locked
           /\ Credited(b, n).total = b.total + n
BY DEF Balance, Reserved, Debited, Credited

LEMMA NoneIsNoRow == None \notin Rows
BY NoneIsFresh DEF Rows

LEMMA ZeroIsBalance == ZeroBalance \in Balance
BY DEF ZeroBalance, Balance

LEMMA StepTypeOK ==
    ASSUME TypeInv, NEW r \in Requests, Step(r)
    PROVE  TypeOK'
<1> USE DEF TypeInv, TypeOK, Goto, local, InFlight, Stopped
<1>1. CASE FindFrom(r)
  BY <1>1 DEF FindFrom, RowsOf, AfterFrom
<1>2. CASE CreateFrom(r)
  <2>1. <<r, input[r].from>> \in Rows
    BY <1>2, LookupAccounts DEF CreateFrom, Rows
  <2>2. QED
    BY <1>2, <2>1, ZeroIsBalance DEF CreateFrom, AfterFrom
<1>3. CASE FindTo(r)
  BY <1>3 DEF FindTo, RowsOf, AfterTo, AfterReserve
<1>4. CASE CreateTo(r)
  <2>1. <<r, input[r].to>> \in Rows
    BY <1>4, LookupAccounts DEF CreateTo, Rows
  <2>2. QED
    BY <1>4, <2>1, ZeroIsBalance DEF CreateTo, AfterTo, AfterReserve
<1>5. CASE Reserve(r)
  <2>1. Reserved(from[r], input[r].amount) \in Balance
    BY <1>5, RowsInUse, BalanceArithmetic DEF Reserve
  <2>2. QED
    BY <1>5, <2>1 DEF Reserve, AfterReserve
<1>6. CASE CheckRef(r)
  BY <1>6 DEF CheckRef
<1>7. CASE CreateTransaction(r)
  BY <1>7 DEF CreateTransaction
<1>8. CASE ProcessTransaction(r)
  BY <1>8 DEF ProcessTransaction
<1>9. CASE LoadFrom(r)
  BY <1>9, RowsInUse DEF LoadFrom
<1>10. CASE LoadTo(r)
  BY <1>10, RowsInUse DEF LoadTo
<1>11. CASE DebitFrom(r)
  <2>1. Debited(from[r], input[r].amount) \in Balance
    BY <1>11, RowsInUse, BalanceArithmetic DEF DebitFrom
  <2>2. QED
    BY <1>11, <2>1 DEF DebitFrom
<1>12. CASE Credit(r)
  <2>1. input[r].amount \in Nat /\ toId[r] \in Rows
    BY <1>12, RowsInUse DEF Credit
  <2>2. Credited(to[r], input[r].amount) \in Balance
    BY <2>1, BalanceArithmetic
  <2>3. credits' \in [Rows -> Nat]
    BY <1>12, <2>1 DEF Credit
  <2>4. QED
    BY <1>12, <2>2, <2>3 DEF Credit
<1>13. CASE MarkSuccess(r)
  BY <1>13 DEF MarkSuccess
<1>14. CASE Fail(r)
  BY <1>14 DEF Fail
<1>15. QED
  BY <1>1, <1>2, <1>3, <1>4, <1>5, <1>6, <1>7, <1>8, <1>9, <1>10, <1>11, <1>12,
     <1>13, <1>14 DEF Step

LEMMA StepControl ==
    ASSUME TypeInv, NEW r \in Requests, Step(r)
    PROVE  Control(r)'
<1> USE DEF TypeInv, TypeOK, Control, Goto, local, InFlight, Takes, Gives, Past
<1>1. CASE FindFrom(r)
  BY <1>1 DEF FindFrom, RowsOf, AfterFrom, Input, Kinds
<1>2. CASE CreateFrom(r)
  <2>1. <<r, input[r].from>> \in Rows
    BY <1>2, LookupAccounts DEF CreateFrom, Rows
  <2>2. QED
    BY <1>2, <2>1 DEF CreateFrom, AfterFrom, Input, Kinds
<1>3. CASE FindTo(r)
  BY <1>3 DEF FindTo, RowsOf, AfterTo, AfterReserve, Input, Kinds
<1>4. CASE CreateTo(r)
  <2>1. <<r, input[r].to>> \in Rows
    BY <1>4, LookupAccounts DEF CreateTo, Rows
  <2>2. QED
    BY <1>4, <2>1 DEF CreateTo, AfterTo, AfterReserve, Input, Kinds
<1>5. CASE Reserve(r)
  BY <1>5 DEF Reserve, AfterReserve
<1>6. CASE CheckRef(r)
  BY <1>6 DEF CheckRef
<1>7. CASE CreateTransaction(r)
  BY <1>7 DEF CreateTransaction
<1>8. CASE ProcessTransaction(r)
  BY <1>8 DEF ProcessTransaction
<1>9. CASE LoadFrom(r)
  BY <1>9 DEF LoadFrom
<1>10. CASE LoadTo(r)
  BY <1>10 DEF LoadTo
<1>11. CASE DebitFrom(r)
  BY <1>11 DEF DebitFrom
<1>12. CASE Credit(r)
  BY <1>12 DEF Credit
<1>13. CASE MarkSuccess(r)
  BY <1>13 DEF MarkSuccess
<1>14. CASE Fail(r)
  BY <1>14 DEF Fail
<1>15. QED
  BY <1>1, <1>2, <1>3, <1>4, <1>5, <1>6, <1>7, <1>8, <1>9, <1>10, <1>11, <1>12,
     <1>13, <1>14 DEF Step

LEMMA NextTypeInv == TypeInv /\ [Next]_vars => TypeInv'
<1>1. SUFFICES ASSUME TypeInv, [Next]_vars PROVE TypeInv'
  OBVIOUS
<1>2. CASE UNCHANGED vars
  BY <1>1, <1>2 DEF vars, local, TypeInv, TypeOK, Control, Takes, Gives, Past
<1>3. ASSUME NEW r \in Requests, Step(r) PROVE TypeInv'
  <2>1. ASSUME NEW q \in Requests, q # r PROVE Control(q)'
    BY <1>1, <1>3, <2>1, StepUntouched, ControlUntouched DEF TypeInv
  <2>2. QED
    BY <1>1, <1>3, <2>1, StepTypeOK, StepControl DEF TypeInv
<1>4. ASSUME NEW r \in Requests, NEW i \in Inputs, Begin(r, i) PROVE TypeInv'
  BY <1>1, <1>4, BeginTypeInv
<1>5. QED
  BY <1>1, <1>2, <1>3, <1>4 DEF Next

\* The variables keep their types and every request the rows it works on
\* (submitTransaction, processTransaction, getMyWallets).
THEOREM TypeCorrect == Spec => []TypeOK
<1>1. Init => TypeInv
  BY InitTypeInv
<1>2. TypeInv /\ [Next]_vars => TypeInv'
  BY NextTypeInv
<1>3. TypeInv => TypeOK
  BY DEF TypeInv
<1>4. QED
  BY <1>1, <1>2, <1>3, PTL DEF Spec

\* Besides its type, every request holds the rows its next call works on.
THEOREM TypeInvariant == Spec => []TypeInv
BY InitTypeInv, NextTypeInv, PTL DEF Spec
-------------------------------------------------------------------------------
LEMMA FieldsAreInt ==
    ASSUME NEW b \in Balance
    PROVE  b.available \in Int /\ b.locked \in Int /\ b.total \in Int
BY DEF Balance

LEMMA SoundReserved ==
    ASSUME NEW w, NEW b \in Balance, NEW n \in Nat, Sound(w, b),
           NumberIsExact /\ w[2] \in UserAccounts => b.available >= n
    PROVE  Sound(w, Reserved(b, n))
<1>1. b.available \in Int /\ b.locked \in Int /\ b.total \in Int
  BY FieldsAreInt
<1>2. (b.available - n) + (b.locked + n) = b.total
  BY <1>1 DEF Sound
<1>3. NumberIsExact /\ w[2] \in UserAccounts => b.available - n >= 0
  <2>1. b.available >= n => b.available - n >= 0
    BY <1>1
  <2>2. QED
    BY <2>1
<1>4. QED
  BY <1>2, <1>3 DEF Sound, Reserved

LEMMA SoundDebited ==
    ASSUME NEW w, NEW b \in Balance, NEW n \in Nat, Sound(w, b), credits[w] \in Nat
    PROVE  Sound(w, Debited(b, n))
<1>1. b.available \in Int /\ b.locked \in Int /\ b.total \in Int
  BY FieldsAreInt
<1>2. /\ b.available + (b.locked - n) = b.total - n
      /\ b.total - n <= credits[w]
  BY <1>1 DEF Sound
<1>3. QED
  BY <1>2 DEF Sound, Debited

LEMMA InitSoundInv == Init => SoundInv
BY DEF Init, SoundInv, Sound, ZeroBalance

\* A step that only grows credits, writes at most one row, with a sound copy,
\* and takes at most sound copies of rows, keeps the rows and copies sound.
LEMMA StepSoundInv ==
    ASSUME TypeInv, SoundInv, NEW r \in Requests, Step(r)
    PROVE  SoundInv'
<1> USE DEF TypeInv, TypeOK, Goto, local
<1>1. CASE FindFrom(r)
  BY <1>1 DEF FindFrom, RowsOf, SoundInv, Sound
<1>2. CASE CreateFrom(r)
  <2>1. <<r, input[r].from>> \in Rows
    BY <1>2, LookupAccounts DEF CreateFrom, Rows
  <2>2. Sound(<<r, input[r].from>>, ZeroBalance)
    BY <2>1 DEF Sound, ZeroBalance
  <2>3. QED
    BY <1>2, <2>1, <2>2 DEF CreateFrom, SoundInv, Sound
<1>3. CASE FindTo(r)
  BY <1>3 DEF FindTo, RowsOf, SoundInv, Sound
<1>4. CASE CreateTo(r)
  <2>1. <<r, input[r].to>> \in Rows
    BY <1>4, LookupAccounts DEF CreateTo, Rows
  <2>2. Sound(<<r, input[r].to>>, ZeroBalance)
    BY <2>1 DEF Sound, ZeroBalance
  <2>3. QED
    BY <1>4, <2>1, <2>2 DEF CreateTo, SoundInv, Sound
<1>5. CASE Reserve(r)
  <2>1. fromId[r] \in Rows /\ fromId[r] # None
    BY <1>5, RowsInUse, NoneIsNoRow DEF Reserve
  <2>2. input[r].amount \in Nat /\ from[r] \in Balance
    BY <1>5, RowsInUse DEF Reserve
  <2>3. CASE wallet' = wallet
    BY <1>5, <2>3 DEF Reserve, SoundInv, Sound
  <2>4. CASE ~(BalanceChecked(input[r])
               /\ Number(from[r].available) < Number(input[r].amount))
    <3>1. NumberIsExact /\ fromId[r][2] \in UserAccounts =>
             from[r].available >= input[r].amount
      <4>1. SUFFICES ASSUME NumberIsExact, fromId[r][2] \in UserAccounts
                     PROVE  from[r].available >= input[r].amount
        OBVIOUS
      <4>2. BalanceChecked(input[r])
        BY <1>5, <2>1, <4>1 DEF Reserve, Control, BalanceChecked, Takes
      <4>3. from[r].available \in Int
        BY <2>2 DEF Balance
      <4>4. QED
        BY <2>2, <2>4, <4>1, <4>2, <4>3 DEF NumberIsExact
    <3>2. Sound(fromId[r], Reserved(from[r], input[r].amount))
      <4>1. Sound(fromId[r], from[r])
        BY <2>1 DEF SoundInv
      <4>2. QED
        BY <2>2, <3>1, <4>1, SoundReserved
    <3>3. wallet' = [wallet EXCEPT ![fromId[r]] = Reserved(from[r], input[r].amount)]
      BY <1>5, <2>4 DEF Reserve
    <3>4. UNCHANGED <<credits, fromId, toId, from, to>>
      BY <1>5 DEF Reserve
    <3>5. QED
      BY <2>1, <3>2, <3>3, <3>4 DEF SoundInv, Sound
  <2>5. QED
    BY <1>5, <2>3, <2>4 DEF Reserve
<1>6. CASE CheckRef(r)
  BY <1>6 DEF CheckRef, SoundInv, Sound
<1>7. CASE CreateTransaction(r)
  BY <1>7 DEF CreateTransaction, SoundInv, Sound
<1>8. CASE ProcessTransaction(r)
  BY <1>8 DEF ProcessTransaction, SoundInv, Sound
<1>9. CASE LoadFrom(r)
  BY <1>9, RowsInUse DEF LoadFrom, SoundInv, Sound
<1>10. CASE LoadTo(r)
  BY <1>10, RowsInUse DEF LoadTo, SoundInv, Sound
<1>11. CASE DebitFrom(r)
  <2>1. fromId[r] \in Rows /\ fromId[r] # None
    BY <1>11, RowsInUse, NoneIsNoRow DEF DebitFrom
  <2>2. input[r].amount \in Nat /\ from[r] \in Balance
    BY <1>11, RowsInUse DEF DebitFrom
  <2>3. Sound(fromId[r], Debited(from[r], input[r].amount))
    <3>1. Sound(fromId[r], from[r])
      BY <2>1 DEF SoundInv
    <3>2. credits[fromId[r]] \in Nat
      BY <2>1
    <3>3. QED
      BY <2>2, <3>1, <3>2, SoundDebited
  <2>4. QED
    BY <1>11, <2>1, <2>3 DEF DebitFrom, SoundInv, Sound
<1>12. CASE Credit(r)
  <2> DEFINE n == input[r].amount
             t == toId[r]
  <2>1. t \in Rows /\ t # None
    BY <1>12, RowsInUse, NoneIsNoRow DEF Credit
  <2>2. n \in Nat /\ to[r] \in Balance
    BY <1>12, RowsInUse DEF Credit
  <2>3. /\ wallet' = [wallet EXCEPT ![t] = Credited(to[r], n)]
        /\ credits' = [credits EXCEPT ![t] = @ + n]
        /\ UNCHANGED <<fromId, toId, from, to>>
    BY <1>12 DEF Credit
  <2>4. credits'[t] = credits[t] + n
    BY <2>1, <2>3
  <2>5. ASSUME NEW w \in Rows PROVE credits'[w] >= credits[w]
    BY <2>1, <2>2, <2>3
  <2>6. ASSUME NEW w \in Rows, NEW b \in Balance, Sound(w, b)
        PROVE  b.available + b.locked = b.total /\ b.total <= credits'[w]
    <3>1. b.total \in Int /\ credits[w] \in Int /\ credits'[w] \in Int
      BY <2>1, <2>2, <2>3, FieldsAreInt
    <3>2. credits'[w] >= credits[w]
      BY <2>5
    <3>3. QED
      BY <2>6, <3>1, <3>2 DEF Sound
  <2>7. LET c == Credited(to[r], n)
        IN  /\ c.available + c.locked = c.total
            /\ c.total <= credits'[t]
            /\ NumberIsExact /\ t[2] \in UserAccounts => c.available >= 0
    <3>1. Sound(t, to[r])
      BY <2>1 DEF SoundInv
    <3>2. /\ to[r].available \in Int /\ to[r].locked \in Int
          /\ to[r].total \in Int /\ credits[t] \in Int
      BY <2>1, <2>2, FieldsAreInt
    <3>3. /\ (to[r].available + n) + to[r].locked = to[r].total + n
          /\ to[r].total + n <= credits[t] + n
      BY <2>2, <3>1, <3>2 DEF Sound
    <3>4. to[r].available >= 0 => to[r].available + n >= 0
      BY <2>2, <3>2
    <3>5. QED
      BY <2>4, <3>1, <3>3, <3>4 DEF Sound, Credited
  <2>8. \A w \in Rows : Sound(w, wallet[w])'
    <3>1. SUFFICES ASSUME NEW w \in Rows PROVE Sound(w, wallet[w])'
      OBVIOUS
    <3>2. CASE w = t
      BY <2>1, <2>3, <2>7, <3>2 DEF Sound
    <3>3. CASE w # t
      <4>1. wallet'[w] = wallet[w] /\ wallet[w] \in Balance
        BY <2>3, <3>3
      <4>2. Sound(w, wallet[w])
        BY DEF SoundInv
      <4>3. QED
        BY <4>1, <4>2, <2>6 DEF Sound
    <3>4. QED
      BY <3>2, <3>3
  <2>9. \A q \in Requests : fromId'[q] # None => Sound(fromId[q], from[q])'
    BY <2>3, <2>6 DEF SoundInv, Sound
  <2>10. \A q \in Requests : toId'[q] # None => Sound(toId[q], to[q])'
    BY <2>3, <2>6 DEF SoundInv, Sound
  <2>11. QED
    BY <2>8, <2>9, <2>10 DEF SoundInv
<1>13. CASE MarkSuccess(r)
  BY <1>13 DEF MarkSuccess, SoundInv, Sound
<1>14. CASE Fail(r)
  BY <1>14 DEF Fail, SoundInv, Sound
<1>15. QED
  BY <1>1, <1>2, <1>3, <1>4, <1>5, <1>6, <1>7, <1>8, <1>9, <1>10, <1>11, <1>12,
     <1>13, <1>14 DEF Step

LEMMA NextSoundInv == TypeInv /\ SoundInv /\ [Next]_vars => SoundInv'
<1>1. SUFFICES ASSUME TypeInv, SoundInv, [Next]_vars PROVE SoundInv'
  OBVIOUS
<1>2. CASE UNCHANGED vars
  BY <1>1, <1>2 DEF vars, local, SoundInv, Sound
<1>3. ASSUME NEW r \in Requests, Step(r) PROVE SoundInv'
  BY <1>1, <1>3, StepSoundInv
<1>4. ASSUME NEW r \in Requests, NEW i \in Inputs, Begin(r, i) PROVE SoundInv'
  BY <1>1, <1>4 DEF Begin, Submit, GetMyWallets, SoundInv, Sound
<1>5. QED
  BY <1>1, <1>2, <1>3, <1>4 DEF Next

LEMMA SoundInvariant == Spec => [](TypeInv /\ SoundInv)
<1>1. Init => TypeInv /\ SoundInv
  BY InitTypeInv, InitSoundInv
<1>2. TypeInv /\ SoundInv /\ [Next]_vars => TypeInv' /\ SoundInv'
  BY NextTypeInv, NextSoundInv
<1>3. QED
  BY <1>1, <1>2, PTL DEF Spec

\* In every interleaving, with failures anywhere, the three balances of every
\* row add up (submitTransaction, processTransaction).
THEOREM RowsAlwaysBalance == Spec => []RowBalanced
<1>1. TypeInv /\ SoundInv => RowBalanced
  BY DEF TypeInv, TypeOK, SoundInv, Sound, RowBalanced
<1>2. QED
  BY <1>1, SoundInvariant, PTL

\* Lost updates never create money: no row's total exceeds what was credited
\* to it (processTransaction).
THEOREM NoMoneyFromNothing == Spec => []CreditBound
<1>1. TypeInv /\ SoundInv => CreditBound
  BY DEF TypeInv, TypeOK, SoundInv, Sound, CreditBound
<1>2. QED
  BY <1>1, SoundInvariant, PTL

\* If Number() did not round, no interleaving would overdraw a user
\* (the 'Insufficient balance' check of submitTransaction).
THEOREM NoUserOverdrawn ==
    ASSUME NumberIsExact
    PROVE  Spec => []NoOverdraft
<1>1. TypeInv /\ SoundInv => NoOverdraft
  BY NumberIsExact DEF TypeInv, TypeOK, SoundInv, Sound, NoOverdraft
<1>2. QED
  BY <1>1, SoundInvariant, PTL
===============================================================================
