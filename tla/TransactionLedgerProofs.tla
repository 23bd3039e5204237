------------------------ MODULE TransactionLedgerProofs ------------------------
(***************************************************************************)
(* For any number of requests, accounts and amounts: when requests on one  *)
(* account are kept apart, an account has one row, a refId one record, no  *)
(* user has spent more than was credited, and the service does what Ledger *)
(* promises.                                                               *)
(*                                                                         *)
(* A request in flight has the rows of its accounts for itself, so that    *)
(* the copies it writes back are what it would read.  An account then is   *)
(* its one row.                                                            *)
(***************************************************************************)
EXTENDS TransactionLedger, TransactionServiceProofs, SumTheorems

Moving(r) == pc[r] \in InFlight

\* Requests in flight have no account in common.
KeptApart ==
    /\ \A q, r \in Requests :
          q # r /\ Moving(q) /\ Moving(r) => Touched(input[q]) \cap Touched(input[r]) = {}
    /\ \A r \in Requests : Moving(r) /\ input[r].from = input[r].to => input[r].from = None

\* What a row is before it is inserted, and always.
RowsInv ==
    /\ OneWalletPerAccount
    /\ \A w \in Rows \ exists : wallet[w] = ZeroBalance /\ credits[w] = 0
    /\ \A w \in Rows : wallet[w].locked >= 0

\* Between the reservation and the debit.
Holding == {"checkRef", "create", "process", "loadFrom", "loadTo", "debitFrom"}

\* The rows a request found or made, and what it knows of them.
Knows(r) ==
    /\ fromId[r] # None => fromId[r] \in exists
    /\ toId[r] # None => toId[r] \in exists /\ toId[r][2] = input[r].to
    /\ pc[r] = "createFrom" => RowsOf(input[r].from) = {}
    /\ pc[r] = "createTo" => RowsOf(input[r].to) = {}
    /\ Takes(r) /\ pc[r] \in {"findTo", "createTo", "reserve", "loadTo", "debitFrom"} =>
          from[r] = wallet[fromId[r]]
    /\ pc[r] \in {"debitFrom", "credit"} => to[r] = wallet[toId[r]]
    /\ pc[r] \in Holding /\ input[r].kind = "TRANSFER" =>
          input[r].amount <= wallet[fromId[r]].locked

\* When a request has a record, and what it asked for.
Recorded(r) ==
    /\ pc[r] # "idle" => input[r] \in Inputs
    /\ pc[r] \in {"idle", "findFrom", "createFrom", "findTo", "createTo",
                  "reserve", "checkRef", "create"} => txn[r] = None
    /\ pc[r] \in {"process", "loadFrom", "loadTo", "debitFrom", "credit", "markSuccess"} =>
          txn[r] # None

SerialInv ==
    /\ TypeInv
    /\ SoundInv
    /\ KeptApart
    /\ RowsInv
    /\ \A r \in Requests : Knows(r) /\ Recorded(r)

\* A request that is about to make its record has found none with its refId.
RefInv ==
    /\ RefIdUnique
    /\ \A r \in Requests :
          pc[r] = "create" /\ input[r].ref # None =>
              \A q \in Requests : txn[q] # None => input[q].ref # input[r].ref

\* What a request has reserved and not yet recorded.
Reserving(r) == pc[r] \in {"checkRef", "create"} /\ Takes(r)

\* What an account holder may still spend, has spent and is about to is covered.
Covered ==
    /\ \A a \in Accounts : IsFiniteSet(SpendingFrom(a))
    /\ \A a \in Accounts : SpentBy(a) + BalanceOf(a).available <= CreditedTo(a)
    /\ \A a \in Accounts, r \in Requests : Reserving(r) /\ input[r].from = a =>
          SpentBy(a) + input[r].amount + BalanceOf(a).available <= CreditedTo(a)

-------------------------------------------------------------------------------
\* What a step of r writes: rows of its accounts alone.
LEMMA StepTouches ==
    ASSUME SerialInv, NEW r \in Requests, Step(r)
    PROVE  /\ exists \subseteq exists' /\ exists' \subseteq Rows
           /\ \A w \in Rows : w[2] \notin Touched(input[r]) =>
                 /\ wallet'[w] = wallet[w] /\ credits'[w] = credits[w]
                 /\ w \in exists' => w \in exists
<1>1. /\ TypeInv /\ TypeOK /\ Control(r) /\ None \notin Accounts
      /\ exists \subseteq Rows /\ wallet \in [Rows -> Balance] /\ credits \in [Rows -> Nat]
    BY NoneIsFresh DEF SerialInv, TypeInv, TypeOK
<1>2. /\ pc[r] \in {"findFrom", "createFrom"} => input[r].from \in Touched(input[r])
      /\ pc[r] \in {"findTo", "createTo"} => input[r].to \in Touched(input[r])
    BY <1>1, LookupAccounts DEF Touched
<1>3. /\ pc[r] \in {"reserve", "debitFrom"} =>
             fromId[r] \in Rows /\ fromId[r][2] \in Touched(input[r])
      /\ pc[r] = "credit" => toId[r] \in Rows /\ toId[r][2] \in Touched(input[r])
  <2>1. /\ pc[r] \in {"reserve", "debitFrom"} => fromId[r] \in Rows
        /\ pc[r] = "credit" => toId[r] \in Rows
    BY <1>1, RowsInUse
  <2>2. /\ fromId[r] \in Rows => fromId[r][2] = input[r].from /\ input[r].from \in Accounts
        /\ toId[r] \in Rows => toId[r][2] = input[r].to /\ input[r].to \in Accounts
    BY <1>1, NoneIsNoRow DEF SerialInv, Knows, Control, Rows
  <2> QED BY <1>1, <2>1, <2>2 DEF Touched
<1>4. CASE UNCHANGED <<exists, wallet, credits>>
    BY <1>1, <1>4
<1>5. CASE CreateFrom(r)
  <2>1. pc[r] = "createFrom" /\ exists' = exists \cup {<<r, input[r].from>>}
        /\ UNCHANGED <<wallet, credits>> /\ input[r].from \in Accounts
    BY <1>1, <1>5, LookupAccounts DEF CreateFrom
  <2> QED BY <1>1, <1>2, <2>1 DEF Rows
<1>6. CASE CreateTo(r)
  <2>1. pc[r] = "createTo" /\ exists' = exists \cup {<<r, input[r].to>>}
        /\ UNCHANGED <<wallet, credits>> /\ input[r].to \in Accounts
    BY <1>1, <1>6, LookupAccounts DEF CreateTo
  <2> QED BY <1>1, <1>2, <2>1 DEF Rows
<1>7. CASE Reserve(r)
    BY <1>1, <1>3, <1>7 DEF Reserve
<1>8. CASE DebitFrom(r)
    BY <1>1, <1>3, <1>8 DEF DebitFrom
<1>9. CASE Credit(r)
    BY <1>1, <1>3, <1>9 DEF Credit
<1> QED BY <1>4, <1>5, <1>6, <1>7, <1>8, <1>9
    DEF Step, FindFrom, FindTo, CheckRef, CreateTransaction, ProcessTransaction, LoadFrom,
        LoadTo, MarkSuccess, Fail

\* What stays of a request and its record when another takes a step.
LEMMA OthersKnow ==
    ASSUME SerialInv, NEW r \in Requests, Step(r), NEW q \in Requests, q # r
    PROVE  Knows(q)' /\ Recorded(q)'
<1>1. TypeInv /\ TypeOK /\ Control(q) /\ Knows(q) /\ Recorded(q) /\ None \notin Accounts
    BY NoneIsFresh DEF SerialInv, TypeInv
<1>2. Untouched(q)
    BY <1>1, StepUntouched
<1>3. txn'[q] = txn[q]
    BY <1>1 DEF TypeOK, Step, FindFrom, CreateFrom, FindTo, CreateTo, Reserve, CheckRef,
       CreateTransaction, ProcessTransaction, LoadFrom, LoadTo, DebitFrom, Credit,
       MarkSuccess, Fail, local
<1>4. Recorded(q)'
    BY <1>1, <1>2, <1>3 DEF Recorded, Untouched
<1>5. Moving(r)
    BY DEF Moving, InFlight, Step, FindFrom, CreateFrom, FindTo, CreateTo, Reserve, CheckRef,
       CreateTransaction, ProcessTransaction, LoadFrom, LoadTo, DebitFrom, Credit,
       MarkSuccess, Fail
<1>6. exists \subseteq exists' /\ exists' \subseteq Rows /\ exists \subseteq Rows
    BY <1>1, StepTouches DEF TypeOK
<1>7. CASE ~Moving(q)
    BY <1>1, <1>2, <1>4, <1>6, <1>7 DEF Knows, Untouched, Moving, InFlight, Holding
<1>8. CASE Moving(q)
  <2>1. Touched(input[q]) \cap Touched(input[r]) = {}
    BY <1>5, <1>8 DEF SerialInv, KeptApart
  <2>2. ASSUME NEW w \in Rows, w[2] \in {input[q].from, input[q].to}
        PROVE  wallet'[w] = wallet[w] /\ (w \in exists' <=> w \in exists)
    <3>1. w[2] \in Accounts
      BY DEF Rows
    <3>2. w[2] \notin Touched(input[r])
      BY <1>1, <2>1, <2>2, <3>1 DEF Touched
    <3> QED BY <1>6, <3>2, StepTouches
  <2>3. /\ fromId[q] \in Rows => wallet'[fromId[q]] = wallet[fromId[q]]
        /\ toId[q] \in Rows => wallet'[toId[q]] = wallet[toId[q]]
    BY <1>1, <2>2, NoneIsNoRow DEF Knows, Control
  <2>4. /\ RowsOf(input[q].from)' = RowsOf(input[q].from)
        /\ RowsOf(input[q].to)' = RowsOf(input[q].to)
    BY <1>2, <1>6, <2>2 DEF RowsOf, Untouched
  <2>5. /\ Takes(q) /\ pc[q] \in {"findTo", "createTo", "reserve", "loadTo", "debitFrom"} \cup Holding
             => fromId[q] \in Rows
        /\ pc[q] \in {"debitFrom", "credit"} /\ Gives(q) => toId[q] \in Rows
        /\ pc[q] \in {"debitFrom", "credit"} => Gives(q)
        /\ input[q].kind = "TRANSFER" => Takes(q)
    BY <1>1 DEF Control, Past, Takes, Gives, Holding
  <2>6. Takes(q)' <=> Takes(q)
    BY <1>2 DEF Takes, Untouched
  <2>7. /\ pc'[q] = pc[q] /\ input'[q] = input[q] /\ fromId'[q] = fromId[q]
        /\ toId'[q] = toId[q] /\ from'[q] = from[q] /\ to'[q] = to[q]
    BY <1>2 DEF Untouched
  <2>8. /\ fromId'[q] # None => fromId'[q] \in exists'
        /\ toId'[q] # None => toId'[q] \in exists' /\ toId'[q][2] = input'[q].to
        /\ pc'[q] = "createFrom" => RowsOf(input[q].from)' = {}
        /\ pc'[q] = "createTo" => RowsOf(input[q].to)' = {}
    BY <1>1, <1>6, <2>4, <2>7 DEF Knows
  <2>9. Takes(q) /\ pc'[q] \in {"findTo", "createTo", "reserve", "loadTo", "debitFrom"} =>
            from'[q] = wallet'[fromId'[q]]
    BY <1>1, <2>3, <2>5, <2>7 DEF Knows
  <2>10. pc'[q] \in {"debitFrom", "credit"} => to'[q] = wallet'[toId'[q]]
    BY <1>1, <2>3, <2>5, <2>7 DEF Knows
  <2>11. pc'[q] \in Holding /\ input'[q].kind = "TRANSFER" =>
            input'[q].amount <= wallet'[fromId'[q]].locked
    BY <1>1, <2>3, <2>5, <2>7 DEF Knows
  <2> QED BY <1>4, <2>6, <2>8, <2>9, <2>10, <2>11 DEF Knows
<1> QED BY <1>4, <1>7, <1>8

\* A write of one row with a copy that owes nothing that is locked.
LEMMA WriteKeepsRows ==
    ASSUME SerialInv, NEW w \in exists, NEW b \in Balance, b.locked >= 0,
           wallet' = [wallet EXCEPT ![w] = b], exists' = exists,
           \A v \in Rows \ {w} : credits'[v] = credits[v]
    PROVE  RowsInv' /\ wallet'[w] = b /\ \A v \in Rows \ {w} : wallet'[v] = wallet[v]
<1>1. /\ RowsInv /\ w \in Rows /\ wallet \in [Rows -> Balance]
    BY DEF SerialInv, TypeInv, TypeOK
<1>2. wallet'[w] = b /\ \A v \in Rows \ {w} : wallet'[v] = wallet[v]
    BY <1>1
<1>3. OneWalletPerAccount'
    BY <1>1 DEF RowsInv, OneWalletPerAccount
<1> QED BY <1>1, <1>2, <1>3 DEF RowsInv

\* The insert of a row where the account has none.
LEMMA InsertKeepsRows ==
    ASSUME SerialInv, NEW r \in Requests, NEW a \in Accounts, RowsOf(a) = {},
           exists' = exists \cup {<<r, a>>}, UNCHANGED <<wallet, credits>>
    PROVE  RowsInv' /\ <<r, a>> \in Rows /\ wallet[<<r, a>>] = ZeroBalance
<1>1. RowsInv /\ exists \subseteq Rows
    BY DEF SerialInv, TypeInv, TypeOK
<1>2. <<r, a>> \in Rows /\ <<r, a>>[2] = a
    BY DEF Rows
<1>3. \A v \in exists : v[2] # a
    BY DEF RowsOf
<1>4. OneWalletPerAccount'
    BY <1>1, <1>2, <1>3 DEF RowsInv, OneWalletPerAccount
<1>5. <<r, a>> \notin exists
    BY <1>2, <1>3
<1> QED BY <1>1, <1>2, <1>4, <1>5 DEF RowsInv

-------------------------------------------------------------------------------
\* What a request's own step leaves it with.  First the lookups, ...
LEMMA FindFromKnows ==
    ASSUME SerialInv, NEW r \in Requests, FindFrom(r) PROVE RowsInv' /\ Knows(r)'
<1>1. /\ TypeOK /\ Control(r) /\ Knows(r) /\ RowsInv /\ exists \subseteq Rows
      /\ pc[r] = "findFrom" /\ UNCHANGED <<exists, wallet, credits, input, toId, to>>
    BY DEF SerialInv, TypeInv, TypeOK, FindFrom
<1>2. RowsInv'
    BY <1>1 DEF RowsInv, OneWalletPerAccount
<1>3. /\ toId'[r] # None => toId'[r] \in exists' /\ toId'[r][2] = input'[r].to
      /\ RowsOf(input[r].from)' = RowsOf(input[r].from) /\ (Takes(r)' <=> Takes(r))
    BY <1>1 DEF Knows, RowsOf, Takes
<1>4. CASE RowsOf(input[r].from) = {} /\ Goto(r, "createFrom") /\ UNCHANGED <<fromId, from>>
  <2>1. pc'[r] = "createFrom"
    BY <1>1, <1>4 DEF Goto, TypeOK
  <2> QED BY <1>1, <1>2, <1>3, <1>4, <2>1 DEF Knows, Holding
<1>5. ASSUME NEW w \in RowsOf(input[r].from),
             fromId' = [fromId EXCEPT ![r] = w], from' = [from EXCEPT ![r] = wallet[w]],
             Goto(r, AfterFrom(input[r]))
      PROVE  Knows(r)'
  <2>1. /\ w \in exists /\ fromId'[r] = w /\ from'[r] = wallet'[w]
        /\ pc'[r] \in {"reserve", "findTo"}
    BY <1>1, <1>5 DEF Goto, TypeOK, RowsOf, AfterFrom
  <2> QED BY <1>1, <1>3, <2>1 DEF Knows, Holding
<1> QED BY <1>2, <1>4, <1>5 DEF FindFrom

LEMMA FindToKnows ==
    ASSUME SerialInv, NEW r \in Requests, FindTo(r) PROVE RowsInv' /\ Knows(r)'
<1>1. /\ TypeOK /\ Control(r) /\ Knows(r) /\ RowsInv /\ exists \subseteq Rows
      /\ pc[r] = "findTo" /\ UNCHANGED <<exists, wallet, credits, input, fromId, from>>
    BY DEF SerialInv, TypeInv, TypeOK, FindTo
<1>2. RowsInv'
    BY <1>1 DEF RowsInv, OneWalletPerAccount
<1>3. /\ fromId'[r] # None => fromId'[r] \in exists'
      /\ RowsOf(input[r].to)' = RowsOf(input[r].to) /\ (Takes(r)' <=> Takes(r))
      /\ Takes(r) => from'[r] = wallet'[fromId'[r]]
    BY <1>1 DEF Knows, RowsOf, Takes
<1>4. CASE RowsOf(input[r].to) = {} /\ Goto(r, "createTo") /\ UNCHANGED <<toId, to>>
  <2>1. pc'[r] = "createTo"
    BY <1>1, <1>4 DEF Goto, TypeOK
  <2> QED BY <1>1, <1>2, <1>3, <1>4, <2>1 DEF Knows, Holding
<1>5. ASSUME NEW w \in RowsOf(input[r].to),
             toId' = [toId EXCEPT ![r] = w], to' = [to EXCEPT ![r] = wallet[w]],
             Goto(r, AfterTo(input[r]))
      PROVE  Knows(r)'
  <2>1. /\ w \in exists /\ w[2] = input[r].to /\ toId'[r] = w
        /\ pc'[r] \in {"reserve", "done", "checkRef", "create"}
        /\ input[r].kind = "TRANSFER" => pc'[r] = "reserve"
    BY <1>1, <1>5 DEF Goto, TypeOK, RowsOf, AfterTo, AfterReserve
  <2> QED BY <1>1, <1>3, <2>1 DEF Knows, Holding
<1> QED BY <1>2, <1>4, <1>5 DEF FindTo

LEMMA CreateFromKnows ==
    ASSUME SerialInv, NEW r \in Requests, CreateFrom(r) PROVE RowsInv' /\ Knows(r)'
<1> DEFINE w == <<r, input[r].from>>
<1>1. /\ TypeOK /\ Control(r) /\ Knows(r) /\ input[r].from \in Accounts
      /\ pc[r] = "createFrom" /\ RowsOf(input[r].from) = {}
      /\ exists' = exists \cup {w}
      /\ fromId' = [fromId EXCEPT ![r] = w] /\ from' = [from EXCEPT ![r] = ZeroBalance]
      /\ Goto(r, AfterFrom(input[r])) /\ UNCHANGED <<wallet, credits, input, toId, to>>
    BY LookupAccounts DEF SerialInv, TypeInv, CreateFrom, Knows
<1>2. RowsInv' /\ w \in Rows /\ wallet[w] = ZeroBalance
    BY <1>1, InsertKeepsRows
<1>3. /\ fromId'[r] = w /\ w \in exists' /\ from'[r] = wallet'[w]
      /\ pc'[r] \in {"reserve", "findTo"}
    BY <1>1, <1>2 DEF Goto, TypeOK, AfterFrom
<1>4. toId'[r] # None => toId'[r] \in exists' /\ toId'[r][2] = input'[r].to
    BY <1>1 DEF Knows
<1> HIDE DEF w
<1> QED BY <1>1, <1>2, <1>3, <1>4 DEF Knows, Holding

LEMMA CreateToKnows ==
    ASSUME SerialInv, NEW r \in Requests, CreateTo(r) PROVE RowsInv' /\ Knows(r)'
<1> DEFINE w == <<r, input[r].to>>
<1>1. /\ TypeOK /\ Control(r) /\ Knows(r) /\ input[r].to \in Accounts
      /\ pc[r] = "createTo" /\ RowsOf(input[r].to) = {}
      /\ exists' = exists \cup {w}
      /\ toId' = [toId EXCEPT ![r] = w] /\ to' = [to EXCEPT ![r] = ZeroBalance]
      /\ Goto(r, AfterTo(input[r])) /\ UNCHANGED <<wallet, credits, input, fromId, from>>
    BY LookupAccounts DEF SerialInv, TypeInv, CreateTo, Knows
<1>2. RowsInv' /\ w \in Rows /\ wallet[w] = ZeroBalance
    BY <1>1, InsertKeepsRows
<1>3. /\ toId'[r] = w /\ w \in exists' /\ w[2] = input'[r].to
      /\ pc'[r] \in {"reserve", "done", "checkRef", "create"}
      /\ input[r].kind = "TRANSFER" => pc'[r] = "reserve"
    BY <1>1, <1>2 DEF Goto, TypeOK, AfterTo, AfterReserve
<1>4. /\ fromId'[r] # None => fromId'[r] \in exists' /\ (Takes(r)' <=> Takes(r))
      /\ Takes(r) => from'[r] = wallet'[fromId'[r]]
    BY <1>1 DEF Knows, Takes
<1>5. Takes(r)' <=> Takes(r)
    BY <1>1 DEF Takes
<1> HIDE DEF w
<1> QED BY <1>1, <1>2, <1>3, <1>4, <1>5 DEF Knows, Holding

\* ... then the steps that write no row, ...
LEMMA QuietKnows ==
    ASSUME SerialInv, NEW r \in Requests,
           CheckRef(r) \/ CreateTransaction(r) \/ ProcessTransaction(r) \/ LoadFrom(r)
               \/ LoadTo(r) \/ MarkSuccess(r) \/ Fail(r)
    PROVE  RowsInv' /\ Knows(r)'
<1>1. /\ TypeOK /\ Control(r) /\ Knows(r) /\ RowsInv
      /\ UNCHANGED <<exists, wallet, credits, input, fromId, toId>>
    BY DEF SerialInv, TypeInv, CheckRef, CreateTransaction, ProcessTransaction, LoadFrom,
       LoadTo, MarkSuccess, Fail, local
<1>2. RowsInv'
    BY <1>1 DEF RowsInv, OneWalletPerAccount
<1>3. /\ fromId'[r] # None => fromId'[r] \in exists'
      /\ toId'[r] # None => toId'[r] \in exists' /\ toId'[r][2] = input'[r].to
      /\ Takes(r)' <=> Takes(r)
    BY <1>1 DEF Knows, Takes
<1>4. CASE CheckRef(r)
  <2>1. pc'[r] \in {"threw", "create"} /\ pc[r] = "checkRef"
    BY <1>1, <1>4 DEF CheckRef, Goto, TypeOK
  <2> QED BY <1>1, <1>2, <1>3, <2>1 DEF Knows, Holding
<1>5. CASE CreateTransaction(r)
  <2>1. pc'[r] = "process" /\ pc[r] = "create"
    BY <1>1, <1>5 DEF CreateTransaction, Goto, TypeOK
  <2> QED BY <1>1, <1>2, <1>3, <2>1 DEF Knows, Holding
<1>6. CASE ProcessTransaction(r)
  <2>1. /\ pc[r] = "process" /\ pc'[r] \in {"done", "loadTo", "loadFrom"}
        /\ pc'[r] = "loadTo" => input[r].kind = "DEPOSIT"
    BY <1>1, <1>6 DEF ProcessTransaction, Goto, TypeOK
  <2>2. pc'[r] = "loadTo" => ~Takes(r)
    BY <2>1 DEF Takes
  <2> QED BY <1>1, <1>2, <1>3, <2>1, <2>2 DEF Knows, Holding
<1>7. CASE LoadFrom(r)
  <2>1. /\ pc[r] = "loadFrom" /\ pc'[r] = "loadTo"
        /\ from'[r] = wallet'[fromId'[r]]
    BY <1>1, <1>7 DEF LoadFrom, Goto, TypeOK
  <2> QED BY <1>1, <1>2, <1>3, <2>1 DEF Knows, Holding
<1>8. CASE LoadTo(r)
  <2>1. /\ pc[r] = "loadTo" /\ pc'[r] \in {"debitFrom", "credit"}
        /\ to'[r] = wallet'[toId'[r]] /\ from'[r] = from[r]
    BY <1>1, <1>8 DEF LoadTo, Goto, TypeOK
  <2> QED BY <1>1, <1>2, <1>3, <2>1 DEF Knows, Holding
<1>9. CASE MarkSuccess(r) \/ Fail(r)
  <2>1. pc'[r] \in {"done", "failed"}
    BY <1>1, <1>9 DEF MarkSuccess, Fail, Goto, TypeOK
  <2> QED BY <1>1, <1>2, <1>3, <2>1 DEF Knows, Holding
<1> QED BY <1>4, <1>5, <1>6, <1>7, <1>8, <1>9

\* ... and the writes, of a copy that is still what the row holds.
LEMMA ReserveKnows ==
    ASSUME SerialInv, NEW r \in Requests, Reserve(r) PROVE RowsInv' /\ Knows(r)'
<1> DEFINE n == input[r].amount
           w == fromId[r]
<1>1. /\ TypeOK /\ Control(r) /\ Knows(r) /\ RowsInv /\ pc[r] = "reserve"
      /\ UNCHANGED <<exists, txn, input, fromId, toId, from, to, credits>>
    BY DEF SerialInv, TypeInv, Reserve, local
<1>2. /\ w \in Rows /\ w \in exists /\ n \in Nat /\ Takes(r) /\ from[r] = wallet[w]
      /\ wallet[w] \in Balance /\ wallet[w].locked >= 0
    BY <1>1, RowsInUse, NoneIsNoRow DEF SerialInv, Knows, Control, RowsInv, TypeOK
<1>3. n \in Nat /\ from[r] \in Balance
    BY <1>2
<1>9. /\ fromId'[r] # None => fromId'[r] \in exists'
      /\ toId'[r] # None => toId'[r] \in exists' /\ toId'[r][2] = input'[r].to
    BY <1>1 DEF Knows
<1>4. CASE Goto(r, "threw") /\ UNCHANGED wallet
  <2>1. RowsInv' /\ pc'[r] = "threw"
    BY <1>1, <1>4 DEF RowsInv, OneWalletPerAccount, Goto, TypeOK
  <2> QED BY <1>9, <2>1 DEF Knows, Holding
<1>5. CASE /\ wallet' = [wallet EXCEPT ![w] = Reserved(from[r], n)]
           /\ Goto(r, AfterReserve(input[r]))
  <2>1. /\ Reserved(from[r], n) \in Balance /\ Reserved(from[r], n).locked = from[r].locked + n
        /\ from[r].locked \in Int
    BY <1>3, BalanceArithmetic, FieldsAreInt
  <2>2. Reserved(from[r], n).locked >= 0 /\ n <= Reserved(from[r], n).locked
    BY <1>2, <2>1
  <2>3. RowsInv' /\ wallet'[w] = Reserved(from[r], n)
    BY <1>1, <1>2, <1>5, <2>1, <2>2, WriteKeepsRows
  <2>4. pc'[r] \in {"create", "checkRef"}
    BY <1>1, <1>5 DEF Goto, TypeOK, AfterReserve
  <2>5. input'[r].amount <= wallet'[fromId'[r]].locked
    BY <1>1, <2>2, <2>3
  <2> QED BY <1>9, <2>3, <2>4, <2>5 DEF Knows, Holding
<1> QED BY <1>4, <1>5 DEF Reserve

LEMMA DebitFromKnows ==
    ASSUME SerialInv, NEW r \in Requests, DebitFrom(r) PROVE RowsInv' /\ Knows(r)'
<1> DEFINE n == input[r].amount
           w == fromId[r]
<1>1. /\ TypeOK /\ Control(r) /\ Knows(r) /\ RowsInv /\ pc[r] = "debitFrom"
      /\ UNCHANGED <<exists, txn, input, fromId, toId, from, to, credits>>
      /\ wallet' = [wallet EXCEPT ![w] = Debited(from[r], n)] /\ Goto(r, "credit")
    BY DEF SerialInv, TypeInv, DebitFrom, local
<1>2. /\ w \in Rows /\ w \in exists /\ n \in Nat /\ input[r].kind = "TRANSFER"
      /\ from[r] = wallet[w] /\ wallet[w] \in Balance /\ n <= wallet[w].locked
    BY <1>1, RowsInUse, NoneIsNoRow DEF SerialInv, Knows, Control, TypeOK, Takes, Holding
<1>3. n \in Nat /\ from[r] \in Balance
    BY <1>2
<1>9. /\ fromId'[r] # None => fromId'[r] \in exists'
      /\ toId'[r] # None => toId'[r] \in exists' /\ toId'[r][2] = input'[r].to
    BY <1>1 DEF Knows
<1>4. /\ Debited(from[r], n) \in Balance /\ Debited(from[r], n).locked = from[r].locked - n
      /\ from[r].locked \in Int
    BY <1>3, BalanceArithmetic, FieldsAreInt
<1>5. Debited(from[r], n).locked >= 0
    BY <1>2, <1>4
<1>6. RowsInv' /\ \A v \in Rows \ {w} : wallet'[v] = wallet[v]
    BY <1>1, <1>2, <1>4, <1>5, WriteKeepsRows
<1>7. toId[r] \in Rows /\ toId[r] # w
  <2>1. Moving(r) /\ toId[r] \in Rows
    BY <1>1, <1>2 DEF Moving, InFlight, Control, Past, Gives
  <2>2. input[r].from # input[r].to
    BY <1>1, <1>2, <2>1 DEF SerialInv, KeptApart, Control, Moving, Takes
  <2> QED BY <1>1, <1>2, <2>1, <2>2, NoneIsNoRow DEF Control, Knows
<1>8. to'[r] = wallet'[toId'[r]] /\ pc'[r] = "credit"
    BY <1>1, <1>6, <1>7 DEF Knows, Goto, TypeOK
<1> QED BY <1>6, <1>8, <1>9 DEF Knows, Holding

LEMMA CreditKnows ==
    ASSUME SerialInv, NEW r \in Requests, Credit(r) PROVE RowsInv' /\ Knows(r)'
<1> DEFINE n == input[r].amount
           w == toId[r]
<1>1. /\ TypeOK /\ Control(r) /\ Knows(r) /\ RowsInv /\ pc[r] = "credit"
      /\ UNCHANGED <<exists, txn, input, fromId, toId, from, to>>
      /\ wallet' = [wallet EXCEPT ![w] = Credited(to[r], n)]
      /\ credits' = [credits EXCEPT ![w] = @ + n] /\ Goto(r, "markSuccess")
    BY DEF SerialInv, TypeInv, Credit, local
<1>2. /\ w \in Rows /\ w \in exists /\ n \in Nat /\ to[r] = wallet[w]
      /\ wallet[w] \in Balance /\ wallet[w].locked >= 0
    BY <1>1, RowsInUse, NoneIsNoRow DEF SerialInv, Knows, RowsInv, TypeOK
<1>3. Credited(to[r], n) \in Balance /\ Credited(to[r], n).locked = to[r].locked
  <2>1. to[r] \in Balance /\ n \in Nat
    BY <1>2
  <2> QED BY <2>1, BalanceArithmetic
<1>4. \A v \in Rows \ {w} : credits'[v] = credits[v]
    BY <1>1, <1>2 DEF TypeOK
<1>5. RowsInv'
    BY <1>1, <1>2, <1>3, <1>4, WriteKeepsRows
<1>6. /\ fromId'[r] # None => fromId'[r] \in exists'
      /\ toId'[r] # None => toId'[r] \in exists' /\ toId'[r][2] = input'[r].to
      /\ pc'[r] = "markSuccess"
    BY <1>1 DEF Knows, Goto, TypeOK
<1> QED BY <1>5, <1>6 DEF Knows, Holding

LEMMA StepRecorded ==
    ASSUME SerialInv, NEW r \in Requests, Step(r) PROVE Recorded(r)'
<1>1. TypeOK /\ Recorded(r) /\ Control(r)
    BY DEF SerialInv, TypeInv
<1>2. input'[r] = input[r] /\ pc[r] # "idle"
    BY DEF Step, FindFrom, CreateFrom, FindTo, CreateTo, Reserve, CheckRef, CreateTransaction,
       ProcessTransaction, LoadFrom, LoadTo, DebitFrom, Credit, MarkSuccess, Fail, local, InFlight
<1>3. CASE FindFrom(r) \/ CreateFrom(r) \/ FindTo(r) \/ CreateTo(r) \/ Reserve(r) \/ CheckRef(r)
  <2>1. txn'[r] = None /\ pc'[r] \in {"createFrom", "findTo", "createTo", "reserve", "checkRef",
                                     "create", "threw", "done"}
    BY <1>1, <1>3 DEF Recorded, FindFrom, CreateFrom, FindTo, CreateTo, Reserve, CheckRef, Goto,
       TypeOK, AfterFrom, AfterTo, AfterReserve
  <2> QED BY <1>1, <1>2, <2>1 DEF Recorded
<1>4. CASE CreateTransaction(r) \/ ProcessTransaction(r) \/ LoadFrom(r) \/ LoadTo(r)
             \/ DebitFrom(r) \/ Credit(r) \/ MarkSuccess(r) \/ Fail(r)
  <2>1. pc'[r] \in {"process", "done", "loadTo", "loadFrom", "debitFrom", "credit",
                    "markSuccess", "failed"}
    BY <1>1, <1>4 DEF CreateTransaction, ProcessTransaction, LoadFrom, LoadTo, DebitFrom,
       Credit, MarkSuccess, Fail, Goto, TypeOK
  <2>2. pc'[r] \in {"done", "failed"} \/ txn'[r] # None
    BY <1>1, <1>4, NoneIsFresh DEF Recorded, CreateTransaction, ProcessTransaction, LoadFrom,
       LoadTo, DebitFrom, Credit, MarkSuccess, Fail, Goto, TypeOK
  <2> QED BY <1>1, <1>2, <2>1, <2>2 DEF Recorded
<1> QED BY <1>3, <1>4 DEF Step

-------------------------------------------------------------------------------
\* A step of a request, and the start of one that is alone on its accounts.
LEMMA StepSerialInv ==
    ASSUME SerialInv, NEW r \in Requests, Step(r) PROVE SerialInv'
<1>1. TypeInv /\ TypeOK /\ SoundInv /\ KeptApart
    BY DEF SerialInv, TypeInv
<1>2. TypeInv' /\ SoundInv'
    BY <1>1, NextTypeInv, NextSoundInv DEF Next
<1>3. RowsInv' /\ Knows(r)'
    BY FindFromKnows, CreateFromKnows, FindToKnows, CreateToKnows, ReserveKnows, QuietKnows,
       DebitFromKnows, CreditKnows DEF Step
<1>4. \A q \in Requests : Knows(q)' /\ Recorded(q)'
    BY <1>3, StepRecorded, OthersKnow
<1>5. KeptApart'
  <2>1. Moving(r)
    BY DEF Moving, InFlight, Step, FindFrom, CreateFrom, FindTo, CreateTo, Reserve, CheckRef,
       CreateTransaction, ProcessTransaction, LoadFrom, LoadTo, DebitFrom, Credit,
       MarkSuccess, Fail
  <2>2. input' = input
    BY DEF Step, FindFrom, CreateFrom, FindTo, CreateTo, Reserve, CheckRef,
       CreateTransaction, ProcessTransaction, LoadFrom, LoadTo, DebitFrom, Credit,
       MarkSuccess, Fail, local
  <2>3. ASSUME NEW q \in Requests, Moving(q)' PROVE Moving(q)
    BY <1>1, <2>1, <2>3, StepUntouched DEF Untouched, Moving
  <2> QED BY <1>1, <2>2, <2>3 DEF KeptApart
<1> QED BY <1>2, <1>3, <1>4, <1>5 DEF SerialInv

LEMMA BeginSerialInv ==
    ASSUME SerialInv, NEW r \in Requests, NEW i \in Inputs, Alone(r, i), Begin(r, i)
    PROVE  SerialInv'
<1>1. TypeInv /\ TypeOK /\ SoundInv /\ KeptApart /\ RowsInv
    BY DEF SerialInv, TypeInv
<1>2. TypeInv' /\ SoundInv'
    BY <1>1, NextTypeInv, NextSoundInv DEF Next
<1>3. /\ UNCHANGED <<exists, wallet, txn, fromId, toId, from, to, credits>>
      /\ pc[r] = "idle" /\ input' = [input EXCEPT ![r] = i]
      /\ pc'[r] \in {"threw", "findTo", "findFrom"}
      /\ \A q \in Requests \ {r} : pc'[q] = pc[q] /\ input'[q] = input[q]
    BY <1>1 DEF Begin, Submit, GetMyWallets, Goto, TypeOK
<1>4. input'[r] = i /\ fromId[r] = None /\ toId[r] = None
    BY <1>1, <1>3 DEF TypeInv, TypeOK, Control
<1>5. RowsInv'
    BY <1>1, <1>3 DEF RowsInv, OneWalletPerAccount
<1>6. ASSUME NEW q \in Requests PROVE Knows(q)' /\ Recorded(q)'
  <2>1. Knows(q) /\ Recorded(q)
    BY DEF SerialInv
  <2>2. CASE q = r
    <3>1. Recorded(r)'
      BY <1>3, <1>4, <2>1, <2>2 DEF Recorded
    <3>2. Takes(r)' /\ pc'[r] = "findTo" => FALSE
      BY <1>2, <1>3, <1>4, NoneIsNoRow DEF TypeInv, Control, Takes
    <3> QED BY <1>3, <1>4, <2>2, <3>1, <3>2 DEF Knows, Holding
  <2>3. CASE q # r
    <3>1. /\ pc'[q] = pc[q] /\ input'[q] = input[q]
          /\ RowsOf(input[q].from)' = RowsOf(input[q].from)
          /\ RowsOf(input[q].to)' = RowsOf(input[q].to)
      BY <1>3, <2>3 DEF RowsOf
    <3>2. Takes(q)' <=> Takes(q)
      BY <3>1 DEF Takes
    <3> QED BY <1>3, <2>1, <3>1, <3>2 DEF Knows, Recorded, Holding
  <2> QED BY <2>2, <2>3
<1>7. KeptApart'
  <2>1. ASSUME NEW q \in Requests, NEW p \in Requests, q # p, Moving(q)', Moving(p)'
        PROVE  Touched(input'[q]) \cap Touched(input'[p]) = {}
    <3>1. CASE q # r /\ p # r
      BY <1>1, <1>3, <2>1, <3>1 DEF KeptApart, Moving
    <3>2. CASE q = r
      BY <1>3, <1>4, <2>1, <3>2 DEF Alone, Moving
    <3>3. CASE p = r
      BY <1>3, <1>4, <2>1, <3>3 DEF Alone, Moving
    <3> QED BY <3>1, <3>2, <3>3
  <2>2. ASSUME NEW q \in Requests, Moving(q)', input'[q].from = input'[q].to
        PROVE  input'[q].from = None
    BY <1>1, <1>3, <1>4, <2>2 DEF KeptApart, Alone, Moving
  <2> QED BY <2>1, <2>2 DEF KeptApart, Touched
<1> QED BY <1>2, <1>5, <1>6, <1>7 DEF SerialInv

LEMMA InitSerialInv == Init => SerialInv
<1> SUFFICES ASSUME Init PROVE SerialInv
    OBVIOUS
<1>1. TypeInv /\ SoundInv
    BY InitTypeInv, InitSoundInv
<1>2. /\ exists = {} /\ wallet = [w \in Rows |-> ZeroBalance] /\ credits = [w \in Rows |-> 0]
      /\ \A r \in Requests : pc[r] = "idle" /\ fromId[r] = None /\ toId[r] = None /\ txn[r] = None
    BY DEF Init
<1>3. RowsInv
    BY <1>2 DEF RowsInv, OneWalletPerAccount, ZeroBalance
<1>4. KeptApart /\ \A r \in Requests : Knows(r) /\ Recorded(r)
    BY <1>2 DEF KeptApart, Moving, InFlight, Knows, Recorded, Holding
<1> QED BY <1>1, <1>3, <1>4 DEF SerialInv

LEMMA NextSerialInv == SerialInv /\ [SerialNext]_vars => SerialInv'
<1>1. ASSUME SerialInv, UNCHANGED vars PROVE SerialInv'
  <2>1. TypeInv' /\ SoundInv'
    BY <1>1, NextTypeInv, NextSoundInv DEF SerialInv
  <2>2. KeptApart' /\ RowsInv'
    BY <1>1 DEF SerialInv, vars, local, KeptApart, RowsInv, OneWalletPerAccount, Moving
  <2>3. ASSUME NEW r \in Requests PROVE Knows(r)' /\ Recorded(r)'
    BY <1>1 DEF SerialInv, vars, local, Knows, Recorded, RowsOf, Takes
  <2> QED BY <2>1, <2>2, <2>3 DEF SerialInv
<1> QED BY <1>1, StepSerialInv, BeginSerialInv DEF SerialNext

\* With the requests on one account kept apart, a request in flight has the
\* rows of its accounts for itself, and its copies are up to date
\* (submitTransaction, processTransaction).
THEOREM SerialInvariant == SerialSpec => []SerialInv
BY InitSerialInv, NextSerialInv, PTL DEF SerialSpec

\* A wallet row is made only where the lookup before it found none
\* (findAndCreateIfNotExist).
THEOREM OneRowPerAccount == SerialSpec => []OneWalletPerAccount
<1>1. SerialInv => OneWalletPerAccount
    BY DEF SerialInv, RowsInv
<1> QED BY <1>1, SerialInvariant, PTL

-------------------------------------------------------------------------------
\* Requests with one refId share an account: an event has one recipient.
RefsKeptApart ==
    \A i, j \in Inputs : Valid(i) /\ Valid(j) /\ i.ref = j.ref /\ i.ref # None =>
        Touched(i) \cap Touched(j) # {}

\* What is asked for is valid once it is about to be recorded.
LEMMA RecordsAreValid ==
    ASSUME SerialInv, NEW r \in Requests, pc[r] = "create"
    PROVE  input[r] \in Inputs /\ Valid(input[r]) /\ Moving(r) /\ txn[r] = None
BY DEF SerialInv, TypeInv, TypeOK, Recorded, Control, Valid, Moving, InFlight, Past, Takes,
   Gives, Input, Kinds

LEMMA StepRefInv ==
    ASSUME RefsKeptApart, SerialInv, RefInv, NEW r \in Requests, Step(r)
    PROVE  RefInv'
<1>1. TypeOK /\ input' = input
    BY DEF SerialInv, TypeInv, Step, FindFrom, CreateFrom, FindTo, CreateTo, Reserve, CheckRef,
       CreateTransaction, ProcessTransaction, LoadFrom, LoadTo, DebitFrom, Credit,
       MarkSuccess, Fail, local
<1>2. \A q \in Requests \ {r} : pc'[q] = pc[q] /\ txn'[q] = txn[q]
    BY <1>1, StepUntouched DEF Untouched, Step, FindFrom, CreateFrom, FindTo, CreateTo, Reserve,
       CheckRef, CreateTransaction, ProcessTransaction, LoadFrom, LoadTo, DebitFrom, Credit,
       MarkSuccess, Fail, TypeOK
<1>3. CASE CreateTransaction(r)
  <2>1. pc[r] = "create" /\ pc'[r] = "process"
    BY <1>1, <1>3 DEF CreateTransaction, Goto, TypeOK
  <2>2. RefIdUnique'
    BY <1>1, <1>2, <2>1 DEF RefInv, RefIdUnique
  <2>3. ASSUME NEW q \in Requests, pc[q] = "create", input[q].ref # None, q # r
        PROVE  input[r].ref # input[q].ref
    BY <2>1, <2>3, RecordsAreValid DEF RefsKeptApart, SerialInv, KeptApart
  <2> QED BY <1>1, <1>2, <2>1, <2>2, <2>3 DEF RefInv
<1>4. CASE txn' = txn
  <2>1. RefIdUnique'
    BY <1>1, <1>4 DEF RefInv, RefIdUnique
  <2>2. ASSUME pc'[r] = "create", input[r].ref # None, NEW q \in Requests, txn[q] # None
        PROVE  input[q].ref # input[r].ref
    BY <1>1, <2>2 DEF Step, FindFrom, CreateFrom, FindTo, CreateTo, Reserve, CheckRef,
       CreateTransaction, ProcessTransaction, LoadFrom, LoadTo, DebitFrom, Credit, MarkSuccess,
       Fail, Goto, TypeOK, AfterFrom, AfterTo, AfterReserve, RefInv
  <2> QED BY <1>1, <1>2, <1>4, <2>1, <2>2 DEF RefInv
<1>5. CASE MarkSuccess(r)
  <2>1. pc'[r] = "done" /\ pc[r] = "markSuccess"
    BY <1>1, <1>5 DEF MarkSuccess, Goto, TypeOK
  <2>2. txn[r] # None
    BY <2>1 DEF SerialInv, Recorded
  <2> QED BY <1>1, <1>2, <2>1, <2>2 DEF RefInv, RefIdUnique
<1> QED BY <1>3, <1>4, <1>5 DEF Step, FindFrom, CreateFrom, FindTo, CreateTo, Reserve, CheckRef,
       ProcessTransaction, LoadFrom, LoadTo, DebitFrom, Credit, Fail

LEMMA NextRefInv ==
    ASSUME RefsKeptApart, SerialInv, RefInv, [SerialNext]_vars PROVE RefInv'
<1>1. CASE UNCHANGED vars
    BY <1>1 DEF vars, local, RefInv, RefIdUnique
<1>2. ASSUME NEW r \in Requests, NEW i \in Inputs, Begin(r, i) PROVE RefInv'
  <2>1. /\ pc'[r] # "create" /\ txn[r] = None /\ UNCHANGED txn
        /\ \A q \in Requests \ {r} : pc'[q] = pc[q] /\ input'[q] = input[q]
    BY <1>2 DEF Begin, Submit, GetMyWallets, Goto, SerialInv, TypeInv, TypeOK, Recorded
  <2> QED BY <2>1 DEF RefInv, RefIdUnique
<1> QED BY <1>1, <1>2, StepRefInv DEF SerialNext

\* If the requests with one refId are for one account, and those are kept
\* apart, an event is deposited at most once: the lookup by refId then sees
\* every record of it ('Transaction already exist' in submitTransaction).
THEOREM RefIdsAreUnique ==
    ASSUME RefsKeptApart PROVE SerialSpec => []RefIdUnique
<1>1. Init => SerialInv /\ RefInv
    BY InitSerialInv DEF Init, RefInv, RefIdUnique
<1>2. SerialInv /\ RefInv /\ [SerialNext]_vars => SerialInv' /\ RefInv'
    BY RefsKeptApart, NextSerialInv, NextRefInv
<1>3. RefInv => RefIdUnique
    BY DEF RefInv
<1> QED BY <1>1, <1>2, <1>3, PTL DEF SerialSpec

-------------------------------------------------------------------------------
\* An account with a row is that row, and one without has nothing.
AccountIsRow(a) ==
    /\ \A w \in exists : w[2] = a => BalanceOf(a) = wallet[w] /\ CreditedTo(a) = credits[w]
    /\ (\A w \in exists : w[2] # a) => BalanceOf(a) = ZeroBalance /\ CreditedTo(a) = 0
AccountsAreRows == \A a \in Accounts : AccountIsRow(a)

LEMMA OneRowIsAll == SerialInv => AccountsAreRows
<1> SUFFICES ASSUME SerialInv, NEW a \in Accounts PROVE AccountIsRow(a)
    BY DEF AccountsAreRows
<1>1. exists \subseteq Rows /\ credits \in [Rows -> Nat] /\ OneWalletPerAccount
    BY DEF SerialInv, TypeInv, TypeOK, RowsInv
<1>2. ASSUME NEW w \in exists, w[2] = a
      PROVE  BalanceOf(a) = wallet[w] /\ CreditedTo(a) = credits[w]
  <2>1. RowsOf(a) = {w} /\ credits[w] \in Int
    BY <1>1, <1>2 DEF RowsOf, OneWalletPerAccount
  <2> QED BY <2>1, SumSingleton DEF BalanceOf, RowOf, CreditedTo
<1>3. ASSUME \A w \in exists : w[2] # a
      PROVE  BalanceOf(a) = ZeroBalance /\ CreditedTo(a) = 0
  <2>1. RowsOf(a) = {}
    BY <1>3 DEF RowsOf
  <2> QED BY <2>1, SumEmpty DEF BalanceOf, CreditedTo
<1> QED BY <1>2, <1>3 DEF AccountIsRow

Unmoved(a) == BalanceOf(a)' = BalanceOf(a) /\ CreditedTo(a)' = CreditedTo(a)

\* An account whose rows are left alone, but for one that is new.
LEMMA AccountsFollowRows ==
    ASSUME SerialInv, SerialInv', exists \subseteq exists', NEW a \in Accounts,
           \A w \in Rows : w[2] = a => wallet'[w] = wallet[w] /\ credits'[w] = credits[w]
    PROVE  Unmoved(a)
<1>1. AccountsAreRows /\ AccountsAreRows'
    BY OneRowIsAll, PTL
<1>2. AccountIsRow(a) /\ AccountIsRow(a)'
    BY <1>1 DEF AccountsAreRows
<1>3. /\ exists' \subseteq Rows
      /\ \A w \in Rows \ exists : wallet[w] = ZeroBalance /\ credits[w] = 0
    BY DEF SerialInv, TypeInv, TypeOK, RowsInv
<1>4. CASE \E w \in exists : w[2] = a
    BY <1>2, <1>3, <1>4 DEF AccountIsRow, Unmoved
<1>5. CASE ~ \E w \in exists : w[2] = a
    BY <1>2, <1>3, <1>5 DEF AccountIsRow, Unmoved
<1> QED BY <1>4, <1>5

\* The account of the one row that is written.
LEMMA AccountWritten ==
    ASSUME SerialInv, SerialInv', UNCHANGED exists, NEW w \in exists, NEW a \in Accounts, w[2] = a
    PROVE  /\ BalanceOf(a) = wallet[w] /\ BalanceOf(a)' = wallet'[w]
           /\ CreditedTo(a) = credits[w] /\ CreditedTo(a)' = credits'[w]
<1>1. AccountsAreRows /\ AccountsAreRows'
    BY OneRowIsAll, PTL
<1>2. AccountIsRow(a) /\ AccountIsRow(a)'
    BY <1>1 DEF AccountsAreRows
<1> QED BY <1>2 DEF AccountIsRow

\* What the three writes do to an account, and all that a step does.
Reserves(r, a) ==
    /\ pc[r] = "reserve" /\ pc'[r] \in {"checkRef", "create"}
    /\ BalanceOf(a)' = Reserved(BalanceOf(a), input[r].amount)
    /\ CreditedTo(a)' = CreditedTo(a)
    /\ NumberIsExact /\ a \in UserAccounts => input[r].amount <= BalanceOf(a).available
Debits(r, a) ==
    /\ pc[r] = "debitFrom" /\ input[r].amount <= BalanceOf(a).locked
    /\ BalanceOf(a)' = Debited(BalanceOf(a), input[r].amount)
    /\ CreditedTo(a)' = CreditedTo(a)
Credits(r, a) ==
    /\ pc[r] = "credit"
    /\ BalanceOf(a)' = Credited(BalanceOf(a), input[r].amount)
    /\ CreditedTo(a)' = CreditedTo(a) + input[r].amount

\* Every account has a balance, and a credit that is a natural number.
LEMMA AccountTypes ==
    ASSUME SerialInv, NEW a \in Accounts
    PROVE  /\ BalanceOf(a) \in Balance /\ CreditedTo(a) \in Nat
           /\ NumberIsExact /\ a \in UserAccounts => BalanceOf(a).available >= 0
<1>1. AccountIsRow(a)
    BY OneRowIsAll DEF AccountsAreRows
<1>2. exists \subseteq Rows /\ wallet \in [Rows -> Balance] /\ credits \in [Rows -> Nat]
    BY DEF SerialInv, TypeInv, TypeOK
<1>3. CASE \E w \in exists : w[2] = a
    BY <1>1, <1>2, <1>3 DEF AccountIsRow, SerialInv, SoundInv, Sound
<1>4. CASE ~ \E w \in exists : w[2] = a
    BY <1>1, <1>4, ZeroIsBalance DEF AccountIsRow, ZeroBalance
<1> QED BY <1>3, <1>4

\* A step moves the money of one account at most, and by one of those writes.
LEMMA StepOnAccount ==
    ASSUME SerialInv, SerialInv', NEW r \in Requests, Step(r), NEW a \in Accounts
    PROVE  /\ \/ Unmoved(a)
              \/ a = input[r].from /\ (Reserves(r, a) \/ Debits(r, a))
              \/ a = input[r].to /\ Credits(r, a)
           /\ pc[r] = "reserve" /\ pc'[r] \in {"checkRef", "create"} /\ a = input[r].from =>
                 Reserves(r, a)
<1>1. /\ TypeInv /\ TypeOK /\ Control(r) /\ Knows(r) /\ None \notin Rows
      /\ wallet \in [Rows -> Balance] /\ credits \in [Rows -> Nat] /\ exists \subseteq exists'
    BY StepTouches, NoneIsNoRow DEF SerialInv, TypeInv, TypeOK
<1>2. ASSUME UNCHANGED <<wallet, credits>> PROVE Unmoved(a)
    BY <1>1, <1>2, AccountsFollowRows
<1>3. CASE FindFrom(r) \/ CreateFrom(r) \/ FindTo(r) \/ CreateTo(r) \/ CheckRef(r)
             \/ CreateTransaction(r) \/ ProcessTransaction(r) \/ LoadFrom(r) \/ LoadTo(r)
             \/ MarkSuccess(r)
    BY <1>2, <1>3 DEF FindFrom, CreateFrom, FindTo, CreateTo, CheckRef, CreateTransaction,
       ProcessTransaction, LoadFrom, LoadTo, MarkSuccess
<1>4. CASE Fail(r)
  <2>1. pc'[r] = "failed" /\ UNCHANGED <<wallet, credits>>
    BY <1>1, <1>4 DEF Fail, Goto, TypeOK
  <2> QED BY <1>2, <2>1
<1>5. CASE Reserve(r)
  <2> DEFINE n == input[r].amount
  <2>1. /\ pc[r] = "reserve" /\ UNCHANGED <<exists, credits>> /\ Takes(r) /\ n \in Nat
        /\ fromId[r] \in exists /\ fromId[r] \in Rows /\ fromId[r][2] = input[r].from
        /\ from[r] = wallet[fromId[r]] /\ wallet[fromId[r]] \in Balance
    BY <1>1, <1>5, RowsInUse DEF Reserve, Knows, Control
  <2>2. CASE Goto(r, "threw") /\ UNCHANGED wallet
    <3>1. pc'[r] = "threw"
      BY <1>1, <2>2 DEF Goto, TypeOK
    <3> QED BY <1>2, <2>1, <2>2, <3>1
  <2>3. CASE /\ ~(BalanceChecked(input[r]) /\ Number(from[r].available) < Number(n))
             /\ wallet' = [wallet EXCEPT ![fromId[r]] = Reserved(from[r], n)]
             /\ Goto(r, AfterReserve(input[r]))
    <3>1. pc'[r] \in {"checkRef", "create"}
      BY <1>1, <2>3 DEF Goto, TypeOK, AfterReserve
    <3>2. CASE a # input[r].from
      BY <1>1, <2>1, <2>3, <3>2, AccountsFollowRows
    <3>3. CASE a = input[r].from
      <4>1. /\ BalanceOf(a) = wallet[fromId[r]] /\ BalanceOf(a)' = wallet'[fromId[r]]
            /\ CreditedTo(a) = credits[fromId[r]] /\ CreditedTo(a)' = credits'[fromId[r]]
        BY <2>1, <3>3, AccountWritten
      <4>2. BalanceOf(a)' = Reserved(BalanceOf(a), n) /\ CreditedTo(a)' = CreditedTo(a)
        BY <1>1, <2>1, <2>3, <4>1
      <4>3. NumberIsExact /\ a \in UserAccounts => n <= BalanceOf(a).available
        <5>1. wallet[fromId[r]].available \in Int
          BY <2>1, FieldsAreInt
        <5>2. a \in UserAccounts => BalanceChecked(input[r])
          BY <2>1, <3>3 DEF BalanceChecked, Takes
        <5> QED BY <2>1, <2>3, <4>1, <5>1, <5>2 DEF NumberIsExact
      <4> QED BY <2>1, <3>1, <3>3, <4>2, <4>3 DEF Reserves
    <3> QED BY <3>2, <3>3
  <2> QED BY <1>5, <2>2, <2>3 DEF Reserve
<1>6. CASE DebitFrom(r)
  <2> DEFINE n == input[r].amount
  <2>1. /\ pc[r] = "debitFrom" /\ UNCHANGED <<exists, credits>> /\ Takes(r)
        /\ input[r].kind = "TRANSFER" /\ fromId[r] \in exists /\ fromId[r] \in Rows
        /\ fromId[r][2] = input[r].from /\ from[r] = wallet[fromId[r]]
        /\ n <= wallet[fromId[r]].locked
        /\ wallet' = [wallet EXCEPT ![fromId[r]] = Debited(from[r], n)]
    BY <1>1, <1>6, RowsInUse DEF DebitFrom, Knows, Control, Takes, Holding
  <2>2. CASE a # input[r].from
    BY <1>1, <2>1, <2>2, AccountsFollowRows
  <2>3. CASE a = input[r].from
    <3>1. /\ BalanceOf(a) = wallet[fromId[r]] /\ BalanceOf(a)' = wallet'[fromId[r]]
          /\ CreditedTo(a) = credits[fromId[r]] /\ CreditedTo(a)' = credits'[fromId[r]]
      BY <2>1, <2>3, AccountWritten
    <3>2. BalanceOf(a)' = Debited(BalanceOf(a), n) /\ CreditedTo(a)' = CreditedTo(a)
      BY <1>1, <2>1, <3>1
    <3> QED BY <2>1, <2>3, <3>1, <3>2 DEF Debits
  <2> QED BY <2>1, <2>2, <2>3
<1>7. CASE Credit(r)
  <2> DEFINE n == input[r].amount
  <2>1. /\ pc[r] = "credit" /\ UNCHANGED exists
        /\ toId[r] \in exists /\ toId[r] \in Rows /\ toId[r][2] = input[r].to
        /\ to[r] = wallet[toId[r]]
        /\ wallet' = [wallet EXCEPT ![toId[r]] = Credited(to[r], n)]
        /\ credits' = [credits EXCEPT ![toId[r]] = @ + n]
    BY <1>1, <1>7, RowsInUse DEF Credit, Knows
  <2>2. CASE a # input[r].to
    BY <1>1, <2>1, <2>2, AccountsFollowRows
  <2>3. CASE a = input[r].to
    <3>1. /\ BalanceOf(a) = wallet[toId[r]] /\ BalanceOf(a)' = wallet'[toId[r]]
          /\ CreditedTo(a) = credits[toId[r]] /\ CreditedTo(a)' = credits'[toId[r]]
      BY <2>1, <2>3, AccountWritten
    <3>2. BalanceOf(a)' = Credited(BalanceOf(a), n) /\ CreditedTo(a)' = CreditedTo(a) + n
      BY <1>1, <2>1, <3>1
    <3> QED BY <2>1, <2>3, <3>2 DEF Credits
  <2> QED BY <2>1, <2>2, <2>3
<1> QED BY <1>3, <1>4, <1>5, <1>6, <1>7 DEF Step

\* The start of a request moves none.
LEMMA BeginOnAccount ==
    ASSUME SerialInv, SerialInv', NEW r \in Requests, NEW i \in Inputs, Begin(r, i),
           NEW a \in Accounts
    PROVE  Unmoved(a)
BY AccountsFollowRows DEF Begin, Submit, GetMyWallets

-------------------------------------------------------------------------------
\* What is recorded as spent is a number, and changes with the records alone.
LEMMA SpentIsInt ==
    ASSUME TypeOK, NEW a \in Accounts, IsFiniteSet(SpendingFrom(a)) PROVE SpentBy(a) \in Int
<1> DEFINE f == [r \in Requests |-> input[r].amount]
<1>1. \A r \in Requests : f[r] \in Int
    BY DEF TypeOK, Input
<1>2. SpendingFrom(a) \subseteq Requests
    BY DEF SpendingFrom
<1> HIDE DEF f
<1>3. SumFunctionOnSet(f, SpendingFrom(a)) \in Int
    BY <1>1, <1>2, SumIsInt
<1> QED BY <1>3 DEF SpentBy, f

LEMMA SpentSame ==
    ASSUME NEW a \in Accounts, IsFiniteSet(SpendingFrom(a)),
           \A r \in Requests : /\ txn'[r] # None <=> txn[r] # None
                               /\ txn[r] # None => input'[r] = input[r]
    PROVE  SpendingFrom(a)' = SpendingFrom(a) /\ SpentBy(a)' = SpentBy(a)
<1> DEFINE f == [r \in Requests |-> input[r].amount]
           g == [r \in Requests |-> input'[r].amount]
<1>1. SpendingFrom(a)' = SpendingFrom(a)
    BY DEF SpendingFrom
<1>2. \A r \in SpendingFrom(a) : f[r] = g[r]
    BY DEF SpendingFrom
<1> HIDE DEF f, g
<1>3. SumFunctionOnSet(f, SpendingFrom(a)) = SumFunctionOnSet(g, SpendingFrom(a))
    BY <1>2, SumSame
<1> QED BY <1>1, <1>3 DEF SpentBy, f, g

LEMMA SpentRecorded ==
    ASSUME SerialInv, NEW a \in Accounts, IsFiniteSet(SpendingFrom(a)), NEW r \in Requests,
           CreateTransaction(r)
    PROVE  /\ IsFiniteSet(SpendingFrom(a)')
           /\ ~(Takes(r) /\ input[r].from = a) => SpentBy(a)' = SpentBy(a)
           /\ Takes(r) /\ input[r].from = a => SpentBy(a)' = SpentBy(a) + input[r].amount
<1> DEFINE f == [q \in Requests |-> input[q].amount]
           S == SpendingFrom(a)
<1>1. /\ TypeOK /\ input' = input /\ txn[r] = None /\ txn'[r] # None
      /\ \A q \in Requests \ {r} : txn'[q] = txn[q]
    BY NoneIsFresh DEF SerialInv, TypeInv, TypeOK, CreateTransaction, Recorded, local
<1>2. CASE ~(Takes(r) /\ input[r].from = a)
  <2>1. SpendingFrom(a)' = S
    BY <1>1, <1>2 DEF SpendingFrom, Takes
  <2> QED BY <1>1, <1>2, <2>1 DEF SpentBy
<1>3. CASE Takes(r) /\ input[r].from = a
  <2>1. SpendingFrom(a)' = S \cup {r} /\ r \notin S /\ S \subseteq Requests
    BY <1>1, <1>3 DEF SpendingFrom, Takes
  <2>2. f[r] = input[r].amount /\ \A q \in Requests : f[q] \in Int
    BY <1>1 DEF TypeOK, Input
  <2>3. SpentBy(a) = SumFunctionOnSet(f, S) /\ SpentBy(a)' = SumFunctionOnSet(f, S \cup {r})
    BY <1>1, <2>1 DEF SpentBy
  <2> HIDE DEF f, S
  <2>4. IsFiniteSet(S)
    BY DEF S
  <2>5. SumFunctionOnSet(f, S \cup {r}) = SumFunctionOnSet(f, S) + f[r] /\ IsFiniteSet(S \cup {r})
    BY <2>1, <2>2, <2>4, SumAdd, FS_AddElement
  <2> QED BY <1>3, <2>1, <2>2, <2>3, <2>5
<1> QED BY <1>2, <1>3

\* Two requests in flight have no from account in common.
LEMMA FromApart ==
    ASSUME SerialInv, NEW q \in Requests, NEW r \in Requests, q # r, Moving(q), Moving(r),
           Takes(q), input[q].from = input[r].from
    PROVE  FALSE
<1>1. input[q].from # None
    BY DEF SerialInv, TypeInv, Control, Moving
<1> QED BY <1>1 DEF SerialInv, KeptApart, Touched

LEMMA StepCovered ==
    ASSUME NumberIsExact, SerialInv, SerialInv', Covered, NEW r \in Requests, Step(r)
    PROVE  Covered'
<1> DEFINE n == input[r].amount
<1>1. /\ TypeOK /\ input' = input /\ Moving(r) /\ n \in Nat
      /\ \A q \in Requests \ {r} : pc'[q] = pc[q]
    BY StepUntouched DEF SerialInv, TypeInv, TypeOK, Input, Untouched, Moving, InFlight, Step,
       FindFrom, CreateFrom, FindTo, CreateTo, Reserve, CheckRef, CreateTransaction,
       ProcessTransaction, LoadFrom, LoadTo, DebitFrom, Credit, MarkSuccess, Fail, local
<1>2. \A q \in Requests : Takes(q)' <=> Takes(q)
    BY <1>1 DEF Takes
<1>3. \A q \in Requests : Reserving(q) => input[q].from \in Accounts /\ Moving(q)
    BY <1>1 DEF SerialInv, TypeInv, TypeOK, Control, Input, Reserving, Moving, InFlight
<1>4. ASSUME NEW a \in Accounts
      PROVE  /\ BalanceOf(a).available \in Int /\ CreditedTo(a) \in Int /\ SpentBy(a) \in Int
             /\ IsFiniteSet(SpendingFrom(a)) /\ BalanceOf(a) \in Balance
    BY <1>1, AccountTypes, SpentIsInt, FieldsAreInt DEF Covered
<1>5. CASE CreateTransaction(r)
  <2>1. pc[r] = "create" /\ pc'[r] = "process" /\ UNCHANGED <<exists, wallet, credits>>
    BY <1>1, <1>5 DEF CreateTransaction, Goto, TypeOK
  <2>2. ASSUME NEW a \in Accounts
        PROVE  /\ Unmoved(a) /\ IsFiniteSet(SpendingFrom(a)')
               /\ ~(Takes(r) /\ input[r].from = a) => SpentBy(a)' = SpentBy(a)
               /\ Takes(r) /\ input[r].from = a => SpentBy(a)' = SpentBy(a) + n
    BY <1>4, <1>5, <2>1, SpentRecorded, AccountsFollowRows
  <2>3. ASSUME NEW a \in Accounts
        PROVE  SpentBy(a)' + BalanceOf(a)'.available <= CreditedTo(a)'
    BY <1>1, <1>4, <2>1, <2>2 DEF Covered, Reserving, Unmoved
  <2>4. ASSUME NEW q \in Requests, Reserving(q)', NEW a \in Accounts, a = input[q].from
        PROVE  SpentBy(a)' + input'[q].amount + BalanceOf(a)'.available <= CreditedTo(a)'
    <3>1. q # r /\ Reserving(q)
      BY <1>1, <1>2, <2>1, <2>4 DEF Reserving
    <3>2. ~(Takes(r) /\ input[r].from = a)
      BY <1>1, <1>3, <2>4, <3>1, FromApart DEF Reserving
    <3> QED BY <1>1, <2>2, <2>4, <3>1, <3>2 DEF Covered, Unmoved
  <2> QED BY <1>1, <2>2, <2>3, <2>4 DEF Covered
<1>6. CASE ~CreateTransaction(r)
  <2>1. \A q \in Requests : txn'[q] # None <=> txn[q] # None
    BY <1>1, <1>6, NoneIsFresh DEF Step, FindFrom, CreateFrom, FindTo, CreateTo, Reserve,
       CheckRef, ProcessTransaction, LoadFrom, LoadTo, DebitFrom, Credit, MarkSuccess, Fail,
       SerialInv, Recorded, TypeOK
  <2>2. ASSUME NEW a \in Accounts
        PROVE  SpentBy(a)' = SpentBy(a) /\ IsFiniteSet(SpendingFrom(a)')
    <3>1. IsFiniteSet(SpendingFrom(a))
      BY <1>4
    <3>2. SpendingFrom(a)' = SpendingFrom(a) /\ SpentBy(a)' = SpentBy(a)
      BY <1>1, <2>1, <3>1, SpentSame
    <3> QED BY <3>1, <3>2
  <2>3. pc'[r] \in {"checkRef", "create"} /\ Takes(r) =>
           Reserving(r) \/ pc[r] = "reserve"
    BY <1>1, <1>6 DEF Step, FindFrom, CreateFrom, FindTo, CreateTo, Reserve, CheckRef,
       ProcessTransaction, LoadFrom, LoadTo, DebitFrom, Credit, MarkSuccess, Fail, Goto,
       TypeOK, AfterFrom, AfterTo, AfterReserve, Takes, Reserving, SerialInv, TypeInv, Control
  <2>4. ASSUME NEW a \in Accounts
        PROVE  /\ SpentBy(a)' + BalanceOf(a)'.available <= CreditedTo(a)'
               /\ \A q \in Requests : Reserving(q)' /\ input'[q].from = a =>
                     SpentBy(a)' + input'[q].amount + BalanceOf(a)'.available <= CreditedTo(a)'
    <3>1. /\ BalanceOf(a).available \in Int /\ CreditedTo(a) \in Int /\ SpentBy(a) \in Int
          /\ SpentBy(a)' = SpentBy(a)
          /\ SpentBy(a) + BalanceOf(a).available <= CreditedTo(a)
      BY <1>4, <2>2 DEF Covered
    <3>2. ASSUME NEW q \in Requests, Reserving(q)', input'[q].from = a
          PROVE  /\ input'[q].amount \in Nat
                 /\ \/ Reserving(q) /\ input[q].from = a
                    \/ q = r /\ pc[r] = "reserve" /\ pc'[r] \in {"checkRef", "create"}
      BY <1>1, <1>2, <2>3, <3>2 DEF Reserving, TypeOK, Input
    <3>3. CASE Reserves(r, a) /\ a = input[r].from
      <4>1. BalanceOf(a)'.available = BalanceOf(a).available - n
        BY <3>3 DEF Reserves, Reserved
      <4>2. ASSUME NEW q \in Requests, Reserving(q)', input'[q].from = a PROVE q = r
        BY <1>1, <1>3, <3>2, <3>3, <4>2, FromApart DEF Reserving
      <4> QED BY <1>1, <3>1, <3>3, <4>1, <4>2 DEF Reserves
    <3>4. CASE Unmoved(a) /\ ~ (Reserves(r, a) /\ a = input[r].from)
      <4>1. ASSUME NEW q \in Requests, Reserving(q)', input'[q].from = a
            PROVE  Reserving(q) /\ input[q].from = a
        BY <1>1, <3>2, <3>4, <4>1, StepOnAccount
      <4> QED BY <1>1, <3>1, <3>4, <4>1 DEF Covered, Unmoved
    <3>5. CASE Debits(r, a)
      <4>1. BalanceOf(a)'.available = BalanceOf(a).available /\ CreditedTo(a)' = CreditedTo(a)
        BY <3>5 DEF Debits, Debited
      <4>2. ASSUME NEW q \in Requests, Reserving(q)', input'[q].from = a
            PROVE  Reserving(q) /\ input[q].from = a
        BY <3>2, <3>5, <4>2 DEF Debits
      <4> QED BY <1>1, <3>1, <4>1, <4>2 DEF Covered
    <3>6. CASE Credits(r, a)
      <4>1. /\ BalanceOf(a)'.available = BalanceOf(a).available + n
            /\ CreditedTo(a)' = CreditedTo(a) + n
        BY <3>6 DEF Credits, Credited
      <4>2. ASSUME NEW q \in Requests, Reserving(q)', input'[q].from = a
            PROVE  /\ input'[q].amount \in Nat
                   /\ SpentBy(a) + input'[q].amount + BalanceOf(a).available <= CreditedTo(a)
        BY <1>1, <3>2, <3>6, <4>2 DEF Credits, Covered
      <4>3. SpentBy(a)' + BalanceOf(a)'.available <= CreditedTo(a)'
        BY <1>1, <3>1, <4>1
      <4>4. ASSUME NEW q \in Requests, Reserving(q)', input'[q].from = a
            PROVE  SpentBy(a)' + input'[q].amount + BalanceOf(a)'.available <= CreditedTo(a)'
        BY <1>1, <3>1, <4>1, <4>2, <4>4
      <4> QED BY <4>3, <4>4
    <3> QED BY <3>3, <3>4, <3>5, <3>6, StepOnAccount
  <2> QED BY <2>2, <2>4 DEF Covered
<1> QED BY <1>5, <1>6

LEMMA BeginCovered ==
    ASSUME SerialInv, SerialInv', Covered, NEW r \in Requests, NEW i \in Inputs, Begin(r, i)
    PROVE  Covered'
<1>1. /\ TypeOK /\ UNCHANGED txn /\ txn[r] = None /\ pc'[r] \notin {"checkRef", "create"}
      /\ \A q \in Requests \ {r} : pc'[q] = pc[q] /\ input'[q] = input[q]
    BY DEF Begin, Submit, GetMyWallets, Goto, SerialInv, TypeInv, TypeOK, Recorded
<1>2. ASSUME NEW a \in Accounts
      PROVE  /\ IsFiniteSet(SpendingFrom(a)') /\ SpentBy(a)' = SpentBy(a) /\ Unmoved(a)
             /\ IsFiniteSet(SpendingFrom(a))
  <2>1. IsFiniteSet(SpendingFrom(a))
    BY DEF Covered
  <2>2. SpendingFrom(a)' = SpendingFrom(a) /\ SpentBy(a)' = SpentBy(a)
    BY <1>1, <2>1, SpentSame
  <2> QED BY <2>1, <2>2, BeginOnAccount
<1>3. \A q \in Requests : Reserving(q)' => Reserving(q) /\ input'[q] = input[q]
    BY <1>1 DEF Reserving, Takes
<1> QED BY <1>2, <1>3 DEF Covered, Unmoved

LEMMA NextCovered ==
    ASSUME NumberIsExact, SerialInv, Covered, [SerialNext]_vars PROVE Covered'
<1>1. SerialInv'
    BY NextSerialInv
<1>2. CASE UNCHANGED vars
  <2>1. UNCHANGED <<exists, wallet, txn, pc, input, credits>>
    BY <1>2 DEF vars, local
  <2>2. \A a \in Accounts : /\ SpendingFrom(a)' = SpendingFrom(a) /\ SpentBy(a)' = SpentBy(a)
                            /\ BalanceOf(a)' = BalanceOf(a) /\ CreditedTo(a)' = CreditedTo(a)
    BY <2>1 DEF SpendingFrom, SpentBy, BalanceOf, CreditedTo, RowOf, RowsOf
  <2>3. \A q \in Requests : Reserving(q)' <=> Reserving(q)
    BY <2>1 DEF Reserving, Takes
  <2> QED BY <2>1, <2>2, <2>3 DEF Covered
<1> QED BY <1>1, <1>2, StepCovered, BeginCovered DEF SerialNext

\* If Number() did not round and the requests on one account are kept apart,
\* the withdrawals and transfers recorded for a user are covered by what was
\* credited to that user ('Insufficient balance' in submitTransaction).
THEOREM WithdrawalsAreSolvent ==
    ASSUME NumberIsExact PROVE SerialSpec => []SolventWithdrawals
<1>1. Init => SerialInv /\ Covered
  <2> SUFFICES ASSUME Init PROVE Covered
      BY InitSerialInv
  <2>1. \A a \in Accounts : SpendingFrom(a) = {} /\ RowsOf(a) = {}
    BY DEF Init, SpendingFrom, RowsOf
  <2>2. \A a \in Accounts : SpentBy(a) = 0 /\ CreditedTo(a) = 0 /\ BalanceOf(a).available = 0
    BY <2>1, SumEmpty DEF SpentBy, CreditedTo, BalanceOf, ZeroBalance
  <2>3. \A r \in Requests : ~Reserving(r)
    BY DEF Init, Reserving
  <2> QED BY <2>1, <2>2, <2>3, FS_EmptySet DEF Covered
<1>2. SerialInv /\ Covered /\ [SerialNext]_vars => SerialInv' /\ Covered'
    BY NumberIsExact, NextSerialInv, NextCovered
<1>3. SerialInv /\ Covered => SolventWithdrawals
  <2> SUFFICES ASSUME SerialInv, Covered, NEW a \in UserAccounts
               PROVE  SpentBy(a) <= CreditedTo(a)
      BY DEF SolventWithdrawals
  <2>1. a \in Accounts /\ TypeOK
    BY UsersAreAccounts DEF SerialInv, TypeInv
  <2>2. /\ BalanceOf(a).available \in Int /\ BalanceOf(a).available >= 0
        /\ CreditedTo(a) \in Int /\ SpentBy(a) \in Int
    BY <2>1, NumberIsExact, AccountTypes, FieldsAreInt, SpentIsInt DEF Covered
  <2> QED BY <2>1, <2>2 DEF Covered
<1> QED BY <1>1, <1>2, <1>3, PTL DEF SerialSpec

-------------------------------------------------------------------------------
\* What the ledger sees of accounts that do not move, and of one that does.
LEMMA LedgerStutters ==
    ASSUME \A a \in Accounts : Unmoved(a)
    PROVE  UNCHANGED Abstract!vars
<1>1. /\ [a \in Accounts |-> BalanceOf(a).available]' = [a \in Accounts |-> BalanceOf(a).available]
      /\ [a \in Accounts |-> BalanceOf(a).locked]' = [a \in Accounts |-> BalanceOf(a).locked]
      /\ [a \in Accounts |-> CreditedTo(a)]' = [a \in Accounts |-> CreditedTo(a)]
    BY DEF Unmoved
<1> QED BY <1>1 DEF Abstract!vars

\* An amount that is moved is one the ledger knows.
LEMMA MovedAmounts ==
    ASSUME SerialInv, NEW r \in Requests, pc[r] \in {"reserve", "debitFrom", "credit"}
    PROVE  input[r].amount \in {i.amount : i \in Inputs} \ {0}
BY RowsInUse DEF SerialInv, Recorded

LEMMA StepRefines ==
    ASSUME NumberIsExact, SerialInv, SerialInv', NEW r \in Requests, Step(r),
           NEW c \in Accounts, ~Unmoved(c)
    PROVE  Abstract!Next
<1> DEFINE n == input[r].amount
           free == [a \in Accounts |-> BalanceOf(a).available]
           held == [a \in Accounts |-> BalanceOf(a).locked]
           paid == [a \in Accounts |-> CreditedTo(a)]
<1>1. /\ \/ c = input[r].from /\ (Reserves(r, c) \/ Debits(r, c))
         \/ c = input[r].to /\ Credits(r, c)
    BY StepOnAccount
<1>2. ASSUME NEW a \in Accounts \ {c} PROVE Unmoved(a)
    BY <1>1, StepOnAccount DEF Reserves, Debits, Credits
<1>3. \A a \in Accounts \ {c} : free'[a] = free[a] /\ held'[a] = held[a] /\ paid'[a] = paid[a]
    BY <1>2 DEF Unmoved
<1>4. n \in {i.amount : i \in Inputs} \ {0}
    BY <1>1, MovedAmounts DEF Reserves, Debits, Credits
<1>5. /\ free[c] = BalanceOf(c).available /\ free'[c] = BalanceOf(c)'.available
      /\ held[c] = BalanceOf(c).locked /\ held'[c] = BalanceOf(c)'.locked
      /\ paid[c] = CreditedTo(c) /\ paid'[c] = CreditedTo(c)'
    OBVIOUS
<1>6. CASE Reserves(r, c)
  <2>1. /\ free'[c] = free[c] - n /\ held'[c] = held[c] + n /\ paid'[c] = paid[c]
        /\ c \in UserAccounts => n <= free[c]
    BY <1>5, <1>6, NumberIsExact DEF Reserves, Reserved
  <2>2. /\ free' = [free EXCEPT ![c] = @ - n] /\ held' = [held EXCEPT ![c] = @ + n]
        /\ paid' = paid
    BY <1>3, <2>1
  <2>3. Abstract!Hold(c, n)
    BY <2>1, <2>2 DEF Abstract!Hold
  <2> QED BY <1>4, <2>3 DEF Abstract!Next
<1>7. CASE Debits(r, c)
  <2>1. /\ free'[c] = free[c] /\ held'[c] = held[c] - n /\ paid'[c] = paid[c] /\ n <= held[c]
    BY <1>5, <1>7 DEF Debits, Debited
  <2>2. held' = [held EXCEPT ![c] = @ - n] /\ free' = free /\ paid' = paid
    BY <1>3, <2>1
  <2>3. Abstract!Release(c, n)
    BY <2>1, <2>2 DEF Abstract!Release
  <2> QED BY <1>4, <2>3 DEF Abstract!Next
<1>8. CASE Credits(r, c)
  <2>1. /\ free'[c] = free[c] + n /\ held'[c] = held[c] /\ paid'[c] = paid[c] + n
    BY <1>5, <1>8 DEF Credits, Credited
  <2>2. /\ free' = [free EXCEPT ![c] = @ + n] /\ paid' = [paid EXCEPT ![c] = @ + n]
        /\ held' = held
    BY <1>3, <2>1
  <2>3. Abstract!Deposit(c, n)
    BY <2>2 DEF Abstract!Deposit
  <2> QED BY <1>4, <2>3 DEF Abstract!Next
<1> QED BY <1>1, <1>6, <1>7, <1>8

\* If Number() did not round and the requests on one account are kept apart,
\* each write of the service is one whole operation of the ledger, and no
\* other step, a failure included, is any (submitTransaction,
\* processTransaction).
THEOREM ServiceIsALedger == ASSUME NumberIsExact PROVE SerialSpec => LedgerSpec
<1>1. Init => Abstract!Init
  <2> SUFFICES ASSUME Init PROVE Abstract!Init
      OBVIOUS
  <2>1. \A a \in Accounts : RowsOf(a) = {}
    BY DEF Init, RowsOf
  <2>2. \A a \in Accounts : BalanceOf(a) = ZeroBalance /\ CreditedTo(a) = 0
    BY <2>1, SumEmpty DEF BalanceOf, CreditedTo
  <2> QED BY <2>2 DEF Abstract!Init, ZeroBalance
<1>2. SerialInv /\ [SerialNext]_vars => [Abstract!Next]_(Abstract!vars)
  <2> SUFFICES ASSUME SerialInv, [SerialNext]_vars, ~ UNCHANGED Abstract!vars
               PROVE  Abstract!Next
      OBVIOUS
  <2>1. SerialInv'
    BY NextSerialInv
  <2>2. PICK c \in Accounts : ~Unmoved(c)
    BY LedgerStutters
  <2>3. vars' # vars
    BY <2>1, <2>2, AccountsFollowRows DEF vars
  <2>4. PICK r \in Requests : Step(r) \/ \E i \in Inputs : Begin(r, i)
    BY <2>3 DEF SerialNext
  <2>5. Step(r)
    BY <2>1, <2>2, <2>4, BeginOnAccount
  <2> QED BY <2>1, <2>2, <2>5, NumberIsExact, StepRefines
<1> QED BY <1>1, <1>2, SerialInvariant, PTL DEF SerialSpec, LedgerSpec, Abstract!Spec
===============================================================================
