--------------------------- MODULE DepositScanProofs ---------------------------
(***************************************************************************)
(* For any number of events, users, calls and faults, and any page size:   *)
(* no deposit is credited twice, nor to a stranger, and the cursor leaves  *)
(* none behind unnoticed.                                                  *)
(*                                                                         *)
(* The row keeps calls apart, so that what a call has found out about the  *)
(* record of an event holds until it writes; and a call that is past its   *)
(* pages has found the events after the cursor, without a gap.             *)
(***************************************************************************)
EXTENDS DepositScan, SequenceTheorems, TLAPS

\* At most one call is alive; it found the row ACTIVE and then made it RUNNING.
Alone ==
    /\ \A t, u \in Ticks : pc[t] # "idle" /\ pc[u] # "idle" => t = u
    /\ \A t \in Ticks : /\ pc[t] = "claim" => config.status = "ACTIVE"
                        /\ pc[t] \in Scanning => config.status = "RUNNING"

\* An event that is known to be somebody's has been dealt with.
Done(e) == Known(e) => credited[e] # <<>> \/ e \in skipped \cup refused

\* The cursor as a call has it in memory.
Cursor(t) ==
    /\ pc[t] = "idle" => call[t] = NoCall
    /\ pc[t] # "idle" =>
          /\ call[t].currentLt = config.lastLt
          /\ call[t].lastLt \in config.lastLt .. head
          /\ pc[t] # "abort" => call[t].lastLt = config.lastLt
          /\ \A e \in 1 .. call[t].lastLt : Done(e)

\* The events a call has found are all those from the newest down to some event:
\* the last of its pages, and in the end the one after the cursor.
Paged(t) ==
    LET found == call[t].found
    IN  /\ \A i \in 1 .. Len(found) : found[i] = found[1] - i + 1
        /\ found # <<>> => found[1] \in 1 .. head /\ found[1] - Len(found) >= call[t].currentLt
        /\ pc[t] = "claim" => call[t].continueLt = 0
        /\ pc[t] \in {"claim", "fetch"} =>
              /\ call[t].index = 1
              /\ IF call[t].continueLt = 0 THEN found = <<>>
                 ELSE found # <<>> /\ found[1] - Len(found) + 1 = call[t].continueLt
        /\ pc[t] \in Scanning \ {"fetch", "abort"} /\ found # <<>> =>
              found[1] - Len(found) = call[t].currentLt

\* How far the loop over them has come.
Looped(t) ==
    /\ pc[t] \in Scanning \ {"fetch", "abort"} =>
          /\ call[t].index \in 1 .. Len(call[t].found) + 1
          /\ \A i \in 1 .. call[t].index - 1 : Done(call[t].found[i])
    /\ pc[t] \in {"findUser", "findById"} \cup Submitting => call[t].index <= Len(call[t].found)
    /\ pc[t] = "release" => call[t].index > Len(call[t].found)

\* Whose an event may be.
Rightful(u, e) == Sender[e] \in claims[u] \/ (Comment[e] = u /\ keepers[e] = {})

\* What a call knows of the event it is looking up a user for, or submits.
Submits(t) ==
    /\ pc[t] = "findById" => keepers[Current(t)] = {}
    /\ pc[t] \in Submitting => /\ call[t].existedUser \in Users
                               /\ Rightful(call[t].existedUser, Current(t))
    /\ pc[t] = "create" => record[Current(t)] = "none"
    /\ pc[t] = "credit" => record[Current(t)] = "PENDING" /\ credited[Current(t)] = <<>>
    /\ pc[t] = "markSuccess" => record[Current(t)] # "none" /\ credited[Current(t)] # <<>>

\* What is written of an event.
Booked(e) ==
    /\ record[e] # "none" => e <= head
    /\ record[e] = "none" => credited[e] = <<>>
    /\ record[e] = "SUCCESS" => credited[e] # <<>>
    /\ Len(credited[e]) <= 1
    /\ \A i \in DOMAIN credited[e] : Rightful(credited[e][i], e)

\* What is known of a user's address, and of those who have had an event's.
Addressed ==
    /\ \A u \in Users :
          address[u] # None => address[u].form = "canonical" /\ address[u].account \in claims[u]
    /\ \A e \in Events : keepers[e] \subseteq Owners(Sender[e])
    /\ \A e \in named : Comment[e] \in users

Inv ==
    /\ TypeOK
    /\ config.lastLt <= head
    /\ CursorAccounted
    /\ Alone
    /\ \A t \in Ticks : Cursor(t) /\ Paged(t) /\ Looped(t) /\ Submits(t)
    /\ \A e \in Events : Booked(e)
    /\ Addressed

-------------------------------------------------------------------------------
\* The conditions on a call that has not started.
LEMMA IdleIsFine ==
    ASSUME NEW t \in Ticks, pc[t] = "idle", call[t] = NoCall
    PROVE  Cursor(t) /\ Paged(t) /\ Looped(t) /\ Submits(t)
<1>1. call[t].found = <<>>
    BY DEF NoCall
<1>2. Cursor(t)
    BY DEF Cursor
<1>3. Paged(t)
    BY <1>1 DEF Paged, Scanning, Submitting
<1>4. Looped(t) /\ Submits(t)
    BY DEF Looped, Submits, Scanning, Submitting
<1> QED BY <1>2, <1>3, <1>4

\* Nothing has happened.
LEMMA InitInv == Init => Inv
<1> SUFFICES ASSUME Init PROVE Inv
    OBVIOUS
<1> USE LastEventIsNat, BoundsAreNat, FirstUsersAreUsers DEF Init
<1>1. NoCall \in Call
    BY DEF NoCall, Call, Events
<1>2. TypeOK
    BY <1>1 DEF TypeOK, Events
<1>3. config.lastLt <= head /\ CursorAccounted
    BY DEF CursorAccounted
<1>4. Alone
    BY DEF Alone, Scanning, Submitting
<1>5. \A t \in Ticks : Cursor(t) /\ Paged(t) /\ Looped(t) /\ Submits(t)
    BY IdleIsFine
<1>6. \A e \in Events : Booked(e)
    BY DEF Booked, Events
<1>7. Addressed
    BY DEF Addressed
<1> QED BY <1>2, <1>3, <1>4, <1>5, <1>6, <1>7 DEF Inv

\* What has been dealt with stays so, while nobody new comes to be known.
LEMMA DoneStays ==
    ASSUME NEW e \in Events, Done(e), Known(e)' => Known(e),
           credited[e] # <<>> => credited'[e] # <<>>,
           skipped \subseteq skipped', refused \subseteq refused'
    PROVE  Done(e)'
    BY DEF Done

\* Whose an event may be stays so, for nobody takes a claim back.
LEMMA RightfulStays ==
    ASSUME NEW u, NEW e, Rightful(u, e), keepers[e] = {} => keepers'[e] = {},
           Sender[e] \in claims[u] => Sender[e] \in claims'[u]
    PROVE  Rightful(u, e)'
    BY DEF Rightful

\* The bound on faults is kept.
LEMMA FaultTypes ==
    ASSUME TypeOK, faults < MaxFaults, faults' = faults + 1
    PROVE  faults' \in 0 .. MaxFaults
    BY BoundsAreNat DEF TypeOK

\* What a call has found is on the chain.
LEMMA Finding ==
    ASSUME Inv, NEW t \in Ticks
    PROVE  /\ call[t] \in Call
           /\ call[t].found \in Seq(Events)
           /\ Len(call[t].found) \in 0 .. head
           /\ DOMAIN call[t].found = 1 .. Len(call[t].found)
           /\ \A i \in 1 .. Len(call[t].found) : call[t].found[i] \in 1 .. head
<1> DEFINE found == call[t].found
           n == Len(found)
           m == found[1]
           c == call[t].currentLt
<1>1. call[t] \in Call /\ head \in 0 .. LastEvent /\ Paged(t)
    BY DEF Inv, TypeOK
<1>2. found \in Seq(Events) /\ c \in Nat /\ head \in Nat
    BY <1>1, LastEventIsNat DEF Call
<1>3. DOMAIN found = 1 .. n /\ n \in Nat
    BY <1>2, LenProperties
<1>4. \A i \in 1 .. n : found[i] = m - i + 1
    BY <1>1 DEF Paged
<1>5. CASE found = <<>>
    BY <1>1, <1>2, <1>3, <1>5
<1>6. CASE found # <<>>
  <2>1. m \in 1 .. head /\ m - n >= c
    BY <1>1, <1>6 DEF Paged
  <2> HIDE DEF n, m, c
  <2>2. n \in 0 .. head
    BY <1>2, <1>3, <2>1
  <2>3. \A i \in 1 .. n : m - i + 1 \in 1 .. head
    BY <1>2, <1>3, <2>1
  <2>4. \A i \in 1 .. n : found[i] \in 1 .. head
    BY <1>4, <2>3
  <2> QED BY <1>1, <1>2, <1>3, <2>2, <2>4 DEF n
<1> QED BY <1>5, <1>6

\* What a call is at, in the loop.
LEMMA AtCurrent ==
    ASSUME Inv, NEW t \in Ticks,
           \/ pc[t] \in {"findUser", "findById"} \cup Submitting
           \/ pc[t] = "next" /\ ~Exhausted(t)
    PROVE  /\ call[t].index \in 1 .. Len(call[t].found)
           /\ call[t].index + 1 \in 1 .. LastEvent + 1
           /\ Current(t) \in 1 .. head
           /\ Current(t) \in Events
<1>1. Looped(t) /\ head \in 0 .. LastEvent
    BY DEF Inv, TypeOK
<1>2. pc[t] \in Scanning \ {"fetch", "abort"}
    BY DEF Scanning, Submitting
<1>3. Len(call[t].found) \in 0 .. head
    BY Finding
<1>4. call[t].index \in 1 .. Len(call[t].found) + 1
    BY <1>1, <1>2 DEF Looped
<1>5. call[t].index <= Len(call[t].found)
    BY <1>1, <1>3, <1>4 DEF Looped, Exhausted
<1>6. call[t].index \in 1 .. Len(call[t].found)
    BY <1>3, <1>4, <1>5
<1>7. Current(t) \in 1 .. head
    BY <1>6, Finding DEF Current
<1> QED BY <1>1, <1>3, <1>6, <1>7, LastEventIsNat DEF Events

-------------------------------------------------------------------------------
\* While the calls and what they write stay as they are, and the chain and the
\* users' claims grow.
LEMMA SurroundingsKeep ==
    ASSUME Inv, UNCHANGED <<config, pc, call, book>>, TypeOK', Addressed',
           head <= head',
           \A e \in 1 .. head : keepers[e] = {} => keepers'[e] = {},
           named' \cap 1 .. head \subseteq named,
           \A u \in Users : claims[u] \subseteq claims'[u]
    PROVE  Inv'
<1> USE LastEventIsNat DEF book
<1>1. head \in 0 .. LastEvent /\ head' \in 0 .. LastEvent /\ 1 .. head \subseteq Events
    BY DEF Inv, TypeOK, Events
<1>2. \A e \in 1 .. head : Done(e) => Done(e)'
    BY <1>1, DoneStays DEF Known
<1>3. config'.lastLt <= head' /\ config.lastLt \in 0 .. head
    BY <1>1 DEF Inv, TypeOK
<1>4. CursorAccounted'
    BY <1>1, <1>2, <1>3 DEF CursorAccounted, Done, Inv
<1>5. Alone'
    BY DEF Inv, Alone
<1>6. ASSUME NEW t \in Ticks PROVE Cursor(t)' /\ Paged(t)' /\ Looped(t)' /\ Submits(t)'
  <2>1. /\ Cursor(t) /\ Paged(t) /\ Looped(t) /\ Submits(t)
        /\ call[t] \in Call
        /\ pc[t] \in {"idle", "claim"} \cup Scanning
    BY DEF Inv, TypeOK
  <2>2. \A i \in DOMAIN call[t].found : call[t].found[i] \in 1 .. head
    BY Finding
  <2>3. Cursor(t)'
    <3>1. pc[t] # "idle" => call[t].lastLt \in config.lastLt .. head
      BY <2>1 DEF Cursor
    <3> QED BY <1>1, <1>2, <1>3, <2>1, <3>1 DEF Cursor, Call
  <2>4. Paged(t)'
    BY <1>1, <2>1 DEF Paged
  <2>5. Looped(t)'
    <3>1. ASSUME pc[t] \in Scanning \ {"fetch", "abort"}, NEW i \in 1 .. call[t].index - 1
          PROVE  Done(call[t].found[i])'
      <4>1. i \in DOMAIN call[t].found /\ Done(call[t].found[i])
        BY <2>1, <3>1, LenProperties DEF Looped, Call
      <4> QED BY <1>2, <2>2, <4>1
    <3> QED BY <2>1, <3>1 DEF Looped
  <2>6. Submits(t)'
    <3>1. ASSUME pc[t] \in {"findById"} \cup Submitting
          PROVE  Current(t) \in 1 .. head /\ Current(t)' = Current(t)
      <4>1. call[t].index \in DOMAIN call[t].found
        BY <2>1, <3>1, LenProperties DEF Looped, Call, Scanning, Submitting
      <4> QED BY <2>2, <4>1 DEF Current
    <3>2. ASSUME pc[t] \in Submitting PROVE Rightful(call[t].existedUser, Current(t))'
      BY <2>1, <3>1, <3>2, RightfulStays DEF Submits
    <3>3. ASSUME pc[t] = "findById" PROVE keepers[Current(t)]' = {}
      BY <2>1, <3>1, <3>3 DEF Submits
    <3> QED BY <2>1, <3>1, <3>2, <3>3 DEF Submits, Submitting
  <2> QED BY <2>3, <2>4, <2>5, <2>6
<1>7. ASSUME NEW e \in Events PROVE Booked(e)'
  <2>1. Booked(e) /\ credited[e] \in Seq(Users)
    BY DEF Inv, TypeOK
  <2>2. ASSUME NEW i \in DOMAIN credited[e] PROVE Rightful(credited[e][i], e)'
    <3>1. e \in 1 .. head
      BY <2>1, <2>2 DEF Booked, Events
    <3>2. credited[e][i] \in Users
      BY <2>1, LenProperties, ElementOfSeq
    <3> QED BY <2>1, <3>1, <3>2, RightfulStays DEF Booked
  <2>3. record[e] # "none" => e <= head'
    BY <1>1, <2>1 DEF Booked, Events
  <2> QED BY <2>1, <2>2, <2>3 DEF Booked
<1> QED BY <1>3, <1>4, <1>5, <1>6, <1>7 DEF Inv

-------------------------------------------------------------------------------
\* The form of the addresses that are kept is that of the senders.
LEMMA HoldersAreOwners ==
    ASSUME TypeOK, Addressed, NEW a \in Accounts
    PROVE  Holders(a) \subseteq Owners(a)
<1>1. ASSUME NEW u \in Holders(a) PROVE u \in Owners(a)
  <2>1. u \in users /\ u \in Users /\ address[u] # None /\ address[u].account = a
    BY <1>1 DEF Holders, TypeOK
  <2>2. address[u] \in Addresses /\ address[u].form = "canonical"
    BY <2>1 DEF TypeOK, Addressed
  <2>3. address[u] = SenderAddress(a)
    BY <2>1, <2>2 DEF Addresses, SenderAddress
  <2> QED BY <2>1, <2>3 DEF Owners
<1> QED BY <1>1

\* The steps of the chain and of the users.
LEMMA NewEventKeeps == Inv /\ NewEvent => Inv'
<1> SUFFICES ASSUME Inv, NewEvent PROVE Inv'
    OBVIOUS
<1> USE LastEventIsNat
<1>1. head \in 0 .. LastEvent /\ head' = head + 1 /\ head' \in 0 .. LastEvent
    BY DEF Inv, TypeOK, NewEvent
<1>2. keepers \in [Events -> SUBSET users] /\ Addressed /\ TypeOK /\ head + 1 \in Events
    BY <1>1 DEF Inv, TypeOK, Events
<1>3. UNCHANGED <<config, pc, call, book, users, address, claims, changes, faults>>
    BY DEF NewEvent
<1>4. \A e \in Events : e # head + 1 => keepers'[e] = keepers[e]
    BY <1>2 DEF NewEvent
<1>5. keepers'[head + 1] \subseteq Holders(Sender[head + 1])
    BY <1>2 DEF NewEvent
<1>6. keepers' \in [Events -> SUBSET users]
    BY <1>2 DEF NewEvent, Holders
<1>7. TypeOK'
  <2>1. settled' \subseteq (1 .. head') \cap (Deposits \cup Malformed)
    BY <1>1 DEF NewEvent, Inv, TypeOK, Deposits, Malformed
  <2>2. named' \subseteq Events
    BY <1>2 DEF NewEvent, TypeOK, Deposits
  <2> QED BY <1>1, <1>2, <1>3, <1>6, <2>1, <2>2 DEF TypeOK, book
<1>8. Addressed'
  <2>1. ASSUME NEW e \in Events PROVE keepers'[e] \subseteq Owners(Sender[e])
    <3>1. CASE e = head + 1
      BY <1>2, <1>5, <3>1, KindOfEvents, HoldersAreOwners
    <3>2. CASE e # head + 1
      BY <1>2, <1>4, <3>2 DEF Addressed
    <3> QED BY <3>1, <3>2
  <2>2. \A e \in Events : Owners(Sender[e])' = Owners(Sender[e])
    BY <1>3 DEF Owners
  <2>3. \A e \in named' : Comment[e] \in users'
    BY <1>2, <1>3 DEF Addressed, NewEvent
  <2> QED BY <1>2, <1>3, <2>1, <2>2, <2>3 DEF Addressed
<1>9. (\A e \in 1 .. head : keepers'[e] = keepers[e]) /\ named' \cap 1 .. head \subseteq named
  <2>1. \A e \in 1 .. head : e \in Events /\ e # head + 1
    BY <1>1 DEF Events
  <2> QED BY <1>4, <2>1 DEF NewEvent
<1> QED BY <1>1, <1>3, <1>7, <1>8, <1>9, SurroundingsKeep

LEMMA SettleKeeps == ASSUME Inv, NEW e \in Events, Settle(e) PROVE Inv'
<1>1. TypeOK /\ UNCHANGED <<head, config, pc, call, book, people, faults>>
    BY DEF Settle, Inv
<1>2. TypeOK'
    BY <1>1 DEF Settle, TypeOK, book, people
<1>3. Addressed'
    BY <1>1 DEF Inv, Addressed, Owners, people
<1>4. head <= head' /\ \A u \in Users : claims[u] \subseteq claims'[u]
    BY <1>1, LastEventIsNat DEF TypeOK, people
<1> QED BY <1>1, <1>2, <1>3, <1>4, SurroundingsKeep DEF people

LEMMA NewUserKeeps == ASSUME Inv, NEW u \in Users, NewUser(u) PROVE Inv'
<1>1. /\ TypeOK /\ Addressed
      /\ UNCHANGED <<head, settled, config, pc, call, book, faults>>
      /\ UNCHANGED <<address, claims, keepers, named>>
      /\ users' = users \cup {u}
      /\ changes < MaxChanges /\ changes' = changes + 1
    BY DEF NewUser, Inv
<1>2. TypeOK'
  <2>1. changes' \in 0 .. MaxChanges
    BY <1>1, BoundsAreNat DEF TypeOK
  <2>2. users' \subseteq Users /\ keepers' \in [Events -> SUBSET users']
    BY <1>1 DEF TypeOK
  <2> QED BY <1>1, <2>1, <2>2 DEF TypeOK, book
<1>3. Addressed'
    BY <1>1 DEF Addressed, Owners
<1>4. head <= head' /\ \A v \in Users : claims[v] \subseteq claims'[v]
    BY <1>1, LastEventIsNat DEF TypeOK
<1> QED BY <1>1, <1>2, <1>3, <1>4, SurroundingsKeep

LEMMA UpdateUserKeeps ==
    ASSUME Inv, NEW u \in Users, NEW id \in Users,
           NEW given \in Addresses \cup {None, Undefined}, UpdateUser(u, id, given)
    PROVE  Inv'
<1> DEFINE written == ToModel(u, Canonical(given))
<1>1. /\ TypeOK /\ Addressed
      /\ UNCHANGED <<head, settled, config, pc, call, book, faults>>
      /\ changes < MaxChanges /\ changes' = changes + 1
      /\ users' = (users \ {u}) \cup {id}
      /\ address' = [address EXCEPT ![u] = None, ![id] = written]
      /\ claims' = [claims EXCEPT ![id] = IF written = None THEN @ ELSE @ \cup {written.account}]
      /\ named' = {e \in named : Comment[e] \in users'}
    BY DEF UpdateUser, Inv
<1>2. keepers' = [e \in Events |->
                    {IF k = u THEN id ELSE k : k \in keepers[e]} \cap Holders(Sender[e])']
    BY DEF UpdateUser
<1>3. /\ written \in Addresses \cup {None}
      /\ written # None => /\ written.form = "canonical" /\ written.account \in Accounts
  <2>1. CASE given = Undefined
    <3>1. written = address[u]
      BY <2>1, UndefinedIsNoAddress DEF Canonical, ToModel
    <3>2. address[u] \in Addresses \cup {None}
      BY <1>1 DEF TypeOK
    <3>3. address[u] # None =>
              address[u].form = "canonical" /\ address[u].account \in claims[u]
      BY <1>1 DEF Addressed
    <3> QED BY <3>1, <3>2, <3>3 DEF Addresses
  <2>2. CASE given = None
    BY <2>2, NoneIsNoUser, UndefinedIsNoAddress DEF Canonical, ToModel
  <2>3. CASE given \in Addresses
    <3>1. /\ Canonical(given) = [given EXCEPT !.form = "canonical"]
          /\ Canonical(given) \in Addresses
          /\ Canonical(given).form = "canonical"
          /\ Canonical(given).account = given.account
          /\ given.account \in Accounts
      BY <2>3 DEF Canonical, Addresses
    <3>2. written = Canonical(given)
      BY <3>1, UndefinedIsNoAddress DEF ToModel
    <3> QED BY <2>3, <3>1, <3>2, UndefinedIsNoAddress
  <2> QED BY <2>1, <2>2, <2>3
<1>4. address \in [Users -> Addresses \cup {None}] /\ claims \in [Users -> SUBSET Accounts]
    BY <1>1 DEF TypeOK
<1> HIDE DEF written
<1>5. /\ address'[id] = written
      /\ claims'[id] = IF written = None THEN claims[id] ELSE claims[id] \cup {written.account}
      /\ \A v \in Users \ {id} : /\ address'[v] \in {None, address[v]}
                                 /\ claims'[v] = claims[v]
    BY <1>1, <1>4
<1>6. \A v \in Users : claims[v] \subseteq claims'[v]
    BY <1>5
<1>7. \A v \in Users :
          address'[v] # None => address'[v].form = "canonical" /\ address'[v].account \in claims'[v]
  <2>1. ASSUME NEW v \in Users \ {id}, address'[v] # None
        PROVE  address'[v].form = "canonical" /\ address'[v].account \in claims'[v]
    BY <1>1, <1>5, <2>1 DEF Addressed
  <2>2. written # None => written.account \in claims'[id]
    BY <1>5
  <2> QED BY <1>3, <1>5, <2>1, <2>2
<1>8. \A e \in Events : keepers'[e] \subseteq Holders(Sender[e])'
    BY <1>2
<1>9. TypeOK'
  <2>1. address' \in [Users -> Addresses \cup {None}]
    BY <1>1, <1>3, <1>4
  <2>2. claims' \in [Users -> SUBSET Accounts]
    BY <1>1, <1>3, <1>4
  <2>3. users' \subseteq Users /\ named' \subseteq Events
    BY <1>1 DEF TypeOK
  <2>4. keepers' \in [Events -> SUBSET users']
    BY <1>2 DEF Holders
  <2>5. changes' \in 0 .. MaxChanges
    BY <1>1, BoundsAreNat DEF TypeOK
  <2> QED BY <1>1, <2>1, <2>2, <2>3, <2>4, <2>5 DEF TypeOK, book
<1>10. Addressed'
  <2>1. ASSUME NEW e \in Events, NEW v \in keepers'[e] PROVE v \in Owners(Sender[e])'
    <3>1. v \in users' /\ v \in Users /\ address'[v] # None /\ address'[v].account = Sender[e]
      BY <1>8, <1>9 DEF Holders, TypeOK
    <3>2. address'[v] \in Addresses /\ address'[v].form = "canonical"
      BY <1>7, <1>9, <3>1 DEF TypeOK
    <3>3. address'[v] = SenderAddress(Sender[e])
      BY <3>1, <3>2 DEF Addresses, SenderAddress
    <3> QED BY <3>1, <3>3 DEF Owners
  <2> QED BY <1>1, <1>7, <2>1 DEF Addressed
<1>11. \A e \in 1 .. head : keepers[e] = {} => keepers'[e] = {}
  <2>1. 1 .. head \subseteq Events
    BY <1>1, LastEventIsNat DEF TypeOK, Events
  <2> QED BY <1>1, <1>2, <2>1
<1>12. head <= head' /\ named' \subseteq named
    BY <1>1, LastEventIsNat DEF TypeOK
<1>13. UNCHANGED <<config, pc, call, book>>
    BY <1>1
<1> QED BY <1>6, <1>9, <1>10, <1>11, <1>12, <1>13, SurroundingsKeep

-------------------------------------------------------------------------------
\* The conditions on a call that is not alive after the step.
LEMMA IdleAfterwards ==
    ASSUME NEW t \in Ticks, pc'[t] = "idle", call'[t] = NoCall
    PROVE  Cursor(t)' /\ Paged(t)' /\ Looped(t)' /\ Submits(t)'
<1>1. call'[t].found = <<>>
    BY DEF NoCall
<1>2. Cursor(t)'
    BY DEF Cursor
<1>3. Paged(t)'
    BY <1>1 DEF Paged, Scanning, Submitting
<1>4. Looped(t)' /\ Submits(t)'
    BY DEF Looped, Submits, Scanning, Submitting
<1> QED BY <1>2, <1>3, <1>4

\* While one call is alive, the others are not.
LEMMA OthersIdle ==
    ASSUME Inv, NEW t \in Ticks, pc[t] # "idle", NEW u \in Ticks, u # t
    PROVE  pc[u] = "idle" /\ call[u] = NoCall
    BY DEF Inv, Alone, Cursor

\* A step of the one call that is alive, by what it leaves of it and of the book.
LEMMA OneCallMoves ==
    ASSUME Inv, TypeOK', NEW t \in Ticks,
           \A u \in Ticks \ {t} : pc'[u] = "idle" /\ call'[u] = NoCall,
           UNCHANGED <<head, people>>,
           config'.lastLt <= head,
           \A e \in 1 .. config'.lastLt : Done(e)',
           pc'[t] = "claim" => config'.status = "ACTIVE",
           pc'[t] \in Scanning => config'.status = "RUNNING",
           Cursor(t)', Paged(t)', Looped(t)', Submits(t)',
           \A e \in Events : Booked(e)'
    PROVE  Inv'
<1>1. config'.lastLt <= head'
    OBVIOUS
<1>2. CursorAccounted'
    BY DEF CursorAccounted, Done
<1>3. Alone'
  <2>1. \A u \in Ticks : pc'[u] # "idle" => u = t
    OBVIOUS
  <2> QED BY <2>1 DEF Alone, Scanning, Submitting
<1>4. \A u \in Ticks : Cursor(u)' /\ Paged(u)' /\ Looped(u)' /\ Submits(u)'
    BY IdleAfterwards
<1>5. Addressed'
    BY DEF Inv, Addressed, Owners, people
<1> QED BY <1>1, <1>2, <1>3, <1>4, <1>5 DEF Inv

\* What has been dealt with stays so in such a step.
LEMMA DoneStaysInCall ==
    ASSUME Inv, UNCHANGED <<head, people>>, config'.lastLt = config.lastLt,
           \A e \in Events : credited[e] # <<>> => credited'[e] # <<>>,
           skipped \subseteq skipped', refused \subseteq refused'
    PROVE  /\ \A e \in 1 .. head : Done(e) => Done(e)'
           /\ config.lastLt \in 0 .. head
           /\ \A e \in 1 .. config'.lastLt : Done(e)'
<1>1. head \in 0 .. LastEvent /\ config.lastLt \in 0 .. LastEvent /\ config.lastLt <= head
    BY DEF Inv, TypeOK
<1>2. 1 .. head \subseteq Events
    BY <1>1, LastEventIsNat DEF Events
<1>3. \A e \in Events : Known(e)' = Known(e)
    BY DEF Known, people
<1>4. \A e \in 1 .. head : Done(e) => Done(e)'
    BY <1>2, <1>3, DoneStays
<1>5. config.lastLt \in 0 .. head /\ 1 .. config.lastLt \subseteq 1 .. head
    BY <1>1, LastEventIsNat
<1>6. \A e \in 1 .. config.lastLt : Done(e)
    BY DEF Inv, CursorAccounted, Done
<1> QED BY <1>4, <1>5, <1>6

\* The loop goes on with the next event, this one having been dealt with.
LEMMA NextElementKeeps ==
    ASSUME Inv, NEW t \in Ticks,
           \/ pc[t] \in {"findUser", "findById"} \cup Submitting
           \/ pc[t] = "next" /\ ~Exhausted(t),
           NextElement(t),
           UNCHANGED <<head, settled, config, people>>,
           \A e \in Events : credited[e] # <<>> => credited'[e] # <<>>,
           skipped \subseteq skipped', refused \subseteq refused',
           \A e \in Events : e = Current(t) => Done(e)',
           record' \in [Events -> {"none", "PENDING", "SUCCESS"}],
           credited' \in [Events -> Seq(Users)],
           skipped' \subseteq Events, refused' \subseteq Events,
           faults' \in 0 .. MaxFaults,
           \A e \in Events : Booked(e)'
    PROVE  Inv'
<1>1. TypeOK /\ Cursor(t) /\ Paged(t) /\ Looped(t) /\ call[t] \in Call
    BY DEF Inv, TypeOK
<1>2. pc[t] \in Scanning \ {"fetch", "abort"} /\ pc[t] # "idle" /\ pc[t] # "claim"
    BY DEF Scanning, Submitting
<1>3. /\ pc' = [pc EXCEPT ![t] = "next"]
      /\ call' = [call EXCEPT ![t].index = @ + 1, ![t].existedUser = None]
    BY DEF NextElement, Goto
<1>4. pc'[t] = "next" /\ call'[t] = [call[t] EXCEPT !.index = @ + 1, !.existedUser = None]
    BY <1>1, <1>3 DEF TypeOK
<1>5. /\ call[t].index \in 1 .. Len(call[t].found)
      /\ call[t].index + 1 \in 1 .. LastEvent + 1
    BY AtCurrent
<1>6. /\ call'[t].found = call[t].found
      /\ call'[t].currentLt = call[t].currentLt
      /\ call'[t].lastLt = call[t].lastLt
      /\ call'[t].index = call[t].index + 1
      /\ call'[t] \in Call
    BY <1>1, <1>4, <1>5 DEF Call
<1>7. /\ \A e \in 1 .. head : Done(e) => Done(e)'
      /\ config.lastLt \in 0 .. head
      /\ \A e \in 1 .. config'.lastLt : Done(e)'
    BY DoneStaysInCall
<1>8. Cursor(t)'
    BY <1>1, <1>2, <1>4, <1>6, <1>7 DEF Cursor
<1>9. Paged(t)'
  <2>1. pc[t] \in Scanning \ {"fetch", "abort"} /\ pc'[t] \notin {"claim", "fetch"}
    BY <1>2, <1>4
  <2> QED BY <1>1, <1>6, <2>1 DEF Paged
<1>10. Looped(t)'
  <2>1. call'[t].index \in 1 .. Len(call[t].found) + 1 /\ Len(call[t].found) \in Nat
    BY <1>5, <1>6, Finding
  <2>2. ASSUME NEW i \in 1 .. call'[t].index - 1, NEW e \in 1 .. head, e = call[t].found[i]
        PROVE  Done(e)'
    <3>1. CASE i = call[t].index
      BY <2>2, <3>1, AtCurrent DEF Current
    <3>2. CASE i # call[t].index
      <4>1. i \in 1 .. call[t].index - 1
        BY <1>5, <1>6, <2>1, <2>2, <3>2
      <4>2. Done(e)
        BY <1>1, <1>2, <2>2, <4>1 DEF Looped
      <4> QED BY <1>7, <4>2
    <3> QED BY <3>1, <3>2
  <2>3. ASSUME NEW i \in 1 .. call'[t].index - 1 PROVE Done(call[t].found[i])'
    <3>1. i \in 1 .. Len(call[t].found)
      BY <1>5, <1>6, <2>1
    <3>2. call[t].found[i] \in 1 .. head /\ call'[t].found[i] = call[t].found[i]
      BY <1>6, <3>1, Finding
    <3> QED BY <2>2, <3>2
  <2> QED BY <1>4, <1>6, <2>1, <2>3 DEF Looped, Submitting
<1>11. Submits(t)'
    BY <1>4 DEF Submits, Submitting
<1>12. \A u \in Ticks \ {t} : pc'[u] = "idle" /\ call'[u] = NoCall
    BY <1>1, <1>2, <1>3, OthersIdle DEF TypeOK
<1>13. TypeOK'
  <2>1. pc' \in [Ticks -> {"idle", "claim"} \cup Scanning]
    BY <1>1, <1>3 DEF TypeOK, Scanning
  <2>2. call' \in [Ticks -> Call]
    <3>1. \A u \in Ticks : call'[u] \in Call
      BY <1>1, <1>3, <1>6 DEF TypeOK
    <3> QED BY <1>1, <1>3, <3>1 DEF TypeOK
  <2> QED BY <1>1, <2>1, <2>2 DEF TypeOK, people
<1>14. pc'[t] = "next" /\ config'.status = "RUNNING"
    BY <1>2, <1>4 DEF Inv, Alone
<1>15. config'.lastLt <= head
    BY <1>7
<1> QED BY <1>7, <1>8, <1>9, <1>10, <1>11, <1>12, <1>13, <1>14, <1>15, OneCallMoves

\* The call goes on with the event it is at, or leaves the loop after the last.
LEMMA SameEventKeeps ==
    ASSUME Inv, NEW t \in Ticks, pc[t] \in {"next", "findUser", "findById"} \cup Submitting,
           NEW l \in {"findUser", "findById", "release"} \cup Submitting, Goto(t, l),
           l = "release" <=> Exhausted(t),
           call' \in [Ticks -> Call],
           \A u \in Ticks \ {t} : call'[u] = call[u],
           /\ call'[t].found = call[t].found
           /\ call'[t].index = call[t].index
           /\ call'[t].currentLt = call[t].currentLt
           /\ call'[t].lastLt = call[t].lastLt,
           UNCHANGED <<head, settled, config, people, skipped, refused, faults>>,
           \A e \in Events : credited[e] # <<>> => credited'[e] # <<>>,
           record' \in [Events -> {"none", "PENDING", "SUCCESS"}],
           credited' \in [Events -> Seq(Users)],
           Submits(t)',
           \A e \in Events : Booked(e)'
    PROVE  Inv'
<1>1. TypeOK /\ Cursor(t) /\ Paged(t) /\ Looped(t) /\ call[t] \in Call
    BY DEF Inv, TypeOK
<1>2. pc[t] \in Scanning \ {"fetch", "abort"} /\ pc[t] # "idle" /\ pc[t] # "claim"
    BY DEF Scanning, Submitting
<1>3. pc' = [pc EXCEPT ![t] = l] /\ pc'[t] = l
    BY <1>1 DEF Goto, TypeOK
<1>4. l \in Scanning \ {"fetch", "abort"} /\ l # "idle" /\ l # "claim"
    BY DEF Scanning, Submitting
<1>5. /\ \A e \in 1 .. head : Done(e) => Done(e)'
      /\ config.lastLt \in 0 .. head
      /\ \A e \in 1 .. config'.lastLt : Done(e)'
    BY DoneStaysInCall
<1>6. Cursor(t)'
    BY <1>1, <1>2, <1>3, <1>4, <1>5 DEF Cursor
<1>7. Paged(t)'
    BY <1>1, <1>2, <1>3, <1>4 DEF Paged
<1>8. Looped(t)'
  <2>1. call[t].index \in 1 .. Len(call[t].found) + 1
    BY <1>1, <1>2 DEF Looped
  <2>2. l # "release" => call[t].index <= Len(call[t].found)
    BY <2>1, Finding DEF Exhausted
  <2>3. ASSUME NEW i \in 1 .. call'[t].index - 1 PROVE Done(call[t].found[i])'
    <3>1. i \in 1 .. call[t].index - 1 /\ i \in 1 .. Len(call[t].found)
      BY <2>1, Finding
    <3>2. Done(call[t].found[i]) /\ call[t].found[i] \in 1 .. head
      BY <1>1, <1>2, <3>1, Finding DEF Looped
    <3>3. call'[t].found[i] = call[t].found[i]
      OBVIOUS
    <3> QED BY <1>5, <3>2, <3>3
  <2> QED BY <1>3, <2>1, <2>2, <2>3 DEF Looped, Submitting, Exhausted
<1>9. \A u \in Ticks \ {t} : pc'[u] = "idle" /\ call'[u] = NoCall
    BY <1>1, <1>2, <1>3, OthersIdle DEF TypeOK
<1>10. TypeOK'
  <2>1. pc' \in [Ticks -> {"idle", "claim"} \cup Scanning]
    BY <1>1, <1>3, <1>4 DEF TypeOK
  <2> QED BY <1>1, <2>1 DEF TypeOK, people
<1>11. config'.status = "RUNNING" /\ pc'[t] # "claim"
    BY <1>2, <1>3, <1>4 DEF Inv, Alone
<1>12. config'.lastLt <= head
    BY <1>5
<1> QED BY <1>5, <1>6, <1>7, <1>8, <1>9, <1>10, <1>11, <1>12, OneCallMoves

\* A call gives up, with the cursor it has or the one it has reached.
LEMMA GivingUpKeeps ==
    ASSUME Inv, NEW t \in Ticks, pc[t] \in Scanning, Goto(t, "abort"),
           call' \in [Ticks -> Call],
           \A u \in Ticks \ {t} : call'[u] = call[u],
           /\ call'[t].found = call[t].found
           /\ call'[t].currentLt = call[t].currentLt
           /\ call'[t].lastLt \in config.lastLt .. head,
           \A e \in 1 .. call'[t].lastLt : Done(e),
           UNCHANGED <<head, settled, config, book, people>>,
           faults' \in 0 .. MaxFaults
    PROVE  Inv'
<1>1. TypeOK /\ Cursor(t) /\ Paged(t) /\ pc[t] # "idle" /\ head \in 0 .. LastEvent
    BY DEF Inv, TypeOK, Scanning, Submitting
<1>2. pc' = [pc EXCEPT ![t] = "abort"] /\ pc'[t] = "abort"
    BY <1>1 DEF Goto, TypeOK
<1>3. /\ \A e \in 1 .. head : Done(e) => Done(e)'
      /\ config.lastLt \in 0 .. head
      /\ \A e \in 1 .. config'.lastLt : Done(e)'
    BY DoneStaysInCall DEF book
<1>4. Cursor(t)'
  <2>1. \A e \in 1 .. call'[t].lastLt : e \in 1 .. head /\ Done(e)
    BY <1>1, <1>3, LastEventIsNat
  <2>2. call'[t].currentLt = config'.lastLt /\ call'[t].lastLt \in config'.lastLt .. head'
    BY <1>1 DEF Cursor
  <2> QED BY <1>2, <1>3, <2>1, <2>2 DEF Cursor
<1>5. Paged(t)'
    BY <1>1, <1>2 DEF Paged
<1>6. Looped(t)' /\ Submits(t)'
    BY <1>2 DEF Looped, Submits, Submitting
<1>7. \A u \in Ticks \ {t} : pc'[u] = "idle" /\ call'[u] = NoCall
    BY <1>1, <1>2, OthersIdle DEF TypeOK
<1>8. TypeOK'
  <2>1. pc' \in [Ticks -> {"idle", "claim"} \cup Scanning]
    BY <1>1, <1>2 DEF TypeOK, Scanning
  <2> QED BY <1>1, <2>1 DEF TypeOK, people, book
<1>9. config'.status = "RUNNING" /\ pc'[t] # "claim" /\ config'.lastLt <= head
    BY <1>1, <1>2, <1>3 DEF Inv, Alone
<1>10. \A e \in Events : Booked(e)'
  <2>1. \A e \in Events : Booked(e)
    BY DEF Inv
  <2> QED BY <2>1 DEF Booked, Rightful, book, people
<1> QED BY <1>3, <1>4, <1>5, <1>6, <1>7, <1>8, <1>9, <1>10, OneCallMoves

-------------------------------------------------------------------------------
\* What is written of events stays right where it is left alone.
LEMMA BookedStays ==
    ASSUME Inv, UNCHANGED <<head, people>>, NEW e \in Events,
           record'[e] = record[e], credited'[e] = credited[e]
    PROVE  Booked(e)'
<1>1. Booked(e)
    BY DEF Inv
<1> QED BY <1>1 DEF Booked, Rightful, people

\* What a submission knows of the event that it is at.
LEMMA Submission ==
    ASSUME Inv, NEW t \in Ticks, pc[t] \in Submitting
    PROVE  /\ call[t].existedUser \in Users
           /\ Rightful(call[t].existedUser, Current(t))
           /\ Current(t) \in 1 .. head /\ Current(t) \in Events
           /\ Booked(Current(t))
           /\ ~Exhausted(t)
<1>1. Submits(t) /\ call[t].index \in 1 .. Len(call[t].found) /\ Current(t) \in 1 .. head
      /\ Current(t) \in Events
    BY AtCurrent DEF Inv
<1>2. ~Exhausted(t)
    BY <1>1, Finding DEF Exhausted
<1> QED BY <1>1, <1>2 DEF Submits, Inv

LEMMA ParseEventKeeps == ASSUME Inv, NEW t \in Ticks, ParseEvent(t) PROVE Inv'
<1>1. /\ TypeOK /\ pc[t] = "next"
      /\ UNCHANGED <<head, settled, config, record, credited, refused, people, faults>>
    BY DEF ParseEvent, Inv
<1>2. \A e \in Events : Booked(e)'
    BY <1>1, BookedStays
<1>3. CASE Exhausted(t)
  <2>1. Goto(t, "release") /\ UNCHANGED <<call, skipped>> /\ pc'[t] = "release"
    BY <1>1, <1>3 DEF ParseEvent, Goto, TypeOK
  <2>2. Submits(t)'
    BY <2>1 DEF Submits, Submitting
  <2> QED BY <1>1, <1>2, <1>3, <2>1, <2>2, SameEventKeeps DEF TypeOK
<1>4. CASE ~Exhausted(t) /\ ~Throws(t) /\ Parsed(t)
  <2>1. Goto(t, "findUser") /\ UNCHANGED <<call, skipped>> /\ pc'[t] = "findUser"
    BY <1>1, <1>4 DEF ParseEvent, Goto, TypeOK
  <2>2. Submits(t)'
    BY <2>1 DEF Submits, Submitting
  <2> QED BY <1>1, <1>2, <1>4, <2>1, <2>2, SameEventKeeps DEF TypeOK
<1>5. CASE ~Exhausted(t) /\ ~Throws(t) /\ ~Parsed(t)
  <2>1. /\ NextElement(t)
        /\ skipped' = skipped \cup ({Current(t)} \cap (Deposits \ call[t].seen))
    BY <1>5 DEF ParseEvent
  <2>2. \A e \in Events : e = Current(t) => Done(e)'
    BY <1>1, <1>5, <2>1 DEF Parsed, Done, Known
  <2>3. skipped \subseteq skipped' /\ skipped' \subseteq Events
    BY <1>1, <2>1 DEF TypeOK, Deposits
  <2>4. /\ record \in [Events -> {"none", "PENDING", "SUCCESS"}]
        /\ credited \in [Events -> Seq(Users)]
        /\ refused \subseteq Events
        /\ faults \in 0 .. MaxFaults
    BY <1>1 DEF TypeOK
  <2> QED BY <1>1, <1>2, <1>5, <2>1, <2>2, <2>3, <2>4, NextElementKeeps
<1>6. CASE ~Exhausted(t) /\ Throws(t)
  <2>1. Goto(t, "abort") /\ UNCHANGED <<call, skipped>> /\ pc[t] \in Scanning
    BY <1>1, <1>6 DEF ParseEvent, Scanning
  <2>2. call[t].lastLt \in config.lastLt .. head /\ \A e \in 1 .. call[t].lastLt : Done(e)
    BY <1>1 DEF Inv, Cursor
  <2> QED BY <1>1, <2>1, <2>2, GivingUpKeeps DEF TypeOK, book
<1> QED BY <1>3, <1>4, <1>5, <1>6

\* A call goes on with the user it has found.
LEMMA SubmitKeeps ==
    ASSUME Inv, NEW t \in Ticks, pc[t] \in {"findUser", "findById"},
           NEW u \in Users, Submit(t, u), Rightful(u, Current(t)),
           UNCHANGED <<head, settled, config, book, people, faults>>
    PROVE  Inv'
<1>1. TypeOK /\ call \in [Ticks -> Call] /\ Goto(t, "checkRef")
      /\ call' = [call EXCEPT ![t].existedUser = u]
    BY DEF Inv, TypeOK, Submit
<1>2. \A f \in Events : Booked(f)'
    BY BookedStays DEF book
<1>3. /\ call'[t] = [call[t] EXCEPT !.existedUser = u]
      /\ \A v \in Ticks \ {t} : call'[v] = call[v]
    BY <1>1
<1>4. /\ call'[t] \in Call
      /\ call'[t].found = call[t].found
      /\ call'[t].index = call[t].index
      /\ call'[t].currentLt = call[t].currentLt
      /\ call'[t].lastLt = call[t].lastLt
      /\ call'[t].existedUser = u
  <2>1. call[t] \in Call
    BY <1>1
  <2> QED BY <1>3, <2>1 DEF Call
<1>5. call' \in [Ticks -> Call]
    BY <1>1, <1>3, <1>4
<1>6. pc'[t] = "checkRef"
    BY <1>1 DEF Goto, TypeOK
<1>7. Submits(t)'
  <2>1. Current(t)' = Current(t)
    BY <1>4 DEF Current
  <2>2. \A f : Rightful(u, f) => Rightful(u, f)'
    BY DEF Rightful, people
  <2>3. Rightful(call[t].existedUser, Current(t))'
    BY <1>4, <2>1, <2>2
  <2> QED BY <1>4, <1>6, <2>3 DEF Submits
<1>8. ~Exhausted(t)
    BY AtCurrent, Finding DEF Exhausted
<1>9. /\ record' \in [Events -> {"none", "PENDING", "SUCCESS"}]
      /\ credited' \in [Events -> Seq(Users)]
    BY <1>1 DEF TypeOK, book
<1> QED BY <1>1, <1>2, <1>3, <1>4, <1>5, <1>7, <1>8, <1>9, SameEventKeeps DEF book, Submitting

\* Or with the next event, when this is known to be nobody's.
LEMMA NobodyKeeps ==
    ASSUME Inv, NEW t \in Ticks, pc[t] \in {"findUser", "findById"}, NextElement(t),
           ~Known(Current(t)),
           UNCHANGED <<head, settled, config, book, people, faults>>
    PROVE  Inv'
<1>1. TypeOK
    BY DEF Inv
<1>2. \A f \in Events : Booked(f)'
    BY BookedStays DEF book
<1>3. \A f \in Events : f = Current(t) => Done(f)'
    BY DEF Done, Known, people
<1>4. /\ record' \in [Events -> {"none", "PENDING", "SUCCESS"}]
      /\ credited' \in [Events -> Seq(Users)]
      /\ skipped' \subseteq Events /\ refused' \subseteq Events
      /\ faults' \in 0 .. MaxFaults
    BY <1>1 DEF TypeOK, book
<1> QED BY <1>2, <1>3, <1>4, NextElementKeeps DEF book

LEMMA FindUserKeeps == ASSUME Inv, NEW t \in Ticks, FindUser(t) PROVE Inv'
<1> DEFINE e == Current(t)
           owners == Owners(Sender[e])
<1>1. /\ TypeOK /\ Addressed /\ pc[t] = "findUser"
      /\ UNCHANGED <<head, settled, config, book, people, faults>>
    BY DEF FindUser, Inv
<1>2. e \in Events /\ Comment[e] \in Users \cup {None} /\ Sender[e] \in Accounts
    BY <1>1, AtCurrent, KindOfEvents
<1>3. keepers[e] \subseteq owners
    BY <1>1, <1>2 DEF Addressed
<1>4. ASSUME NEW u \in owners, Submit(t, u) PROVE Inv'
  <2>1. u \in Users /\ address[u] = SenderAddress(Sender[e])
    BY <1>1, <1>4 DEF Owners, TypeOK
  <2>2. SenderAddress(Sender[e]) \in Addresses
    BY <1>2 DEF SenderAddress, Addresses
  <2>3. address[u] # None /\ address[u].account = Sender[e]
    BY <2>1, <2>2, NoneIsNoUser DEF SenderAddress
  <2>4. Rightful(u, e)
    BY <1>1, <2>1, <2>3 DEF Addressed, Rightful
  <2> QED BY <1>1, <1>4, <2>1, <2>4, SubmitKeeps
<1>5. CASE owners = {} /\ Comment[e] # None /\ Goto(t, "findById") /\ UNCHANGED call
  <2>1. pc'[t] = "findById"
    BY <1>1, <1>5 DEF Goto, TypeOK
  <2>2. Submits(t)'
    BY <1>1, <1>3, <1>5, <2>1 DEF Submits, Submitting, Current, people
  <2>3. \A f \in Events : Booked(f)'
    BY <1>1, BookedStays DEF book
  <2>4. ~Exhausted(t)
    BY <1>1, AtCurrent, Finding DEF Exhausted
  <2> HIDE DEF e, owners
  <2> QED BY <1>1, <1>5, <2>2, <2>3, <2>4, SameEventKeeps DEF TypeOK, book
<1>6. CASE owners = {} /\ Comment[e] = None /\ NextElement(t)
  <2>1. e \notin named
    BY <1>1, <1>6, NoneIsNoUser DEF Addressed, TypeOK
  <2>2. ~Known(e)
    BY <1>3, <1>6, <2>1 DEF Known
  <2> QED BY <1>1, <1>6, <2>2, NobodyKeeps
<1> QED BY <1>4, <1>5, <1>6 DEF FindUser

LEMMA FindByIdKeeps == ASSUME Inv, NEW t \in Ticks, FindById(t) PROVE Inv'
<1> DEFINE e == Current(t)
<1>1. /\ TypeOK /\ Addressed /\ Submits(t) /\ pc[t] = "findById"
      /\ UNCHANGED <<head, settled, config, book, people, faults>>
    BY DEF FindById, Inv
<1>2. e \in Events /\ keepers[e] = {}
    BY <1>1, AtCurrent DEF Submits
<1>3. CASE Comment[e] \in users
  <2>1. Comment[e] \in Users /\ Submit(t, Comment[e])
    BY <1>1, <1>3 DEF FindById, TypeOK
  <2>2. Rightful(Comment[e], e)
    BY <1>2 DEF Rightful
  <2> QED BY <1>1, <2>1, <2>2, SubmitKeeps
<1>4. CASE Comment[e] \notin users
  <2>1. e \notin named /\ NextElement(t)
    BY <1>1, <1>4 DEF Addressed, FindById
  <2>2. ~Known(e)
    BY <1>2, <2>1 DEF Known
  <2> QED BY <1>1, <2>1, <2>2, NobodyKeeps
<1> QED BY <1>3, <1>4

\* The steps of a submission.
LEMMA CheckRefKeeps == ASSUME Inv, NEW t \in Ticks, CheckRef(t) PROVE Inv'
<1>1. /\ TypeOK /\ pc[t] = "checkRef" /\ pc[t] \in Submitting
      /\ UNCHANGED <<head, settled, config, record, credited, skipped, people, faults>>
    BY DEF CheckRef, Inv, Submitting
<1>2. \A e \in Events : Booked(e)'
    BY <1>1, BookedStays
<1>3. /\ record \in [Events -> {"none", "PENDING", "SUCCESS"}]
      /\ credited \in [Events -> Seq(Users)]
      /\ skipped \subseteq Events /\ refused \subseteq Events
      /\ faults \in 0 .. MaxFaults
      /\ call \in [Ticks -> Call]
    BY <1>1 DEF TypeOK
<1>4. /\ call[t].existedUser \in Users
      /\ Rightful(call[t].existedUser, Current(t))
      /\ Current(t) \in Events /\ ~Exhausted(t)
    BY <1>1, Submission
<1>5. CASE record[Current(t)] # "none"
  <2>1. NextElement(t) /\ refused' = refused \cup {Current(t)}
    BY <1>1, <1>5 DEF CheckRef
  <2>2. \A e \in Events : e = Current(t) => Done(e)'
    BY <2>1 DEF Done
  <2>3. refused \subseteq refused' /\ refused' \subseteq Events
    BY <1>3, <1>4, <2>1
  <2> QED BY <1>1, <1>2, <1>3, <2>1, <2>2, <2>3, NextElementKeeps
<1>6. CASE record[Current(t)] = "none"
  <2>1. Goto(t, "create") /\ UNCHANGED <<call, refused>> /\ pc'[t] = "create"
    BY <1>1, <1>6 DEF CheckRef, Goto, TypeOK
  <2>2. Submits(t)'
    BY <1>1, <1>4, <1>6, <2>1 DEF Submits, Rightful, people, Current
  <2> QED BY <1>1, <1>2, <1>3, <1>4, <2>1, <2>2, SameEventKeeps DEF Submitting
<1> QED BY <1>5, <1>6

LEMMA CreateRecordKeeps == ASSUME Inv, NEW t \in Ticks, CreateRecord(t) PROVE Inv'
<1>1. /\ TypeOK /\ pc[t] = "create" /\ pc[t] \in Submitting
      /\ UNCHANGED <<head, settled, config, call, credited, skipped, refused, people, faults>>
      /\ record' = [record EXCEPT ![Current(t)] = "PENDING"]
      /\ Goto(t, "credit")
    BY DEF CreateRecord, Inv, Submitting
<1>2. /\ call[t].existedUser \in Users
      /\ Rightful(call[t].existedUser, Current(t))
      /\ Current(t) \in 1 .. head /\ Current(t) \in Events
      /\ Booked(Current(t)) /\ ~Exhausted(t)
    BY <1>1, Submission
<1>3. record[Current(t)] = "none" /\ credited[Current(t)] = <<>>
    BY <1>1, <1>2 DEF Inv, Submits, Booked
<1>4. /\ record \in [Events -> {"none", "PENDING", "SUCCESS"}]
      /\ credited \in [Events -> Seq(Users)] /\ call \in [Ticks -> Call]
      /\ record' \in [Events -> {"none", "PENDING", "SUCCESS"}]
      /\ record'[Current(t)] = "PENDING"
      /\ \A e \in Events : e # Current(t) => record'[e] = record[e]
    BY <1>1, <1>2 DEF TypeOK
<1>5. ASSUME NEW e \in Events PROVE Booked(e)'
  <2>1. CASE e = Current(t)
    <3>1. record'[e] = "PENDING" /\ credited'[e] = <<>> /\ head' = head /\ e \in 1 .. head
      BY <1>1, <1>2, <1>3, <1>4, <2>1
    <3>2. head \in Int /\ Len(credited'[e]) = 0 /\ DOMAIN credited'[e] = {}
      BY <1>1, <3>1, LastEventIsNat DEF TypeOK
    <3> QED BY <3>1, <3>2 DEF Booked
  <2>2. CASE e # Current(t)
    BY <1>1, <1>4, <2>2, BookedStays
  <2> QED BY <2>1, <2>2
<1>6. pc'[t] = "credit"
    BY <1>1 DEF Goto, TypeOK
<1>7. Submits(t)'
    BY <1>1, <1>2, <1>3, <1>4, <1>6 DEF Submits, Rightful, people, Current
<1> QED BY <1>1, <1>2, <1>4, <1>5, <1>7, SameEventKeeps DEF Submitting

LEMMA CreditWalletKeeps == ASSUME Inv, NEW t \in Ticks, CreditWallet(t) PROVE Inv'
<1> DEFINE now == Current(t)
           user == call[t].existedUser
<1>1. /\ TypeOK /\ pc[t] = "credit" /\ pc[t] \in Submitting
      /\ UNCHANGED <<head, settled, config, call, record, skipped, refused, people, faults>>
      /\ credited' = [credited EXCEPT ![now] = Append(@, user)]
      /\ Goto(t, "markSuccess")
    BY DEF CreditWallet, Inv, Submitting
<1>2. user \in Users /\ Rightful(user, now) /\ now \in 1 .. head /\ now \in Events
      /\ Booked(now) /\ ~Exhausted(t)
    BY <1>1, Submission
<1>3. record[now] = "PENDING" /\ credited[now] = <<>>
    BY <1>1 DEF Inv, Submits
<1>4. /\ record \in [Events -> {"none", "PENDING", "SUCCESS"}]
      /\ credited \in [Events -> Seq(Users)] /\ call \in [Ticks -> Call]
    BY <1>1 DEF TypeOK
<1>5. /\ credited'[now] = <<user>>
      /\ \A e \in Events : e # now => credited'[e] = credited[e]
    BY <1>1, <1>2, <1>3, <1>4
<1>6. credited' \in [Events -> Seq(Users)]
    BY <1>1, <1>2, <1>4
<1>7. ASSUME NEW e \in Events PROVE Booked(e)'
  <2>1. CASE e = now
    <3>1. Booked(e) /\ credited'[e] = <<user>> /\ record'[e] = "PENDING"
      BY <1>1, <1>2, <1>3, <1>5, <2>1
    <3>2. Len(credited'[e]) = 1 /\ credited'[e] # <<>>
      BY <3>1
    <3>3. \A i \in DOMAIN credited'[e] : credited'[e][i] = user
      BY <3>1
    <3>4. Rightful(user, e)'
      BY <1>1, <1>2, <2>1 DEF Rightful, people
    <3>5. e <= head'
      BY <1>1, <3>1 DEF Booked
    <3>6. \A i \in DOMAIN credited'[e] : Rightful(credited[e][i], e)'
      BY <1>1, <3>3, <3>4 DEF Rightful
    <3> QED BY <3>1, <3>2, <3>5, <3>6 DEF Booked
  <2>2. CASE e # now
    BY <1>1, <1>5, <2>2, BookedStays
  <2> QED BY <2>1, <2>2
<1>8. pc'[t] = "markSuccess"
    BY <1>1 DEF Goto, TypeOK
<1>9. Submits(t)'
  <2>1. Current(t)' = now /\ call'[t].existedUser = user
    BY <1>1 DEF Current
  <2>2. \A e \in Events : Rightful(user, e) => Rightful(user, e)'
    BY <1>1 DEF Rightful, people
  <2>3. Rightful(call[t].existedUser, Current(t))'
    BY <1>2, <2>1, <2>2
  <2>4. record'[now] # "none" /\ credited'[now] # <<>>
    BY <1>1, <1>3, <1>5
  <2> HIDE DEF now, user
  <2> QED BY <1>2, <1>8, <2>1, <2>3, <2>4 DEF Submits
<1>10. \A e \in Events : credited[e] # <<>> => credited'[e] # <<>>
    BY <1>5
<1> HIDE DEF now, user
<1> QED BY <1>1, <1>2, <1>4, <1>6, <1>7, <1>9, <1>10, SameEventKeeps DEF Submitting

LEMMA MarkSuccessKeeps == ASSUME Inv, NEW t \in Ticks, MarkSuccess(t) PROVE Inv'
<1>1. /\ TypeOK /\ pc[t] = "markSuccess" /\ pc[t] \in Submitting
      /\ UNCHANGED <<head, settled, config, credited, skipped, refused, people, faults>>
      /\ record' = [record EXCEPT ![Current(t)] = "SUCCESS"]
      /\ NextElement(t)
    BY DEF MarkSuccess, Inv, Submitting
<1>2. Current(t) \in Events /\ Booked(Current(t))
    BY <1>1, Submission
<1>3. record[Current(t)] # "none" /\ credited[Current(t)] # <<>>
    BY <1>1 DEF Inv, Submits
<1>4. /\ record \in [Events -> {"none", "PENDING", "SUCCESS"}]
      /\ credited \in [Events -> Seq(Users)]
      /\ skipped \subseteq Events /\ refused \subseteq Events
      /\ faults \in 0 .. MaxFaults
      /\ record' \in [Events -> {"none", "PENDING", "SUCCESS"}]
      /\ record'[Current(t)] = "SUCCESS"
      /\ \A e \in Events : e # Current(t) => record'[e] = record[e]
    BY <1>1, <1>2 DEF TypeOK
<1>5. ASSUME NEW e \in Events PROVE Booked(e)'
  <2>1. CASE e = Current(t)
    BY <1>1, <1>2, <1>3, <1>4, <2>1 DEF Booked, Rightful, people
  <2>2. CASE e # Current(t)
    BY <1>1, <1>4, <2>2, BookedStays
  <2> QED BY <2>1, <2>2
<1>6. \A e \in Events : e = Current(t) => Done(e)'
    BY <1>1, <1>3 DEF Done
<1> QED BY <1>1, <1>4, <1>5, <1>6, NextElementKeeps

-------------------------------------------------------------------------------
\* A call starts: the row is not RUNNING, and so no other is alive.
LEMMA ReadConfigKeeps == ASSUME Inv, NEW t \in Ticks, ReadConfig(t) PROVE Inv'
<1>1. /\ TypeOK /\ pc[t] = "idle" /\ config.status # "RUNNING"
      /\ call' = [call EXCEPT ![t].currentLt = config.lastLt, ![t].lastLt = config.lastLt]
      /\ pc' = [pc EXCEPT ![t] = "claim"]
      /\ UNCHANGED <<head, settled, config, book, people, faults>>
    BY DEF ReadConfig, Inv, Goto
<1>2. \A u \in Ticks : pc[u] = "idle" /\ call[u] = NoCall
  <2>1. \A u \in Ticks : pc[u] # "claim" /\ pc[u] \notin Scanning
    BY <1>1 DEF Inv, Alone, ReadConfig
  <2> QED BY <1>1, <2>1 DEF Inv, TypeOK, Cursor
<1>3. \A u \in Ticks \ {t} : pc'[u] = "idle" /\ call'[u] = NoCall
    BY <1>1, <1>2 DEF TypeOK
<1>4. pc'[t] = "claim"
    BY <1>1 DEF TypeOK
<1>5. call'[t] = [NoCall EXCEPT !.currentLt = config.lastLt, !.lastLt = config.lastLt]
    BY <1>1, <1>2 DEF TypeOK
<1>6. /\ call'[t].currentLt = config.lastLt /\ call'[t].lastLt = config.lastLt
      /\ call'[t].found = <<>> /\ call'[t].continueLt = 0 /\ call'[t].index = 1
    BY <1>5 DEF NoCall
<1>7. /\ \A e \in 1 .. head : Done(e) => Done(e)'
      /\ config.lastLt \in 0 .. head
      /\ \A e \in 1 .. config'.lastLt : Done(e)'
    BY <1>1, DoneStaysInCall DEF book
<1>8. Cursor(t)'
  <2>1. config'.lastLt = config.lastLt /\ config.lastLt \in config.lastLt .. head
        /\ head' = head
    BY <1>1, <1>7, LastEventIsNat DEF TypeOK
  <2> QED BY <1>4, <1>6, <1>7, <2>1 DEF Cursor
<1>9. Paged(t)'
    BY <1>4, <1>6 DEF Paged, Scanning, Submitting
<1>10. Looped(t)' /\ Submits(t)'
    BY <1>4 DEF Looped, Submits, Scanning, Submitting
<1>11. TypeOK'
  <2>1. call'[t] \in Call
    <3>1. NoCall \in Call
      BY <1>1, <1>2 DEF TypeOK
    <3>2. config.lastLt \in 0 .. LastEvent
      BY <1>1 DEF TypeOK
    <3> QED BY <1>5, <3>1, <3>2 DEF Call
  <2>2. call' \in [Ticks -> Call]
    BY <1>1, <2>1 DEF TypeOK
  <2>3. pc' \in [Ticks -> {"idle", "claim"} \cup Scanning]
    BY <1>1 DEF TypeOK
  <2> QED BY <1>1, <2>2, <2>3 DEF TypeOK, book, people
<1>12. \A e \in Events : Booked(e)'
    BY <1>1, BookedStays DEF book
<1>13. pc'[t] \notin Scanning /\ config'.status = "ACTIVE" /\ config'.lastLt <= head
    BY <1>1, <1>4, <1>7 DEF TypeOK, Scanning, Submitting
<1> QED BY <1>1, <1>3, <1>7, <1>8, <1>9, <1>10, <1>11, <1>12, <1>13, OneCallMoves

\* It makes the row RUNNING, and leaves the cursor where it is.
LEMMA ClaimKeeps == ASSUME Inv, NEW t \in Ticks, Claim(t) PROVE Inv'
<1>1. /\ TypeOK /\ Cursor(t) /\ Paged(t) /\ pc[t] = "claim"
      /\ config' = [status |-> "RUNNING", lastLt |-> call[t].lastLt]
      /\ pc' = [pc EXCEPT ![t] = "fetch"]
      /\ UNCHANGED <<head, settled, call, book, people, faults>>
    BY DEF Claim, Inv, Goto
<1>2. config'.lastLt = config.lastLt /\ config'.status = "RUNNING"
    BY <1>1 DEF Cursor
<1>3. \A u \in Ticks \ {t} : pc'[u] = "idle" /\ call'[u] = NoCall
    BY <1>1, OthersIdle DEF TypeOK
<1>4. pc'[t] = "fetch"
    BY <1>1 DEF TypeOK
<1>5. /\ \A e \in 1 .. head : Done(e) => Done(e)'
      /\ config.lastLt \in 0 .. head
      /\ \A e \in 1 .. config'.lastLt : Done(e)'
    BY <1>1, <1>2, DoneStaysInCall DEF book
<1>6. Cursor(t)'
    BY <1>1, <1>2, <1>4, <1>5 DEF Cursor
<1>7. Paged(t)'
    BY <1>1, <1>4 DEF Paged
<1>8. Looped(t)' /\ Submits(t)'
    BY <1>4 DEF Looped, Submits, Submitting
<1>9. TypeOK'
  <2>1. pc' \in [Ticks -> {"idle", "claim"} \cup Scanning]
    BY <1>1 DEF TypeOK, Scanning
  <2>2. config' \in [status : {"ACTIVE", "RUNNING"}, lastLt : 0 .. LastEvent]
    BY <1>1 DEF TypeOK, Call
  <2> QED BY <1>1, <2>1, <2>2 DEF TypeOK, book, people
<1>10. \A e \in Events : Booked(e)'
    BY <1>1, BookedStays DEF book
<1>11. pc'[t] # "claim" /\ config'.lastLt <= head
    BY <1>2, <1>4, <1>5
<1> QED BY <1>1, <1>2, <1>3, <1>5, <1>6, <1>7, <1>8, <1>9, <1>10, <1>11, OneCallMoves

\* No call is left, and what the cursor passes has been dealt with.
LEMMA NoneLeftKeeps ==
    ASSUME Inv, TypeOK', \A u \in Ticks : pc'[u] = "idle" /\ call'[u] = NoCall,
           UNCHANGED <<head, book, people>>,
           config'.lastLt <= head,
           \A e \in 1 .. config'.lastLt : Done(e)
    PROVE  Inv'
<1>1. CursorAccounted' /\ config'.lastLt <= head'
    BY DEF CursorAccounted, Done, Known, book, people
<1>2. Alone'
    BY DEF Alone, Scanning, Submitting
<1>3. \A u \in Ticks : Cursor(u)' /\ Paged(u)' /\ Looped(u)' /\ Submits(u)'
    BY IdleAfterwards
<1>4. \A e \in Events : Booked(e)'
    BY BookedStays DEF book
<1>5. Addressed'
    BY DEF Inv, Addressed, Owners, people
<1> QED BY <1>1, <1>2, <1>3, <1>4, <1>5 DEF Inv

\* At its end, a call has dealt with all events up to the newest it has found.
LEMMA AdvancedIsDone ==
    ASSUME Inv, NEW t \in Ticks, pc[t] = "release"
    PROVE  Advanced(t) \in config.lastLt .. head /\ \A e \in 1 .. Advanced(t) : Done(e)
<1> DEFINE found == call[t].found
           n == Len(found)
           m == found[1]
           c == config.lastLt
<1>1. /\ TypeOK /\ Cursor(t) /\ Paged(t) /\ Looped(t)
      /\ pc[t] \in Scanning \ {"fetch", "abort"} /\ pc[t] # "idle"
    BY DEF Inv, Scanning, Submitting
<1>2. call[t].lastLt = c /\ call[t].currentLt = c /\ \A e \in 1 .. c : Done(e)
    BY <1>1 DEF Cursor
<1>3. head \in Nat /\ c \in Nat /\ c <= head /\ n \in Nat
    BY <1>1, Finding, LastEventIsNat DEF Inv, TypeOK
<1>4. CASE found = <<>>
    BY <1>2, <1>3, <1>4 DEF Advanced
<1>5. CASE found # <<>>
  <2>1. m \in 1 .. head /\ m - n = c /\ \A i \in 1 .. n : found[i] = m - i + 1
    BY <1>1, <1>2, <1>5 DEF Paged
  <2>2. Advanced(t) = m
    BY <1>5 DEF Advanced
  <2>3. call[t].index \in 1 .. n + 1 /\ call[t].index > n
        /\ \A i \in 1 .. call[t].index - 1 : Done(found[i])
    BY <1>1 DEF Looped
  <2>4. \A i \in 1 .. n : Done(found[i])
    BY <1>3, <2>3
  <2> HIDE DEF m, n, c, found
  <2>5. ASSUME NEW e \in 1 .. m, e > c PROVE Done(e)
    <3>1. m - e + 1 \in 1 .. n /\ e = m - (m - e + 1) + 1
      BY <1>3, <2>1, <2>5
    <3>2. found[m - e + 1] = e
      BY <2>1, <3>1
    <3> QED BY <2>4, <3>1, <3>2
  <2>6. \A e \in 1 .. m : e \in 1 .. c \/ e > c
    BY <1>3, <2>1
  <2>7. m \in c .. head
    BY <1>3, <2>1
  <2> QED BY <1>2, <2>2, <2>5, <2>6, <2>7 DEF c
<1> QED BY <1>4, <1>5

-------------------------------------------------------------------------------
\* The next page goes down without a gap, and not past the cursor.
LEMMA PageIsContiguous ==
    ASSUME Inv, NEW t \in Ticks, pc[t] = "fetch"
    PROVE  LET size == Newest(t) - (IF Reached(t) THEN call[t].currentLt ELSE Oldest(t) - 1)
           IN  /\ Newest(t) \in call[t].currentLt .. head
               /\ Oldest(t) \in 1 .. Newest(t) + 1
               /\ Newest(t) > 0 => Oldest(t) <= Newest(t)
               /\ ~Reached(t) => Oldest(t) > call[t].currentLt
               /\ size \in 0 .. head
               /\ Page(t) \in Seq(Events)
               /\ Len(Page(t)) = size
               /\ \A i \in 1 .. size : Page(t)[i] = Newest(t) - i + 1
<1> DEFINE c == call[t].currentLt
           new == Newest(t)
           old == Oldest(t)
           size == new - (IF Reached(t) THEN c ELSE old - 1)
<1>1. /\ TypeOK /\ Cursor(t) /\ Paged(t) /\ head \in 0 .. LastEvent
      /\ config.lastLt \in 0 .. LastEvent /\ config.lastLt <= head
      /\ call[t].continueLt \in Nat
    BY DEF Inv, TypeOK, Call
<1>2. c = config.lastLt /\ c \in Nat /\ head \in Nat /\ c <= head
    BY <1>1, LastEventIsNat DEF Cursor
<1>3. new \in c .. head
  <2>1. CASE call[t].continueLt = 0
    BY <1>2, <2>1 DEF Newest
  <2>2. CASE call[t].continueLt # 0
    <3>1. /\ call[t].found # <<>>
          /\ call[t].found[1] - Len(call[t].found) + 1 = call[t].continueLt
          /\ call[t].found[1] \in 1 .. head
          /\ call[t].found[1] - Len(call[t].found) >= c
      BY <1>1, <2>2 DEF Paged
    <3>2. Len(call[t].found) \in 0 .. head
      BY Finding
    <3>3. Len(call[t].found) # 0
      BY <3>1, Finding, EmptySeq
    <3>4. call[t].found[1] \in Int
      BY <1>2, <3>1
    <3>5. call[t].continueLt - 1 \in c .. head
      <4> DEFINE m == call[t].found[1]
                 n == Len(call[t].found)
                 next == call[t].continueLt
      <4>1. /\ m - n + 1 = next /\ m \in 1 .. head /\ m - n >= c /\ n \in 0 .. head /\ n # 0
            /\ next \in Nat
        BY <1>1, <3>1, <3>2, <3>3
      <4> HIDE DEF m, n, next, c
      <4>2. next - 1 \in c .. head
        BY <1>2, <4>1
      <4> QED BY <4>2 DEF next
    <3>6. new = call[t].continueLt - 1
      BY <1>1, <2>2 DEF Newest
    <3> QED BY <3>5, <3>6
  <2> QED BY <2>1, <2>2
<1>4. old \in 1 .. new + 1 /\ (new > 0 => old <= new)
    BY <1>2, <1>3, PagesHoldSomething DEF Oldest
<1>5. /\ Reached(t) <=> c \in old .. new
      /\ Page(t) = [i \in 1 .. size |-> new - i + 1]
  <2>1. Page(t) = [i \in 1 .. (new - (IF Reached(t) THEN c + 1 ELSE old) + 1) |-> new - i + 1]
    BY DEF Page
  <2>2. new - (IF Reached(t) THEN c + 1 ELSE old) + 1 = size
    <3> HIDE DEF c, new, old
    <3> QED BY <1>2, <1>3, <1>4
  <2> QED BY <2>1, <2>2 DEF Reached
<1> HIDE DEF c, new, old
<1>6. ~Reached(t) => old > c
    BY <1>2, <1>3, <1>4, <1>5
<1>7. size \in 0 .. head /\ \A i \in 1 .. size : new - i + 1 \in 1 .. head
    BY <1>2, <1>3, <1>4, <1>5
<1>8. \A i \in 1 .. size : new - i + 1 \in Events
    BY <1>1, <1>7, LastEventIsNat DEF Events
<1> HIDE DEF size
<1>9. Page(t) \in Seq(Events) /\ Len(Page(t)) = size
    BY <1>5, <1>7, <1>8, <1>2, IsASeq
<1>10. \A i \in 1 .. size : Page(t)[i] = new - i + 1
    BY <1>5
<1> QED BY <1>3, <1>4, <1>6, <1>7, <1>9, <1>10 DEF c, new, old, size

LEMMA FetchPageKeeps == ASSUME Inv, NEW t \in Ticks, FetchPage(t) PROVE Inv'
<1> DEFINE found == call[t].found
           n == Len(found)
           m == found[1]
           c == call[t].currentLt
           new == Newest(t)
           old == Oldest(t)
           page == Page(t)
           size == new - (IF Reached(t) THEN c ELSE old - 1)
<1>1. /\ TypeOK /\ Cursor(t) /\ Paged(t) /\ call[t] \in Call
      /\ pc[t] = "fetch" /\ pc[t] \in Scanning
      /\ call' = [call EXCEPT
             ![t].found = @ \o page,
             ![t].seen = @ \cup (settled \cap {page[i] : i \in DOMAIN page}),
             ![t].continueLt = IF new = 0 THEN @ ELSE old]
      /\ IF Reached(t) \/ new = 0 THEN Goto(t, "next") ELSE UNCHANGED pc
      /\ UNCHANGED <<head, settled, config, book, people, faults>>
    BY DEF Inv, TypeOK, FetchPage, Scanning
<1>2. /\ c \in Nat /\ head \in Nat /\ head <= LastEvent /\ call[t].continueLt \in Nat
      /\ found \in Seq(Events) /\ n \in 0 .. head
      /\ \A i \in 1 .. n : found[i] \in 1 .. head
  <2>1. c \in Nat /\ call[t].continueLt \in Nat
    BY DEF Inv, TypeOK, Call
  <2>2. head \in Nat /\ head <= LastEvent
    BY LastEventIsNat DEF Inv, TypeOK
  <2> QED BY <2>1, <2>2, Finding
<1>3. /\ new \in c .. head /\ old \in 1 .. new + 1 /\ (new > 0 => old <= new)
      /\ ~Reached(t) => old > c
      /\ size \in 0 .. head /\ page \in Seq(Events) /\ Len(page) = size
      /\ \A i \in 1 .. size : page[i] = new - i + 1
    BY <1>1, PageIsContiguous
<1>4. /\ call[t].index = 1
      /\ IF call[t].continueLt = 0 THEN found = <<>>
         ELSE found # <<>> /\ m - n + 1 = call[t].continueLt
      /\ \A i \in 1 .. n : found[i] = m - i + 1
      /\ found # <<>> => m \in 1 .. head /\ m - n >= c
    BY <1>1 DEF Paged
<1>5. /\ found # <<>> => n \in Nat \ {0} /\ m - n = new
      /\ found = <<>> => n = 0
  <2>1. found # <<>> => n \in Nat \ {0}
    BY <1>2, EmptySeq
  <2>2. ASSUME found # <<>> PROVE m - n = new
    <3>1. call[t].continueLt # 0 /\ m - n + 1 = call[t].continueLt /\ m \in 1 .. head
      BY <1>4, <2>2
    <3>2. new = call[t].continueLt - 1
      BY <1>2, <3>1 DEF Newest
    <3>3. n \in 0 .. head /\ head \in Nat /\ call[t].continueLt \in Nat
      BY <1>2
    <3> HIDE DEF m, n, new
    <3> QED BY <3>1, <3>2, <3>3
  <2> QED BY <2>1, <2>2, EmptySeq
<1>6. /\ pc' \in [Ticks -> {"idle", "claim"} \cup Scanning]
      /\ pc'[t] = IF Reached(t) \/ new = 0 THEN "next" ELSE "fetch"
      /\ \A u \in Ticks \ {t} : pc'[u] = "idle"
    BY <1>1, OthersIdle DEF TypeOK, Scanning, Goto
<1> DEFINE found2 == found \o page
           seen2 == call[t].seen \cup (settled \cap {page[i] : i \in DOMAIN page})
           next2 == IF new = 0 THEN call[t].continueLt ELSE old
           top == new + n
<1>7. /\ call' = [call EXCEPT ![t].found = found2, ![t].seen = seen2, ![t].continueLt = next2]
      /\ call'[t] = [call[t] EXCEPT !.found = found2, !.seen = seen2, !.continueLt = next2]
      /\ \A u \in Ticks \ {t} : call'[u] = NoCall
  <2>1. call' = [call EXCEPT ![t].found = found2, ![t].seen = seen2, ![t].continueLt = next2]
    BY <1>1
  <2> HIDE DEF found2, seen2, next2
  <2>2. call \in [Ticks -> Call]
    BY DEF Inv, TypeOK
  <2>3. \A u \in Ticks \ {t} : call[u] = NoCall
    BY <1>1, OthersIdle
  <2> QED BY <2>1, <2>2, <2>3
<1>8. /\ call'[t].found = found2
      /\ call'[t].continueLt = next2
      /\ call'[t].index = 1
      /\ call'[t].currentLt = c
      /\ call'[t].lastLt = call[t].lastLt
  <2>1. call[t] \in Call
    BY <1>1
  <2> HIDE DEF found2, seen2, next2
  <2>2. call'[t] = [call[t] EXCEPT !.found = found2, !.seen = seen2, !.continueLt = next2]
    BY <1>7
  <2>3. /\ call'[t].found = found2
        /\ call'[t].continueLt = next2
        /\ call'[t].index = call[t].index
        /\ call'[t].currentLt = c
        /\ call'[t].lastLt = call[t].lastLt
    BY <2>1, <2>2 DEF Call
  <2> QED BY <1>4, <2>3
<1>9. /\ found2 \in Seq(Events) /\ Len(found2) = n + size
      /\ \A i \in 1 .. n + size : found2[i] = IF i <= n THEN found[i] ELSE page[i - n]
  <2>1. found \in Seq(Events) /\ page \in Seq(Events) /\ Len(page) = size
    BY <1>2, <1>3
  <2> HIDE DEF found, page, size
  <2> QED BY <2>1, ConcatProperties
<1> HIDE DEF n, m, c, new, old, size, found, page, found2, seen2, next2
<1>10. \A i \in 1 .. n + size : found2[i] = top - i + 1
  <2>1. ASSUME NEW i \in 1 .. n + size, i <= n PROVE found2[i] = top - i + 1
    <3>1. i \in 1 .. n /\ found # <<>>
      BY <1>2, <1>3, <1>5, <2>1
    <3>2. found2[i] = m - i + 1 /\ m - n = new /\ m \in 1 .. head
      BY <1>4, <1>5, <1>9, <2>1, <3>1
    <3> QED BY <1>2, <1>3, <3>1, <3>2
  <2>2. ASSUME NEW i \in 1 .. n + size, ~(i <= n) PROVE found2[i] = top - i + 1
    <3>1. i - n \in 1 .. size
      BY <1>2, <1>3, <2>2
    <3>2. found2[i] = new - (i - n) + 1
      BY <1>3, <1>9, <2>2, <3>1
    <3> QED BY <1>2, <1>3, <3>2
  <2> QED BY <2>1, <2>2
<1>11. found2 # <<>> =>
          /\ n + size \in Nat \ {0}
          /\ found2[1] = top
          /\ top \in 1 .. head
  <2>1. found2 # <<>> => n + size \in Nat \ {0}
    BY <1>9, EmptySeq
  <2>2. found2 # <<>> => found2[1] = top
    BY <1>2, <1>3, <1>10, <2>1
  <2>3. ASSUME found2 # <<>> PROVE top \in 1 .. head
    <3>1. CASE found # <<>>
      BY <1>2, <1>3, <1>4, <1>5, <3>1
    <3>2. CASE found = <<>>
      <4>1. size # 0 /\ top = new
        BY <1>2, <1>3, <1>5, <2>1, <2>3, <3>2
      <4>2. new # 0
        BY <1>2, <1>3, <4>1 DEF size
      <4> QED BY <1>2, <1>3, <4>1, <4>2
    <3> QED BY <3>1, <3>2
  <2> QED BY <2>1, <2>2, <2>3
<1>12. /\ Reached(t) => top - (n + size) = c
       /\ ~Reached(t) => top - (n + size) = old - 1
    BY <1>2, <1>3 DEF size
<1>13. new = 0 /\ ~Reached(t) => old - 1 = c
    BY <1>2, <1>3
<1>14. Paged(t)'
  <2>1. \A i \in 1 .. Len(found2) : found2[i] = found2[1] - i + 1
    BY <1>2, <1>3, <1>9, <1>10
  <2>2. found2 # <<>> => found2[1] \in 1 .. head /\ found2[1] - Len(found2) >= c
    BY <1>2, <1>3, <1>9, <1>11, <1>12
  <2>3. CASE Reached(t) \/ new = 0
    <3>1. pc'[t] = "next"
      BY <1>6, <2>3
    <3>2. found2 # <<>> => found2[1] - Len(found2) = c
      BY <1>2, <1>3, <1>9, <1>11, <1>12, <1>13, <2>3
    <3> QED BY <1>1, <1>8, <2>1, <2>2, <3>1, <3>2 DEF Paged
  <2>4. CASE ~Reached(t) /\ new # 0
    <3>1. pc'[t] = "fetch"
      BY <1>6, <2>4
    <3>2. call'[t].continueLt = old /\ old # 0
      BY <1>3, <1>8, <2>4 DEF next2
    <3>3. size # 0
      BY <1>2, <1>3, <2>4 DEF size
    <3>4. found2 # <<>>
      BY <1>2, <1>3, <1>9, <3>3, EmptySeq
    <3>5. found2[1] - Len(found2) + 1 = old
      BY <1>2, <1>3, <1>9, <1>11, <1>12, <2>4, <3>4
    <3> QED BY <1>1, <1>8, <2>1, <2>2, <3>1, <3>2, <3>4, <3>5 DEF Paged
  <2> QED BY <2>3, <2>4
<1>15. Looped(t)'
  <2>1. call'[t].found = found2 /\ Len(found2) \in Nat
    BY <1>2, <1>3, <1>8, <1>9
  <2>2. call'[t].index \in 1 .. Len(call'[t].found) + 1 /\ 1 .. call'[t].index - 1 = {}
    BY <1>8, <2>1
  <2> QED BY <1>6, <2>2 DEF Looped, Submitting
<1>16. Submits(t)'
    BY <1>6 DEF Submits, Submitting
<1>17. /\ \A e \in 1 .. head : Done(e) => Done(e)'
       /\ config.lastLt \in 0 .. head
       /\ \A e \in 1 .. config'.lastLt : Done(e)'
    BY <1>1, DoneStaysInCall DEF book
<1>18. Cursor(t)'
  <2>1. call[t].lastLt = config.lastLt /\ c = config.lastLt
    BY <1>1 DEF Cursor, c
  <2>2. config.lastLt \in config.lastLt .. head
    BY <1>2, <1>17
  <2> QED BY <1>1, <1>6, <1>8, <1>17, <2>1, <2>2 DEF Cursor
<1>19. TypeOK'
  <2>1. call[t] \in Call
    BY <1>1
  <2>2. next2 \in 0 .. LastEvent
    <3>1. call[t].continueLt \in 0 .. LastEvent
      BY <2>1 DEF Call
    <3> QED BY <1>2, <1>3, <3>1, LastEventIsNat DEF next2
  <2>3. seen2 \in SUBSET Events
    <3>1. call[t].seen \subseteq Events
      BY <2>1 DEF Call
    <3>2. settled \subseteq Events
      BY DEF Inv, TypeOK, Deposits, Malformed
    <3> QED BY <3>1, <3>2 DEF seen2
  <2>4. call'[t] \in Call
    <3>1. call'[t] = [call[t] EXCEPT !.found = found2, !.seen = seen2, !.continueLt = next2]
      BY <1>7
    <3>2. found2 \in Seq(Events)
      BY <1>9
    <3> QED BY <2>1, <2>2, <2>3, <3>1, <3>2 DEF Call
  <2>5. call' \in [Ticks -> Call]
    <3>1. call \in [Ticks -> Call]
      BY DEF Inv, TypeOK
    <3> QED BY <1>7, <2>4, <3>1
  <2> QED BY <1>1, <1>6, <2>5 DEF TypeOK, book, people
<1>20. \A e \in Events : Booked(e)'
    BY <1>1, BookedStays DEF book
<1>21. pc'[t] # "claim" /\ config'.status = "RUNNING" /\ config'.lastLt <= head
    BY <1>1, <1>2, <1>6, <1>17 DEF Inv, Alone
<1> QED BY <1>1, <1>6, <1>7, <1>14, <1>15, <1>16, <1>17, <1>18, <1>19, <1>20, <1>21,
           OneCallMoves

-------------------------------------------------------------------------------
\* The ends of a call.
LEMMA ApiFaultKeeps == ASSUME Inv, NEW t \in Ticks, ApiFault(t) PROVE Inv'
<1>1. /\ TypeOK /\ Cursor(t) /\ pc[t] = "fetch" /\ pc[t] \in Scanning /\ pc[t] # "idle"
      /\ Goto(t, "abort")
      /\ UNCHANGED <<head, settled, config, call, book, people>>
    BY DEF ApiFault, Inv, Scanning
<1>2. faults' \in 0 .. MaxFaults
    BY <1>1, FaultTypes DEF ApiFault
<1>3. call[t].lastLt \in config.lastLt .. head /\ \A e \in 1 .. call[t].lastLt : Done(e)
    BY <1>1 DEF Cursor
<1>4. call' \in [Ticks -> Call]
    BY <1>1 DEF TypeOK
<1> QED BY <1>1, <1>2, <1>3, <1>4, GivingUpKeeps

\* The call returns, with what it may have written to the row.
LEMMA ReturnKeeps ==
    ASSUME Inv, NEW t \in Ticks, pc[t] # "idle", Return(t),
           UNCHANGED <<head, settled, book, people>>,
           config' \in [status : {"ACTIVE", "RUNNING"}, lastLt : 0 .. LastEvent],
           config'.lastLt <= head,
           \A e \in 1 .. config'.lastLt : Done(e),
           faults' \in 0 .. MaxFaults
    PROVE  Inv'
<1>1. TypeOK
    BY DEF Inv
<1>2. \A u \in Ticks : pc'[u] = "idle" /\ call'[u] = NoCall
    BY <1>1, OthersIdle DEF Return, Goto, TypeOK
<1>3. TypeOK'
  <2>1. NoCall \in Call
    BY <1>1, LastEventIsNat DEF TypeOK, NoCall, Call, Events
  <2>2. pc' \in [Ticks -> {"idle", "claim"} \cup Scanning] /\ call' \in [Ticks -> Call]
    BY <1>1, <2>1 DEF Return, Goto, TypeOK
  <2> QED BY <1>1, <2>2 DEF TypeOK, book, people
<1> QED BY <1>2, <1>3, NoneLeftKeeps

LEMMA ReleaseKeeps == ASSUME Inv, NEW t \in Ticks, Release(t) PROVE Inv'
<1>1. /\ TypeOK /\ pc[t] = "release" /\ pc[t] # "idle" /\ Return(t)
      /\ config' = [status |-> "ACTIVE", lastLt |-> Advanced(t)]
      /\ UNCHANGED <<head, settled, book, people, faults>>
    BY DEF Release, Inv
<1>2. Advanced(t) \in config.lastLt .. head /\ \A e \in 1 .. Advanced(t) : Done(e)
    BY <1>1, AdvancedIsDone
<1>3. Advanced(t) \in 0 .. LastEvent /\ Advanced(t) <= head
    BY <1>1, <1>2, LastEventIsNat DEF TypeOK
<1>4. /\ faults' \in 0 .. MaxFaults
      /\ config' \in [status : {"ACTIVE", "RUNNING"}, lastLt : 0 .. LastEvent]
      /\ config'.lastLt = Advanced(t)
    BY <1>1, <1>3 DEF TypeOK
<1> QED BY <1>1, <1>2, <1>3, <1>4, ReturnKeeps

LEMMA AbortKeeps == ASSUME Inv, NEW t \in Ticks, Abort(t) PROVE Inv'
<1>1. /\ TypeOK /\ Cursor(t) /\ pc[t] = "abort" /\ pc[t] # "idle" /\ Return(t)
      /\ config' = [status |-> "ACTIVE", lastLt |-> call[t].lastLt]
      /\ UNCHANGED <<head, settled, book, people, faults>>
    BY DEF Abort, Inv
<1>2. call[t].lastLt \in config.lastLt .. head /\ \A e \in 1 .. call[t].lastLt : Done(e)
    BY <1>1 DEF Cursor
<1>3. call[t].lastLt \in 0 .. LastEvent /\ call[t].lastLt <= head
    BY <1>1, <1>2, LastEventIsNat DEF TypeOK
<1>4. /\ faults' \in 0 .. MaxFaults
      /\ config' \in [status : {"ACTIVE", "RUNNING"}, lastLt : 0 .. LastEvent]
      /\ config'.lastLt = call[t].lastLt
    BY <1>1, <1>3 DEF TypeOK
<1> QED BY <1>1, <1>2, <1>3, <1>4, ReturnKeeps

\* The cursor in the row has what it passed dealt with.
LEMMA CursorIsDone ==
    ASSUME Inv
    PROVE  config.lastLt <= head /\ \A e \in 1 .. config.lastLt : Done(e)
    BY DEF Inv, CursorAccounted, Done

LEMMA DbFaultKeeps == ASSUME Inv, NEW t \in Ticks, DbFault(t) PROVE Inv'
<1>1. TypeOK /\ Cursor(t)
      /\ UNCHANGED <<head, settled, config, record, credited, skipped, people>>
    BY DEF DbFault, Inv
<1>2. faults' \in 0 .. MaxFaults
    BY <1>1, FaultTypes DEF DbFault
<1>3. /\ record \in [Events -> {"none", "PENDING", "SUCCESS"}]
      /\ credited \in [Events -> Seq(Users)]
      /\ skipped \subseteq Events /\ refused \subseteq Events
      /\ call \in [Ticks -> Call]
      /\ config \in [status : {"ACTIVE", "RUNNING"}, lastLt : 0 .. LastEvent]
    BY <1>1 DEF TypeOK
<1>4. CASE pc[t] \in {"claim", "abort"} /\ Return(t) /\ UNCHANGED refused
    BY <1>1, <1>2, <1>3, <1>4, CursorIsDone, ReturnKeeps DEF book
<1>5. CASE pc[t] \in {"findUser", "findById"} /\ Goto(t, "abort") /\ UNCHANGED <<call, refused>>
  <2>1. call[t].lastLt \in config.lastLt .. head /\ \A e \in 1 .. call[t].lastLt : Done(e)
    BY <1>1, <1>5 DEF Cursor
  <2>2. pc[t] \in Scanning
    BY <1>5 DEF Scanning
  <2> QED BY <1>1, <1>2, <1>3, <1>5, <2>1, <2>2, GivingUpKeeps DEF book
<1>6. CASE pc[t] \in Submitting /\ NextElement(t) /\ refused' = refused \cup {Current(t)}
  <2>1. Current(t) \in Events
    BY <1>6, Submission
  <2>2. \A e \in Events : e = Current(t) => Done(e)'
    BY <1>6 DEF Done
  <2>3. refused \subseteq refused' /\ refused' \subseteq Events
    BY <1>3, <1>6, <2>1
  <2>4. \A e \in Events : Booked(e)'
    BY <1>1, BookedStays
  <2> QED BY <1>1, <1>2, <1>3, <1>6, <2>2, <2>3, <2>4, NextElementKeeps
<1>7. CASE /\ pc[t] = "release" /\ Goto(t, "abort") /\ UNCHANGED refused
           /\ call' = [call EXCEPT ![t].lastLt = Advanced(t)]
  <2>1. Advanced(t) \in config.lastLt .. head /\ \A e \in 1 .. Advanced(t) : Done(e)
    BY <1>7, AdvancedIsDone
  <2>2. Advanced(t) \in 0 .. LastEvent
    BY <1>1, <2>1, LastEventIsNat DEF TypeOK
  <2>3. call[t] \in Call
    BY <1>3
  <2>4. /\ call'[t] = [call[t] EXCEPT !.lastLt = Advanced(t)]
        /\ \A u \in Ticks \ {t} : call'[u] = call[u]
    BY <1>3, <1>7
  <2>5. /\ call'[t] \in Call
        /\ call'[t].found = call[t].found
        /\ call'[t].currentLt = call[t].currentLt
        /\ call'[t].lastLt = Advanced(t)
    BY <2>2, <2>3, <2>4 DEF Call
  <2>6. call' \in [Ticks -> Call]
    BY <1>3, <1>7, <2>5
  <2>7. pc[t] \in Scanning
    BY <1>7 DEF Scanning
  <2> QED BY <1>1, <1>2, <1>7, <2>1, <2>4, <2>5, <2>6, <2>7, GivingUpKeeps DEF book
<1> QED BY <1>4, <1>5, <1>6, <1>7 DEF DbFault

LEMMA CrashKeeps == Inv /\ Crash => Inv'
<1> SUFFICES ASSUME Inv, Crash PROVE Inv'
    OBVIOUS
<1>1. /\ TypeOK /\ UNCHANGED <<head, settled, config, book, people>>
      /\ pc' = [t \in Ticks |-> "idle"]
      /\ call' = [t \in Ticks |-> NoCall]
    BY DEF Crash, Inv
<1>2. faults' \in 0 .. MaxFaults
    BY <1>1, FaultTypes DEF Crash
<1>3. NoCall \in Call
    BY LastEventIsNat DEF NoCall, Call, Events
<1>4. TypeOK'
  <2>1. pc' \in [Ticks -> {"idle", "claim"} \cup Scanning] /\ call' \in [Ticks -> Call]
    BY <1>1, <1>3
  <2> QED BY <1>1, <1>2, <2>1 DEF TypeOK, book, people
<1> QED BY <1>1, <1>4, CursorIsDone, NoneLeftKeeps

LEMMA OperatorResetKeeps == Inv /\ OperatorReset => Inv'
<1> SUFFICES ASSUME Inv, OperatorReset PROVE Inv'
    OBVIOUS
<1>1. /\ TypeOK /\ UNCHANGED <<head, settled, pc, call, book, people, faults>>
      /\ \A t \in Ticks : pc[t] = "idle"
      /\ config' = [config EXCEPT !.status = "ACTIVE"]
    BY DEF OperatorReset, Stuck, Inv
<1>2. \A t \in Ticks : pc'[t] = "idle" /\ call'[t] = NoCall
    BY <1>1 DEF Inv, Cursor
<1>3. /\ config' \in [status : {"ACTIVE", "RUNNING"}, lastLt : 0 .. LastEvent]
      /\ config'.lastLt = config.lastLt
    BY <1>1 DEF TypeOK
<1>4. TypeOK'
    BY <1>1, <1>3 DEF TypeOK, book, people
<1> QED BY <1>1, <1>2, <1>3, <1>4, CursorIsDone, NoneLeftKeeps

-------------------------------------------------------------------------------
LEMMA NextKeeps == Inv /\ [Next]_vars => Inv'
<1> SUFFICES ASSUME Inv, [Next]_vars PROVE Inv'
    OBVIOUS
<1>1. CASE NewEvent
    BY <1>1, NewEventKeeps
<1>2. ASSUME NEW e \in Events, Settle(e) PROVE Inv'
    BY <1>2, SettleKeeps
<1>3. ASSUME NEW u \in Users, NEW id \in Users,
             NEW given \in Addresses \cup {None, Undefined},
             NewUser(u) \/ UpdateUser(u, id, given)
      PROVE  Inv'
    BY <1>3, NewUserKeeps, UpdateUserKeeps
<1>4. ASSUME NEW t \in Ticks, ReadConfig(t) PROVE Inv'
    BY <1>4, ReadConfigKeeps
<1>5. ASSUME NEW t \in Ticks, Step(t) PROVE Inv'
  <2>1. CASE Claim(t) \/ FetchPage(t)
    BY <2>1, ClaimKeeps, FetchPageKeeps
  <2>2. CASE ParseEvent(t) \/ FindUser(t) \/ FindById(t) \/ CheckRef(t)
    BY <2>2, ParseEventKeeps, FindUserKeeps, FindByIdKeeps, CheckRefKeeps
  <2>3. CASE CreateRecord(t) \/ CreditWallet(t) \/ MarkSuccess(t)
    BY <2>3, CreateRecordKeeps, CreditWalletKeeps, MarkSuccessKeeps
  <2>4. CASE Release(t) \/ Abort(t)
    BY <2>4, ReleaseKeeps, AbortKeeps
  <2> QED BY <1>5, <2>1, <2>2, <2>3, <2>4 DEF Step
<1>6. ASSUME NEW t \in Ticks, ApiFault(t) \/ DbFault(t) PROVE Inv'
    BY <1>6, ApiFaultKeeps, DbFaultKeeps
<1>7. CASE Crash \/ OperatorReset
    BY <1>7, CrashKeeps, OperatorResetKeeps
<1>8. CASE UNCHANGED vars
  <2>1. UNCHANGED <<head, settled, config, pc, call, book, people, faults>> /\ TypeOK
    BY <1>8 DEF vars, Inv
  <2>2. TypeOK' /\ Addressed'
    BY <2>1 DEF TypeOK, Addressed, Owners, Inv, book, people
  <2>3. head <= head' /\ \A u \in Users : claims[u] \subseteq claims'[u]
    BY <2>1, LastEventIsNat DEF TypeOK, people
  <2>4. keepers' = keepers /\ named' = named
    BY <2>1 DEF people
  <2> QED BY <2>1, <2>2, <2>3, <2>4, SurroundingsKeep
<1> QED BY <1>1, <1>2, <1>3, <1>4, <1>5, <1>6, <1>7, <1>8 DEF Next

\* The invariant that the theorems below are read from.
THEOREM InvHolds == Spec => []Inv
<1>1. Inv /\ [Next]_vars => Inv'
    BY NextKeeps
<1> QED BY <1>1, InitInv, PTL DEF Spec

\* The variables of scanDepositUSDTEvents keep their types: the loop's index stays
\* within the pages that were read, and these are events of the chain.
THEOREM TypesHold == Spec => []TypeOK
<1>1. Inv => TypeOK
    BY DEF Inv
<1> QED BY <1>1, InvHolds, PTL

\* No deposit is added to a wallet twice, whatever calls overlap, fail, die or start
\* over (scan.service.ts:95-107, transaction.service.ts:159-166).
THEOREM OnceOnly == Spec => []CreditedAtMostOnce
<1>1. Inv => CreditedAtMostOnce
    BY DEF Inv, Booked, CreditedAtMostOnce
<1> QED BY <1>1, InvHolds, PTL

\* A record that says SUCCESS has been credited.
THEOREM SuccessIsCredited == Spec => []SuccessWasCredited
<1>1. Inv => SuccessWasCredited
    BY DEF Inv, Booked, SuccessWasCredited
<1> QED BY <1>1, InvHolds, PTL

\* A deposit is credited to a user who has had its sender's address, or else to the
\* one its comment names, and past nobody who has had that address ever since the
\* deposit appeared (scan.service.ts:119-126), whoever gives, changes or clears
\* addresses and ids meanwhile (user.controller.ts:60-78).
THEOREM OwnersOnly == Spec => []CreditedToOwner
<1>1. Inv => CreditedToOwner
    BY DEF Inv, Booked, Rightful, CreditedToOwner
<1> QED BY <1>1, InvHolds, PTL

\* The cursor passes no deposit that has not been dealt with: the pages of a scan
\* reach down to the cursor without a gap, and the loop goes through all of them
\* before the newest becomes the cursor (scan.service.ts:53-93, 111-150).
THEOREM NothingPassedOver == Spec => []CursorAccounted
<1>1. Inv => CursorAccounted
    BY DEF Inv
<1> QED BY <1>1, InvHolds, PTL

\* The cursor never goes back: whoever writes the row read it last.
THEOREM CursorAdvances == Spec => CursorMonotone
<1>1. ASSUME Inv, [Next]_vars PROVE config'.lastLt >= config.lastLt
  <2>1. config.lastLt \in Nat /\ head \in Nat /\ TypeOK
    BY <1>1, LastEventIsNat DEF Inv, TypeOK
  <2>2. ASSUME NEW t \in Ticks, Claim(t) PROVE config'.lastLt >= config.lastLt
    <3>1. config'.lastLt = config.lastLt
      BY <1>1, <2>2 DEF Claim, Inv, Cursor
    <3> QED BY <2>1, <3>1
  <2>3. ASSUME NEW t \in Ticks, Release(t) PROVE config'.lastLt >= config.lastLt
    <3>1. config'.lastLt = Advanced(t) /\ pc[t] = "release"
      BY <2>3 DEF Release
    <3>2. Advanced(t) \in config.lastLt .. head
      BY <1>1, <3>1, AdvancedIsDone
    <3> QED BY <2>1, <3>1, <3>2
  <2>4. ASSUME NEW t \in Ticks, Abort(t) PROVE config'.lastLt >= config.lastLt
    <3>1. config'.lastLt = call[t].lastLt /\ pc[t] = "abort"
      BY <2>4 DEF Abort
    <3>2. call[t].lastLt \in config.lastLt .. head
      BY <1>1, <3>1 DEF Inv, Cursor
    <3> QED BY <2>1, <3>1, <3>2
  <2>5. CASE OperatorReset
    <3>1. config'.lastLt = config.lastLt
      BY <2>1, <2>5 DEF OperatorReset, TypeOK
    <3> QED BY <2>1, <3>1
  <2>6. UNCHANGED config => config'.lastLt >= config.lastLt
    BY <2>1
  <2>7. CASE NewEvent \/ Crash \/ UNCHANGED vars
    BY <2>6, <2>7 DEF NewEvent, Crash, vars
  <2>8. ASSUME NEW e \in Events, Settle(e) PROVE UNCHANGED config
    BY <2>8 DEF Settle
  <2>9. ASSUME NEW u \in Users, NEW id \in Users,
               NEW given \in Addresses \cup {None, Undefined},
               NewUser(u) \/ UpdateUser(u, id, given)
        PROVE  UNCHANGED config
    BY <2>9 DEF NewUser, UpdateUser
  <2>10. ASSUME NEW t \in Ticks, ReadConfig(t) \/ ApiFault(t) \/ DbFault(t)
         PROVE  UNCHANGED config
    BY <2>10 DEF ReadConfig, ApiFault, DbFault
  <2>11. ASSUME NEW t \in Ticks, Step(t) PROVE config'.lastLt >= config.lastLt
    <3>1. CASE FetchPage(t) \/ ParseEvent(t) \/ FindUser(t) \/ FindById(t) \/ CheckRef(t)
      BY <2>6, <3>1 DEF FetchPage, ParseEvent, FindUser, FindById, CheckRef
    <3>2. CASE CreateRecord(t) \/ CreditWallet(t) \/ MarkSuccess(t)
      BY <2>6, <3>2 DEF CreateRecord, CreditWallet, MarkSuccess
    <3> QED BY <2>2, <2>3, <2>4, <2>11, <3>1, <3>2 DEF Step
  <2> QED BY <1>1, <2>5, <2>6, <2>7, <2>8, <2>9, <2>10, <2>11 DEF Next
<1>2. Inv /\ [Next]_vars => [config'.lastLt >= config.lastLt]_vars
    BY <1>1
<1> QED BY <1>2, InvHolds, PTL DEF Spec, CursorMonotone
===============================================================================
