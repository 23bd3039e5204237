------------------------------ MODULE DepositScan ------------------------------
(***************************************************************************)
(* ScanService.scanDepositUSDTEvents, started by CronService every 20      *)
(* seconds whether or not the last call has ended, over the events of the  *)
(* deposit wallet that the chain's API reports newest first, while users   *)
(* sign up, and give, change and clear the addresses by which their        *)
(* deposits are known, and even their ids.  One action per API or database *)
(* call; the submission of a deposit is reduced to the duplicate check,    *)
(* the record, the credit and the final status, and its overlap with other *)
(* requests is TransactionService's subject.                               *)
(*                                                                         *)
(* Assumed: lines 95 to 107, which read the config row and write RUNNING,  *)
(* take less than the 20 seconds between two calls and one process runs    *)
(* the cron jobs, so that no two calls are between these lines at a time.  *)
(***************************************************************************)
EXTENDS Integers, Sequences

CONSTANTS
    Ticks,          \* calls of the cron job that can be alive at a time
    LastEvent,      \* bound: the events are 1 .. LastEvent, in lt order
    PageSize,       \* limit of getAccountEvents
    Users,          \* the ids that rows of the user table may have
    FirstUsers,     \* those that have one from the start
    Accounts,       \* of the chain
    None,           \* no address: NULL or the empty string
    Undefined,      \* what a request does not give
    Kind, Sender, Comment,  \* of each event: what it is, who sent it, and the
                            \* id that its comment gives, if any
    MaxFaults,      \* bound on the API and database calls and processes that fail
    MaxChanges      \* bound on the updates of users

Events == 1 .. LastEvent

\* A transfer of USDT; a transfer whose addresses do not parse, or that has no
\* sender, as when tokens are minted; or anything else.
EventKinds == {"usdt", "malformed", "other"}

Deposits == {e \in Events : Kind[e] = "usdt"}
Malformed == {e \in Events : Kind[e] = "malformed"}

\* An address as a string: the form that Address.toString() makes, or one of the
\* others that Address.parse() takes.
Addresses == [account : Accounts, form : {"canonical", "other"}]

ASSUME LastEventIsNat == LastEvent \in Nat
ASSUME FirstUsersAreUsers == FirstUsers \subseteq Users
ASSUME NoneIsNoUser == None \notin Users \cup Addresses
ASSUME UndefinedIsNoAddress == Undefined \notin Addresses \cup {None}
ASSUME KindOfEvents ==
    /\ Kind \in [Events -> EventKinds]
    /\ Sender \in [Events -> Accounts]
    /\ Comment \in [Events -> Users \cup {None}]
ASSUME PagesHoldSomething == PageSize \in Nat \ {0}
ASSUME BoundsAreNat == MaxFaults \in Nat /\ MaxChanges \in Nat

VARIABLES
    head,           \* the newest event on the chain
    settled,        \* the transfers that are no longer in_progress
    config,         \* the row 'deposit' of ton_scan_config: status, lastLt
    pc,             \* per tick: where the call is
    call,           \* per tick: the local variables of the call
    users,          \* the ids of the rows of the user table
    address,        \* per id: walletAddress
    record,         \* the deposit record with the event's id as refId
    credited,       \* the users to whose wallets the event was added, in order
    skipped,        \* history: events passed over while in_progress
    refused,        \* history: events whose submission did not go through
    claims,         \* history: the accounts that rows with an id have had
    keepers,        \* history: users who have had a deposit's sender's address
                    \* ever since the deposit appeared
    named,          \* history: deposits whose comment has named a user ever since
    changes,        \* counts the updates of users
    faults          \* counts what went wrong

book == <<record, credited, skipped, refused>>
people == <<users, address, claims, keepers, named, changes>>
vars == <<head, settled, config, pc, call, book, people, faults>>

Submitting == {"checkRef", "create", "credit", "markSuccess"}
Scanning == {"fetch", "next", "findUser", "findById", "release", "abort"} \cup Submitting

\* scanConfig.lastLt as it was read and as it is in memory, the page to ask
\* for, availableEvents (newest first), those of them that were settled when
\* fetched, and the loop over them with its existedUser.
Call == [currentLt : 0 .. LastEvent, lastLt : 0 .. LastEvent,
         continueLt : 0 .. LastEvent, found : Seq(Events), seen : SUBSET Events,
         index : 1 .. LastEvent + 1, existedUser : Users \cup {None}]
NoCall == [currentLt |-> 0, lastLt |-> 0, continueLt |-> 0, found |-> <<>>,
           seen |-> {}, index |-> 1, existedUser |-> None]

TypeOK ==
    /\ head \in 0 .. LastEvent
    /\ settled \subseteq (1 .. head) \cap (Deposits \cup Malformed)
    /\ config \in [status : {"ACTIVE", "RUNNING"}, lastLt : 0 .. LastEvent]
    /\ pc \in [Ticks -> {"idle", "claim"} \cup Scanning]
    /\ call \in [Ticks -> Call]
    /\ record \in [Events -> {"none", "PENDING", "SUCCESS"}]
    /\ credited \in [Events -> Seq(Users)]
    /\ skipped \subseteq Events
    /\ refused \subseteq Events
    /\ users \subseteq Users
    /\ address \in [Users -> Addresses \cup {None}]
    /\ claims \in [Users -> SUBSET Accounts]
    /\ keepers \in [Events -> SUBSET users]
    /\ named \subseteq Events
    /\ changes \in 0 .. MaxChanges
    /\ faults \in 0 .. MaxFaults

Init ==
    /\ head = 0
    /\ settled = {}
    /\ config = [status |-> "ACTIVE", lastLt |-> 0]
    /\ pc = [t \in Ticks |-> "idle"]
    /\ call = [t \in Ticks |-> NoCall]
    /\ record = [e \in Events |-> "none"]
    /\ credited = [e \in Events |-> <<>>]
    /\ skipped = {}
    /\ refused = {}
    /\ users = FirstUsers
    /\ address = [u \in Users |-> None]
    /\ claims = [u \in Users |-> {}]
    /\ keepers = [e \in Events |-> {}]
    /\ named = {}
    /\ changes = 0
    /\ faults = 0

Goto(t, label) == pc' = [pc EXCEPT ![t] = label]

-------------------------------------------------------------------------------
\* A faulty variant: the address is kept in the form it was given.
StoredAsGiven(given) == given

\* Address.parse(given).toString(), for users and for the senders of events.
Canonical(given) ==
    IF given \in Addresses THEN [given EXCEPT !.form = "canonical"] ELSE given
SenderAddress(account) == [account |-> account, form |-> "canonical"]

\* The users of whom findByWalletAddress returns one, and those it should return.
Owners(account) == {u \in users : address[u] = SenderAddress(account)}
Holders(account) == {u \in users : address[u] # None /\ address[u].account = account}

\* UserEntity.toModel: only a column is left alone that the entity does not have.
ToModel(u, walletAddress) ==
    IF walletAddress = Undefined THEN address[u] ELSE walletAddress

\* Somebody signs up, which gives a row no address.
NewUser(u) ==
    /\ u \in Users \ users
    /\ users' = users \cup {u}
    /\ UNCHANGED <<head, settled, config, pc, call, book, faults>>
    /\ changes < MaxChanges
    /\ changes' = changes + 1
    /\ UNCHANGED <<address, claims, keepers, named>>

\* PUT users/:id, of one's own row or another's: with a walletAddress that parses
\* and that nobody compares with those of other users, with null or '', which
\* clear the column, or without; and with an id, which no other row may have, or
\* without.
UpdateUser(u, id, given) ==
    LET written == ToModel(u, Canonical(given))
    IN  /\ u \in users
        /\ changes < MaxChanges
        /\ changes' = changes + 1
        /\ id \in {u} \cup (Users \ users)
        /\ users' = (users \ {u}) \cup {id}
        /\ address' = [address EXCEPT ![u] = None, ![id] = written]
        /\ claims' = [claims EXCEPT ![id] =
                          IF written = None THEN @ ELSE @ \cup {written.account}]
        /\ keepers' = [e \in Events |->
                          {IF k = u THEN id ELSE k : k \in keepers[e]} \cap Holders(Sender[e])']
        /\ named' = {e \in named : Comment[e] \in users'}
        /\ UNCHANGED <<head, settled, config, pc, call, book, faults>>

-------------------------------------------------------------------------------
\* The chain: an event appears, in progress or already settled, and settles.  Of
\* what is no transfer this does not matter.
NewEvent ==
    /\ head < LastEvent
    /\ head' = head + 1
    /\ settled' \in {settled, settled \cup ({head + 1} \cap (Deposits \cup Malformed))}
    /\ keepers' = [keepers EXCEPT ![head + 1] =
                       IF head + 1 \in Deposits THEN Holders(Sender[head + 1]) ELSE {}]
    /\ named' = named \cup {e \in Deposits : e = head + 1 /\ Comment[e] \in users}
    /\ UNCHANGED <<config, pc, call, book, users, address, claims, changes, faults>>

Settle(e) ==
    /\ e \in ((1 .. head) \cap (Deposits \cup Malformed)) \ settled
    /\ settled' = settled \cup {e}
    /\ UNCHANGED <<head, config, pc, call, book, people, faults>>

-------------------------------------------------------------------------------
\* The name that the next call takes.
FreeTick == CHOOSE t \in Ticks : pc[t] = "idle"

\* The call starts: it reads the config row, and returns when that is RUNNING.
ReadConfig(t) ==
    /\ pc[t] = "idle" /\ t = FreeTick
    /\ \A u \in Ticks : pc[u] # "claim"
    /\ config.status # "RUNNING"
    /\ call' = [call EXCEPT ![t].currentLt = config.lastLt, ![t].lastLt = config.lastLt]
    /\ Goto(t, "claim")
    /\ UNCHANGED <<head, settled, config, book, people, faults>>

\* update() writes the whole row as it was read, with status RUNNING.
Claim(t) ==
    /\ pc[t] = "claim"
    /\ config' = [status |-> "RUNNING", lastLt |-> call[t].lastLt]
    /\ Goto(t, "fetch")
    /\ UNCHANGED <<head, settled, call, book, people, faults>>

\* getFullTransaction: one page, newest first, of the events before continueLt.
\* The scan ends at the event it ended with last time, or at an empty page.
Newest(t) == IF call[t].continueLt > 0 THEN call[t].continueLt - 1 ELSE head
Oldest(t) == IF Newest(t) > PageSize THEN Newest(t) - PageSize + 1 ELSE 1
Reached(t) == call[t].currentLt \in Oldest(t) .. Newest(t)
Page(t) ==
    LET oldest == IF Reached(t) THEN call[t].currentLt + 1 ELSE Oldest(t)
    IN  [i \in 1 .. (Newest(t) - oldest + 1) |-> Newest(t) - i + 1]

FetchPage(t) ==
    /\ pc[t] = "fetch"
    /\ call' = [call EXCEPT
          ![t].found = @ \o Page(t),
          ![t].seen = @ \cup (settled \cap {Page(t)[i] : i \in DOMAIN Page(t)}),
          ![t].continueLt = IF Newest(t) = 0 THEN @ ELSE Oldest(t)]
    /\ IF Reached(t) \/ Newest(t) = 0 THEN Goto(t, "next") ELSE UNCHANGED pc
    /\ UNCHANGED <<head, settled, config, book, people, faults>>

\* The API call fails: its error is logged, and reading .events of the empty
\* array that is left throws.
ApiFault(t) ==
    /\ pc[t] = "fetch"
    /\ faults < MaxFaults
    /\ faults' = faults + 1
    /\ Goto(t, "abort")
    /\ UNCHANGED <<head, settled, config, call, book, people>>

-------------------------------------------------------------------------------
\* A faulty variant: the loop ends one element early.
ExhaustedEarly(t) == call[t].index >= Len(call[t].found)

Current(t) == call[t].found[call[t].index]
Exhausted(t) == call[t].index > Len(call[t].found)

NextElement(t) ==
    /\ call' = [call EXCEPT ![t].index = @ + 1, ![t].existedUser = None]
    /\ Goto(t, "next")

\* parseJettonTransferEvent: nothing but a settled jetton transfer, which has to
\* be of USDT.  One that does not parse throws, and the scan is over.
Parsed(t) == Current(t) \in call[t].seen \cap Deposits
Throws(t) == Current(t) \in call[t].seen \cap Malformed

ParseEvent(t) ==
    /\ pc[t] = "next"
    /\ IF Exhausted(t) THEN Goto(t, "release") /\ UNCHANGED <<call, skipped>>
       ELSE IF Throws(t) THEN Goto(t, "abort") /\ UNCHANGED <<call, skipped>>
       ELSE IF Parsed(t) THEN Goto(t, "findUser") /\ UNCHANGED <<call, skipped>>
       ELSE /\ skipped' = skipped \cup ({Current(t)} \cap (Deposits \ call[t].seen))
            /\ NextElement(t)
    /\ UNCHANGED <<head, settled, config, record, credited, refused, people, faults>>

\* Whom a submission is for.
Submit(t, u) ==
    /\ call' = [call EXCEPT ![t].existedUser = u]
    /\ Goto(t, "checkRef")

\* findByWalletAddress.
FindUser(t) ==
    LET owners == Owners(Sender[Current(t)])
    IN  /\ pc[t] = "findUser"
        /\ \/ \E u \in owners : Submit(t, u)
           \/ /\ owners = {}
              /\ IF Comment[Current(t)] # None THEN Goto(t, "findById") /\ UNCHANGED call
                 ELSE NextElement(t)
        /\ UNCHANGED <<head, settled, config, book, people, faults>>

\* findById with the comment.
FindById(t) ==
    /\ pc[t] = "findById"
    /\ IF Comment[Current(t)] \in users THEN Submit(t, Comment[Current(t)])
       ELSE NextElement(t)
    /\ UNCHANGED <<head, settled, config, book, people, faults>>

\* A faulty variant: only a record that is SUCCESS counts as a duplicate.
CheckRefOfSuccess(t) ==
    /\ pc[t] = "checkRef"
    /\ IF record[Current(t)] = "SUCCESS"
       THEN NextElement(t) /\ refused' = refused \cup {Current(t)}
       ELSE Goto(t, "create") /\ UNCHANGED <<call, refused>>
    /\ UNCHANGED <<head, settled, config, record, credited, skipped, people, faults>>

\* submitTransaction with the event's id as refId: 'Transaction already exist'
\* is thrown, and caught by the loop.
CheckRef(t) ==
    /\ pc[t] = "checkRef"
    /\ IF record[Current(t)] # "none"
       THEN NextElement(t) /\ refused' = refused \cup {Current(t)}
       ELSE Goto(t, "create") /\ UNCHANGED <<call, refused>>
    /\ UNCHANGED <<head, settled, config, record, credited, skipped, people, faults>>

\* A faulty variant: the record is SUCCESS from the start.
CreateRecordAsSuccess(t) ==
    /\ pc[t] = "create"
    /\ record' = [record EXCEPT ![Current(t)] = "SUCCESS"]
    /\ Goto(t, "credit")
    /\ UNCHANGED <<head, settled, config, call, credited, skipped, refused, people, faults>>

CreateRecord(t) ==
    /\ pc[t] = "create"
    /\ record' = [record EXCEPT ![Current(t)] = "PENDING"]
    /\ Goto(t, "credit")
    /\ UNCHANGED <<head, settled, config, call, credited, skipped, refused, people, faults>>

CreditWallet(t) ==
    /\ pc[t] = "credit"
    /\ credited' = [credited EXCEPT ![Current(t)] = Append(@, call[t].existedUser)]
    /\ Goto(t, "markSuccess")
    /\ UNCHANGED <<head, settled, config, call, record, skipped, refused, people, faults>>

MarkSuccess(t) ==
    /\ pc[t] = "markSuccess"
    /\ record' = [record EXCEPT ![Current(t)] = "SUCCESS"]
    /\ NextElement(t)
    /\ UNCHANGED <<head, settled, config, credited, skipped, refused, people, faults>>

-------------------------------------------------------------------------------
\* A call returns, and its variables are gone.
Return(t) ==
    /\ call' = [call EXCEPT ![t] = NoCall]
    /\ Goto(t, "idle")

\* Faulty variants: the cursor moves past the newest event that was read, or to
\* the newest of the chain; the catch block starts over.
AdvancedPastNewest(t) ==
    IF call[t].found = <<>> THEN call[t].lastLt ELSE call[t].found[1] + 1
AdvancedToHead(t) == head

AbortToStart(t) ==
    /\ pc[t] = "abort"
    /\ config' = [status |-> "ACTIVE", lastLt |-> 0]
    /\ Return(t)
    /\ UNCHANGED <<head, settled, book, people, faults>>

\* The cursor moves to the newest event of the first page, in memory, and the
\* row is written with it.
Advanced(t) == IF call[t].found = <<>> THEN call[t].lastLt ELSE call[t].found[1]

Release(t) ==
    /\ pc[t] = "release"
    /\ config' = [status |-> "ACTIVE", lastLt |-> Advanced(t)]
    /\ Return(t)
    /\ UNCHANGED <<head, settled, book, people, faults>>

\* The catch block: ACTIVE, and the cursor as it is in memory.
Abort(t) ==
    /\ pc[t] = "abort"
    /\ config' = [status |-> "ACTIVE", lastLt |-> call[t].lastLt]
    /\ Return(t)
    /\ UNCHANGED <<head, settled, book, people, faults>>

\* A database call of the tick rejects: before the try block or in the catch
\* block, which ends the call; in the lookup of the user; in submitTransaction,
\* where the loop catches it and goes on; or in the last write, when the cursor
\* has already moved in memory.
DbFault(t) ==
    /\ faults < MaxFaults
    /\ faults' = faults + 1
    /\ \/ /\ pc[t] \in {"claim", "abort"}
          /\ Return(t)
          /\ UNCHANGED refused
       \/ /\ pc[t] \in {"findUser", "findById"}
          /\ Goto(t, "abort")
          /\ UNCHANGED <<call, refused>>
       \/ /\ pc[t] \in Submitting
          /\ refused' = refused \cup {Current(t)}
          /\ NextElement(t)
       \/ /\ pc[t] = "release"
          /\ call' = [call EXCEPT ![t].lastLt = Advanced(t)]
          /\ Goto(t, "abort")
          /\ UNCHANGED refused
    /\ UNCHANGED <<head, settled, config, record, credited, skipped, people>>

\* The process dies with every call in it, and comes back.
Crash ==
    /\ faults < MaxFaults
    /\ \E t \in Ticks : pc[t] # "idle"
    /\ faults' = faults + 1
    /\ pc' = [t \in Ticks |-> "idle"]
    /\ call' = [t \in Ticks |-> NoCall]
    /\ UNCHANGED <<head, settled, config, book, people>>

\* Nothing in the code makes a RUNNING row ACTIVE again when its tick is gone:
\* somebody has to do it by hand.
Stuck == config.status = "RUNNING" /\ \A t \in Ticks : pc[t] = "idle"

OperatorReset ==
    /\ Stuck
    /\ config' = [config EXCEPT !.status = "ACTIVE"]
    /\ UNCHANGED <<head, settled, pc, call, book, people, faults>>

-------------------------------------------------------------------------------
Step(t) ==
    \/ Claim(t)
    \/ FetchPage(t)
    \/ ParseEvent(t)
    \/ FindUser(t)
    \/ FindById(t)
    \/ CheckRef(t)
    \/ CreateRecord(t)
    \/ CreditWallet(t)
    \/ MarkSuccess(t)
    \/ Release(t)
    \/ Abort(t)

Next ==
    \/ NewEvent
    \/ \E e \in Events : Settle(e)
    \/ \E u \in Users : NewUser(u)
    \/ \E u, id \in Users, given \in Addresses \cup {None, Undefined} :
          UpdateUser(u, id, given)
    \/ \E t \in Ticks : ReadConfig(t) \/ Step(t) \/ ApiFault(t) \/ DbFault(t)
    \/ Crash
    \/ OperatorReset

\* The cron library keeps calling, and a call whose API and database answer
\* goes on: promises are settled in turn by the event loop.
Fairness ==
    /\ WF_vars(\E t \in Ticks : ReadConfig(t))
    /\ \A t \in Ticks : WF_vars(Step(t))
    /\ \A e \in Events : WF_vars(Settle(e))

Spec == Init /\ [][Next]_vars /\ Fairness

-------------------------------------------------------------------------------
\* No event is added to a wallet twice, nor to two users' wallets, whatever
\* faults, crashes, rescans, restarts and changes of address come between (the
\* refId check of submitTransaction, and the claim of the config row at
\* scan.service.ts:101-107).
CreditedAtMostOnce == \A e \in Events : Len(credited[e]) <= 1

\* A deposit that somebody's address or its comment has told for somebody's ever
\* since it appeared, whoever else has given that address and whatever ids have
\* changed.
Known(e) == e \in Deposits /\ (keepers[e] # {} \/ e \in named)

\* What the cursor has passed has been dealt with: a deposit at or below lastLt
\* that is known to be somebody's was credited, or was in progress when it was
\* read, or its submission was refused.  Events that arrive during a scan are not
\* passed over.
CursorAccounted ==
    \A e \in 1 .. config.lastLt :
        Known(e) => credited[e] # <<>> \/ e \in skipped \cup refused

\* A deposit goes to a user who has had the sender's address, or to the one that its
\* comment names; and to the latter only when nobody has had the address ever since
\* the deposit appeared.
CreditedToOwner ==
    \A e \in Events : \A i \in DOMAIN credited[e] :
        \/ Sender[e] \in claims[credited[e][i]]
        \/ Comment[e] = credited[e][i] /\ keepers[e] = {}

\* A record says SUCCESS only when the wallet has been credited: the wallet is
\* written first (transaction.service.ts:242-243).
SuccessWasCredited ==
    \A e \in Events : record[e] = "SUCCESS" => credited[e] # <<>>

\* The cursor never goes back, although a tick writes a row it read long before.
CursorMonotone == [][config'.lastLt >= config.lastLt]_vars

\* A newer transfer that ends every scan before it comes to this event.
Blocked(e) == \E m \in settled \cap Malformed : m > e /\ m > config.lastLt

\* Every deposit on the chain that stays known to be somebody's is credited, unless
\* it was in progress when read, its submission was refused, the RUNNING row of a
\* dead tick stops the scan, or a transfer ends it that does not parse.
DepositsDealtWith ==
    \A e \in Events :
        Known(e) ~> \/ credited[e] # <<>> \/ e \in skipped \cup refused
                    \/ Stuck \/ Blocked(e) \/ ~Known(e)

\* Every deposit that settles on the chain is credited in the end, if its comment
\* goes on naming a user.
SettledIsCredited ==
    \A e \in Events :
        e \in settled \cap named ~> credited[e] # <<>> \/ e \notin named
===============================================================================
