------------------------------ MODULE Withdrawals ------------------------------
(***************************************************************************)
(* The two cron jobs that pay withdrawals out: processWithdrawTransaction  *)
(* sends the oldest PENDING withdrawal from the hot wallet, and            *)
(* verifyWithdrawTransaction looks the PROCESSING ones up on the chain.    *)
(* Both run side by side, each behind the config row of its own that a     *)
(* call reads, and sets RUNNING.  One action per API or database call; a   *)
(* record is always written whole, from memory.                            *)
(***************************************************************************)
EXTENDS Integers, Sequences

CONSTANTS
    LastTxn,        \* bound: the withdrawals are 1 .. LastTxn, by createdAt
    Amount,         \* the amount of each, in whole tokens
    Senders,        \* calls of processWithdrawTransaction that can be alive
    Verifiers,      \* calls of verifyWithdrawTransaction that can be alive
    Resettable,     \* the config rows somebody makes ACTIVE again by hand
    MaxApiFaults, MaxDbFaults, MaxCrashes     \* bounds on what goes wrong

Txns == 1 .. LastTxn
Ticks == Senders \cup Verifiers
Configs == {"withdraw", "verifyWithdraw"}

ASSUME LastTxnIsNat == LastTxn \in Nat
ASSUME AmountIsPositive == Amount \in [Txns -> Nat \ {0}]
ASSUME JobsAreDistinct == Senders \cap Verifiers = {}
ASSUME ResettableConfigs == Resettable \subseteq Configs
ASSUME BoundsAreNat ==
    MaxApiFaults \in Nat /\ MaxDbFaults \in Nat /\ MaxCrashes \in Nat

VARIABLES
    status,         \* of each withdrawal's record, "none" before submitTransaction
    refId,          \* the records whose refId is set, to their own id
    config,         \* status of the two rows of ton_scan_config
    transit,        \* per withdrawal: transfers handed to the network
    landed,         \* comments of the hot wallet's settled transfers, in order
    sent, paid,     \* history: transfers handed over, and the tokens in them
    pc,             \* per tick: where the call is
    txn,            \* per tick: withdrawTran or existedTran, 0 for none
    txnRef,         \* per sender: whether refId is set on withdrawTran in memory
    todo,           \* per verifier: the events left to look at, newest first
    faults          \* counters for the bounds

records == <<status, refId>>
chain == <<transit, landed, sent, paid>>
local == <<txn, txnRef, todo>>
vars == <<records, config, chain, pc, local, faults>>

SenderPcs == {"list", "claim", "send", "markProcessing", "release", "markFailed", "abort"}
VerifierPcs == {"list", "claim", "fetch", "lookup", "markSuccess", "release", "abort"}

TypeOK ==
    /\ status \in [Txns -> {"none", "PENDING", "PROCESSING", "SUCCESS", "FAILED"}]
    /\ refId \subseteq Txns
    /\ config \in [Configs -> {"ACTIVE", "RUNNING"}]
    /\ transit \in [Txns -> Nat]
    /\ landed \in Seq(Txns)
    /\ sent \in [Txns -> Nat]
    /\ paid \in [Txns -> Nat]
    /\ pc \in [Ticks -> {"idle"} \cup SenderPcs \cup VerifierPcs]
    /\ \A s \in Senders : pc[s] \in {"idle"} \cup SenderPcs
    /\ \A v \in Verifiers : pc[v] \in {"idle"} \cup VerifierPcs
    /\ txn \in [Ticks -> 0 .. LastTxn]
    /\ txnRef \in [Senders -> BOOLEAN]
    /\ todo \in [Verifiers -> Seq(Txns)]
    /\ faults \in [api : 0 .. MaxApiFaults, db : 0 .. MaxDbFaults,
                   crash : 0 .. MaxCrashes]

Init ==
    /\ status = [w \in Txns |-> "none"]
    /\ refId = {}
    /\ config = [c \in Configs |-> "ACTIVE"]
    /\ transit = [w \in Txns |-> 0]
    /\ landed = <<>>
    /\ sent = [w \in Txns |-> 0]
    /\ paid = [w \in Txns |-> 0]
    /\ pc = [t \in Ticks |-> "idle"]
    /\ txn = [t \in Ticks |-> 0]
    /\ txnRef = [s \in Senders |-> FALSE]
    /\ todo = [v \in Verifiers |-> <<>>]
    /\ faults = [api |-> 0, db |-> 0, crash |-> 0]

-------------------------------------------------------------------------------
Goto(t, label) == pc' = [pc EXCEPT ![t] = label]

\* A call returns, and its variables are gone.
Return(t) ==
    /\ Goto(t, "idle")
    /\ txn' = [txn EXCEPT ![t] = 0]
    /\ txnRef' = [s \in Senders |-> s # t /\ txnRef[s]]
    /\ todo' = [v \in Verifiers |-> IF v = t THEN <<>> ELSE todo[v]]

ConfigOf(t) == IF t \in Senders THEN "withdraw" ELSE "verifyWithdraw"
SetConfig(t, value) == config' = [config EXCEPT ![ConfigOf(t)] = value]

WithStatus(s) == {w \in Txns : status[w] = s}

\* submitTransaction made a record (TransactionService has the details).
NewWithdrawal(w) ==
    /\ status[w] = "none"
    /\ \A u \in 1 .. w - 1 : status[u] # "none"
    /\ status' = [status EXCEPT ![w] = "PENDING"]
    /\ UNCHANGED <<refId, config, chain, pc, local, faults>>

\* A transfer lands and its event settles, or the network drops it.
Land(w) ==
    /\ transit[w] > 0
    /\ transit' = [transit EXCEPT ![w] = @ - 1]
    /\ landed' \in {landed, Append(landed, w)}
    /\ UNCHANGED <<records, config, sent, paid, pc, local, faults>>

-------------------------------------------------------------------------------
\* Both jobs: the call starts and reads its config row.
ReadConfig(t) ==
    /\ pc[t] = "idle"
    /\ config[ConfigOf(t)] # "RUNNING"
    /\ Goto(t, "list")
    /\ UNCHANGED <<records, config, chain, local, faults>>

\* Both jobs: update() of the config row, with status RUNNING.
Claim(t) ==
    /\ pc[t] = "claim"
    /\ SetConfig(t, "RUNNING")
    /\ Goto(t, IF t \in Senders THEN "send" ELSE "fetch")
    /\ UNCHANGED <<records, chain, local, faults>>

\* Both jobs: the last write, at the end of the try or of the catch block.
Release(t) ==
    /\ pc[t] \in {"release", "abort"}
    /\ SetConfig(t, "ACTIVE")
    /\ Return(t)
    /\ UNCHANGED <<records, chain, faults>>

-------------------------------------------------------------------------------
\* findAll by createdAt of the withdrawals that are due, of which the first is taken.
TakeFirst(s, due) ==
    /\ pc[s] = "list"
    /\ \/ due = {} /\ Return(s)
       \/ \E w \in due : /\ \A u \in due : w <= u
                         /\ txn' = [txn EXCEPT ![s] = w]
                         /\ Goto(s, "claim")
                         /\ UNCHANGED <<txnRef, todo>>
    /\ UNCHANGED <<records, config, chain, faults>>

\* Faulty variants: FAILED withdrawals are tried again; the last one waits for
\* company (data.length > 1).
ListPendingOrFailed(s) == TakeFirst(s, WithStatus("PENDING") \cup WithStatus("FAILED"))
ListPendingPair(s) ==
    TakeFirst(s, {w \in WithStatus("PENDING") : WithStatus("PENDING") # {w}})

ListPending(s) == TakeFirst(s, WithStatus("PENDING"))

\* transferJettonToken: the body carries toNano('1') whatever the amount.
TokensSent(w) == 1

HandOver(w) ==
    /\ transit' = [transit EXCEPT ![w] = @ + 1]
    /\ sent' = [sent EXCEPT ![w] = @ + 1]
    /\ paid' = [paid EXCEPT ![w] = @ + TokensSent(w)]
    /\ UNCHANGED landed

\* A faulty variant: the refId is not set.
SendWithoutRef(s) ==
    /\ pc[s] = "send"
    /\ HandOver(txn[s])
    /\ Goto(s, "markProcessing")
    /\ UNCHANGED <<records, config, local, faults>>

Send(s) ==
    /\ pc[s] = "send"
    /\ HandOver(txn[s])
    /\ txnRef' = [txnRef EXCEPT ![s] = TRUE]
    /\ Goto(s, "markProcessing")
    /\ UNCHANGED <<records, config, txn, todo, faults>>

\* It throws: the balance of the hot wallet is short or a call fails, before
\* the transfer was handed over or, the answer being lost, after.
SendThrows(s) ==
    /\ pc[s] = "send"
    /\ faults.api < MaxApiFaults
    /\ faults' = [faults EXCEPT !.api = @ + 1]
    /\ HandOver(txn[s]) \/ UNCHANGED chain
    /\ Goto(s, "markFailed")
    /\ UNCHANGED <<records, config, local>>

\* The record is written as it is in memory: status, and refId if it was set.
WriteRecord(s, value) ==
    /\ status' = [status EXCEPT ![txn[s]] = value]
    /\ refId' = IF txnRef[s] THEN refId \cup {txn[s]} ELSE refId \ {txn[s]}

\* A faulty variant: what was handed over counts as done.
MarkProcessingAsSuccess(s) ==
    /\ pc[s] = "markProcessing"
    /\ WriteRecord(s, "SUCCESS")
    /\ Goto(s, "release")
    /\ UNCHANGED <<config, chain, local, faults>>

MarkProcessing(s) ==
    /\ pc[s] = "markProcessing"
    /\ WriteRecord(s, "PROCESSING")
    /\ Goto(s, "release")
    /\ UNCHANGED <<config, chain, local, faults>>

\* The catch block.
MarkFailed(s) ==
    /\ pc[s] = "markFailed"
    /\ WriteRecord(s, "FAILED")
    /\ Goto(s, "abort")
    /\ UNCHANGED <<config, chain, local, faults>>

-------------------------------------------------------------------------------
\* findAll of the PROCESSING records: only whether there is one matters.
ListProcessing(v) ==
    /\ pc[v] = "list"
    /\ IF WithStatus("PROCESSING") = {}
       THEN Return(v)
       ELSE Goto(v, "claim") /\ UNCHANGED local
    /\ UNCHANGED <<records, config, chain, faults>>


\* getFullTransaction from a lastLt that never advances: all events every time.
Fetch(v) ==
    /\ pc[v] = "fetch"
    /\ todo' = [todo EXCEPT ![v] =
                    [i \in 1 .. Len(landed) |-> landed[Len(landed) - i + 1]]]
    /\ Goto(v, "lookup")
    /\ UNCHANGED <<records, config, chain, txn, txnRef, faults>>

FetchThrows(v) ==
    /\ pc[v] = "fetch"
    /\ faults.api < MaxApiFaults
    /\ faults' = [faults EXCEPT !.api = @ + 1]
    /\ Goto(v, "abort")
    /\ UNCHANGED <<records, config, chain, local>>

\* A faulty variant: the record that was found is not kept.
LookupForgets(v) ==
    /\ pc[v] = "lookup"
    /\ IF todo[v] = <<>> THEN Goto(v, "release") /\ UNCHANGED local
       ELSE /\ IF Head(todo[v]) \in refId /\ status[Head(todo[v])] = "PROCESSING"
               THEN Goto(v, "markSuccess") ELSE UNCHANGED pc
            /\ todo' = [todo EXCEPT ![v] = Tail(@)]
            /\ UNCHANGED <<txn, txnRef>>
    /\ UNCHANGED <<records, config, chain, faults>>

\* findFirst({ refId: comment }) for the next event, kept if PROCESSING.
Lookup(v) ==
    /\ pc[v] = "lookup"
    /\ \/ /\ todo[v] = <<>>
          /\ Goto(v, "release")
          /\ UNCHANGED local
       \/ /\ todo[v] # <<>>
          /\ LET w == Head(todo[v])
             IN  IF w \in refId /\ status[w] = "PROCESSING"
                 THEN txn' = [txn EXCEPT ![v] = w] /\ Goto(v, "markSuccess")
                 ELSE UNCHANGED <<txn, pc>>
          /\ todo' = [todo EXCEPT ![v] = Tail(@)]
          /\ UNCHANGED txnRef
    /\ UNCHANGED <<records, config, chain, faults>>

\* A faulty variant: the record is for sending again.
MarkSuccessAsPending(v) ==
    /\ pc[v] = "markSuccess"
    /\ status' = [status EXCEPT ![txn[v]] = "PENDING"]
    /\ Goto(v, "lookup")
    /\ UNCHANGED <<refId, config, chain, local, faults>>

\* The record is written as it was found, with its refId.
MarkSuccess(v) ==
    /\ pc[v] = "markSuccess"
    /\ status' = [status EXCEPT ![txn[v]] = "SUCCESS"]
    /\ refId' = refId \cup {txn[v]}
    /\ Goto(v, "lookup")
    /\ UNCHANGED <<config, chain, local, faults>>

-------------------------------------------------------------------------------
\* A database call rejects.  Before the try block and in the catch block that
\* ends the call; in the try block it leads to the catch block, which for a
\* sender makes the record FAILED, even when only the release went wrong.
DbFault(t) ==
    /\ faults.db < MaxDbFaults
    /\ faults' = [faults EXCEPT !.db = @ + 1]
    /\ \/ /\ pc[t] \in {"list", "claim", "markFailed", "abort"}
          /\ Return(t)
       \/ /\ pc[t] \in {"markProcessing", "lookup", "markSuccess", "release"}
          /\ Goto(t, IF t \in Senders THEN "markFailed" ELSE "abort")
          /\ UNCHANGED local
    /\ UNCHANGED <<records, config, chain>>

\* The process dies with every call in it, and comes back.
Crash ==
    /\ faults.crash < MaxCrashes
    /\ \E t \in Ticks : pc[t] # "idle"
    /\ faults' = [faults EXCEPT !.crash = @ + 1]
    /\ pc' = [t \in Ticks |-> "idle"]
    /\ txn' = [t \in Ticks |-> 0]
    /\ txnRef' = [s \in Senders |-> FALSE]
    /\ todo' = [v \in Verifiers |-> <<>>]
    /\ UNCHANGED <<records, config, chain>>

\* A config row that nobody in the program will make ACTIVE again.
Stuck(c) == config[c] = "RUNNING" /\ \A t \in Ticks : ConfigOf(t) = c => pc[t] = "idle"

OperatorReset(c) ==
    /\ c \in Resettable
    /\ Stuck(c)
    /\ config' = [config EXCEPT ![c] = "ACTIVE"]
    /\ UNCHANGED <<records, chain, pc, local, faults>>

-------------------------------------------------------------------------------
SenderStep(s) ==
    \/ ListPending(s)
    \/ Claim(s)
    \/ Send(s)
    \/ MarkProcessing(s)
    \/ MarkFailed(s)
    \/ Release(s)

VerifierStep(v) ==
    \/ ListProcessing(v)
    \/ Claim(v)
    \/ Fetch(v)
    \/ Lookup(v)
    \/ MarkSuccess(v)
    \/ Release(v)

\* The lines from the read of the config row to the write of RUNNING.
BeforeClaim(t) == pc[t] \in {"list", "claim"}

\* Calls of a job start 20 seconds apart in one process, and these lines are
\* assumed to take less.
InTurn(t) == \A u \in Ticks : ConfigOf(u) = ConfigOf(t) => ~BeforeClaim(u)

Surroundings ==
    \/ \E w \in Txns : NewWithdrawal(w) \/ Land(w)
    \/ \E s \in Senders : SenderStep(s) \/ SendThrows(s)
    \/ \E v \in Verifiers : VerifierStep(v) \/ FetchThrows(v)
    \/ \E t \in Ticks : DbFault(t)
    \/ Crash
    \/ \E c \in Configs : OperatorReset(c)

Next == Surroundings \/ \E t \in Ticks : InTurn(t) /\ ReadConfig(t)

\* Without that assumption: several instances of the service on one database.
OverlapNext == Surroundings \/ \E t \in Ticks : ReadConfig(t)

\* The cron library keeps calling each job, a call whose API and database
\* answer goes on, and the chain settles.
Fairness ==
    /\ WF_vars(\E s \in Senders : InTurn(s) /\ ReadConfig(s))
    /\ WF_vars(\E v \in Verifiers : InTurn(v) /\ ReadConfig(v))
    /\ \A s \in Senders : WF_vars(SenderStep(s))
    /\ \A v \in Verifiers : WF_vars(VerifierStep(v))

Spec == Init /\ [][Next]_vars /\ Fairness
OverlapSpec == Init /\ [][OverlapNext]_vars

-------------------------------------------------------------------------------
Landed(w) == \E i \in DOMAIN landed : landed[i] = w

\* No withdrawal is sent twice, whatever call fails, or is answered too late,
\* and wherever the process dies: a record is not PENDING again once it was
\* sent, or the RUNNING row of 'withdraw' stands in the way of the next call.
PaidAtMostOnce == \A w \in Txns : sent[w] <= 1

\* SUCCESS means that the transfer is on the chain (verifyWithdrawTransaction
\* found the record by the comment of a settled event).
SuccessWasDelivered == \A w \in Txns : status[w] = "SUCCESS" => Landed(w)

\* What waits for verification was sent, and can be found by its refId.
ProcessingCanBeVerified ==
    \A w \in Txns : status[w] = "PROCESSING" => sent[w] > 0 /\ w \in refId

\* The refinement mapping: a PROCESSING withdrawal is still open.
OutcomeOf ==
    [none |-> "none", PENDING |-> "open", PROCESSING |-> "open",
     SUCCESS |-> "done", FAILED |-> "failed"]

Promise == INSTANCE Payout WITH
    outcome   <- [w \in Txns |-> OutcomeOf[status[w]]],
    handed    <- sent,
    delivered <- {w \in Txns : Landed(w)},
    mishap    <- faults.db > 0

\* Each step of either job, of the network or of what goes wrong is one step of
\* Payout or none: money is handed over only while the withdrawal is open and once,
\* SUCCESS is written only after the money arrived, though the record may be FAILED
\* by then if a write was lost, and no record goes back to be sent again.
PayoutSpec == Promise!Spec

\* Unless a database call fails, a withdrawal that is SUCCESS or FAILED stays
\* so, although both jobs write whole records: a sender writes only what was
\* PENDING, and a verifier finds no FAILED record whose transfer was thrown away.
OutcomeIsFinal ==
    [][\A w \in Txns :
          faults'.db = 0 /\ status[w] \in {"SUCCESS", "FAILED"} => status'[w] = status[w]]_vars

\* Every withdrawal is taken up, or a dead call's RUNNING row stops the job.
PendingIsTakenUp ==
    \A w \in Txns : status[w] = "PENDING" ~> status[w] # "PENDING" \/ Stuck("withdraw")


\* What a withdrawal asked for is what is transferred: transferJettonToken logs
\* `Transfer ${amount} USDT to ${toAddress}` (ton.service.ts:122).
PaidWhatWasAsked == \A w \in Txns : paid[w] = sent[w] * Amount[w]
===============================================================================
