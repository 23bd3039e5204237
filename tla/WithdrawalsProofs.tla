--------------------------- MODULE WithdrawalsProofs ---------------------------
(***************************************************************************)
(* For any number of withdrawals, of calls alive and of faults: the two    *)
(* jobs keep their records true to the chain, and they implement Payout,   *)
(* which pays once, if nobody resets the row 'withdraw' by hand.           *)
(*                                                                         *)
(* That a withdrawal is sent once is not inductive: it rests on the claim  *)
(* of the row 'withdraw', which keeps senders apart and, when a call is    *)
(* lost between the transfer and the write of PROCESSING, stays RUNNING.   *)
(***************************************************************************)
EXTENDS Withdrawals, SequenceTheorems, TLAPS

\* Nobody makes the row 'withdraw' ACTIVE by hand.
Untouched == "withdraw" \notin Resettable

\* At most one sender is alive; it found the row ACTIVE and then made it RUNNING.
Claimed ==
    /\ \A s, t \in Senders : pc[s] # "idle" /\ pc[t] # "idle" => s = t
    /\ \A s \in Senders :
          /\ pc[s] \in {"list", "claim"} => config["withdraw"] = "ACTIVE"
          /\ pc[s] \in {"send", "markProcessing", "release", "markFailed", "abort"}
                => config["withdraw"] = "RUNNING"

\* What a sender knows of the withdrawal it has taken.
SenderKnows(s) ==
    /\ pc[s] \in SenderPcs \ {"list"} => txn[s] \in Txns
    /\ pc[s] \in {"claim", "send"} =>
          status[txn[s]] = "PENDING" /\ (Untouched => sent[txn[s]] = 0)
    /\ pc[s] = "markProcessing" =>
          status[txn[s]] = "PENDING" /\ sent[txn[s]] > 0 /\ txnRef[s]
    /\ pc[s] = "markFailed" =>
          status[txn[s]] # "none" /\ (status[txn[s]] = "PENDING" \/ faults.db > 0)
    /\ pc[s] \in {"release", "abort"} => status[txn[s]] \notin {"none", "PENDING"}

\* What a verifier knows of the events it has left and of the record it has found,
\* which a sender may have made FAILED since if a write was lost.
VerifierKnows(v) ==
    /\ \A i \in DOMAIN todo[v] : Landed(todo[v][i])
    /\ pc[v] = "markSuccess" =>
          /\ txn[v] \in Txns
          /\ Landed(txn[v])
          /\ \/ status[txn[v]] \in {"PROCESSING", "SUCCESS"}
             \/ status[txn[v]] = "FAILED" /\ faults.db > 0

\* A withdrawal that was sent and is PENDING still is in the hands of a sender, or
\* of nobody behind the RUNNING row.
SentOnce(w) ==
    /\ sent[w] <= 1
    /\ status[w] = "PENDING" /\ sent[w] > 0 =>
          /\ config["withdraw"] = "RUNNING"
          /\ \A s \in Senders : pc[s] # "idle" =>
                pc[s] \in {"markProcessing", "markFailed"} /\ txn[s] = w

\* What the record of a withdrawal says of its money.
Accounted(w) ==
    /\ transit[w] > 0 => sent[w] > 0
    /\ status[w] = "none" => sent[w] = 0
    /\ status[w] = "PROCESSING" => sent[w] > 0 /\ w \in refId
    /\ status[w] = "SUCCESS" => Landed(w)
    /\ Untouched => SentOnce(w)

Inv ==
    /\ TypeOK
    /\ Claimed
    /\ \A s \in Senders : SenderKnows(s)
    /\ \A v \in Verifiers : VerifierKnows(v)
    /\ \A w \in Txns : Accounted(w)

-------------------------------------------------------------------------------
\* Nothing was asked for yet.
LEMMA InitInv == Init => Inv
<1> SUFFICES ASSUME Init PROVE Inv
    OBVIOUS
<1> USE LastTxnIsNat, BoundsAreNat DEF Init, Txns
<1>1. TypeOK
    BY DEF TypeOK, Ticks, Configs
<1>2. Claimed
    BY DEF Claimed, Ticks
<1>3. \A s \in Senders : SenderKnows(s)
    BY DEF SenderKnows, SenderPcs, Ticks
<1>4. \A v \in Verifiers : VerifierKnows(v)
    BY DEF VerifierKnows, Ticks
<1>5. \A w \in Txns : Accounted(w)
    BY DEF Accounted, SentOnce
<1> QED BY <1>1, <1>2, <1>3, <1>4, <1>5 DEF Inv

\* A call that returns leaves variables of the right types.
LEMMA ReturnTypes ==
    ASSUME NEW t \in Ticks, TypeOK, Return(t)
    PROVE  /\ pc' \in [Ticks -> {"idle"} \cup SenderPcs \cup VerifierPcs]
           /\ \A s \in Senders : pc'[s] \in {"idle"} \cup SenderPcs
           /\ \A v \in Verifiers : pc'[v] \in {"idle"} \cup VerifierPcs
           /\ txn' \in [Ticks -> 0 .. LastTxn]
           /\ txnRef' \in [Senders -> BOOLEAN]
           /\ todo' \in [Verifiers -> Seq(Txns)]
<1> USE LastTxnIsNat DEF Return, Goto, TypeOK
<1>1. /\ pc' \in [Ticks -> {"idle"} \cup SenderPcs \cup VerifierPcs]
      /\ \A s \in Senders : pc'[s] \in {"idle"} \cup SenderPcs
      /\ \A v \in Verifiers : pc'[v] \in {"idle"} \cup VerifierPcs
    BY DEF Ticks
<1>2. txn' \in [Ticks -> 0 .. LastTxn]
    OBVIOUS
<1>3. txnRef' \in [Senders -> BOOLEAN]
    BY Zenon
<1>4. todo' \in [Verifiers -> Seq(Txns)]
    OBVIOUS
<1> QED BY <1>1, <1>2, <1>3, <1>4

\* What has landed stays landed, whichever transfer comes next.
LEMMA LandedStays ==
    ASSUME TypeOK, NEW w \in Txns, landed' \in {landed, Append(landed, w)}
    PROVE  /\ landed' \in Seq(Txns)
           /\ \A u : Landed(u) => Landed(u)'
<1>1. CASE landed' = landed
    BY <1>1 DEF TypeOK, Landed
<1>2. CASE landed' = Append(landed, w)
  <2>1. /\ landed \in Seq(Txns)
        /\ landed' \in Seq(Txns)
        /\ Len(landed') = Len(landed) + 1
        /\ \A i \in 1 .. Len(landed) : landed'[i] = landed[i]
    BY <1>2, AppendProperties DEF TypeOK
  <2>2. \A u : Landed(u) => Landed(u)'
    BY <2>1, LenProperties DEF Landed
  <2> QED BY <2>1, <2>2
<1> QED BY <1>1, <1>2

\* A call that goes to a place of its own job.
LEMMA GotoTypes ==
    ASSUME NEW t \in Ticks, NEW label, TypeOK, Goto(t, label),
           t \in Senders => label \in SenderPcs,
           t \in Verifiers => label \in VerifierPcs
    PROVE  /\ pc' \in [Ticks -> {"idle"} \cup SenderPcs \cup VerifierPcs]
           /\ \A s \in Senders : pc'[s] \in {"idle"} \cup SenderPcs
           /\ \A v \in Verifiers : pc'[v] \in {"idle"} \cup VerifierPcs
    BY DEF Goto, TypeOK, Ticks

\* One more fault, while the bound allows it.
LEMMA FaultTypes ==
    ASSUME TypeOK,
           \/ faults.api < MaxApiFaults /\ faults' = [faults EXCEPT !.api = @ + 1]
           \/ faults.db < MaxDbFaults /\ faults' = [faults EXCEPT !.db = @ + 1]
           \/ faults.crash < MaxCrashes /\ faults' = [faults EXCEPT !.crash = @ + 1]
    PROVE  /\ faults' \in [api : 0 .. MaxApiFaults, db : 0 .. MaxDbFaults,
                           crash : 0 .. MaxCrashes]
           /\ faults.db > 0 => faults'.db > 0
<1> USE BoundsAreNat
<1>1. faults \in [api : 0 .. MaxApiFaults, db : 0 .. MaxDbFaults, crash : 0 .. MaxCrashes]
    BY DEF TypeOK
<1>2. CASE faults.api < MaxApiFaults /\ faults' = [faults EXCEPT !.api = @ + 1]
    BY <1>1, <1>2
<1>3. CASE faults.db < MaxDbFaults /\ faults' = [faults EXCEPT !.db = @ + 1]
    BY <1>1, <1>3
<1>4. CASE faults.crash < MaxCrashes /\ faults' = [faults EXCEPT !.crash = @ + 1]
    BY <1>1, <1>4
<1> QED BY <1>2, <1>3, <1>4

\* One more transfer.
LEMMA HandOverTypes ==
    ASSUME NEW w \in Txns, TypeOK, HandOver(w)
    PROVE  /\ transit' \in [Txns -> Nat]
           /\ sent' \in [Txns -> Nat]
           /\ paid' \in [Txns -> Nat]
    BY DEF TypeOK, HandOver, TokensSent

\* While a sender is alive every other one is idle, and stays so when it moves.
LEMMA SenderIsAlone ==
    ASSUME NEW s \in Senders, Inv, pc[s] # "idle",
           NEW label, Goto(s, label), NEW r \in Senders, r # s
    PROVE  pc'[r] = "idle"
    BY DEF Inv, Claimed, Goto, TypeOK

\* What a verifier knows outlasts the steps of others that take no SUCCESS back,
\* unless a write was lost.
LEMMA VerifierStillKnows ==
    ASSUME NEW v \in Verifiers, VerifierKnows(v), UNCHANGED landed,
           todo'[v] = todo[v], txn'[v] = txn[v], pc'[v] = pc[v],
           faults.db > 0 => faults'.db > 0,
           \A u \in Txns : \/ status'[u] = status[u]
                           \/ status[u] \in {"none", "PENDING"}
                           \/ status'[u] \in {"PROCESSING", "SUCCESS"}
                           \/ status'[u] = "FAILED" /\ faults'.db > 0
    PROVE  VerifierKnows(v)'
<1>1. \A u : Landed(u)' <=> Landed(u)
    BY DEF Landed
<1> QED BY <1>1 DEF VerifierKnows

\* What a sender knows outlasts the steps of others, who write no record that is
\* PENDING or not there yet.
LEMMA SenderStillKnows ==
    ASSUME NEW s \in Senders, SenderKnows(s), UNCHANGED sent,
           pc'[s] = pc[s], txn'[s] = txn[s], txnRef'[s] = txnRef[s],
           faults.db > 0 => faults'.db > 0,
           \A u \in Txns : \/ status'[u] = status[u]
                           \/ /\ status[u] \notin {"none", "PENDING"}
                              /\ status'[u] \notin {"none", "PENDING"}
    PROVE  SenderKnows(s)'
    BY DEF SenderKnows, SenderPcs

\* A new record is PENDING, and was not sent.
LEMMA NewWithdrawalKeeps ==
    ASSUME NEW w \in Txns, Inv, NewWithdrawal(w)
    PROVE  Inv'
<1> USE DEF NewWithdrawal, records, chain, local, Inv
<1>1. TypeOK'
    BY DEF TypeOK
<1>2. Claimed'
    BY DEF Claimed
<1>3. \A s \in Senders : SenderKnows(s)'
    BY DEF SenderKnows, SenderPcs, Accounted, SentOnce, TypeOK
<1>4. \A v \in Verifiers : VerifierKnows(v)'
  <2>1. \A u : Landed(u)' <=> Landed(u)
    BY DEF Landed
  <2> QED BY <2>1 DEF VerifierKnows, TypeOK
<1>5. \A u \in Txns : Accounted(u)'
    BY DEF Accounted, SentOnce, Landed, TypeOK
<1> QED BY <1>1, <1>2, <1>3, <1>4, <1>5

\* What has landed stays landed, and the comment of a transfer names what was sent.
LEMMA LandKeeps ==
    ASSUME NEW w \in Txns, Inv, Land(w)
    PROVE  Inv'
<1> USE DEF Land, records, local, Inv
<1>1. TypeOK'
    BY LandedStays DEF TypeOK
<1>2. \A u : Landed(u) => Landed(u)'
    BY LandedStays
<1>3. Claimed'
    BY DEF Claimed
<1>4. \A s \in Senders : SenderKnows(s)'
    BY DEF SenderKnows
<1>5. \A v \in Verifiers : VerifierKnows(v)'
    BY <1>2 DEF VerifierKnows
<1>6. \A u \in Txns : Accounted(u)'
    BY <1>2 DEF Accounted, SentOnce, TypeOK
<1> QED BY <1>1, <1>3, <1>4, <1>5, <1>6

\* A sender starts when nobody is between the read and the write of the row, and
\* finds it ACTIVE: then no other sender is alive.
LEMMA ReadConfigKeeps ==
    ASSUME NEW t \in Ticks, Inv, InTurn(t), ReadConfig(t)
    PROVE  Inv'
<1> USE JobsAreDistinct DEF ReadConfig, Goto, records, chain, local, Inv
<1>1. TypeOK'
    BY DEF TypeOK, SenderPcs, VerifierPcs
<1>2. Claimed'
    BY DEF Claimed, InTurn, BeforeClaim, ConfigOf, TypeOK, SenderPcs, Configs, Ticks
<1>3. \A s \in Senders : SenderKnows(s)'
    BY DEF SenderKnows, SenderPcs, TypeOK, Ticks
<1>4. \A v \in Verifiers : VerifierKnows(v)'
    BY DEF VerifierKnows, Landed, TypeOK, Ticks
<1>5. \A u \in Txns : Accounted(u)'
    BY DEF Accounted, SentOnce, Landed, ConfigOf, TypeOK, Ticks, SenderPcs
<1> QED BY <1>1, <1>2, <1>3, <1>4, <1>5

\* The row of a sender was ACTIVE, so nothing that was sent is PENDING.
LEMMA ClaimKeeps ==
    ASSUME NEW t \in Ticks, Inv, Claim(t)
    PROVE  Inv'
<1> USE JobsAreDistinct DEF Claim, SetConfig, Goto, records, chain, local, Inv
<1>1. TypeOK'
    BY DEF TypeOK, SenderPcs, VerifierPcs, Configs, ConfigOf, Ticks
<1>2. Claimed'
    BY DEF Claimed, ConfigOf, TypeOK, SenderPcs, Configs, Ticks
<1>3. \A s \in Senders : SenderKnows(s)'
    BY DEF SenderKnows, SenderPcs, TypeOK, Ticks
<1>4. \A v \in Verifiers : VerifierKnows(v)'
    BY DEF VerifierKnows, Landed, TypeOK, Ticks
<1>5. \A u \in Txns : Accounted(u)'
    BY DEF Accounted, SentOnce, Claimed, Landed, ConfigOf, Configs, TypeOK, Ticks, SenderPcs
<1> QED BY <1>1, <1>2, <1>3, <1>4, <1>5

\* When a sender makes the row ACTIVE again its own record has an outcome, and no
\* other sender is alive.
LEMMA ReleaseKeeps ==
    ASSUME NEW t \in Ticks, Inv, Release(t)
    PROVE  Inv'
<1> USE JobsAreDistinct DEF Release, SetConfig, records, chain, Inv
<1>1. TypeOK'
    BY ReturnTypes DEF TypeOK
<1> USE DEF Return, Goto
<1>2. Claimed'
    BY DEF Claimed, ConfigOf, TypeOK, SenderPcs, Configs, Ticks
<1>3. \A s \in Senders : SenderKnows(s)'
    BY DEF SenderKnows, SenderPcs, TypeOK, Ticks
<1>4. \A v \in Verifiers : VerifierKnows(v)'
    BY DEF VerifierKnows, Landed, TypeOK, Ticks
<1>5. \A u \in Txns : Accounted(u)'
  <2> USE DEF Accounted, SentOnce, Landed, ConfigOf, Configs, TypeOK
  <2>1. CASE t \in Senders
    BY <2>1
  <2>2. CASE t \in Verifiers
    BY <2>2 DEF Ticks
  <2> QED BY <2>1, <2>2 DEF Ticks
<1> QED BY <1>1, <1>2, <1>3, <1>4, <1>5

\* A call that returns, or is cut off, and leaves its row as it is.
LEMMA ReturnKeeps ==
    ASSUME NEW t \in Ticks, Inv, Return(t), UNCHANGED <<records, config, chain>>,
           faults' \in [api : 0 .. MaxApiFaults, db : 0 .. MaxDbFaults,
                        crash : 0 .. MaxCrashes],
           faults.db > 0 => faults'.db > 0
    PROVE  Inv'
<1> USE JobsAreDistinct DEF records, chain, Inv
<1>1. TypeOK'
    BY ReturnTypes DEF TypeOK
<1> USE DEF Return, Goto
<1>2. Claimed'
    BY DEF Claimed, TypeOK, Ticks
<1>3. \A s \in Senders : SenderKnows(s)'
    BY DEF SenderKnows, SenderPcs, TypeOK, Ticks
<1>4. ASSUME NEW v \in Verifiers PROVE VerifierKnows(v)'
  <2>1. CASE v = t
    BY <2>1 DEF VerifierKnows, TypeOK
  <2>2. CASE v # t
    BY <2>2, VerifierStillKnows DEF TypeOK, Ticks
  <2> QED BY <2>1, <2>2
<1>5. \A u \in Txns : Accounted(u)'
    BY DEF Accounted, SentOnce, Landed, TypeOK, Ticks
<1> QED BY <1>1, <1>2, <1>3, <1>4, <1>5

\* A sender that took a PENDING record found the row ACTIVE, so it was not sent.
LEMMA ListPendingKeeps ==
    ASSUME NEW s \in Senders, Inv, ListPending(s)
    PROVE  Inv'
<1> USE JobsAreDistinct DEF Inv
<1>1. CASE Return(s)
    BY <1>1, ReturnKeeps DEF ListPending, TakeFirst, TypeOK, Ticks
<1>2. CASE ~ Return(s)
  <2>1. PICK w \in WithStatus("PENDING") :
            txn' = [txn EXCEPT ![s] = w] /\ Goto(s, "claim") /\ UNCHANGED <<txnRef, todo>>
    BY <1>2 DEF ListPending, TakeFirst
  <2>2. pc[s] = "list" /\ UNCHANGED <<records, config, chain, faults>>
    BY DEF ListPending, TakeFirst
  <2> USE <2>1, <2>2 DEF Goto, records, chain, WithStatus, Txns
  <2>3. TypeOK'
    <3>1. txn' \in [Ticks -> 0 .. LastTxn]
      BY LastTxnIsNat DEF TypeOK, Ticks
    <3> QED BY <3>1, GotoTypes DEF TypeOK, SenderPcs, Ticks
  <2>4. Claimed'
    BY DEF Claimed, TypeOK, Ticks
  <2>5. \A r \in Senders : SenderKnows(r)'
    <3>1. config["withdraw"] = "ACTIVE"
      BY DEF Claimed
    <3>2. w \in Txns /\ status[w] = "PENDING"
      OBVIOUS
    <3>3. Untouched => ~ (sent[w] > 0)
      BY <3>1, <3>2 DEF Accounted, SentOnce
    <3>4. Untouched => sent[w] = 0
      BY <3>2, <3>3 DEF TypeOK
    <3> QED BY <3>2, <3>4 DEF SenderKnows, SenderPcs, TypeOK, Ticks, Claimed
  <2>6. \A v \in Verifiers : VerifierKnows(v)'
    BY VerifierStillKnows DEF TypeOK, Ticks
  <2>7. \A u \in Txns : Accounted(u)'
    BY DEF Accounted, SentOnce, Landed, TypeOK, Ticks
  <2> QED BY <2>3, <2>4, <2>5, <2>6, <2>7
<1> QED BY <1>1, <1>2

\* The record a sender hands over is PENDING and was not sent, and it is alone.
LEMMA SendKeeps ==
    ASSUME NEW s \in Senders, Inv, Send(s)
    PROVE  Inv'
<1> USE JobsAreDistinct DEF Send, HandOver, TokensSent, Goto, records, chain, Inv
<1>1. /\ txn[s] \in Txns
      /\ status[txn[s]] = "PENDING"
      /\ Untouched => sent[txn[s]] = 0
    BY DEF SenderKnows, SenderPcs
<1>2. TypeOK'
    BY <1>1, HandOverTypes, GotoTypes DEF TypeOK, SenderPcs, Ticks
<1>3. Claimed'
    BY DEF Claimed, TypeOK, Ticks
<1>4. ASSUME NEW r \in Senders PROVE SenderKnows(r)'
  <2>1. CASE r = s
    BY <1>1, <2>1 DEF SenderKnows, SenderPcs, TypeOK, Ticks
  <2>2. CASE r # s
    BY <2>2, SenderIsAlone DEF SenderKnows, SenderPcs
  <2> QED BY <2>1, <2>2
<1>5. \A v \in Verifiers : VerifierKnows(v)'
    BY VerifierStillKnows DEF TypeOK, Ticks
<1>6. \A u \in Txns : Accounted(u)'
    BY <1>1 DEF Accounted, SentOnce, Landed, TypeOK, Ticks, Claimed
<1> QED BY <1>2, <1>3, <1>4, <1>5, <1>6

\* The same when the call throws, before or after the transfer was handed over.
LEMMA SendThrowsKeeps ==
    ASSUME NEW s \in Senders, Inv, SendThrows(s)
    PROVE  Inv'
<1> USE JobsAreDistinct DEF SendThrows, records, chain, local, Inv
<1>1. /\ txn[s] \in Txns
      /\ status[txn[s]] = "PENDING"
      /\ Untouched => sent[txn[s]] = 0
    BY DEF SenderKnows, SenderPcs
<1>2. TypeOK'
  <2>1. CASE HandOver(txn[s])
    BY <1>1, <2>1, FaultTypes, HandOverTypes, GotoTypes DEF HandOver, TypeOK, SenderPcs, Ticks
  <2>2. CASE UNCHANGED chain
    BY <2>2, FaultTypes, GotoTypes DEF TypeOK, SenderPcs, Ticks
  <2> QED BY <2>1, <2>2
<1> USE DEF Goto, HandOver
<1>3. Claimed'
    BY DEF Claimed, TypeOK, Ticks
<1>4. ASSUME NEW r \in Senders PROVE SenderKnows(r)'
  <2>1. CASE r = s
    BY <1>1, <2>1 DEF SenderKnows, SenderPcs, TypeOK, Ticks
  <2>2. CASE r # s
    BY <2>2, SenderIsAlone DEF SenderKnows, SenderPcs
  <2> QED BY <2>1, <2>2
<1>5. \A v \in Verifiers : VerifierKnows(v)'
    BY VerifierStillKnows DEF TypeOK, Ticks
<1>6. ASSUME NEW u \in Txns PROVE Accounted(u)'
  <2>1. CASE u = txn[s]
    BY <1>1, <2>1, SenderIsAlone DEF Accounted, SentOnce, Landed, TypeOK, Ticks, Claimed
  <2>2. CASE u # txn[s]
    BY <2>2 DEF Accounted, SentOnce, Landed, TypeOK, Ticks
  <2> QED BY <2>1, <2>2
<1> QED BY <1>2, <1>3, <1>4, <1>5, <1>6

\* The record of what was sent is found by its refId afterwards.
LEMMA MarkProcessingKeeps ==
    ASSUME NEW s \in Senders, Inv, MarkProcessing(s)
    PROVE  Inv'
<1> USE JobsAreDistinct DEF MarkProcessing, WriteRecord, Goto, chain, local, Inv
<1>1. txn[s] \in Txns /\ sent[txn[s]] > 0 /\ status[txn[s]] = "PENDING" /\ txnRef[s]
    BY DEF SenderKnows, SenderPcs
<1>2. TypeOK'
    BY <1>1, GotoTypes DEF TypeOK, SenderPcs, Ticks
<1>3. Claimed'
    BY DEF Claimed, TypeOK, Ticks
<1>4. ASSUME NEW r \in Senders PROVE SenderKnows(r)'
  <2>1. CASE r = s
    BY <1>1, <2>1 DEF SenderKnows, SenderPcs, TypeOK, Ticks
  <2>2. CASE r # s
    BY <2>2, SenderIsAlone DEF SenderKnows, SenderPcs
  <2> QED BY <2>1, <2>2
<1>5. \A v \in Verifiers : VerifierKnows(v)'
    BY <1>1, VerifierStillKnows DEF TypeOK, Ticks
<1>6. \A u \in Txns : Accounted(u)'
    BY <1>1 DEF Accounted, SentOnce, Landed, TypeOK, Ticks, Claimed
<1> QED BY <1>2, <1>3, <1>4, <1>5, <1>6

\* The record may be SUCCESS by then only if a write was lost.
LEMMA MarkFailedKeeps ==
    ASSUME NEW s \in Senders, Inv, MarkFailed(s)
    PROVE  Inv'
<1> USE JobsAreDistinct DEF MarkFailed, WriteRecord, Goto, chain, local, Inv
<1>1. txn[s] \in Txns /\ (status[txn[s]] = "PENDING" \/ faults.db > 0)
    BY DEF SenderKnows, SenderPcs
<1>2. TypeOK'
    BY <1>1, GotoTypes DEF TypeOK, SenderPcs, Ticks
<1>3. Claimed'
    BY DEF Claimed, TypeOK, Ticks
<1>4. ASSUME NEW r \in Senders PROVE SenderKnows(r)'
  <2>1. CASE r = s
    BY <1>1, <2>1 DEF SenderKnows, SenderPcs, TypeOK, Ticks
  <2>2. CASE r # s
    BY <2>2, SenderIsAlone DEF SenderKnows, SenderPcs
  <2> QED BY <2>1, <2>2
<1>5. \A v \in Verifiers : VerifierKnows(v)'
    BY <1>1, VerifierStillKnows DEF TypeOK, Ticks
<1>6. \A u \in Txns : Accounted(u)'
    BY <1>1 DEF Accounted, SentOnce, Landed, TypeOK, Ticks, Claimed
<1> QED BY <1>2, <1>3, <1>4, <1>5, <1>6

-------------------------------------------------------------------------------
\* A verifier that moves on, with its row, the records and the chain as they are.
LEMMA VerifierMoves ==
    ASSUME NEW v \in Verifiers, Inv, UNCHANGED <<records, chain, txnRef>>,
           config'["withdraw"] = config["withdraw"],
           \A t \in Ticks \ {v} : pc'[t] = pc[t] /\ txn'[t] = txn[t],
           \A u \in Verifiers \ {v} : todo'[u] = todo[u],
           faults.db > 0 => faults'.db > 0,
           TypeOK', VerifierKnows(v)'
    PROVE  Inv'
<1> USE DEF records, chain, Inv
<1> \A s \in Senders : pc'[s] = pc[s] /\ txn'[s] = txn[s]
    BY JobsAreDistinct DEF Ticks
<1>1. Claimed'
    BY DEF Claimed
<1>2. \A s \in Senders : SenderKnows(s)'
    BY SenderStillKnows
<1>3. \A u \in Verifiers : VerifierKnows(u)'
    BY VerifierStillKnows DEF Ticks
<1>4. \A w \in Txns : Accounted(w)'
    BY DEF Accounted, SentOnce, Landed
<1> QED BY <1>1, <1>2, <1>3, <1>4

\* There is something to verify, or not.
LEMMA ListProcessingKeeps ==
    ASSUME NEW v \in Verifiers, Inv, ListProcessing(v)
    PROVE  Inv'
<1> USE JobsAreDistinct DEF Inv
<1>1. CASE Return(v)
    BY <1>1, ReturnKeeps DEF ListProcessing, TypeOK, Ticks
<1>2. CASE Goto(v, "claim") /\ UNCHANGED local
  <2> USE <1>2 DEF ListProcessing, records, chain, local
  <2>1. TypeOK'
    BY GotoTypes DEF TypeOK, VerifierPcs, Ticks
  <2>2. VerifierKnows(v)'
    BY DEF VerifierKnows, Landed, Goto, TypeOK, Ticks
  <2>3. \A t \in Ticks \ {v} : pc'[t] = pc[t] /\ txn'[t] = txn[t]
    BY DEF Goto, TypeOK
  <2> QED BY <2>1, <2>2, <2>3, VerifierMoves
<1> QED BY <1>1, <1>2 DEF ListProcessing

\* A sequence read backwards has the same elements.
LEMMA Backwards ==
    ASSUME NEW S, NEW s \in Seq(S)
    PROVE  LET r == [i \in 1 .. Len(s) |-> s[Len(s) - i + 1]]
           IN  /\ r \in Seq(S)
               /\ \A i \in DOMAIN r : \E j \in DOMAIN s : s[j] = r[i]
<1> DEFINE r == [i \in 1 .. Len(s) |-> s[Len(s) - i + 1]]
<1>1. Len(s) \in Nat /\ DOMAIN s = 1 .. Len(s)
    BY LenProperties
<1>2. \A i \in 1 .. Len(s) : Len(s) - i + 1 \in 1 .. Len(s)
    BY <1>1
<1>3. \A i \in 1 .. Len(s) : s[Len(s) - i + 1] \in S
    BY <1>1, <1>2, ElementOfSeq
<1>4. r \in Seq(S)
    BY <1>1, <1>3
<1>5. \A i \in DOMAIN r : \E j \in DOMAIN s : s[j] = r[i]
    BY <1>1, <1>2
<1> QED BY <1>4, <1>5

\* The events a verifier gets are of transfers that landed.
LEMMA FetchKeeps ==
    ASSUME NEW v \in Verifiers, Inv, Fetch(v)
    PROVE  Inv'
<1> USE JobsAreDistinct DEF Inv, Fetch, records, chain
<1>1. todo'[v] = [i \in 1 .. Len(landed) |-> landed[Len(landed) - i + 1]]
    BY DEF TypeOK
<1>2. landed \in Seq(Txns)
    BY DEF TypeOK
<1>3. /\ todo'[v] \in Seq(Txns)
      /\ \A i \in DOMAIN todo'[v] : \E j \in DOMAIN landed : landed[j] = todo'[v][i]
  <2> HIDE DEF Inv, Fetch
  <2> QED BY <1>1, <1>2, Backwards
<1>4. TypeOK'
    BY <1>3, GotoTypes DEF TypeOK, VerifierPcs, Ticks
<1>5. VerifierKnows(v)'
  <2>1. \A i \in DOMAIN todo'[v] : Landed(todo'[v][i])
    BY <1>3 DEF Landed
  <2>2. pc'[v] = "lookup"
    BY DEF Goto, TypeOK, Ticks
  <2> QED BY <2>1, <2>2 DEF VerifierKnows, Landed
<1>6. /\ \A t \in Ticks \ {v} : pc'[t] = pc[t] /\ txn'[t] = txn[t]
      /\ \A u \in Verifiers \ {v} : todo'[u] = todo[u]
    BY DEF Goto, TypeOK
<1> QED BY <1>4, <1>5, <1>6, VerifierMoves

\* A verifier whose call of the chain's API failed is on its way out.
LEMMA FetchThrowsKeeps ==
    ASSUME NEW v \in Verifiers, Inv, FetchThrows(v)
    PROVE  Inv'
<1> USE JobsAreDistinct DEF Inv, FetchThrows, records, chain, local
<1>1. TypeOK'
    BY FaultTypes, GotoTypes DEF TypeOK, VerifierPcs, Ticks
<1>2. VerifierKnows(v)'
    BY DEF VerifierKnows, Landed, Goto, TypeOK, Ticks
<1>3. /\ \A t \in Ticks \ {v} : pc'[t] = pc[t] /\ txn'[t] = txn[t]
      /\ faults.db > 0 => faults'.db > 0
    BY FaultTypes DEF Goto, TypeOK
<1> QED BY <1>1, <1>2, <1>3, VerifierMoves

\* The record found by a comment is one whose transfer landed.
LEMMA LookupKeeps ==
    ASSUME NEW v \in Verifiers, Inv, Lookup(v)
    PROVE  Inv'
<1> USE JobsAreDistinct DEF Inv, Lookup, records, chain, local
<1>1. CASE todo[v] = <<>>
  <2>1. TypeOK'
    BY <1>1, GotoTypes DEF TypeOK, VerifierPcs, Ticks
  <2>2. VerifierKnows(v)'
    BY <1>1 DEF VerifierKnows, Landed, Goto, TypeOK, Ticks
  <2>3. \A t \in Ticks \ {v} : pc'[t] = pc[t] /\ txn'[t] = txn[t]
    BY <1>1 DEF Goto, TypeOK
  <2> QED BY <1>1, <2>1, <2>2, <2>3, VerifierMoves
<1>2. CASE todo[v] # <<>>
  <2> DEFINE w == Head(todo[v])
  <2>1. /\ w \in Txns
        /\ Landed(w)
        /\ Tail(todo[v]) \in Seq(Txns)
        /\ \A i \in DOMAIN Tail(todo[v]) : Landed(Tail(todo[v])[i])
    <3>1. todo[v] \in Seq(Txns) /\ \A i \in DOMAIN todo[v] : Landed(todo[v][i])
      BY DEF TypeOK, VerifierKnows
    <3> QED BY <1>2, <3>1, HeadTailProperties, LenProperties
  <2> HIDE DEF w
  <2>2. todo' = [todo EXCEPT ![v] = Tail(@)] /\ todo'[v] = Tail(todo[v])
    BY <1>2 DEF TypeOK
  <2>3. CASE w \in refId /\ status[w] = "PROCESSING"
    <3>1. txn' = [txn EXCEPT ![v] = w] /\ Goto(v, "markSuccess")
      BY <1>2, <2>3 DEF w
    <3>2. txn' \in [Ticks -> 0 .. LastTxn]
      <4>1. w \in 0 .. LastTxn
        BY <2>1, LastTxnIsNat DEF Txns
      <4> QED BY <3>1, <4>1 DEF TypeOK
    <3>3. TypeOK'
      BY <1>2, <2>1, <2>2, <3>1, <3>2, GotoTypes DEF TypeOK, VerifierPcs, Ticks
    <3>4. VerifierKnows(v)'
      BY <2>1, <2>2, <2>3, <3>1 DEF VerifierKnows, Landed, Goto, TypeOK, Ticks
    <3>5. /\ \A t \in Ticks \ {v} : pc'[t] = pc[t] /\ txn'[t] = txn[t]
          /\ \A u \in Verifiers \ {v} : todo'[u] = todo[u]
      BY <2>2, <3>1 DEF Goto, TypeOK
    <3> QED BY <1>2, <3>3, <3>4, <3>5, VerifierMoves
  <2>4. CASE ~ (w \in refId /\ status[w] = "PROCESSING")
    <3>1. UNCHANGED <<txn, pc>>
      BY <1>2, <2>4 DEF w
    <3>2. TypeOK'
      BY <1>2, <2>1, <2>2, <3>1 DEF TypeOK
    <3>3. VerifierKnows(v)'
      BY <2>1, <2>2, <3>1 DEF VerifierKnows, Landed
    <3> QED BY <1>2, <2>2, <3>1, <3>2, <3>3, VerifierMoves DEF TypeOK
  <2> QED BY <2>3, <2>4
<1> QED BY <1>1, <1>2

\* SUCCESS is written for a transfer that landed, over no record that is PENDING.
LEMMA MarkSuccessKeeps ==
    ASSUME NEW v \in Verifiers, Inv, MarkSuccess(v)
    PROVE  Inv'
<1> USE JobsAreDistinct DEF Inv, MarkSuccess, chain, local
<1>1. /\ txn[v] \in Txns
      /\ Landed(txn[v])
      /\ status[txn[v]] \notin {"none", "PENDING"}
    BY DEF VerifierKnows
<1>2. TypeOK'
    BY <1>1, GotoTypes DEF TypeOK, VerifierPcs, Ticks
<1> USE DEF Goto
<1>3. Claimed'
    BY DEF Claimed, TypeOK, Ticks
<1>4. \A s \in Senders : SenderKnows(s)'
    BY <1>1, SenderStillKnows DEF TypeOK, Ticks
<1>5. ASSUME NEW u \in Verifiers PROVE VerifierKnows(u)'
  <2>1. CASE u = v
    BY <2>1 DEF VerifierKnows, Landed, TypeOK, Ticks
  <2>2. CASE u # v
    BY <2>2, VerifierStillKnows DEF TypeOK, Ticks
  <2> QED BY <2>1, <2>2
<1>6. ASSUME NEW w \in Txns PROVE Accounted(w)'
  <2>1. CASE w = txn[v]
    BY <1>1, <2>1 DEF Accounted, SentOnce, Landed, TypeOK
  <2>2. CASE w # txn[v]
    BY <2>2 DEF Accounted, SentOnce, Landed, TypeOK, Ticks
  <2> QED BY <2>1, <2>2
<1> QED BY <1>2, <1>3, <1>4, <1>5, <1>6

-------------------------------------------------------------------------------
\* A sender whose write was lost is out, or on its way to write FAILED.
LEMMA DbFaultKeeps ==
    ASSUME NEW t \in Ticks, Inv, DbFault(t)
    PROVE  Inv'
<1> USE JobsAreDistinct DEF Inv, DbFault
<1>1. /\ faults' \in [api : 0 .. MaxApiFaults, db : 0 .. MaxDbFaults,
                      crash : 0 .. MaxCrashes]
      /\ faults'.db > 0
  <2>1. faults' = [faults EXCEPT !.db = @ + 1]
        /\ faults \in [api : 0 .. MaxApiFaults, db : 0 .. MaxDbFaults, crash : 0 .. MaxCrashes]
    BY DEF TypeOK
  <2>2. faults'.db > 0
    BY <2>1, BoundsAreNat
  <2> QED BY <2>2, FaultTypes
<1>2. CASE Return(t)
    BY <1>1, <1>2, ReturnKeeps
<1>3. CASE ~ Return(t) /\ t \in Verifiers
  <2> USE <1>3 DEF records, chain, local
  <2>1. Goto(t, "abort")
    BY DEF TypeOK
  <2>2. TypeOK'
    BY <1>1, <2>1, GotoTypes DEF TypeOK, VerifierPcs, Ticks
  <2>3. VerifierKnows(t)'
    BY <2>1 DEF VerifierKnows, Landed, Goto, TypeOK, Ticks
  <2>4. \A u \in Ticks \ {t} : pc'[u] = pc[u] /\ txn'[u] = txn[u]
    BY <2>1 DEF Goto, TypeOK
  <2> QED BY <1>1, <2>2, <2>3, <2>4, VerifierMoves
<1>4. CASE ~ Return(t) /\ t \in Senders
  <2> USE <1>4 DEF records, chain, local
  <2>1. /\ Goto(t, "markFailed")
        /\ pc[t] \in {"markProcessing", "release"}
    BY DEF TypeOK, SenderPcs
  <2>2. TypeOK'
    BY <1>1, <2>1, GotoTypes DEF TypeOK, SenderPcs, Ticks
  <2>3. Claimed'
    BY <2>1 DEF Claimed, Goto, TypeOK, Ticks
  <2>4. ASSUME NEW s \in Senders PROVE SenderKnows(s)'
    <3>1. CASE s = t
      BY <1>1, <2>1, <3>1 DEF SenderKnows, SenderPcs, Goto, TypeOK, Ticks
    <3>2. CASE s # t
      BY <2>1, <3>2, SenderIsAlone DEF SenderKnows, SenderPcs
    <3> QED BY <3>1, <3>2
  <2>5. \A v \in Verifiers : VerifierKnows(v)'
    BY <1>1, <2>1, VerifierStillKnows DEF Goto, TypeOK, Ticks
  <2>6. \A w \in Txns : Accounted(w)'
    BY <2>1 DEF Accounted, SentOnce, Landed, Goto, TypeOK, Ticks
  <2> QED BY <2>2, <2>3, <2>4, <2>5, <2>6
<1> QED BY <1>2, <1>3, <1>4 DEF Ticks

\* After a crash nobody is alive, and what was RUNNING stays so.
LEMMA CrashKeeps ==
    ASSUME Inv, Crash
    PROVE  Inv'
<1> USE DEF Inv, Crash, records, chain
<1>1. TypeOK'
  <2>1. /\ txn' \in [Ticks -> 0 .. LastTxn]
        /\ txnRef' \in [Senders -> BOOLEAN]
        /\ todo' \in [Verifiers -> Seq(Txns)]
    BY LastTxnIsNat
  <2>2. /\ pc' \in [Ticks -> {"idle"} \cup SenderPcs \cup VerifierPcs]
        /\ \A t \in Ticks : pc'[t] = "idle"
    OBVIOUS
  <2> QED BY <2>1, <2>2, FaultTypes DEF TypeOK, Ticks
<1>2. Claimed'
    BY DEF Claimed, Ticks
<1>3. \A s \in Senders : SenderKnows(s)'
    BY DEF SenderKnows, SenderPcs, Ticks
<1>4. \A v \in Verifiers : VerifierKnows(v)'
    BY DEF VerifierKnows, Ticks
<1>5. \A w \in Txns : Accounted(w)'
    BY DEF Accounted, SentOnce, Landed, Ticks
<1> QED BY <1>1, <1>2, <1>3, <1>4, <1>5

\* A row is reset when no call of its job is alive; the row 'withdraw', only if
\* somebody may.
LEMMA OperatorResetKeeps ==
    ASSUME NEW c \in Configs, Inv, OperatorReset(c)
    PROVE  Inv'
<1> USE DEF Inv, OperatorReset, records, chain, local
<1>1. \/ config'["withdraw"] = config["withdraw"]
      \/ ~ Untouched /\ \A s \in Senders : pc[s] = "idle"
    BY JobsAreDistinct DEF Untouched, Stuck, ConfigOf, Ticks, Configs, TypeOK
<1>2. TypeOK'
    BY DEF TypeOK
<1>3. Claimed'
    BY <1>1 DEF Claimed
<1>4. \A s \in Senders : SenderKnows(s)'
    BY DEF SenderKnows
<1>5. \A v \in Verifiers : VerifierKnows(v)'
    BY VerifierStillKnows
<1>6. \A w \in Txns : Accounted(w)'
    BY <1>1 DEF Accounted, SentOnce, Landed
<1> QED BY <1>2, <1>3, <1>4, <1>5, <1>6

-------------------------------------------------------------------------------
\* Inv is inductive.
LEMMA NextKeeps ==
    ASSUME Inv, [Next]_vars
    PROVE  Inv'
<1>1. ASSUME NEW w \in Txns, NewWithdrawal(w) \/ Land(w) PROVE Inv'
    BY <1>1, NewWithdrawalKeeps, LandKeeps
<1>2. ASSUME NEW s \in Senders, SenderStep(s) \/ SendThrows(s) PROVE Inv'
    BY <1>2, ListPendingKeeps, ClaimKeeps, SendKeeps, SendThrowsKeeps,
       MarkProcessingKeeps, MarkFailedKeeps, ReleaseKeeps DEF SenderStep, Ticks
<1>3. ASSUME NEW v \in Verifiers, VerifierStep(v) \/ FetchThrows(v) PROVE Inv'
    BY <1>3, ListProcessingKeeps, ClaimKeeps, FetchKeeps, FetchThrowsKeeps,
       LookupKeeps, MarkSuccessKeeps, ReleaseKeeps DEF VerifierStep, Ticks
<1>4. ASSUME NEW t \in Ticks, DbFault(t) \/ (InTurn(t) /\ ReadConfig(t)) PROVE Inv'
    BY <1>4, DbFaultKeeps, ReadConfigKeeps
<1>5. CASE Crash \/ \E c \in Configs : OperatorReset(c)
    BY <1>5, CrashKeeps, OperatorResetKeeps
<1>6. CASE UNCHANGED vars
    BY <1>6 DEF vars, records, chain, local, Inv, TypeOK, Claimed, SenderKnows,
       VerifierKnows, Accounted, SentOnce, Landed
<1> QED BY <1>1, <1>2, <1>3, <1>4, <1>5, <1>6 DEF Next, Surroundings

\* The two jobs keep Inv.
THEOREM InvHolds == Spec => []Inv
    BY InitInv, NextKeeps, PTL DEF Spec

\* Every variable keeps its type, whatever fails.
THEOREM TypesHold == Spec => []TypeOK
<1>1. Inv => TypeOK
    BY DEF Inv
<1> QED BY <1>1, InvHolds, PTL

\* No withdrawal is handed to the network twice, whatever call fails or is answered
\* too late and wherever the process dies.
THEOREM PaidOnce ==
    ASSUME "withdraw" \notin Resettable PROVE Spec => []PaidAtMostOnce
<1>1. Inv => PaidAtMostOnce
    BY DEF Untouched, Inv, Accounted, SentOnce, PaidAtMostOnce
<1> QED BY <1>1, InvHolds, PTL

\* SUCCESS is written only for a transfer that is on the chain.
THEOREM SuccessIsDelivered == Spec => []SuccessWasDelivered
<1>1. Inv => SuccessWasDelivered
    BY DEF Inv, Accounted, SentOnce, SuccessWasDelivered
<1> QED BY <1>1, InvHolds, PTL

\* A PROCESSING record was sent and has the refId the verification looks for.
THEOREM ProcessingIsVerifiable == Spec => []ProcessingCanBeVerified
<1>1. Inv => ProcessingCanBeVerified
    BY DEF Inv, Accounted, SentOnce, ProcessingCanBeVerified, TypeOK
<1> QED BY <1>1, InvHolds, PTL

-------------------------------------------------------------------------------
\* Who writes a record, and over what: both jobs write it whole, from memory.
LEMMA Writers ==
    ASSUME Inv, Next, NEW w \in Txns, status'[w] # status[w]
    PROVE  /\ UNCHANGED <<sent, landed, faults>>
           /\ \/ /\ status[w] = "none"
                 /\ status' = [status EXCEPT ![w] = "PENDING"]
              \/ /\ status[w] = "PENDING"
                 /\ status' = [status EXCEPT ![w] = "PROCESSING"]
              \/ /\ status[w] # "none"
                 /\ status[w] = "PENDING" \/ faults.db > 0
                 /\ status' = [status EXCEPT ![w] = "FAILED"]
              \/ /\ Landed(w)
                 /\ \/ status[w] \in {"PROCESSING", "SUCCESS"}
                    \/ status[w] = "FAILED" /\ faults.db > 0
                 /\ status' = [status EXCEPT ![w] = "SUCCESS"]
<1> USE DEF Inv, chain
<1>1. ~ UNCHANGED records
    BY DEF records
<1>2. CASE \E u \in Txns : NewWithdrawal(u)
    BY <1>2 DEF NewWithdrawal, TypeOK
<1>3. ASSUME NEW s \in Senders, MarkProcessing(s) \/ MarkFailed(s)
      PROVE  /\ w = txn[s]
             /\ UNCHANGED <<sent, landed, faults>>
             /\ \/ status[w] = "PENDING" /\ status' = [status EXCEPT ![w] = "PROCESSING"]
                \/ /\ status[w] # "none"
                   /\ status[w] = "PENDING" \/ faults.db > 0
                   /\ status' = [status EXCEPT ![w] = "FAILED"]
    BY <1>3 DEF MarkProcessing, MarkFailed, WriteRecord, SenderKnows, TypeOK
<1>4. ASSUME NEW v \in Verifiers, MarkSuccess(v)
      PROVE  /\ w = txn[v]
             /\ UNCHANGED <<sent, landed, faults>>
             /\ Landed(w)
             /\ \/ status[w] \in {"PROCESSING", "SUCCESS"}
                \/ status[w] = "FAILED" /\ faults.db > 0
             /\ status' = [status EXCEPT ![w] = "SUCCESS"]
    BY <1>4 DEF MarkSuccess, VerifierKnows, TypeOK
<1>5. \/ \E u \in Txns : NewWithdrawal(u)
      \/ \E s \in Senders : MarkProcessing(s) \/ MarkFailed(s)
      \/ \E v \in Verifiers : MarkSuccess(v)
    BY <1>1 DEF Next, Surroundings, SenderStep, VerifierStep, Land, ReadConfig, Claim,
       Release, ListPending, TakeFirst, Send, SendThrows, ListProcessing, Fetch,
       FetchThrows, Lookup, DbFault, Crash, OperatorReset
<1> QED BY <1>2, <1>3, <1>4, <1>5

\* The count of lost writes never goes down.
LEMMA FaultsStay ==
    ASSUME Inv, [Next]_vars, faults.db > 0
    PROVE  faults'.db > 0
<1>1. CASE \/ \E s \in Senders : SendThrows(s)
           \/ \E v \in Verifiers : FetchThrows(v)
           \/ \E t \in Ticks : DbFault(t)
           \/ Crash
    BY <1>1, FaultTypes DEF Inv, SendThrows, FetchThrows, DbFault, Crash
<1>2. CASE UNCHANGED faults
    BY <1>2
<1> QED BY <1>1, <1>2 DEF Next, Surroundings, SenderStep, VerifierStep, NewWithdrawal,
       Land, ReadConfig, Claim, Release, ListPending, TakeFirst, Send, MarkProcessing,
       MarkFailed, ListProcessing, Fetch, Lookup, MarkSuccess, OperatorReset, vars

\* A withdrawal keeps its outcome, unless a call of the database has failed.
THEOREM OutcomeStays == Spec => OutcomeIsFinal
<1>1. Inv /\ [Next]_vars =>
        [\A w \in Txns :
            faults'.db = 0 /\ status[w] \in {"SUCCESS", "FAILED"}
                => status'[w] = status[w]]_vars
  <2> SUFFICES ASSUME Inv, Next, NEW w \in Txns, faults'.db = 0,
                      status[w] \in {"SUCCESS", "FAILED"}, status'[w] # status[w]
               PROVE  FALSE
    OBVIOUS
  <2>1. ~ (faults.db > 0)
    BY FaultsStay
  <2> QED BY <2>1, Writers DEF Inv, TypeOK
<1> QED BY <1>1, InvHolds, PTL DEF Spec, OutcomeIsFinal

-------------------------------------------------------------------------------
\* A step that writes no record, hands nothing over and settles nothing is none of
\* Payout, or the mishap of a lost write.
LEMMA NothingSeen ==
    ASSUME Inv, [Next]_vars, UNCHANGED <<status, sent, landed>>
    PROVE  [Promise!Next]_(Promise!vars)
<1>1. UNCHANGED <<[w \in Txns |-> OutcomeOf[status[w]]], sent, {w \in Txns : Landed(w)}>>
    BY DEF Landed
<1>2. CASE UNCHANGED (faults.db > 0)
    BY <1>1, <1>2 DEF Promise!vars
<1>3. CASE faults'.db > 0
    BY <1>1, <1>3, Zenon DEF Promise!Next, Promise!Mishap
<1> QED BY <1>2, <1>3, FaultsStay

\* Writing a record gives its withdrawal the outcome of the value written.
LEMMA OutcomeWritten ==
    ASSUME Inv, NEW w \in Txns,
           NEW value \in {"none", "PENDING", "PROCESSING", "SUCCESS", "FAILED"},
           NEW result, result = OutcomeOf[value],
           status' = [status EXCEPT ![w] = value]
    PROVE  [u \in Txns |-> OutcomeOf[status[u]]]'
              = [[u \in Txns |-> OutcomeOf[status[u]]] EXCEPT ![w] = result]
    BY DEF Inv, TypeOK

\* The mapping, point by point.
LEMMA Outcomes ==
    /\ OutcomeOf["none"] = "none"
    /\ OutcomeOf["PENDING"] = "open"
    /\ OutcomeOf["PROCESSING"] = "open"
    /\ OutcomeOf["SUCCESS"] = "done"
    /\ OutcomeOf["FAILED"] = "failed"
    BY DEF OutcomeOf

\* A write of a record is a step of Payout, or leaves the withdrawal open.
LEMMA WriteRefines ==
    ASSUME Inv, Next, NEW w \in Txns, status'[w] # status[w]
    PROVE  [Promise!Next]_(Promise!vars)
<1>1. UNCHANGED <<sent, {u \in Txns : Landed(u)}, faults.db > 0>>
    BY Writers DEF Landed
<1>2. status[w] \in {"none", "PENDING", "PROCESSING", "SUCCESS", "FAILED"}
    BY DEF Inv, TypeOK
<1> DEFINE outcome == [u \in Txns |-> OutcomeOf[status[u]]]
<1>3. CASE status[w] = "none" /\ status' = [status EXCEPT ![w] = "PENDING"]
  <2>1. outcome[w] = "none"
    BY <1>3, Outcomes
  <2>2. outcome' = [outcome EXCEPT ![w] = "open"]
    BY <1>3, Outcomes, OutcomeWritten
  <2>3. Promise!Ask(w)
    BY <1>1, <2>1, <2>2 DEF Promise!Ask, Promise!Becomes
  <2> QED BY <2>3 DEF Promise!Next
<1>4. CASE status[w] = "PENDING" /\ status' = [status EXCEPT ![w] = "PROCESSING"]
  <2>1. outcome' = outcome
    BY <1>4 DEF OutcomeOf, Inv, TypeOK
  <2> QED BY <1>1, <2>1 DEF Promise!vars
<1>5. CASE /\ status[w] # "none"
           /\ status[w] = "PENDING" \/ faults.db > 0
           /\ status' = [status EXCEPT ![w] = "FAILED"]
  <2>1. outcome[w] = "open" \/ (outcome[w] = "done" /\ faults.db > 0)
                           \/ outcome[w] = "failed"
    BY <1>2, <1>5, Outcomes
  <2>2. outcome' = [outcome EXCEPT ![w] = "failed"]
    BY <1>5, Outcomes, OutcomeWritten
  <2>3. CASE outcome[w] # "failed"
    BY <1>1, <1>5, <2>1, <2>2, <2>3 DEF Promise!Next, Promise!Fail, Promise!Becomes
  <2>4. CASE outcome[w] = "failed"
    BY <1>1, <2>2, <2>4 DEF Promise!vars
  <2> QED BY <2>3, <2>4
<1>6. CASE /\ Landed(w)
           /\ \/ status[w] \in {"PROCESSING", "SUCCESS"}
              \/ status[w] = "FAILED" /\ faults.db > 0
           /\ status' = [status EXCEPT ![w] = "SUCCESS"]
  <2>1. outcome[w] = "open" \/ (outcome[w] = "failed" /\ faults.db > 0)
                           \/ outcome[w] = "done"
    BY <1>2, <1>6, Outcomes
  <2>2. outcome' = [outcome EXCEPT ![w] = "done"]
    BY <1>6, Outcomes, OutcomeWritten
  <2>3. CASE outcome[w] # "done"
    BY <1>1, <1>6, <2>1, <2>2, <2>3 DEF Promise!Next, Promise!Confirm, Promise!Becomes
  <2>4. CASE outcome[w] = "done"
    BY <1>1, <2>2, <2>4 DEF Promise!vars
  <2> QED BY <2>3, <2>4
<1> QED BY <1>3, <1>4, <1>5, <1>6, Writers

\* A transfer is handed over for a withdrawal that is open and was not sent.
LEMMA HandOverRefines ==
    ASSUME Untouched, Inv, NEW s \in Senders, pc[s] = "send", HandOver(txn[s]),
           UNCHANGED <<records, faults.db>>
    PROVE  [Promise!Next]_(Promise!vars)
<1>1. txn[s] \in Txns /\ status[txn[s]] = "PENDING" /\ sent[txn[s]] = 0
    BY DEF Inv, SenderKnows, SenderPcs
<1>2. /\ OutcomeOf[status[txn[s]]] = "open"
      /\ sent' = [sent EXCEPT ![txn[s]] = 1]
    BY <1>1 DEF OutcomeOf, HandOver, Inv, TypeOK
<1>3. UNCHANGED <<[w \in Txns |-> OutcomeOf[status[w]]], {w \in Txns : Landed(w)}, faults.db > 0>>
    BY DEF HandOver, Landed, records
<1>4. Promise!HandOver(txn[s])
    BY <1>1, <1>2, <1>3 DEF Promise!HandOver
<1> QED BY <1>1, <1>4 DEF Promise!Next

\* What settles on the chain was sent.
LEMMA LandRefines ==
    ASSUME Untouched, Inv, NEW w \in Txns, Land(w)
    PROVE  [Promise!Next]_(Promise!vars)
<1>1. CASE landed' = landed
    BY <1>1, NothingSeen DEF Land, records, Next, Surroundings
<1>2. CASE landed' = Append(landed, w)
  <2>1. sent[w] = 1
    BY DEF Land, Inv, Accounted, SentOnce, TypeOK
  <2>2. \A u \in Txns : Landed(u)' <=> Landed(u) \/ u = w
    <3>1. /\ Len(landed') = Len(landed) + 1
          /\ \A i \in 1 .. Len(landed) : landed'[i] = landed[i]
          /\ landed'[Len(landed) + 1] = w
          /\ landed \in Seq(Txns) /\ landed' \in Seq(Txns)
      BY <1>2, AppendProperties DEF Inv, TypeOK
    <3>2. DOMAIN landed' = (DOMAIN landed) \cup {Len(landed) + 1}
      BY <3>1, LenProperties
    <3> QED BY <3>1, <3>2, LenProperties DEF Landed
  <2>3. {u \in Txns : Landed(u)}' = {u \in Txns : Landed(u)} \cup {w}
    BY <2>2
  <2>4. UNCHANGED <<[u \in Txns |-> OutcomeOf[status[u]]], sent, faults.db > 0>>
    BY DEF Land, records
  <2>5. Promise!Deliver(w)
    BY <2>1, <2>3, <2>4 DEF Promise!Deliver
  <2> QED BY <2>5 DEF Promise!Next
<1> QED BY <1>1, <1>2 DEF Land

\* The two jobs do what Payout promises: money is handed over once, while the
\* withdrawal is open, and it is done only when the money has arrived.
THEOREM PayoutIsKept == ASSUME "withdraw" \notin Resettable PROVE Spec => PayoutSpec
<1>1. Init => Promise!Init
  <2> SUFFICES ASSUME Init PROVE Promise!Init
    OBVIOUS
  <2>1. [w \in Txns |-> OutcomeOf[status[w]]] = [w \in Txns |-> "none"]
    BY DEF Init, OutcomeOf
  <2>2. {w \in Txns : Landed(w)} = {}
    BY DEF Init, Landed
  <2>3. (faults.db > 0) = FALSE
    BY DEF Init
  <2> QED BY <2>1, <2>2, <2>3 DEF Promise!Init, Init
<1>2. Inv /\ [Next]_vars => [Promise!Next]_(Promise!vars)
  <2> SUFFICES ASSUME Inv, [Next]_vars PROVE [Promise!Next]_(Promise!vars)
    OBVIOUS
  <2> Untouched
    BY DEF Untouched
  <2>1. CASE UNCHANGED <<status, sent, landed>>
    BY <2>1, NothingSeen
  <2>2. CASE status' # status
    <3>1. Next /\ \E w \in Txns : status'[w] # status[w]
      BY <2>2, NextKeeps DEF vars, records, Inv, TypeOK
    <3> QED BY <3>1, WriteRefines
  <2>3. CASE \E s \in Senders : Send(s) \/ SendThrows(s)
    <3>1. PICK s \in Senders : Send(s) \/ SendThrows(s)
      BY <2>3
    <3>2. pc[s] = "send" /\ UNCHANGED <<records, faults.db>>
      BY <3>1 DEF Send, SendThrows, Inv, TypeOK
    <3>3. HandOver(txn[s]) \/ UNCHANGED chain
      BY <3>1 DEF Send, SendThrows
    <3> QED BY <2>1, <3>2, <3>3, HandOverRefines DEF records, chain
  <2>4. CASE \E w \in Txns : Land(w)
    BY <2>4, LandRefines
  <2> QED BY <2>1, <2>2, <2>3, <2>4 DEF Next, Surroundings, SenderStep, VerifierStep,
        NewWithdrawal, ReadConfig, Claim, Release, ListPending, TakeFirst,
        MarkProcessing, MarkFailed, ListProcessing, Fetch, FetchThrows, Lookup,
        MarkSuccess, DbFault, Crash, OperatorReset, WriteRecord, records, chain, vars
<1> QED BY <1>1, <1>2, InvHolds, PTL DEF Spec, PayoutSpec, Promise!Spec
===============================================================================
