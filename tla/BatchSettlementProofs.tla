------------------------- MODULE BatchSettlementProofs -------------------------
(***************************************************************************)
(* The settlement of trades, for every contract, every set of trades, and  *)
(* any number of failures and crashes: no trade leaves the database before *)
(* the chain has answered for it (IInv), none is forgotten or sent again   *)
(* when the table is done with it (Flow), none is settled twice and the    *)
(* contract stays solvent (Chain), no cancel is lost (Cancelling). From    *)
(* these follows the life of a trade that the module TradeLifecycle        *)
(* describes.                                                              *)
(***************************************************************************)
EXTENDS BatchSettlement, ExchangeProofs

Answered == SettledIds \cup RejectedIds

Items(s) == {s[i] : i \in DOMAIN s}

IsQueue(s) == s \in Seq(Items(s))

Shape ==
  /\ {"trades", "pending_cancels"} \subseteq DOMAIN db
  /\ {"stage", "trades", "next", "tx"} \subseteq DOMAIN batch
  /\ matched \in Seq(Trades)
  /\ IsQueue(mempool)

ConfirmedAnswered ==
  \A id \in DOMAIN db.trades : db.trades[id].status = "confirmed" => id \in Answered

\* The batch whose rows are being marked has its answer.
MarkedAnswered ==
  batch.stage \in {"submitted", "confirmed"} => IdsOf(batch.trades) \subseteq Answered

\* The batch that is watched has its answer, or is on its way.
WatchedUnderWay ==
  batch.stage = "watch" =>
    \/ IdsOf(batch.trades) \subseteq Answered
    \/ \E tx \in Items(mempool) :
         tx.kind = "batch" /\ tx.tx = batch.tx /\ tx.trades = batch.trades

IInv ==
  Shape /\ TradesAccounted /\ ConfirmedAnswered /\ MarkedAnswered /\ WatchedUnderWay

-----------------------------------------------------------------------------
(* Lemmas about queues                                                     *)

\* Every sequence is a queue of its own items.
LEMMA SequenceIsQueue ==
  ASSUME NEW S, NEW s \in Seq(S)
  PROVE  IsQueue(s)
<1>1. Len(s) \in Nat /\ s \in [1..Len(s) -> S]
  BY LenProperties
<1>2. s \in [1..Len(s) -> Items(s)]
  BY <1>1 DEF Items
<1> QED
  BY <1>1, <1>2, SeqDef DEF IsQueue

\* What is appended to a queue joins its items.
LEMMA AppendItem ==
  ASSUME NEW s, IsQueue(s), NEW e
  PROVE  IsQueue(Append(s, e)) /\ Items(Append(s, e)) = Items(s) \cup {e}
<1> DEFINE T == Items(s) \cup {e}
<1>1. s \in Seq(T)
  BY DEF IsQueue, Items
<1>2. Append(s, e) \in Seq(T) /\ Len(Append(s, e)) = Len(s) + 1
  BY <1>1
<1>3. \A i \in 1..Len(s) : Append(s, e)[i] = s[i]
  BY <1>1
<1>4. Append(s, e)[Len(s) + 1] = e
  BY <1>1
<1>5. DOMAIN s = 1..Len(s) /\ DOMAIN Append(s, e) = 1..(Len(s) + 1) /\ Len(s) \in Nat
  BY <1>1, <1>2
<1>6. Items(Append(s, e)) = T
  BY <1>3, <1>4, <1>5 DEF Items
<1> QED
  BY <1>2, <1>6 DEF IsQueue

\* The items of a queue are its head and those of the rest.
LEMMA HeadAndTail ==
  ASSUME NEW s, IsQueue(s), s # <<>>
  PROVE  IsQueue(Tail(s)) /\ Items(s) = {Head(s)} \cup Items(Tail(s))
<1>1. s \in Seq(Items(s)) /\ Len(s) \in Nat \ {0} /\ DOMAIN s = 1..Len(s)
  BY DEF IsQueue
<1>2. Tail(s) \in Seq(Items(s)) /\ Len(Tail(s)) = Len(s) - 1 /\ Head(s) = s[1]
  BY <1>1
<1>3. DOMAIN Tail(s) = 1..(Len(s) - 1)
  BY <1>1, <1>2
<1>4. \A i \in 1..(Len(s) - 1) : Tail(s)[i] = s[i + 1]
  BY <1>1
<1>5. Items(s) \subseteq {Head(s)} \cup Items(Tail(s))
  <2> SUFFICES ASSUME NEW i \in 1..Len(s), i # 1
               PROVE  s[i] \in Items(Tail(s))
    BY <1>1, <1>2 DEF Items
  <2>1. i - 1 \in 1..(Len(s) - 1) /\ s[i] = Tail(s)[i - 1]
    BY <1>1, <1>4
  <2> QED
    BY <2>1, <1>3 DEF Items
<1>6. {Head(s)} \cup Items(Tail(s)) \subseteq Items(s)
  BY <1>1, <1>2, <1>3, <1>4 DEF Items
<1>7. IsQueue(Tail(s))
  BY <1>2, SequenceIsQueue
<1> QED
  BY <1>5, <1>6, <1>7

-----------------------------------------------------------------------------
(* Lemmas about answers and rows                                           *)

\* Nothing changes for a step that leaves these alone.
LEMMA UnchangedIInv ==
  ASSUME IInv, UNCHANGED <<matched, db, batch, mempool, settled, rejected>>
  PROVE  IInv'
  BY DEF IInv, Shape, TradesAccounted, ConfirmedAnswered, MarkedAnswered, WatchedUnderWay,
         Answered, SettledIds, RejectedIds, Ids, IdsOf, Items, IsQueue

\* Sending a transaction only adds to what is on its way.
LEMMA SendKeepsIInv ==
  ASSUME IInv, NEW tx, Send(tx), UNCHANGED <<matched, db, batch, settled, rejected>>
  PROVE  IInv'
<1>1. IsQueue(mempool') /\ Items(mempool') = Items(mempool) \cup {tx}
  BY AppendItem DEF IInv, Shape, Send
<1>2. Answered' = Answered
  BY DEF Answered, SettledIds, RejectedIds
<1> QED
  BY <1>1, <1>2 DEF IInv, Shape, TradesAccounted, ConfirmedAnswered, MarkedAnswered,
                    WatchedUnderWay, Answered, SettledIds, RejectedIds, Ids, IdsOf

\* The batch may be given up at any time: what is idle promises nothing.
LEMMA IdleKeepsIInv ==
  ASSUME IInv, batch' = Idle, UNCHANGED <<matched, db, settled, rejected>>,
         IsQueue(mempool')
  PROVE  IInv'
  BY DEF IInv, Shape, TradesAccounted, ConfirmedAnswered, MarkedAnswered, WatchedUnderWay,
         Answered, SettledIds, RejectedIds, Ids, Idle

\* A block answers for the trades of the batch it contains and for no others.
LEMMA MiningAnswers ==
  ASSUME MineBatch
  PROVE  Answered' = Answered \cup IdsOf(Head(mempool).trades)
<1> DEFINE tx == Head(mempool)
<1> HIDE DEF tx
<1>1. {x.id : x \in TaggedWith(tx)} = IdsOf(tx.trades)
  <2>1. \A x \in TaggedWith(tx) : x.id \in IdsOf(tx.trades)
    BY DEF TaggedWith
  <2>2. \A id \in IdsOf(tx.trades) : \E x \in TaggedWith(tx) : x.id = id
    <3> TAKE id \in IdsOf(tx.trades)
    <3>1. [id |-> id, tx |-> tx.tx] \in TaggedWith(tx)
      BY DEF TaggedWith
    <3> QED
      BY <3>1
  <2> QED
    BY <2>1, <2>2
<1>2. CASE settled' = settled \cup TaggedWith(tx) /\ rejected' = rejected
  <2>1. SettledIds' = SettledIds \cup IdsOf(tx.trades) /\ RejectedIds' = RejectedIds
    BY <1>1, <1>2 DEF SettledIds, RejectedIds
  <2> QED
    BY <2>1 DEF Answered, tx
<1>3. CASE rejected' = rejected \cup TaggedWith(tx) /\ settled' = settled
  <2>1. RejectedIds' = RejectedIds \cup IdsOf(tx.trades) /\ SettledIds' = SettledIds
    BY <1>1, <1>3 DEF SettledIds, RejectedIds
  <2> QED
    BY <2>1 DEF Answered, tx
<1> QED
  BY <1>2, <1>3 DEF MineBatch, tx

-----------------------------------------------------------------------------
(* The invariant                                                           *)

\* At the start there is no trade and no batch.
LEMMA InitIInv == Init => IInv
<1> SUFFICES ASSUME Init PROVE IInv
  OBVIOUS
<1>1. IsQueue(mempool) /\ matched \in Seq(Trades)
  BY DEF Init, IsQueue
<1>2. Len(matched) = 0 /\ Ids = {}
  BY DEF Init, Ids
<1>3. DOMAIN db.trades = {}
  BY DEF Init, EmptyTable
<1> QED
  BY <1>1, <1>2, <1>3 DEF Init, IInv, Shape, TradesAccounted, ConfirmedAnswered, MarkedAnswered,
                          WatchedUnderWay, Idle

\* A new trade has a row, which is not confirmed.
LEMMA MatchTradeKeepsIInv ==
  ASSUME IInv, NEW t \in Trades, MatchTrade(t)
  PROVE  IInv'
<1>1. matched' \in Seq(Trades) /\ Ids' = Ids \cup {NextTradeId}
  <2>1. matched' \in Seq(Trades) /\ Len(matched') = Len(matched) + 1 /\ Len(matched) \in Nat
    BY DEF IInv, Shape, MatchTrade
  <2> QED
    BY <2>1 DEF Ids, NextTradeId
<1>2. DOMAIN db' = DOMAIN db /\ DOMAIN db'.trades = DOMAIN db.trades \cup {NextTradeId}
  BY DEF IInv, Shape, MatchTrade
<1>3. \A id \in DOMAIN db'.trades :
        db'.trades[id].status = "confirmed" => id \in DOMAIN db.trades /\ db'.trades[id] = db.trades[id]
  BY DEF IInv, Shape, MatchTrade
<1>4. UNCHANGED <<batch, mempool, settled, rejected>>
  BY DEF MatchTrade, exchange_vars, chain_vars, outcome_vars
<1>5. Answered' = Answered
  BY <1>4 DEF Answered, SettledIds, RejectedIds
<1>6. Shape'
  BY <1>1, <1>2, <1>4 DEF IInv, Shape, IsQueue, Items
<1>7. TradesAccounted'
  BY <1>1, <1>2, <1>4 DEF IInv, TradesAccounted, SettledIds, RejectedIds
<1>8. ConfirmedAnswered'
  BY <1>3, <1>5 DEF IInv, ConfirmedAnswered
<1>9. MarkedAnswered' /\ WatchedUnderWay'
  BY <1>4, <1>5 DEF IInv, MarkedAnswered, WatchedUnderWay, IdsOf, Items
<1> QED
  BY <1>6, <1>7, <1>8, <1>9 DEF IInv

\* Marking a row whose batch has its answer confirms only trades that have one.
LEMMA MarkRowKeepsIInv ==
  ASSUME IInv, MarkRow
  PROVE  IInv'
<1> DEFINE row == batch.trades[batch.next].id
<1>1. row \in Answered
  BY DEF IInv, MarkedAnswered, MarkRow, IdsOf
<1>2. DOMAIN db' = DOMAIN db /\ DOMAIN db'.trades = DOMAIN db.trades
  BY DEF IInv, Shape, MarkRow
<1>3. \A id \in DOMAIN db.trades : id # row => db'.trades[id] = db.trades[id]
  BY DEF IInv, Shape, MarkRow
<1>4. DOMAIN batch' = DOMAIN batch /\ batch'.stage = batch.stage /\ batch'.trades = batch.trades
  BY DEF IInv, Shape, MarkRow
<1>5. UNCHANGED <<matched, mempool, settled, rejected>>
  BY DEF MarkRow, chain_vars, history_vars, outcome_vars
<1>6. Answered' = Answered /\ batch.stage # "watch"
  BY <1>5 DEF Answered, SettledIds, RejectedIds, MarkRow
<1> HIDE DEF row
<1> QED
  BY <1>1, <1>2, <1>3, <1>4, <1>5, <1>6
     DEF IInv, Shape, TradesAccounted, ConfirmedAnswered, MarkedAnswered, WatchedUnderWay,
         IsQueue, Items, IdsOf, Ids, Answered

\* The rows that are deleted are those of trades with an answer.
LEMMA DeleteKeepsIInv ==
  ASSUME IInv, DeleteConfirmed
  PROVE  IInv'
<1>1. DOMAIN db' = DOMAIN db /\ DOMAIN db'.trades = DOMAIN db.trades \ ConfirmedRows
  BY DEF IInv, Shape, DeleteConfirmed
<1>2. \A id \in DOMAIN db'.trades : db'.trades[id] = db.trades[id]
  BY DEF IInv, Shape, DeleteConfirmed
<1>3. UNCHANGED <<matched, mempool, settled, rejected>> /\ batch' = Idle
  BY DEF DeleteConfirmed, chain_vars, history_vars, outcome_vars
<1>4. ConfirmedRows \subseteq Answered /\ Answered' = Answered
  BY <1>3 DEF IInv, ConfirmedAnswered, ConfirmedRows, Answered, SettledIds, RejectedIds
<1> QED
  BY <1>1, <1>2, <1>3, <1>4
     DEF IInv, Shape, TradesAccounted, ConfirmedAnswered, MarkedAnswered, WatchedUnderWay,
         IsQueue, Items, Ids, Answered, Idle

\* What is not on its way any more was answered for.
LEMMA WatchReturnsKeepsIInv ==
  ASSUME IInv, WatchReturns
  PROVE  IInv'
<1>1. \A tx \in Items(mempool) : tx.tx # batch.tx
  BY DEF WatchReturns, Mined, InMempool, Items
<1>2. IdsOf(batch.trades) \subseteq Answered
  BY <1>1 DEF IInv, WatchedUnderWay, WatchReturns
<1>3. DOMAIN batch' = DOMAIN batch /\ batch'.stage = "submitted" /\ batch'.trades = batch.trades
  BY DEF IInv, Shape, WatchReturns
<1>4. UNCHANGED <<matched, db, mempool, settled, rejected>>
  BY DEF WatchReturns, chain_vars, history_vars, outcome_vars
<1> QED
  BY <1>2, <1>3, <1>4
     DEF IInv, Shape, TradesAccounted, ConfirmedAnswered, MarkedAnswered, WatchedUnderWay,
         IsQueue, Items, IdsOf, Ids, Answered, SettledIds, RejectedIds

\* A batch that is sent is on its way.
LEMMA SubmitBatchKeepsIInv ==
  ASSUME IInv, SubmitBatch
  PROVE  IInv'
<1>1. IsQueue(mempool') /\ Items(mempool') = Items(mempool) \cup {BatchTx}
  BY AppendItem DEF IInv, Shape, SubmitBatch, Send
<1>2. /\ DOMAIN batch' = DOMAIN batch /\ batch'.stage = "watch"
      /\ batch'.trades = batch.trades /\ batch'.tx = sent + 1
  BY DEF IInv, Shape, SubmitBatch
<1>3. BatchTx.kind = "batch" /\ BatchTx.tx = batch'.tx /\ BatchTx.trades = batch'.trades
  BY <1>2 DEF BatchTx
<1>4. UNCHANGED <<matched, db, settled, rejected>>
  BY DEF SubmitBatch, history_vars, outcome_vars
<1>5. WatchedUnderWay'
  BY <1>1, <1>3 DEF WatchedUnderWay
<1> QED
  BY <1>1, <1>2, <1>4, <1>5
     DEF IInv, Shape, TradesAccounted, ConfirmedAnswered, MarkedAnswered,
         IdsOf, Ids, Answered, SettledIds, RejectedIds

\* When a transaction is mined, it is the batch that was watched, or that one is
\* still in the queue.
LEMMA MineBatchKeepsIInv ==
  ASSUME IInv, MineBatch
  PROVE  IInv'
<1>1. /\ IsQueue(mempool') /\ Items(mempool) = {Head(mempool)} \cup Items(mempool')
  BY HeadAndTail DEF IInv, Shape, MineBatch
<1>2. Answered' = Answered \cup IdsOf(Head(mempool).trades)
  BY MiningAnswers
<1>3. UNCHANGED <<matched, db, batch>>
  BY DEF MineBatch, loop_vars, history_vars
<1>4. WatchedUnderWay'
  BY <1>1, <1>2, <1>3 DEF IInv, WatchedUnderWay, IdsOf
<1> QED
  BY <1>1, <1>2, <1>3, <1>4
     DEF IInv, Shape, TradesAccounted, ConfirmedAnswered, MarkedAnswered, IdsOf, Ids, Answered

\* A cancel is not the batch that is watched.
LEMMA MineCancelKeepsIInv ==
  ASSUME IInv, MineCancel
  PROVE  IInv'
<1>1. IsQueue(mempool') /\ Items(mempool) = {Head(mempool)} \cup Items(mempool')
  BY HeadAndTail DEF IInv, Shape, MineCancel
<1>2. Head(mempool).kind # "batch"
  BY DEF MineCancel
<1>3. UNCHANGED <<matched, db, batch, settled, rejected>>
  BY DEF MineCancel, loop_vars, history_vars, outcome_vars
<1>4. Answered' = Answered /\ Ids' = Ids
  BY <1>3 DEF Answered, SettledIds, RejectedIds, Ids
<1>5. WatchedUnderWay'
  BY <1>1, <1>2, <1>3, <1>4 DEF IInv, WatchedUnderWay, IdsOf
<1> QED
  BY <1>1, <1>3, <1>4, <1>5
     DEF IInv, Shape, TradesAccounted, ConfirmedAnswered, MarkedAnswered, Answered, IdsOf

\* Where rows and trades are left alone, so is the invariant.
LEMMA OtherTablesKeepIInv ==
  ASSUME IInv, UNCHANGED <<matched, batch, mempool, settled, rejected>>,
         DOMAIN db' = DOMAIN db, db'.trades = db.trades
  PROVE  IInv'
  BY DEF IInv, Shape, TradesAccounted, ConfirmedAnswered, MarkedAnswered, WatchedUnderWay,
         Answered, SettledIds, RejectedIds, Ids, IdsOf, Items, IsQueue

\* Taking the waiting trades promises nothing yet; nor does going on to the
\* second round of marking.
LEMMA StageKeepsIInv ==
  ASSUME IInv, UNCHANGED <<matched, db, mempool, settled, rejected>>,
         {"stage", "trades", "next", "tx"} \subseteq DOMAIN batch',
         \/ batch'.stage = "submit"
         \/ /\ batch'.stage = "confirmed" /\ batch'.trades = batch.trades
            /\ batch.stage = "submitted"
  PROVE  IInv'
<1>1. Answered' = Answered /\ Ids' = Ids
  BY DEF Answered, SettledIds, RejectedIds, Ids
<1>2. MarkedAnswered' /\ WatchedUnderWay'
  BY <1>1 DEF IInv, MarkedAnswered, WatchedUnderWay, IdsOf
<1> QED
  BY <1>1, <1>2 DEF IInv, Shape, TradesAccounted, ConfirmedAnswered, Answered, Ids,
                    SettledIds, RejectedIds, Items, IsQueue

\* A batch that fails is forgotten, even when its transaction was sent.
LEMMA SubmitFailsKeepsIInv ==
  ASSUME IInv, SubmitFails
  PROVE  IInv'
<1>1. batch' = Idle /\ UNCHANGED <<matched, db, settled, rejected>>
  BY DEF SubmitFails, GiveUpBatch, history_vars, outcome_vars
<1>2. CASE UNCHANGED chain_vars
  <2>1. IsQueue(mempool')
    BY <1>2 DEF IInv, Shape, chain_vars, IsQueue, Items
  <2> QED
    BY <1>1, <2>1, IdleKeepsIInv
<1>3. CASE Send(BatchTx)
  <2>1. IsQueue(mempool')
    BY <1>3, AppendItem DEF IInv, Shape, Send
  <2> QED
    BY <1>1, <2>1, IdleKeepsIInv
<1> QED
  BY <1>2, <1>3 DEF SubmitFails

\* Giving up, and a crash, lose the batch and neither its row nor its transaction.
LEMMA GiveUpKeepsIInv ==
  ASSUME IInv, batch' = Idle, UNCHANGED <<matched, db, settled, rejected, mempool>>
  PROVE  IInv'
<1>1. IsQueue(mempool')
  BY DEF IInv, Shape, IsQueue, Items
<1> QED
  BY <1>1, IdleKeepsIInv

\* Every step keeps the invariant.
LEMMA NextIInv == IInv /\ [Next]_vars => IInv'
<1> SUFFICES ASSUME IInv, [Next]_vars PROVE IInv'
  OBVIOUS
<1> USE DEF vars, loop_vars, chain_vars, history_vars, outcome_vars
<1>1. CASE UNCHANGED vars
  BY <1>1, UnchangedIInv
<1>2. ASSUME NEW t \in Trades, MatchTrade(t) PROVE IInv'
  BY <1>2, MatchTradeKeepsIInv
<1>3. ASSUME NEW order \in Cancels, CancelOrder(order) PROVE IInv'
  BY <1>3, OtherTablesKeepIInv DEF CancelOrder, IInv, Shape
<1>4. CASE DrainBatch
  BY <1>4, StageKeepsIInv DEF DrainBatch, Idle
<1>5. CASE SubmitBatch
  BY <1>5, SubmitBatchKeepsIInv
<1>6. CASE EstimateFails
  BY <1>6, GiveUpKeepsIInv DEF EstimateFails, GiveUpBatch
<1>7. CASE SubmitFails
  BY <1>7, SubmitFailsKeepsIInv
<1>8. CASE WatchReturns
  BY <1>8, WatchReturnsKeepsIInv
<1>9. CASE MarkRow
  BY <1>9, MarkRowKeepsIInv
<1>10. CASE ConfirmTrades
  BY <1>10, StageKeepsIInv DEF ConfirmTrades, IInv, Shape
<1>11. CASE DeleteConfirmed
  BY <1>11, DeleteKeepsIInv
<1>12. CASE MarkFails
  BY <1>12, GiveUpKeepsIInv DEF MarkFails, GiveUpBatch
<1>13. ASSUME NEW key \in retry.left, RetryCancel(key) PROVE IInv'
  BY <1>13, SendKeepsIInv DEF RetryCancel
<1>14. CASE CancelWatched
  BY <1>14, OtherTablesKeepIInv DEF CancelWatched, IInv, Shape
<1>15. CASE RetryFails
  BY <1>15, UnchangedIInv DEF RetryFails, AfterFailedCancel
<1>16. CASE MineBatch
  BY <1>16, MineBatchKeepsIInv
<1>17. CASE MineCancel
  BY <1>17, MineCancelKeepsIInv
<1>18. CASE ExchangeStep
  BY <1>18, UnchangedIInv DEF ExchangeStep
<1>19. CASE Restart
  BY <1>19, GiveUpKeepsIInv DEF Restart
<1> QED
  BY <1>1, <1>2, <1>3, <1>4, <1>5, <1>6, <1>7, <1>8, <1>9, <1>10, <1>11, <1>12, <1>13,
     <1>14, <1>15, <1>16, <1>17, <1>18, <1>19 DEF Next, BatchLoop

-----------------------------------------------------------------------------
(* Theorems                                                                *)

\* The invariant holds in every state, whatever fails and however often the
\* process is restarted.
THEOREM SettlementInvariant == Spec => []IInv
<1>1. Init => IInv
  BY InitIInv
<1>2. IInv /\ [Next]_vars => IInv'
  BY NextIInv
<1> QED
  BY <1>1, <1>2, PTL DEF Spec

\* The batch loop deletes no row of a trade the chain has not answered for: every
\* trade ever found is in the table, settled, or was sent in a batch that reverted.
THEOREM TradesStayAccounted == Spec => []TradesAccounted
<1>1. IInv => TradesAccounted
  BY DEF IInv
<1> QED
  BY <1>1, SettlementInvariant, PTL

\* A row is confirmed only when its trade was settled, or sent in a batch that
\* reverted: watching a transaction never returns before it is in a block.
THEOREM ConfirmedOnlyWhenAnswered == Spec => []ConfirmedAnswered
<1>1. IInv => ConfirmedAnswered
  BY DEF IInv
<1> QED
  BY <1>1, SettlementInvariant, PTL

-----------------------------------------------------------------------------
(* Where the trades are: rows, memory, the batch, transactions.            *)

Stages == {"idle", "submit", "watch", "submitted", "confirmed"}

TaggedOf(m) == {[id |-> id, trade |-> m[id]] : id \in 1..Len(m)}

\* A queue of trades, each with the id it was stored under.
Carries(s, m) == IsQueue(s) /\ Items(s) \subseteq TaggedOf(m)

RowsTyped(m, rows) ==
  /\ DOMAIN rows \subseteq 1..Len(m)
  /\ \A id \in DOMAIN rows :
       /\ rows[id] = [trade |-> m[id], status |-> rows[id].status]
       /\ rows[id].status \in Statuses

Batches(pool) == {tx \in Items(pool) : tx.kind = "batch"}

InFlight(m, pending, b, pool) ==
  /\ Carries(pending, m) /\ Carries(b.trades, m)
  /\ \A tx \in Batches(pool) : Carries(tx.trades, m)

LoopTyped(b) ==
  /\ b = [stage |-> b.stage, trades |-> b.trades, next |-> b.next, tx |-> b.tx]
  /\ b.stage \in Stages /\ b.next \in 1..(Len(b.trades) + 1)
  /\ b.stage = "idle" => b.trades = <<>>

\* Transactions are mined in the order they were sent.
Numbered(pool, n) ==
  /\ n \in Nat /\ Len(pool) <= n
  /\ \A i \in DOMAIN pool : pool[i].tx = n - Len(pool) + i

\* No trade is found twice.
Once(m) == \A i, j \in 1..Len(m) : i # j => m[i] # m[j]

\* A row that is not confirmed is on its way, or its batch was seen to fail.
Accounted(rows, pending, b, given_up) ==
  \A id \in DOMAIN rows :
    rows[id].status # "confirmed" => id \in IdsOf(pending) \cup IdsOf(b.trades) \cup given_up

\* Trades that the table is done with: confirmed, or deleted.
Done(m, rows) == {id \in 1..Len(m) : id \in DOMAIN rows => rows[id].status = "confirmed"}

Undone(s, m, rows) == IdsOf(s) \cap Done(m, rows) = {}

\* They are never sent again, nor is one of them in a transaction on its way.
DoneForGood(m, rows, pending, b, pool) ==
  /\ Undone(pending, m, rows)
  /\ b.stage \in {"submit", "watch"} => Undone(b.trades, m, rows)
  /\ \A tx \in Batches(pool) : Undone(tx.trades, m, rows)

\* The trades of the batch have rows and do not wait for another batch.
BatchAlone(rows, pending, b) ==
  IdsOf(b.trades) \subseteq DOMAIN rows /\ IdsOf(b.trades) \cap IdsOf(pending) = {}

\* The batch that is watched was sent after every other batch on its way; when
\* it is in a block none is left.
SentLast(b, pool, n) ==
  /\ b.stage = "watch" => b.tx \in 1..n /\ \A tx \in Batches(pool) : tx.tx <= b.tx
  /\ b.stage \in {"submitted", "confirmed"} => Batches(pool) = {}

ConfirmedPrefix(b, rows) ==
  b.stage = "confirmed" =>
    \A i \in DOMAIN b.trades : i < b.next => rows[b.trades[i].id].status = "confirmed"

Flow ==
  /\ RowsTyped(matched, db.trades)
  /\ InFlight(matched, pending_trades, batch, mempool)
  /\ LoopTyped(batch)
  /\ Numbered(mempool, sent)
  /\ Once(matched)
  /\ Accounted(db.trades, pending_trades, batch, failed)
  /\ DoneForGood(matched, db.trades, pending_trades, batch, mempool)
  /\ BatchAlone(db.trades, pending_trades, batch)
  /\ SentLast(batch, mempool, sent)
  /\ ConfirmedPrefix(batch, db.trades)

\* What the queue carries are ids that were given out.
LEMMA CarriedIds ==
  ASSUME NEW s, NEW m, Carries(s, m)
  PROVE  /\ IdsOf(s) \subseteq 1..Len(m)
         /\ \A i \in DOMAIN s : s[i].id \in 1..Len(m) /\ s[i].trade = m[s[i].id]
         /\ DOMAIN s = 1..Len(s) /\ Len(s) \in Nat
<1>1. \A i \in DOMAIN s : s[i] \in TaggedOf(m)
  BY DEF Carries, Items
<1>2. \A i \in DOMAIN s : s[i].id \in 1..Len(m) /\ s[i].trade = m[s[i].id]
  BY <1>1 DEF TaggedOf
<1>3. DOMAIN s = 1..Len(s) /\ Len(s) \in Nat
  BY DEF Carries, IsQueue
<1> QED BY <1>2, <1>3 DEF IdsOf

\* The empty queue carries nothing.
LEMMA NothingCarried ==
  \A m : Carries(<<>>, m) /\ IdsOf(<<>>) = {} /\ Len(<<>>) = 0
BY DEF Carries, IsQueue, Items, IdsOf

\* Mining takes the oldest transaction; the others keep their numbers.
LEMMA NumberedTail ==
  ASSUME NEW pool, IsQueue(pool), pool # <<>>, NEW n, Numbered(pool, n)
  PROVE  Numbered(Tail(pool), n)
<1>1. pool \in Seq(Items(pool)) /\ Len(pool) \in Nat /\ DOMAIN pool = 1..Len(pool)
  BY DEF IsQueue
<1>2. /\ Len(Tail(pool)) = Len(pool) - 1 /\ DOMAIN Tail(pool) = 1..(Len(pool) - 1)
      /\ \A i \in 1..(Len(pool) - 1) : Tail(pool)[i] = pool[i + 1]
  BY <1>1
<1>3. ASSUME NEW i \in 1..(Len(pool) - 1)
      PROVE  Tail(pool)[i].tx = n - Len(Tail(pool)) + i
  <2>0. i + 1 \in DOMAIN pool
    BY <1>1
  <2>1. pool[i + 1].tx = n - Len(pool) + (i + 1)
    BY <2>0 DEF Numbered
  <2> QED BY <1>1, <1>2, <2>1 DEF Numbered
<1> QED BY <1>1, <1>2, <1>3 DEF Numbered

\* Sending gives the next number.
LEMMA NumberedAppend ==
  ASSUME NEW pool, IsQueue(pool), NEW n, Numbered(pool, n), NEW tx, tx.tx = n + 1
  PROVE  Numbered(Append(pool, tx), n + 1)
<1>1. pool \in Seq(Items(pool) \cup {tx}) /\ Len(pool) \in Nat /\ DOMAIN pool = 1..Len(pool)
  BY DEF IsQueue, Items
<1>2. /\ Len(Append(pool, tx)) = Len(pool) + 1
      /\ DOMAIN Append(pool, tx) = 1..(Len(pool) + 1)
      /\ \A i \in 1..Len(pool) : Append(pool, tx)[i] = pool[i]
      /\ Append(pool, tx)[Len(pool) + 1] = tx
  BY <1>1
<1>3. ASSUME NEW i \in 1..(Len(pool) + 1)
      PROVE  Append(pool, tx)[i].tx = (n + 1) - (Len(pool) + 1) + i
  <2>1. CASE i \in 1..Len(pool)
    BY <1>1, <1>2, <2>1 DEF Numbered
  <2>2. CASE i = Len(pool) + 1
    BY <1>1, <1>2, <2>2 DEF Numbered
  <2> QED BY <1>1, <2>1, <2>2
<1> QED BY <1>1, <1>2, <1>3 DEF Numbered

\* Nothing changes for a step that leaves these alone.
LEMMA UnchangedFlow ==
  ASSUME Flow, UNCHANGED <<matched, pending_trades, batch, mempool, sent, failed>>,
         db'.trades = db.trades
  PROVE  Flow'
BY DEF Flow

\* A new trade has a number of its own and a row, and waits for a batch.
LEMMA MatchTradeKeepsFlow ==
  ASSUME IInv, Flow, NEW t \in Trades, MatchTrade(t)
  PROVE  Flow'
<1>1. PICK m, n, row, rows, pending, tagged :
        /\ m = matched' /\ n = Len(matched) + 1 /\ row = [trade |-> t, status |-> "pending"]
        /\ rows = db'.trades /\ pending = pending_trades' /\ tagged = [id |-> n, trade |-> t]
  OBVIOUS
<1>2. /\ UNCHANGED <<batch, mempool, sent, failed>>
      /\ m = Append(matched, t) /\ t \notin ToSet(matched)
      /\ pending = Append(pending_trades, tagged)
  BY <1>1 DEF MatchTrade, NextTradeId, chain_vars
<1>3. /\ DOMAIN rows = DOMAIN db.trades \cup {n} /\ rows[n] = row
      /\ \A id \in DOMAIN db.trades : id # n => rows[id] = db.trades[id]
  BY <1>1 DEF MatchTrade, NextTradeId, IInv, Shape
<1>4. /\ Len(matched) \in Nat /\ Len(m) = n /\ n \in Nat /\ m[n] = t
      /\ \A id \in 1..Len(matched) : m[id] = matched[id]
  <2>1. matched \in Seq(Trades)
    BY DEF IInv, Shape
  <2> QED BY <1>1, <1>2, <2>1
<1>5. /\ 1..n = 1..Len(matched) \cup {n} /\ n \notin 1..Len(matched)
      /\ n \notin DOMAIN db.trades
  BY <1>1, <1>4 DEF Flow, RowsTyped
<1>6. TaggedOf(m) = TaggedOf(matched) \cup {tagged}
  BY <1>1, <1>4, <1>5 DEF TaggedOf
<1>7. RowsTyped(m, rows)
  BY <1>1, <1>3, <1>4, <1>5 DEF Flow, RowsTyped, Statuses
<1>8. IsQueue(pending) /\ Items(pending) = Items(pending_trades) \cup {tagged}
  BY <1>2, AppendItem DEF Flow, InFlight, Carries
<1>9. \A s : Carries(s, matched) => Carries(s, m)
  BY <1>6 DEF Carries
<1>10. InFlight(m, pending, batch, mempool)
  BY <1>6, <1>8, <1>9 DEF Flow, InFlight, Carries
<1>11. Once(m)
  <2>1. \A i \in 1..Len(matched) : matched[i] # t
    <3>1. matched \in Seq(Trades)
      BY DEF IInv, Shape
    <3> QED BY <1>2, <3>1 DEF ToSet
  <2> QED BY <1>4, <1>5, <2>1 DEF Flow, Once
<1>12. IdsOf(pending) = IdsOf(pending_trades) \cup {n}
  BY <1>1, <1>8 DEF IdsOf, Items
<1>13. Accounted(rows, pending, batch, failed)
  BY <1>3, <1>5, <1>12 DEF Flow, Accounted
<1>14. Done(m, rows) \subseteq Done(matched, db.trades) /\ n \notin Done(m, rows)
  <2>1. row.status # "confirmed"
    BY <1>1
  <2> QED BY <1>3, <1>4, <1>5, <2>1 DEF Done
<1>15. Undone(pending, m, rows)
  BY <1>12, <1>14 DEF Flow, DoneForGood, Undone
<1>16. DoneForGood(m, rows, pending, batch, mempool)
  BY <1>14, <1>15 DEF Flow, DoneForGood, Undone
<1>17. n \notin IdsOf(batch.trades)
  BY <1>5, CarriedIds DEF Flow, InFlight
<1>18. BatchAlone(rows, pending, batch)
  BY <1>3, <1>12, <1>17 DEF Flow, BatchAlone
<1>19. ConfirmedPrefix(batch, rows)
  <2>1. \A i \in DOMAIN batch.trades : batch.trades[i].id \in DOMAIN db.trades /\ batch.trades[i].id # n
    BY <1>17 DEF Flow, BatchAlone, IdsOf
  <2> QED BY <1>3, <2>1 DEF Flow, ConfirmedPrefix
<1> QED BY <1>1, <1>2, <1>7, <1>10, <1>11, <1>13, <1>16, <1>18, <1>19 DEF Flow

\* A batch that is taken from memory is in memory no more.
LEMMA DrainKeepsFlow ==
  ASSUME Flow, DrainBatch
  PROVE  Flow'
<1>1. /\ UNCHANGED <<matched, db, mempool, sent, failed>>
      /\ pending_trades' = <<>>
      /\ batch' = [Idle EXCEPT !.stage = "submit", !.trades = pending_trades]
      /\ batch.stage = "idle"
  BY DEF DrainBatch, AfterDrain, chain_vars, history_vars
<1>2. /\ batch'.stage = "submit" /\ batch'.trades = pending_trades /\ batch'.next = 1
      /\ batch' = [stage |-> batch'.stage, trades |-> batch'.trades,
                   next |-> batch'.next, tx |-> batch'.tx]
  BY <1>1 DEF Idle
<1>3. /\ Carries(pending_trades, matched) /\ Len(pending_trades) \in Nat
      /\ IdsOf(pending_trades) \subseteq 1..Len(matched)
  BY CarriedIds DEF Flow, InFlight
<1>4. Carries(<<>>, matched) /\ IdsOf(<<>>) = {}
  BY NothingCarried
<1>5. InFlight(matched, <<>>, batch', mempool)
  BY <1>2, <1>3, <1>4 DEF Flow, InFlight
<1>6. LoopTyped(batch')
  BY <1>2, <1>3 DEF LoopTyped, Stages
<1>7. IdsOf(batch.trades) = {}
  BY <1>1, <1>4 DEF Flow, LoopTyped
<1>8. Accounted(db.trades, <<>>, batch', failed)
  BY <1>2, <1>4, <1>7 DEF Flow, Accounted
<1>9. DoneForGood(matched, db.trades, <<>>, batch', mempool)
  BY <1>2, <1>4 DEF Flow, DoneForGood, Undone
<1>10. BatchAlone(db.trades, <<>>, batch')
  BY <1>2, <1>3, <1>4 DEF Flow, DoneForGood, BatchAlone, Undone, Done
<1>11. SentLast(batch', mempool, sent) /\ ConfirmedPrefix(batch', db.trades)
  BY <1>2 DEF SentLast, ConfirmedPrefix
<1> QED BY <1>1, <1>5, <1>6, <1>8, <1>9, <1>10, <1>11 DEF Flow

\* What a batch promises when it is given up: that its trades failed.
LEMMA GiveUpKeepsFlow ==
  ASSUME Flow, GiveUpBatch, UNCHANGED <<matched, db, pending_trades>>,
         InFlight(matched, pending_trades, batch, mempool'),
         Numbered(mempool', sent'),
         \A tx \in Batches(mempool') : Undone(tx.trades, matched, db.trades)
  PROVE  Flow'
<1>1. /\ batch' = Idle /\ failed' = failed \cup IdsOf(batch.trades)
      /\ Idle.stage = "idle" /\ Idle.trades = <<>> /\ Idle.next = 1
      /\ Idle = [stage |-> Idle.stage, trades |-> Idle.trades, next |-> Idle.next, tx |-> Idle.tx]
  BY DEF GiveUpBatch, Idle
<1>2. Carries(<<>>, matched) /\ IdsOf(<<>>) = {} /\ Len(<<>>) = 0
  BY NothingCarried
<1>3. InFlight(matched, pending_trades, Idle, mempool')
  BY <1>1, <1>2 DEF InFlight
<1>4. LoopTyped(Idle)
  BY <1>1, <1>2 DEF LoopTyped, Stages
<1>5. Accounted(db.trades, pending_trades, Idle, failed')
  BY <1>1 DEF Flow, Accounted
<1>6. DoneForGood(matched, db.trades, pending_trades, Idle, mempool')
  BY <1>1 DEF Flow, DoneForGood
<1>7. /\ BatchAlone(db.trades, pending_trades, Idle) /\ SentLast(Idle, mempool', sent')
      /\ ConfirmedPrefix(Idle, db.trades)
  BY <1>1, <1>2 DEF BatchAlone, SentLast, ConfirmedPrefix
<1> QED BY <1>1, <1>3, <1>4, <1>5, <1>6, <1>7 DEF Flow

-----------------------------------------------------------------------------
(* Every step keeps the flow.                                              *)

\* At the start nothing is on its way.
LEMMA InitFlow == Init => Flow
<1> SUFFICES ASSUME Init PROVE Flow
  OBVIOUS
<1>1. /\ pending_trades = <<>> /\ batch = Idle /\ mempool = <<>> /\ sent = 0 /\ matched = <<>>
      /\ DOMAIN db.trades = {}
  BY DEF Init, EmptyTable
<1>2. /\ Idle.stage = "idle" /\ Idle.trades = <<>> /\ Idle.next = 1
      /\ Idle = [stage |-> Idle.stage, trades |-> Idle.trades, next |-> Idle.next, tx |-> Idle.tx]
  BY DEF Idle
<1>3. Carries(<<>>, matched) /\ IdsOf(<<>>) = {} /\ Len(<<>>) = 0
  BY NothingCarried
<1>4. Batches(<<>>) = {} /\ DOMAIN <<>> = {}
  BY DEF Batches, Items
<1>5. RowsTyped(matched, db.trades) /\ Once(matched)
  BY <1>1, <1>3 DEF RowsTyped, Once
<1>6. InFlight(matched, pending_trades, batch, mempool) /\ LoopTyped(batch)
  BY <1>1, <1>2, <1>3, <1>4 DEF InFlight, LoopTyped, Stages
<1>7. Numbered(mempool, sent)
  BY <1>1, <1>3, <1>4 DEF Numbered
<1>8. /\ Accounted(db.trades, pending_trades, batch, failed)
      /\ DoneForGood(matched, db.trades, pending_trades, batch, mempool)
      /\ BatchAlone(db.trades, pending_trades, batch)
  BY <1>1, <1>2, <1>3, <1>4 DEF Accounted, DoneForGood, Undone, BatchAlone
<1>9. SentLast(batch, mempool, sent) /\ ConfirmedPrefix(batch, db.trades)
  BY <1>1, <1>2, <1>4 DEF SentLast, ConfirmedPrefix
<1> QED BY <1>5, <1>6, <1>7, <1>8, <1>9 DEF Flow

\* What is sent joins what is on its way, under the next number.
LEMMA SendJoins ==
  ASSUME IInv, Flow, NEW tx, tx.tx = sent + 1, Send(tx)
  PROVE  /\ Numbered(mempool', sent')
         /\ Batches(mempool') = Batches(mempool) \cup {x \in {tx} : x.kind = "batch"}
<1>1. IsQueue(mempool)
  BY DEF IInv, Shape
<1>2. Items(mempool') = Items(mempool) \cup {tx}
  BY <1>1, AppendItem DEF Send
<1>3. Numbered(mempool', sent')
  BY <1>1, NumberedAppend DEF Flow, Send
<1> QED BY <1>2, <1>3 DEF Batches

\* The last number is the highest on its way.
LEMMA HighestNumber ==
  ASSUME NEW pool, IsQueue(pool), NEW n, Numbered(pool, n), NEW tx \in Batches(pool)
  PROVE  tx.tx \in Int /\ tx.tx <= n
<1>1. Len(pool) \in Nat /\ DOMAIN pool = 1..Len(pool)
  BY DEF IsQueue
<1>2. PICK i \in DOMAIN pool : tx = pool[i]
  BY DEF Batches, Items
<1> QED BY <1>1, <1>2 DEF Numbered

\* The batch that is sent is the last one on its way.
LEMMA SubmitBatchKeepsFlow ==
  ASSUME IInv, Flow, SubmitBatch
  PROVE  Flow'
<1>1. /\ batch.stage = "submit" /\ batch' = [batch EXCEPT !.stage = "watch", !.tx = sent + 1]
      /\ UNCHANGED <<matched, db, pending_trades, failed>> /\ Send(BatchTx) /\ sent' = sent + 1
      /\ LoopTyped(batch) /\ sent \in Nat /\ IsQueue(mempool) /\ Numbered(mempool, sent)
  BY DEF SubmitBatch, history_vars, Send, Flow, Numbered, IInv, Shape
<1>2. /\ batch'.stage = "watch" /\ batch'.trades = batch.trades /\ batch'.next = batch.next
      /\ batch'.tx = sent + 1
      /\ batch' = [stage |-> batch'.stage, trades |-> batch'.trades,
                   next |-> batch'.next, tx |-> batch'.tx]
  BY <1>1 DEF LoopTyped
<1>3. BatchTx.kind = "batch" /\ BatchTx.tx = sent + 1 /\ BatchTx.trades = batch.trades
  BY DEF BatchTx
<1>4. Numbered(mempool', sent') /\ Batches(mempool') = Batches(mempool) \cup {BatchTx}
  BY <1>1, <1>3, SendJoins
<1>5. InFlight(matched, pending_trades, batch', mempool')
  BY <1>2, <1>3, <1>4 DEF Flow, InFlight
<1>6. LoopTyped(batch')
  BY <1>1, <1>2 DEF LoopTyped, Stages
<1>7. /\ Accounted(db.trades, pending_trades, batch', failed)
      /\ BatchAlone(db.trades, pending_trades, batch')
  BY <1>2 DEF Flow, Accounted, BatchAlone
<1>8. DoneForGood(matched, db.trades, pending_trades, batch', mempool')
  BY <1>1, <1>2, <1>3, <1>4 DEF Flow, DoneForGood
<1>9. SentLast(batch', mempool', sent')
  <2>1. \A tx \in Batches(mempool) : tx.tx <= sent + 1
    BY <1>1, HighestNumber
  <2> QED BY <1>1, <1>2, <1>3, <1>4, <2>1 DEF SentLast
<1>10. ConfirmedPrefix(batch', db.trades)
  BY <1>2 DEF ConfirmedPrefix
<1> QED BY <1>1, <1>4, <1>5, <1>6, <1>7, <1>8, <1>9, <1>10 DEF Flow

\* A batch that fails may be on its way all the same.
LEMMA SubmitFailsKeepsFlow ==
  ASSUME IInv, Flow, SubmitFails
  PROVE  Flow'
<1>1. GiveUpBatch /\ UNCHANGED <<matched, db, pending_trades>>
  BY DEF SubmitFails, history_vars
<1>2. CASE UNCHANGED chain_vars
  <2>1. mempool' = mempool /\ sent' = sent
    BY <1>2 DEF chain_vars
  <2> QED BY <1>1, <2>1, GiveUpKeepsFlow DEF Flow, DoneForGood
<1>3. CASE batch.stage = "submit" /\ Send(BatchTx)
  <2>1. BatchTx.kind = "batch" /\ BatchTx.tx = sent + 1 /\ BatchTx.trades = batch.trades
    BY DEF BatchTx
  <2>2. Numbered(mempool', sent') /\ Batches(mempool') = Batches(mempool) \cup {BatchTx}
    BY <1>3, <2>1, SendJoins
  <2>3. InFlight(matched, pending_trades, batch, mempool')
    BY <2>1, <2>2 DEF Flow, InFlight
  <2>4. \A tx \in Batches(mempool') : Undone(tx.trades, matched, db.trades)
    BY <1>3, <2>1, <2>2 DEF Flow, DoneForGood
  <2> QED BY <1>1, <2>2, <2>3, <2>4, GiveUpKeepsFlow
<1> QED BY <1>1, <1>2, <1>3 DEF SubmitFails

\* When the batch is in a block, no older one is left.
LEMMA WatchReturnsKeepsFlow ==
  ASSUME IInv, Flow, WatchReturns
  PROVE  Flow'
<1>1. /\ batch.stage = "watch" /\ batch' = [batch EXCEPT !.stage = "submitted", !.next = 1]
      /\ UNCHANGED <<matched, db, pending_trades, failed, mempool, sent>>
      /\ LoopTyped(batch)
  BY DEF WatchReturns, history_vars, chain_vars, Flow
<1>2. /\ batch'.stage = "submitted" /\ batch'.trades = batch.trades /\ batch'.next = 1
      /\ batch' = [stage |-> batch'.stage, trades |-> batch'.trades,
                   next |-> batch'.next, tx |-> batch'.tx]
  BY <1>1 DEF LoopTyped
<1>3. Batches(mempool) = {}
  <2> SUFFICES ASSUME NEW tx \in Batches(mempool) PROVE FALSE
    OBVIOUS
  <2>1. /\ Len(mempool) \in Nat /\ DOMAIN mempool = 1..Len(mempool) /\ sent \in Nat
        /\ Len(mempool) <= sent
        /\ \A k \in DOMAIN mempool : mempool[k].tx = sent - Len(mempool) + k
    BY DEF IInv, Shape, IsQueue, Flow, Numbered
  <2>2. PICK i \in DOMAIN mempool : tx = mempool[i]
    BY DEF Batches, Items
  <2>3. batch.tx \in 1..sent /\ tx.tx <= batch.tx
    BY <1>1 DEF Flow, SentLast
  <2>4. PICK j : j = batch.tx - (sent - Len(mempool))
    OBVIOUS
  <2>5. j \in DOMAIN mempool
    BY <2>1, <2>2, <2>3, <2>4
  <2>6. mempool[j].tx = batch.tx
    BY <2>1, <2>3, <2>4, <2>5
  <2> QED BY <2>5, <2>6 DEF WatchReturns, Mined, InMempool
<1>4. InFlight(matched, pending_trades, batch', mempool)
  BY <1>2 DEF Flow, InFlight
<1>5. LoopTyped(batch')
  <2>1. Len(batch.trades) \in Nat
    BY CarriedIds DEF Flow, InFlight
  <2> QED BY <1>2, <2>1 DEF LoopTyped, Stages
<1>6. /\ Accounted(db.trades, pending_trades, batch', failed)
      /\ BatchAlone(db.trades, pending_trades, batch')
  BY <1>2 DEF Flow, Accounted, BatchAlone
<1>7. DoneForGood(matched, db.trades, pending_trades, batch', mempool)
  BY <1>2 DEF Flow, DoneForGood
<1>8. SentLast(batch', mempool, sent) /\ ConfirmedPrefix(batch', db.trades)
  BY <1>2, <1>3 DEF SentLast, ConfirmedPrefix
<1> QED BY <1>1, <1>4, <1>5, <1>6, <1>7, <1>8 DEF Flow

\* A row of the batch is marked; no other batch holds its trade.
LEMMA MarkRowKeepsFlow ==
  ASSUME IInv, Flow, MarkRow
  PROVE  Flow'
<1>1. /\ batch.stage \in {"submitted", "confirmed"} /\ batch.next \in DOMAIN batch.trades
      /\ batch' = [batch EXCEPT !.next = @ + 1]
      /\ UNCHANGED <<matched, pending_trades, failed, mempool, sent>>
      /\ LoopTyped(batch)
  BY DEF MarkRow, history_vars, chain_vars, Flow
<1>2. PICK id, rows, next : /\ id = batch.trades[batch.next].id /\ rows = db'.trades
                            /\ next = batch.next
  OBVIOUS
<1>3. /\ batch'.stage = batch.stage /\ batch'.trades = batch.trades /\ batch'.next = next + 1
      /\ batch' = [stage |-> batch'.stage, trades |-> batch'.trades,
                   next |-> batch'.next, tx |-> batch'.tx]
  BY <1>1, <1>2 DEF LoopTyped
<1>4. id \in IdsOf(batch.trades) /\ id \in DOMAIN db.trades /\ id \notin IdsOf(pending_trades)
  BY <1>1, <1>2 DEF IdsOf, Flow, BatchAlone
<1>5. /\ DOMAIN rows = DOMAIN db.trades
      /\ \A i \in DOMAIN db.trades : i # id => rows[i] = db.trades[i]
      /\ rows[id] = [db.trades[id] EXCEPT !.status = batch.stage]
  BY <1>2, <1>4 DEF MarkRow, IInv, Shape
<1>6. /\ db.trades[id] = [trade |-> matched[id], status |-> db.trades[id].status]
      /\ RowsTyped(matched, db.trades)
  BY <1>4 DEF Flow, RowsTyped
<1>7. rows[id] = [trade |-> matched[id], status |-> batch.stage]
  BY <1>5, <1>6
<1>8. rows[id].status = batch.stage /\ rows[id] = [trade |-> matched[id], status |-> rows[id].status]
  BY <1>7
<1>9. RowsTyped(matched, rows)
  BY <1>1, <1>5, <1>6, <1>8 DEF RowsTyped, Statuses
<1>10. InFlight(matched, pending_trades, batch', mempool)
  BY <1>3 DEF Flow, InFlight
<1>11. LoopTyped(batch')
  <2>1. Len(batch.trades) \in Nat /\ DOMAIN batch.trades = 1..Len(batch.trades)
    BY CarriedIds DEF Flow, InFlight
  <2> QED BY <1>1, <1>2, <1>3, <2>1 DEF LoopTyped, Stages
<1>12. Accounted(rows, pending_trades, batch', failed)
  BY <1>3, <1>4, <1>5 DEF Flow, Accounted
<1>13. Done(matched, rows) \subseteq Done(matched, db.trades) \cup {id}
  BY <1>5 DEF Done
<1>14. Batches(mempool) = {}
  BY <1>1 DEF Flow, SentLast
<1>15. DoneForGood(matched, rows, pending_trades, batch', mempool)
  BY <1>1, <1>3, <1>4, <1>13, <1>14 DEF Flow, DoneForGood, Undone
<1>16. BatchAlone(rows, pending_trades, batch')
  BY <1>3, <1>5 DEF Flow, BatchAlone
<1>17. SentLast(batch', mempool, sent)
  BY <1>1, <1>3, <1>14 DEF SentLast
<1>18. ConfirmedPrefix(batch', rows)
  <2> SUFFICES ASSUME batch.stage = "confirmed", NEW i \in DOMAIN batch.trades, i < next + 1
               PROVE  rows[batch.trades[i].id].status = "confirmed"
    BY <1>3 DEF ConfirmedPrefix
  <2>1. i \in Int /\ next \in Int /\ batch.trades[i].id \in DOMAIN db.trades
    <3>1. DOMAIN batch.trades = 1..Len(batch.trades)
      BY CarriedIds DEF Flow, InFlight
    <3> QED BY <1>1, <1>2, <3>1 DEF Flow, BatchAlone, IdsOf
  <2>2. CASE batch.trades[i].id = id
    BY <1>8, <2>2
  <2>3. CASE batch.trades[i].id # id
    <3>1. i < next
      BY <1>2, <2>1, <2>3
    <3> QED BY <1>2, <1>5, <2>1, <2>3, <3>1 DEF Flow, ConfirmedPrefix
  <2> QED BY <2>2, <2>3
<1> QED BY <1>1, <1>2, <1>9, <1>10, <1>11, <1>12, <1>15, <1>16, <1>17, <1>18 DEF Flow

\* The second round of marks starts at the first row.
LEMMA ConfirmTradesKeepsFlow ==
  ASSUME Flow, ConfirmTrades
  PROVE  Flow'
<1>1. /\ batch.stage = "submitted" /\ batch' = [batch EXCEPT !.stage = "confirmed", !.next = 1]
      /\ UNCHANGED <<matched, db, pending_trades, failed, mempool, sent>>
      /\ LoopTyped(batch)
  BY DEF ConfirmTrades, history_vars, chain_vars, Flow
<1>2. /\ batch'.stage = "confirmed" /\ batch'.trades = batch.trades /\ batch'.next = 1
      /\ batch' = [stage |-> batch'.stage, trades |-> batch'.trades,
                   next |-> batch'.next, tx |-> batch'.tx]
  BY <1>1 DEF LoopTyped
<1>3. InFlight(matched, pending_trades, batch', mempool)
  BY <1>2 DEF Flow, InFlight
<1>4. Len(batch.trades) \in Nat /\ DOMAIN batch.trades = 1..Len(batch.trades)
  BY CarriedIds DEF Flow, InFlight
<1>5. LoopTyped(batch')
  BY <1>2, <1>4 DEF LoopTyped, Stages
<1>6. /\ Accounted(db.trades, pending_trades, batch', failed)
      /\ BatchAlone(db.trades, pending_trades, batch')
  BY <1>2 DEF Flow, Accounted, BatchAlone
<1>7. DoneForGood(matched, db.trades, pending_trades, batch', mempool)
  BY <1>2 DEF Flow, DoneForGood
<1>8. SentLast(batch', mempool, sent)
  BY <1>1, <1>2 DEF Flow, SentLast
<1>9. ConfirmedPrefix(batch', db.trades)
  BY <1>2, <1>4 DEF ConfirmedPrefix
<1> QED BY <1>1, <1>3, <1>5, <1>6, <1>7, <1>8, <1>9 DEF Flow

\* When the confirmed rows are deleted, all of the batch is among them.
LEMMA DeleteKeepsFlow ==
  ASSUME IInv, Flow, DeleteConfirmed
  PROVE  Flow'
<1>1. /\ batch.stage = "confirmed" /\ batch.next \notin DOMAIN batch.trades /\ batch' = Idle
      /\ UNCHANGED <<matched, pending_trades, failed, mempool, sent>>
  BY DEF DeleteConfirmed, history_vars, chain_vars
<1>2. PICK rows : rows = db'.trades
  OBVIOUS
<1>3. /\ DOMAIN rows = DOMAIN db.trades \ ConfirmedRows
      /\ \A id \in DOMAIN rows : rows[id] = db.trades[id]
  BY <1>2 DEF DeleteConfirmed, IInv, Shape
<1>4. /\ Idle.stage = "idle" /\ Idle.trades = <<>> /\ Idle.next = 1
      /\ Idle = [stage |-> Idle.stage, trades |-> Idle.trades, next |-> Idle.next, tx |-> Idle.tx]
  BY DEF Idle
<1>5. Carries(<<>>, matched) /\ IdsOf(<<>>) = {} /\ Len(<<>>) = 0
  BY NothingCarried
<1>6. \A id \in IdsOf(batch.trades) : db.trades[id].status = "confirmed"
  <2> SUFFICES ASSUME NEW i \in DOMAIN batch.trades
               PROVE  db.trades[batch.trades[i].id].status = "confirmed"
    BY DEF IdsOf
  <2>1. Len(batch.trades) \in Nat /\ DOMAIN batch.trades = 1..Len(batch.trades)
    BY CarriedIds DEF Flow, InFlight
  <2>2. i < batch.next
    BY <1>1, <2>1 DEF Flow, LoopTyped
  <2> QED BY <1>1, <2>2 DEF Flow, ConfirmedPrefix
<1>7. RowsTyped(matched, rows)
  BY <1>3 DEF Flow, RowsTyped
<1>8. InFlight(matched, pending_trades, Idle, mempool) /\ LoopTyped(Idle)
  BY <1>4, <1>5 DEF Flow, InFlight, LoopTyped, Stages
<1>9. Accounted(rows, pending_trades, Idle, failed)
  BY <1>3, <1>6 DEF Flow, Accounted
<1>10. Done(matched, rows) \subseteq Done(matched, db.trades)
  BY <1>3 DEF Done, ConfirmedRows
<1>11. DoneForGood(matched, rows, pending_trades, Idle, mempool)
  BY <1>4, <1>10 DEF Flow, DoneForGood, Undone
<1>12. BatchAlone(rows, pending_trades, Idle) /\ SentLast(Idle, mempool, sent) /\ ConfirmedPrefix(Idle, rows)
  BY <1>4, <1>5 DEF BatchAlone, SentLast, ConfirmedPrefix
<1> QED BY <1>1, <1>2, <1>7, <1>8, <1>9, <1>11, <1>12 DEF Flow

\* A cancel that is sent takes the next number and is no batch.
LEMMA RetryCancelKeepsFlow ==
  ASSUME IInv, Flow, NEW key, RetryCancel(key)
  PROVE  Flow'
<1>1. PICK tx : tx = [kind |-> "cancel", tx |-> sent + 1, key |-> key]
  OBVIOUS
<1>2. /\ Send(tx) /\ sent' = sent + 1 /\ UNCHANGED <<matched, db, pending_trades, failed, batch>>
      /\ tx.tx = sent + 1 /\ tx.kind # "batch" /\ sent \in Nat
  BY <1>1 DEF RetryCancel, Send, history_vars, loop_vars, Flow, Numbered
<1>3. Numbered(mempool', sent') /\ Batches(mempool') = Batches(mempool)
  BY <1>2, SendJoins
<1>4. /\ InFlight(matched, pending_trades, batch, mempool')
      /\ DoneForGood(matched, db.trades, pending_trades, batch, mempool')
  BY <1>3 DEF Flow, InFlight, DoneForGood
<1>5. SentLast(batch, mempool', sent')
  BY <1>2, <1>3 DEF Flow, SentLast
<1> QED BY <1>2, <1>3, <1>4, <1>5 DEF Flow

\* A block takes the oldest transaction.
LEMMA MineKeepsFlow ==
  ASSUME IInv, Flow, mempool # <<>>, mempool' = Tail(mempool),
         UNCHANGED <<matched, db, pending_trades, failed, batch, sent>>
  PROVE  Flow'
<1>1. IsQueue(mempool) /\ Items(mempool) = {Head(mempool)} \cup Items(Tail(mempool))
  BY HeadAndTail DEF IInv, Shape
<1>2. Numbered(mempool', sent')
  BY <1>1, NumberedTail DEF Flow
<1>3. Batches(mempool') \subseteq Batches(mempool)
  BY <1>1 DEF Batches
<1>4. /\ InFlight(matched, pending_trades, batch, mempool')
      /\ DoneForGood(matched, db.trades, pending_trades, batch, mempool')
      /\ SentLast(batch, mempool', sent)
  BY <1>3 DEF Flow, InFlight, DoneForGood, SentLast
<1> QED BY <1>2, <1>4 DEF Flow

\* A set of numbers in ascending order: each of them, once.
LEMMA AscendingLists ==
  ASSUME NEW ids, ids \subseteq Nat, IsFiniteSet(ids)
  PROVE  /\ DOMAIN Ascending(ids) = 1..Cardinality(ids) /\ Cardinality(ids) \in Nat
         /\ \A k \in 1..Cardinality(ids) : Ascending(ids)[k] \in ids
         /\ \A id \in ids : \E k \in 1..Cardinality(ids) : Ascending(ids)[k] = id
<1>1. PICK n, rank, places : /\ n = Cardinality(ids)
                             /\ rank = [id \in ids |-> Cardinality({i \in ids : i < id})]
                             /\ places = 0..(n - 1)
  OBVIOUS
<1>2. n \in Nat
  BY <1>1, FS_CardinalityType
<1>3. ASSUME NEW id \in ids
      PROVE  rank[id] \in Nat /\ rank[id] <= n - 1
  <2>1. PICK before, others : before = {i \in ids : i < id} /\ others = ids \ {id}
    OBVIOUS
  <2>2. IsFiniteSet(others) /\ Cardinality(others) = n - 1
    BY <1>1, <2>1, FS_RemoveElement
  <2>3. before \subseteq others
    BY <2>1
  <2>4. IsFiniteSet(before) /\ Cardinality(before) <= Cardinality(others)
    BY <2>2, <2>3, FS_Subset
  <2>5. Cardinality(before) \in Nat
    BY <2>4, FS_CardinalityType
  <2> QED BY <1>1, <2>1, <2>2, <2>4, <2>5
<1>4. ASSUME NEW i \in ids, NEW j \in ids, i < j
      PROVE  rank[i] < rank[j]
  <2>1. PICK low, high, more : /\ low = {k \in ids : k < i} /\ high = {k \in ids : k < j}
                               /\ more = low \cup {i}
    OBVIOUS
  <2>2. IsFiniteSet(low) /\ IsFiniteSet(high)
    BY <2>1, FS_Subset
  <2>3. i \notin low /\ more \subseteq high
    <3>1. \A k \in ids : k \in Int
      OBVIOUS
    <3>2. i \notin low
      BY <2>1, <3>1
    <3>3. \A k \in low : k \in ids /\ k < j
      BY <1>4, <2>1, <3>1
    <3> QED BY <1>4, <2>1, <3>2, <3>3
  <2>4. Cardinality(more) = Cardinality(low) + 1
    BY <2>1, <2>2, <2>3, FS_AddElement
  <2>5. Cardinality(more) <= Cardinality(high)
    BY <2>2, <2>3, FS_Subset
  <2>6. Cardinality(low) = rank[i] /\ Cardinality(high) = rank[j]
    BY <1>1, <2>1
  <2> QED BY <1>3, <2>4, <2>5, <2>6
<1>5. \A i, j \in ids : rank[i] = rank[j] => i = j
  <2> SUFFICES ASSUME NEW i \in ids, NEW j \in ids, rank[i] = rank[j] PROVE i = j
    OBVIOUS
  <2>1. rank[i] \in Nat /\ i \in Nat /\ j \in Nat
    BY <1>3
  <2>2. ~(i < j) /\ ~(j < i)
    BY <1>4, <2>1
  <2> QED BY <2>1, <2>2
<1>6. rank \in Injection(ids, places)
  <2>1. rank \in [ids -> places]
    BY <1>1, <1>2, <1>3
  <2> QED BY <1>5, <2>1 DEF Injection, IsInjective
<1>7. IsFiniteSet(places) /\ Cardinality(places) = n
  <2>1. 0 \in Int /\ n - 1 \in Int
    BY <1>2
  <2> QED BY <1>1, <1>2, <2>1, FS_Interval
<1>8. rank \in Surjection(ids, places)
  BY <1>1, <1>6, <1>7, FS_Injection
<1>9. DOMAIN Ascending(ids) = 1..n
  BY <1>1 DEF Ascending
<1>10. ASSUME NEW k \in 1..n
       PROVE  Ascending(ids)[k] \in ids /\ rank[Ascending(ids)[k]] = k - 1
  <2>1. k - 1 \in places
    BY <1>1, <1>2
  <2>2. PICK id \in ids : rank[id] = k - 1
    BY <1>8, <2>1 DEF Surjection
  <2>3. Ascending(ids)[k] = CHOOSE i \in ids : rank[i] = k - 1
    BY <1>1 DEF Ascending
  <2> QED BY <2>2, <2>3
<1>11. ASSUME NEW id \in ids
       PROVE  \E k \in 1..n : Ascending(ids)[k] = id
  <2>1. rank[id] + 1 \in 1..n /\ (rank[id] + 1) - 1 = rank[id]
    BY <1>2, <1>3
  <2> QED BY <1>5, <1>10, <2>1
<1> QED BY <1>1, <1>2, <1>9, <1>10, <1>11

\* The rows that are loaded: these, with the trades they were stored with.
LEMMA TaggedRows ==
  ASSUME RowsTyped(matched, db.trades), Len(matched) \in Nat,
         NEW ids, ids \subseteq DOMAIN db.trades
  PROVE  Carries(Tagged(ids), matched) /\ IdsOf(Tagged(ids)) = ids
<1>1. PICK s, n, order : s = Tagged(ids) /\ n = Cardinality(ids) /\ order = Ascending(ids)
  OBVIOUS
<1>2. ids \subseteq 1..Len(matched) /\ ids \subseteq Nat
  BY DEF RowsTyped
<1>3. IsFiniteSet(ids)
  <2>1. PICK all : all = 1..Len(matched)
    OBVIOUS
  <2>2. IsFiniteSet(all)
    BY <2>1, FS_Interval
  <2> QED BY <1>2, <2>1, <2>2, FS_Subset
<1>4. /\ DOMAIN order = 1..n /\ n \in Nat
      /\ \A k \in 1..n : order[k] \in ids
      /\ \A id \in ids : \E k \in 1..n : order[k] = id
  BY <1>1, <1>2, <1>3, AscendingLists
<1>5. s = [k \in 1..n |-> [id |-> order[k], trade |-> db.trades[order[k]].trade]]
  BY <1>1, <1>4 DEF Tagged
<1>6. \A k \in 1..n : s[k] = [id |-> order[k], trade |-> matched[order[k]]]
  <2> TAKE k \in 1..n
  <2>1. PICK id : id = order[k]
    OBVIOUS
  <2>2. id \in DOMAIN db.trades
    BY <1>4, <2>1
  <2>3. db.trades[id] = [trade |-> matched[id], status |-> db.trades[id].status]
    BY <2>2 DEF RowsTyped
  <2>4. db.trades[id].trade = matched[id]
    BY <2>3
  <2> QED BY <1>5, <2>1, <2>4
<1>7. Items(s) \subseteq TaggedOf(matched)
  <2> SUFFICES ASSUME NEW k \in 1..n PROVE s[k] \in TaggedOf(matched)
    BY <1>5 DEF Items
  <2> QED BY <1>2, <1>4, <1>6 DEF TaggedOf
<1>8. IsQueue(s)
  <2>1. s \in [1..n -> Items(s)]
    BY <1>5 DEF Items
  <2>2. s \in Seq(Items(s))
    BY <1>4, <2>1, SeqDef
  <2> QED BY <2>2 DEF IsQueue
<1>9. IdsOf(s) = ids
  <2>1. \A k \in 1..n : s[k].id = order[k]
    BY <1>5
  <2>2. DOMAIN s = 1..n
    BY <1>5
  <2> QED BY <1>4, <2>1, <2>2 DEF IdsOf
<1> QED BY <1>1, <1>7, <1>8, <1>9 DEF Carries

\* One queue behind the other carries what both carry.
LEMMA CarriesBoth ==
  ASSUME NEW m, NEW s, NEW t, Carries(s, m), Carries(t, m)
  PROVE  Carries(s \o t, m) /\ IdsOf(s \o t) = IdsOf(s) \cup IdsOf(t)
<1>1. PICK both, U : both = s \o t /\ U = Items(s) \cup Items(t)
  OBVIOUS
<1>2. s \in Seq(U) /\ t \in Seq(U) /\ U \subseteq TaggedOf(m)
  BY <1>1 DEF Carries, IsQueue
<1>3. /\ both \in Seq(U) /\ DOMAIN both = 1..(Len(s) + Len(t))
      /\ \A i \in 1..Len(s) : both[i] = s[i]
      /\ \A j \in 1..Len(t) : both[Len(s) + j] = t[j]
      /\ DOMAIN s = 1..Len(s) /\ DOMAIN t = 1..Len(t) /\ Len(s) \in Nat /\ Len(t) \in Nat
  BY <1>1, <1>2
<1>4. IsQueue(both)
  BY <1>3, SequenceIsQueue
<1>5. \A i \in 1..(Len(s) + Len(t)) :
        \/ i \in 1..Len(s) /\ both[i] = s[i]
        \/ \E j \in 1..Len(t) : both[i] = t[j]
  <2> TAKE i \in 1..(Len(s) + Len(t))
  <2>1. CASE i <= Len(s)
    BY <1>3, <2>1
  <2>2. CASE i > Len(s)
    <3>1. i - Len(s) \in 1..Len(t) /\ Len(s) + (i - Len(s)) = i
      BY <1>3, <2>2
    <3> QED BY <1>3, <3>1
  <2> QED BY <1>3, <2>1, <2>2
<1>6. Items(both) \subseteq U
  BY <1>1, <1>3, <1>5 DEF Items
<1>7. IdsOf(both) \subseteq IdsOf(s) \cup IdsOf(t)
  BY <1>3, <1>5 DEF IdsOf
<1>8. IdsOf(s) \subseteq IdsOf(both) /\ IdsOf(t) \subseteq IdsOf(both)
  <2>1. ASSUME NEW i \in 1..Len(s) PROVE s[i].id \in IdsOf(both)
    BY <1>3, <2>1 DEF IdsOf
  <2>2. ASSUME NEW j \in 1..Len(t) PROVE t[j].id \in IdsOf(both)
    <3>1. Len(s) + j \in DOMAIN both
      BY <1>3
    <3> QED BY <1>3, <3>1 DEF IdsOf
  <2> QED BY <1>3, <2>1, <2>2 DEF IdsOf
<1> QED BY <1>1, <1>2, <1>4, <1>6, <1>7, <1>8 DEF Carries

\* After a restart, what the table is not done with waits again; what was on its
\* way is on its way.
LEMMA RestartKeepsFlow ==
  ASSUME IInv, Flow, Restart
  PROVE  Flow'
<1>1. /\ pending_trades' = LoadPendingTrades /\ batch' = Idle /\ failed' = {}
      /\ UNCHANGED <<matched, db, mempool, sent>>
  BY DEF Restart, history_vars, chain_vars
<1>2. Len(matched) \in Nat /\ RowsTyped(matched, db.trades)
  BY DEF IInv, Shape, Flow
<1>3. PICK p, s, all : p = Rows("pending") /\ s = Rows("submitted") /\ all = LoadPendingTrades
  OBVIOUS
<1>4. /\ p \subseteq DOMAIN db.trades /\ s \subseteq DOMAIN db.trades
      /\ \A id \in DOMAIN db.trades : id \in p \cup s <=> db.trades[id].status # "confirmed"
  BY <1>2, <1>3 DEF Rows, RowsTyped, Statuses
<1>5. PICK first, second : first = Tagged(p) /\ second = Tagged(s)
  OBVIOUS
<1>6. Carries(all, matched) /\ IdsOf(all) = p \cup s
  <2>1. /\ Carries(first, matched) /\ IdsOf(first) = p
        /\ Carries(second, matched) /\ IdsOf(second) = s
    BY <1>2, <1>4, <1>5, TaggedRows
  <2>2. all = first \o second
    BY <1>3, <1>5 DEF LoadPendingTrades
  <2> QED BY <2>1, <2>2, CarriesBoth
<1>7. /\ Idle.stage = "idle" /\ Idle.trades = <<>> /\ Idle.next = 1
      /\ Idle = [stage |-> Idle.stage, trades |-> Idle.trades, next |-> Idle.next, tx |-> Idle.tx]
  BY DEF Idle
<1>8. Carries(<<>>, matched) /\ IdsOf(<<>>) = {} /\ Len(<<>>) = 0
  BY NothingCarried
<1>9. InFlight(matched, all, Idle, mempool) /\ LoopTyped(Idle)
  BY <1>6, <1>7, <1>8 DEF Flow, InFlight, LoopTyped, Stages
<1>10. Accounted(db.trades, all, Idle, {})
  BY <1>4, <1>6 DEF Accounted
<1>11. DoneForGood(matched, db.trades, all, Idle, mempool)
  BY <1>4, <1>6, <1>7 DEF Flow, DoneForGood, Undone, Done
<1>12. BatchAlone(db.trades, all, Idle) /\ SentLast(Idle, mempool, sent) /\ ConfirmedPrefix(Idle, db.trades)
  BY <1>7, <1>8 DEF BatchAlone, SentLast, ConfirmedPrefix
<1> QED BY <1>1, <1>3, <1>9, <1>10, <1>11, <1>12 DEF Flow

\* Every step keeps the flow.
LEMMA NextFlow == IInv /\ Flow /\ [Next]_vars => Flow'
<1> SUFFICES ASSUME IInv, Flow, [Next]_vars PROVE Flow'
  OBVIOUS
<1> USE DEF vars, loop_vars, chain_vars, history_vars, outcome_vars
<1>1. CASE UNCHANGED vars
  BY <1>1, UnchangedFlow
<1>2. ASSUME NEW t \in Trades, MatchTrade(t) PROVE Flow'
  BY <1>2, MatchTradeKeepsFlow
<1>3. ASSUME NEW order \in Cancels, CancelOrder(order) PROVE Flow'
  BY <1>3, UnchangedFlow DEF CancelOrder, IInv, Shape
<1>4. CASE DrainBatch
  BY <1>4, DrainKeepsFlow
<1>5. CASE SubmitBatch
  BY <1>5, SubmitBatchKeepsFlow
<1>6. CASE EstimateFails
  BY <1>6, GiveUpKeepsFlow DEF EstimateFails, Flow, DoneForGood
<1>7. CASE SubmitFails
  BY <1>7, SubmitFailsKeepsFlow
<1>8. CASE WatchReturns
  BY <1>8, WatchReturnsKeepsFlow
<1>9. CASE MarkRow
  BY <1>9, MarkRowKeepsFlow
<1>10. CASE ConfirmTrades
  BY <1>10, ConfirmTradesKeepsFlow
<1>11. CASE DeleteConfirmed
  BY <1>11, DeleteKeepsFlow
<1>12. CASE MarkFails
  BY <1>12, GiveUpKeepsFlow DEF MarkFails, Flow, DoneForGood
<1>13. ASSUME NEW key \in retry.left, RetryCancel(key) PROVE Flow'
  BY <1>13, RetryCancelKeepsFlow
<1>14. CASE CancelWatched
  BY <1>14, UnchangedFlow DEF CancelWatched, IInv, Shape
<1>15. CASE RetryFails
  BY <1>15, UnchangedFlow DEF RetryFails, AfterFailedCancel
<1>16. CASE MineBatch
  BY <1>16, MineKeepsFlow DEF MineBatch
<1>17. CASE MineCancel
  BY <1>17, MineKeepsFlow DEF MineCancel
<1>18. CASE ExchangeStep
  BY <1>18, UnchangedFlow DEF ExchangeStep
<1>19. CASE Restart
  BY <1>19, RestartKeepsFlow
<1> QED
  BY <1>1, <1>2, <1>3, <1>4, <1>5, <1>6, <1>7, <1>8, <1>9, <1>10, <1>11, <1>12, <1>13,
     <1>14, <1>15, <1>16, <1>17, <1>18, <1>19 DEF Next, BatchLoop

\* Trades flow in this way from their match to their settlement.
THEOREM TradesFlow == Spec => []Flow
<1>1. Init => Flow
  BY InitFlow
<1>2. IInv /\ Flow /\ [Next]_vars => Flow'
  BY NextFlow
<1> QED BY <1>1, <1>2, SettlementInvariant, PTL DEF Spec

\* No trade with an unconfirmed row is forgotten while the process runs: it waits,
\* is in the batch, or its batch was seen to fail, and then a restart loads it.
THEOREM NoTradeForgotten == Spec => []NothingForgotten
<1>1. Flow => NothingForgotten
  BY DEF Flow, Accounted, NothingForgotten, Rows
<1> QED BY <1>1, TradesFlow, PTL

-----------------------------------------------------------------------------
(* The contract: what is settled, and what it owes.                        *)

\* The nonces of the orders that were settled are used.
NoncesKept(m, done, used) ==
  \A s \in done : s.id \in 1..Len(m) /\ NonceKeys(m[s.id]) \subseteq used

SettledOnce(m, done) ==
  \A s1, s2 \in done : s1 # s2 => NonceKeys(m[s1.id]) \cap NonceKeys(m[s2.id]) = {}

OwesWhatItHolds(c, tokens) ==
  /\ ContractTyped(c) /\ tokens = [t \in Tokens |-> tokens[t]]
  /\ \A t \in Tokens : Total(c.balances, t) = tokens[t]

Chain ==
  /\ OwesWhatItHolds(contract, held)
  /\ NoncesKept(matched, settled, contract.usedNonces)
  /\ SettledOnce(matched, settled)

\* At the start the contract holds the deposits.
LEMMA InitChain == Init => Chain
<1> SUFFICES ASSUME Init PROVE Chain
  OBVIOUS
<1>1. /\ contract = [balances |-> Deposited, usedNonces |-> {}] /\ settled = {}
      /\ held = [t \in Tokens |-> Total(Deposited, t)]
  BY DEF Init, ExchangeInit
<1>2. contract.balances = Deposited /\ Deposited \in Balances
  BY <1>1, ExchangeAssumption DEF Balances
<1>3. ContractTyped(contract)
  BY <1>1, <1>2 DEF ContractTyped
<1>4. OwesWhatItHolds(contract, held)
  BY <1>1, <1>2, <1>3 DEF OwesWhatItHolds
<1> QED BY <1>1, <1>4 DEF Chain, NoncesKept, SettledOnce

\* New trades change nothing about those that were settled.
LEMMA MatchTradeKeepsChain ==
  ASSUME IInv, Chain, NEW t \in Trades, MatchTrade(t)
  PROVE  Chain'
<1>1. UNCHANGED <<contract, held, settled>> /\ matched' = Append(matched, t)
  BY DEF MatchTrade, exchange_vars, outcome_vars
<1>2. PICK m : m = matched'
  OBVIOUS
<1>3. \A id \in 1..Len(matched) : id \in 1..Len(m) /\ m[id] = matched[id]
  <2>1. matched \in Seq(Trades)
    BY DEF IInv, Shape
  <2> QED BY <1>1, <1>2, <2>1
<1>4. NoncesKept(m, settled, contract.usedNonces)
  BY <1>3 DEF Chain, NoncesKept
<1>5. SettledOnce(m, settled)
  <2>1. \A s \in settled : s.id \in 1..Len(matched)
    BY DEF Chain, NoncesKept
  <2>2. \A s \in settled : m[s.id] = matched[s.id]
    BY <1>3, <2>1
  <2> QED BY <2>2 DEF Chain, SettledOnce
<1> QED BY <1>1, <1>2, <1>4, <1>5 DEF Chain

\* The trades of a batch on its way are among those that were found.
LEMMA BatchIsSound ==
  ASSUME IInv, Flow, NEW tx \in Batches(mempool), NEW trades, trades = JustTrades(tx.trades)
  PROVE  /\ Len(trades) \in Nat /\ DOMAIN tx.trades = 1..Len(trades)
         /\ \A i \in 1..Len(trades) :
              /\ tx.trades[i].id \in 1..Len(matched)
              /\ trades[i] = matched[tx.trades[i].id] /\ SoundTrade(trades[i])
<1>1. PICK s, n : s = tx.trades /\ n = Len(tx.trades)
  OBVIOUS
<1>2. Carries(s, matched)
  BY <1>1 DEF Flow, InFlight
<1>3. /\ DOMAIN s = 1..n /\ n \in Nat
      /\ \A i \in 1..n : s[i].id \in 1..Len(matched) /\ s[i].trade = matched[s[i].id]
  BY <1>1, <1>2, CarriedIds
<1>4. trades = [i \in 1..n |-> s[i].trade]
  BY <1>1, <1>3 DEF JustTrades
<1>5. Len(trades) = n
  <2>1. trades \in [1..n -> {s[i].trade : i \in 1..n}]
    BY <1>4
  <2>2. trades \in Seq({s[i].trade : i \in 1..n})
    BY <1>3, <2>1, SeqDef
  <2>3. DOMAIN trades = 1..Len(trades) /\ Len(trades) \in Nat
    BY <2>2
  <2> QED BY <1>3, <1>4, <2>3
<1>6. \A i \in 1..n : trades[i] = matched[s[i].id]
  BY <1>3, <1>4
<1>7. \A id \in 1..Len(matched) : SoundTrade(matched[id])
  <2>1. \A id \in 1..Len(matched) : matched[id] \in Trades
    BY DEF IInv, Shape
  <2>2. \A trade \in Trades : SoundTrade(trade)
    BY TradesAssumption DEF SoundTrade
  <2> QED BY <2>1, <2>2
<1> QED BY <1>1, <1>3, <1>5, <1>6, <1>7

\* A batch that settles uses nonces that no settled trade has used.
LEMMA SettlingKeepsChain ==
  ASSUME IInv, Flow, Chain, MineBatch, Settling(Head(mempool)),
         settled' = settled \cup TaggedWith(Head(mempool))
  PROVE  Chain' /\ contract.usedNonces \subseteq contract'.usedNonces
<1>1. PICK tx, trades, c, more :
        /\ tx = Head(mempool) /\ trades = JustTrades(Head(mempool).trades) /\ c = contract'
        /\ more = TaggedWith(Head(mempool))
  OBVIOUS
<1>2. tx \in Batches(mempool)
  BY <1>1, HeadAndTail DEF MineBatch, Batches, IInv, Shape
<1>3. /\ Len(trades) \in Nat /\ DOMAIN tx.trades = 1..Len(trades)
      /\ \A i \in 1..Len(trades) :
           /\ tx.trades[i].id \in 1..Len(matched)
           /\ trades[i] = matched[tx.trades[i].id] /\ SoundTrade(trades[i])
  BY <1>1, <1>2, BatchIsSound
<1>4. c = SettleBatch(contract, trades) /\ c # Reverted
  BY <1>1 DEF MineBatch, Executed, Settling
<1>5. ContractTyped(contract)
  BY DEF Chain, OwesWhatItHolds
<1>6. SoFar(contract, c, trades, Len(trades))
  BY <1>3, <1>4, <1>5, BatchSettles
<1>7. UNCHANGED <<matched, held>>
  BY DEF MineBatch, history_vars
<1>8. OwesWhatItHolds(c, held)
  BY <1>6 DEF Chain, OwesWhatItHolds, SoFar
<1>9. contract.usedNonces \subseteq c.usedNonces
  BY <1>6 DEF SoFar
<1>10. \A s \in more : \E i \in 1..Len(trades) :
         s = [id |-> tx.trades[i].id, tx |-> tx.tx]
  BY <1>1, <1>3 DEF TaggedWith, IdsOf
<1>11. ASSUME NEW s \in more
       PROVE  \E i \in 1..Len(trades) :
                /\ s = [id |-> tx.trades[i].id, tx |-> tx.tx]
                /\ s.id \in 1..Len(matched) /\ matched[s.id] = trades[i]
  <2>1. PICK i \in 1..Len(trades) : s = [id |-> tx.trades[i].id, tx |-> tx.tx]
    BY <1>10
  <2>2. s.id = tx.trades[i].id
    BY <2>1
  <2> QED BY <1>3, <2>1, <2>2
<1>12. NoncesKept(matched, settled \cup more, c.usedNonces)
  <2>1. \A s \in settled : s.id \in 1..Len(matched) /\ NonceKeys(matched[s.id]) \subseteq c.usedNonces
    BY <1>9 DEF Chain, NoncesKept
  <2>2. \A s \in more : s.id \in 1..Len(matched) /\ NonceKeys(matched[s.id]) \subseteq c.usedNonces
    BY <1>6, <1>11 DEF SoFar
  <2> QED BY <2>1, <2>2 DEF NoncesKept
<1>13. ASSUME NEW s1 \in settled, NEW s2 \in more
       PROVE  NonceKeys(matched[s1.id]) \cap NonceKeys(matched[s2.id]) = {}
  <2>1. NonceKeys(matched[s1.id]) \subseteq contract.usedNonces
    BY DEF Chain, NoncesKept
  <2>2. NonceKeys(matched[s2.id]) \cap contract.usedNonces = {}
    BY <1>6, <1>11 DEF SoFar
  <2> QED BY <2>1, <2>2
<1>14. ASSUME NEW s1 \in more, NEW s2 \in more, s1 # s2
       PROVE  NonceKeys(matched[s1.id]) \cap NonceKeys(matched[s2.id]) = {}
  <2>1. PICK i \in 1..Len(trades) : /\ s1 = [id |-> tx.trades[i].id, tx |-> tx.tx]
                                    /\ matched[s1.id] = trades[i]
    BY <1>11
  <2>2. PICK j \in 1..Len(trades) : /\ s2 = [id |-> tx.trades[j].id, tx |-> tx.tx]
                                    /\ matched[s2.id] = trades[j]
    BY <1>11
  <2>3. i # j
    BY <1>14, <2>1, <2>2
  <2>4. i < j \/ j < i
    BY <2>3
  <2>5. \A k, l \in 1..Len(trades) : k < l => NonceKeys(trades[k]) \cap NonceKeys(trades[l]) = {}
    BY <1>6 DEF SoFar
  <2>6. NonceKeys(trades[i]) \cap NonceKeys(trades[j]) = {}
    BY <2>4, <2>5
  <2> QED BY <2>1, <2>2, <2>6
<1>15. SettledOnce(matched, settled \cup more)
  <2> SUFFICES ASSUME NEW s1 \in settled \cup more, NEW s2 \in settled \cup more, s1 # s2
               PROVE  NonceKeys(matched[s1.id]) \cap NonceKeys(matched[s2.id]) = {}
    BY DEF SettledOnce
  <2>1. CASE s1 \in settled /\ s2 \in settled
    BY <2>1 DEF Chain, SettledOnce
  <2>2. CASE s1 \in settled /\ s2 \in more
    BY <1>13, <2>2
  <2>3. CASE s1 \in more /\ s2 \in settled
    <3>1. NonceKeys(matched[s2.id]) \cap NonceKeys(matched[s1.id]) = {}
      BY <1>13, <2>3
    <3> QED BY <3>1
  <2>4. CASE s1 \in more /\ s2 \in more
    BY <1>14, <2>4
  <2> QED BY <2>1, <2>2, <2>3, <2>4
<1> QED BY <1>1, <1>7, <1>8, <1>9, <1>12, <1>15 DEF Chain

\* A batch that is mined settles, or changes nothing.
LEMMA MineBatchKeepsChain ==
  ASSUME IInv, Flow, Chain, MineBatch
  PROVE  Chain' /\ contract.usedNonces \subseteq contract'.usedNonces
<1>1. CASE Settling(Head(mempool)) /\ settled' = settled \cup TaggedWith(Head(mempool))
  BY <1>1, SettlingKeepsChain
<1>2. CASE ~Settling(Head(mempool)) /\ UNCHANGED settled
  <2>1. contract' = contract
    BY <1>2 DEF MineBatch, Executed, Settling
  <2> QED BY <1>2, <2>1 DEF Chain, MineBatch, history_vars
<1> QED BY <1>1, <1>2 DEF MineBatch

\* A cancel that is mined uses one nonce more.
LEMMA MineCancelKeepsChain ==
  ASSUME Chain, MineCancel
  PROVE  /\ Chain'
         /\ contract'.usedNonces = contract.usedNonces \cup {Head(mempool).key}
<1>1. contract' = [contract EXCEPT !.usedNonces = @ \cup {Head(mempool).key}]
  BY DEF MineCancel, Executed, CancelNonce
<1>2. UNCHANGED <<matched, held, settled>>
  BY DEF MineCancel, history_vars, outcome_vars
<1>3. /\ contract = [balances |-> contract.balances, usedNonces |-> contract.usedNonces]
      /\ contract.balances \in Balances
  BY DEF Chain, OwesWhatItHolds, ContractTyped
<1>4. /\ contract'.balances = contract.balances
      /\ contract'.usedNonces = contract.usedNonces \cup {Head(mempool).key}
      /\ contract' = [balances |-> contract'.balances, usedNonces |-> contract'.usedNonces]
  BY <1>1, <1>3
<1>5. ContractTyped(contract')
  BY <1>3, <1>4 DEF ContractTyped
<1>6. OwesWhatItHolds(contract', held)
  BY <1>4, <1>5 DEF Chain, OwesWhatItHolds
<1>7. NoncesKept(matched, settled, contract'.usedNonces)
  BY <1>4 DEF Chain, NoncesKept
<1> QED BY <1>2, <1>4, <1>6, <1>7 DEF Chain

\* What is put in, or taken out, is owed more, or less.
LEMMA TransferKeepsChain ==
  ASSUME Chain, NEW x \in Transfers, NEW amount \in Int,
         contract.balances[x.user][x.token] + amount >= 0,
         contract' = [contract EXCEPT !.balances[x.user][x.token] = @ + amount],
         held' = [held EXCEPT ![x.token] = @ + amount],
         UNCHANGED <<matched, settled>>
  PROVE  Chain' /\ contract'.usedNonces = contract.usedNonces
<1>1. PICK b, d, u, t : b = contract.balances /\ d = contract'.balances /\ u = x.user /\ t = x.token
  OBVIOUS
<1>2. u \in Users /\ t \in Tokens
  BY <1>1, ExchangeAssumption
<1>3. /\ contract = [balances |-> b, usedNonces |-> contract.usedNonces]
      /\ b \in Balances /\ Accounts(b)
      /\ held = [s \in Tokens |-> held[s]] /\ \A s \in Tokens : Total(b, s) = held[s]
  BY <1>1 DEF Chain, OwesWhatItHolds, ContractTyped, Accounts, Balances
<1>4. /\ d = Moved(b, u, t, amount) /\ contract'.usedNonces = contract.usedNonces
      /\ contract' = [balances |-> d, usedNonces |-> contract'.usedNonces]
  BY <1>1, <1>3 DEF Moved
<1>5. Moves(b, d, u, t, amount) /\ Accounts(d)
  BY <1>2, <1>3, <1>4, TotalAfterMove
<1>6. d \in Balances
  <2>1. \A v \in Users, s \in Tokens : b[v][s] \in Nat
    BY <1>3 DEF Balances
  <2>2. b[u][t] + amount >= 0
    BY <1>1
  <2>3. \A v \in Users, s \in Tokens : d[v][s] \in Nat
    BY <1>2, <1>5, <2>1, <2>2 DEF Moves
  <2> QED BY <1>5, <2>3 DEF Balances, Accounts
<1>7. ContractTyped(contract')
  BY <1>1, <1>4, <1>6 DEF ContractTyped
<1>8. OwesWhatItHolds(contract', held')
  <2>1. held' = [s \in Tokens |-> held'[s]]
    BY <1>1, <1>3
  <2>2. \A s \in Tokens : Total(d, s) = held'[s]
    BY <1>1, <1>2, <1>3, <1>5 DEF Moves
  <2> QED BY <1>1, <1>7, <2>1, <2>2 DEF OwesWhatItHolds
<1> QED BY <1>4, <1>8 DEF Chain

\* Deposits, withdrawals and time.
LEMMA ExchangeStepKeepsChain ==
  ASSUME Chain, ExchangeStep
  PROVE  Chain' /\ contract'.usedNonces = contract.usedNonces
<1>1. UNCHANGED <<matched, settled>>
  BY DEF ExchangeStep, history_vars, outcome_vars
<1>2. \A x \in Transfers : x.user \in Users /\ x.token \in Tokens /\ x.amount \in Nat
  BY ExchangeAssumption
<1>3. \A u \in Users, t \in Tokens : contract.balances[u][t] \in Nat
  BY DEF Chain, OwesWhatItHolds, ContractTyped, Balances
<1>4. ASSUME NEW x \in Transfers, Deposit(x.user, x.token, x.amount)
      PROVE  Chain' /\ contract'.usedNonces = contract.usedNonces
  <2>1. x.amount \in Int /\ contract.balances[x.user][x.token] + x.amount >= 0
    BY <1>2, <1>3
  <2> QED BY <1>1, <1>4, <2>1, TransferKeepsChain DEF Deposit
<1>5. ASSUME NEW x \in Transfers, Withdraw(x.user, x.token, x.amount)
      PROVE  Chain' /\ contract'.usedNonces = contract.usedNonces
  <2>1. PICK n : n = -x.amount
    OBVIOUS
  <2>2. \A k \in Int : k + n = k - x.amount
    BY <1>2, <2>1
  <2>3. n \in Int /\ contract.balances[x.user][x.token] + n >= 0
    BY <1>2, <1>3, <1>5, <2>1 DEF Withdraw
  <2>4. contract.balances[x.user][x.token] \in Int /\ held[x.token] \in Int
    <3>1. Accounts(contract.balances)
      BY DEF Chain, OwesWhatItHolds, ContractTyped, Balances, Accounts
    <3>2. PICK c : c = Moved(contract.balances, x.user, x.token, 0)
      OBVIOUS
    <3>3. Moves(contract.balances, c, x.user, x.token, 0)
      BY <1>2, <3>1, <3>2, TotalAfterMove
    <3> QED BY <1>2, <1>3, <3>3 DEF Moves, Chain, OwesWhatItHolds
  <2>5. /\ contract' = [contract EXCEPT !.balances[x.user][x.token] = @ + n]
        /\ held' = [held EXCEPT ![x.token] = @ + n]
    BY <1>5, <2>2, <2>4 DEF Withdraw
  <2> QED BY <1>1, <2>3, <2>5, TransferKeepsChain
<1>6. CASE BlockTime
  BY <1>1, <1>6 DEF BlockTime, Chain
<1> QED BY <1>4, <1>5, <1>6 DEF ExchangeStep

\* Every step keeps the chain's promises, and no nonce is ever free again.
LEMMA NextChain ==
  IInv /\ Flow /\ Chain /\ [Next]_vars => Chain' /\ contract.usedNonces \subseteq contract'.usedNonces
<1> SUFFICES ASSUME IInv, Flow, Chain, [Next]_vars
             PROVE  Chain' /\ contract.usedNonces \subseteq contract'.usedNonces
  OBVIOUS
<1> DEFINE Aside == UNCHANGED <<contract, held, matched, settled>>
<1> USE DEF vars, exchange_vars, history_vars, outcome_vars
<1>0. ASSUME Aside PROVE Chain' /\ contract.usedNonces \subseteq contract'.usedNonces
  BY <1>0 DEF Chain
<1>1. CASE UNCHANGED vars
  BY <1>0, <1>1
<1>2. ASSUME NEW t \in Trades, MatchTrade(t)
      PROVE  Chain' /\ contract.usedNonces \subseteq contract'.usedNonces
  BY <1>2, MatchTradeKeepsChain DEF MatchTrade
<1>3. ASSUME NEW order \in Cancels, CancelOrder(order) PROVE Aside
  BY <1>3 DEF CancelOrder
<1>4. CASE BatchLoop
  BY <1>0, <1>4 DEF BatchLoop, DrainBatch, SubmitBatch, EstimateFails, WatchReturns,
                    MarkRow, ConfirmTrades, DeleteConfirmed
<1>5. CASE SubmitFails \/ MarkFails
  BY <1>0, <1>5 DEF SubmitFails, MarkFails
<1>6. ASSUME NEW key \in retry.left, RetryCancel(key) PROVE Aside
  BY <1>6 DEF RetryCancel
<1>7. CASE CancelWatched \/ RetryFails \/ Restart
  BY <1>0, <1>7 DEF CancelWatched, RetryFails, Restart
<1>8. CASE MineBatch
  BY <1>8, MineBatchKeepsChain
<1>9. CASE MineCancel
  BY <1>9, MineCancelKeepsChain
<1>10. CASE ExchangeStep
  BY <1>10, ExchangeStepKeepsChain
<1> QED
  BY <1>0, <1>1, <1>2, <1>3, <1>4, <1>5, <1>6, <1>7, <1>8, <1>9, <1>10 DEF Next

\* What was settled stays settled once, and the contract owes what it holds.
THEOREM ChainInvariant == Spec => []Chain
<1>1. Init => Chain
  BY InitChain
<1>2. IInv /\ Flow /\ Chain /\ [Next]_vars => Chain'
  BY NextChain
<1> QED BY <1>1, <1>2, SettlementInvariant, TradesFlow, PTL DEF Spec

\* No order is settled in two trades and no trade in two batches, for any number
\* of trades, failures and restarts: the contract has seen their nonces.
THEOREM SettledAtMostOnce == Spec => []NoOrderSettledTwice
<1>1. Chain => NoOrderSettledTwice
  BY DEF Chain, SettledOnce, NoOrderSettledTwice
<1> QED BY <1>1, ChainInvariant, PTL

\* Whatever batches settle or revert, the contract holds exactly what it owes.
THEOREM ContractSolvent == Spec => []Solvent
<1>1. Chain => Solvent
  BY DEF Chain, OwesWhatItHolds, Solvent
<1> QED BY <1>1, ChainInvariant, PTL

-----------------------------------------------------------------------------
(* Cancels: the gateway, the table, the task that retries, the chain.      *)

RetryTyped(r) == r = [left |-> r.left, current |-> r.current, tx |-> r.tx]

\* The cancel that is watched is on its way, or has reached the chain.
CancelUnderWay(r, pool, used) ==
  r.current # NoRetry =>
    \/ r.current \in used
    \/ \E tx \in Items(pool) : tx.kind = "cancel" /\ tx.tx = r.tx /\ tx.key = r.current

Cancelling ==
  /\ RetryTyped(retry)
  /\ retry.left \cup ({retry.current} \ {NoRetry}) \subseteq cancelled
  /\ db.pending_cancels \subseteq cancelled
  /\ cancelled \subseteq {NonceKey(o) : o \in Cancels}
  /\ CancelUnderWay(retry, mempool, contract.usedNonces)
  /\ CancelsReachChain

\* At the start no order is cancelled.
LEMMA InitCancelling == Init => Cancelling
BY DEF Init, Cancelling, RetryTyped, CancelUnderWay, CancelsReachChain

\* Where the cancels are left alone and no nonce becomes free, all stays.
LEMMA AsideKeepsCancelling ==
  ASSUME Cancelling, UNCHANGED <<retry, cancelled>>, db'.pending_cancels = db.pending_cancels,
         contract.usedNonces \subseteq contract'.usedNonces, Items(mempool) \subseteq Items(mempool')
  PROVE  Cancelling'
BY DEF Cancelling, CancelUnderWay, CancelsReachChain

\* A cancel at the gateway is stored.
LEMMA CancelOrderKeepsCancelling ==
  ASSUME IInv, Cancelling, NEW order \in Cancels, CancelOrder(order)
  PROVE  Cancelling'
<1>1. PICK key : key = NonceKey(order)
  OBVIOUS
<1>2. /\ UNCHANGED <<contract, retry, mempool>> /\ cancelled' = cancelled \cup {key}
      /\ db'.pending_cancels = db.pending_cancels \cup {key}
  BY <1>1 DEF CancelOrder, exchange_vars, chain_vars, IInv, Shape
<1> QED BY <1>1, <1>2 DEF Cancelling, CancelUnderWay, CancelsReachChain

\* A cancel that is sent is on its way.
LEMMA RetryKeepsCancelling ==
  ASSUME IInv, Cancelling, NEW key \in retry.left, RetryCancel(key)
  PROVE  Cancelling'
<1>1. PICK tx : tx = [kind |-> "cancel", tx |-> sent + 1, key |-> key]
  OBVIOUS
<1>2. /\ UNCHANGED <<contract, cancelled, db>> /\ Send(tx)
      /\ retry' = [left |-> retry.left \ {key}, current |-> key, tx |-> sent + 1]
  BY <1>1 DEF RetryCancel, exchange_vars, history_vars
<1>3. Items(mempool') = Items(mempool) \cup {tx}
  BY <1>2, AppendItem DEF Send, IInv, Shape
<1>4. tx.kind = "cancel" /\ tx.tx = retry'.tx /\ tx.key = retry'.current
  BY <1>1, <1>2
<1>5. CancelUnderWay(retry', mempool', contract.usedNonces)
  BY <1>3, <1>4 DEF CancelUnderWay
<1> QED BY <1>2, <1>5 DEF Cancelling, RetryTyped, CancelsReachChain

\* A row is deleted when the chain has its nonce.
LEMMA WatchedKeepsCancelling ==
  ASSUME IInv, Cancelling, CancelWatched
  PROVE  Cancelling'
<1>1. /\ UNCHANGED <<contract, cancelled, mempool>>
      /\ db'.pending_cancels = db.pending_cancels \ {retry.current}
      /\ retry' = [retry EXCEPT !.current = NoRetry]
      /\ retry.current # NoRetry /\ ~InMempool(retry.tx)
  BY DEF CancelWatched, exchange_vars, history_vars, chain_vars, IInv, Shape
<1>2. retry.current \in contract.usedNonces
  BY <1>1 DEF Cancelling, CancelUnderWay, InMempool, Items
<1>3. retry'.left = retry.left /\ retry'.current = NoRetry /\ RetryTyped(retry')
  BY <1>1 DEF Cancelling, RetryTyped
<1> QED BY <1>1, <1>2, <1>3 DEF Cancelling, CancelUnderWay, CancelsReachChain

\* A cancel that fails is tried again at the next start, from its row.
LEMMA RetryFailsKeepsCancelling ==
  ASSUME Cancelling, RetryFails
  PROVE  Cancelling'
<1>1. UNCHANGED <<contract, cancelled, mempool, db>>
  BY DEF RetryFails, AfterFailedCancel, exchange_vars, history_vars, chain_vars
<1>2. retry'.left \subseteq retry.left /\ retry'.current = NoRetry /\ RetryTyped(retry')
  BY DEF RetryFails, Cancelling, RetryTyped
<1> QED BY <1>1, <1>2 DEF Cancelling, CancelUnderWay, CancelsReachChain

\* A restart takes all rows.
LEMMA RestartKeepsCancelling ==
  ASSUME Cancelling, Restart
  PROVE  Cancelling'
<1>1. /\ UNCHANGED <<contract, cancelled, mempool, db>>
      /\ retry' = [left |-> db.pending_cancels, current |-> NoRetry, tx |-> 0]
  BY DEF Restart, exchange_vars, history_vars, chain_vars
<1> QED BY <1>1 DEF Cancelling, CancelUnderWay, CancelsReachChain, RetryTyped

\* A cancel that is mined has reached the chain, and no batch is a cancel.
LEMMA MineKeepsCancelling ==
  ASSUME IInv, Cancelling, MineBatch \/ MineCancel,
         contract.usedNonces \subseteq contract'.usedNonces,
         MineCancel => Head(mempool).key \in contract'.usedNonces
  PROVE  Cancelling'
<1>1. /\ UNCHANGED <<cancelled, retry, db>>
      /\ mempool # <<>> /\ mempool' = Tail(mempool)
      /\ Head(mempool).kind = "cancel" => MineCancel
  BY DEF MineBatch, MineCancel, history_vars
<1>2. Items(mempool) = {Head(mempool)} \cup Items(mempool')
  BY <1>1, HeadAndTail DEF IInv, Shape
<1>3. CancelUnderWay(retry, mempool', contract'.usedNonces)
  BY <1>1, <1>2 DEF Cancelling, CancelUnderWay
<1> QED BY <1>1, <1>3 DEF Cancelling, CancelsReachChain

\* Every step keeps track of the cancels.
LEMMA NextCancelling == IInv /\ Flow /\ Chain /\ Cancelling /\ [Next]_vars => Cancelling'
<1> SUFFICES ASSUME IInv, Flow, Chain, Cancelling, [Next]_vars PROVE Cancelling'
  OBVIOUS
<1>0. contract.usedNonces \subseteq contract'.usedNonces
  BY NextChain
<1> USE DEF vars, history_vars, chain_vars
<1>1. CASE UNCHANGED vars
  BY <1>0, <1>1, AsideKeepsCancelling
<1>2. ASSUME NEW t \in Trades, MatchTrade(t) PROVE Cancelling'
  BY <1>0, <1>2, AsideKeepsCancelling DEF MatchTrade, IInv, Shape
<1>3. ASSUME NEW order \in Cancels, CancelOrder(order) PROVE Cancelling'
  BY <1>3, CancelOrderKeepsCancelling
<1>4. CASE SubmitBatch
  <2>1. Items(mempool) \subseteq Items(mempool')
    BY <1>4, AppendItem DEF SubmitBatch, Send, IInv, Shape
  <2> QED BY <1>0, <1>4, <2>1, AsideKeepsCancelling DEF SubmitBatch
<1>5. CASE SubmitFails
  <2>1. CASE UNCHANGED chain_vars
    BY <1>0, <1>5, <2>1, AsideKeepsCancelling DEF SubmitFails
  <2>2. CASE Send(BatchTx)
    <3>1. Items(mempool) \subseteq Items(mempool')
      BY <2>2, AppendItem DEF Send, IInv, Shape
    <3> QED BY <1>0, <1>5, <3>1, AsideKeepsCancelling DEF SubmitFails
  <2> QED BY <1>5, <2>1, <2>2 DEF SubmitFails
<1>6. CASE DrainBatch \/ EstimateFails \/ WatchReturns \/ ConfirmTrades \/ MarkFails \/ ExchangeStep
  BY <1>0, <1>6, AsideKeepsCancelling
     DEF DrainBatch, EstimateFails, WatchReturns, ConfirmTrades, MarkFails, ExchangeStep
<1>7. CASE MarkRow
  BY <1>0, <1>7, AsideKeepsCancelling DEF MarkRow, IInv, Shape
<1>8. CASE DeleteConfirmed
  BY <1>0, <1>8, AsideKeepsCancelling DEF DeleteConfirmed, IInv, Shape
<1>9. ASSUME NEW key \in retry.left, RetryCancel(key) PROVE Cancelling'
  BY <1>9, RetryKeepsCancelling
<1>10. CASE CancelWatched
  BY <1>10, WatchedKeepsCancelling
<1>11. CASE RetryFails
  BY <1>11, RetryFailsKeepsCancelling
<1>12. CASE MineBatch
  <2>1. ~MineCancel
    BY <1>12 DEF MineBatch, MineCancel
  <2> QED BY <1>0, <1>12, <2>1, MineKeepsCancelling
<1>13. CASE MineCancel
  BY <1>0, <1>13, MineCancelKeepsChain, MineKeepsCancelling
<1>14. CASE Restart
  BY <1>14, RestartKeepsCancelling
<1> QED
  BY <1>1, <1>2, <1>3, <1>4, <1>5, <1>6, <1>7, <1>8, <1>9, <1>10, <1>11, <1>12, <1>13, <1>14
     DEF Next, BatchLoop

\* The cancels are tracked in every state.
THEOREM CancelInvariant == Spec => []Cancelling
<1>1. Init => Cancelling
  BY InitCancelling
<1>2. IInv /\ Flow /\ Chain /\ Cancelling /\ [Next]_vars => Cancelling'
  BY NextCancelling
<1> QED BY <1>1, <1>2, SettlementInvariant, TradesFlow, ChainInvariant, PTL DEF Spec

\* A nonce that was cancelled at the gateway stays in the table until the chain has
\* it, whatever fails: the row is deleted only when its transaction is in a block.
THEOREM CancelsNeverLost == Spec => []CancelsReachChain
<1>1. Cancelling => CancelsReachChain
  BY DEF Cancelling
<1> QED BY <1>1, CancelInvariant, PTL

-----------------------------------------------------------------------------
(* Types.                                                                  *)

\* What one user owns of a token is part of what the contract owes.
LEMMA ShareOfTotal ==
  ASSUME NEW b \in Balances, NEW u \in Users, NEW t \in Tokens
  PROVE  b[u][t] \in 0..Total(b, t)
<1>1. PICK f, others : f = [v \in Users |-> b[v][t]] /\ others = Users \ {u}
  OBVIOUS
<1>2. (\A v \in Users : f[v] \in Nat /\ f[v] \in Int) /\ f[u] = b[u][t]
  BY <1>1 DEF Balances
<1>3. Total(b, t) = SumFunctionOnSet(f, Users)
  BY <1>1 DEF Total, SumFunction
<1>4. IsFiniteSet(Users) /\ IsFiniteSet(others) /\ \A v \in others : f[v] \in Nat
  BY <1>1, <1>2, ExchangeAssumption, FS_RemoveElement
<1>5. SumFunctionOnSet(f, Users) = f[u] + SumFunctionOnSet(f, others)
  BY <1>1, <1>2, <1>4, SumSplits
<1>6. SumFunctionOnSet(f, others) \in Nat
  BY <1>4, SumNat
<1> QED BY <1>2, <1>3, <1>5, <1>6

\* The failures that are counted are bounded.
LEMMA NextFaults == faults \in 0..MaxFaults /\ [Next]_vars => faults' \in 0..MaxFaults
<1> SUFFICES ASSUME faults \in 0..MaxFaults, [Next]_vars PROVE faults' \in 0..MaxFaults
  OBVIOUS
<1>1. Fault => faults' \in 0..MaxFaults
  BY MaxFaultsAssumption DEF Fault
<1> USE DEF vars
<1>2. CASE UNCHANGED vars
  BY <1>2
<1>3. ASSUME NEW t \in Trades, MatchTrade(t) PROVE faults' = faults
  BY <1>3 DEF MatchTrade
<1>4. ASSUME NEW order \in Cancels, CancelOrder(order) PROVE faults' = faults
  BY <1>4 DEF CancelOrder
<1>5. CASE BatchLoop
  BY <1>5 DEF BatchLoop, DrainBatch, SubmitBatch, EstimateFails, WatchReturns,
              MarkRow, ConfirmTrades, DeleteConfirmed
<1>6. CASE SubmitFails \/ MarkFails \/ RetryFails \/ Restart
  BY <1>1, <1>6 DEF SubmitFails, MarkFails, RetryFails, Restart
<1>7. ASSUME NEW key \in retry.left, RetryCancel(key) PROVE faults' = faults
  BY <1>7 DEF RetryCancel
<1>8. CASE CancelWatched \/ MineBatch \/ MineCancel \/ ExchangeStep
  BY <1>8 DEF CancelWatched, MineBatch, MineCancel, ExchangeStep
<1> QED BY <1>2, <1>3, <1>4, <1>5, <1>6, <1>7, <1>8 DEF Next

\* What the invariants say of the types.
LEMMA TypesFollow == IInv /\ Flow /\ Chain /\ Cancelling /\ faults \in 0..MaxFaults => TypeOK
<1> SUFFICES ASSUME IInv, Flow, Chain, Cancelling, faults \in 0..MaxFaults PROVE TypeOK
  OBVIOUS
<1>1. ToSet(matched) \subseteq Trades
  BY DEF ToSet, IInv, Shape
<1>2. /\ DOMAIN db.trades \subseteq Ids
      /\ \A id \in DOMAIN db.trades :
           db.trades[id].trade = matched[id] /\ db.trades[id].status \in Statuses
  <2>1. \A id \in DOMAIN db.trades :
          db.trades[id] = [trade |-> matched[id], status |-> db.trades[id].status]
    BY DEF Flow, RowsTyped
  <2>2. ASSUME NEW id \in DOMAIN db.trades PROVE db.trades[id].trade = matched[id]
    <3>1. PICK row, trade : row = db.trades[id] /\ trade = matched[id]
      OBVIOUS
    <3>2. row = [trade |-> trade, status |-> row.status]
      BY <2>1, <3>1
    <3> QED BY <3>1, <3>2
  <2> QED BY <2>2 DEF Flow, RowsTyped, Ids
<1>3. \A s : Carries(s, matched) => ToSet(s) \subseteq TaggedTrades
  BY DEF Carries, Items, ToSet, TaggedOf, TaggedTrades, Ids
<1>4. ToSet(pending_trades) \subseteq TaggedTrades /\ ToSet(batch.trades) \subseteq TaggedTrades
  BY <1>3 DEF Flow, InFlight
<1>5. /\ batch.stage \in {"idle", "submit", "watch", "submitted", "confirmed"}
      /\ IdsOf(batch.trades) \subseteq DOMAIN db.trades /\ batch.next \in 1..(Len(batch.trades) + 1)
  BY DEF Flow, LoopTyped, Stages, BatchAlone
<1>6. \A i \in DOMAIN mempool : mempool[i].tx \in 1..sent
  <2>1. Len(mempool) \in Nat /\ DOMAIN mempool = 1..Len(mempool)
    BY DEF IInv, Shape, IsQueue
  <2> QED BY <2>1 DEF Flow, Numbered
<1>7. \A u \in Users, t \in Tokens : contract.balances[u][t] \in 0..held[t]
  <2> TAKE u \in Users, t \in Tokens
  <2>1. contract.balances \in Balances /\ Total(contract.balances, t) = held[t]
    BY DEF Chain, OwesWhatItHolds, ContractTyped
  <2>2. contract.balances[u][t] \in 0..Total(contract.balances, t)
    BY <2>1, ShareOfTotal
  <2> QED BY <2>1, <2>2
<1> QED BY <1>1, <1>2, <1>4, <1>5, <1>6, <1>7 DEF TypeOK, Cancelling

\* The variables stay in their types; what the loop carries are rows of the table.
THEOREM SettlementTyped == Spec => []TypeOK
<1>1. Init => faults \in 0..MaxFaults
  BY MaxFaultsAssumption DEF Init
<1>2. faults \in 0..MaxFaults /\ [Next]_vars => (faults \in 0..MaxFaults)'
  BY NextFaults
<1> QED BY <1>1, <1>2, TypesFollow, SettlementInvariant, TradesFlow, ChainInvariant, CancelInvariant,
           PTL DEF Spec

-----------------------------------------------------------------------------
(* The life of a trade.                                                    *)

\* There are no more ids than trades, since no trade is found twice.
LEMMA EnoughIds ==
  ASSUME NEW m \in Seq(Trades), Once(m)
  PROVE  Len(m) <= Cardinality(Trades) /\ Cardinality(Trades) \in Nat
<1>1. PICK n, ids : n = Len(m) /\ ids = 1..n
  OBVIOUS
<1>2. n \in Nat /\ m \in [ids -> Trades]
  BY <1>1
<1>3. IsFiniteSet(Trades)
  BY TradesAssumption
<1>4. m \in Injection(ids, Trades)
  BY <1>1, <1>2 DEF Once, Injection, IsInjective
<1>5. Cardinality(ids) <= Cardinality(Trades)
  BY <1>3, <1>4, FS_Injection
<1>6. Cardinality(ids) = n
  <2>1. 1 \in Int /\ n \in Int /\ n - 1 + 1 = n /\ (1 > n => n = 0)
    BY <1>2
  <2>2. Cardinality(1..n) = IF 1 > n THEN 0 ELSE n - 1 + 1
    BY <2>1, FS_Interval
  <2> QED BY <1>1, <2>1, <2>2
<1> QED BY <1>1, <1>3, <1>5, <1>6, FS_CardinalityType

\* Ids that were settled were given out.
LEMMA SettledAreIds == Chain => SettledIds \subseteq Ids
BY DEF Chain, NoncesKept, SettledIds, Ids

\* A trade that is found waits.
LEMMA MatchTradeIsMatch ==
  ASSUME IInv, Flow, Chain, NEW t \in Trades, MatchTrade(t), Flow'
  PROVE  Lifecycle!Next
<1>1. PICK id : id = NextTradeId
  OBVIOUS
<1>2. /\ matched \in Seq(Trades) /\ matched' = Append(matched, t) /\ settled' = settled
      /\ DOMAIN db'.trades = DOMAIN db.trades \cup {id}
  BY <1>1 DEF IInv, Shape, MatchTrade, outcome_vars
<1>3. /\ matched' \in Seq(Trades) /\ Len(matched') = id /\ Len(matched) \in Nat
      /\ id = Len(matched) + 1
  BY <1>1, <1>2 DEF NextTradeId
<1>4. id \in 1..Cardinality(Trades)
  <2>1. Once(matched')
    BY DEF Flow
  <2>2. id <= Cardinality(Trades) /\ Cardinality(Trades) \in Nat
    BY <1>3, <2>1, EnoughIds
  <2> QED BY <1>3, <2>2
<1>5. Ids' = Ids \cup {id} /\ id \notin Ids
  BY <1>3 DEF Ids
<1>6. SettledIds \subseteq Ids /\ DOMAIN db.trades \subseteq Ids /\ SettledIds' = SettledIds
  BY <1>2, SettledAreIds DEF Flow, RowsTyped, Ids, SettledIds
<1>7. Lifecycle!Match(id)
  BY <1>2, <1>5, <1>6 DEF Lifecycle!Match
<1> QED BY <1>4, <1>7 DEF Lifecycle!Next

\* A batch that settles takes trades that wait.
LEMMA MineBatchIsSettle ==
  ASSUME IInv, Flow, Chain, MineBatch
  PROVE  Lifecycle!Next \/ UNCHANGED Lifecycle!vars
<1>1. PICK ids : ids = IdsOf(Head(mempool).trades)
  OBVIOUS
<1>2. UNCHANGED <<matched, db>>
  BY DEF MineBatch, history_vars
<1>3. CASE settled' = settled
  BY <1>2, <1>3 DEF Lifecycle!vars, SettledIds, Ids
<1>4. CASE settled' = settled \cup TaggedWith(Head(mempool))
  <2>1. Head(mempool) \in Batches(mempool)
    BY HeadAndTail DEF MineBatch, Batches, IInv, Shape
  <2>2. ids \subseteq DOMAIN db.trades
    <3>1. Carries(Head(mempool).trades, matched) /\ Undone(Head(mempool).trades, matched, db.trades)
      BY <2>1 DEF Flow, InFlight, DoneForGood
    <3>2. ids \subseteq 1..Len(matched)
      BY <1>1, <3>1, CarriedIds
    <3> QED BY <1>1, <3>1, <3>2 DEF Undone, Done
  <2>3. SettledIds' = SettledIds \cup ids
    <3>1. \A s \in TaggedWith(Head(mempool)) : s.id \in ids
      BY <1>1 DEF TaggedWith
    <3>2. \A id \in ids : \E s \in TaggedWith(Head(mempool)) : s.id = id
      <4> TAKE id \in ids
      <4>1. [id |-> id, tx |-> Head(mempool).tx] \in TaggedWith(Head(mempool))
        BY <1>1 DEF TaggedWith
      <4> QED BY <4>1
    <3> QED BY <1>4, <3>1, <3>2 DEF SettledIds
  <2>4. PICK batch_ids : batch_ids = ids \ SettledIds
    OBVIOUS
  <2>5. batch_ids \in SUBSET (DOMAIN db.trades \ SettledIds)
    BY <2>2, <2>4
  <2>6. Lifecycle!Settle(batch_ids)
    BY <1>2, <2>2, <2>3, <2>4 DEF Lifecycle!Settle, Ids
  <2> QED BY <2>5, <2>6 DEF Lifecycle!Next
<1> QED BY <1>3, <1>4 DEF MineBatch

\* Deleting the confirmed rows gives up those that were not settled.
LEMMA DeleteIsGiveUp ==
  ASSUME IInv, Flow, DeleteConfirmed
  PROVE  Lifecycle!Next
<1>1. UNCHANGED <<matched, settled>> /\ DOMAIN db'.trades = DOMAIN db.trades \ ConfirmedRows
  BY DEF DeleteConfirmed, history_vars, outcome_vars, IInv, Shape
<1>2. PICK given_up : given_up = ConfirmedRows \ SettledIds
  OBVIOUS
<1>3. ConfirmedRows \subseteq DOMAIN db.trades /\ DOMAIN db.trades \subseteq Ids
  BY DEF ConfirmedRows, Flow, RowsTyped, Ids
<1>4. given_up \in SUBSET (DOMAIN db.trades \ SettledIds)
  BY <1>2, <1>3
<1>5. SettledIds' = SettledIds /\ Ids' = Ids
  BY <1>1 DEF SettledIds, Ids
<1>6. Lifecycle!GiveUp(given_up)
  BY <1>1, <1>2, <1>3, <1>5 DEF Lifecycle!GiveUp
<1> QED BY <1>4, <1>6 DEF Lifecycle!Next

\* What touches neither the rows nor the settled trades is not seen.
LEMMA OthersStutter ==
  ASSUME UNCHANGED <<matched, settled>>, DOMAIN db'.trades = DOMAIN db.trades
  PROVE  UNCHANGED Lifecycle!vars
BY DEF Lifecycle!vars, SettledIds, Ids

\* Every step is a step of a trade's life, or is not seen.
LEMMA StepIsLife ==
  IInv /\ Flow /\ Chain /\ [Next]_vars /\ Flow' => [Lifecycle!Next]_(Lifecycle!vars)
<1> SUFFICES ASSUME IInv, Flow, Chain, [Next]_vars, Flow'
             PROVE  Lifecycle!Next \/ UNCHANGED Lifecycle!vars
  OBVIOUS
<1> USE DEF vars, loop_vars, chain_vars, history_vars, outcome_vars
<1>1. CASE UNCHANGED vars
  BY <1>1, OthersStutter
<1>2. ASSUME NEW t \in Trades, MatchTrade(t) PROVE Lifecycle!Next
  BY <1>2, MatchTradeIsMatch
<1>3. ASSUME NEW order \in Cancels, CancelOrder(order) PROVE UNCHANGED Lifecycle!vars
  BY <1>3, OthersStutter DEF CancelOrder, IInv, Shape
<1>4. CASE DrainBatch \/ SubmitBatch \/ EstimateFails \/ WatchReturns \/ ConfirmTrades
  BY <1>4, OthersStutter DEF DrainBatch, SubmitBatch, EstimateFails, WatchReturns, ConfirmTrades
<1>5. CASE MarkRow
  BY <1>5, OthersStutter DEF MarkRow, IInv, Shape
<1>6. CASE DeleteConfirmed
  BY <1>6, DeleteIsGiveUp
<1>7. CASE SubmitFails \/ MarkFails \/ ExchangeStep \/ Restart
  BY <1>7, OthersStutter DEF SubmitFails, MarkFails, ExchangeStep, Restart
<1>8. ASSUME NEW key \in retry.left, RetryCancel(key) PROVE UNCHANGED Lifecycle!vars
  BY <1>8, OthersStutter DEF RetryCancel
<1>9. CASE CancelWatched
  BY <1>9, OthersStutter DEF CancelWatched, IInv, Shape
<1>10. CASE RetryFails
  BY <1>10, OthersStutter DEF RetryFails, AfterFailedCancel
<1>11. CASE MineBatch
  BY <1>11, MineBatchIsSettle
<1>12. CASE MineCancel
  BY <1>12, OthersStutter DEF MineCancel
<1> QED
  BY <1>1, <1>2, <1>3, <1>4, <1>5, <1>6, <1>7, <1>8, <1>9, <1>10, <1>11, <1>12
     DEF Next, BatchLoop

\* To those who look at the table and the chain, every trade waits until it is
\* settled with its batch, once, or given up; and nothing given up ever settles.
THEOREM SettlementImplementsLifecycle == Spec => ImplementsLifecycle
<1>1. Init => Lifecycle!Init
  <2> SUFFICES ASSUME Init PROVE Lifecycle!Init
    OBVIOUS
  <2>1. SettledIds = {} /\ DOMAIN db.trades = {} /\ Ids = {}
    BY DEF Init, SettledIds, EmptyTable, Ids
  <2> QED BY <2>1 DEF Lifecycle!Init
<1>2. IInv /\ Flow /\ Chain /\ [Next]_vars /\ Flow' => [Lifecycle!Next]_(Lifecycle!vars)
  BY StepIsLife
<1> QED BY <1>1, <1>2, SettlementInvariant, TradesFlow, ChainInvariant, PTL
           DEF Spec, ImplementsLifecycle, Lifecycle!Spec
=============================================================================
