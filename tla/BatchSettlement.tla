---------------------------- MODULE BatchSettlement ----------------------------
(***************************************************************************)
(* The batch loop (crates/gateway/src/batch.rs) between the trades of the  *)
(* gateway, their rows in the database, the settlement backend             *)
(* (crates/settlement-evm) and the contract; and the on-chain cancels that *)
(* main.rs retries beside it.                                              *)
(*                                                                         *)
(* A call to the chain sends a transaction and watches for it: the call    *)
(* may fail before the transaction is sent, after that, or while it is     *)
(* watched, and the transaction may be mined all the same. It is mined     *)
(* in the order it was sent, since one account sends all of them.          *)
(***************************************************************************)
EXTENDS Exchange

CONSTANTS Trades,      \* the trades the engine may find
          Cancels,     \* orders that users may cancel at the gateway
          MaxFaults    \* bound: failed calls, failed writes, crashes

\* (That Trades is finite is a bound.)
ASSUME TradesAssumption ==
  /\ IsFiniteSet(Trades)
  /\ \A trade \in Trades :
       /\ trade.quantity \in Nat /\ trade.price \in Nat
       /\ {trade.maker_order.maker, trade.taker_order.maker} \subseteq Users
       /\ {trade.maker_order.base_token, trade.maker_order.quote_token} \subseteq Tokens

ASSUME MaxFaultsAssumption == MaxFaults \in Nat

VARIABLES
  pending_trades,   \* AppState: trades waiting for a batch, [id, trade]
  batch,            \* locals of batch_loop: [stage, trades, next, tx]
  retry,            \* the task that retries cancels: [left, current, tx]
  db,               \* the tables: [trades, pending_cancels]
  mempool,          \* transactions sent and not mined yet
  sent,             \* how many transactions were sent
  \* bookkeeping
  matched,          \* all trades ever found; a trade's id is its place here
  settled, rejected,\* [id, tx]: settled, and sent in a batch that reverted
  failed,           \* trades this process has given up on after a failure
  cancelled,        \* nonces cancelled at the gateway
  faults

db_vars == <<db>>
loop_vars == <<pending_trades, batch, failed>>
chain_vars == <<mempool, sent>>
history_vars == <<matched, cancelled>>
outcome_vars == <<settled, rejected>>
vars == <<exchange_vars, loop_vars, retry, db, chain_vars, history_vars, outcome_vars, faults>>

Idle == [stage |-> "idle", trades |-> <<>>, next |-> 1, tx |-> 0]
NoRetry == [maker |-> "none"]

EmptyTable == [id \in {} |-> {}]

IdsOf(trades) == {trades[i].id : i \in DOMAIN trades}

Init ==
  /\ ExchangeInit
  /\ pending_trades = <<>> /\ batch = Idle /\ failed = {}
  /\ retry = [left |-> {}, current |-> NoRetry, tx |-> 0]
  /\ db = [trades |-> EmptyTable, pending_cancels |-> {}]
  /\ mempool = <<>> /\ sent = 0
  /\ matched = <<>> /\ cancelled = {} /\ settled = {} /\ rejected = {}
  /\ faults = 0

Fault == faults < MaxFaults /\ faults' = faults + 1

-----------------------------------------------------------------------------
(* The gateway                                                             *)

\* AUTOINCREMENT: an id is never used again.
NextTradeId == Len(matched) + 1

\* A trade is stored by the transaction of its submission, then waits in memory.
MatchTrade(trade) ==
  /\ trade \notin ToSet(matched) /\ NonceKeys(trade) \cap cancelled = {}
  /\ matched' = Append(matched, trade)
  /\ db' = [db EXCEPT !.trades = [id \in DOMAIN @ \cup {NextTradeId} |->
                        IF id = NextTradeId THEN [trade |-> trade, status |-> "pending"] ELSE @[id]]]
  /\ pending_trades' = Append(pending_trades, [id |-> NextTradeId, trade |-> trade])
  /\ UNCHANGED <<exchange_vars, batch, failed, retry, chain_vars, cancelled, outcome_vars, faults>>

Filled(order) ==
  MapThenSumSet(LAMBDA i : IF NonceKey(order) \in NonceKeys(matched[i]) THEN matched[i].quantity ELSE 0,
                DOMAIN matched)

\* The cancel of an order that is not filled stores that its nonce is still to be
\* cancelled on chain; the order is not matched any more.
CancelOrder(order) ==
  /\ NonceKey(order) \notin cancelled /\ Filled(order) < order.quantity
  /\ cancelled' = cancelled \cup {NonceKey(order)}
  /\ db' = [db EXCEPT !.pending_cancels = @ \cup {NonceKey(order)}]
  /\ UNCHANGED <<exchange_vars, loop_vars, retry, chain_vars, matched, outcome_vars, faults>>

-----------------------------------------------------------------------------
(* The batch loop                                                          *)

\* Mutant: the trades are copied, not taken.
KeepPending == pending_trades

AfterDrain == <<>>

\* After the timeout the loop takes all waiting trades, under the lock.
DrainBatch ==
  /\ batch.stage = "idle" /\ pending_trades # <<>>
  /\ batch' = [Idle EXCEPT !.stage = "submit", !.trades = pending_trades]
  /\ pending_trades' = AfterDrain
  /\ UNCHANGED <<exchange_vars, failed, retry, db, chain_vars, history_vars, outcome_vars, faults>>

Send(tx) == mempool' = Append(mempool, tx) /\ sent' = sent + 1

JustTrades(tagged) == [i \in DOMAIN tagged |-> tagged[i].trade]

\* The contract after a transaction; one that reverts leaves it alone.
Executed(c, tx) ==
  CASE tx.kind = "cancel" -> CancelNonce(c, tx.key)
    [] tx.kind = "batch" ->
         LET result == SettleBatch(c, JustTrades(tx.trades))
         IN  IF result = Reverted THEN c ELSE result

BatchTx == [kind |-> "batch", tx |-> sent + 1, trades |-> batch.trades]

\* The node estimates the gas of a call on its latest block or on what it expects
\* of the next one; a call that reverts there is an error.
Estimates == {contract, FoldLeft(Executed, contract, mempool)}

Reverts(c) == SettleBatch(c, JustTrades(batch.trades)) = Reverted

SubmitBatch ==
  /\ batch.stage = "submit" /\ \E c \in Estimates : ~Reverts(c)
  /\ Send(BatchTx)
  /\ batch' = [batch EXCEPT !.stage = "watch", !.tx = sent + 1]
  /\ UNCHANGED <<exchange_vars, pending_trades, failed, retry, db, history_vars, outcome_vars, faults>>

\* The locals are gone; the rows stay as they are.
GiveUpBatch == batch' = Idle /\ failed' = failed \cup IdsOf(batch.trades)

EstimateFails ==
  /\ batch.stage = "submit" /\ \E c \in Estimates : Reverts(c)
  /\ GiveUpBatch
  /\ UNCHANGED <<exchange_vars, pending_trades, retry, db, chain_vars, history_vars, outcome_vars,
                 faults>>

\* submit_batch returns another error: the transaction was not sent, or it was and
\* is not watched.
SubmitFails ==
  /\ batch.stage \in {"submit", "watch"} /\ Fault
  /\ \/ UNCHANGED chain_vars
     \/ batch.stage = "submit" /\ (\E c \in Estimates : ~Reverts(c)) /\ Send(BatchTx)
  /\ GiveUpBatch
  /\ UNCHANGED <<exchange_vars, pending_trades, retry, db, history_vars, outcome_vars>>

InMempool(tx) == \E i \in DOMAIN mempool : mempool[i].tx = tx

\* Mutant: a batch that is sent counts as mined.
SentIsMined == TRUE

\* Mutant: a batch that reverts is watched for ever.
WatchedUntilSettled == \E s \in settled : s.tx = batch.tx

Mined == ~InMempool(batch.tx)

\* watch() returns when the transaction is in a block, whether it reverted or not.
WatchReturns ==
  /\ batch.stage = "watch" /\ Mined
  /\ batch' = [batch EXCEPT !.stage = "submitted", !.next = 1]
  /\ UNCHANGED <<exchange_vars, pending_trades, failed, retry, db, chain_vars, history_vars,
                 outcome_vars, faults>>

\* mark_trades_submitted, then mark_trades_confirmed: a row at a time.
MarkRow ==
  /\ batch.stage \in {"submitted", "confirmed"} /\ batch.next \in DOMAIN batch.trades
  /\ db' = [db EXCEPT !.trades[batch.trades[batch.next].id].status = batch.stage]
  /\ batch' = [batch EXCEPT !.next = @ + 1]
  /\ UNCHANGED <<exchange_vars, pending_trades, failed, retry, chain_vars, history_vars,
                 outcome_vars, faults>>

ConfirmTrades ==
  /\ batch.stage = "submitted" /\ batch.next \notin DOMAIN batch.trades
  /\ batch' = [batch EXCEPT !.stage = "confirmed", !.next = 1]
  /\ UNCHANGED <<exchange_vars, pending_trades, failed, retry, db, chain_vars, history_vars,
                 outcome_vars, faults>>

ConfirmedRows == {id \in DOMAIN db.trades : db.trades[id].status = "confirmed"}

DeleteConfirmed ==
  /\ batch.stage = "confirmed" /\ batch.next \notin DOMAIN batch.trades
  /\ db' = [db EXCEPT !.trades = [id \in DOMAIN @ \ ConfirmedRows |-> @[id]]]
  /\ batch' = Idle
  /\ UNCHANGED <<exchange_vars, pending_trades, failed, retry, chain_vars, history_vars,
                 outcome_vars, faults>>

\* A failed write is logged, and the rest is not written.
MarkFails ==
  /\ batch.stage \in {"submitted", "confirmed"} /\ Fault
  /\ GiveUpBatch
  /\ UNCHANGED <<exchange_vars, pending_trades, retry, db, chain_vars, history_vars, outcome_vars>>

BatchLoop ==
  \/ DrainBatch \/ SubmitBatch \/ EstimateFails \/ WatchReturns
  \/ MarkRow \/ ConfirmTrades \/ DeleteConfirmed

-----------------------------------------------------------------------------
(* Retrying cancels                                                        *)

RetryCancel(key) ==
  /\ retry.current = NoRetry /\ key \in retry.left
  /\ Send([kind |-> "cancel", tx |-> sent + 1, key |-> key])
  /\ retry' = [left |-> retry.left \ {key}, current |-> key, tx |-> sent + 1]
  /\ UNCHANGED <<exchange_vars, loop_vars, db, history_vars, outcome_vars, faults>>

CancelWatched ==
  /\ retry.current # NoRetry /\ ~InMempool(retry.tx)
  /\ db' = [db EXCEPT !.pending_cancels = @ \ {retry.current}]
  /\ retry' = [retry EXCEPT !.current = NoRetry]
  /\ UNCHANGED <<exchange_vars, loop_vars, chain_vars, history_vars, outcome_vars, faults>>

\* Mutant: a cancel that failed is deleted too.
DropFailedCancel == [db EXCEPT !.pending_cancels = @ \ {retry.current}]

AfterFailedCancel == db

\* cancel_nonce returns an error, before or after its transaction is sent: the row
\* stays for the next start.
RetryFails ==
  /\ Fault
  /\ \/ /\ retry.current # NoRetry
        /\ retry' = [retry EXCEPT !.current = NoRetry]
     \/ /\ retry.current = NoRetry
        /\ \E key \in retry.left : retry' = [retry EXCEPT !.left = @ \ {key}]
  /\ db' = AfterFailedCancel
  /\ UNCHANGED <<exchange_vars, loop_vars, chain_vars, history_vars, outcome_vars>>

-----------------------------------------------------------------------------
(* The chain, and the process                                              *)

TaggedWith(tx) == {[id |-> id, tx |-> tx.tx] : id \in IdsOf(tx.trades)}

Settling(tx) == SettleBatch(contract, JustTrades(tx.trades)) # Reverted

MineBatch ==
  /\ mempool # <<>> /\ Head(mempool).kind = "batch"
  /\ \/ /\ Settling(Head(mempool))
        /\ settled' = settled \cup TaggedWith(Head(mempool))
        /\ UNCHANGED rejected
     \/ /\ ~Settling(Head(mempool))
        /\ rejected' = rejected \cup TaggedWith(Head(mempool))
        /\ UNCHANGED settled
  /\ contract' = Executed(contract, Head(mempool))
  /\ mempool' = Tail(mempool)
  /\ UNCHANGED <<held, block_timestamp, loop_vars, retry, db, sent, history_vars, faults>>

MineCancel ==
  /\ mempool # <<>> /\ Head(mempool).kind = "cancel"
  /\ contract' = Executed(contract, Head(mempool))
  /\ mempool' = Tail(mempool)
  /\ UNCHANGED <<held, block_timestamp, loop_vars, retry, db, sent, history_vars, outcome_vars, faults>>

\* Deposits and withdrawals that the gateway does not see here, and time.
ExchangeStep ==
  /\ \/ \E x \in Transfers : Deposit(x.user, x.token, x.amount)
     \/ \E x \in Transfers : Withdraw(x.user, x.token, x.amount)
     \/ BlockTime
  /\ UNCHANGED <<loop_vars, retry, db, chain_vars, history_vars, outcome_vars, faults>>

Rows(status) == {id \in DOMAIN db.trades : db.trades[id].status = status}

\* In the order of the table: k - 1 of the ids come before the k-th.
Ascending(ids) ==
  [k \in 1..Cardinality(ids) |-> CHOOSE id \in ids : Cardinality({i \in ids : i < id}) = k - 1]

Tagged(ids) ==
  LET ordered == Ascending(ids)
  IN  [i \in DOMAIN ordered |-> [id |-> ordered[i], trade |-> db.trades[ordered[i]].trade]]

\* Mutant: what was sent before is not sent again.
LoadPendingOnly == Tagged(Rows("pending"))

\* The index on the status yields the pending rows first.
LoadPendingTrades == Tagged(Rows("pending")) \o Tagged(Rows("submitted"))

\* The process dies and is started again. Transactions on their way stay there.
Restart ==
  /\ Fault
  /\ pending_trades' = LoadPendingTrades /\ batch' = Idle /\ failed' = {}
  /\ retry' = [left |-> db.pending_cancels, current |-> NoRetry, tx |-> 0]
  /\ UNCHANGED <<exchange_vars, db, chain_vars, history_vars, outcome_vars>>

Next ==
  \/ \E t \in Trades : MatchTrade(t)
  \/ \E order \in Cancels : CancelOrder(order)
  \/ BatchLoop
  \/ SubmitFails
  \/ MarkFails
  \/ \E key \in retry.left : RetryCancel(key)
  \/ CancelWatched
  \/ RetryFails
  \/ MineBatch
  \/ MineCancel
  \/ ExchangeStep
  \/ Restart

\* The loop wakes up every few seconds, and the chain goes on.
Fairness == WF_vars(BatchLoop) /\ WF_vars(MineBatch \/ MineCancel)

Spec == Init /\ [][Next]_vars /\ Fairness

-----------------------------------------------------------------------------
(* Properties                                                              *)

Statuses == {"pending", "submitted", "confirmed"}

Ids == 1..Len(matched)

TaggedTrades == {[id |-> id, trade |-> matched[id]] : id \in Ids}

\* The variables stay in their types; what the loop carries are rows of the table.
TypeOK ==
  /\ ToSet(matched) \subseteq Trades /\ cancelled \subseteq {NonceKey(o) : o \in Cancels}
  /\ DOMAIN db.trades \subseteq Ids
  /\ \A id \in DOMAIN db.trades :
       db.trades[id].trade = matched[id] /\ db.trades[id].status \in Statuses
  /\ db.pending_cancels \subseteq cancelled
  /\ ToSet(pending_trades) \subseteq TaggedTrades
  /\ batch.stage \in {"idle", "submit", "watch", "submitted", "confirmed"}
  /\ ToSet(batch.trades) \subseteq TaggedTrades /\ IdsOf(batch.trades) \subseteq DOMAIN db.trades
  /\ batch.next \in 1..(Len(batch.trades) + 1)
  /\ retry.left \cup ({retry.current} \ {NoRetry}) \subseteq cancelled
  /\ \A i \in DOMAIN mempool : mempool[i].tx \in 1..sent
  /\ \A u \in Users, t \in Tokens : contract.balances[u][t] \in 0..held[t]
  /\ faults \in 0..MaxFaults

SettledIds == {s.id : s \in settled}
RejectedIds == {s.id : s \in rejected}

\* No order is settled in two trades, and no trade twice, however often a batch
\* is sent again after a failure or a crash.
NoOrderSettledTwice ==
  \A s1, s2 \in settled :
    s1 # s2 => NonceKeys(matched[s1.id]) \cap NonceKeys(matched[s2.id]) = {}

\* A trade may leave the database only after the chain has answered for it: until
\* it was settled, or sent in a batch that reverted, its row is there.
TradesAccounted == \A id \in Ids : id \in DOMAIN db.trades \cup SettledIds \cup RejectedIds

\* A trade whose row is not confirmed is on its way (waiting for a batch, or in
\* one), or this process has seen its batch fail: then it waits for a restart.
NothingForgotten ==
  \A id \in Rows("pending") \cup Rows("submitted") :
    id \in IdsOf(pending_trades) \cup IdsOf(batch.trades) \cup failed

\* The contract owns what it owes, whatever batches settle or revert.
Solvent == \A t \in Tokens : Total(contract.balances, t) = held[t]

\* A nonce cancelled at the gateway stays on the list until the chain has it.
CancelsReachChain == cancelled \subseteq db.pending_cancels \cup contract.usedNonces

\* To those who look at the table and the chain, a trade waits, is settled once or
\* is given up for good.
Lifecycle ==
  INSTANCE TradeLifecycle WITH
    Ids     <- 1..Cardinality(Trades),
    waiting <- DOMAIN db.trades \ SettledIds,
    settled <- SettledIds,
    lost    <- Ids \ (DOMAIN db.trades \cup SettledIds)

ImplementsLifecycle == Lifecycle!Spec

\* The loop always comes to rest with nothing waiting, and what it leaves in the
\* table are trades of batches that failed.
BatchesDrained ==
  <>[](/\ pending_trades = <<>> /\ batch = Idle
       /\ Rows("pending") \cup Rows("submitted") \subseteq failed)

-----------------------------------------------------------------------------
(* What the log says, and the code does not do                             *)

\* "batch settled on-chain" (batch.rs): a batch whose trades are being marked is
\* settled.
MarkedIsSettled ==
  batch.stage \in {"submitted", "confirmed"} => IdsOf(batch.trades) \subseteq SettledIds
=============================================================================
