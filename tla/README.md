# A formal model of the off-chain exchange

TLA+ modules that model the gateway of this repository: an order book that matches in memory, a
ledger of deposits, a SQLite database it recovers from, and an Ethereum contract that settles.
Paths below are relative to `crates/` unless they say otherwise.

## 1. The system

| Component | Code | State | Operations | Hard about it |
|---|---|---|---|---|
| order book | `matching-engine/src/book.rs` | two maps from prices to queues, an index from ids to places | insert, cancel, take_best_ask/bid, has_order, totals | two structures that must agree; an empty level makes `expect` panic |
| matching engine | `matching-engine/src/engine.rs` | the book, the next id | submit (limit, market), cancel, restore_order, set_next_id | matching loop, all-or-nothing market orders, priority across restarts |
| ledger | `gateway/src/ledger.rs` | available and reserved, by user and token | credit, reserve, release, settle_fill | unchecked U256 subtraction, rounding |
| gateway state | `gateway/src/state.rs` | engine, ledger, accepted hashes, signed orders and cancel entries by id, trades waiting for a batch | submit_order, cancel_order, drain_batch | many pieces of state per handler, each copied at a different moment |
| persistence | `persistence/src/lib.rs` | balances, orders, trades, nonces, pending cancels, sync cursor | one transaction per submission and per cancel; loads; pruning | what is stored must be enough to come back |
| recovery | `gateway/src/main.rs` | none of its own | load, restore, retry cancels, sync deposits, serve, prune hourly | crashes between any two steps, expiry while down |
| deposit service | `gateway/src/deposit.rs` | the last persisted block | historical sync by chunks, live subscription, reconnection | credit, balance row and cursor are separate steps |
| batch loop | `gateway/src/batch.rs` | the batch under way | drain, submit, mark | failure after draining, crash around submission |
| settlement backend | `settlement-core`, `settlement-evm` | none | submit_batch, cancel_nonce, deposit stream | a transaction that is mined and reverted |
| exchange contract | `contracts/src/Exchange.sol` (beside `crates/`) | balances, used nonces | deposit, withdraw, cancelNonce, settleBatch | nonces are used once, a batch reverts as a whole |
| WebSocket feed | `gateway/src/ws.rs`, `ws_registry.rs` | connections by address | register, send_to, remove | messages are sent after the state's lock is dropped |
| routes, signatures, types, CLI, mock token | `gateway/src/routes.rs`, `eip712.rs`, `types`, `cli`, `contracts/src/MockERC20.sol` | none | formats and cryptography | |

How they interact. HTTP handlers, the deposit tasks and the batch loop share one
`Mutex<AppState>`; whoever holds it runs a handler from start to end, and the database has a
mutex of its own inside. `submit_order` calls the engine once and then works through the fills
it returned: each is settled in the ledger, then what rests is entered in the two maps, then one
database transaction stores everything, and a failure of that transaction ends the process.
`cancel_order` removes the order, releases its collateral, makes its transaction, and then
cleans the maps. The batch loop drains the trades under the lock and talks to the chain without
it. On start, `main` reads the database, restores the resting orders, syncs deposits and only
then serves.

What makes the parts correct:

* book and engine: index and levels agree, the book is never crossed, price-time priority,
  market orders filled completely or not at all;
* gateway: what is reserved covers what is open, nothing is created or lost, no order trades
  more than was signed or is accepted twice, every order on the book is known;
* persistence and recovery: between two handlers a crash loses nothing;
* deposits: every deposit is credited once, across historical synchronisation, live stream,
  reconnections and crashes; rows and cursor agree;
* settlement: every trade is settled at most once, and stays in the database until the chain has
  answered for it; cancels stay on their list until the chain has them;
* feed: the registry names the connections there are, and each gets the messages of its address,
  all of them and in order; nobody who wants the registry waits for a client.

## 2. The modules

| Module | What it is |
|---|---|
| `OrderBook` | the book as a value and its operations as pure operators; the parts of a well formed book |
| `MatchingEngine` | the engine as a state machine; properties |
| `PriceTimePriority` | what the engine promises, on a set of orders without levels, queues or index |
| `MCMatchingEngine` | its instance for TLC |
| `FiniteSums` | lemmas about sums over finite sets: how they change, bound and compare; and about what is proved by counting |
| `OrderBookProofs` | lemmas about the operations: what keeps a book well formed; which orders are on it |
| `MatchingEngineProofs` | invariants of the engine; it implements `PriceTimePriority` |
| `Ledger` | balances and their operations, on words that wrap around |
| `Gateway` | `AppState`, the database and recovery around an instance of the engine; properties |
| `MCGateway`, `GatewayProofs` | the instances of the gateway; what is proved of it |
| `DepositSync`, `MCDepositSync`, `DepositSyncProofs` | the deposit service beside submissions, on the `Ledger`; its instances; what is proved of it |
| `Exchange`, `ExchangeProofs` | the contract: its calls and what `settleBatch` does with a batch; lemmas about it |
| `BatchSettlement` | the batch loop, the settlement backend, the mempool and the retries of cancels, in front of `Exchange` |
| `TradeLifecycle` | what a trade can count on: it waits, is settled for good, or is given up for good |
| `MCBatchSettlement`, `BatchSettlementProofs` | its instances; what is proved of it |
| `WsFeed`, `MCWsFeed`, `WsFeedProofs` | connection tasks, the registry of senders, handlers that send; its instance; what is proved of it |

**Engine.** `submit` is a loop; the model has `Submit` (the liquidity check and the new id), one
`Match` per iteration and `Finish`. `taker` holds the loop's locals. Bids and asks, and the two
`take_best_*` functions, are mirror images in the code and one operator with a side in the
model. `book.locations` is the index; `has_order` and `cancel` go by it and matching does not,
as in the code. `Boot`, `SetNextId`, `RestoreOrder` and `Serve` are the calls of recovery.
`restore_order` checks nothing; what its caller must promise is `Restorable`, and `Gateway` is
checked to keep that promise (`EngineContract`).

**Gateway.** A submission is `SubmitOrder` (checks, reservation, the engine's acceptance), one
`FillOrder` per fill and `FinishOrder` (maps and transaction). The code runs the engine's loop
first and the ledger's after it. The model takes a fill and settles it in one step, which is the
same to everybody else: the handler holds the lock, and a crash in the middle loses all of
memory either way. `DropUnfilled` is the market order without a fill. A market order that the
engine turns down, and every request that fails a check, changes nothing and is no step.
`CancelOrder` chooses any entry with the nonce, since the code takes the first that a HashMap
yields. `CancelOrderDbFails` is the same handler leaving early at the `?` of its transaction.
`Crash` may happen between any two steps; `Load`, `RestoreOrder`, `SkipExpired` and `Serve` are
recovery, `PruneNonces` the hourly task.

The data is abstract: a signed order is its own hash, amounts are small numbers modulo `Word`
(ruint's operators wrap around), `10^18` is `Scale`, rows are functions by id. `main` reads the
clock once for the whole restoration and `submit_order` once for a submission, so `Tick` waits
for both.

**DepositSync.** One task: read the head, subscribe, synchronise in chunks, go live. A step is
what it does between two awaits. `SyncChunk` and `CreditLive` credit under the lock and copy the
balances they are going to store; `SaveBalance` and `SetLastSyncedBlock` write them later, one
row each, as the closure in `spawn_blocking` does without a transaction. `SubmitOrder` and
`CancelOrder` stand for the handlers of `Gateway`, of which only the snapshot of all balances
matters here. `NewConnection` is a failed call, a failed write or an ended stream: `Reconnect`
keeps memory and starts the task again after its backoff, `Restart` (the process died, or
start-up failed) loads the rows. The node of a new connection may be up to `MaxLag` blocks
behind; blocks are never taken back, as the code has no handling of reorganisations. `exact` is
bookkeeping: it stays true as long as every synchronisation began with rows and memory equal to
the blocks up to the cursor and with no deposit between the head and the subscription. Where it
is false the code has lost or repeated a deposit already (deviations 8 to 10), and the
properties say that it never does so by itself. Blocks count from 1, since no contract
is deployed in the genesis block. `Deposited` adds up deposits as numbers, without wrapping
around; `ChainsAssumption` says that all a user ever deposits of a token fits in a word. It is
needed, as `credit` does not check: beyond 2^256 a balance would start again from zero.

**Exchange and BatchSettlement.** `SettleBatch` folds `_settleTrade` over a batch; one trade
that fails a check turns the whole into `Reverted`. `held` is what the token contracts say the
exchange owns. `batch` holds the locals of `batch_loop`: what it drained, where it is (`submit`,
`watch`, then the two rounds of marking, a row per `MarkRow` since nothing joins them into a
transaction), and the transaction it watches. `MatchTrade` is a submission seen from here: a row
and an entry in memory at once. All transactions come from one account, so `mempool` is a queue.
Before it sends, the backend lets the node estimate the gas, on the latest block or on what the
node expects of the next (`Estimates`); a call that reverts there is an error and is not sent.
`watch` waits for a block and does not ask for the outcome. `SubmitFails` is any other error,
before or after the transaction is sent; `MarkFails` a write that fails half way; both leave the
rows and drop the locals. `Restart` reads pending and submitted rows and the cancels. Cancels
are sent by `main` only after a start (`RetryCancel`). `ExchangeStep` has what the gateway never
hears of: withdrawals, and time passing. The contract's signature check is left out; the gateway
checks the same signatures.

**WsFeed.** A connection is a task with phases: challenge, authentication, registration, the
`select!` loop, removal. Between taking a message from its channel and having written it the
task is in `socket.send` (`sending`), where a client that does not read keeps it. The registry
is behind tokio's `RwLock`, of which the code only uses `write`; it serves those who ask in
their order, and `queue` is that line, its head the holder. Who comes to `registry.write()` goes
to its end (`Ask`): a task that has authenticated, one whose loop ended, a handler that has its
result from under the state's mutex. `Register`, `Unregister` and `Dispatch` need the lock and
let go of it (`UnderLock`); the code awaits nothing between the two, so that each is one step.
Until its turn a handler may be overtaken by the work of others under the mutex, and hyper may
drop it if its client leaves: its place in the line goes with it (`DropHandler`, `Abandon`).
Addresses have several connections; the registry's Vec of senders is a set here, as its order is
that of messages to different channels.

**How they compose.** `Gateway` runs on an instance of `MatchingEngine` and on `Ledger`;
`DepositSync` on `Ledger`; `BatchSettlement` on `Exchange`. The gateway hands over trades,
balances and messages at single points, and each neighbour models that point as its input:
`MatchTrade` (the transaction of a submission), `SubmitOrder` in `DepositSync` (its snapshot),
`HandleRequest` in `WsFeed` (its result).

## 3. The runs

| Run | Question | Result |
|---|---|---|
| `engine` | is the engine price-time priority, under every sequence of submissions, cancels, restarts? | holds, about 69,000 states |
| `gateway_partial` | do partial fills, rounding, price improvement and cancels keep the ledger right? | holds, about 23,000 states |
| `gateway_restart` | do crashes, recovery and expiry lose or repeat anything? | holds, about 66,000 states |
| `cancel_after_partial_fill` | does a cancel release what is reserved? | violated |
| `partial_fill_not_stored` | is a partial fill stored? | violated |
| `replay_after_restart` | is a filled order turned down after its nonce expired? | violated |
| `market_price` | is a market order's price a protection? | violated |
| `deposits` | is every deposit credited exactly once, and in the end? | holds, about 486,000 states |
| `deposit_row_stale` | are the stored balances those of the ledger? | violated |
| `settlement` | are trades settled once and never forgotten; does the loop come to rest? | holds, about 227,000 states |
| `batch_reverted` | is a batch that was marked settled? | violated |
| `ws_feed` | does every connection get its messages, and whoever wants it the registry's lock, whatever others do? | holds, about 280,000 states |

What the properties say, beyond types:

* `BookConsistent`, `Uncrossed`, `TimePriority`, `SweepInOrder`: the book at every iteration of
  the loop, not only between submissions. `MarketAllOrNothing`: the liquidity counted is found.
  `SubmitTerminates`: the loop ends.
* `ImplementsPriority`: with `resting <- OrdersIn(book)` every step of the engine is a step of
  `PriceTimePriority`, which picks the maker by searching a set for the best price and the
  smallest id. This is what the tests of `engine.rs` sample.
* `MakersKnown`, `FundsConserved`, `ReservedCoversBook`, `NoOverfill`: the gateway's maps,
  ledger, book and trades against each other, at every fill. `FundsConserved` adds up without
  wrapping around, so that a single underflow breaks it.
* `AcceptedOnce`, `Durable`: memory against database. `Durable` is the promise that a crash now
  would be harmless; the other invariants, after two crashes, show that recovery keeps it.
* `EngineContract`: the gateway's steps, projected to the engine, are a behaviour of
  `MatchingEngine`. What is proved of the engine for all parameters so applies to its use here.
* `EachDepositOnce`: what is credited, together with what is still in the stream, is what is on
  chain, at every step of the synchronisation. `CursorMatchesRows`: between two rounds of writes
  a crash is harmless. `CursorMovesForward`: also when a node behind the cursor answers.
  `EventuallyCredited`: after the last failure the task is live and everything is credited.
* `NoOrderSettledTwice`, `TradesAccounted`, `NothingForgotten`, `Solvent`, `CancelsReachChain`:
  the table, memory and the chain against each other, with a failure or crash between any two
  steps. `ImplementsLifecycle`: seen through the table and the chain, a batch settles whole or
  not at all, and neither outcome is ever taken back. `BatchesDrained`: the loop always comes to
  rest; what it leaves pending are batches that failed.
* `RegistryExact`, `FeedExact`: the registry against the tasks, and each connection's feed
  against all that was sent. `Delivered`: a stalled client keeps no other connection waiting, of
  its own address neither. `LockPasses`: nor does it keep anybody from the registry, behind
  whose one lock handlers, new connections and ended ones stand in line. It rests on every
  holder letting go before it waits for anything else: with a guard that lives into the loop the
  run fails.

**Bounds.** `engine`: prices 1..3, quantities 0..2, four ids. Two makers at one price, a third
at another and a taker that sweeps them all are in it, as are a cancel in the middle, a quantity
of zero, and a restart at any point (ids stop at `MaxId`, restarts do not stop).
`gateway_partial`: six given orders of three users, submitted in any order; `Scale` 2 makes odd
products round down; with 4 of each token deposited by everybody, the second order of bob is
turned down for want of balance in some orders of submission and accepted in others.
`gateway_restart`: five orders, two crashes, a clock of three instants; one order expires before
the others, nonces live one instant. `Word` is 100, above all amounts that occur, so that only
an underflow wraps. `deposits`: four chains of four blocks, so that two chunks, two deposits in
a block, blocks without one and a live part occur together; any head; two failures or crashes at
any steps, a node one block behind; two users, orders of size 1. `settlement`: an ask filled in
two parts, of which the second never settles after the first; a second buyer whose order
expires; a trade that pays only if the one before it settled; the ask may be cancelled; one
withdrawal and deposit of a buyer; two failures or crashes. Two are enough for a batch that is
sent, lost from view and sent again after a restart that fails itself. `ws_feed`: two
connections of one address, one of them stalled, and one of another; a submission with a fill
and a cancel, each with a message for the address of the two: connections come, go and are
registered between, before and after the sending of both, in either order, and up to five tasks
stand in line for the registry's lock, any of them first, last or dropped. Longer lots of
messages are left to the proof of `FeedIsExact`. TLC's deadlock check is off in `settlement`,
`deposits` and `ws_feed`, since they end when nothing is left to happen.

**What the passing gateway runs leave out, and why.** The deviations below are the code's, and
each would break the invariants of the two passing runs. In `gateway_partial` cancels are
therefore signed only for orders of quantity 1, which cannot be filled in part, market orders
name a price they can meet, and nothing crashes; in `gateway_restart` all orders are lots of one
size, nonces outlive their orders and transactions of cancels succeed. Inside these limits every
interleaving is explored. A restart after the failed transaction of a cancel is in no run: the
row still says resting while the collateral was released.

**Deviations shown by a run** (`PROJECT.json`, "findings", has lines and quotes).

1. A cancel after a partial fill releases the collateral of the whole order.
2. The stored quantity of a maker filled in part is stale, so a restart offers what was sold.
3. A nonce is stored for a fixed time whatever its order's expiry.
4. The price of a market order limits nothing, though the collateral of a buy is computed with
   it.
5. The row of a live deposit may overwrite the newer balance of a submission.
6. A batch that reverts after its gas was estimated is marked confirmed, and its rows are
   deleted.

**Deviations that the models contain and no run of their own shows.**

7. The README says that a restart loses all open orders; `main` restores them.
8. A crash or a failed write in the middle of a chunk's writes, or between a live credit and its
   row, leads to a second credit: in the first case rows are ahead of the cursor, in the second
   memory is ahead of both.
9. The head is read before the subscription starts; deposits in a block between them are lost.
10. The cursor moves with the first live deposit of a block; a crash before the second loses
    that one.
11. The trades of a failed batch are not tried again before a restart.
12. An order filled in two parts is two trades with one nonce: the second never settles, and
    every batch that holds it reverts or fails its estimate, again after each restart while its
    row is there.
13. A cancel reaches the chain only after a restart, though the row that asks for it is there at
    once.
14. A client is told that it is authenticated before it is registered; fills in between never
    reach it.
15. The README says that fills go to all connected clients and that the feed has no
    authentication; they go to maker and taker, and connections authenticate.
16. `main` builds its provider without a signer; sending transactions works where the node holds
    the operator's account. The model has the account that the end-to-end tests use.

**Fairness.** `SubmitTerminates`: weak fairness of `Match \/ Finish`; the loop of `submit` waits
for nothing and no other task can enter. `EventuallyCredited`: weak fairness of the deposit
task, which is spawned once and restarts itself with a bounded backoff, and of the node, which
sees new blocks; failures are bounded, so there is a last one. `BatchesDrained`: weak fairness
of the loop, which wakes up by its timer, and of mining. No fairness makes users trade, failures
happen or cancels be retried. `Delivered` and `LockPasses`: weak fairness per connection and
per handler, which tokio's scheduler gives to a task that is ready, and a lock that is passed on
in order, as tokio documents; none for clients, who may never connect, authenticate or close. A
handler can go on only when it has the lock: that its turn comes is not assumed but follows from
what those before it do. Where an instance ends when every order was submitted and no crash is
left, the deadlock check is off; the engine's run checks for deadlock.

## 4. The proofs

Every proof is for all values of the constants under the modules' assumptions: prices are
numbers up to `MaxPrice`; quantities, `MaxId`, `MaxFaults` and clocks are numbers, `Scale` and
`Word` positive ones; requests, deposits and trades are of their types, between users and tokens
the instance has; `Users` and `Trades` of the contract are finite, and so are sums over them; a
chain reaches the block of the contract, has no deposits before it, and what it deposits for a
user fits in a word. Of
the gateway's quantities it is assumed that they are amounts a word can hold and that with a
quantity every smaller one is one (they are the numbers of a U256; what remains of an order is a
quantity again).

| Theorem | Property of the runs |
|---|---|
| `MatchingEngineProofs`: `TypeCorrect`, `BookStaysConsistent`, `NeverCrossed`, `TimePriorityKept` | `TypeOK`, `BookConsistent`, `Uncrossed`, `TimePriority` |
| `MakersMetInOrder`, `MarketOrdersFill` | `SweepInOrder`, `MarketAllOrNothing` |
| `EngineImplementsPriority` | `ImplementsPriority` |
| `GatewayProofs`: `GatewayTyped`, `MakersAlwaysKnown` | `TypeOK`, `MakersKnown` |
| `AcceptedAtMostOnce` (no order outlives its nonce) | `AcceptedOnce` |
| `EngineContractKept` (no transaction of a cancel fails) | `EngineContract` |
| `NeverOverfilled` (hypotheses below) | `NoOverfill` |
| `NothingToLose` (hypotheses below) | `Durable` |
| `OpenOrdersFunded`, `FundsKept` (hypotheses below) | `ReservedCoversBook`, `FundsConserved` |
| `WholeFillsAreSafe` (makers filled whole) | the four together |
| `BatchSettlementProofs`: `SettlementTyped`, `TradesStayAccounted`, `NoTradeForgotten` | `TypeOK`, `TradesAccounted`, `NothingForgotten` |
| `SettledAtMostOnce`, `ContractSolvent`, `CancelsNeverLost` | `NoOrderSettledTwice`, `Solvent`, `CancelsReachChain` |
| `SettlementImplementsLifecycle` | `ImplementsLifecycle` |
| `DepositSyncProofs`: `DepositTypes`, `DepositsCreditedOnce` | `TypeOK`, `EachDepositOnce` |
| `CursorAndRowsAgree`, `CursorNeverGoesBack` | `CursorMatchesRows`, `CursorMovesForward` |
| `WsFeedProofs`: `FeedTypes`, `RegistryIsExact`, `FeedIsExact` | `TypeOK`, `RegistryExact`, `FeedExact` |

**Engine.** None of the book's invariants is inductive alone. A remainder may join the back of a
queue only because every id on the book is smaller than the taker's; it does not cross the book
only because the loop ended at the *best* price of the other side; the front of a queue can be
removed only because index and levels agree. `IInv` joins them: the book is well formed, every
id on it is below `next_id`, and below the taker's while one is at work. What an action does to
the book is a lemma of `OrderBookProofs` (`InsertWellFormed`, `RemoveWellFormed`,
`TakeWellFormed`), in two halves: `Consistent`, which needs nothing of prices, and uncrossed.
The gateway's proofs use the first half alone, since after a failed cancel its book may be
crossed. Under them: the best price exists and is the best (`Extremes`, `BestPriceIsBest`), and
a queue that replaces another at one price disturbs no other (`PutQueueLevels`, `ReplaceQueue`).

The second half of `OrderBookProofs` leaves levels and queues behind: which *set* of orders is on the book after
an insertion, a cancel, a take (`OrdersAfterInsert`, `OrdersAfterRemove`, `OrdersAfterTake`),
that the maker of a take comes before everybody else on its side (`BestMakerPrecedes`), and that
the total quantity falls by what was taken (`TotalAfterTake`). From these follow two results.
`Sweep`, inductive together with `IInv`: the makers a taker has met are in order, whatever is
left on their side comes after all of them as long as the taker wants more, and a market order
wants no more than is there. And the refinement: each step of the engine is the step of
`PriceTimePriority` that its name suggests (`MatchIsTrade`, `FinishIsConclude`,
`RestoreIsReload`, `CancelIsWithdraw`), where the hard one is that the loop stops only when no
acceptable maker is left in the *set* (`NobodyLeft`).

**Gateway.** `MakersAlwaysKnown` is what keeps the fill loop of `submit_order` from its panic.
Its invariant has to relate everything that names an order: the rows are of orders that were
signed (`Stored`), the ids on the book are below the next one and, while recovery runs, below
those still to be restored (`EngineReady`, `Recovering`), the engine's taker is the order being
handled and its makers are in the maps (`TakerHandled`), the maps agree with each other and with
the book (`MapsAgree`, `BookKnown`). No two orders can get one id because `next_id` comes from
the rows themselves. It holds with failing cancels and with any number of crashes; the engine's
own invariant enters through `Consistent` only.

`AcceptedAtMostOnce` has a hypothesis about the requests, `[]NonceOutlivesOrder`: no order is
handled that is valid for longer than `NonceExpiry` from now. Nothing in the code asks for it
(deviation 3), and `replay_after_restart` shows a second acceptance without it; the theorem says
that this is the only way. Its invariant, `OnceInv`: every order in the trades, the rows and the
maps is remembered by a stored nonce or has expired; a nonce that is stored is kept for as long
as its order is valid; and what the database knows, the process knows once it has loaded.

`EngineContractKept` says that the gateway drives the engine within the engine's specification,
so that what is proved of the engine is true of its use. Restoring is the point: ids ascend and
are below the next one by `IInv`, but that no restored bid meets an ask has to be read off the
rows. `ContractInv` says that live rows are uncrossed, that each is on the book where its row
says, about to be restored, or has just been filled, and that recovery restores nothing else.
The hypothesis is `~DbMayFail`: a cancel whose transaction fails takes the order off the book
and leaves its row, a later order may then rest at a price that crosses the row, and a restart
puts both on the book.

The other four invariants of the runs are not true of the code in general: deviations 1 to 4
break them. Each theorem therefore names, as a formula on constants or as a `[]` of a state
predicate, what it needs and the code does not enforce:

| Hypothesis | What it says | Without it |
|---|---|---|
| `NonceOutlivesOrder` | no order is handled that is valid longer than its nonce is kept | deviation 3 |
| `RowsCurrent` | a row that recovery reads counts what its order has traded | deviation 2 |
| `MakersFilledWhole` | no maker is filled in part | deviation 2 |
| `CancelsExact` | a cancel releases what is left of its order | deviation 1 |
| `MarketPriceProtected` | market orders fill within their price | deviation 4 |
| `~DbMayFail` | the transactions of cancels succeed | see "What the passing gateway runs leave out" |
| `OwnPair` | orders name the two tokens of the gateway | collateral is reserved in one token and charged in another |
| `IsFiniteSet(Users)` | there are finitely many users | supplies are not sums |
| `WordsSuffice` | a word holds what an order is worth and what was deposited | products wrap around |

* `NeverOverfilled` needs the first two, and nothing of cancels that fail. Its invariant counts:
  what an order has open, as the running taker or as the one order on the book under its id, is
  exactly what it has not traded (`Accounted`). A fill adds one trade and takes as much off both
  sides (`AccountedFill`, by `TradedAppended`); a submission starts from nothing traded, since
  an order that was saved is turned down (`OnceInv`); a crash forgets the trades of the running
  submission with the submission; and a restored row has what is left because of `RowsCurrent`
  and because no order has two rows (`RowsNamed`).
* `NothingToLose` needs `~DbMayFail`, `NonceOutlivesOrder` and `MakersFilledWhole`. Its
  invariant `DurableInv` follows every copy: orders on the book rest in their rows with their
  quantities, the ledger is the stored one but for what a submission at work has reserved and
  moved, the trades that wait are those stored, and what is turned down is stored or expired.
  That a dropped market order gives back exactly what it reserved is `ReserveReleased`, an
  equality modulo `Word`.
* `OpenOrdersFunded` and `FundsKept` are proved together, from `FundsInv`, since each needs the
  other: amounts are moved without wrapping around because they were reserved, and what a user
  receives fits in a word because the supply does. The invariant speaks of rows: of every user
  and side the reserved balance covers what the running taker claims and what the user's resting
  rows can still be charged (`LedgerCovers`), in memory with the trades of the running
  submission and in the database without (`RowsCovered`). It is about rows and not about the
  book because recovery rebuilds the book one row at a time on balances that are there at once.
  The arithmetic is that of rounding down: parts of an amount are worth no more than the whole
  (`DivAdds`, `CollateralSplits`), and cost, surplus and what is left to buy no more than the
  limit (`SurplusSplits`). A fill moves what both sides exchange between them (`SettleMoves`),
  so that every supply stays what it was, and takes from each at most what its row or claim
  falls by (`FillPays`, `FillOwed`, `FillClaim`).

* `WholeFillsAreSafe` connects the hypotheses. Where makers are filled whole, as with lots of one
  size, nothing has to be assumed of rows and cancels: `RowsCurrent` and `CancelsExact` follow
  (`CountedSuffices`), because every resting row counts its order's trades (`RowsCounted`) and
  every entry of `order_nonce_map` is the collateral of what is on the book (`EntriesExact`). So
  all that deviations 1 and 2 break is safe as long as no maker is filled in part.

The hypotheses are not empty. Every state of `gateway_restart`, with its crashes, cancels and
expired orders, satisfies all of them, and every state of `gateway_partial` those that
`OpenOrdersFunded` makes about states. The invariants were checked by TLC before they were
proved: on these two instances (with transactions of cancels that succeed, for the funds), and on
a wider one, with market orders, partial fills, cancels of every order and two crashes, for the
states that satisfy the hypotheses.

**Settlement.** Four invariants, each by induction with the ones before it.

* `IInv`, for `TradesStayAccounted`: rows are deleted when they are confirmed
  (`ConfirmedAnswered`); they are confirmed from a batch whose watching returned
  (`MarkedAnswered`); watching returns when the transaction is not on its way any more, and a
  batch that is watched was answered or is on its way, with its trades (`WatchedUnderWay`).
  "Answered" means settled, or sent in a batch that reverted: deviation 6 says that the code
  cannot tell these apart, and the proof that it confuses nothing else.
* `Flow`, for `NoTradeForgotten`: memory, the batch and the queue of transactions carry distinct
  trades under the ids of their rows; a row that is not confirmed is in one of them or its batch
  was seen to fail (`Accounted`); what the table is done with is sent no more (`DoneForGood`).
  The last needs that transactions are mined in the order they were sent, so that nothing older
  than the watched batch is left when its marking starts (`Numbered`, `SentLast`).
* `Chain`, for `SettledAtMostOnce` and `ContractSolvent`: the nonces of settled trades are used,
  no two settled trades share one, and the contract owes token by token what it holds. This
  rests on `ExchangeProofs`: a batch that settles has new nonces, none twice, and every total
  stays what it was (`BatchSettles`, by counting along the fold; `PaidKeepsTotals`), since a
  payment between two accounts does not change the sum over all (`TotalAfterMove`).
* `Cancelling`, for `CancelsNeverLost`: a cancel is in the table, with the task that retries, in
  the queue, or used on the chain.

The refinement of `TradeLifecycle` follows: a block settles a whole batch for good
(`MineBatchIsSettle`), a deletion gives up what did not settle (`DeleteIsGiveUp`), everything
else stutters.

**Deposits.** Two invariants over the types, `DepositInv` in all. `Ordered` holds in every
behaviour, also where deposits were lost: the cursor is the last of the writes in hand and not
behind the stored one (`WritesInOrder`), so that `NextCursor`, where the cursor will be when
they are done, is the last block of a chunk or the last block the live loop credited, or there
is none and nothing was deposited so far; and the events of the subscription come in the order
of blocks (`StreamInOrder`). `CursorNeverGoesBack` needs no more. The hard case is the boundary
of the live loop: `last_persisted_block` may start ahead of the node, at the cursor of another
connection, and the proof shows that no event the loop credits is behind it.

`Exactly` is about the sums, while `exact` is true. The chain's deposits up to a block are those
of an earlier block and of the range between (`TotalRange`), which is what makes a chunk right.
The subscription, from the boundary on, has whatever the node has seen and the block has not
(`StreamComplete`); it starts empty, and that is enough only because no deposit is between head
and node. A row in hand, and a stored one that none in hand will replace, holds as much as the
ledger (`RowsFollow`): not the same balance (deviation 5), but available and reserved together,
which an order moves and does not change (`ReserveHolds`, `ReleaseHolds`, modulo `Word`). And
the ledger has the blocks up to `current - 1` or, live, those the node has seen less what is
left in the subscription (`LedgerExact`). A credit adds to it without wrapping around because
the total of the chain fits in a word (`CreditAllHolds`).

**Feed.** `FeedExact` is inductive once the registry is known to hold the senders of the
registered connections and no other (`RegistrySound`), who have proved their addresses
(`Proved`); ids are below `next_id` and differ, so that a removal by id takes one sender with
it; before the registration nothing is on its way (`Unopened`). About the data it needs that the
messages for an address in two lots of dispatches are those of the first followed by those of
the second (`MessagesConcat`), and that a feed grows by what is sent (`FeedExtends`).

**Induction over data.** The library's induction theorems take an operator and cannot be used.
What has to be counted is therefore put in a set: `CountingUp` (in `FiniteSums`) says that a set
with 0, and with n + 1 whenever it has n, has all numbers up to a bound, and follows from
well-founded minima. With it recursive functions are unfolded: `SumFunctionOnSet` for every
finite set (`FiniteSums`), the fold of a batch (`RunExists`), the messages of a feed
(`MessagesUnfold`), the blocks of a range, what their events deposit and their credits
(`EventsUnfold`, `DepositedUnfold`, `CreditAllUnfold`).

**Only model-checked.** Liveness (`SubmitTerminates`, `EventuallyCredited`, `BatchesDrained`,
`Delivered`, `LockPasses`), which is out of the prover's reach. That funds are kept when the
transaction of a cancel fails and no restart follows (`gateway_partial`): the theorems about
funds assume that it does not. Every other property of a passing run is stated by a theorem.

## 5. Not modelled, and what is left

Not modelled, and why:

* signatures and hashes (`eip712.rs`): a request is by its maker or is not made, an order is its
  own hash;
* `get_orderbook`, `get_balances`, the book's `bid_levels`, `ask_levels` and depths: queries
  that change nothing;
* `set_from_chain`, `get_balance` and the writes of `persistence` that no caller outside the
  tests uses;
* byte encodings, SQL, HTTP and JSON formats, logging, command line arguments;
* the CLI, a stateless client; the mock token, a test fixture; tokens whose transfer fails;
* reorganisations of the chain, which the code does not handle;
* logs of deposits that cannot be decoded, which the backend skips.

Left to do:

1. Proofs: the funds of `Gateway` when transactions of cancels fail and no restart follows.
2. `Gateway` and `BatchSettlement` in one instance: which of the trades that the ledger allows
   the contract accepts. Each side is checked against the hand-over only.
3. Larger instances of `deposits`: two tokens, a node two blocks behind.
