-------------------------------- MODULE Gateway --------------------------------
(***************************************************************************)
(* The order path of the gateway: AppState (crates/gateway/src/state.rs)   *)
(* with its engine and ledger, the tables of crates/persistence it writes, *)
(* and the recovery of crates/gateway/src/main.rs.                         *)
(*                                                                         *)
(* Every handler holds the mutex of AppState from start to end. A          *)
(* submission is SubmitOrder (the checks, the reservation and the engine's *)
(* acceptance), one FillOrder per fill, and FinishOrder (the rest of the   *)
(* order and the one database transaction); between them only a crash can  *)
(* happen. The EIP-712 hash is modelled by the signed order itself.        *)
(***************************************************************************)
EXTENDS Ledger, OrderBook

CONSTANTS Quantities, MaxId,         \* see MatchingEngine
          base_token, quote_token,   \* the pair this gateway trades
          Scale,                     \* the price unit, 10^18 in the code
          Requests,     \* the submissions clients may make: [order, type]
          Cancels,      \* the cancels users may sign: [signer, nonce]
          Deposits,     \* the balances before the first start
          NonceExpiry,  \* nonce_expiry_secs
          DbMayFail,    \* whether a cancel's transaction may fail
          MaxCrashes,   \* bound: how often the process dies
          MaxTime       \* bound: the last instant of the clock

\* What clients sign.
Orders ==
  [maker : Users, nonce : Nat, side : Sides, price : Prices, quantity : Quantities,
   base_token : Tokens, quote_token : Tokens, expiry : Nat]

ASSUME GatewayAssumption ==
  /\ Quantities \subseteq Amounts /\ \A quantity \in Quantities : 0..quantity \subseteq Quantities
  /\ MaxId \in Nat /\ Scale \in Nat \ {0}
  /\ base_token \in Tokens /\ quote_token \in Tokens
  /\ Requests \subseteq [order : Orders, type : {"limit", "market"}]
  /\ Deposits \in Ledgers
  /\ NonceExpiry \in Nat /\ MaxCrashes \in Nat /\ MaxTime \in Nat

VARIABLES
  \* matching engine
  book, next_id, taker, serving,
  \* AppState
  ledger,            \* balances by user and token
  accepted_nonces,   \* hashes of accepted orders
  order_map,         \* signed orders by id
  order_nonce_map,   \* maker, nonce, token and collateral by id
  pending_trades,    \* trades waiting for a batch: [id, trade]
  \* locals of a running handler
  handling,          \* the signed order submit_order works on, or NoOrder
  to_restore,        \* recovery: ids of rows still to restore, or NotLoaded
  \* outside the process
  db,                \* the tables of the database
  now,               \* the clock
  crashes            \* how often the process died

Engine == INSTANCE MatchingEngine

engine_vars == <<book, next_id, taker, serving>>
app_vars == <<ledger, accepted_nonces, order_map, order_nonce_map, pending_trades>>
vars == <<engine_vars, app_vars, handling, to_restore, db, now, crashes>>

SignedOrders == {r.order : r \in Requests}

NoOrder == [maker |-> "none"]
NotLoaded == {0}

EmptyMap == [x \in {} |-> x]
ZeroLedger == [u \in Users |-> [t \in Tokens |-> [available |-> 0, reserved |-> 0]]]

\* A first start: an empty database but for the deposits already synced.
Init ==
  /\ Engine!Init
  /\ ledger = ZeroLedger /\ accepted_nonces = {}
  /\ order_map = EmptyMap /\ order_nonce_map = EmptyMap /\ pending_trades = <<>>
  /\ handling = NoOrder /\ to_restore = NotLoaded
  /\ db = [balances |-> Deposits, orders |-> EmptyMap, trades |-> <<>>,
           nonces |-> EmptyMap, pending_cancels |-> {}]
  /\ now = 0 /\ crashes = 0

-----------------------------------------------------------------------------
(* submit_order                                                            *)

\* What an amount of base is worth in quote, rounded down.
QuoteAmount(quantity, price) == Mul(quantity, price) \div Scale

Collateral(side, price, quantity) ==
  IF side = "buy" THEN QuoteAmount(quantity, price) ELSE quantity

\* The token a new order reserves: the one its signer names.
OwnToken(order) == IF order.side = "buy" THEN order.quote_token ELSE order.base_token

\* The token a resting order is kept under: the gateway's own.
PairToken(side) == IF side = "buy" THEN quote_token ELSE base_token

Required(order) == Collateral(order.side, order.price, order.quantity)

\* Mutant: the order's hash is not looked up.
AcceptableTwice(order, type) ==
  /\ ~(type = "market" /\ order.price = 0)
  /\ order.expiry >= now
  /\ CanReserve(ledger, order.maker, OwnToken(order), Required(order))

\* The checks in front of the engine; a failed one changes nothing. (That the
\* signature is the maker's is what makes a request one of Requests.)
Acceptable(order, type) ==
  /\ ~(type = "market" /\ order.price = 0)
  /\ order.expiry >= now
  /\ order \notin accepted_nonces
  /\ CanReserve(ledger, order.maker, OwnToken(order), Required(order))

\* A market order the engine turns down has its hash and reservation taken back
\* in the same handler: it changes nothing, and is not a step here.
SubmitOrder(order, type) ==
  /\ Acceptable(order, type)
  /\ Engine!Submit(order.side, order.price, order.quantity, type)
  /\ ledger' = Reserve(ledger, order.maker, OwnToken(order), Required(order))
  /\ accepted_nonces' = accepted_nonces \cup {order}
  /\ handling' = order
  /\ UNCHANGED <<order_map, order_nonce_map, pending_trades, to_restore, db, now, crashes>>

\* Mutant: the surplus is computed on the fill and all that is still to come.
SurplusOfRemainder(order, fill) ==
  IF order.side = "buy" /\ fill.price < order.price
  THEN QuoteAmount(taker.remaining, order.price - fill.price) ELSE 0

\* A buying taker reserved at its limit and pays the maker's lower price.
Surplus(order, fill) ==
  IF order.side = "buy" /\ fill.price < order.price
  THEN QuoteAmount(fill.quantity, order.price - fill.price) ELSE 0

\* The ledger after a fill: settle it, then release the taker's surplus.
LedgerAfterFill(order, maker, fill) ==
  LET seller  == IF order.side = "buy" THEN maker ELSE order.maker
      buyer   == IF order.side = "buy" THEN order.maker ELSE maker
      settled == SettleFill(ledger, seller, buyer, base_token, quote_token,
                            fill.quantity, QuoteAmount(fill.quantity, fill.price))
  IN  Release(settled, order.maker, quote_token, Surplus(order, fill))

\* One fill. The maker's order must be in order_map: the code panics if not.
FillOrder ==
  LET fill == Engine!NextFill
  IN  /\ Engine!Match
      /\ fill.maker_id \in DOMAIN order_map
      /\ ledger' = LedgerAfterFill(handling, order_map[fill.maker_id].maker, fill)
      /\ UNCHANGED <<accepted_nonces, order_map, order_nonce_map, pending_trades,
                     handling, to_restore, db, now, crashes>>

NonceEntry(order, quantity) ==
  [maker |-> order.maker, nonce |-> order.nonce, token |-> PairToken(order.side),
   amount |-> Collateral(order.side, order.price, quantity)]

Trades ==
  [i \in DOMAIN taker.fills |->
     [maker_order |-> order_map[taker.fills[i].maker_id], taker_order |-> handling,
      price |-> taker.fills[i].price, quantity |-> taker.fills[i].quantity]]

\* Mutant: the test for has_order is not negated.
MakersStillOpen ==
  {taker.fills[i].maker_id : i \in DOMAIN taker.fills} \cap DOMAIN book'.locations

\* Makers of this submission that are no longer on the book.
FilledMakers ==
  {taker.fills[i].maker_id : i \in DOMAIN taker.fills} \ DOMAIN book'.locations

\* Mutant: the transaction leaves the nonce out.
NonceNotSaved(nonces, hash, expires_at) == nonces

\* INSERT OR IGNORE: a nonce already stored keeps its expiry.
SaveNonce(nonces, hash, expires_at) ==
  IF hash \in DOMAIN nonces THEN nonces ELSE With(nonces, hash, expires_at)

\* The order rows after a fill: filled makers, then the order that rests. The
\* row of a maker that was filled in part is not touched.
OrderRowsAfter(rows) ==
  LET marked == [id \in DOMAIN rows |-> IF id \in FilledMakers
                                        THEN [rows[id] EXCEPT !.status = "filled"]
                                        ELSE rows[id]]
  IN  IF Engine!Rests
      THEN With(marked, taker.id, [order |-> handling, status |-> "resting",
                                   resting_quantity |-> taker.remaining])
      ELSE marked

Tagged(trades) ==
  [i \in DOMAIN trades |-> [id |-> Len(db.trades) + i, trade |-> trades[i]]]

\* Mutant: an order that already traded as a taker is not entered.
EnteredIfUntouched(map, value) ==
  IF Engine!Rests /\ taker.fills = <<>> THEN With(map, taker.id, value) ELSE map

\* What rests is entered in a map of AppState under its id.
Entered(map, value) == IF Engine!Rests THEN With(map, taker.id, value) ELSE map

\* The one transaction of a submission.
SaveOrderFill ==
  [db EXCEPT !.nonces = SaveNonce(@, handling, now + NonceExpiry),
             !.trades = @ \o Trades,
             !.balances = ledger,
             !.orders = OrderRowsAfter(@)]

\* The end of submit_order: what rests is entered in the maps, and the
\* transaction is made. (Its failure ends the process: a crash before this step.)
FinishOrder ==
  /\ handling # NoOrder
  /\ taker.type = "market" => taker.fills # <<>>
  /\ Engine!Finish
  /\ order_map' = Entered(order_map, handling)
  /\ order_nonce_map' = Entered(order_nonce_map, NonceEntry(handling, taker.remaining))
  /\ db' = SaveOrderFill
  /\ pending_trades' = pending_trades \o Tagged(Trades)
  /\ handling' = NoOrder
  /\ UNCHANGED <<ledger, accepted_nonces, to_restore, now, crashes>>

\* A market order without a fill (it asked for nothing) is forgotten again.
DropUnfilled ==
  /\ handling # NoOrder /\ taker.type = "market" /\ taker.fills = <<>>
  /\ Engine!Finish
  /\ accepted_nonces' = accepted_nonces \ {handling}
  /\ ledger' = Release(ledger, handling.maker, OwnToken(handling), Required(handling))
  /\ handling' = NoOrder
  /\ UNCHANGED <<order_map, order_nonce_map, pending_trades, to_restore, db, now, crashes>>

-----------------------------------------------------------------------------
(* cancel_order                                                            *)

\* The lookup goes by nonce alone and takes whichever entry it meets first; an
\* entry of another maker, or of an order no longer on the book, is an error.
Cancellable(c, id) ==
  /\ order_nonce_map[id].nonce = c.nonce /\ order_nonce_map[id].maker = c.signer
  /\ HasOrder(book, id)

LedgerAfterCancel(entry) == Release(ledger, entry.maker, entry.token, entry.amount)

\* The one transaction of a cancel, with the on-chain cancel still to be made.
SaveCancel(id, balances, entry) ==
  [db EXCEPT !.orders[id].status = "cancelled",
             !.balances = balances,
             !.pending_cancels = @ \cup {[maker |-> entry.maker, nonce |-> entry.nonce]}]

CancelOrder(c) ==
  \E id \in DOMAIN order_nonce_map :
    LET entry == order_nonce_map[id]
    IN  /\ Cancellable(c, id)
        /\ Engine!Cancel(id)
        /\ ledger' = LedgerAfterCancel(entry)
        /\ db' = SaveCancel(id, LedgerAfterCancel(entry), entry)
        /\ order_map' = Without(order_map, id)
        /\ order_nonce_map' = Without(order_nonce_map, id)
        /\ UNCHANGED <<accepted_nonces, pending_trades, handling, to_restore, now, crashes>>

\* The transaction fails: the handler returns early, the engine and the ledger
\* have changed, the maps and the database have not.
CancelOrderDbFails(c) ==
  /\ DbMayFail
  /\ \E id \in DOMAIN order_nonce_map :
       /\ Cancellable(c, id)
       /\ Engine!Cancel(id)
       /\ ledger' = LedgerAfterCancel(order_nonce_map[id])
  /\ UNCHANGED <<accepted_nonces, order_map, order_nonce_map, pending_trades,
                 handling, to_restore, db, now, crashes>>

-----------------------------------------------------------------------------
(* Crash and recovery                                                      *)

\* The process dies, between two steps of a handler or between two handlers.
\* Nothing but the database is left.
Crash ==
  /\ crashes < MaxCrashes
  /\ Engine!Boot
  /\ ledger' = ZeroLedger /\ accepted_nonces' = {}
  /\ order_map' = EmptyMap /\ order_nonce_map' = EmptyMap /\ pending_trades' = <<>>
  /\ handling' = NoOrder /\ to_restore' = NotLoaded
  /\ crashes' = crashes + 1
  /\ UNCHANGED <<db, now>>

Unexpired(nonces) == {hash \in DOMAIN nonces : nonces[hash] >= now}

Pruned(nonces) == [hash \in Unexpired(nonces) |-> nonces[hash]]

RestingRows == {id \in DOMAIN db.orders : db.orders[id].status = "resting"}

\* Mutant: only the orders that rest count.
LastRestingRow == IF RestingRows = {} THEN 0 ELSE Max(RestingRows)

LastRow == IF DOMAIN db.orders = {} THEN 0 ELSE Max(DOMAIN db.orders)

\* All trades that are not confirmed yet, pending or submitted.
PendingTrades == [i \in DOMAIN db.trades |-> [id |-> i, trade |-> db.trades[i]]]

\* Everything is read from the database, and put in place but for the orders.
\* The id counter continues after the largest row; with no row it stays at 1.
Load ==
  /\ ~serving /\ to_restore = NotLoaded
  /\ Engine!SetNextId(LastRow + 1)
  /\ ledger' = db.balances
  /\ db' = [db EXCEPT !.nonces = Pruned(@)]
  /\ accepted_nonces' = Unexpired(db.nonces)
  /\ pending_trades' = PendingTrades
  /\ to_restore' = RestingRows
  /\ UNCHANGED <<order_map, order_nonce_map, handling, now, crashes>>

\* Mutant: the rows come newest first.
NewestRow(ids) == Max(ids)

\* idx_orders_status returns the resting rows by ascending row id.
NextRow(ids) == Min(ids)

\* Mutant: restored orders are numbered anew in the map.
RestoredAnew(map, value) == With(map, Cardinality(DOMAIN map) + 1, value)

\* A restored order is entered in a map under the id of its row.
Restored(map, value) == With(map, NextRow(to_restore), value)

RestoreOrder ==
  /\ to_restore \notin {NotLoaded, {}}
  /\ LET id  == NextRow(to_restore)
         row == db.orders[id]
     IN  /\ row.order.expiry >= now
         /\ Engine!Restore([id |-> id, side |-> row.order.side, price |-> row.order.price,
                            quantity |-> row.resting_quantity])
         /\ accepted_nonces' = accepted_nonces \cup {row.order}
         /\ order_map' = Restored(order_map, row.order)
         /\ order_nonce_map' = Restored(order_nonce_map,
                                        NonceEntry(row.order, row.resting_quantity))
         /\ to_restore' = to_restore \ {id}
  /\ UNCHANGED <<ledger, pending_trades, handling, db, now, crashes>>

\* An expired order stays off the book. Its row is marked by a task nobody
\* waits for, which may not get to run. The reserved collateral stays reserved.
SkipExpired ==
  /\ to_restore \notin {NotLoaded, {}}
  /\ LET id == NextRow(to_restore)
     IN  /\ db.orders[id].order.expiry < now
         /\ db' \in {db, [db EXCEPT !.orders[id].status = "cancelled"]}
         /\ to_restore' = to_restore \ {id}
  /\ UNCHANGED <<engine_vars, app_vars, handling, now, crashes>>

Serve ==
  /\ to_restore = {}
  /\ Engine!Serve
  /\ UNCHANGED <<app_vars, handling, to_restore, db, now, crashes>>

\* The hourly task.
PruneNonces ==
  /\ serving
  /\ Unexpired(db.nonces) # DOMAIN db.nonces
  /\ db' = [db EXCEPT !.nonces = Pruned(@)]
  /\ UNCHANGED <<engine_vars, app_vars, handling, to_restore, now, crashes>>

\* A handler, and the restoration, read the clock once: it stands still in them.
Tick ==
  /\ now < MaxTime
  /\ handling = NoOrder /\ to_restore \in {NotLoaded, {}}
  /\ now' = now + 1
  /\ UNCHANGED <<engine_vars, app_vars, handling, to_restore, db, crashes>>

-----------------------------------------------------------------------------
Next ==
  \/ \E r \in Requests : SubmitOrder(r.order, r.type)
  \/ FillOrder
  \/ FinishOrder
  \/ DropUnfilled
  \/ \E c \in Cancels : CancelOrder(c)
  \/ \E c \in Cancels : CancelOrderDbFails(c)
  \/ Crash
  \/ Load
  \/ RestoreOrder
  \/ SkipExpired
  \/ Serve
  \/ PruneNonces
  \/ Tick

Spec == Init /\ [][Next]_vars

-----------------------------------------------------------------------------
(* Properties                                                              *)

NonceEntries == [maker : Users, nonce : Nat, token : Tokens, amount : Amounts]

StoredTrades ==
  [maker_order : SignedOrders, taker_order : SignedOrders, price : Prices, quantity : Nat \ {0}]

\* A row is for good: the next order gets an id above all of them, so that
\* INSERT OR REPLACE never replaces the row of another order.
RowsTyped ==
  /\ \A id \in DOMAIN db.orders :
       /\ db.orders[id].order \in SignedOrders
       /\ db.orders[id].status \in {"resting", "filled", "cancelled"}
       /\ db.orders[id].resting_quantity \in 1..db.orders[id].order.quantity
  /\ serving => DOMAIN db.orders \subseteq 1..(next_id - 1)

\* The variables stay in their types; a handler is at work exactly when the
\* engine is, and the two maps are kept in step.
TypeOK ==
  /\ ledger \in Ledgers /\ accepted_nonces \subseteq SignedOrders
  /\ DOMAIN order_map = DOMAIN order_nonce_map
  /\ Range(order_map) \subseteq SignedOrders /\ Range(order_nonce_map) \subseteq NonceEntries
  /\ \A i \in DOMAIN pending_trades : pending_trades[i].trade \in StoredTrades
  /\ handling \in SignedOrders \cup {NoOrder}
  /\ handling # NoOrder <=> taker # Engine!NoTaker
  /\ to_restore = NotLoaded \/ to_restore \subseteq DOMAIN db.orders
  /\ RowsTyped
  /\ db.balances \in Ledgers /\ Range(db.trades) \subseteq StoredTrades
  /\ DOMAIN db.nonces \subseteq SignedOrders
  /\ now \in 0..MaxTime /\ crashes \in 0..MaxCrashes

Answered == serving /\ handling = NoOrder

OrdersOf(user) == {o \in OrdersIn(book) : order_map[o.id].maker = user}

\* Every order on the book is known to the gateway, with the terms its maker
\* signed: the panic "maker order must exist in order_map" (state.rs) cannot
\* happen, and a cancel finds its order.
MakersKnown ==
  \A o \in OrdersIn(book) :
    /\ o.id \in DOMAIN order_map \cap DOMAIN order_nonce_map
    /\ order_map[o.id].side = o.side /\ order_map[o.id].price = o.price
    /\ o.quantity <= order_map[o.id].quantity
    /\ order_nonce_map[o.id].maker = order_map[o.id].maker
    /\ order_nonce_map[o.id].nonce = order_map[o.id].nonce

\* Orders, fills, cancels and restarts move amounts between users, and between
\* available and reserved, but neither make nor lose any; in particular no
\* subtraction wraps around (ledger.rs subtracts without a check). The same
\* holds of the balances that are stored.
FundsConserved ==
  \A token \in Tokens :
    /\ serving => Supply(ledger, token) = Supply(Deposits, token)
    /\ Supply(db.balances, token) = Supply(Deposits, token)

\* What a running taker still needs.
Claimed(user, side) ==
  IF handling # NoOrder /\ handling.maker = user /\ handling.side = side
  THEN Collateral(side, taker.price, taker.remaining) ELSE 0

\* What the orders a user has open can still be charged is reserved: whatever
\* fills come next, settle_fill has it to take.
ReservedCoversBook ==
  serving =>
    \A user \in Users, side \in Sides :
      ledger[user][PairToken(side)].reserved >=
        Claimed(user, side) +
        SumFunction([o \in {x \in OrdersOf(user) : x.side = side} |->
                       Collateral(side, o.price, o.quantity)])

\* What an order has traded in these trades.
TradedIn(order, trades) ==
  SumFunction([i \in DOMAIN trades |->
                 IF order \in {trades[i].maker_order, trades[i].taker_order}
                 THEN trades[i].quantity ELSE 0])

\* The stored trades and those of the running submission.
AllTrades == IF handling = NoOrder THEN db.trades ELSE db.trades \o Trades

\* What an order can still trade: on the book, or as the running taker.
Open(order) ==
  SumFunction([o \in {x \in OrdersIn(book) : order_map[x.id] = order} |-> o.quantity]) +
  IF handling = order THEN taker.remaining ELSE 0

\* No order ever trades more than its maker signed, in however many fills, on
\* whichever side of them and across restarts.
NoOverfill ==
  \A order \in SignedOrders : TradedIn(order, AllTrades) + Open(order) <= order.quantity

\* An order that has traded is not accepted a second time, before or after a
\* restart (gateway_e2e.rs, duplicate_nonce_rejects).
AcceptedOnce ==
  handling # NoOrder =>
    \A i \in DOMAIN db.trades : handling \notin {db.trades[i].maker_order, db.trades[i].taker_order}

\* Between two handlers the database holds all there is to lose: a crash now
\* would bring back this book, these balances, these trades, and turn down the
\* orders turned down now. (Rows that expired are left to recovery.)
Durable ==
  Answered =>
    /\ \A o \in OrdersIn(book) :
         /\ o.id \in RestingRows
         /\ db.orders[o.id].order = order_map[o.id]
         /\ db.orders[o.id].resting_quantity = o.quantity
    /\ \A id \in RestingRows :
         HasOrder(book, id) \/ db.orders[id].order.expiry < now
    /\ ledger = db.balances
    /\ [i \in DOMAIN pending_trades |-> pending_trades[i].trade] = db.trades
    /\ \A order \in accepted_nonces :
         \/ order \in DOMAIN db.nonces \/ order.expiry < now
         \/ \E id \in RestingRows : db.orders[id].order = order

\* The gateway drives the engine as the engine's specification allows: it
\* restores orders in the order they were assigned, below the next id, before
\* serving, and never a bid that meets an ask.
EngineContract == Engine!Spec

-----------------------------------------------------------------------------
(* What tests and comments say, and the code does not do                   *)

\* A user without an order on the book has nothing reserved (the tests of
\* cancel: "Collateral released", state.rs; "Verify balance restored",
\* cancel_e2e.rs).
NothingReservedWithoutOrders ==
  Answered =>
    \A user \in Users : OrdersOf(user) = {} =>
      \A token \in Tokens : ledger[user][token].reserved = 0

\* A market order does not trade beyond the price it names ("market order
\* requires price > 0 for price protection", state.rs).
MarketPriceProtected ==
  handling # NoOrder /\ taker.type = "market" =>
    \A i \in DOMAIN taker.fills :
      Accepts(taker.side, taker.price, taker.fills[i].price)
=============================================================================
