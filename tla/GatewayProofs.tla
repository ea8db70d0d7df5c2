----------------------------- MODULE GatewayProofs -----------------------------
(***************************************************************************)
(* What is proved of the gateway, for all users, prices, quantities and    *)
(* requests, any number of crashes, and cancels whose transaction may      *)
(* fail: its maps, its rows and its book name the same orders, and no      *)
(* order that traded is accepted again while its nonce is kept. Where no   *)
(* cancel's transaction fails, it drives the engine as the engine's        *)
(* specification allows. And, where the hypotheses a theorem names hold:   *)
(* no order trades more than was signed, a crash between two handlers      *)
(* loses nothing, what is reserved covers what is open, and no funds are   *)
(* made or lost.                                                           *)
(***************************************************************************)
EXTENDS Gateway, OrderBookProofs

-----------------------------------------------------------------------------
(* The inductive invariant, part by part.                                  *)

\* The rows of the database are records of signed orders, for good.
RowRecords == [order : SignedOrders, status : {"resting", "filled", "cancelled"}, resting_quantity : Nat]

RowsSound(rows) ==
  /\ DOMAIN rows \subseteq 1..MaxId
  /\ rows = [id \in DOMAIN rows |-> rows[id]]
  /\ \A id \in DOMAIN rows :
       rows[id] \in RowRecords /\ rows[id].resting_quantity \in 1..rows[id].order.quantity

Stored ==
  /\ db = [balances |-> db.balances, orders |-> db.orders, trades |-> db.trades,
           nonces |-> db.nonces, pending_cancels |-> db.pending_cancels]
  /\ db.balances \in Ledgers /\ RowsSound(db.orders) /\ db.trades \in Seq(StoredTrades)
  /\ DOMAIN db.nonces \subseteq SignedOrders

\* The engine, and the ids it hands out: above every row once the rows are read.
EngineReady ==
  /\ Consistent(book) /\ next_id \in 1..(MaxId + 1) /\ serving \in BOOLEAN
  /\ \A id \in DOMAIN book.locations : id < next_id
  /\ to_restore # NotLoaded => DOMAIN db.orders \subseteq 1..(next_id - 1)

\* The taker is the order that is handled, and its makers are known.
TakerHandled ==
  /\ handling \in SignedOrders \cup {NoOrder}
  /\ handling = NoOrder <=> taker = Engine!NoTaker
  /\ handling # NoOrder =>
       /\ serving
       /\ taker \in [id : Nat \ {0}, side : Sides, price : Prices, type : {"limit", "market"},
                     quantity : Nat, remaining : Nat, fills : Seq(Engine!Fills)]
       /\ taker.id = next_id - 1 /\ \A id \in DOMAIN book.locations : id < taker.id
       /\ taker.side = handling.side /\ taker.price = handling.price
       /\ taker.remaining <= handling.quantity
       /\ \A i \in DOMAIN taker.fills : taker.fills[i].maker_id \in DOMAIN order_map

\* The two maps name the same orders with the same makers and nonces.
MapsAgree ==
  /\ DOMAIN order_map = DOMAIN order_nonce_map
  /\ \A id \in DOMAIN order_map :
       /\ order_map[id] \in SignedOrders /\ order_nonce_map[id] \in NonceEntries
       /\ order_nonce_map[id].maker = order_map[id].maker
       /\ order_nonce_map[id].nonce = order_map[id].nonce

\* An order on the book is entered, with its terms.
KnownAs(o, map) ==
  /\ o.id \in DOMAIN map
  /\ map[o.id].side = o.side /\ map[o.id].price = o.price /\ o.quantity <= map[o.id].quantity

BookKnown == \A o \in OrdersIn(book) : KnownAs(o, order_map)

\* What is still to be restored is younger than all that was.
Recovering ==
  /\ to_restore = NotLoaded \/ to_restore \subseteq DOMAIN db.orders
  /\ serving => to_restore = {}
  /\ to_restore # NotLoaded =>
       \A id \in to_restore, restored \in DOMAIN book.locations : restored < id

\* What only has types.
Typed ==
  /\ ledger \in Ledgers /\ accepted_nonces \subseteq SignedOrders
  /\ pending_trades \in Seq([id : Nat, trade : StoredTrades])
  /\ now \in 0..MaxTime /\ crashes \in 0..MaxCrashes

IInv ==
  /\ Stored /\ EngineReady /\ TakerHandled /\ MapsAgree /\ BookKnown /\ Recovering /\ Typed

-----------------------------------------------------------------------------
(* The engine's operators are those of the book.                           *)

\* The engine inserts, removes and fills as OrderBook says.
LEMMA EngineBook ==
  /\ Engine!EmptyBook = EmptyBook
  /\ \A side : Engine!Opposite(side) = Opposite(side)
  /\ \A b, id : Engine!HasOrder(b, id) <=> HasOrder(b, id)
  /\ \A b, o : Engine!Insert(b, o) = Insert(b, o)
  /\ \A b, id : Engine!RemoveOrder(b, id) = RemoveOrder(b, id)
  /\ \A b, side : Engine!BestPrice(b, side) = BestPrice(b, side)
  /\ \A b, side : Engine!BestMaker(b, side) = BestMaker(b, side)
  /\ \A b, side, qty : Engine!FillQty(b, side, qty) = FillQty(b, side, qty)
  /\ \A b, side, qty : Engine!TakeBest(b, side, qty) = TakeBest(b, side, qty)
<1>1. Engine!EmptyBook = EmptyBook
  BY DEF Engine!EmptyBook, EmptyBook, Engine!Sides, Sides
<1>2. \A side : Engine!Opposite(side) = Opposite(side)
  BY DEF Engine!Opposite, Opposite
<1>3. \A b, id : Engine!HasOrder(b, id) <=> HasOrder(b, id)
  BY DEF Engine!HasOrder, HasOrder
<1>4. /\ \A f, x : Engine!Without(f, x) = Without(f, x)
      /\ \A f, x, v : Engine!With(f, x, v) = With(f, x, v)
      /\ \A b, side, p : Engine!QueueAt(b, side, p) = QueueAt(b, side, p)
  BY DEF Engine!Without, Without, Engine!Restrict, Restrict, Engine!With, With,
         Engine!QueueAt, QueueAt
<1>5. \A levels, side, p, queue :
        Engine!PutQueue(levels, side, p, queue) = PutQueue(levels, side, p, queue)
  BY <1>4 DEF Engine!PutQueue, PutQueue
<1>6. \A b, o : Engine!Insert(b, o) = Insert(b, o)
  BY <1>4, <1>5 DEF Engine!Insert, Insert
<1>7. \A b, id : Engine!Position(b, id) = Position(b, id)
  BY <1>4 DEF Engine!Position, Position
<1>8. \A seq, i : Engine!RemoveAt(seq, i) = RemoveAt(seq, i)
  BY DEF Engine!RemoveAt, RemoveAt
<1>9. \A b, id : Engine!RemoveOrder(b, id) = RemoveOrder(b, id)
  BY <1>4, <1>5, <1>7, <1>8 DEF Engine!RemoveOrder, RemoveOrder
<1>10. \A b, side : Engine!BestPrice(b, side) = BestPrice(b, side)
  BY DEF Engine!BestPrice, BestPrice, Engine!BetterPrice, BetterPrice
<1>11. \A b, side : Engine!BestMaker(b, side) = BestMaker(b, side)
  BY <1>10 DEF Engine!BestMaker, BestMaker
<1>12. \A b, side, qty : Engine!FillQty(b, side, qty) = FillQty(b, side, qty)
  BY <1>11 DEF Engine!FillQty, FillQty
<1>13. \A b, side, qty : Engine!TakeBest(b, side, qty) = TakeBest(b, side, qty)
  BY <1>4, <1>5, <1>10, <1>12 DEF Engine!TakeBest, TakeBest
<1> QED BY <1>1, <1>2, <1>3, <1>6, <1>9, <1>10, <1>11, <1>12, <1>13

\* What submit does to the engine before its loop.
LEMMA EngineSubmit ==
  ASSUME NEW side, NEW price, NEW quantity, NEW type, Engine!Submit(side, price, quantity, type)
  PROVE  /\ serving /\ taker = Engine!NoTaker /\ next_id <= MaxId
         /\ taker' = [id |-> next_id, side |-> side, price |-> price, type |-> type,
                      quantity |-> quantity, remaining |-> quantity, fills |-> <<>>]
         /\ next_id' = next_id + 1 /\ UNCHANGED <<book, serving>>
  BY DEF Engine!Submit, Engine!Idle

\* One iteration of the loop.
LEMMA EngineMatch ==
  ASSUME Engine!Match
  PROVE  LET side == Opposite(taker.side)
             fill == Engine!NextFill
         IN  /\ taker # Engine!NoTaker /\ taker.remaining > 0 /\ DOMAIN book.levels[side] # {}
             /\ fill = [maker_id |-> BestMaker(book, side).id, price |-> BestPrice(book, side),
                        quantity |-> FillQty(book, side, taker.remaining)]
             /\ book' = TakeBest(book, side, taker.remaining)
             /\ taker' = [taker EXCEPT !.remaining = @ - fill.quantity, !.fills = Append(@, fill)]
             /\ UNCHANGED <<next_id, serving>>
  BY EngineBook DEF Engine!Match, Engine!CanMatch, Engine!NextFill

\* The end of submit.
LEMMA EngineFinish ==
  ASSUME Engine!Finish
  PROVE  /\ book' = IF Engine!Rests
                    THEN Insert(book, [id |-> taker.id, side |-> taker.side, price |-> taker.price,
                                       quantity |-> taker.remaining])
                    ELSE book
         /\ taker' = Engine!NoTaker /\ UNCHANGED <<next_id, serving>>
  BY EngineBook DEF Engine!Finish, Engine!Remainder

\* cancel, restore_order and a new engine.
LEMMA EngineOthers ==
  /\ \A id : Engine!Cancel(id) =>
       /\ serving /\ taker = Engine!NoTaker /\ id \in DOMAIN book.locations
       /\ book' = RemoveOrder(book, id) /\ UNCHANGED <<next_id, taker, serving>>
  /\ \A o : Engine!Restore(o) =>
       /\ ~serving /\ book' = Insert(book, o) /\ UNCHANGED <<next_id, taker, serving>>
  /\ Engine!Boot => book' = EmptyBook /\ next_id' = 1 /\ taker' = Engine!NoTaker /\ serving' = FALSE
  /\ \A id : Engine!SetNextId(id) =>
       /\ ~serving /\ book = EmptyBook /\ next_id' = id /\ UNCHANGED <<book, taker, serving>>
  /\ Engine!Serve => ~serving /\ serving' = TRUE /\ UNCHANGED <<book, next_id, taker>>
<1>1. \A id : Engine!Cancel(id) =>
       /\ serving /\ taker = Engine!NoTaker /\ id \in DOMAIN book.locations
       /\ book' = RemoveOrder(book, id) /\ UNCHANGED <<next_id, taker, serving>>
  BY EngineBook DEF Engine!Cancel, Engine!Idle, HasOrder
<1>2. \A o : Engine!Restore(o) =>
       /\ ~serving /\ book' = Insert(book, o) /\ UNCHANGED <<next_id, taker, serving>>
  BY EngineBook DEF Engine!Restore
<1>3. Engine!Boot => book' = EmptyBook /\ next_id' = 1 /\ taker' = Engine!NoTaker /\ serving' = FALSE
  BY EngineBook DEF Engine!Boot
<1>4. \A id : Engine!SetNextId(id) =>
       /\ ~serving /\ book = EmptyBook /\ next_id' = id /\ UNCHANGED <<book, taker, serving>>
  BY EngineBook DEF Engine!SetNextId
<1>5. Engine!Serve => ~serving /\ serving' = TRUE /\ UNCHANGED <<book, next_id, taker>>
  BY DEF Engine!Serve
<1> QED BY <1>1, <1>2, <1>3, <1>4, <1>5

-----------------------------------------------------------------------------
(* Orders, amounts and ledgers.                                            *)

\* A signed order is well typed, and is not the mark for none.
LEMMA SignedTyped ==
  /\ SignedOrders \subseteq Orders /\ NoOrder \notin SignedOrders
  /\ Quantities \subseteq Nat
<1>1. SignedOrders \subseteq Orders
  BY GatewayAssumption DEF SignedOrders
<1>2. NoOrder \notin Orders
  <2> SUFFICES ASSUME NoOrder \in Orders PROVE FALSE
    OBVIOUS
  <2>1. "nonce" \in DOMAIN NoOrder
    BY DEF Orders
  <2>2. DOMAIN NoOrder = {"maker"}
    BY DEF NoOrder
  <2> QED BY <2>1, <2>2
<1>3. Quantities \subseteq Nat
  BY GatewayAssumption, WordAssumption DEF Amounts
<1> QED BY <1>1, <1>2, <1>3

\* No taker is a record of another shape than a taker.
LEMMA NoTakerIsNone ==
  ASSUME NEW t, "side" \in DOMAIN t
  PROVE  t # Engine!NoTaker
<1>1. DOMAIN Engine!NoTaker = {"id"}
  BY DEF Engine!NoTaker
<1> QED BY <1>1

\* Amounts are words: what is reserved for an order fits one.
LEMMA AmountsTyped ==
  /\ \A x, y \in Int : Add(x, y) \in Amounts /\ Sub(x, y) \in Amounts
  /\ \A quantity, price \in Nat : QuoteAmount(quantity, price) \in Amounts
  /\ \A side : \A price \in Nat, quantity \in Amounts : Collateral(side, price, quantity) \in Amounts
<1>1. \A x, y \in Int : Add(x, y) \in Amounts /\ Sub(x, y) \in Amounts
  BY WordAssumption DEF Add, Sub, Amounts
<1>2. ASSUME NEW quantity \in Nat, NEW price \in Nat PROVE QuoteAmount(quantity, price) \in Amounts
  <2>1. PICK product \in Int : product = quantity * price
    OBVIOUS
  <2>2. product % Word \in 0..(Word - 1)
    BY WordAssumption
  <2>3. \A x \in 0..(Word - 1) : x \div Scale \in 0..(Word - 1)
    BY WordAssumption, GatewayAssumption
  <2> QED BY <2>1, <2>2, <2>3 DEF QuoteAmount, Mul, Amounts
<1>3. \A quantity \in Amounts : quantity \in Nat
  BY WordAssumption DEF Amounts
<1> QED BY <1>1, <1>2, <1>3 DEF Collateral

\* One balance of a ledger changes.
LEMMA BalanceChanges ==
  ASSUME NEW l \in Ledgers, NEW user \in Users, NEW token \in Tokens, NEW v \in Amounts
  PROVE  /\ [l EXCEPT ![user][token].available = v] \in Ledgers
         /\ [l EXCEPT ![user][token].reserved = v] \in Ledgers
         /\ l[user][token].available \in Int /\ l[user][token].reserved \in Int
<1>1. l[user] \in [Tokens -> Balances] /\ l[user][token] \in Balances
  BY DEF Ledgers
<1>2. PICK row \in [Tokens -> Balances] : row = l[user]
  BY <1>1
<1>3. /\ [row[token] EXCEPT !.available = v] \in Balances
      /\ [row[token] EXCEPT !.reserved = v] \in Balances
      /\ row[token].available \in Int /\ row[token].reserved \in Int
  BY WordAssumption DEF Balances, Amounts
<1>4. PICK a, r \in Balances : /\ a = [row[token] EXCEPT !.available = v]
                               /\ r = [row[token] EXCEPT !.reserved = v]
  BY <1>3
<1>5. [row EXCEPT ![token] = a] \in [Tokens -> Balances] /\ [row EXCEPT ![token] = r] \in [Tokens -> Balances]
  OBVIOUS
<1>6. /\ [l EXCEPT ![user] = [row EXCEPT ![token] = a]] \in Ledgers
      /\ [l EXCEPT ![user] = [row EXCEPT ![token] = r]] \in Ledgers
  BY <1>5 DEF Ledgers
<1>7. /\ [l EXCEPT ![user][token].available = v] = [l EXCEPT ![user] = [row EXCEPT ![token] = a]]
      /\ [l EXCEPT ![user][token].reserved = v] = [l EXCEPT ![user] = [row EXCEPT ![token] = r]]
  BY <1>2, <1>4
<1> QED BY <1>2, <1>3, <1>6, <1>7

\* Crediting, spending, reserving and releasing keep a ledger one.
LEMMA LedgerKept ==
  ASSUME NEW l \in Ledgers, NEW user \in Users, NEW token \in Tokens, NEW amount \in Amounts
  PROVE  /\ Credit(l, user, token, amount) \in Ledgers /\ Spend(l, user, token, amount) \in Ledgers
         /\ Reserve(l, user, token, amount) \in Ledgers
<1>1. amount \in Int
  BY WordAssumption DEF Amounts
<1>2. PICK more, less, spent \in Amounts :
        /\ more = Add(l[user][token].available, amount)
        /\ less = Sub(l[user][token].available, amount)
        /\ spent = Sub(l[user][token].reserved, amount)
  BY <1>1, BalanceChanges, AmountsTyped
<1>3. Credit(l, user, token, amount) \in Ledgers /\ Spend(l, user, token, amount) \in Ledgers
  BY <1>2, BalanceChanges DEF Credit, Spend
<1>4. PICK kept \in Amounts : kept = Add(l[user][token].reserved, amount)
  BY <1>1, BalanceChanges, AmountsTyped
<1>5. PICK first \in Ledgers : first = [l EXCEPT ![user][token].available = less]
  BY BalanceChanges
<1>6. Reserve(l, user, token, amount) = [first EXCEPT ![user][token].reserved = kept]
  BY <1>2, <1>4, <1>5 DEF Reserve
<1>7. [first EXCEPT ![user][token].reserved = kept] \in Ledgers
  BY BalanceChanges
<1> QED BY <1>3, <1>6, <1>7

\* So do releasing and settling a fill.
LEMMA SettleKept ==
  ASSUME NEW l \in Ledgers
  PROVE  /\ \A user \in Users, token \in Tokens, amount \in Amounts :
              Release(l, user, token, amount) \in Ledgers
         /\ \A seller, buyer \in Users, base, quote \in Tokens, b, q \in Amounts :
              SettleFill(l, seller, buyer, base, quote, b, q) \in Ledgers
  BY LedgerKept DEF Release, SettleFill

-----------------------------------------------------------------------------
(* The tables and the first state.                                         *)

\* The tables, one by one, when some of them change.
LEMMA TablesKept ==
  ASSUME Stored,
         NEW balances \in Ledgers, NEW rows, RowsSound(rows), NEW trades \in Seq(StoredTrades),
         NEW nonces, DOMAIN nonces \subseteq SignedOrders, NEW cancels,
         db' = [balances |-> balances, orders |-> rows, trades |-> trades, nonces |-> nonces,
                pending_cancels |-> cancels]
  PROVE  Stored' /\ db'.orders = rows
<1>1. /\ db'.balances = balances /\ db'.orders = rows /\ db'.trades = trades
      /\ db'.nonces = nonces /\ db'.pending_cancels = cancels
  OBVIOUS
<1>2. RowsSound(rows)'= RowsSound(rows)
  OBVIOUS
<1>3. db' = [balances |-> db'.balances, orders |-> db'.orders, trades |-> db'.trades,
             nonces |-> db'.nonces, pending_cancels |-> db'.pending_cancels]
  BY <1>1
<1> QED BY <1>1, <1>3 DEF Stored, RowsSound

\* The part of the invariant about the database depends on no other variable.
LEMMA StoredKept ==
  ASSUME Stored, UNCHANGED db PROVE Stored'
  BY DEF Stored, RowsSound

\* A ledger of zeros is a ledger.
LEMMA ZeroIsLedger == ZeroLedger \in Ledgers
  BY WordAssumption DEF ZeroLedger, Ledgers, Balances, Amounts

\* The gateway starts in the invariant.
LEMMA InitIInv == Init => IInv
<1> SUFFICES ASSUME Init PROVE IInv
  OBVIOUS
<1> USE DEF Init
<1>1. /\ book = EmptyBook /\ next_id = 1 /\ taker = Engine!NoTaker /\ serving = FALSE
  BY EngineBook DEF Engine!Init
<1>2. Consistent(book) /\ DOMAIN book.locations = {} /\ OrdersIn(book) = {}
  BY <1>1, EmptyWellFormed, EmptyHoldsNothing DEF WellFormed
<1>3. DOMAIN EmptyMap = {} /\ EmptyMap = [x \in DOMAIN EmptyMap |-> EmptyMap[x]]
  BY DEF EmptyMap
<1>4. RowsSound(EmptyMap)
  BY <1>3 DEF RowsSound
<1>5. /\ db.balances = Deposits /\ db.orders = EmptyMap /\ db.trades = <<>>
      /\ db.nonces = EmptyMap /\ db.pending_cancels = {}
  OBVIOUS
<1>6. Stored
  BY <1>3, <1>4, <1>5, GatewayAssumption DEF Stored
<1>7. EngineReady
  <2>1. 1 \in 1..(MaxId + 1) /\ to_restore = NotLoaded
    BY GatewayAssumption
  <2>2. serving \in BOOLEAN /\ next_id \in 1..(MaxId + 1)
    BY <1>1, <2>1
  <2> QED BY <1>2, <2>1, <2>2 DEF EngineReady
<1>8. TakerHandled
  BY <1>1 DEF TakerHandled
<1>9. MapsAgree /\ BookKnown
  BY <1>2, <1>3 DEF MapsAgree, BookKnown
<1>10. Recovering
  BY <1>1, <1>2 DEF Recovering
<1>11. Typed
  BY GatewayAssumption, ZeroIsLedger DEF Typed
<1> QED BY <1>6, <1>7, <1>8, <1>9, <1>10, <1>11 DEF IInv

-----------------------------------------------------------------------------
(* Every step keeps the invariant: submission, crash, and steps outside.   *)

\* What a signed order holds.
LEMMA OrderTyped ==
  ASSUME NEW o \in Orders
  PROVE  /\ o.maker \in Users /\ o.side \in Sides /\ o.price \in Prices
         /\ o.quantity \in Quantities /\ o.quantity \in Amounts
         /\ o.quantity \in Nat /\ o.price \in Nat /\ o.nonce \in Nat
         /\ OwnToken(o) \in Tokens /\ PairToken(o.side) \in Tokens
<1>1. /\ o.maker \in Users /\ o.side \in Sides /\ o.price \in Prices /\ o.nonce \in Nat
      /\ o.quantity \in Quantities /\ o.base_token \in Tokens /\ o.quote_token \in Tokens
  BY DEF Orders
<1>2. \A x \in Prices : x \in Nat
  BY PricesAssumption
<1>3. \A x \in Quantities : x \in Nat
  BY SignedTyped
<1> QED BY <1>1, <1>2, <1>3, GatewayAssumption DEF OwnToken, PairToken

\* submit_order, up to the engine's loop.
LEMMA SubmitInv ==
  ASSUME IInv, NEW r \in Requests, SubmitOrder(r.order, r.type)
  PROVE  IInv'
<1> DEFINE o == r.order
<1>1. o \in SignedOrders /\ o \in Orders /\ r.type \in {"limit", "market"}
  BY GatewayAssumption DEF SignedOrders
<1>2. /\ o.maker \in Users /\ o.side \in Sides /\ o.price \in Prices /\ o.quantity \in Quantities
      /\ o.quantity \in Nat /\ o.price \in Nat /\ OwnToken(o) \in Tokens
  BY <1>1, OrderTyped
<1> HIDE DEF o
<1>3. /\ ledger' = Reserve(ledger, o.maker, OwnToken(o), Required(o))
      /\ accepted_nonces' = accepted_nonces \cup {o} /\ handling' = o
      /\ UNCHANGED <<order_map, order_nonce_map, pending_trades, to_restore, db, now, crashes>>
      /\ Engine!Submit(o.side, o.price, o.quantity, r.type)
  BY DEF SubmitOrder, o
<1>4. /\ serving /\ taker = Engine!NoTaker /\ next_id <= MaxId
      /\ taker' = [id |-> next_id, side |-> o.side, price |-> o.price, type |-> r.type,
                   quantity |-> o.quantity, remaining |-> o.quantity, fills |-> <<>>]
      /\ next_id' = next_id + 1 /\ UNCHANGED <<book, serving>>
  BY <1>3, EngineSubmit
<1>5. next_id \in 1..(MaxId + 1) /\ MaxId \in Nat /\ to_restore = {} /\ NotLoaded # {}
  BY <1>4, GatewayAssumption DEF IInv, EngineReady, Recovering, NotLoaded
<1>6. Stored'
  BY <1>3, StoredKept DEF IInv
<1>7. EngineReady'
  <2>1. next_id' \in 1..(MaxId + 1) /\ \A x \in 1..(next_id - 1) : x \in 1..(next_id' - 1)
    BY <1>4, <1>5
  <2>2. \A id \in DOMAIN book'.locations : id < next_id'
    BY <1>4, <1>5 DEF IInv, EngineReady, Consistent, LocationsTyped
  <2>3. DOMAIN db.orders \subseteq 1..(next_id' - 1)
    BY <1>5, <2>1 DEF IInv, EngineReady
  <2> QED BY <1>3, <1>4, <2>1, <2>2, <2>3 DEF IInv, EngineReady
<1>8. TakerHandled'
  <2>1. taker' # Engine!NoTaker
    BY <1>4, NoTakerIsNone
  <2>2. <<>> \in Seq(Engine!Fills) /\ DOMAIN <<>> = {}
    OBVIOUS
  <2>3. /\ taker' \in [id : Nat \ {0}, side : Sides, price : Prices, type : {"limit", "market"},
                      quantity : Nat, remaining : Nat, fills : Seq(Engine!Fills)]
        /\ taker'.id = next_id' - 1 /\ taker'.side = o.side /\ taker'.price = o.price
        /\ taker'.remaining <= o.quantity /\ taker'.fills = <<>>
    BY <1>1, <1>2, <1>4, <1>5, <2>2
  <2>4. \A id \in DOMAIN book'.locations : id < taker'.id
    BY <1>4 DEF IInv, EngineReady
  <2>5. handling' = o /\ o # NoOrder
    BY <1>1, <1>3, SignedTyped
  <2> QED BY <1>1, <1>4, <2>1, <2>2, <2>3, <2>4, <2>5 DEF TakerHandled
<1>9. MapsAgree' /\ BookKnown'
  BY <1>3, <1>4 DEF IInv, MapsAgree, BookKnown
<1>10. Recovering'
  BY <1>3, <1>4, <1>5 DEF IInv, Recovering
<1>11. Typed'
  <2>1. Required(o) \in Amounts
    BY <1>2, AmountsTyped, GatewayAssumption DEF Required
  <2>2. ledger' \in Ledgers
    BY <1>2, <1>3, <2>1, LedgerKept DEF IInv, Typed
  <2> QED BY <1>1, <1>3, <2>2 DEF IInv, Typed
<1> QED BY <1>6, <1>7, <1>8, <1>9, <1>10, <1>11 DEF IInv

\* Whatever the process was doing when it died.
LEMMA CrashInv ==
  ASSUME IInv, Crash
  PROVE  IInv'
<1>1. /\ crashes < MaxCrashes /\ ledger' = ZeroLedger /\ accepted_nonces' = {}
      /\ order_map' = EmptyMap /\ order_nonce_map' = EmptyMap /\ pending_trades' = <<>>
      /\ handling' = NoOrder /\ to_restore' = NotLoaded /\ crashes' = crashes + 1
      /\ UNCHANGED <<db, now>>
      /\ book' = EmptyBook /\ next_id' = 1 /\ taker' = Engine!NoTaker /\ serving' = FALSE
  BY EngineOthers DEF Crash
<1>2. Consistent(book') /\ DOMAIN book'.locations = {} /\ OrdersIn(book') = {} /\ DOMAIN EmptyMap = {}
  BY <1>1, EmptyWellFormed, EmptyHoldsNothing DEF WellFormed, EmptyMap
<1>3. Stored'
  BY <1>1, StoredKept DEF IInv
<1>4. EngineReady'
  <2>1. 1 \in 1..(MaxId + 1)
    BY GatewayAssumption
  <2> QED BY <1>1, <1>2, <2>1 DEF EngineReady
<1>5. TakerHandled' /\ MapsAgree' /\ BookKnown' /\ Recovering'
  BY <1>1, <1>2 DEF TakerHandled, MapsAgree, BookKnown, Recovering
<1>6. Typed'
  BY <1>1, GatewayAssumption, ZeroIsLedger DEF IInv, Typed
<1> QED BY <1>3, <1>4, <1>5, <1>6 DEF IInv

\* Steps that only move the clock, the database's nonces or rows, and the
\* places recovery has reached.
LEMMA OutsideInv ==
  ASSUME IInv, Stored', DOMAIN db'.orders = DOMAIN db.orders,
         UNCHANGED <<book, next_id, taker, order_map, order_nonce_map, ledger, accepted_nonces,
                     pending_trades, handling, crashes>>,
         now' \in 0..MaxTime,
         \/ UNCHANGED <<to_restore, serving>>
         \/ to_restore = {} /\ to_restore' = {} /\ serving' = TRUE
         \/ to_restore # NotLoaded /\ serving = FALSE /\ serving' = FALSE /\ to_restore' \subseteq to_restore
  PROVE  IInv'
<1>1. {} # NotLoaded
  BY DEF NotLoaded
<1>2. EngineReady'
  <2>1. to_restore # NotLoaded \/ to_restore' = to_restore
    BY <1>1
  <2>2. serving' \in BOOLEAN
    BY DEF IInv, EngineReady
  <2> QED BY <2>1, <2>2 DEF IInv, EngineReady
<1>3. TakerHandled' /\ MapsAgree' /\ BookKnown'
  BY DEF IInv, TakerHandled, MapsAgree, BookKnown
<1>4. Recovering' 
  BY <1>1 DEF IInv, Recovering
<1>5. Typed'
  BY DEF IInv, Typed
<1> QED BY <1>2, <1>3, <1>4, <1>5 DEF IInv

-----------------------------------------------------------------------------
(* Recovery.                                                               *)

\* A row whose status changes is a row.
LEMMA MarkedRows ==
  ASSUME NEW rows, RowsSound(rows), NEW id, NEW status \in {"filled", "cancelled"}
  PROVE  /\ RowsSound([rows EXCEPT ![id].status = status])
         /\ DOMAIN [rows EXCEPT ![id].status = status] = DOMAIN rows
<1>1. PICK marked : marked = [rows EXCEPT ![id].status = status]
  OBVIOUS
<1>2. /\ DOMAIN marked = DOMAIN rows /\ marked = [x \in DOMAIN marked |-> marked[x]]
      /\ \A x \in DOMAIN rows : marked[x] = IF x = id THEN [rows[x] EXCEPT !.status = status] ELSE rows[x]
  BY <1>1 DEF RowsSound
<1>3. \A row \in RowRecords : /\ [row EXCEPT !.status = status] \in RowRecords
                              /\ [row EXCEPT !.status = status].order = row.order
                              /\ [row EXCEPT !.status = status].resting_quantity = row.resting_quantity
  BY DEF RowRecords
<1>4. \A x \in DOMAIN rows : /\ marked[x] \in RowRecords
                             /\ marked[x].resting_quantity \in 1..marked[x].order.quantity
  <2> SUFFICES ASSUME NEW x \in DOMAIN rows
               PROVE  /\ marked[x] \in RowRecords
                      /\ marked[x].resting_quantity \in 1..marked[x].order.quantity
    OBVIOUS
  <2>1. PICK row \in RowRecords : row = rows[x] /\ row.resting_quantity \in 1..row.order.quantity
    BY DEF RowsSound
  <2>2. marked[x] = row \/ marked[x] = [row EXCEPT !.status = status]
    BY <1>2, <2>1
  <2> QED BY <1>3, <2>1, <2>2
<1> QED BY <1>1, <1>2, <1>4 DEF RowsSound

\* The end of recovery.
LEMMA ServeInv == ASSUME IInv, Serve PROVE IInv'
<1>1. /\ to_restore = {} /\ to_restore' = {} /\ serving' = TRUE
      /\ UNCHANGED <<book, next_id, taker, order_map, order_nonce_map, ledger, accepted_nonces,
                     pending_trades, handling, crashes, now, db>>
  BY EngineOthers DEF Serve, app_vars
<1>2. Stored' /\ now' \in 0..MaxTime
  BY <1>1, StoredKept DEF IInv, Typed
<1> QED BY <1>1, <1>2, OutsideInv

\* The clock.
LEMMA TickInv == ASSUME IInv, Tick PROVE IInv'
<1>1. /\ now' = now + 1 /\ now < MaxTime
      /\ UNCHANGED <<book, next_id, taker, serving, order_map, order_nonce_map, ledger, accepted_nonces,
                     pending_trades, handling, crashes, to_restore, db>>
  BY DEF Tick, engine_vars, app_vars
<1>2. Stored' /\ now' \in 0..MaxTime
  BY <1>1, StoredKept, GatewayAssumption DEF IInv, Typed
<1> QED BY <1>1, <1>2, OutsideInv

\* Recovery and the hourly task forget nonces.
LEMMA PrunedStored ==
  ASSUME Stored, db' = [db EXCEPT !.nonces = Pruned(@)]
  PROVE  Stored' /\ db'.orders = db.orders
<1>1. DOMAIN Pruned(db.nonces) \subseteq DOMAIN db.nonces
  BY DEF Pruned, Unexpired
<1>2. PICK nonces : nonces = Pruned(db.nonces)
  OBVIOUS
<1>3. db' = [balances |-> db.balances, orders |-> db.orders, trades |-> db.trades,
             nonces |-> nonces, pending_cancels |-> db.pending_cancels]
  BY <1>2 DEF Stored
<1>4. DOMAIN nonces \subseteq SignedOrders
  BY <1>1, <1>2 DEF Stored
<1>5. PICK balances, rows, trades, cancels :
        /\ balances = db.balances /\ rows = db.orders /\ trades = db.trades
        /\ cancels = db.pending_cancels
  OBVIOUS
<1>6. balances \in Ledgers /\ RowsSound(rows) /\ trades \in Seq(StoredTrades)
  BY <1>5 DEF Stored
<1>7. db' = [balances |-> balances, orders |-> rows, trades |-> trades,
             nonces |-> nonces, pending_cancels |-> cancels]
  BY <1>3, <1>5
<1> QED BY <1>4, <1>5, <1>6, <1>7, TablesKept

\* The hourly task.
LEMMA PruneInv == ASSUME IInv, PruneNonces PROVE IInv'
<1>1. /\ db' = [db EXCEPT !.nonces = Pruned(@)]
      /\ UNCHANGED <<book, next_id, taker, serving, order_map, order_nonce_map, ledger, accepted_nonces,
                     pending_trades, handling, crashes, to_restore, now>>
  BY DEF PruneNonces, engine_vars, app_vars
<1>2. Stored' /\ db'.orders = db.orders /\ now' \in 0..MaxTime
  BY <1>1, PrunedStored DEF IInv, Typed
<1> QED BY <1>1, <1>2, OutsideInv

\* A row that expired before it was restored.
LEMMA SkipInv == ASSUME IInv, SkipExpired PROVE IInv'
<1>1. PICK id : /\ to_restore \notin {NotLoaded, {}} /\ to_restore' = to_restore \ {id}
                /\ db' \in {db, [db EXCEPT !.orders[id].status = "cancelled"]}
  BY DEF SkipExpired
<1>2. UNCHANGED <<book, next_id, taker, serving, order_map, order_nonce_map, ledger, accepted_nonces,
                  pending_trades, handling, crashes, now>>
  BY DEF SkipExpired, engine_vars, app_vars
<1>3. serving = FALSE
  BY <1>1 DEF IInv, Recovering, EngineReady
<1>4. Stored' /\ DOMAIN db'.orders = DOMAIN db.orders
  <2>1. CASE db' = db
    BY <2>1, StoredKept DEF IInv
  <2>2. CASE db' = [db EXCEPT !.orders[id].status = "cancelled"]
    <3>1. PICK rows : rows = [db.orders EXCEPT ![id].status = "cancelled"]
      OBVIOUS
    <3>2. db' = [balances |-> db.balances, orders |-> rows, trades |-> db.trades,
                 nonces |-> db.nonces, pending_cancels |-> db.pending_cancels]
      BY <2>2, <3>1 DEF IInv, Stored
    <3>3. RowsSound(rows) /\ DOMAIN rows = DOMAIN db.orders
      BY <3>1, MarkedRows DEF IInv, Stored
    <3> QED BY <3>2, <3>3, TablesKept DEF IInv, Stored
  <2> QED BY <1>1, <2>1, <2>2
<1>5. now' \in 0..MaxTime /\ serving' = FALSE
  BY <1>2, <1>3 DEF IInv, Typed
<1> QED BY <1>1, <1>2, <1>3, <1>4, <1>5, OutsideInv

\* The largest row, and the smallest.
LEMMA ExtremeRows ==
  ASSUME NEW ids, ids # {}, ids \subseteq 1..MaxId
  PROVE  /\ Max(ids) \in ids /\ \A x \in ids : x <= Max(ids)
         /\ Min(ids) \in ids /\ \A x \in ids : Min(ids) <= x
<1>1. ids \in SUBSET (0..MaxId) /\ MaxId \in Nat /\ \A x \in ids : x \in Int
  BY GatewayAssumption
<1>2. /\ \E p \in ids : \A q \in ids : ~(q < p)
      /\ \E p \in ids : \A q \in ids : ~(q > p)
  BY <1>1, Extremes
<1>3. /\ \E p \in ids : \A q \in ids : p <= q
      /\ \E p \in ids : \A q \in ids : p >= q
  <2>1. \A p, q \in ids : (~(q < p) => p <= q) /\ (~(q > p) => p >= q)
    BY <1>1
  <2>2. PICK p \in ids : \A q \in ids : ~(q < p)
    BY <1>2
  <2>3. PICK r \in ids : \A q \in ids : ~(q > r)
    BY <1>2
  <2> QED BY <2>1, <2>2, <2>3
<1>4. Max(ids) \in ids /\ \A x \in ids : x <= Max(ids)
  <2>1. Max(ids) \in ids /\ \A x \in ids : Max(ids) >= x
    BY <1>3 DEF Max
  <2> QED BY <1>1, <2>1
<1>5. Min(ids) \in ids /\ \A x \in ids : Min(ids) <= x
  BY <1>3 DEF Min
<1> QED BY <1>1, <1>3, <1>4, <1>5

\* Trades with their ids are a sequence of such pairs.
LEMMA NumberedTyped ==
  ASSUME NEW trades \in Seq(StoredTrades)
  PROVE  /\ [i \in DOMAIN trades |-> [id |-> i, trade |-> trades[i]]] \in
              Seq([id : Nat, trade : StoredTrades])
         /\ \A n \in Nat : [i \in DOMAIN trades |-> [id |-> n + i, trade |-> trades[i]]] \in
                            Seq([id : Nat, trade : StoredTrades])
<1>1. /\ DOMAIN trades = 1..Len(trades) /\ Len(trades) \in Nat
      /\ \A i \in DOMAIN trades : trades[i] \in StoredTrades
  BY LenProperties, ElementOfSeq
<1> DEFINE Numbered == [id : Nat, trade : StoredTrades]
<1>2. \A i \in DOMAIN trades : [id |-> i, trade |-> trades[i]] \in Numbered
  BY <1>1
<1>3. \A n \in Nat : \A i \in DOMAIN trades : [id |-> n + i, trade |-> trades[i]] \in Numbered
  BY <1>1
<1> HIDE DEF Numbered
<1>4. [1..Len(trades) -> Numbered] \subseteq Seq(Numbered)
  BY <1>1, SeqDef
<1>5. [i \in DOMAIN trades |-> [id |-> i, trade |-> trades[i]]] \in Seq(Numbered)
  BY <1>1, <1>2, <1>4
<1>6. \A n \in Nat : [i \in DOMAIN trades |-> [id |-> n + i, trade |-> trades[i]]] \in Seq(Numbered)
  BY <1>1, <1>3, <1>4
<1> QED BY <1>5, <1>6 DEF Numbered

\* The database is read: the next id is above all rows.
LEMMA LoadInv == ASSUME IInv, Load PROVE IInv'
<1>1. /\ to_restore = NotLoaded /\ to_restore' = RestingRows /\ ledger' = db.balances
      /\ db' = [db EXCEPT !.nonces = Pruned(@)] /\ accepted_nonces' = Unexpired(db.nonces)
      /\ pending_trades' = PendingTrades
      /\ UNCHANGED <<order_map, order_nonce_map, handling, now, crashes>>
      /\ serving = FALSE /\ book = EmptyBook /\ next_id' = LastRow + 1
      /\ UNCHANGED <<book, taker, serving>>
  BY EngineOthers DEF Load, IInv, EngineReady
<1>2. Stored' /\ db'.orders = db.orders
  BY <1>1, PrunedStored DEF IInv
<1>3. DOMAIN db.orders \subseteq 1..MaxId /\ RestingRows \subseteq DOMAIN db.orders
  BY DEF IInv, Stored, RowsSound, RestingRows
<1>4. LastRow \in 0..MaxId /\ \A id \in DOMAIN db.orders : id <= LastRow
  BY <1>3, ExtremeRows, GatewayAssumption DEF LastRow
<1>5. next_id' \in 1..(MaxId + 1) /\ DOMAIN db.orders \subseteq 1..(next_id' - 1)
  BY <1>1, <1>3, <1>4, GatewayAssumption
<1>6. DOMAIN book.locations = {}
  BY <1>1, EmptyWellFormed
<1>7. EngineReady'
  BY <1>1, <1>2, <1>5, <1>6 DEF IInv, EngineReady
<1>8. TakerHandled' /\ MapsAgree' /\ BookKnown'
  BY <1>1, <1>6 DEF IInv, TakerHandled, MapsAgree, BookKnown
<1>9. Recovering'
  BY <1>1, <1>2, <1>3, <1>6 DEF IInv, Recovering
<1>10. Typed'
  <2>1. accepted_nonces' \subseteq SignedOrders /\ db.balances \in Ledgers
    BY <1>1 DEF Unexpired, IInv, Stored
  <2>2. PICK trades \in Seq(StoredTrades) : trades = db.trades
    BY DEF IInv, Stored
  <2>3. [i \in DOMAIN trades |-> [id |-> i, trade |-> trades[i]]] \in Seq([id : Nat, trade : StoredTrades])
    BY NumberedTyped
  <2>4. pending_trades' \in Seq([id : Nat, trade : StoredTrades])
    BY <1>1, <2>2, <2>3 DEF PendingTrades
  <2> QED BY <1>1, <2>1, <2>4 DEF IInv, Typed
<1> QED BY <1>2, <1>7, <1>8, <1>9, <1>10 DEF IInv

\* What is entered in order_nonce_map for a signed order.
LEMMA EntryTyped ==
  ASSUME NEW o \in SignedOrders, NEW quantity \in Nat, quantity <= o.quantity
  PROVE  /\ NonceEntry(o, quantity) \in NonceEntries
         /\ NonceEntry(o, quantity).maker = o.maker /\ NonceEntry(o, quantity).nonce = o.nonce
         /\ quantity \in Amounts
<1>1. o \in Orders
  BY SignedTyped
<1>2. /\ o.maker \in Users /\ o.side \in Sides /\ o.nonce \in Nat /\ o.price \in Nat
      /\ o.quantity \in Amounts /\ PairToken(o.side) \in Tokens
  BY <1>1, OrderTyped
<1>3. quantity \in Amounts
  BY <1>2, WordAssumption DEF Amounts
<1>4. Collateral(o.side, o.price, quantity) \in Amounts
  BY <1>2, <1>3, AmountsTyped
<1> QED BY <1>2, <1>3, <1>4 DEF NonceEntry, NonceEntries

\* An order is entered in both maps under an id.
LEMMA MapsEntered ==
  ASSUME MapsAgree, NEW id, NEW o \in SignedOrders, NEW entry \in NonceEntries,
         entry.maker = o.maker, entry.nonce = o.nonce,
         order_map' = With(order_map, id, o), order_nonce_map' = With(order_nonce_map, id, entry)
  PROVE  MapsAgree' /\ DOMAIN order_map' = DOMAIN order_map \cup {id}
  BY DEF MapsAgree, With

\* And then an order of the book with its terms is known.
LEMMA KnownEntered ==
  ASSUME NEW o, NEW map, NEW id, NEW signed,
         \/ KnownAs(o, map) /\ o.id # id
         \/ o.id = id /\ signed.side = o.side /\ signed.price = o.price /\ o.quantity <= signed.quantity
  PROVE  KnownAs(o, With(map, id, signed))
  BY DEF KnownAs, With

\* A row is restored under its old id, the oldest first.
LEMMA RestoreInv == ASSUME IInv, RestoreOrder PROVE IInv'
<1>1. PICK id, row : id = NextRow(to_restore) /\ row = db.orders[id]
  OBVIOUS
<1>2. PICK o, entry : /\ o = [id |-> id, side |-> row.order.side, price |-> row.order.price,
                              quantity |-> row.resting_quantity]
                      /\ entry = NonceEntry(row.order, row.resting_quantity)
  OBVIOUS
<1>3. /\ to_restore \notin {NotLoaded, {}} /\ to_restore' = to_restore \ {id}
      /\ accepted_nonces' = accepted_nonces \cup {row.order}
      /\ order_map' = With(order_map, id, row.order)
      /\ order_nonce_map' = With(order_nonce_map, id, entry)
      /\ serving = FALSE /\ book' = Insert(book, o) /\ UNCHANGED <<next_id, taker, serving>>
      /\ UNCHANGED <<ledger, pending_trades, handling, db, now, crashes>>
  BY <1>1, <1>2, EngineOthers DEF RestoreOrder, Restored, IInv, EngineReady
<1>4. /\ to_restore \subseteq DOMAIN db.orders /\ DOMAIN db.orders \subseteq 1..MaxId
      /\ id \in to_restore /\ \A x \in to_restore : id <= x
  BY <1>1, <1>3, ExtremeRows DEF IInv, Recovering, Stored, RowsSound, NextRow
<1>5. /\ row.order \in SignedOrders /\ row.resting_quantity \in Nat \ {0}
      /\ row.resting_quantity <= row.order.quantity /\ row.order.quantity \in Nat
      /\ id \in Nat
  <2>1. row \in RowRecords /\ row.resting_quantity \in 1..row.order.quantity /\ id \in 1..MaxId
    BY <1>1, <1>4 DEF IInv, Stored, RowsSound
  <2>2. row.order \in SignedOrders
    BY <2>1 DEF RowRecords
  <2>3. row.order.quantity \in Nat
    BY <2>2, SignedTyped, OrderTyped
  <2> QED BY <2>1, <2>2, <2>3, GatewayAssumption
<1>6. o \in EngineOrders
  <2>1. row.order.side \in Sides /\ row.order.price \in Prices
    BY <1>5, SignedTyped, OrderTyped
  <2> QED BY <1>2, <1>5, <2>1 DEF EngineOrders
<1>7. \A x \in DOMAIN book.locations : x < o.id
  BY <1>2, <1>3, <1>4 DEF IInv, Recovering
<1>8. /\ Consistent(book') /\ DOMAIN book'.locations = DOMAIN book.locations \cup {id}
      /\ OrdersIn(book') = OrdersIn(book) \cup {o}
  BY <1>2, <1>3, <1>6, <1>7, InsertConsistent, OrdersAfterInsert DEF IInv, EngineReady
<1>9. Stored'
  BY <1>3, StoredKept DEF IInv
<1>10. EngineReady'
  <2>1. DOMAIN db.orders \subseteq 1..(next_id - 1) /\ id < next_id
    BY <1>3, <1>4, GatewayAssumption DEF IInv, EngineReady
  <2> QED BY <1>3, <1>8, <2>1 DEF IInv, EngineReady
<1>11. TakerHandled'
  BY <1>3 DEF IInv, TakerHandled
<1>12. MapsAgree'
  BY <1>2, <1>3, <1>5, EntryTyped, MapsEntered DEF IInv
<1>13. BookKnown'
  <2>1. ASSUME NEW n \in OrdersIn(book) PROVE KnownAs(n, order_map')
    <3>1. n.id \in DOMAIN book.locations /\ KnownAs(n, order_map)
      BY RestingPlace DEF IInv, EngineReady, BookKnown, IndexedAt
    <3>2. n.id # id
      BY <1>2, <1>5, <1>7, <3>1
    <3> QED BY <1>3, <3>1, <3>2, KnownEntered
  <2>2. KnownAs(o, order_map')
    BY <1>2, <1>3, <1>5, KnownEntered
  <2> QED BY <1>8, <2>1, <2>2 DEF BookKnown
<1>14. Recovering'
  <2>1. \A x \in to_restore' : id < x
    BY <1>3, <1>4, <1>5, GatewayAssumption
  <2>2. \A x \in to_restore', y \in DOMAIN book'.locations : y < x
    BY <1>3, <1>8, <2>1 DEF IInv, Recovering
  <2> QED BY <1>3, <1>4, <2>2 DEF Recovering
<1>15. Typed'
  BY <1>3, <1>5 DEF IInv, Typed
<1> QED BY <1>9, <1>10, <1>11, <1>12, <1>13, <1>14, <1>15 DEF IInv

-----------------------------------------------------------------------------
(* Fills.                                                                  *)

\* A ledger after a fill, and after a cancel, is a ledger.
LEMMA FillLedger ==
  ASSUME ledger \in Ledgers, NEW o \in Orders, NEW maker \in Users, NEW fill,
         fill.quantity \in Nat, fill.quantity <= o.quantity, fill.price \in Prices
  PROVE  LedgerAfterFill(o, maker, fill) \in Ledgers
<1>1. /\ o.maker \in Users /\ o.price \in Nat /\ o.quantity \in Amounts
  BY OrderTyped
<1>2. fill.quantity \in Amounts /\ fill.price \in Nat
  <2>1. \A x \in Prices : x \in Nat
    BY PricesAssumption
  <2>2. \A x \in Nat, y \in Amounts : x <= y => x \in Amounts
    BY WordAssumption DEF Amounts
  <2> QED BY <1>1, <2>1, <2>2
<1>3. QuoteAmount(fill.quantity, fill.price) \in Amounts
  BY <1>2, AmountsTyped
<1>4. Surplus(o, fill) \in Amounts
  <2>1. CASE o.side = "buy" /\ fill.price < o.price
    <3>1. PICK less \in Nat : less = o.price - fill.price
      BY <1>1, <1>2, <2>1
    <3>2. QuoteAmount(fill.quantity, less) \in Amounts
      BY <3>1, AmountsTyped
    <3> QED BY <2>1, <3>1, <3>2 DEF Surplus
  <2>2. CASE ~(o.side = "buy" /\ fill.price < o.price)
    BY <2>2, WordAssumption DEF Surplus, Amounts
  <2> QED BY <2>1, <2>2
<1>5. base_token \in Tokens /\ quote_token \in Tokens
  BY GatewayAssumption
<1>6. PICK seller \in Users, buyer \in Users :
        /\ seller = (IF o.side = "buy" THEN maker ELSE o.maker)
        /\ buyer = (IF o.side = "buy" THEN o.maker ELSE maker)
  BY <1>1
<1>7. PICK settled \in Ledgers :
        settled = SettleFill(ledger, seller, buyer, base_token, quote_token, fill.quantity,
                             QuoteAmount(fill.quantity, fill.price))
  BY <1>2, <1>3, <1>5, SettleKept
<1>8. Release(settled, o.maker, quote_token, Surplus(o, fill)) \in Ledgers
  BY <1>1, <1>4, <1>5, SettleKept
<1>9. LedgerAfterFill(o, maker, fill) = Release(settled, o.maker, quote_token, Surplus(o, fill))
  BY <1>6, <1>7 DEF LedgerAfterFill
<1> QED BY <1>8, <1>9

\* What the taker is while an order is handled.
LEMMA TakerFacts ==
  ASSUME IInv, handling # NoOrder
  PROVE  /\ handling \in SignedOrders /\ handling \in Orders /\ taker # Engine!NoTaker
         /\ taker = [id |-> taker.id, side |-> taker.side, price |-> taker.price, type |-> taker.type,
                     quantity |-> taker.quantity, remaining |-> taker.remaining, fills |-> taker.fills]
         /\ taker.id \in Nat \ {0} /\ taker.side \in Sides /\ taker.price \in Prices
         /\ taker.type \in {"limit", "market"} /\ taker.quantity \in Nat /\ taker.remaining \in Nat
         /\ taker.fills \in Seq(Engine!Fills) /\ DOMAIN taker.fills = 1..Len(taker.fills)
         /\ \A i \in DOMAIN taker.fills : taker.fills[i] \in Engine!Fills
         /\ serving /\ to_restore = {}
<1>1. /\ handling \in SignedOrders /\ taker # Engine!NoTaker /\ serving
      /\ taker \in [id : Nat \ {0}, side : Sides, price : Prices, type : {"limit", "market"},
                    quantity : Nat, remaining : Nat, fills : Seq(Engine!Fills)]
  BY DEF IInv, TakerHandled
<1>2. handling \in Orders /\ to_restore = {}
  BY <1>1, SignedTyped DEF IInv, Recovering
<1>3. /\ taker = [id |-> taker.id, side |-> taker.side, price |-> taker.price, type |-> taker.type,
                  quantity |-> taker.quantity, remaining |-> taker.remaining, fills |-> taker.fills]
      /\ taker.id \in Nat \ {0} /\ taker.side \in Sides /\ taker.price \in Prices
      /\ taker.type \in {"limit", "market"} /\ taker.quantity \in Nat /\ taker.remaining \in Nat
      /\ taker.fills \in Seq(Engine!Fills)
  BY <1>1
<1>4. DOMAIN taker.fills = 1..Len(taker.fills) /\ \A i \in DOMAIN taker.fills : taker.fills[i] \in Engine!Fills
  BY <1>3, LenProperties, ElementOfSeq
<1> QED BY <1>1, <1>2, <1>3, <1>4

\* One fill of the taker.
LEMMA FillInv == ASSUME IInv, FillOrder PROVE IInv'
<1>1. PICK side, fill : side = Opposite(taker.side) /\ fill = Engine!NextFill
  OBVIOUS
<1>2. /\ taker # Engine!NoTaker /\ taker.remaining > 0 /\ DOMAIN book.levels[side] # {}
      /\ fill = [maker_id |-> BestMaker(book, side).id, price |-> BestPrice(book, side),
                 quantity |-> FillQty(book, side, taker.remaining)]
      /\ book' = TakeBest(book, side, taker.remaining)
      /\ taker' = [taker EXCEPT !.remaining = @ - fill.quantity, !.fills = Append(@, fill)]
      /\ UNCHANGED <<next_id, serving>>
  BY <1>1, EngineMatch DEF FillOrder
<1>3. /\ fill.maker_id \in DOMAIN order_map
      /\ ledger' = LedgerAfterFill(handling, order_map[fill.maker_id].maker, fill)
      /\ UNCHANGED <<accepted_nonces, order_map, order_nonce_map, pending_trades,
                     handling, to_restore, db, now, crashes>>
  BY <1>1 DEF FillOrder
<1>4. handling # NoOrder
  BY <1>2 DEF IInv, TakerHandled
<1>5. Consistent(book) /\ side \in Sides /\ taker.remaining \in Nat \ {0} /\ taker.remaining <= handling.quantity
  BY <1>1, <1>2, <1>4, TakerFacts DEF IInv, EngineReady, TakerHandled, Opposite, Sides
<1>6. PICK m, qty : m = BestMaker(book, side) /\ qty = FillQty(book, side, taker.remaining)
  OBVIOUS
<1>7. /\ m \in EngineOrders /\ m.price = BestPrice(book, side) /\ m.id \in DOMAIN book.locations
      /\ qty \in Nat \ {0} /\ qty <= taker.remaining /\ qty <= m.quantity
      /\ m \in OrdersIn(book) /\ m.id \in Nat /\ m.price \in Prices /\ m.quantity \in Nat
  <2>1. m \in EngineOrders /\ m.price = BestPrice(book, side) /\ m.id \in DOMAIN book.locations
    BY <1>2, <1>5, <1>6, BestMakerFacts
  <2>2. qty \in Nat \ {0} /\ qty <= taker.remaining /\ qty <= m.quantity
    BY <1>2, <1>5, <1>6, FillQtyBounds
  <2>3. m \in OrdersIn(book)
    BY <1>2, <1>5, <1>6, BestMakerPrecedes
  <2>4. m.id \in Nat /\ m.price \in Prices /\ m.quantity \in Nat
    BY <2>1 DEF EngineOrders
  <2> QED BY <2>1, <2>2, <2>3, <2>4
<1>8. fill.maker_id = m.id /\ fill.price = m.price /\ fill.quantity = qty /\ fill \in Engine!Fills
  BY <1>2, <1>6, <1>7 DEF Engine!Fills
<1>9. /\ Consistent(book') /\ DOMAIN book'.locations \subseteq DOMAIN book.locations
      /\ \A o \in OrdersIn(book') :
           \/ o \in OrdersIn(book)
           \/ o = [m EXCEPT !.quantity = m.quantity - qty]
  BY <1>2, <1>5, <1>6, TakeConsistent, OrdersAfterTake
<1>10. Stored' /\ EngineReady'
  BY <1>2, <1>3, <1>9, StoredKept DEF IInv, EngineReady
<1>11. TakerHandled'
  <2>1. PICK t : t = taker
    OBVIOUS
  <2>2. PICK fills, left : fills = Append(t.fills, fill) /\ left = t.remaining - qty
    OBVIOUS
  <2>3. taker' = [id |-> t.id, side |-> t.side, price |-> t.price, type |-> t.type,
                  quantity |-> t.quantity, remaining |-> left, fills |-> fills]
    BY <1>2, <1>4, <1>8, <2>1, <2>2, TakerFacts
  <2>4. left \in Nat /\ left <= t.remaining
    BY <1>5, <1>7, <2>1, <2>2
  <2>5. /\ fills \in Seq(Engine!Fills) /\ DOMAIN fills = 1..(Len(t.fills) + 1)
        /\ \A i \in 1..Len(t.fills) : fills[i] = t.fills[i]
        /\ fills[Len(t.fills) + 1] = fill
    BY <1>4, <1>8, <2>1, <2>2, TakerFacts, AppendProperties, LenProperties
  <2>6. \A i \in DOMAIN fills : fills[i].maker_id \in DOMAIN order_map
    <3>1. ASSUME NEW i \in DOMAIN fills PROVE i \in DOMAIN t.fills \/ i = Len(t.fills) + 1
      BY <1>4, <2>1, <2>5, TakerFacts, LenProperties
    <3>2. \A i \in DOMAIN t.fills : t.fills[i].maker_id \in DOMAIN order_map
      BY <1>4, <2>1 DEF IInv, TakerHandled
    <3>3. DOMAIN t.fills = 1..Len(t.fills)
      BY <1>4, <2>1, TakerFacts
    <3> QED BY <1>3, <2>5, <3>1, <3>2, <3>3
  <2>7. taker' # Engine!NoTaker
    BY <2>3, NoTakerIsNone
  <2>8. /\ taker' \in [id : Nat \ {0}, side : Sides, price : Prices, type : {"limit", "market"},
                       quantity : Nat, remaining : Nat, fills : Seq(Engine!Fills)]
        /\ taker'.id = t.id /\ taker'.side = t.side /\ taker'.price = t.price
        /\ taker'.remaining = left /\ taker'.fills = fills
    BY <1>4, <2>1, <2>3, <2>4, <2>5, TakerFacts
  <2>9. /\ t.id = next_id - 1 /\ \A id \in DOMAIN book.locations : id < t.id
        /\ t.side = handling.side /\ t.price = handling.price
    BY <1>4, <2>1 DEF IInv, TakerHandled
  <2>10. left <= handling.quantity
    <3>1. handling.quantity \in Nat
      BY <1>4, TakerFacts, OrderTyped
    <3> QED BY <1>5, <2>1, <2>4, <3>1
  <2>11. handling' = handling /\ handling \in SignedOrders /\ serving' /\ next_id' = next_id /\ order_map' = order_map
    BY <1>2, <1>3, <1>4, TakerFacts
  <2> QED BY <1>4, <1>9, <2>6, <2>7, <2>8, <2>9, <2>10, <2>11 DEF TakerHandled
<1>12. MapsAgree'
  BY <1>3 DEF IInv, MapsAgree
<1>13. BookKnown'
  <2>1. KnownAs(m, order_map) /\ order_map' = order_map
    BY <1>3, <1>7 DEF IInv, BookKnown
  <2>2. KnownAs([m EXCEPT !.quantity = m.quantity - qty], order_map)
    <3>1. m = [id |-> m.id, side |-> m.side, price |-> m.price, quantity |-> m.quantity]
      BY <1>7 DEF EngineOrders
    <3>2. order_map[m.id].quantity \in Nat
      BY <2>1, SignedTyped, OrderTyped DEF KnownAs, IInv, MapsAgree
    <3>3. PICK left : left = m.quantity - qty
      OBVIOUS
    <3>4. left <= order_map[m.id].quantity
      BY <1>7, <2>1, <3>2, <3>3 DEF KnownAs
    <3>5. [m EXCEPT !.quantity = left] = [id |-> m.id, side |-> m.side, price |-> m.price, quantity |-> left]
      BY <3>1
    <3> QED BY <2>1, <3>3, <3>4, <3>5 DEF KnownAs
  <2> QED BY <1>9, <2>1, <2>2 DEF IInv, BookKnown
<1>14. Recovering'
  BY <1>2, <1>3, <1>9 DEF IInv, Recovering
<1>15. Typed'
  <2>1. order_map[fill.maker_id].maker \in Users
    BY <1>3, SignedTyped, OrderTyped DEF IInv, MapsAgree
  <2>2. fill.quantity <= handling.quantity /\ fill.quantity \in Nat
    <3>1. handling.quantity \in Nat
      BY <1>4, TakerFacts, OrderTyped
    <3> QED BY <1>5, <1>7, <1>8, <3>1
  <2>3. ledger' \in Ledgers
    BY <1>3, <1>4, <1>7, <1>8, <2>1, <2>2, TakerFacts, FillLedger DEF IInv, Typed
  <2> QED BY <1>3, <2>3 DEF IInv, Typed
<1> QED BY <1>10, <1>11, <1>12, <1>13, <1>14, <1>15 DEF IInv

-----------------------------------------------------------------------------
(* The end of a submission.                                                *)

\* The trades of a submission, as they are stored and handed to the batch loop.
LEMMA TradesTyped ==
  ASSUME IInv, handling # NoOrder
  PROVE  /\ Trades \in Seq(StoredTrades)
         /\ Tagged(Trades) \in Seq([id : Nat, trade : StoredTrades])
<1>1. ASSUME NEW i \in DOMAIN taker.fills
      PROVE  [maker_order |-> order_map[taker.fills[i].maker_id], taker_order |-> handling,
              price |-> taker.fills[i].price, quantity |-> taker.fills[i].quantity] \in StoredTrades
  <2>1. PICK fill : fill = taker.fills[i]
    OBVIOUS
  <2>2. fill \in Engine!Fills /\ handling \in SignedOrders
    BY <2>1, TakerFacts
  <2>3. fill.price \in Prices /\ fill.quantity \in Nat \ {0}
    BY <2>2 DEF Engine!Fills
  <2>4. order_map[fill.maker_id] \in SignedOrders
    BY <2>1 DEF IInv, TakerHandled, MapsAgree
  <2> QED BY <2>1, <2>2, <2>3, <2>4 DEF StoredTrades
<1>2. DOMAIN taker.fills = 1..Len(taker.fills) /\ Len(taker.fills) \in Nat
  BY TakerFacts, LenProperties
<1>3. Trades \in [1..Len(taker.fills) -> StoredTrades]
  BY <1>1, <1>2 DEF Trades
<1>4. Trades \in Seq(StoredTrades)
  BY <1>2, <1>3, SeqDef
<1>5. PICK trades \in Seq(StoredTrades) : trades = Trades
  BY <1>4
<1>6. db.trades \in Seq(StoredTrades)
  BY DEF IInv, Stored
<1>7. Len(db.trades) \in Nat
  BY <1>6, LenProperties
<1> QED BY <1>5, <1>7, NumberedTyped DEF Tagged

\* The rows once a submission is saved.
LEMMA RowsAfterSave ==
  ASSUME IInv, handling # NoOrder
  PROVE  /\ RowsSound(OrderRowsAfter(db.orders))
         /\ DOMAIN OrderRowsAfter(db.orders) \subseteq DOMAIN db.orders \cup {taker.id}
<1>1. PICK rows, filled : rows = db.orders /\ filled = FilledMakers
  OBVIOUS
<1>2. RowsSound(rows)
  BY <1>1 DEF IInv, Stored
<1>3. PICK marked : marked = [id \in DOMAIN rows |-> IF id \in filled
                                                     THEN [rows[id] EXCEPT !.status = "filled"]
                                                     ELSE rows[id]]
  OBVIOUS
<1>4. DOMAIN marked = DOMAIN rows
  BY <1>3
<1>5. \A row \in RowRecords : /\ [row EXCEPT !.status = "filled"] \in RowRecords
                              /\ [row EXCEPT !.status = "filled"].order = row.order
                              /\ [row EXCEPT !.status = "filled"].resting_quantity = row.resting_quantity
  BY DEF RowRecords
<1>6. ASSUME NEW x \in DOMAIN rows
      PROVE  marked[x] \in RowRecords /\ marked[x].resting_quantity \in 1..marked[x].order.quantity
  <2>1. PICK row \in RowRecords : row = rows[x] /\ row.resting_quantity \in 1..row.order.quantity
    BY <1>2 DEF RowsSound
  <2>2. marked[x] = row \/ marked[x] = [row EXCEPT !.status = "filled"]
    BY <1>3, <2>1
  <2> QED BY <1>5, <2>1, <2>2
<1>7. marked = [x \in DOMAIN marked |-> marked[x]]
  BY <1>3
<1>8. RowsSound(marked)
  BY <1>2, <1>4, <1>6, <1>7 DEF RowsSound
<1>9. CASE ~Engine!Rests
  BY <1>1, <1>3, <1>4, <1>8, <1>9 DEF OrderRowsAfter
<1>10. CASE Engine!Rests
  <2>1. PICK row : row = [order |-> handling, status |-> "resting", resting_quantity |-> taker.remaining]
    OBVIOUS
  <2>2. OrderRowsAfter(db.orders) = With(marked, taker.id, row)
    BY <1>1, <1>3, <1>10, <2>1 DEF OrderRowsAfter
  <2>3. row \in RowRecords /\ row.resting_quantity \in 1..row.order.quantity
    <3>1. /\ taker.remaining > 0 /\ taker.remaining \in Nat /\ taker.remaining <= handling.quantity
          /\ handling \in SignedOrders /\ handling.quantity \in Nat
      BY <1>10, TakerFacts, OrderTyped DEF Engine!Rests, IInv, TakerHandled
    <3>2. taker.remaining \in 1..handling.quantity
      BY <3>1
    <3> QED BY <2>1, <3>1, <3>2 DEF RowRecords
  <2>4. taker.id \in 1..MaxId
    <3>1. taker.id = next_id - 1 /\ taker.id \in Nat \ {0} /\ next_id \in 1..(MaxId + 1)
      BY TakerFacts DEF IInv, TakerHandled, EngineReady
    <3> QED BY <3>1, GatewayAssumption
  <2>5. PICK all : all = With(marked, taker.id, row)
    OBVIOUS
  <2>6. /\ DOMAIN all = DOMAIN rows \cup {taker.id} /\ all = [x \in DOMAIN all |-> all[x]]
        /\ \A x \in DOMAIN all : all[x] = IF x = taker.id THEN row ELSE marked[x]
    BY <1>4, <2>5 DEF With
  <2>7. RowsSound(all)
    BY <1>2, <1>6, <2>3, <2>4, <2>6 DEF RowsSound
  <2> QED BY <1>1, <2>2, <2>5, <2>6, <2>7
<1> QED BY <1>9, <1>10

\* The rest of the taker, the maps, and the transaction.
LEMMA FinishInv == ASSUME IInv, FinishOrder PROVE IInv'
<1>1. PICK id, o : id = taker.id /\ o = [id |-> taker.id, side |-> taker.side, price |-> taker.price,
                                         quantity |-> taker.remaining]
  OBVIOUS
<1>2. /\ handling # NoOrder /\ order_map' = Entered(order_map, handling)
      /\ order_nonce_map' = Entered(order_nonce_map, NonceEntry(handling, taker.remaining))
      /\ db' = SaveOrderFill /\ pending_trades' = pending_trades \o Tagged(Trades) /\ handling' = NoOrder
      /\ UNCHANGED <<ledger, accepted_nonces, to_restore, now, crashes>>
      /\ book' = IF Engine!Rests THEN Insert(book, o) ELSE book
      /\ taker' = Engine!NoTaker /\ UNCHANGED <<next_id, serving>>
  BY <1>1, EngineFinish DEF FinishOrder
<1>3. /\ handling \in SignedOrders /\ serving /\ to_restore = {} /\ NotLoaded # {}
      /\ id \in Nat \ {0} /\ id = next_id - 1 /\ \A x \in DOMAIN book.locations : x < id
      /\ taker.side = handling.side /\ taker.price = handling.price
      /\ taker.remaining \in Nat /\ taker.remaining <= handling.quantity
  BY <1>1, <1>2, TakerFacts DEF IInv, TakerHandled, NotLoaded
<1>4. Engine!Rests => o \in EngineOrders
  BY <1>1, <1>2, TakerFacts DEF EngineOrders, Engine!Rests
<1>5. Stored' /\ db'.orders = OrderRowsAfter(db.orders)
  <2>1. PICK rows, trades, nonces, cancels, balances :
          /\ rows = OrderRowsAfter(db.orders) /\ trades = db.trades \o Trades
          /\ nonces = SaveNonce(db.nonces, handling, now + NonceExpiry)
          /\ cancels = db.pending_cancels /\ balances = ledger
    OBVIOUS
  <2>2. db' = [balances |-> balances, orders |-> rows, trades |-> trades, nonces |-> nonces,
               pending_cancels |-> cancels]
    BY <1>2, <2>1 DEF IInv, Stored, SaveOrderFill
  <2>3. RowsSound(rows)
    BY <1>2, <2>1, RowsAfterSave
  <2>4. trades \in Seq(StoredTrades)
    BY <1>2, <2>1, TradesTyped, ConcatProperties DEF IInv, Stored
  <2>5. DOMAIN nonces \subseteq SignedOrders
    BY <1>3, <2>1 DEF IInv, Stored, SaveNonce, With
  <2>6. balances \in Ledgers
    BY <2>1 DEF IInv, Typed
  <2> QED BY <2>1, <2>2, <2>3, <2>4, <2>5, <2>6, TablesKept DEF IInv
<1>6. /\ Consistent(book')
      /\ DOMAIN book'.locations \subseteq DOMAIN book.locations \cup {id}
      /\ Engine!Rests => OrdersIn(book') = OrdersIn(book) \cup {o}
  <2>1. CASE Engine!Rests
    <3>1. o.id = id
      BY <1>1
    <3> QED BY <1>2, <1>3, <1>4, <2>1, <3>1, InsertConsistent, OrdersAfterInsert DEF IInv, EngineReady
  <2>2. CASE ~Engine!Rests
    BY <1>2, <2>2 DEF IInv, EngineReady
  <2> QED BY <2>1, <2>2
<1>7. EngineReady'
  <2>1. next_id \in 1..(MaxId + 1) /\ id < next_id /\ id \in 1..(next_id - 1)
    BY <1>3, GatewayAssumption DEF IInv, EngineReady
  <2>2. \A x \in DOMAIN book'.locations : x < next_id
    BY <1>6, <2>1 DEF IInv, EngineReady
  <2>3. DOMAIN db'.orders \subseteq 1..(next_id - 1)
    BY <1>1, <1>2, <1>3, <1>5, <2>1, RowsAfterSave DEF IInv, EngineReady
  <2> QED BY <1>2, <1>6, <2>1, <2>2, <2>3 DEF IInv, EngineReady
<1>8. TakerHandled'
  BY <1>2 DEF TakerHandled
<1>9. MapsAgree'
  <2>1. PICK entry : entry = NonceEntry(handling, taker.remaining)
    OBVIOUS
  <2>2. CASE Engine!Rests
    <3>1. order_map' = With(order_map, id, handling) /\ order_nonce_map' = With(order_nonce_map, id, entry)
      BY <1>1, <1>2, <2>1, <2>2 DEF Entered
    <3>2. entry \in NonceEntries /\ entry.maker = handling.maker /\ entry.nonce = handling.nonce
      BY <1>3, <2>1, EntryTyped
    <3> QED BY <1>3, <3>1, <3>2, MapsEntered DEF IInv
  <2>3. CASE ~Engine!Rests
    BY <1>2, <2>3 DEF Entered, IInv, MapsAgree
  <2> QED BY <2>2, <2>3
<1>10. BookKnown'
  <2>1. CASE Engine!Rests
    <3>1. order_map' = With(order_map, id, handling)
      BY <1>1, <1>2, <2>1 DEF Entered
    <3>2. ASSUME NEW n \in OrdersIn(book) PROVE KnownAs(n, order_map')
      <4>1. n.id \in DOMAIN book.locations /\ KnownAs(n, order_map)
        BY RestingPlace DEF IInv, EngineReady, BookKnown, IndexedAt
      <4>2. n.id # id
        BY <1>3, <4>1
      <4> QED BY <3>1, <4>1, <4>2, KnownEntered
    <3>3. KnownAs(o, order_map')
      BY <1>1, <1>3, <3>1, KnownEntered
    <3> QED BY <1>6, <2>1, <3>2, <3>3 DEF BookKnown
  <2>2. CASE ~Engine!Rests
    BY <1>2, <2>2 DEF Entered, IInv, BookKnown
  <2> QED BY <2>1, <2>2
<1>11. Recovering'
  BY <1>2, <1>3 DEF IInv, Recovering
<1>12. Typed'
  <2>1. pending_trades' \in Seq([id : Nat, trade : StoredTrades])
    BY <1>2, TradesTyped, ConcatProperties DEF IInv, Typed
  <2> QED BY <1>2, <2>1 DEF IInv, Typed
<1> QED BY <1>5, <1>7, <1>8, <1>9, <1>10, <1>11, <1>12 DEF IInv

-----------------------------------------------------------------------------
(* Cancels, and the invariant as a theorem.                                *)

\* A market order without a fill.
LEMMA DropInv == ASSUME IInv, DropUnfilled PROVE IInv'
<1>1. /\ handling # NoOrder /\ taker.type = "market"
      /\ accepted_nonces' = accepted_nonces \ {handling}
      /\ ledger' = Release(ledger, handling.maker, OwnToken(handling), Required(handling))
      /\ handling' = NoOrder
      /\ UNCHANGED <<order_map, order_nonce_map, pending_trades, to_restore, db, now, crashes>>
      /\ taker' = Engine!NoTaker /\ UNCHANGED <<book, next_id, serving>>
  <2>1. DropUnfilled => ~Engine!Rests
    BY DEF DropUnfilled, Engine!Rests
  <2> QED BY <2>1, EngineFinish DEF DropUnfilled
<1>2. Stored' /\ EngineReady' /\ MapsAgree' /\ BookKnown' /\ Recovering' /\ TakerHandled'
  BY <1>1, StoredKept DEF IInv, EngineReady, MapsAgree, BookKnown, Recovering, TakerHandled
<1>3. Typed'
  <2>1. handling \in Orders
    BY <1>1, TakerFacts
  <2>2. Required(handling) \in Amounts /\ handling.maker \in Users /\ OwnToken(handling) \in Tokens
    BY <2>1, OrderTyped, AmountsTyped DEF Required
  <2>3. ledger' \in Ledgers
    BY <1>1, <2>2, SettleKept DEF IInv, Typed
  <2> QED BY <1>1, <2>3 DEF IInv, Typed
<1> QED BY <1>2, <1>3 DEF IInv

\* What both outcomes of a cancel do to the engine and the ledger.
LEMMA CancelFacts ==
  ASSUME IInv, NEW id \in DOMAIN order_nonce_map, Engine!Cancel(id),
         ledger' = LedgerAfterCancel(order_nonce_map[id]),
         UNCHANGED <<handling, to_restore>>
  PROVE  /\ handling = NoOrder /\ handling' = NoOrder /\ taker' = Engine!NoTaker
         /\ UNCHANGED <<next_id, serving>> /\ ledger' \in Ledgers
         /\ Consistent(book') /\ DOMAIN book'.locations \subseteq DOMAIN book.locations
         /\ \A o \in OrdersIn(book') : o \in OrdersIn(book) /\ o.id # id
<1>1. /\ serving /\ taker = Engine!NoTaker /\ id \in DOMAIN book.locations
      /\ book' = RemoveOrder(book, id) /\ UNCHANGED <<next_id, taker, serving>>
  BY EngineOthers
<1>2. handling = NoOrder
  BY <1>1 DEF IInv, TakerHandled
<1>3. Consistent(book)
  BY DEF IInv, EngineReady
<1>4. Consistent(book') /\ DOMAIN book'.locations \subseteq DOMAIN book.locations
  BY <1>1, <1>3, RemoveConsistent
<1>5. PICK m \in OrdersIn(book) : m.id = id /\ OrdersIn(book') = OrdersIn(book) \ {m}
  BY <1>1, <1>3, OrdersAfterRemove
<1>6. \A o \in OrdersIn(book') : o \in OrdersIn(book) /\ o.id # id
  BY <1>3, <1>5, IdNamesOrder
<1>7. PICK entry \in NonceEntries : entry = order_nonce_map[id]
  BY DEF IInv, MapsAgree
<1>8. entry.maker \in Users /\ entry.token \in Tokens /\ entry.amount \in Amounts
  BY DEF NonceEntries
<1>9. Release(ledger, entry.maker, entry.token, entry.amount) \in Ledgers
  BY <1>8, SettleKept DEF IInv, Typed
<1>10. ledger' \in Ledgers
  BY <1>7, <1>9 DEF LedgerAfterCancel
<1> QED BY <1>1, <1>2, <1>4, <1>6, <1>10

\* Parts of the invariant a cancel keeps whatever becomes of its transaction.
LEMMA CancelKeeps ==
  ASSUME IInv, Stored', DOMAIN db'.orders = DOMAIN db.orders,
         handling' = NoOrder, taker' = Engine!NoTaker, UNCHANGED <<next_id, serving, to_restore>>,
         ledger' \in Ledgers, Consistent(book'), DOMAIN book'.locations \subseteq DOMAIN book.locations,
         UNCHANGED <<accepted_nonces, pending_trades, now, crashes>>
  PROVE  EngineReady' /\ TakerHandled' /\ Recovering' /\ Typed'
  BY DEF IInv, EngineReady, TakerHandled, Recovering, Typed

\* A cancel.
LEMMA CancelInv ==
  ASSUME IInv, NEW c \in Cancels, CancelOrder(c) PROVE IInv'
<1>1. PICK id \in DOMAIN order_nonce_map :
        /\ Engine!Cancel(id) /\ ledger' = LedgerAfterCancel(order_nonce_map[id])
        /\ db' = SaveCancel(id, LedgerAfterCancel(order_nonce_map[id]), order_nonce_map[id])
        /\ order_map' = Without(order_map, id) /\ order_nonce_map' = Without(order_nonce_map, id)
        /\ UNCHANGED <<accepted_nonces, pending_trades, handling, to_restore, now, crashes>>
  BY DEF CancelOrder
<1>2. /\ handling = NoOrder /\ handling' = NoOrder /\ taker' = Engine!NoTaker
      /\ UNCHANGED <<next_id, serving>> /\ ledger' \in Ledgers
      /\ Consistent(book') /\ DOMAIN book'.locations \subseteq DOMAIN book.locations
      /\ \A o \in OrdersIn(book') : o \in OrdersIn(book) /\ o.id # id
  BY <1>1, CancelFacts
<1>3. Stored' /\ DOMAIN db'.orders = DOMAIN db.orders
  <2>1. PICK rows, trades, nonces, cancels, balances :
          /\ rows = [db.orders EXCEPT ![id].status = "cancelled"] /\ trades = db.trades
          /\ nonces = db.nonces /\ balances = ledger'
          /\ cancels = db.pending_cancels \cup
                         {[maker |-> order_nonce_map[id].maker, nonce |-> order_nonce_map[id].nonce]}
    OBVIOUS
  <2>2. db' = [balances |-> balances, orders |-> rows, trades |-> trades, nonces |-> nonces,
               pending_cancels |-> cancels]
    BY <1>1, <2>1 DEF IInv, Stored, SaveCancel
  <2>3. RowsSound(rows) /\ DOMAIN rows = DOMAIN db.orders
    BY <2>1, MarkedRows DEF IInv, Stored
  <2>4. trades \in Seq(StoredTrades) /\ DOMAIN nonces \subseteq SignedOrders /\ balances \in Ledgers
    BY <1>2, <2>1 DEF IInv, Stored
  <2> QED BY <2>2, <2>3, <2>4, TablesKept DEF IInv
<1>4. EngineReady' /\ TakerHandled' /\ Recovering' /\ Typed'
  BY <1>1, <1>2, <1>3, CancelKeeps
<1>5. MapsAgree'
  BY <1>1 DEF IInv, MapsAgree, Without, Restrict
<1>6. BookKnown'
  BY <1>1, <1>2 DEF IInv, BookKnown, KnownAs, Without, Restrict
<1> QED BY <1>3, <1>4, <1>5, <1>6 DEF IInv

\* A cancel whose transaction fails.
LEMMA CancelDbFailsInv ==
  ASSUME IInv, NEW c \in Cancels, CancelOrderDbFails(c) PROVE IInv'
<1>1. PICK id \in DOMAIN order_nonce_map :
        Engine!Cancel(id) /\ ledger' = LedgerAfterCancel(order_nonce_map[id])
  BY DEF CancelOrderDbFails
<1>2. UNCHANGED <<accepted_nonces, order_map, order_nonce_map, pending_trades,
                  handling, to_restore, db, now, crashes>>
  BY DEF CancelOrderDbFails
<1>3. /\ handling = NoOrder /\ handling' = NoOrder /\ taker' = Engine!NoTaker
      /\ UNCHANGED <<next_id, serving>> /\ ledger' \in Ledgers
      /\ Consistent(book') /\ DOMAIN book'.locations \subseteq DOMAIN book.locations
      /\ \A o \in OrdersIn(book') : o \in OrdersIn(book) /\ o.id # id
  BY <1>1, <1>2, CancelFacts
<1>4. Stored' /\ DOMAIN db'.orders = DOMAIN db.orders
  BY <1>2, StoredKept DEF IInv
<1>5. EngineReady' /\ TakerHandled' /\ Recovering' /\ Typed'
  BY <1>2, <1>3, <1>4, CancelKeeps
<1>6. MapsAgree' /\ BookKnown'
  BY <1>2, <1>3 DEF IInv, MapsAgree, BookKnown
<1> QED BY <1>4, <1>5, <1>6 DEF IInv

\* A step that changes nothing keeps the invariant.
LEMMA StutterInv == ASSUME IInv, UNCHANGED vars PROVE IInv'
<1>1. UNCHANGED <<book, next_id, taker, serving, ledger, accepted_nonces, order_map, order_nonce_map,
                  pending_trades, handling, to_restore, db, now, crashes>>
  BY DEF vars, engine_vars, app_vars
<1>2. Stored' /\ now' \in 0..MaxTime
  BY <1>1, StoredKept DEF IInv, Typed
<1> QED BY <1>1, <1>2, OutsideInv

\* Every step of the gateway keeps it.
LEMMA NextIInv == IInv /\ [Next]_vars => IInv'
<1> SUFFICES ASSUME IInv, [Next]_vars PROVE IInv'
  OBVIOUS
<1>1. CASE \E r \in Requests : SubmitOrder(r.order, r.type)
  BY <1>1, SubmitInv
<1>2. CASE FillOrder
  BY <1>2, FillInv
<1>3. CASE FinishOrder
  BY <1>3, FinishInv
<1>4. CASE DropUnfilled
  BY <1>4, DropInv
<1>5. CASE \E c \in Cancels : CancelOrder(c)
  BY <1>5, CancelInv
<1>6. CASE \E c \in Cancels : CancelOrderDbFails(c)
  BY <1>6, CancelDbFailsInv
<1>7. CASE Crash
  BY <1>7, CrashInv
<1>8. CASE Load
  BY <1>8, LoadInv
<1>9. CASE RestoreOrder
  BY <1>9, RestoreInv
<1>10. CASE SkipExpired
  BY <1>10, SkipInv
<1>11. CASE Serve
  BY <1>11, ServeInv
<1>12. CASE PruneNonces
  BY <1>12, PruneInv
<1>13. CASE Tick
  BY <1>13, TickInv
<1>14. CASE UNCHANGED vars
  BY <1>14, StutterInv
<1> QED BY <1>1, <1>2, <1>3, <1>4, <1>5, <1>6, <1>7, <1>8, <1>9, <1>10, <1>11, <1>12, <1>13, <1>14 DEF Next

\* The gateway, with any users, prices and requests, and whatever crashes and
\* failing transactions, keeps its book, its maps and its rows in step.
THEOREM GatewayInvariant == Spec => []IInv
  BY InitIInv, NextIInv, PTL DEF Spec

\* Every order on the book is in both maps of AppState with the terms its maker
\* signed, before, during and after any recovery: the panic "maker order must
\* exist in order_map" cannot happen.
THEOREM MakersAlwaysKnown == Spec => []MakersKnown
<1>1. IInv => MakersKnown
  BY DEF IInv, BookKnown, KnownAs, MapsAgree, MakersKnown
<1> QED BY <1>1, GatewayInvariant, PTL

\* The gateway's variables stay in their types; a handler is at work exactly
\* when the engine is, and no order is given the id of another order's row.
THEOREM GatewayTyped == Spec => []TypeOK
<1>1. ASSUME IInv PROVE TypeOK
  <2>1. Range(order_map) \subseteq SignedOrders /\ Range(order_nonce_map) \subseteq NonceEntries
    BY <1>1 DEF IInv, MapsAgree, Range
  <2>2. \A i \in DOMAIN pending_trades : pending_trades[i].trade \in StoredTrades
    <3>1. \A i \in DOMAIN pending_trades : pending_trades[i] \in [id : Nat, trade : StoredTrades]
      BY <1>1, LenProperties, ElementOfSeq DEF IInv, Typed
    <3> QED BY <3>1
  <2>3. Range(db.trades) \subseteq StoredTrades
    <3>1. \A i \in DOMAIN db.trades : db.trades[i] \in StoredTrades
      BY <1>1, LenProperties, ElementOfSeq DEF IInv, Stored
    <3> QED BY <3>1 DEF Range
  <2>4. RowsTyped
    <3>1. serving => DOMAIN db.orders \subseteq 1..(next_id - 1)
      BY <1>1 DEF IInv, EngineReady, Recovering, NotLoaded
    <3>2. \A id \in DOMAIN db.orders : /\ db.orders[id] \in RowRecords
                                       /\ db.orders[id].resting_quantity \in 1..db.orders[id].order.quantity
      BY <1>1 DEF IInv, Stored, RowsSound
    <3> QED BY <3>1, <3>2 DEF RowsTyped, RowRecords
  <2>5. handling # NoOrder <=> taker # Engine!NoTaker
    BY <1>1 DEF IInv, TakerHandled
  <2> QED BY <1>1, <2>1, <2>2, <2>3, <2>4, <2>5
          DEF TypeOK, IInv, Typed, MapsAgree, TakerHandled, Recovering, Stored
<1> QED BY <1>1, GatewayInvariant, PTL

-----------------------------------------------------------------------------
(* No order is accepted twice.                                             *)

\* No order is submitted that is valid for longer than its nonce is kept: the
\* default of nonce_expiry_secs is a week, and nothing in the code asks for it.
NonceOutlivesOrder == handling # NoOrder => handling.expiry <= now + NonceExpiry

\* The database turns an order down for as long as it is valid.
Saved(o) == o \in DOMAIN db.nonces \/ o.expiry < now

Remembered ==
  /\ \A i \in DOMAIN db.trades : Saved(db.trades[i].maker_order) /\ Saved(db.trades[i].taker_order)
  /\ \A id \in DOMAIN db.orders : Saved(db.orders[id].order)
  /\ \A id \in DOMAIN order_map : Saved(order_map[id])
  /\ \A o \in DOMAIN db.nonces : db.nonces[o] \in Nat /\ o.expiry <= db.nonces[o]

\* The process knows what the database knows, and what it handles is new.
TurnedDown ==
  /\ to_restore # NotLoaded =>
       \A o \in DOMAIN db.nonces : o \in accepted_nonces \/ o.expiry < now
  /\ handling # NoOrder => handling \in accepted_nonces /\ ~Saved(handling)

OnceInv == Remembered /\ TurnedDown

\* Orders' expiries and stored expiries are instants.
LEMMA InstantsTyped ==
  ASSUME IInv
  PROVE  /\ now \in Nat /\ \A o \in SignedOrders : o.expiry \in Nat
         /\ \A id \in DOMAIN db.orders : db.orders[id].order \in SignedOrders
         /\ \A id \in DOMAIN order_map : order_map[id] \in SignedOrders
         /\ DOMAIN db.nonces \subseteq SignedOrders
<1>1. now \in Nat
  BY GatewayAssumption DEF IInv, Typed
<1>2. \A o \in SignedOrders : o.expiry \in Nat
  BY SignedTyped DEF Orders
<1>3. \A id \in DOMAIN db.orders : db.orders[id].order \in SignedOrders
  BY DEF IInv, Stored, RowsSound, RowRecords
<1> QED BY <1>1, <1>2, <1>3 DEF IInv, MapsAgree, Stored

\* Steps that leave the tables and the maps of the gateway as they are.
LEMMA OnceElsewhere ==
  ASSUME OnceInv, UNCHANGED <<db, now, order_map, handling, to_restore>>, accepted_nonces' = accepted_nonces
  PROVE  OnceInv'
  BY DEF OnceInv, Remembered, TurnedDown, Saved

\* A submission: what is handled was not accepted, and so is not stored.
LEMMA OnceSubmit ==
  ASSUME IInv, OnceInv, NEW r \in Requests, SubmitOrder(r.order, r.type)
  PROVE  OnceInv'
<1>1. /\ r.order.expiry >= now /\ r.order \notin accepted_nonces
      /\ accepted_nonces' = accepted_nonces \cup {r.order} /\ handling' = r.order
      /\ UNCHANGED <<order_map, to_restore, db, now>> /\ serving
  BY EngineSubmit DEF SubmitOrder, Acceptable
<1>2. to_restore # NotLoaded
  BY <1>1 DEF IInv, Recovering, NotLoaded
<1>3. r.order \in SignedOrders
  BY DEF SignedOrders
<1>4. ~Saved(r.order)
  BY <1>1, <1>2, <1>3, InstantsTyped DEF OnceInv, TurnedDown, Saved
<1>5. Remembered'
  BY <1>1 DEF OnceInv, Remembered, Saved
<1>6. TurnedDown'
  BY <1>1, <1>4 DEF OnceInv, TurnedDown, Saved
<1> QED BY <1>5, <1>6 DEF OnceInv

\* The orders of the rows once a submission is saved.
LEMMA OrdersOfRows ==
  ASSUME IInv, handling # NoOrder
  PROVE  \A id \in DOMAIN OrderRowsAfter(db.orders) :
           \/ OrderRowsAfter(db.orders)[id].order = handling
           \/ id \in DOMAIN db.orders /\ OrderRowsAfter(db.orders)[id].order = db.orders[id].order
<1>1. PICK rows, filled : rows = db.orders /\ filled = FilledMakers
  OBVIOUS
<1>2. PICK marked : marked = [id \in DOMAIN rows |-> IF id \in filled
                                                     THEN [rows[id] EXCEPT !.status = "filled"]
                                                     ELSE rows[id]]
  OBVIOUS
<1>3. \A row \in RowRecords : [row EXCEPT !.status = "filled"].order = row.order
  BY DEF RowRecords
<1>4. \A id \in DOMAIN rows : rows[id] \in RowRecords
  BY <1>1 DEF IInv, Stored, RowsSound
<1>5. DOMAIN marked = DOMAIN rows /\ \A id \in DOMAIN rows : marked[id].order = rows[id].order
  BY <1>2, <1>3, <1>4
<1>6. CASE ~Engine!Rests
  BY <1>1, <1>2, <1>5, <1>6 DEF OrderRowsAfter
<1>7. CASE Engine!Rests
  <2>1. PICK row : row = [order |-> handling, status |-> "resting", resting_quantity |-> taker.remaining]
    OBVIOUS
  <2>2. OrderRowsAfter(db.orders) = With(marked, taker.id, row)
    BY <1>1, <1>2, <1>7, <2>1 DEF OrderRowsAfter
  <2> QED BY <1>1, <1>5, <2>1, <2>2 DEF With
<1> QED BY <1>6, <1>7

\* The transaction of a submission stores the nonce with the trades and the row.
LEMMA OnceFinish ==
  ASSUME IInv, OnceInv, NonceOutlivesOrder, FinishOrder
  PROVE  OnceInv'
<1> DEFINE After(o) == o \in DOMAIN db'.nonces \/ o.expiry < now'
<1>1. /\ handling # NoOrder /\ order_map' = Entered(order_map, handling)
      /\ db' = SaveOrderFill /\ handling' = NoOrder /\ UNCHANGED <<accepted_nonces, to_restore, now>>
  BY DEF FinishOrder
<1>2. /\ db'.nonces = SaveNonce(db.nonces, handling, now + NonceExpiry)
      /\ db'.trades = db.trades \o Trades /\ db'.orders = OrderRowsAfter(db.orders)
  BY <1>1 DEF IInv, Stored, SaveOrderFill
<1>3. DOMAIN db'.nonces = DOMAIN db.nonces \cup {handling}
  BY <1>2 DEF SaveNonce, With
<1>4. \A o : Saved(o) => After(o)
  BY <1>1, <1>3 DEF Saved
<1>5. After(handling)
  BY <1>3
<1> HIDE DEF After
<1>6. \A i \in DOMAIN db'.trades : After(db'.trades[i].maker_order) /\ After(db'.trades[i].taker_order)
  <2>1. PICK old, new : old = db.trades /\ new = Trades
    OBVIOUS
  <2>2. old \in Seq(StoredTrades) /\ new \in Seq(StoredTrades)
    BY <1>1, <2>1, TradesTyped DEF IInv, Stored
  <2>3. \A i \in DOMAIN old : After(old[i].maker_order) /\ After(old[i].taker_order)
    BY <1>4, <2>1 DEF OnceInv, Remembered
  <2>4. \A i \in DOMAIN new : After(new[i].maker_order) /\ After(new[i].taker_order)
    <3>1. ASSUME NEW i \in DOMAIN new
          PROVE  new[i].taker_order = handling /\ \E id \in DOMAIN order_map : new[i].maker_order = order_map[id]
      <4>1. i \in DOMAIN taker.fills
        BY <2>1 DEF Trades
      <4>2. new[i] = [maker_order |-> order_map[taker.fills[i].maker_id], taker_order |-> handling,
                      price |-> taker.fills[i].price, quantity |-> taker.fills[i].quantity]
        BY <2>1, <4>1 DEF Trades
      <4>3. taker.fills[i].maker_id \in DOMAIN order_map
        BY <1>1, <4>1 DEF IInv, TakerHandled
      <4> QED BY <4>2, <4>3
    <3>2. \A id \in DOMAIN order_map : After(order_map[id])
      BY <1>4 DEF OnceInv, Remembered
    <3> QED BY <1>5, <3>1, <3>2
  <2>5. PICK all : all = old \o new
    OBVIOUS
  <2>6. \A i \in DOMAIN all : \/ i \in DOMAIN old /\ all[i] = old[i]
                              \/ \E j \in DOMAIN new : all[i] = new[j]
    <3>1. /\ DOMAIN all = 1..(Len(old) + Len(new)) /\ Len(old) \in Nat /\ Len(new) \in Nat
          /\ DOMAIN old = 1..Len(old) /\ DOMAIN new = 1..Len(new)
          /\ \A i \in 1..(Len(old) + Len(new)) :
               all[i] = IF i <= Len(old) THEN old[i] ELSE new[i - Len(old)]
      BY <2>2, <2>5, ConcatProperties, LenProperties
    <3>2. ASSUME NEW i \in DOMAIN all, i > Len(old) PROVE i - Len(old) \in DOMAIN new
      BY <3>1, <3>2
    <3> QED BY <3>1, <3>2
  <2>7. \A i \in DOMAIN all : After(all[i].maker_order) /\ After(all[i].taker_order)
    BY <2>3, <2>4, <2>6
  <2> QED BY <1>2, <2>1, <2>5, <2>7
<1>7. \A id \in DOMAIN db'.orders : After(db'.orders[id].order)
  BY <1>1, <1>2, <1>4, <1>5, OrdersOfRows DEF OnceInv, Remembered
<1>8. \A id \in DOMAIN order_map' : After(order_map'[id])
  BY <1>1, <1>4, <1>5 DEF OnceInv, Remembered, Entered, With
<1>9. \A o \in DOMAIN db'.nonces : db'.nonces[o] \in Nat /\ o.expiry <= db'.nonces[o]
  <2>1. now + NonceExpiry \in Nat
    BY GatewayAssumption, InstantsTyped
  <2> QED BY <1>1, <1>2, <2>1 DEF OnceInv, Remembered, SaveNonce, With, NonceOutlivesOrder
<1>10. TurnedDown'
  BY <1>1, <1>3 DEF OnceInv, TurnedDown
<1> QED BY <1>6, <1>7, <1>8, <1>9, <1>10 DEF OnceInv, Remembered, Saved, After

\* Time passes, nonces that expired are forgotten, rows change their status: an
\* order that was turned down still is.
LEMMA OnceOutside ==
  ASSUME IInv, OnceInv, now' \in Nat, now <= now',
         \A o \in DOMAIN db'.nonces : o \in DOMAIN db.nonces /\ db'.nonces[o] = db.nonces[o],
         \A o \in DOMAIN db.nonces : o \in DOMAIN db'.nonces \/ db.nonces[o] < now,
         db'.trades = db.trades,
         \A id \in DOMAIN db'.orders :
           id \in DOMAIN db.orders /\ db'.orders[id].order = db.orders[id].order,
         \A id \in DOMAIN order_map' : id \in DOMAIN order_map /\ order_map'[id] = order_map[id],
         \/ handling' = NoOrder
         \/ handling' = handling /\ accepted_nonces' = accepted_nonces /\ now' = now
                                 /\ handling.expiry >= now,
         to_restore' # NotLoaded =>
           \A o \in DOMAIN db'.nonces : o \in accepted_nonces' \/ o.expiry < now'
  PROVE  OnceInv'
<1> DEFINE After(o) == o \in DOMAIN db'.nonces \/ o.expiry < now'
<1>1. \A o \in SignedOrders : Saved(o) => After(o)
  <2> SUFFICES ASSUME NEW o \in SignedOrders, Saved(o) PROVE After(o)
    OBVIOUS
  <2>1. now \in Nat /\ o.expiry \in Nat
    BY InstantsTyped
  <2>2. CASE o.expiry < now
    BY <2>1, <2>2
  <2>3. CASE o \in DOMAIN db.nonces /\ o \notin DOMAIN db'.nonces
    BY <2>1, <2>3 DEF OnceInv, Remembered
  <2> QED BY <2>2, <2>3 DEF Saved
<1>2. \A i \in DOMAIN db.trades :
        db.trades[i].maker_order \in SignedOrders /\ db.trades[i].taker_order \in SignedOrders
  <2>1. PICK trades \in Seq(StoredTrades) : trades = db.trades
    BY DEF IInv, Stored
  <2>2. \A i \in DOMAIN trades : trades[i] \in StoredTrades
    BY LenProperties, ElementOfSeq
  <2> QED BY <2>1, <2>2 DEF StoredTrades
<1> HIDE DEF After
<1>3. \A i \in DOMAIN db'.trades : After(db'.trades[i].maker_order) /\ After(db'.trades[i].taker_order)
  BY <1>1, <1>2 DEF OnceInv, Remembered
<1>4. \A id \in DOMAIN db'.orders : After(db'.orders[id].order)
  BY <1>1, InstantsTyped DEF OnceInv, Remembered
<1>5. \A id \in DOMAIN order_map' : After(order_map'[id])
  BY <1>1, InstantsTyped DEF OnceInv, Remembered
<1>6. \A o \in DOMAIN db'.nonces : db'.nonces[o] \in Nat /\ o.expiry <= db'.nonces[o]
  BY DEF OnceInv, Remembered
<1>7. Remembered'
  BY <1>3, <1>4, <1>5, <1>6 DEF Remembered, Saved, After
<1>8. handling' # NoOrder => handling' \in accepted_nonces' /\ ~(handling' \in DOMAIN db'.nonces \/ handling'.expiry < now')
  BY DEF OnceInv, TurnedDown, Saved
<1>9. TurnedDown'
  BY <1>8 DEF TurnedDown, Saved
<1> QED BY <1>7, <1>9 DEF OnceInv

\* A row that is marked keeps its order.
LEMMA OrdersOfMarked ==
  ASSUME NEW rows, RowsSound(rows), NEW id, NEW status
  PROVE  \A x \in DOMAIN [rows EXCEPT ![id].status = status] :
           x \in DOMAIN rows /\ [rows EXCEPT ![id].status = status][x].order = rows[x].order
<1>1. \A row \in RowRecords : [row EXCEPT !.status = status].order = row.order
  BY DEF RowRecords
<1> QED BY <1>1 DEF RowsSound

\* The nonces that pruning leaves, in recovery or every hour.
LEMMA OncePruned ==
  ASSUME OnceInv, IInv
  PROVE  /\ \A o \in DOMAIN Pruned(db.nonces) :
              o \in DOMAIN db.nonces /\ Pruned(db.nonces)[o] = db.nonces[o]
         /\ \A o \in DOMAIN db.nonces : o \in DOMAIN Pruned(db.nonces) \/ db.nonces[o] < now
<1>1. DOMAIN Pruned(db.nonces) = Unexpired(db.nonces)
  BY DEF Pruned
<1>2. \A o \in DOMAIN db.nonces : o \in Unexpired(db.nonces) \/ db.nonces[o] < now
  BY InstantsTyped DEF OnceInv, Remembered, Unexpired
<1> QED BY <1>1, <1>2 DEF Pruned, Unexpired

\* Every step keeps what is remembered, as long as nonces outlive their orders.
LEMMA NextOnce ==
  ASSUME IInv, IInv', OnceInv, NonceOutlivesOrder, [Next]_vars
  PROVE  OnceInv'
<1>0. /\ now \in Nat /\ \A o \in DOMAIN db.nonces : o \in DOMAIN db.nonces
      /\ handling # NoOrder => handling.expiry >= now /\ serving /\ to_restore = {}
      /\ {} # NotLoaded
  BY InstantsTyped, TakerFacts DEF OnceInv, TurnedDown, Saved, NotLoaded
<1>1. CASE \E r \in Requests : SubmitOrder(r.order, r.type)
  BY <1>1, OnceSubmit
<1>2. CASE FillOrder
  BY <1>2, OnceElsewhere DEF FillOrder
<1>3. CASE FinishOrder
  BY <1>3, OnceFinish
<1>4. CASE DropUnfilled
  <2>1. /\ handling # NoOrder /\ handling' = NoOrder /\ accepted_nonces' = accepted_nonces \ {handling}
        /\ UNCHANGED <<order_map, db, now, to_restore>>
    BY <1>4 DEF DropUnfilled
  <2>2. \A o \in DOMAIN db.nonces : o \in accepted_nonces' \/ o.expiry < now
    BY <1>0, <2>1 DEF OnceInv, TurnedDown, Saved
  <2> QED BY <1>0, <2>1, <2>2, OnceOutside
<1>5. CASE \E c \in Cancels : CancelOrder(c)
  <2>1. PICK id \in DOMAIN order_nonce_map :
          /\ Engine!Cancel(id) /\ order_map' = Without(order_map, id)
          /\ db' = SaveCancel(id, LedgerAfterCancel(order_nonce_map[id]), order_nonce_map[id])
          /\ UNCHANGED <<accepted_nonces, handling, to_restore, now>>
    BY <1>5 DEF CancelOrder
  <2>2. /\ db'.nonces = db.nonces /\ db'.trades = db.trades
        /\ db'.orders = [db.orders EXCEPT ![id].status = "cancelled"]
    BY <2>1 DEF IInv, Stored, SaveCancel
  <2>3. \A x \in DOMAIN db'.orders : x \in DOMAIN db.orders /\ db'.orders[x].order = db.orders[x].order
    BY <2>2, OrdersOfMarked DEF IInv, Stored
  <2>4. \A x \in DOMAIN order_map' : x \in DOMAIN order_map /\ order_map'[x] = order_map[x]
    BY <2>1 DEF Without, Restrict
  <2>5. handling' = NoOrder
    BY <2>1, EngineOthers DEF IInv, TakerHandled
  <2> QED BY <1>0, <2>1, <2>2, <2>3, <2>4, <2>5, OnceOutside DEF OnceInv, TurnedDown
<1>6. CASE \E c \in Cancels : CancelOrderDbFails(c)
  BY <1>6, OnceElsewhere DEF CancelOrderDbFails
<1>7. CASE Crash
  <2>1. /\ UNCHANGED <<db, now>> /\ handling' = NoOrder /\ to_restore' = NotLoaded /\ order_map' = EmptyMap
        /\ DOMAIN EmptyMap = {}
    BY <1>7 DEF Crash, EmptyMap
  <2> QED BY <1>0, <2>1, OnceOutside
<1>8. CASE Load
  <2>1. /\ db' = [db EXCEPT !.nonces = Pruned(@)] /\ accepted_nonces' = Unexpired(db.nonces)
        /\ UNCHANGED <<order_map, handling, now>> /\ to_restore = NotLoaded
    BY <1>8 DEF Load
  <2>2. /\ db'.nonces = Pruned(db.nonces) /\ db'.trades = db.trades /\ db'.orders = db.orders
    BY <2>1 DEF IInv, Stored
  <2>3. handling' = NoOrder
    BY <1>0, <2>1
  <2>4. DOMAIN Pruned(db.nonces) = accepted_nonces'
    BY <2>1 DEF Pruned
  <2> QED BY <1>0, <2>1, <2>2, <2>3, <2>4, OncePruned, OnceOutside
<1>9. CASE RestoreOrder
  <2>1. PICK id : id = NextRow(to_restore)
    OBVIOUS
  <2>2. /\ to_restore \notin {NotLoaded, {}} /\ to_restore' = to_restore \ {id}
        /\ accepted_nonces' = accepted_nonces \cup {db.orders[id].order}
        /\ order_map' = With(order_map, id, db.orders[id].order)
        /\ UNCHANGED <<handling, db, now>>
    BY <1>9, <2>1 DEF RestoreOrder, Restored
  <2>3. id \in DOMAIN db.orders
    BY <2>1, <2>2, ExtremeRows DEF IInv, Recovering, Stored, RowsSound, NextRow
  <2>4. \A x \in DOMAIN order_map' : Saved(order_map'[x])
    BY <2>2, <2>3 DEF OnceInv, Remembered, With
  <2>5. handling = NoOrder
    BY <1>0, <2>2
  <2> QED BY <2>2, <2>4, <2>5 DEF OnceInv, Remembered, TurnedDown, Saved
<1>10. CASE SkipExpired
  <2>1. PICK id : /\ db' \in {db, [db EXCEPT !.orders[id].status = "cancelled"]}
                  /\ to_restore \notin {NotLoaded, {}}
                  /\ UNCHANGED <<order_map, handling, now, accepted_nonces>>
    BY <1>10 DEF SkipExpired, app_vars
  <2>2. /\ db'.nonces = db.nonces /\ db'.trades = db.trades
        /\ \/ db'.orders = db.orders
           \/ db'.orders = [db.orders EXCEPT ![id].status = "cancelled"]
    BY <2>1 DEF IInv, Stored
  <2>3. \A x \in DOMAIN db'.orders : x \in DOMAIN db.orders /\ db'.orders[x].order = db.orders[x].order
    <3>1. PICK rows, marked : rows = db.orders /\ marked = [rows EXCEPT ![id].status = "cancelled"]
      OBVIOUS
    <3>2. \A x \in DOMAIN marked : x \in DOMAIN rows /\ marked[x].order = rows[x].order
      BY <3>1, OrdersOfMarked DEF IInv, Stored
    <3> QED BY <2>2, <3>1, <3>2
  <2>4. handling' = NoOrder
    BY <1>0, <2>1
  <2> QED BY <1>0, <2>1, <2>2, <2>3, <2>4, OnceOutside DEF OnceInv, TurnedDown
<1>11. CASE Serve
  <2>1. UNCHANGED <<db, now, order_map, handling, to_restore, accepted_nonces>>
    BY <1>11 DEF Serve, app_vars
  <2> QED BY <2>1, OnceElsewhere
<1>12. CASE PruneNonces
  <2>1. /\ db' = [db EXCEPT !.nonces = Pruned(@)] /\ UNCHANGED <<order_map, handling, now, to_restore, accepted_nonces>>
    BY <1>12 DEF PruneNonces, app_vars
  <2>2. /\ db'.nonces = Pruned(db.nonces) /\ db'.trades = db.trades /\ db'.orders = db.orders
    BY <2>1 DEF IInv, Stored
  <2>3. to_restore' # NotLoaded => \A o \in DOMAIN db'.nonces : o \in accepted_nonces' \/ o.expiry < now'
    BY <2>1, <2>2, OncePruned DEF OnceInv, TurnedDown
  <2> QED BY <1>0, <2>1, <2>2, <2>3, OncePruned, OnceOutside
<1>13. CASE Tick
  <2>1. /\ now' = now + 1 /\ handling = NoOrder
        /\ UNCHANGED <<order_map, handling, db, to_restore, accepted_nonces>>
    BY <1>13 DEF Tick, app_vars
  <2>2. now' \in Nat /\ now <= now' /\ \A o \in SignedOrders : o.expiry < now => o.expiry < now'
    BY <1>0, <2>1, InstantsTyped
  <2>3. to_restore' # NotLoaded => \A o \in DOMAIN db'.nonces : o \in accepted_nonces' \/ o.expiry < now'
    BY <2>1, <2>2, InstantsTyped DEF OnceInv, TurnedDown
  <2> QED BY <2>1, <2>2, <2>3, OnceOutside
<1>14. CASE UNCHANGED vars
  <2>1. UNCHANGED <<db, now, order_map, handling, to_restore, accepted_nonces>>
    BY <1>14 DEF vars, app_vars
  <2> QED BY <2>1, OnceElsewhere
<1> QED BY <1>1, <1>2, <1>3, <1>4, <1>5, <1>6, <1>7, <1>8, <1>9, <1>10, <1>11, <1>12, <1>13, <1>14 DEF Next

\* As long as no order is submitted that outlives its nonce, an order that has
\* traded is not accepted a second time, whatever crashes come in between. (A
\* run shows the second acceptance when one does outlive it.)
THEOREM AcceptedAtMostOnce == Spec /\ []NonceOutlivesOrder => []AcceptedOnce
<1>1. Init => OnceInv
  <2>1. DOMAIN EmptyMap = {} /\ DOMAIN <<>> = {}
    BY DEF EmptyMap
  <2> QED BY <2>1 DEF Init, OnceInv, Remembered, TurnedDown
<1>2. IInv /\ IInv' /\ OnceInv /\ NonceOutlivesOrder /\ [Next]_vars => OnceInv'
  BY NextOnce
<1>3. OnceInv => AcceptedOnce
  BY DEF OnceInv, Remembered, TurnedDown, AcceptedOnce
<1> QED BY <1>1, <1>2, <1>3, GatewayInvariant, PTL DEF Spec

-----------------------------------------------------------------------------
(* The gateway drives the engine as its specification allows.              *)

\* The rows recovery would restore now, and where an order of a row belongs.
LiveRows == {id \in RestingRows : db.orders[id].order.expiry >= now}

RowAt(id) == [side |-> db.orders[id].order.side, price |-> db.orders[id].order.price]

\* The makers of the running submission: some are filled, their rows not yet.
Met == IF handling = NoOrder THEN {} ELSE {taker.fills[i].maker_id : i \in DOMAIN taker.fills}

\* No row of a bid meets a row of an ask.
RowsUncrossed ==
  \A bid, ask \in LiveRows :
    RowAt(bid).side = "buy" /\ RowAt(ask).side = "sell" => RowAt(bid).price < RowAt(ask).price

\* Once the rows are read, a live one is on the book, about to be restored, or
\* just filled; and it is on the book where it belongs.
RowsPlaced ==
  to_restore # NotLoaded =>
    /\ LiveRows \subseteq DOMAIN book.locations \cup Met \cup to_restore
    /\ \A id \in LiveRows \cap DOMAIN book.locations : book.locations[id] = RowAt(id)

\* Recovery puts nothing on the book that is not a live row.
RestoreSound ==
  to_restore \notin {NotLoaded, {}} =>
    to_restore \subseteq RestingRows /\ DOMAIN book.locations \subseteq LiveRows

ContractInv == NotCrossed(book) /\ RowsUncrossed /\ RowsPlaced /\ RestoreSound

\* What the operations of the book do to its index.
LEMMA LocationsAfter ==
  /\ \A b, o : Insert(b, o).locations = With(b.locations, o.id, [side |-> o.side, price |-> o.price])
  /\ \A b, id : RemoveOrder(b, id).locations = Without(b.locations, id)
  /\ \A b, side, qty : \/ TakeBest(b, side, qty).locations = b.locations
                       \/ TakeBest(b, side, qty).locations = Without(b.locations, BestMaker(b, side).id)
  BY DEF Insert, RemoveOrder, TakeBest, BestMaker

\* The book stays uncrossed.
LEMMA StillUncrossed ==
  ASSUME IInv, NotCrossed(book)
  PROVE  /\ \A side \in Sides : \A qty \in Nat \ {0} :
              DOMAIN book.levels[side] # {} => NotCrossed(TakeBest(book, side, qty))
         /\ \A id \in DOMAIN book.locations : NotCrossed(RemoveOrder(book, id))
         /\ \A o \in EngineOrders :
              /\ \A id \in DOMAIN book.locations : id < o.id
              /\ \A q \in DOMAIN book.levels[Opposite(o.side)] : ~Accepts(o.side, o.price, q)
              => NotCrossed(Insert(book, o))
<1>1. WellFormed(book)
  BY DEF IInv, EngineReady, WellFormed
<1>2. \A side \in Sides : \A qty \in Nat \ {0} :
        DOMAIN book.levels[side] # {} => NotCrossed(TakeBest(book, side, qty))
  BY <1>1, TakeWellFormed DEF WellFormed
<1>3. \A id \in DOMAIN book.locations : NotCrossed(RemoveOrder(book, id))
  BY <1>1, RemoveWellFormed DEF WellFormed
<1>4. \A o \in EngineOrders :
        /\ \A id \in DOMAIN book.locations : id < o.id
        /\ \A q \in DOMAIN book.levels[Opposite(o.side)] : ~Accepts(o.side, o.price, q)
        => NotCrossed(Insert(book, o))
  BY <1>1, InsertWellFormed DEF WellFormed
<1> QED BY <1>2, <1>3, <1>4

\* Steps that move neither the book, nor the rows, nor what is to be restored.
LEMMA ContractElsewhere ==
  ASSUME ContractInv, UNCHANGED <<book, to_restore, now>>, db'.orders = db.orders, Met' = Met
  PROVE  ContractInv'
  BY DEF ContractInv, RowsUncrossed, RowsPlaced, RestoreSound, LiveRows, RestingRows, RowAt

\* A submission is accepted: the engine takes it, nothing else moves.
LEMMA ContractSubmit ==
  ASSUME IInv, ContractInv, NEW r \in Requests, SubmitOrder(r.order, r.type)
  PROVE  ContractInv' /\ [Engine!Next]_engine_vars
<1>1. /\ taker = Engine!NoTaker /\ taker'.fills = <<>> /\ UNCHANGED <<book, to_restore, now, db>>
      /\ Engine!Submit(r.order.side, r.order.price, r.order.quantity, r.type)
  BY EngineSubmit DEF SubmitOrder
<1>2. Met = {} /\ Met' = {}
  <2>1. handling = NoOrder /\ DOMAIN <<>> = {}
    BY <1>1 DEF IInv, TakerHandled
  <2> QED BY <1>1, <2>1 DEF Met
<1>3. /\ r.order.side \in Engine!Sides /\ r.order.price \in Prices /\ r.order.quantity \in Quantities
      /\ r.type \in Engine!OrderTypes
  <2>1. r.order \in Orders /\ r.type \in {"limit", "market"}
    BY GatewayAssumption
  <2> QED BY <2>1, OrderTyped DEF Engine!OrderTypes, Engine!Sides, Sides
<1>4. Engine!Next
  BY <1>1, <1>3 DEF Engine!Next
<1> QED BY <1>1, <1>2, <1>4, ContractElsewhere

\* What Append does, whatever is appended.
LEMMA AppendAny ==
  ASSUME NEW S, NEW seq \in Seq(S), NEW x
  PROVE  /\ DOMAIN Append(seq, x) = 1..(Len(seq) + 1)
         /\ \A i \in 1..Len(seq) : Append(seq, x)[i] = seq[i]
         /\ Append(seq, x)[Len(seq) + 1] = x
<1>0. PICK T : T = S \cup {x}
  OBVIOUS
<1>1. seq \in Seq(T) /\ x \in T
  BY <1>0, SeqMonotonic
<1>2. PICK longer \in Seq(T) :
        /\ longer = Append(seq, x) /\ Len(longer) = Len(seq) + 1
        /\ \A i \in 1..Len(seq) : longer[i] = seq[i]
        /\ longer[Len(seq) + 1] = x
  BY <1>1, AppendProperties
<1>3. DOMAIN longer = 1..Len(longer)
  BY LenProperties
<1> QED BY <1>2, <1>3

\* A fill: a maker that leaves the book is one of the makers met.
LEMMA ContractFill ==
  ASSUME IInv, ContractInv, FillOrder
  PROVE  ContractInv' /\ [Engine!Next]_engine_vars
<1>1. PICK side, fill : side = Opposite(taker.side) /\ fill = Engine!NextFill
  OBVIOUS
<1>2. /\ taker # Engine!NoTaker /\ taker.remaining > 0 /\ DOMAIN book.levels[side] # {}
      /\ fill = [maker_id |-> BestMaker(book, side).id, price |-> BestPrice(book, side),
                 quantity |-> FillQty(book, side, taker.remaining)]
      /\ book' = TakeBest(book, side, taker.remaining)
      /\ taker' = [taker EXCEPT !.remaining = @ - fill.quantity, !.fills = Append(@, fill)]
  BY <1>1, EngineMatch DEF FillOrder
<1>3. UNCHANGED <<handling, to_restore, db, now>> /\ Engine!Next
  BY DEF FillOrder, Engine!Next
<1>4. handling # NoOrder
  BY <1>2 DEF IInv, TakerHandled
<1>5. side \in Sides /\ taker.remaining \in Nat \ {0}
  BY <1>1, <1>2, <1>4, TakerFacts DEF Opposite, Sides
<1>6. NotCrossed(book')
  BY <1>2, <1>5, StillUncrossed DEF ContractInv
<1>7. Met \cup {BestMaker(book, side).id} \subseteq Met'
  <2>1. PICK fills \in Seq(Engine!Fills) : fills = taker.fills
    BY <1>4, TakerFacts
  <2>2. taker'.fills = Append(fills, fill)
    BY <1>2, <1>4, <2>1, TakerFacts
  <2>3. /\ DOMAIN fills = 1..Len(fills) /\ Len(fills) \in Nat
        /\ DOMAIN Append(fills, fill) = 1..(Len(fills) + 1)
        /\ \A i \in 1..Len(fills) : Append(fills, fill)[i] = fills[i]
        /\ Append(fills, fill)[Len(fills) + 1] = fill
    BY LenProperties, AppendAny
  <2>4. /\ \A i \in DOMAIN fills : i \in DOMAIN taker'.fills /\ taker'.fills[i] = fills[i]
        /\ \E i \in DOMAIN taker'.fills : taker'.fills[i] = fill
    <3>1. Len(fills) + 1 \in 1..(Len(fills) + 1) /\ \A i \in 1..Len(fills) : i \in 1..(Len(fills) + 1)
      BY <2>3
    <3> QED BY <2>2, <2>3, <3>1
  <2>5. handling' # NoOrder
    BY <1>3, <1>4
  <2> QED BY <1>2, <1>4, <2>1, <2>4, <2>5 DEF Met
<1>8. /\ DOMAIN book.locations \subseteq DOMAIN book'.locations \cup {BestMaker(book, side).id}
      /\ \A id \in DOMAIN book'.locations : id \in DOMAIN book.locations /\ book'.locations[id] = book.locations[id]
  <2>1. PICK locs, id : locs = book.locations /\ id = BestMaker(book, side).id
    OBVIOUS
  <2>2. book'.locations = locs \/ book'.locations = Without(locs, id)
    BY <1>2, <2>1, LocationsAfter
  <2> QED BY <2>1, <2>2 DEF Without, Restrict
<1>9. LiveRows' = LiveRows /\ \A id : RowAt(id)' = RowAt(id)
  BY <1>3 DEF LiveRows, RestingRows, RowAt
<1>10. RowsPlaced' /\ RowsUncrossed'
  BY <1>3, <1>7, <1>8, <1>9 DEF ContractInv, RowsPlaced, RowsUncrossed
<1>11. RestoreSound'
  BY <1>3, <1>4, TakerFacts DEF RestoreSound
<1> QED BY <1>3, <1>6, <1>10, <1>11 DEF ContractInv

\* The rows once a submission is saved: of the old ones those whose maker is
\* not filled stay live, and the order that rests becomes one.
LEMMA LiveAfterSave ==
  ASSUME IInv, handling # NoOrder, db'.orders = OrderRowsAfter(db.orders), now' = now
  PROVE  \A id \in LiveRows' :
           \/ /\ id \in LiveRows /\ id \notin FilledMakers /\ RowAt(id)' = RowAt(id)
              /\ Engine!Rests => id # taker.id
           \/ Engine!Rests /\ id = taker.id
                /\ RowAt(id)' = [side |-> handling.side, price |-> handling.price]
<1>1. PICK rows, filled : rows = db.orders /\ filled = FilledMakers
  OBVIOUS
<1>2. PICK marked : marked = [id \in DOMAIN rows |-> IF id \in filled
                                                     THEN [rows[id] EXCEPT !.status = "filled"]
                                                     ELSE rows[id]]
  OBVIOUS
<1>3. \A row \in RowRecords : [row EXCEPT !.status = "filled"].status = "filled"
  BY DEF RowRecords
<1>4. \A id \in DOMAIN rows : rows[id] \in RowRecords
  BY <1>1 DEF IInv, Stored, RowsSound
<1>5. /\ DOMAIN marked = DOMAIN rows
      /\ \A id \in DOMAIN rows : marked[id].status = "resting" => id \notin filled /\ marked[id] = rows[id]
  BY <1>2, <1>3, <1>4
<1>6. \A id \in LiveRows' : id \in DOMAIN db'.orders /\ db'.orders[id].status = "resting" /\ db'.orders[id].order.expiry >= now
  BY DEF LiveRows, RestingRows
<1>7. \A id \in DOMAIN rows : rows[id].status = "resting" /\ rows[id].order.expiry >= now => id \in LiveRows
  BY <1>1 DEF LiveRows, RestingRows
<1>8. CASE ~Engine!Rests
  <2>1. db'.orders = marked
    BY <1>1, <1>2, <1>8 DEF OrderRowsAfter
  <2>2. ASSUME NEW id \in LiveRows'
        PROVE  id \in LiveRows /\ id \notin FilledMakers /\ RowAt(id)' = RowAt(id)
    <3>1. id \in DOMAIN rows /\ id \notin filled /\ marked[id] = rows[id] /\ id \in LiveRows
      BY <1>5, <1>6, <1>7, <2>1
    <3> QED BY <1>1, <2>1, <3>1 DEF RowAt
  <2> QED BY <1>8, <2>2
<1>9. CASE Engine!Rests
  <2>1. PICK row : row = [order |-> handling, status |-> "resting", resting_quantity |-> taker.remaining]
    OBVIOUS
  <2>2. db'.orders = With(marked, taker.id, row)
    BY <1>1, <1>2, <1>9, <2>1 DEF OrderRowsAfter
  <2>3. /\ DOMAIN db'.orders = DOMAIN rows \cup {taker.id}
        /\ \A id \in DOMAIN db'.orders : db'.orders[id] = IF id = taker.id THEN row ELSE marked[id]
    BY <1>5, <2>2 DEF With
  <2>4. ASSUME NEW id \in LiveRows', id = taker.id
        PROVE  RowAt(id)' = [side |-> handling.side, price |-> handling.price]
    BY <1>6, <2>1, <2>3, <2>4 DEF RowAt
  <2>5. ASSUME NEW id \in LiveRows', id # taker.id
        PROVE  id \in LiveRows /\ id \notin FilledMakers /\ RowAt(id)' = RowAt(id)
    <3>1. id \in DOMAIN rows /\ id \notin filled /\ marked[id] = rows[id] /\ id \in LiveRows
      BY <1>5, <1>6, <1>7, <2>3, <2>5
    <3> QED BY <1>1, <2>3, <2>5, <3>1 DEF RowAt
  <2> QED BY <1>9, <2>4, <2>5
<1> QED BY <1>8, <1>9

\* The orders a book indexes meet no more than the book does.
LEMMA IndexUncrossed ==
  ASSUME NEW b, Consistent(b), NotCrossed(b)
  PROVE  \A bid, ask \in DOMAIN b.locations :
           b.locations[bid].side = "buy" /\ b.locations[ask].side = "sell"
             => b.locations[bid].price < b.locations[ask].price
<1> SUFFICES ASSUME NEW bid \in DOMAIN b.locations, NEW ask \in DOMAIN b.locations,
                    b.locations[bid].side = "buy", b.locations[ask].side = "sell"
             PROVE  b.locations[bid].price < b.locations[ask].price
  OBVIOUS
<1>1. \A id \in DOMAIN b.locations : b.locations[id].price \in DOMAIN b.levels[b.locations[id].side]
  BY DEF Consistent, IndexSound
<1>2. b.locations[bid].price \in DOMAIN b.levels["buy"] /\ b.locations[ask].price \in DOMAIN b.levels["sell"]
  BY <1>1
<1> QED BY <1>2 DEF NotCrossed

\* The transaction of a submission and the book agree on what rests, and on
\* which makers are gone.
LEMMA ContractFinish ==
  ASSUME IInv, IInv', ContractInv, FinishOrder
  PROVE  ContractInv' /\ [Engine!Next]_engine_vars
<1>1. PICK o : o = [id |-> taker.id, side |-> taker.side, price |-> taker.price, quantity |-> taker.remaining]
  OBVIOUS
<1>2. /\ handling # NoOrder /\ db' = SaveOrderFill /\ handling' = NoOrder
      /\ UNCHANGED <<to_restore, now>> /\ Engine!Finish
      /\ book' = IF Engine!Rests THEN Insert(book, o) ELSE book
  BY <1>1, EngineFinish DEF FinishOrder
<1>3. Engine!Next
  BY <1>2 DEF Engine!Next
<1>4. /\ to_restore = {} /\ to_restore # NotLoaded /\ Met' = {}
      /\ taker.side = handling.side /\ taker.price = handling.price
      /\ taker.side \in Sides /\ taker.price \in Prices
      /\ \A x \in DOMAIN book.locations : x < taker.id
  BY <1>2, TakerFacts DEF IInv, TakerHandled, NotLoaded, Met
<1>5. NotCrossed(book')
  <2>1. CASE Engine!Rests
    <3>1. \/ DOMAIN book.levels[Opposite(taker.side)] = {}
          \/ ~Accepts(taker.side, taker.price, BestPrice(book, Opposite(taker.side)))
      <4>1. ~Engine!CanMatch
        BY <1>2 DEF Engine!Finish
      <4>2. \A side, limit, price : Engine!Accepts(side, limit, price) <=> Accepts(side, limit, price)
        BY DEF Engine!Accepts, Accepts
      <4> QED BY <2>1, <4>1, <4>2, EngineBook DEF Engine!CanMatch, Engine!Rests
    <3>2. \A q \in DOMAIN book.levels[Opposite(taker.side)] : ~Accepts(taker.side, taker.price, q)
      BY <1>4, <3>1, NoneAccepted DEF IInv, EngineReady, Consistent
    <3>3. o \in EngineOrders
      BY <1>1, <1>2, <2>1, TakerFacts DEF EngineOrders, Engine!Rests
    <3>4. o.id = taker.id /\ o.side = taker.side /\ o.price = taker.price
      BY <1>1
    <3>5. NotCrossed(Insert(book, o))
      BY <1>4, <3>2, <3>3, <3>4, StillUncrossed DEF ContractInv
    <3> QED BY <1>2, <2>1, <3>5
  <2>2. CASE ~Engine!Rests
    BY <1>2, <2>2 DEF ContractInv
  <2> QED BY <2>1, <2>2
<1>6. /\ \A id \in DOMAIN book.locations : id \in DOMAIN book'.locations /\ book'.locations[id] = book.locations[id]
      /\ Engine!Rests => /\ taker.id \in DOMAIN book'.locations
                         /\ book'.locations[taker.id] = [side |-> handling.side, price |-> handling.price]
      /\ \A id \in DOMAIN book'.locations : id \in DOMAIN book.locations \/ (Engine!Rests /\ id = taker.id)
  <2>1. CASE Engine!Rests
    <3>1. PICK locs, loc : locs = book.locations /\ loc = [side |-> handling.side, price |-> handling.price]
      OBVIOUS
    <3>2. book'.locations = With(locs, taker.id, loc)
      BY <1>1, <1>2, <1>4, <2>1, <3>1, LocationsAfter
    <3>3. \A id \in DOMAIN locs : id # taker.id
      BY <1>4, <3>1, TakerFacts, <1>2 DEF IInv, EngineReady, Consistent, LocationsTyped
    <3> QED BY <2>1, <3>1, <3>2, <3>3 DEF With
  <2>2. CASE ~Engine!Rests
    BY <1>2, <2>2
  <2> QED BY <2>1, <2>2
<1>7. db'.orders = OrderRowsAfter(db.orders)
  BY <1>2 DEF IInv, Stored, SaveOrderFill
<1>8. ASSUME NEW id \in LiveRows'
      PROVE  id \in DOMAIN book'.locations /\ book'.locations[id] = RowAt(id)'
  <2>1. CASE Engine!Rests /\ id = taker.id
             /\ RowAt(id)' = [side |-> handling.side, price |-> handling.price]
    BY <1>6, <2>1
  <2>2. CASE /\ id \in LiveRows /\ id \notin FilledMakers /\ RowAt(id)' = RowAt(id)
             /\ Engine!Rests => id # taker.id
    <3>1. id \in DOMAIN book.locations \cup Met
      BY <1>4, <2>2 DEF ContractInv, RowsPlaced
    <3>2. Met \subseteq FilledMakers \cup DOMAIN book'.locations
      BY <1>2 DEF Met, FilledMakers
    <3>3. id \in DOMAIN book'.locations
      BY <1>6, <2>2, <3>1, <3>2
    <3>4. id \in DOMAIN book.locations
      BY <1>6, <2>2, <3>3
    <3> QED BY <1>4, <1>6, <2>2, <3>3, <3>4 DEF ContractInv, RowsPlaced
  <2> QED BY <1>2, <1>7, <2>1, <2>2, LiveAfterSave
<1>9. RowsPlaced' /\ RestoreSound'
  BY <1>2, <1>4, <1>8 DEF RowsPlaced, RestoreSound
<1>10. RowsUncrossed'
  <2>1. Consistent(book')
    BY DEF IInv, EngineReady
  <2>2. \A bid, ask \in DOMAIN book'.locations :
           book'.locations[bid].side = "buy" /\ book'.locations[ask].side = "sell"
             => book'.locations[bid].price < book'.locations[ask].price
    BY <1>5, <2>1, IndexUncrossed
  <2> QED BY <1>8, <2>2 DEF RowsUncrossed
<1> QED BY <1>3, <1>5, <1>9, <1>10 DEF ContractInv

\* A market order that is dropped had no fills, and leaves the book as it is.
LEMMA ContractDrop ==
  ASSUME IInv, ContractInv, DropUnfilled
  PROVE  ContractInv' /\ [Engine!Next]_engine_vars
<1>1. /\ handling # NoOrder /\ taker.type = "market" /\ taker.fills = <<>> /\ handling' = NoOrder
      /\ UNCHANGED <<to_restore, db, now>> /\ Engine!Finish
  BY DEF DropUnfilled
<1>2. ~Engine!Rests
  BY <1>1 DEF Engine!Rests
<1>3. UNCHANGED book
  BY <1>1, <1>2, EngineFinish
<1>4. Met = {} /\ Met' = {}
  <2>1. DOMAIN <<>> = {}
    OBVIOUS
  <2> QED BY <1>1, <2>1 DEF Met
<1>5. Engine!Next
  BY <1>1 DEF Engine!Next
<1> QED BY <1>1, <1>3, <1>4, <1>5, ContractElsewhere

\* A row is marked as cancelled: it alone is no longer resting.
LEMMA RowCancelled ==
  ASSUME IInv, NEW id, db'.orders = [db.orders EXCEPT ![id].status = "cancelled"], UNCHANGED now
  PROVE  /\ RestingRows' = RestingRows \ {id} /\ LiveRows' = LiveRows \ {id}
         /\ \A x \in LiveRows : RowAt(x)' = RowAt(x)
<1>1. PICK rows, marked : rows = db.orders /\ marked = [rows EXCEPT ![id].status = "cancelled"]
  OBVIOUS
<1>2. \A row \in RowRecords : [row EXCEPT !.status = "cancelled"].status = "cancelled"
  BY DEF RowRecords
<1>3. \A x \in DOMAIN rows : rows[x] \in RowRecords
  BY <1>1 DEF IInv, Stored, RowsSound
<1>4. /\ DOMAIN marked = DOMAIN rows /\ db'.orders = marked
      /\ \A x \in DOMAIN rows : x # id => marked[x] = rows[x]
      /\ id \in DOMAIN rows => marked[id].status = "cancelled"
  BY <1>1, <1>2, <1>3
<1>5. RestingRows' = RestingRows \ {id}
  BY <1>1, <1>4 DEF RestingRows
<1>6. \A x \in RestingRows : x \in DOMAIN rows
  BY <1>1 DEF RestingRows
<1>7. LiveRows' = LiveRows \ {id}
  BY <1>1, <1>4, <1>5, <1>6 DEF LiveRows
<1>8. \A x \in LiveRows : RowAt(x)' = RowAt(x)
  <2>1. \A x \in DOMAIN rows : marked[x].order = rows[x].order
    <3>1. \A row \in RowRecords : [row EXCEPT !.status = "cancelled"].order = row.order
      BY DEF RowRecords
    <3> QED BY <1>1, <1>3, <1>4, <3>1
  <2> QED BY <1>1, <1>4, <1>6, <2>1 DEF LiveRows, RowAt
<1> QED BY <1>5, <1>7, <1>8

\* A cancel takes an order off the book and its row off the resting ones.
LEMMA ContractCancel ==
  ASSUME IInv, ContractInv, NEW c \in Cancels, CancelOrder(c)
  PROVE  ContractInv' /\ [Engine!Next]_engine_vars
<1>1. PICK id \in DOMAIN order_nonce_map :
        /\ Engine!Cancel(id)
        /\ db' = SaveCancel(id, LedgerAfterCancel(order_nonce_map[id]), order_nonce_map[id])
        /\ UNCHANGED <<handling, to_restore, now>>
  BY DEF CancelOrder
<1>2. /\ serving /\ taker = Engine!NoTaker /\ id \in DOMAIN book.locations
      /\ book' = RemoveOrder(book, id)
  BY <1>1, EngineOthers
<1>3. Engine!Next
  BY <1>1, <1>2 DEF Engine!Next
<1>4. NotCrossed(book')
  BY <1>2, StillUncrossed DEF ContractInv
<1>5. db'.orders = [db.orders EXCEPT ![id].status = "cancelled"]
  BY <1>1 DEF IInv, Stored, SaveCancel
<1>6. /\ LiveRows' = LiveRows \ {id} /\ \A x \in LiveRows : RowAt(x)' = RowAt(x)
  BY <1>1, <1>5, RowCancelled
<1>7. Met = {} /\ Met' = {} /\ to_restore = {} /\ to_restore # NotLoaded
  BY <1>1, <1>2 DEF IInv, TakerHandled, Recovering, Met, NotLoaded
<1>8. /\ DOMAIN book'.locations = DOMAIN book.locations \ {id}
      /\ \A x \in DOMAIN book'.locations : book'.locations[x] = book.locations[x]
  <2>1. PICK locs : locs = book.locations
    OBVIOUS
  <2>2. book'.locations = Without(locs, id)
    BY <1>2, <2>1, LocationsAfter
  <2> QED BY <2>1, <2>2 DEF Without, Restrict
<1>9. RowsUncrossed' /\ RowsPlaced' /\ RestoreSound'
  BY <1>1, <1>6, <1>7, <1>8 DEF ContractInv, RowsUncrossed, RowsPlaced, RestoreSound
<1> QED BY <1>3, <1>4, <1>9 DEF ContractInv

\* A crash: nothing is read from the database yet.
LEMMA ContractCrash ==
  ASSUME IInv, ContractInv, Crash
  PROVE  ContractInv' /\ [Engine!Next]_engine_vars
<1>1. Engine!Boot /\ to_restore' = NotLoaded /\ UNCHANGED <<db, now>>
  BY DEF Crash
<1>2. Engine!Next
  BY <1>1 DEF Engine!Next
<1>3. NotCrossed(book')
  BY <1>1, EngineOthers, EmptyWellFormed DEF WellFormed
<1>4. RowsUncrossed' /\ RowsPlaced' /\ RestoreSound'
  BY <1>1 DEF ContractInv, RowsUncrossed, RowsPlaced, RestoreSound, LiveRows, RestingRows, RowAt
<1> QED BY <1>2, <1>3, <1>4 DEF ContractInv

\* The rows are read, and the counter continues after them.
LEMMA ContractLoad ==
  ASSUME IInv, ContractInv, Load
  PROVE  ContractInv' /\ [Engine!Next]_engine_vars
<1>1. /\ Engine!SetNextId(LastRow + 1) /\ to_restore' = RestingRows
      /\ db' = [db EXCEPT !.nonces = Pruned(@)] /\ UNCHANGED <<handling, now>>
  BY DEF Load
<1>2. book = EmptyBook /\ UNCHANGED book
  BY <1>1, EngineOthers
<1>3. LastRow + 1 \in 1..(MaxId + 1)
  <2>1. DOMAIN db.orders \subseteq 1..MaxId
    BY DEF IInv, Stored, RowsSound
  <2> QED BY <2>1, ExtremeRows, GatewayAssumption DEF LastRow
<1>4. Engine!Next
  BY <1>1, <1>3 DEF Engine!Next
<1>5. db'.orders = db.orders
  BY <1>1 DEF IInv, Stored
<1>6. LiveRows' = LiveRows /\ RestingRows' = RestingRows /\ \A x : RowAt(x)' = RowAt(x)
  BY <1>1, <1>5 DEF LiveRows, RestingRows, RowAt
<1>7. DOMAIN book.locations = {} /\ DOMAIN book'.locations = {}
  BY <1>2, EmptyWellFormed
<1>8. LiveRows \subseteq RestingRows
  BY DEF LiveRows
<1>9. RowsUncrossed' /\ RowsPlaced' /\ RestoreSound'
  BY <1>1, <1>6, <1>7, <1>8 DEF ContractInv, RowsUncrossed, RowsPlaced, RestoreSound
<1> QED BY <1>2, <1>4, <1>9 DEF ContractInv

\* A live row meets nothing on the book that is being restored.
LEMMA RestoredMeetsNone ==
  ASSUME IInv, ContractInv, to_restore \notin {NotLoaded, {}}, NEW id \in LiveRows,
         NEW side \in Sides, NEW price, RowAt(id) = [side |-> side, price |-> price]
  PROVE  \A p \in DOMAIN book.levels[Opposite(side)] : ~Accepts(side, price, p)
<1> SUFFICES ASSUME NEW p \in DOMAIN book.levels[Opposite(side)] PROVE ~Accepts(side, price, p)
  OBVIOUS
<1>1. PICK other \in Sides : other = Opposite(side) /\ other # side
  BY DEF Opposite, Sides
<1>2. /\ book.levels[other][p] \in Seq(EngineOrders) /\ book.levels[other][p] # <<>>
      /\ \A i \in DOMAIN book.levels[other][p] : IndexedAt(book, book.levels[other][p][i], other, p)
  BY <1>1 DEF IInv, EngineReady, Consistent, LevelsTyped, NoEmptyLevel, OrdersIndexed
<1>3. 1 \in DOMAIN book.levels[other][p]
  <2>1. PICK queue \in Seq(EngineOrders) : queue = book.levels[other][p]
    BY <1>2
  <2> QED BY <1>2, <2>1, EmptySeq, LenProperties
<1>4. PICK m : m \in DOMAIN book.locations /\ book.locations[m] = [side |-> other, price |-> p]
  BY <1>2, <1>3 DEF IndexedAt
<1>5. m \in LiveRows /\ RowAt(m) = [side |-> other, price |-> p]
  BY <1>4 DEF ContractInv, RestoreSound, RowsPlaced
<1>6. \/ side = "buy" /\ other = "sell" /\ price < p
      \/ side = "sell" /\ other = "buy" /\ p < price
  BY <1>1, <1>5 DEF ContractInv, RowsUncrossed, Sides
<1>7. p \in Nat /\ price \in Nat
  <2>1. p \in Prices
    BY <1>1 DEF IInv, EngineReady, Consistent, LevelsTyped
  <2>2. price \in Prices
    <3>1. db.orders[id].order \in SignedOrders
      BY DEF IInv, Stored, RowsSound, RowRecords, LiveRows, RestingRows
    <3>2. db.orders[id].order.price \in Prices
      BY <3>1, SignedTyped, OrderTyped
    <3> QED BY <3>2 DEF RowAt
  <2>3. \A x \in Prices : x \in Nat
    BY PricesAssumption
  <2> QED BY <2>1, <2>2, <2>3
<1> QED BY <1>6, <1>7 DEF Accepts

\* A row is restored as the engine asks of its caller.
LEMMA ContractRestore ==
  ASSUME IInv, ContractInv, RestoreOrder
  PROVE  ContractInv' /\ [Engine!Next]_engine_vars
<1>1. PICK id, row : id = NextRow(to_restore) /\ row = db.orders[id]
  OBVIOUS
<1>2. PICK o : o = [id |-> id, side |-> row.order.side, price |-> row.order.price,
                    quantity |-> row.resting_quantity]
  OBVIOUS
<1>3. /\ to_restore \notin {NotLoaded, {}} /\ to_restore' = to_restore \ {id}
      /\ row.order.expiry >= now /\ Engine!Restore(o) /\ UNCHANGED <<handling, db, now>>
  BY <1>1, <1>2 DEF RestoreOrder
<1>4. book' = Insert(book, o)
  BY <1>3, EngineOthers
<1>5. /\ to_restore \subseteq DOMAIN db.orders /\ DOMAIN db.orders \subseteq 1..MaxId
      /\ DOMAIN db.orders \subseteq 1..(next_id - 1) /\ id \in to_restore
  BY <1>1, <1>3, ExtremeRows DEF IInv, Recovering, Stored, RowsSound, EngineReady, NextRow
<1>6. id \in LiveRows /\ RowAt(id) = [side |-> row.order.side, price |-> row.order.price]
  BY <1>1, <1>3, <1>5 DEF ContractInv, RestoreSound, LiveRows, RowAt
<1>7. /\ row.order \in SignedOrders /\ row.resting_quantity \in 1..row.order.quantity
  BY <1>1, <1>5 DEF IInv, Stored, RowsSound, RowRecords
<1>8. /\ row.order.side \in Sides /\ row.order.price \in Prices /\ row.order.quantity \in Quantities
  BY <1>7, SignedTyped, OrderTyped
<1>9. row.resting_quantity \in Quantities \ {0} /\ row.resting_quantity \in Nat \ {0}
  <2>1. row.order.quantity \in Nat /\ 0..row.order.quantity \subseteq Quantities
    BY <1>8, SignedTyped, GatewayAssumption
  <2> QED BY <1>7, <2>1
<1>10. \A x \in DOMAIN book.locations : x < id
  BY <1>3, <1>5 DEF IInv, Recovering
<1>11. \A p \in DOMAIN book.levels[Opposite(o.side)] : ~Accepts(o.side, o.price, p)
  BY <1>2, <1>3, <1>6, <1>8, RestoredMeetsNone
<1>12. Engine!Next
  <2>1. \A side, limit, price : Engine!Accepts(side, limit, price) <=> Accepts(side, limit, price)
    BY DEF Engine!Accepts, Accepts
  <2>2. Engine!Restorable(o)
    BY <1>2, <1>5, <1>10, <1>11, <2>1, EngineBook DEF Engine!Restorable
  <2>3. Engine!RestoreOrder(o)
    BY <1>3, <2>2 DEF Engine!RestoreOrder
  <2>4. \E i \in 1..MaxId, side \in Engine!Sides, price \in Prices, quantity \in Quantities \ {0} :
          Engine!RestoreOrder([id |-> i, side |-> side, price |-> price, quantity |-> quantity])
    <3>1. id \in 1..MaxId /\ row.order.side \in Engine!Sides
      BY <1>5, <1>8 DEF Engine!Sides, Sides
    <3> QED BY <1>2, <1>8, <1>9, <2>3, <3>1
  <2> QED BY <2>4 DEF Engine!Next
<1>13. NotCrossed(book')
  <2>1. o \in EngineOrders
    BY <1>2, <1>5, <1>8, <1>9 DEF EngineOrders
  <2>2. o.id = id
    BY <1>2
  <2> QED BY <1>4, <1>10, <1>11, <2>1, <2>2, StillUncrossed DEF ContractInv
<1>14. LiveRows' = LiveRows /\ RestingRows' = RestingRows /\ Met' = Met /\ \A x : RowAt(x)' = RowAt(x)
  <2>1. handling = NoOrder
    BY <1>3 DEF IInv, TakerHandled, Recovering
  <2> QED BY <1>3, <2>1 DEF LiveRows, RestingRows, RowAt, Met
<1>15. /\ DOMAIN book'.locations = DOMAIN book.locations \cup {id}
       /\ book'.locations[id] = RowAt(id)
       /\ \A x \in DOMAIN book.locations : book'.locations[x] = book.locations[x]
  <2>1. PICK locs, loc : locs = book.locations /\ loc = RowAt(id)
    OBVIOUS
  <2>2. book'.locations = With(locs, id, loc)
    BY <1>2, <1>4, <1>6, <2>1, LocationsAfter
  <2>3. \A x \in DOMAIN locs : x # id
    BY <1>5, <1>10, <2>1
  <2> QED BY <2>1, <2>2, <2>3 DEF With
<1>16. RowsUncrossed' /\ RowsPlaced' /\ RestoreSound'
  <2>1. to_restore # NotLoaded /\ to_restore \subseteq RestingRows /\ DOMAIN book.locations \subseteq LiveRows
    BY <1>3 DEF ContractInv, RestoreSound
  <2>2. RowsUncrossed'
    BY <1>14 DEF ContractInv, RowsUncrossed
  <2>3. RowsPlaced'
    BY <1>3, <1>14, <1>15, <2>1 DEF ContractInv, RowsPlaced
  <2>4. RestoreSound'
    BY <1>3, <1>6, <1>14, <1>15, <2>1 DEF RestoreSound
  <2> QED BY <2>2, <2>3, <2>4
<1> QED BY <1>12, <1>13, <1>16 DEF ContractInv

\* A row that expired is no live row.
LEMMA ContractSkip ==
  ASSUME IInv, ContractInv, SkipExpired
  PROVE  ContractInv' /\ UNCHANGED engine_vars
<1>1. PICK id : /\ id = NextRow(to_restore) /\ to_restore \notin {NotLoaded, {}}
                /\ to_restore' = to_restore \ {id} /\ db.orders[id].order.expiry < now
                /\ db' \in {db, [db EXCEPT !.orders[id].status = "cancelled"]}
                /\ UNCHANGED <<engine_vars, handling, now>>
  BY DEF SkipExpired
<1>2. id \notin LiveRows /\ handling = NoOrder /\ UNCHANGED book
  <2>1. id \in to_restore /\ db.orders[id].order \in SignedOrders
    BY <1>1, ExtremeRows DEF IInv, Recovering, Stored, RowsSound, RowRecords, NextRow
  <2>2. db.orders[id].order.expiry \in Nat /\ now \in Nat
    BY <2>1, SignedTyped DEF IInv, Typed, Orders
  <2> QED BY <1>1, <2>2 DEF LiveRows, IInv, TakerHandled, Recovering, engine_vars
<1>3. LiveRows' = LiveRows /\ RestingRows \ {id} \subseteq RestingRows' /\ \A x \in LiveRows : RowAt(x)' = RowAt(x)
  <2>1. CASE db' = db
    BY <1>1, <2>1 DEF LiveRows, RestingRows, RowAt
  <2>2. CASE db' = [db EXCEPT !.orders[id].status = "cancelled"]
    <3>1. db'.orders = [db.orders EXCEPT ![id].status = "cancelled"]
      BY <2>2 DEF IInv, Stored
    <3> QED BY <1>1, <1>2, <3>1, RowCancelled
  <2> QED BY <1>1, <2>1, <2>2
<1>4. Met = {} /\ Met' = {}
  BY <1>1, <1>2 DEF Met
<1>5. to_restore # NotLoaded /\ to_restore \subseteq RestingRows /\ DOMAIN book.locations \subseteq LiveRows
  BY <1>1 DEF ContractInv, RestoreSound
<1>6. RowsUncrossed' /\ RowsPlaced' /\ RestoreSound'
  BY <1>1, <1>2, <1>3, <1>4, <1>5 DEF ContractInv, RowsUncrossed, RowsPlaced, RestoreSound
<1> QED BY <1>1, <1>2, <1>6 DEF ContractInv

\* Requests are served; the hourly task; time passes, and live rows with it.
LEMMA ContractQuiet ==
  ASSUME IInv, ContractInv, Serve \/ PruneNonces \/ Tick \/ UNCHANGED vars
  PROVE  ContractInv' /\ [Engine!Next]_engine_vars
<1>1. CASE Serve
  <2>1. Engine!Serve /\ UNCHANGED <<handling, to_restore, db, now>>
    BY <1>1 DEF Serve
  <2>2. UNCHANGED <<book, taker>> /\ Engine!Next
    BY <2>1, EngineOthers DEF Engine!Next
  <2> QED BY <2>1, <2>2, ContractElsewhere DEF Met
<1>2. CASE PruneNonces
  <2>1. UNCHANGED <<engine_vars, handling, to_restore, now>> /\ db'.orders = db.orders
    BY <1>2 DEF PruneNonces, IInv, Stored
  <2> QED BY <2>1, ContractElsewhere DEF Met, engine_vars
<1>3. CASE Tick
  <2>1. /\ to_restore \in {NotLoaded, {}} /\ now' = now + 1 /\ handling = NoOrder
        /\ UNCHANGED <<engine_vars, handling, to_restore, db>>
    BY <1>3 DEF Tick
  <2>2. LiveRows' \subseteq LiveRows /\ \A x : RowAt(x)' = RowAt(x)
    <3>1. \A id \in RestingRows : db.orders[id].order.expiry \in Nat
      <4>1. \A id \in RestingRows : db.orders[id].order \in SignedOrders
        BY DEF IInv, Stored, RowsSound, RowRecords, RestingRows
      <4> QED BY <4>1, SignedTyped DEF Orders
    <3>2. now \in Nat
      BY DEF IInv, Typed
    <3> QED BY <2>1, <3>1, <3>2 DEF LiveRows, RestingRows, RowAt
  <2>3. UNCHANGED book /\ Met' = Met
    BY <2>1 DEF Met, engine_vars
  <2> QED BY <2>1, <2>2, <2>3 DEF ContractInv, RowsUncrossed, RowsPlaced, RestoreSound
<1>4. CASE UNCHANGED vars
  <2>1. UNCHANGED <<engine_vars, handling, to_restore, db, now>>
    BY <1>4 DEF vars
  <2> QED BY <2>1, ContractElsewhere DEF Met, engine_vars
<1> QED BY <1>1, <1>2, <1>3, <1>4

-----------------------------------------------------------------------------
(* The contract with the engine.                                           *)

\* Every step of the gateway is one of the engine's, or leaves it alone, as
\* long as no transaction of a cancel fails.
LEMMA NextContract ==
  ~DbMayFail /\ IInv /\ IInv' /\ ContractInv /\ [Next]_vars => ContractInv' /\ [Engine!Next]_engine_vars
<1> SUFFICES ASSUME ~DbMayFail, IInv, IInv', ContractInv, [Next]_vars
             PROVE  ContractInv' /\ [Engine!Next]_engine_vars
  OBVIOUS
<1>1. CASE \E r \in Requests : SubmitOrder(r.order, r.type)
  BY <1>1, ContractSubmit
<1>2. CASE FillOrder
  BY <1>2, ContractFill
<1>3. CASE FinishOrder
  BY <1>3, ContractFinish
<1>4. CASE DropUnfilled
  BY <1>4, ContractDrop
<1>5. CASE \E c \in Cancels : CancelOrder(c)
  BY <1>5, ContractCancel
<1>6. CASE \E c \in Cancels : CancelOrderDbFails(c)
  BY <1>6 DEF CancelOrderDbFails
<1>7. CASE Crash
  BY <1>7, ContractCrash
<1>8. CASE Load
  BY <1>8, ContractLoad
<1>9. CASE RestoreOrder
  BY <1>9, ContractRestore
<1>10. CASE SkipExpired
  BY <1>10, ContractSkip
<1>11. CASE Serve \/ PruneNonces \/ Tick \/ UNCHANGED vars
  BY <1>11, ContractQuiet
<1> QED BY <1>1, <1>2, <1>3, <1>4, <1>5, <1>6, <1>7, <1>8, <1>9, <1>10, <1>11 DEF Next

\* Before anything is stored there is nothing to restore.
LEMMA InitContract == Init => ContractInv /\ Engine!Init
<1> SUFFICES ASSUME Init PROVE ContractInv /\ Engine!Init
  OBVIOUS
<1>1. Engine!Init /\ to_restore = NotLoaded /\ db.orders = EmptyMap
  BY DEF Init
<1>2. book = EmptyBook
  BY <1>1, EngineBook DEF Engine!Init
<1>3. LiveRows = {}
  <2>1. DOMAIN EmptyMap = {}
    BY DEF EmptyMap
  <2> QED BY <1>1, <2>1 DEF LiveRows, RestingRows
<1> QED BY <1>1, <1>2, <1>3, EmptyWellFormed
        DEF ContractInv, RowsUncrossed, RowsPlaced, RestoreSound, WellFormed

\* When no transaction of a cancel fails, the gateway drives the engine as the
\* engine's specification allows, across any number of crashes: recovery
\* restores only assigned ids, in ascending order, before it serves, and never
\* a bid that meets an ask (main.rs, engine.restore_order).
THEOREM EngineContractKept ==
  ASSUME ~DbMayFail
  PROVE  Spec => EngineContract
<1>1. Init => ContractInv /\ Engine!Init
  BY InitContract
<1>2. IInv /\ IInv' /\ ContractInv /\ [Next]_vars
        => ContractInv' /\ [Engine!Next]_(Engine!vars)
  BY NextContract DEF engine_vars, Engine!vars
<1> QED BY <1>1, <1>2, GatewayInvariant, PTL DEF Spec, EngineContract, Engine!Spec

\* What a trade counts for an order that takes part in it.
Part(order, t) == IF order \in {t.maker_order, t.taker_order} THEN t.quantity ELSE 0

\* What an order traded is the sum of its parts.
LEMMA TradedIsSum ==
  ASSUME NEW trades \in Seq(StoredTrades), NEW order
  PROVE  /\ IsFiniteSet(1..Len(trades)) /\ Len(trades) \in Nat /\ DOMAIN trades = 1..Len(trades)
         /\ TradedIn(order, trades) = SumFunctionOnSet([i \in DOMAIN trades |-> Part(order, trades[i])], 1..Len(trades))
         /\ \A i \in DOMAIN trades : Part(order, trades[i]) \in Nat
         /\ TradedIn(order, trades) \in Nat
<1>1. Len(trades) \in Nat /\ DOMAIN trades = 1..Len(trades)
  BY LenProperties
<1>2. IsFiniteSet(1..Len(trades))
  BY <1>1, FS_Interval
<1>3. \A t \in StoredTrades : Part(order, t) \in Nat
  BY DEF StoredTrades, Part
<1>4. \A i \in DOMAIN trades : trades[i] \in StoredTrades
  BY <1>1, ElementOfSeq
<1>5. PICK f : f = [i \in DOMAIN trades |-> Part(order, trades[i])]
  OBVIOUS
<1>6. TradedIn(order, trades) = SumFunctionOnSet(f, 1..Len(trades))
  <2>1. f = [i \in DOMAIN trades |->
              IF order \in {trades[i].maker_order, trades[i].taker_order} THEN trades[i].quantity ELSE 0]
    BY <1>5 DEF Part
  <2>2. DOMAIN f = 1..Len(trades)
    BY <1>1, <1>5
  <2> QED BY <2>1, <2>2 DEF TradedIn, SumFunction
<1>7. \A i \in 1..Len(trades) : f[i] \in Nat
  BY <1>1, <1>3, <1>4, <1>5
<1>8. SumFunctionOnSet(f, 1..Len(trades)) \in Nat
  BY <1>2, <1>7, SumNat
<1> QED BY <1>1, <1>2, <1>3, <1>4, <1>5, <1>6, <1>8

\* One more trade counts for its two orders, and no other.
LEMMA TradedAppended ==
  ASSUME NEW trades \in Seq(StoredTrades), NEW t \in StoredTrades, NEW order
  PROVE  TradedIn(order, Append(trades, t)) = TradedIn(order, trades) + Part(order, t)
<1>1. PICK n, all : n = Len(trades) /\ all = Append(trades, t)
  OBVIOUS
<1>2. /\ all \in Seq(StoredTrades) /\ Len(all) = n + 1 /\ n \in Nat
      /\ DOMAIN all = 1..(n + 1) /\ DOMAIN trades = 1..n
      /\ \A i \in 1..n : all[i] = trades[i]
      /\ all[n + 1] = t
  <2>1. all \in Seq(StoredTrades) /\ Len(all) = n + 1 /\ n \in Nat
    BY <1>1, AppendProperties, LenProperties
  <2> QED BY <1>1, <2>1, AppendAny, LenProperties
<1>3. PICK f, g : /\ f = [i \in DOMAIN trades |-> Part(order, trades[i])]
                  /\ g = [i \in DOMAIN all |-> Part(order, all[i])]
  OBVIOUS
<1>4. /\ TradedIn(order, trades) = SumFunctionOnSet(f, 1..n)
      /\ \A i \in DOMAIN trades : Part(order, trades[i]) \in Nat
  BY <1>1, <1>3, TradedIsSum
<1>5. /\ TradedIn(order, all) = SumFunctionOnSet(g, 1..(n + 1))
      /\ \A i \in DOMAIN all : Part(order, all[i]) \in Nat
  BY <1>2, <1>3, TradedIsSum
<1>6. \A i \in 1..n : f[i] \in Int /\ g[i] = f[i]
  BY <1>2, <1>3, <1>4
<1>7. g[n + 1] = Part(order, t) /\ g[n + 1] \in Int
  <2>1. n + 1 \in DOMAIN all
    BY <1>2
  <2>2. g[n + 1] = Part(order, all[n + 1])
    BY <1>3, <2>1
  <2> QED BY <1>2, <1>5, <2>1, <2>2
<1>8. SumFunctionOnSet(g, 1..(n + 1)) = SumFunctionOnSet(f, 1..n) + g[n + 1]
  BY <1>2, <1>6, <1>7, SumAppended
<1> QED BY <1>1, <1>4, <1>5, <1>7, <1>8

\* An order that is in no trade has traded nothing.
LEMMA TradedNothing ==
  ASSUME NEW trades \in Seq(StoredTrades), NEW order,
         \A i \in DOMAIN trades : order \notin {trades[i].maker_order, trades[i].taker_order}
  PROVE  TradedIn(order, trades) = 0
<1>1. PICK f : f = [i \in DOMAIN trades |-> Part(order, trades[i])]
  OBVIOUS
<1>2. \A i \in 1..Len(trades) : f[i] = 0
  BY <1>1, TradedIsSum DEF Part
<1>3. SumFunctionOnSet(f, 1..Len(trades)) = 0
  BY <1>2, TradedIsSum, SumOfZeros
<1> QED BY <1>1, <1>3, TradedIsSum

\* The first trades of a sequence count for no more than all of them.
LEMMA TradedBefore ==
  ASSUME NEW first \in Seq(StoredTrades), NEW rest \in Seq(StoredTrades), NEW order
  PROVE  TradedIn(order, first) <= TradedIn(order, first \o rest)
<1>1. PICK all, n : all = first \o rest /\ n = Len(first)
  OBVIOUS
<1>2. /\ all \in Seq(StoredTrades) /\ n \in Nat /\ Len(all) \in Nat /\ n <= Len(all)
      /\ \A i \in 1..n : all[i] = first[i]
  BY <1>1, ConcatProperties, LenProperties
<1>3. PICK f, g : /\ f = [i \in DOMAIN first |-> Part(order, first[i])]
                  /\ g = [i \in DOMAIN all |-> Part(order, all[i])]
  OBVIOUS
<1>4. /\ TradedIn(order, first) = SumFunctionOnSet(f, 1..n) /\ IsFiniteSet(1..n)
      /\ DOMAIN first = 1..n /\ \A i \in 1..n : f[i] \in Nat
  BY <1>1, <1>3, TradedIsSum
<1>5. /\ TradedIn(order, all) = SumFunctionOnSet(g, 1..Len(all)) /\ IsFiniteSet(1..Len(all))
      /\ DOMAIN all = 1..Len(all) /\ \A i \in 1..Len(all) : g[i] \in Nat
  BY <1>2, <1>3, TradedIsSum
<1>6. PICK h : h = [i \in 1..n |-> i]
  OBVIOUS
<1>7. \A i \in 1..n : h[i] \in 1..Len(all) /\ f[i] <= g[h[i]]
  <2>1. ASSUME NEW i \in 1..n PROVE h[i] = i /\ i \in 1..Len(all) /\ f[i] = g[i] /\ f[i] \in Nat
    BY <1>2, <1>3, <1>4, <1>5, <1>6
  <2> QED BY <2>1
<1>8. \A i, j \in 1..n : h[i] = h[j] => i = j
  BY <1>6
<1>9. SumFunctionOnSet(f, 1..n) <= SumFunctionOnSet(g, 1..Len(all))
  BY <1>4, <1>5, <1>7, <1>8, SumInjected
<1> QED BY <1>1, <1>4, <1>5, <1>9

\* The engine's fill when the handled order takes qty from the maker m.
FillOf(m, qty) == [maker_id |-> m.id, price |-> m.price, quantity |-> qty]

\* The trade the gateway makes of it.
TradeOf(m, qty) ==
  [maker_order |-> order_map[m.id], taker_order |-> handling, price |-> m.price, quantity |-> qty]

\* The maker afterwards, if anything is left of it.
MakerLeft(m, qty) == [id |-> m.id, side |-> m.side, price |-> m.price, quantity |-> m.quantity - qty]

\* What one fill does.
FillStep(m, qty) ==
  /\ m \in OrdersIn(book) /\ m \in EngineOrders /\ m.side = Opposite(taker.side)
  /\ qty \in Nat \ {0} /\ qty <= taker.remaining /\ qty <= m.quantity
  /\ handling # NoOrder /\ m.id \in DOMAIN order_map
  /\ taker.type = "limit" => Accepts(taker.side, taker.price, m.price)
  /\ \A o \in OrdersIn(book') : (o \in OrdersIn(book) /\ o.id # m.id) \/ o = MakerLeft(m, qty)
  /\ DOMAIN book'.locations \subseteq DOMAIN book.locations
  /\ DOMAIN book.locations \subseteq DOMAIN book'.locations \cup {m.id}
  /\ taker' = [id |-> taker.id, side |-> taker.side, price |-> taker.price, type |-> taker.type,
               quantity |-> taker.quantity, remaining |-> taker.remaining - qty,
               fills |-> Append(taker.fills, FillOf(m, qty))]
  /\ ledger' = LedgerAfterFill(handling, order_map[m.id].maker, FillOf(m, qty))
  /\ UNCHANGED <<next_id, serving, accepted_nonces, order_map, order_nonce_map, pending_trades,
                 handling, to_restore, db, now, crashes>>

\* The fill loop takes from the best maker, settles, and leaves the maps alone.
LEMMA FillFacts ==
  ASSUME IInv, FillOrder
  PROVE  \E m, qty : FillStep(m, qty)
<1>1. PICK side, fill : side = Opposite(taker.side) /\ fill = Engine!NextFill
  OBVIOUS
<1>2. /\ taker # Engine!NoTaker /\ taker.remaining > 0 /\ DOMAIN book.levels[side] # {}
      /\ fill = [maker_id |-> BestMaker(book, side).id, price |-> BestPrice(book, side),
                 quantity |-> FillQty(book, side, taker.remaining)]
      /\ book' = TakeBest(book, side, taker.remaining)
      /\ taker' = [taker EXCEPT !.remaining = @ - fill.quantity, !.fills = Append(@, fill)]
      /\ UNCHANGED <<next_id, serving>>
  BY <1>1, EngineMatch DEF FillOrder
<1>3. /\ fill.maker_id \in DOMAIN order_map
      /\ ledger' = LedgerAfterFill(handling, order_map[fill.maker_id].maker, fill)
      /\ UNCHANGED <<accepted_nonces, order_map, order_nonce_map, pending_trades,
                     handling, to_restore, db, now, crashes>>
  BY <1>1 DEF FillOrder
<1>4. handling # NoOrder
  BY <1>2 DEF IInv, TakerHandled
<1>5. Consistent(book) /\ side \in Sides /\ taker.remaining \in Nat \ {0}
  BY <1>1, <1>2, <1>4, TakerFacts DEF IInv, EngineReady, TakerHandled, Opposite, Sides
<1>6. PICK m, qty : m = BestMaker(book, side) /\ qty = FillQty(book, side, taker.remaining)
  OBVIOUS
<1>7. /\ m \in EngineOrders /\ m.price = BestPrice(book, side) /\ m.side = side
      /\ qty \in Nat \ {0} /\ qty <= taker.remaining /\ qty <= m.quantity
      /\ m \in OrdersIn(book)
  <2>1. m \in EngineOrders /\ m.price = BestPrice(book, side)
    BY <1>2, <1>5, <1>6, BestMakerFacts
  <2>2. qty \in Nat \ {0} /\ qty <= taker.remaining /\ qty <= m.quantity
    BY <1>2, <1>5, <1>6, FillQtyBounds
  <2>3. m \in OrdersIn(book) /\ m.side = side
    BY <1>2, <1>5, <1>6, BestMakerPrecedes
  <2> QED BY <2>1, <2>2, <2>3
<1>8. fill = FillOf(m, qty) /\ fill.maker_id = m.id
  BY <1>2, <1>6, <1>7 DEF FillOf
<1>9. taker.type = "limit" => Accepts(taker.side, taker.price, m.price)
  <2>1. \A limit, price : Engine!Accepts(taker.side, limit, price) <=> Accepts(taker.side, limit, price)
    BY DEF Engine!Accepts, Accepts
  <2>2. Engine!CanMatch
    BY DEF FillOrder, Engine!Match
  <2> QED BY <1>1, <1>7, <2>1, <2>2, EngineBook DEF Engine!CanMatch
<1>10. \A o \in OrdersIn(book') : (o \in OrdersIn(book) /\ o.id # m.id) \/ o = MakerLeft(m, qty)
  <2>1. PICK left : left = m.quantity - qty
    OBVIOUS
  <2>2. /\ left = 0 => OrdersIn(book') = OrdersIn(book) \ {m}
        /\ left # 0 => OrdersIn(book') = (OrdersIn(book) \ {m}) \cup {[m EXCEPT !.quantity = left]}
    BY <1>2, <1>5, <1>6, <2>1, OrdersAfterTake
  <2>3. [m EXCEPT !.quantity = left] = MakerLeft(m, qty)
    BY <1>7, <2>1 DEF EngineOrders, MakerLeft
  <2>4. \A o \in OrdersIn(book) : o # m => o.id # m.id
    BY <1>5, <1>7, IdNamesOrder
  <2> QED BY <2>2, <2>3, <2>4
<1>11. /\ DOMAIN book'.locations \subseteq DOMAIN book.locations
       /\ DOMAIN book.locations \subseteq DOMAIN book'.locations \cup {m.id}
  <2>1. PICK locs, id : locs = book.locations /\ id = m.id
    OBVIOUS
  <2>2. book'.locations = locs \/ book'.locations = Without(locs, id)
    BY <1>2, <1>6, <2>1, LocationsAfter
  <2> QED BY <2>1, <2>2 DEF Without, Restrict
<1>12. taker' = [id |-> taker.id, side |-> taker.side, price |-> taker.price, type |-> taker.type,
                 quantity |-> taker.quantity, remaining |-> taker.remaining - qty,
                 fills |-> Append(taker.fills, FillOf(m, qty))]
  <2>1. PICK t, left, fills : t = taker /\ left = t.remaining - qty /\ fills = Append(t.fills, fill)
    OBVIOUS
  <2>2. t = [id |-> t.id, side |-> t.side, price |-> t.price, type |-> t.type,
             quantity |-> t.quantity, remaining |-> t.remaining, fills |-> t.fills]
    BY <1>4, <2>1, TakerFacts
  <2>3. taker' = [t EXCEPT !.remaining = left, !.fills = fills]
    <3>1. fill.quantity = qty
      BY <1>2, <1>6
    <3>2. taker' = [t EXCEPT !.remaining = t.remaining - fill.quantity, !.fills = Append(t.fills, fill)]
      BY <1>2, <2>1
    <3> QED BY <2>1, <3>1, <3>2
  <2>4. taker' = [id |-> t.id, side |-> t.side, price |-> t.price, type |-> t.type,
                  quantity |-> t.quantity, remaining |-> left, fills |-> fills]
    BY <2>2, <2>3
  <2> QED BY <1>8, <2>1, <2>4
<1>13. FillStep(m, qty)
  BY <1>1, <1>2, <1>3, <1>4, <1>7, <1>8, <1>9, <1>10, <1>11, <1>12 DEF FillStep
<1> QED BY <1>13

\* A fill is one more trade of the submission.
LEMMA FillTrades ==
  ASSUME IInv, NEW m, NEW qty, FillStep(m, qty)
  PROVE  /\ TradeOf(m, qty) \in StoredTrades /\ AllTrades \in Seq(StoredTrades)
         /\ AllTrades' = Append(AllTrades, TradeOf(m, qty))
         /\ order_map[m.id] \in SignedOrders /\ handling \in SignedOrders /\ m.id \in DOMAIN order_map
<1>1. PICK fills, fill, trade :
        fills \in Seq(Engine!Fills) /\ fills = taker.fills /\ fill = FillOf(m, qty) /\ trade = TradeOf(m, qty)
  BY TakerFacts DEF FillStep
<1>2. /\ handling # NoOrder /\ handling' = handling /\ order_map' = order_map /\ db' = db
      /\ taker'.fills = Append(fills, fill) /\ handling \in SignedOrders
      /\ m.id \in DOMAIN order_map /\ order_map[m.id] \in SignedOrders
      /\ m \in EngineOrders /\ qty \in Nat \ {0}
  BY <1>1, TakerFacts DEF FillStep, IInv, MapsAgree
<1>3. trade \in StoredTrades
  BY <1>1, <1>2 DEF TradeOf, StoredTrades, EngineOrders
<1>4. /\ DOMAIN fills = 1..Len(fills) /\ Len(fills) \in Nat
      /\ DOMAIN Append(fills, fill) = 1..(Len(fills) + 1)
      /\ \A i \in 1..Len(fills) : Append(fills, fill)[i] = fills[i]
      /\ Append(fills, fill)[Len(fills) + 1] = fill
  BY LenProperties, AppendAny
<1>5. PICK trades \in Seq(StoredTrades) : trades = Trades
  BY <1>2, TradesTyped
<1>6. /\ DOMAIN trades = 1..Len(fills) /\ Len(trades) = Len(fills)
      /\ \A i \in 1..Len(fills) :
           trades[i] = [maker_order |-> order_map[fills[i].maker_id], taker_order |-> handling,
                        price |-> fills[i].price, quantity |-> fills[i].quantity]
  <2>1. DOMAIN trades = 1..Len(fills)
    BY <1>1, <1>4, <1>5 DEF Trades
  <2>2. Len(trades) = Len(fills)
    BY <1>4, <1>5, <2>1, LenProperties
  <2> QED BY <1>1, <1>4, <1>5, <2>1, <2>2 DEF Trades
<1>7. PICK n : n = Len(fills)
  OBVIOUS
<1>8. PICK more \in Seq(StoredTrades) : /\ more = Append(trades, trade) /\ Len(more) = n + 1
                                        /\ \A i \in 1..n : more[i] = trades[i]
                                        /\ more[n + 1] = trade
  <2>1. PICK more : more = Append(trades, trade)
    OBVIOUS
  <2>2. /\ more \in Seq(StoredTrades) /\ Len(more) = n + 1
        /\ \A i \in 1..n : more[i] = trades[i]
        /\ more[n + 1] = trade
    BY <1>3, <1>6, <1>7, <2>1, AppendProperties
  <2> QED BY <2>1, <2>2
<1>9. Trades' = [i \in 1..(n + 1) |->
                   [maker_order |-> order_map[Append(fills, fill)[i].maker_id], taker_order |-> handling,
                    price |-> Append(fills, fill)[i].price, quantity |-> Append(fills, fill)[i].quantity]]
  BY <1>2, <1>4, <1>7 DEF Trades
<1>10. \A i \in 1..(n + 1) :
         more[i] = [maker_order |-> order_map[Append(fills, fill)[i].maker_id], taker_order |-> handling,
                    price |-> Append(fills, fill)[i].price, quantity |-> Append(fills, fill)[i].quantity]
  <2>1. ASSUME NEW i \in 1..n
        PROVE  more[i] = [maker_order |-> order_map[Append(fills, fill)[i].maker_id], taker_order |-> handling,
                          price |-> Append(fills, fill)[i].price, quantity |-> Append(fills, fill)[i].quantity]
    BY <1>4, <1>6, <1>7, <1>8
  <2>2. more[n + 1] = [maker_order |-> order_map[fill.maker_id], taker_order |-> handling,
                       price |-> fill.price, quantity |-> fill.quantity]
    BY <1>1, <1>8 DEF FillOf, TradeOf
  <2>3. \A i \in 1..(n + 1) : i \in 1..n \/ i = n + 1
    BY <1>4, <1>7
  <2> QED BY <1>4, <1>7, <2>1, <2>2, <2>3
<1>11. more = [i \in 1..(n + 1) |-> more[i]]
  <2>1. more = [i \in DOMAIN more |-> more[i]] /\ DOMAIN more = 1..(n + 1)
    BY <1>8, LenProperties, SeqDef
  <2> QED BY <2>1
<1>12. Trades' = more
  BY <1>9, <1>10, <1>11
<1>13. db.trades \in Seq(StoredTrades)
  BY DEF IInv, Stored
<1>14. db.trades \o Append(trades, trade) = Append(db.trades \o trades, trade)
  <2>1. PICK old \in Seq(StoredTrades) : old = db.trades
    BY <1>13
  <2>2. \A s, t \in Seq(StoredTrades) : s \o Append(t, trade) = Append(s \o t, trade)
    <3> SUFFICES ASSUME NEW s \in Seq(StoredTrades), NEW t \in Seq(StoredTrades)
                 PROVE s \o Append(t, trade) = Append(s \o t, trade)
      OBVIOUS
    <3>1. PICK l, r, longer, all : /\ l = s \o longer /\ r = Append(all, trade)
                                 /\ longer = Append(t, trade) /\ all = s \o t
      OBVIOUS
    <3>2. /\ longer \in Seq(StoredTrades) /\ Len(longer) = Len(t) + 1 /\ longer[Len(t) + 1] = trade
          /\ \A i \in 1..Len(t) : longer[i] = t[i]
      BY <1>3, <3>1, AppendProperties
    <3>3. /\ all \in Seq(StoredTrades) /\ Len(all) = Len(s) + Len(t) /\ Len(s) \in Nat /\ Len(t) \in Nat
          /\ \A i \in 1..(Len(s) + Len(t)) : all[i] = IF i <= Len(s) THEN s[i] ELSE t[i - Len(s)]
      BY <3>1, ConcatProperties, LenProperties
    <3>4. /\ l \in Seq(StoredTrades) /\ Len(l) = Len(s) + Len(longer)
          /\ \A i \in 1..(Len(s) + Len(longer)) : l[i] = IF i <= Len(s) THEN s[i] ELSE longer[i - Len(s)]
      BY <3>1, <3>2, ConcatProperties
    <3>5. /\ r \in Seq(StoredTrades) /\ Len(r) = Len(all) + 1 /\ r[Len(all) + 1] = trade
          /\ \A i \in 1..Len(all) : r[i] = all[i]
      BY <1>3, <3>1, <3>3, AppendProperties
    <3>6. Len(l) = Len(r)
      BY <3>2, <3>3, <3>4, <3>5
    <3>7. ASSUME NEW i \in 1..Len(l) PROVE l[i] = r[i]
      <4>1. CASE i <= Len(s)
        <5>1. i \in 1..Len(all)
          BY <3>3, <4>1
        <5> QED BY <3>2, <3>3, <3>4, <3>5, <4>1, <5>1
      <4>2. CASE i > Len(s) /\ i <= Len(s) + Len(t)
        <5>1. i \in 1..Len(all) /\ i - Len(s) \in 1..Len(t) /\ ~(i <= Len(s))
          BY <3>3, <4>2
        <5> QED BY <3>2, <3>3, <3>4, <3>5, <5>1
      <4>3. CASE i = Len(s) + Len(t) + 1
        <5>1. i = Len(all) + 1 /\ i - Len(s) = Len(t) + 1 /\ ~(i <= Len(s))
          BY <3>3, <4>3
        <5> QED BY <3>2, <3>3, <3>4, <3>5, <5>1
      <4>4. i <= Len(s) \/ (i > Len(s) /\ i <= Len(s) + Len(t)) \/ i = Len(s) + Len(t) + 1
        <5>1. /\ Len(l) = Len(s) + Len(longer) /\ Len(longer) = Len(t) + 1
              /\ Len(s) \in Nat /\ Len(t) \in Nat
          BY <3>2, <3>3, <3>4
        <5>2. PICK a \in Nat, b \in Nat : a = Len(s) /\ b = Len(t)
          BY <5>1
        <5>3. Len(l) = a + b + 1
          BY <5>1, <5>2
        <5>4. i \in 1..(a + b + 1)
          BY <5>3
        <5>5. i <= a \/ (i > a /\ i <= a + b) \/ i = a + b + 1
          BY <5>4
        <5> QED BY <5>2, <5>5
      <4> QED BY <4>1, <4>2, <4>3, <4>4
    <3> QED BY <3>1, <3>4, <3>5, <3>6, <3>7, SeqEqual
  <2> QED BY <2>1, <2>2
<1>15. AllTrades \in Seq(StoredTrades) /\ AllTrades = db.trades \o trades /\ AllTrades' = db.trades \o more
  BY <1>2, <1>5, <1>12, <1>13, ConcatProperties DEF AllTrades
<1> QED BY <1>1, <1>2, <1>3, <1>8, <1>14, <1>15

\* The rows once a submission is saved, one by one.
LEMMA SavedRows ==
  ASSUME IInv, handling # NoOrder, NEW rows, rows = OrderRowsAfter(db.orders)
  PROVE  /\ DOMAIN db.orders \subseteq DOMAIN rows
         /\ Engine!Rests => taker.id \in DOMAIN rows
         /\ \A id \in DOMAIN rows :
              \/ /\ Engine!Rests /\ id = taker.id
                 /\ rows[id] = [order |-> handling, status |-> "resting", resting_quantity |-> taker.remaining]
              \/ /\ id \in DOMAIN db.orders /\ (Engine!Rests => id # taker.id)
                 /\ rows[id].order = db.orders[id].order
                 /\ rows[id].resting_quantity = db.orders[id].resting_quantity
                 /\ rows[id].status = IF id \in FilledMakers THEN "filled" ELSE db.orders[id].status
<1>1. PICK old, filled : old = db.orders /\ filled = FilledMakers
  OBVIOUS
<1>2. PICK marked : marked = [id \in DOMAIN old |-> IF id \in filled
                                                    THEN [old[id] EXCEPT !.status = "filled"]
                                                    ELSE old[id]]
  OBVIOUS
<1>3. \A row \in RowRecords : /\ [row EXCEPT !.status = "filled"].order = row.order
                              /\ [row EXCEPT !.status = "filled"].status = "filled"
                              /\ [row EXCEPT !.status = "filled"].resting_quantity = row.resting_quantity
  BY DEF RowRecords
<1>4. \A id \in DOMAIN old : old[id] \in RowRecords
  BY <1>1 DEF IInv, Stored, RowsSound
<1>5. DOMAIN marked = DOMAIN old
  BY <1>2
<1>6. \A id \in DOMAIN marked : /\ marked[id].order = old[id].order
                                /\ marked[id].resting_quantity = old[id].resting_quantity
                                /\ marked[id].status = IF id \in filled THEN "filled" ELSE old[id].status
  <2> SUFFICES ASSUME NEW id \in DOMAIN old
               PROVE  /\ marked[id].order = old[id].order
                      /\ marked[id].resting_quantity = old[id].resting_quantity
                      /\ marked[id].status = IF id \in filled THEN "filled" ELSE old[id].status
    BY <1>5
  <2>1. CASE id \in filled
    BY <1>2, <1>3, <1>4, <2>1
  <2>2. CASE id \notin filled
    BY <1>2, <2>2
  <2> QED BY <2>1, <2>2
<1>7. CASE ~Engine!Rests
  BY <1>1, <1>2, <1>5, <1>6, <1>7 DEF OrderRowsAfter
<1>8. CASE Engine!Rests
  <2>1. PICK row : row = [order |-> handling, status |-> "resting", resting_quantity |-> taker.remaining]
    OBVIOUS
  <2>2. rows = With(marked, taker.id, row)
    BY <1>1, <1>2, <1>8, <2>1 DEF OrderRowsAfter
  <2>3. DOMAIN rows = DOMAIN old \cup {taker.id} /\ \A id \in DOMAIN rows : rows[id] = IF id = taker.id THEN row ELSE marked[id]
    BY <1>5, <2>2 DEF With
  <2> QED BY <1>1, <1>5, <1>6, <1>8, <2>1, <2>3
<1> QED BY <1>7, <1>8

\* What the end of a submission does.
LEMMA FinishFacts ==
  ASSUME IInv, FinishOrder
  PROVE  /\ handling # NoOrder /\ handling' = NoOrder /\ taker' = Engine!NoTaker
         /\ db'.orders = OrderRowsAfter(db.orders) /\ db'.balances = ledger
         /\ db'.nonces = SaveNonce(db.nonces, handling, now + NonceExpiry)
         /\ db'.trades = AllTrades /\ AllTrades' = AllTrades /\ db'.trades = db.trades \o Trades
         /\ pending_trades' = pending_trades \o Tagged(Trades)
         /\ UNCHANGED <<ledger, accepted_nonces, to_restore, now, crashes, next_id, serving>>
         /\ order_map' = Entered(order_map, handling)
         /\ order_nonce_map' = Entered(order_nonce_map, NonceEntry(handling, taker.remaining))
         /\ \A o \in OrdersIn(book') :
              \/ o \in OrdersIn(book) /\ o.id # taker.id
              \/ /\ Engine!Rests
                 /\ o = [id |-> taker.id, side |-> taker.side, price |-> taker.price,
                         quantity |-> taker.remaining]
         /\ DOMAIN book.locations \subseteq DOMAIN book'.locations
         /\ Engine!Rests => taker.id \in DOMAIN book'.locations
         /\ \A id \in DOMAIN book.locations : id # taker.id
<1>1. PICK id, o : id = taker.id /\ o = [id |-> taker.id, side |-> taker.side, price |-> taker.price,
                                         quantity |-> taker.remaining]
  OBVIOUS
<1>2. /\ handling # NoOrder /\ order_map' = Entered(order_map, handling)
      /\ order_nonce_map' = Entered(order_nonce_map, NonceEntry(handling, taker.remaining))
      /\ db' = SaveOrderFill /\ pending_trades' = pending_trades \o Tagged(Trades) /\ handling' = NoOrder
      /\ UNCHANGED <<ledger, accepted_nonces, to_restore, now, crashes>>
      /\ book' = IF Engine!Rests THEN Insert(book, o) ELSE book
      /\ taker' = Engine!NoTaker /\ UNCHANGED <<next_id, serving>>
  BY <1>1, EngineFinish DEF FinishOrder
<1>3. /\ db'.orders = OrderRowsAfter(db.orders) /\ db'.balances = ledger
      /\ db'.nonces = SaveNonce(db.nonces, handling, now + NonceExpiry)
      /\ db'.trades = db.trades \o Trades
  BY <1>2 DEF IInv, Stored, SaveOrderFill
<1>4. db'.trades = AllTrades /\ AllTrades' = AllTrades
  BY <1>2, <1>3 DEF AllTrades
<1>5. /\ Consistent(book) /\ id \in Nat /\ \A x \in DOMAIN book.locations : x # id
  <2>1. /\ Consistent(book) /\ id \in Nat /\ \A x \in DOMAIN book.locations : x < id
    BY <1>1, <1>2, TakerFacts DEF IInv, EngineReady, TakerHandled
  <2>2. DOMAIN book.locations \subseteq Nat
    BY <2>1 DEF Consistent, LocationsTyped
  <2> QED BY <2>1, <2>2
<1>6. \A n \in OrdersIn(book) : n.id # id
  BY <1>5, RestingPlace DEF IndexedAt
<1>7. CASE ~Engine!Rests
  BY <1>1, <1>2, <1>3, <1>4, <1>5, <1>6, <1>7
<1>8. CASE Engine!Rests
  <2>1. o \in EngineOrders
    BY <1>1, <1>2, <1>8, TakerFacts DEF EngineOrders, Engine!Rests
  <2>2. OrdersIn(book') = OrdersIn(book) \cup {o}
    BY <1>2, <1>5, <1>8, <2>1, OrdersAfterInsert
  <2>3. book'.locations = With(book.locations, id, [side |-> taker.side, price |-> taker.price])
    BY <1>1, <1>2, <1>8, LocationsAfter
  <2>4. DOMAIN book'.locations = DOMAIN book.locations \cup {id}
    BY <2>3 DEF With
  <2> QED BY <1>1, <1>2, <1>3, <1>4, <1>5, <1>6, <1>8, <2>2, <2>4
<1> QED BY <1>7, <1>8

\* What a cancel does when its transaction is made.
CancelStep(c, id) ==
  /\ id \in DOMAIN order_nonce_map /\ Cancellable(c, id) /\ id \in DOMAIN book.locations
  /\ handling = NoOrder /\ handling' = NoOrder /\ serving /\ taker = Engine!NoTaker
  /\ ledger' = LedgerAfterCancel(order_nonce_map[id])
  /\ order_map' = Without(order_map, id) /\ order_nonce_map' = Without(order_nonce_map, id)
  /\ db'.orders = [db.orders EXCEPT ![id].status = "cancelled"]
  /\ db'.trades = db.trades /\ db'.nonces = db.nonces /\ db'.balances = ledger'
  /\ \A o \in OrdersIn(book') : o \in OrdersIn(book) /\ o.id # id
  /\ \E m \in OrdersIn(book) : m.id = id
  /\ DOMAIN book'.locations = DOMAIN book.locations \ {id}
  /\ UNCHANGED <<next_id, taker, serving, accepted_nonces, pending_trades, to_restore, now, crashes>>

\* A cancel is such a step, for an entry the request names.
LEMMA CancelStepFacts ==
  ASSUME IInv, NEW c, CancelOrder(c)
  PROVE  \E id : CancelStep(c, id)
<1>1. PICK id \in DOMAIN order_nonce_map :
        /\ Cancellable(c, id)
        /\ Engine!Cancel(id) /\ ledger' = LedgerAfterCancel(order_nonce_map[id])
        /\ db' = SaveCancel(id, LedgerAfterCancel(order_nonce_map[id]), order_nonce_map[id])
        /\ order_map' = Without(order_map, id) /\ order_nonce_map' = Without(order_nonce_map, id)
        /\ UNCHANGED <<accepted_nonces, pending_trades, handling, to_restore, now, crashes>>
  BY DEF CancelOrder
<1>2. /\ handling = NoOrder /\ \A o \in OrdersIn(book') : o \in OrdersIn(book) /\ o.id # id
  BY <1>1, CancelFacts
<1>3. /\ serving /\ taker = Engine!NoTaker /\ id \in DOMAIN book.locations
      /\ book' = RemoveOrder(book, id) /\ UNCHANGED <<next_id, taker, serving>>
  BY <1>1, EngineOthers
<1>4. /\ db'.orders = [db.orders EXCEPT ![id].status = "cancelled"]
      /\ db'.trades = db.trades /\ db'.nonces = db.nonces /\ db'.balances = ledger'
  BY <1>1 DEF IInv, Stored, SaveCancel
<1>5. Consistent(book)
  BY DEF IInv, EngineReady
<1>6. (\E m \in OrdersIn(book) : m.id = id) /\ DOMAIN book'.locations = DOMAIN book.locations \ {id}
  BY <1>3, <1>5, OrdersAfterRemove, RemoveConsistent
<1>7. CancelStep(c, id)
  BY <1>1, <1>2, <1>3, <1>4, <1>6 DEF CancelStep
<1> QED BY <1>7

\* What the restoration of a row does.
RestoreStep(id) ==
  /\ to_restore # NotLoaded /\ id \in to_restore /\ id \in DOMAIN db.orders
  /\ to_restore' = to_restore \ {id} /\ to_restore' # NotLoaded
  /\ handling = NoOrder /\ ~serving
  /\ \A o \in OrdersIn(book') :
       \/ o \in OrdersIn(book) /\ o.id # id
       \/ o = [id |-> id, side |-> db.orders[id].order.side, price |-> db.orders[id].order.price,
               quantity |-> db.orders[id].resting_quantity]
  /\ DOMAIN book'.locations = DOMAIN book.locations \cup {id}
  /\ order_map' = With(order_map, id, db.orders[id].order)
  /\ order_nonce_map' = With(order_nonce_map, id,
                             NonceEntry(db.orders[id].order, db.orders[id].resting_quantity))
  /\ accepted_nonces' = accepted_nonces \cup {db.orders[id].order}
  /\ UNCHANGED <<next_id, taker, serving, ledger, pending_trades, handling, db, now, crashes>>

\* Recovery restores the next row as it is stored.
LEMMA RestoreFacts ==
  ASSUME IInv, RestoreOrder
  PROVE  \E id : RestoreStep(id)
<1>1. PICK id, row : id = NextRow(to_restore) /\ row = db.orders[id]
  OBVIOUS
<1>2. PICK o : o = [id |-> id, side |-> row.order.side, price |-> row.order.price,
                    quantity |-> row.resting_quantity]
  OBVIOUS
<1>3. /\ to_restore \notin {NotLoaded, {}} /\ to_restore' = to_restore \ {id}
      /\ Engine!Restore(o)
      /\ order_map' = With(order_map, id, row.order)
      /\ order_nonce_map' = With(order_nonce_map, id, NonceEntry(row.order, row.resting_quantity))
      /\ accepted_nonces' = accepted_nonces \cup {row.order}
      /\ UNCHANGED <<ledger, pending_trades, handling, db, now, crashes>>
  BY <1>1, <1>2 DEF RestoreOrder, Restored
<1>4. ~serving /\ book' = Insert(book, o) /\ UNCHANGED <<next_id, taker, serving>>
  BY <1>3, EngineOthers
<1>5. /\ to_restore \subseteq DOMAIN db.orders /\ DOMAIN db.orders \subseteq 1..MaxId /\ id \in to_restore
      /\ handling = NoOrder
  BY <1>1, <1>3, <1>4, ExtremeRows DEF IInv, Recovering, Stored, RowsSound, TakerHandled, NextRow
<1>6. row.order \in SignedOrders /\ row.resting_quantity \in 1..row.order.quantity
  BY <1>1, <1>5 DEF IInv, Stored, RowsSound, RowRecords
<1>7. o \in EngineOrders
  <2>1. row.order.side \in Sides /\ row.order.price \in Prices /\ row.order.quantity \in Nat
    BY <1>6, SignedTyped, OrderTyped
  <2>2. id \in Nat /\ row.resting_quantity \in Nat \ {0}
    BY <1>5, <1>6, <2>1, GatewayAssumption
  <2> QED BY <1>2, <2>1, <2>2 DEF EngineOrders
<1>8. Consistent(book) /\ \A x \in DOMAIN book.locations : x < id
  BY <1>3, <1>5 DEF IInv, EngineReady, Recovering
<1>9. OrdersIn(book') = OrdersIn(book) \cup {o}
  BY <1>4, <1>7, <1>8, OrdersAfterInsert
<1>10. \A x \in OrdersIn(book) : x.id # id
  <2>1. \A x \in OrdersIn(book) : x.id < id /\ x.id \in Nat
    <3>1. \A x \in OrdersIn(book) : x \in EngineOrders /\ x.id \in DOMAIN book.locations
      BY <1>8, RestingPlace DEF IndexedAt
    <3> QED BY <1>8, <3>1 DEF EngineOrders
  <2>2. id \in Int
    BY <1>5, GatewayAssumption
  <2> QED BY <2>1, <2>2
<1>11. DOMAIN book'.locations = DOMAIN book.locations \cup {id}
  <2>1. PICK locs, loc : locs = book.locations /\ loc = [side |-> o.side, price |-> o.price]
    OBVIOUS
  <2>2. book'.locations = With(locs, id, loc)
    BY <1>2, <1>4, <2>1, LocationsAfter
  <2> QED BY <2>1, <2>2 DEF With
<1>12. to_restore' # NotLoaded
  <2>1. 0 \notin 1..MaxId
    OBVIOUS
  <2> QED BY <1>3, <1>5, <2>1 DEF NotLoaded
<1>13. RestoreStep(id)
  BY <1>1, <1>2, <1>3, <1>4, <1>5, <1>9, <1>10, <1>11, <1>12 DEF RestoreStep
<1> QED BY <1>13

\* What happens to an expired row.
SkipStep(id) ==
  /\ to_restore # NotLoaded /\ id \in to_restore /\ id \in DOMAIN db.orders
  /\ to_restore' = to_restore \ {id} /\ to_restore' # NotLoaded
  /\ handling = NoOrder /\ id \notin DOMAIN book.locations /\ ~serving
  /\ db.orders[id].order.expiry < now
  /\ db'.trades = db.trades /\ db'.nonces = db.nonces /\ db'.balances = db.balances
  /\ db'.orders = db.orders \/ db'.orders = [db.orders EXCEPT ![id].status = "cancelled"]
  /\ UNCHANGED <<book, next_id, taker, serving, ledger, accepted_nonces, order_map, order_nonce_map,
                 pending_trades, handling, now, crashes>>

\* Recovery leaves an expired row alone, or cancels it.
LEMMA SkipFacts ==
  ASSUME IInv, SkipExpired
  PROVE  \E id : SkipStep(id)
<1>1. PICK id : /\ id = NextRow(to_restore) /\ to_restore \notin {NotLoaded, {}}
                /\ to_restore' = to_restore \ {id} /\ db.orders[id].order.expiry < now
                /\ db' \in {db, [db EXCEPT !.orders[id].status = "cancelled"]}
                /\ UNCHANGED <<engine_vars, app_vars, handling, now, crashes>>
  BY DEF SkipExpired
<1>2. /\ to_restore \subseteq DOMAIN db.orders /\ DOMAIN db.orders \subseteq 1..MaxId /\ id \in to_restore
  BY <1>1, ExtremeRows DEF IInv, Recovering, Stored, RowsSound, NextRow
<1>3. handling = NoOrder /\ ~serving
  BY <1>1 DEF IInv, Recovering, TakerHandled
<1>4. id \notin DOMAIN book.locations
  <2>1. id \in Int /\ \A x \in DOMAIN book.locations : x < id
    BY <1>1, <1>2, GatewayAssumption DEF IInv, Recovering
  <2> QED BY <2>1
<1>5. to_restore' # NotLoaded
  <2>1. 0 \notin 1..MaxId
    OBVIOUS
  <2> QED BY <1>1, <1>2, <2>1 DEF NotLoaded
<1>6. /\ db'.trades = db.trades /\ db'.nonces = db.nonces /\ db'.balances = db.balances
      /\ db'.orders = db.orders \/ db'.orders = [db.orders EXCEPT ![id].status = "cancelled"]
  BY <1>1 DEF IInv, Stored
<1>7. SkipStep(id)
  BY <1>1, <1>2, <1>3, <1>4, <1>5, <1>6 DEF SkipStep, engine_vars, app_vars
<1> QED BY <1>7

\* A row that is marked changes in its status only.
LEMMA MarkedOnly ==
  ASSUME IInv, NEW id, NEW rows, rows = [db.orders EXCEPT ![id].status = "cancelled"]
  PROVE  /\ DOMAIN rows = DOMAIN db.orders
         /\ \A x \in DOMAIN db.orders :
              /\ rows[x].order = db.orders[x].order
              /\ rows[x].resting_quantity = db.orders[x].resting_quantity
              /\ x # id => rows[x] = db.orders[x]
<1>1. \A row \in RowRecords : /\ [row EXCEPT !.status = "cancelled"].order = row.order
                              /\ [row EXCEPT !.status = "cancelled"].resting_quantity = row.resting_quantity
  BY DEF RowRecords
<1>2. \A x \in DOMAIN db.orders : db.orders[x] \in RowRecords
  BY DEF IInv, Stored, RowsSound
<1> QED BY <1>1, <1>2

\* What the maps name are rows.
MapRows == \A id \in DOMAIN order_map : id \in DOMAIN db.orders /\ db.orders[id].order = order_map[id]

\* No two rows are of the same order: an order is accepted once.
RowsDistinct == \A x, y \in DOMAIN db.orders : db.orders[x].order = db.orders[y].order => x = y

\* So an order has one id, in the maps as in the rows.
RowsNamed == MapRows /\ RowsDistinct

\* Rows keep their orders, and what is entered is a row.
LEMMA NamedElsewhere ==
  ASSUME RowsNamed, DOMAIN db'.orders = DOMAIN db.orders,
         \A id \in DOMAIN db.orders : db'.orders[id].order = db.orders[id].order,
         \A id \in DOMAIN order_map' :
           \/ id \in DOMAIN order_map /\ order_map'[id] = order_map[id]
           \/ id \in DOMAIN db.orders /\ order_map'[id] = db.orders[id].order
  PROVE  RowsNamed'
  BY DEF RowsNamed, MapRows, RowsDistinct

\* The row of an order that comes to rest is its only one: it was not saved.
LEMMA NamedFinish ==
  ASSUME IInv, OnceInv, RowsNamed, FinishOrder
  PROVE  RowsNamed'
<1>1. PICK rows, new : rows = OrderRowsAfter(db.orders) /\ new = taker.id
  OBVIOUS
<1>2. /\ handling # NoOrder /\ db'.orders = rows /\ order_map' = Entered(order_map, handling)
  BY <1>1, FinishFacts
<1>3. /\ DOMAIN db.orders \subseteq DOMAIN rows
      /\ Engine!Rests => new \in DOMAIN rows
      /\ \A id \in DOMAIN rows :
           \/ /\ Engine!Rests /\ id = new
              /\ rows[id] = [order |-> handling, status |-> "resting", resting_quantity |-> taker.remaining]
           \/ /\ id \in DOMAIN db.orders /\ (Engine!Rests => id # new)
              /\ rows[id].order = db.orders[id].order
  BY <1>1, <1>2, SavedRows
<1>4. \A id \in DOMAIN db.orders : db.orders[id].order # handling
  BY <1>2 DEF OnceInv, Remembered, TurnedDown
<1>5. \A id \in DOMAIN rows :
        \/ Engine!Rests /\ id = new /\ rows[id].order = handling
        \/ id \in DOMAIN db.orders /\ (Engine!Rests => id # new) /\ rows[id].order = db.orders[id].order
  BY <1>3
<1>6. RowsDistinct'
  <2>1. \A x, y \in DOMAIN rows : rows[x].order = rows[y].order => x = y
    BY <1>4, <1>5 DEF RowsNamed, RowsDistinct
  <2> QED BY <1>2, <2>1 DEF RowsDistinct
<1>7. MapRows'
  <2>1. \A id \in DOMAIN order_map' :
          \/ Engine!Rests /\ id = new /\ order_map'[id] = handling
          \/ id \in DOMAIN order_map /\ order_map'[id] = order_map[id] /\ (Engine!Rests => id # new)
    BY <1>1, <1>2 DEF Entered, With
  <2>2. \A id \in DOMAIN order_map' : id \in DOMAIN rows /\ rows[id].order = order_map'[id]
    BY <1>3, <1>5, <2>1 DEF RowsNamed, MapRows
  <2> QED BY <1>2, <2>2 DEF MapRows
<1> QED BY <1>6, <1>7 DEF RowsNamed

\* Every step keeps the rows named.
LEMMA NextNamed ==
  ASSUME IInv, OnceInv, RowsNamed, [Next]_vars
  PROVE  RowsNamed'
<1>1. CASE FinishOrder
  BY <1>1, NamedFinish
<1>2. CASE UNCHANGED <<order_map, db>>
  BY <1>2, NamedElsewhere
<1>3. CASE \E r \in Requests : SubmitOrder(r.order, r.type)
  BY <1>2, <1>3 DEF SubmitOrder
<1>4. CASE FillOrder
  BY <1>2, <1>4 DEF FillOrder
<1>5. CASE DropUnfilled
  BY <1>2, <1>5 DEF DropUnfilled
<1>6. CASE \E c \in Cancels : CancelOrder(c)
  <2>1. PICK c, id : CancelStep(c, id)
    BY <1>6, CancelStepFacts
  <2>2. \A x \in DOMAIN order_map' : x \in DOMAIN order_map /\ order_map'[x] = order_map[x]
    BY <2>1 DEF CancelStep, Without, Restrict
  <2>3. PICK rows : rows = db'.orders
    OBVIOUS
  <2>4. rows = [db.orders EXCEPT ![id].status = "cancelled"]
    BY <2>1, <2>3 DEF CancelStep
  <2>5. DOMAIN rows = DOMAIN db.orders /\ \A x \in DOMAIN db.orders : rows[x].order = db.orders[x].order
    BY <2>4, MarkedOnly
  <2> QED BY <2>2, <2>3, <2>5, NamedElsewhere
<1>7. CASE \E c \in Cancels : CancelOrderDbFails(c)
  BY <1>2, <1>7 DEF CancelOrderDbFails
<1>8. CASE Crash
  <2>1. UNCHANGED db /\ DOMAIN order_map' = {}
    BY <1>8 DEF Crash, EmptyMap
  <2> QED BY <2>1, NamedElsewhere
<1>9. CASE Load \/ PruneNonces
  <2>1. db'.orders = db.orders /\ UNCHANGED order_map
    BY <1>9 DEF Load, PruneNonces, app_vars, IInv, Stored
  <2> QED BY <2>1, NamedElsewhere
<1>10. CASE RestoreOrder
  <2>1. PICK id : RestoreStep(id)
    BY <1>10, RestoreFacts
  <2>2. \A x \in DOMAIN order_map' :
           \/ x \in DOMAIN order_map /\ order_map'[x] = order_map[x]
           \/ x \in DOMAIN db.orders /\ order_map'[x] = db.orders[x].order
    BY <2>1 DEF RestoreStep, With
  <2>3. UNCHANGED db
    BY <2>1 DEF RestoreStep
  <2> QED BY <2>2, <2>3, NamedElsewhere
<1>11. CASE SkipExpired
  <2>1. PICK id : SkipStep(id)
    BY <1>11, SkipFacts
  <2>2. PICK rows : rows = db'.orders
    OBVIOUS
  <2>3. UNCHANGED order_map /\ (rows = db.orders \/ rows = [db.orders EXCEPT ![id].status = "cancelled"])
    BY <2>1, <2>2 DEF SkipStep
  <2>4. DOMAIN rows = DOMAIN db.orders /\ \A x \in DOMAIN db.orders : rows[x].order = db.orders[x].order
    BY <2>3, MarkedOnly
  <2> QED BY <2>2, <2>3, <2>4, NamedElsewhere
<1>12. CASE Serve \/ Tick \/ UNCHANGED vars
  BY <1>2, <1>12 DEF Serve, Tick, app_vars, vars
<1> QED BY <1>1, <1>3, <1>4, <1>5, <1>6, <1>7, <1>8, <1>9, <1>10, <1>11, <1>12 DEF Next

-----------------------------------------------------------------------------
(* No order trades more than was signed.                                   *)

\* The rows that are still to be restored count what their orders traded. The
\* code does not write a row again after a partial fill, so this says that no
\* restart meets a row whose order was filled in part after it came to rest
\* (the run partial_fill_not_stored shows such a row).
RowsCurrent ==
  to_restore # NotLoaded =>
    \A id \in to_restore :
      db.orders[id].resting_quantity + TradedIn(db.orders[id].order, db.trades)
        = db.orders[id].order.quantity

\* What a signed order has not traded yet.
Left(order) == order.quantity - TradedIn(order, AllTrades)

\* What is open of an order is what it has left.
Accounted ==
  /\ \A order \in SignedOrders : TradedIn(order, AllTrades) <= order.quantity
  /\ \A o \in OrdersIn(book) : o.quantity = Left(order_map[o.id])
  /\ handling # NoOrder => taker.remaining = Left(handling)

\* The trades of the database and of the submission are trades.
LEMMA AllTradesTyped ==
  ASSUME IInv
  PROVE  /\ AllTrades \in Seq(StoredTrades) /\ db.trades \in Seq(StoredTrades)
         /\ \A order : TradedIn(order, AllTrades) \in Nat /\ TradedIn(order, db.trades) \in Nat
         /\ \A order \in SignedOrders : order.quantity \in Nat
<1>1. db.trades \in Seq(StoredTrades)
  BY DEF IInv, Stored
<1>2. AllTrades \in Seq(StoredTrades)
  BY <1>1, TradesTyped, ConcatProperties DEF AllTrades
<1>3. \A order \in SignedOrders : order.quantity \in Nat
  BY SignedTyped, OrderTyped
<1> QED BY <1>1, <1>2, <1>3, TradedIsSum

\* Orders on the book are signed orders, each its own; what is handled is not
\* one of them.
LEMMA BookOrders ==
  ASSUME IInv, OnceInv, RowsNamed
  PROVE  /\ \A o \in OrdersIn(book) :
              /\ o.id \in DOMAIN order_map /\ order_map[o.id] \in SignedOrders
              /\ order_map[o.id] # handling
              /\ o.quantity \in Nat \ {0}
         /\ \A m, o \in OrdersIn(book) : order_map[m.id] = order_map[o.id] => m = o
         /\ \A x, y \in DOMAIN order_map : order_map[x] = order_map[y] => x = y
         /\ \A id \in DOMAIN order_map : order_map[id] # handling
<1>1. \A x, y \in DOMAIN order_map : order_map[x] = order_map[y] => x = y
  BY DEF RowsNamed, MapRows, RowsDistinct
<1>2. \A id \in DOMAIN order_map : order_map[id] \in SignedOrders /\ order_map[id] # handling
  <2>1. \A id \in DOMAIN order_map : order_map[id] \in SignedOrders
    BY DEF IInv, MapsAgree
  <2>2. CASE handling # NoOrder
    BY <2>1, <2>2 DEF OnceInv, Remembered, TurnedDown
  <2>3. CASE handling = NoOrder
    BY <2>1, <2>3, SignedTyped
  <2> QED BY <2>1, <2>2, <2>3
<1>3. Consistent(book)
  BY DEF IInv, EngineReady
<1>4. \A o \in OrdersIn(book) : o.id \in DOMAIN order_map /\ o.quantity \in Nat \ {0}
  BY <1>3, RestingPlace DEF IInv, BookKnown, KnownAs, EngineOrders
<1>5. \A m, o \in OrdersIn(book) : order_map[m.id] = order_map[o.id] => m = o
  BY <1>1, <1>3, <1>4, IdNamesOrder
<1> QED BY <1>1, <1>2, <1>4, <1>5

\* Steps that trade nothing, put nothing on the book and take no order up.
LEMMA AccountedElsewhere ==
  ASSUME IInv, Accounted, AllTrades' = AllTrades,
         \A o \in OrdersIn(book') : o \in OrdersIn(book) /\ order_map'[o.id] = order_map[o.id],
         handling' = NoOrder \/ UNCHANGED <<handling, taker>>
  PROVE  Accounted'
  BY DEF Accounted, Left

\* Between submissions the trades are those of the database.
LEMMA TradesIdle ==
  ASSUME IInv, handling' = NoOrder, db'.trades = db.trades, handling = NoOrder \/ taker.fills = <<>>
  PROVE  AllTrades' = AllTrades /\ AllTrades = db.trades
<1>1. AllTrades' = db.trades
  BY DEF AllTrades
<1>2. CASE handling = NoOrder
  BY <1>1, <1>2 DEF AllTrades
<1>3. CASE handling # NoOrder
  <2>1. taker.fills = <<>> /\ DOMAIN <<>> = {}
    BY <1>3
  <2>2. PICK trades \in Seq(StoredTrades) : trades = Trades
    BY <1>3, TradesTyped
  <2>3. DOMAIN trades = {}
    BY <2>1, <2>2 DEF Trades
  <2>4. trades = <<>>
    <3>1. Len(trades) \in Nat /\ DOMAIN trades = 1..Len(trades)
      BY LenProperties
    <3>2. Len(trades) = 0
      <4>1. Len(trades) > 0 => 1 \in 1..Len(trades)
        BY <3>1
      <4> QED BY <2>3, <3>1, <4>1
    <3> QED BY <3>2, EmptySeq
  <2>5. db.trades \in Seq(StoredTrades)
    BY DEF IInv, Stored
  <2>6. db.trades \o <<>> = db.trades
    BY <2>5, ConcatEmptySeq
  <2> QED BY <1>1, <1>3, <2>2, <2>4, <2>6 DEF AllTrades
<1> QED BY <1>2, <1>3

\* What is submitted has not traded: it was not saved.
LEMMA AccountedSubmit ==
  ASSUME IInv, OnceInv, OnceInv', Accounted, NEW r \in Requests, SubmitOrder(r.order, r.type)
  PROVE  Accounted' /\ AllTrades' = AllTrades /\ AllTrades = db.trades
<1>1. /\ taker = Engine!NoTaker /\ handling' = r.order /\ r.order \in SignedOrders
      /\ taker'.fills = <<>> /\ taker'.remaining = r.order.quantity
      /\ UNCHANGED <<book, order_map, db>>
  BY EngineSubmit DEF SubmitOrder, SignedOrders
<1>2. handling = NoOrder /\ handling' # NoOrder
  BY <1>1, SignedTyped DEF IInv, TakerHandled
<1>3. AllTrades' = AllTrades /\ AllTrades = db.trades
  <2>1. Trades' = <<>>
    <3>1. DOMAIN <<>> = {}
      OBVIOUS
    <3>2. Trades' = [i \in {} |-> [maker_order |-> order_map[<<>>[i].maker_id], taker_order |-> handling',
                                   price |-> <<>>[i].price, quantity |-> <<>>[i].quantity]]
      BY <1>1, <3>1 DEF Trades
    <3>3. DOMAIN Trades' = {} /\ Trades' = [i \in {} |-> Trades'[i]]
      BY <3>2
    <3>4. Trades' \in Seq(StoredTrades)
      <4>1. Trades' \in [1..0 -> StoredTrades]
        BY <3>2
      <4> QED BY <4>1, SeqDef
    <3>5. PICK t \in Seq(StoredTrades) : t = Trades'
      BY <3>4
    <3>6. Len(t) = 0
      <4>1. Len(t) \in Nat /\ DOMAIN t = 1..Len(t)
        BY LenProperties
      <4>2. Len(t) > 0 => 1 \in 1..Len(t)
        BY <4>1
      <4> QED BY <3>3, <3>5, <4>1, <4>2
    <3> QED BY <3>5, <3>6, EmptySeq
  <2>2. db.trades \o <<>> = db.trades
    BY ConcatEmptySeq DEF IInv, Stored
  <2> QED BY <1>1, <1>2, <2>1, <2>2 DEF AllTrades
<1>4. TradedIn(r.order, db.trades) = 0
  <2>1. \A i \in DOMAIN db.trades : r.order \notin {db.trades[i].maker_order, db.trades[i].taker_order}
    BY <1>1, <1>2 DEF OnceInv, Remembered, TurnedDown
  <2> QED BY <2>1, AllTradesTyped, TradedNothing
<1>5. r.order.quantity \in Nat
  BY <1>1, AllTradesTyped
<1> QED BY <1>1, <1>3, <1>4, <1>5 DEF Accounted, Left

\* A fill counts for the maker and the taker, and is taken off what they have open.
LEMMA AccountedFill ==
  ASSUME IInv, OnceInv, RowsNamed, Accounted, NEW m, NEW qty, FillStep(m, qty)
  PROVE  Accounted'
<1>1. PICK trade, trades, mo, id :
        /\ trade \in StoredTrades /\ trades \in Seq(StoredTrades) /\ mo \in SignedOrders
        /\ trade = TradeOf(m, qty) /\ trades = AllTrades /\ id = m.id /\ mo = order_map[id]
        /\ AllTrades' = Append(trades, trade)
  <2>1. /\ TradeOf(m, qty) \in StoredTrades /\ AllTrades \in Seq(StoredTrades)
        /\ AllTrades' = Append(AllTrades, TradeOf(m, qty)) /\ order_map[m.id] \in SignedOrders
    BY FillTrades
  <2> QED BY <2>1
<1>2. /\ m \in OrdersIn(book) /\ handling # NoOrder /\ handling \in SignedOrders
      /\ qty \in Nat \ {0} /\ qty <= taker.remaining /\ qty <= m.quantity
      /\ UNCHANGED <<handling, order_map>> /\ taker'.remaining = taker.remaining - qty
      /\ \A o \in OrdersIn(book') : (o \in OrdersIn(book) /\ o.id # id) \/ o = MakerLeft(m, qty)
  BY <1>1, TakerFacts DEF FillStep
<1>3. mo # handling
  BY <1>1, <1>2, BookOrders
<1>4. \A order : /\ TradedIn(order, AllTrades') = TradedIn(order, trades) + Part(order, trade)
                 /\ TradedIn(order, trades) \in Nat
                 /\ Part(order, trade) = IF order = mo \/ order = handling THEN qty ELSE 0
  <2>1. \A order : TradedIn(order, AllTrades') = TradedIn(order, trades) + Part(order, trade)
    BY <1>1, TradedAppended
  <2>2. trade.maker_order = mo /\ trade.taker_order = handling /\ trade.quantity = qty
    BY <1>1 DEF TradeOf
  <2>3. \A order : Part(order, trade) = IF order = mo \/ order = handling THEN qty ELSE 0
    BY <2>2 DEF Part
  <2> QED BY <1>1, <2>1, <2>3, TradedIsSum
<1>5. /\ \A order \in SignedOrders : TradedIn(order, trades) <= order.quantity /\ order.quantity \in Nat
      /\ \A o \in OrdersIn(book) : o.quantity = order_map[o.id].quantity - TradedIn(order_map[o.id], trades)
      /\ taker.remaining = handling.quantity - TradedIn(handling, trades)
  BY <1>1, <1>2, AllTradesTyped DEF Accounted, Left
<1>6. ASSUME NEW order \in SignedOrders PROVE TradedIn(order, AllTrades') <= order.quantity
  <2>1. PICK a \in Nat, b \in Nat : a = TradedIn(order, trades) /\ b = order.quantity /\ a <= b
    BY <1>4, <1>5
  <2>2. CASE order = mo
    <3>1. m.quantity = b - a /\ TradedIn(order, AllTrades') = a + qty
      BY <1>1, <1>2, <1>4, <1>5, <2>1, <2>2
    <3> QED BY <1>2, <2>1, <3>1
  <2>3. CASE order = handling
    <3>1. taker.remaining = b - a /\ TradedIn(order, AllTrades') = a + qty
      BY <1>4, <1>5, <2>1, <2>3
    <3> QED BY <1>2, <2>1, <3>1
  <2>4. CASE order # mo /\ order # handling
    <3>1. TradedIn(order, AllTrades') = a + 0
      BY <1>4, <2>1, <2>4
    <3> QED BY <2>1, <3>1
  <2> QED BY <2>2, <2>3, <2>4
<1>7. ASSUME NEW o \in OrdersIn(book')
      PROVE  o.quantity = order_map[o.id].quantity - TradedIn(order_map[o.id], AllTrades')
  <2>1. CASE o \in OrdersIn(book) /\ o.id # id
    <3>1. o.id \in DOMAIN order_map /\ id \in DOMAIN order_map /\ order_map[o.id] # mo /\ order_map[o.id] # handling
      BY <1>1, <1>2, <2>1, BookOrders
    <3>2. PICK order \in SignedOrders : order = order_map[o.id]
      BY <2>1, BookOrders
    <3>3. TradedIn(order, AllTrades') = TradedIn(order, trades) + 0 /\ TradedIn(order, trades) \in Nat
      BY <1>4, <3>1, <3>2
    <3> QED BY <1>5, <2>1, <3>2, <3>3
  <2>2. CASE o = MakerLeft(m, qty)
    <3>1. o.id = id /\ o.quantity = m.quantity - qty
      BY <1>1, <2>2 DEF MakerLeft
    <3>2. PICK a \in Nat, b \in Nat : a = TradedIn(mo, trades) /\ b = mo.quantity /\ m.quantity = b - a
      BY <1>1, <1>2, <1>4, <1>5
    <3>3. TradedIn(mo, AllTrades') = a + qty
      BY <1>4, <3>2
    <3> QED BY <1>1, <1>2, <3>1, <3>2, <3>3
  <2> QED BY <1>2, <2>1, <2>2
<1>8. taker'.remaining = handling.quantity - TradedIn(handling, AllTrades')
  <2>1. PICK a \in Nat, b \in Nat : a = TradedIn(handling, trades) /\ b = handling.quantity
    BY <1>2, <1>4, <1>5
  <2>2. TradedIn(handling, AllTrades') = a + qty /\ taker'.remaining = b - a - qty
    BY <1>2, <1>4, <1>5, <2>1
  <2> QED BY <1>2, <2>1, <2>2
<1> QED BY <1>2, <1>6, <1>7, <1>8 DEF Accounted, Left

\* What rests of a submission is what its order has left.
LEMMA AccountedFinish ==
  ASSUME IInv, Accounted, FinishOrder
  PROVE  Accounted'
<1>1. /\ handling # NoOrder /\ handling' = NoOrder /\ AllTrades' = AllTrades
      /\ order_map' = Entered(order_map, handling)
      /\ \A o \in OrdersIn(book') :
           \/ o \in OrdersIn(book) /\ o.id # taker.id
           \/ /\ Engine!Rests
              /\ o = [id |-> taker.id, side |-> taker.side, price |-> taker.price,
                      quantity |-> taker.remaining]
  BY FinishFacts
<1>2. ASSUME NEW o \in OrdersIn(book')
      PROVE  o.quantity = order_map'[o.id].quantity - TradedIn(order_map'[o.id], AllTrades)
  <2>1. CASE o \in OrdersIn(book) /\ o.id # taker.id
    <3>1. o.id \in DOMAIN order_map
      BY <2>1 DEF IInv, BookKnown, KnownAs
    <3>2. order_map'[o.id] = order_map[o.id]
      BY <1>1, <2>1, <3>1 DEF Entered, With
    <3> QED BY <2>1, <3>2 DEF Accounted, Left
  <2>2. CASE /\ Engine!Rests
             /\ o = [id |-> taker.id, side |-> taker.side, price |-> taker.price,
                     quantity |-> taker.remaining]
    <3>1. order_map'[o.id] = handling /\ o.quantity = taker.remaining
      BY <1>1, <2>2 DEF Entered, With
    <3> QED BY <1>1, <3>1 DEF Accounted, Left
  <2> QED BY <1>1, <2>1, <2>2
<1> QED BY <1>1, <1>2 DEF Accounted, Left

\* Nothing is open after a crash, and less was traded than before it.
LEMMA AccountedCrash ==
  ASSUME IInv, Accounted, Crash
  PROVE  Accounted'
<1>1. handling' = NoOrder /\ db'.trades = db.trades /\ OrdersIn(book') = {}
  BY EngineOthers, EmptyHoldsNothing DEF Crash
<1>2. AllTrades' = db.trades
  BY <1>1 DEF AllTrades
<1>3. ASSUME NEW order \in SignedOrders PROVE TradedIn(order, db.trades) <= order.quantity
  <2>1. TradedIn(order, db.trades) <= TradedIn(order, AllTrades)
    <3>1. CASE handling = NoOrder
      BY <3>1, AllTradesTyped DEF AllTrades
    <3>2. CASE handling # NoOrder
      <4>1. AllTrades = db.trades \o Trades
        BY <3>2 DEF AllTrades
      <4> QED BY <3>2, <4>1, TradesTyped, AllTradesTyped, TradedBefore
    <3> QED BY <3>1, <3>2
  <2> QED BY <2>1, AllTradesTyped DEF Accounted
<1> QED BY <1>1, <1>2, <1>3 DEF Accounted, Left

\* A row that counts what was traded comes back with what is left.
LEMMA AccountedRestore ==
  ASSUME IInv, Accounted, RowsCurrent, RestoreOrder
  PROVE  Accounted'
<1>1. PICK id : RestoreStep(id)
  BY RestoreFacts
<1>2. /\ to_restore # NotLoaded /\ id \in to_restore /\ id \in DOMAIN db.orders
      /\ handling = NoOrder /\ UNCHANGED <<handling, db>>
      /\ order_map' = With(order_map, id, db.orders[id].order)
      /\ \A o \in OrdersIn(book') :
           \/ o \in OrdersIn(book) /\ o.id # id
           \/ o = [id |-> id, side |-> db.orders[id].order.side, price |-> db.orders[id].order.price,
                   quantity |-> db.orders[id].resting_quantity]
  BY <1>1 DEF RestoreStep
<1>3. AllTrades' = AllTrades /\ AllTrades = db.trades
  BY <1>2, TradesIdle
<1>4. ASSUME NEW o \in OrdersIn(book')
      PROVE  o.quantity = order_map'[o.id].quantity - TradedIn(order_map'[o.id], AllTrades)
  <2>1. CASE o \in OrdersIn(book) /\ o.id # id
    <3>1. o.id \in DOMAIN order_map
      BY <2>1 DEF IInv, BookKnown, KnownAs
    <3>2. order_map'[o.id] = order_map[o.id]
      BY <1>2, <2>1, <3>1 DEF With
    <3> QED BY <2>1, <3>2 DEF Accounted, Left
  <2>2. CASE o = [id |-> id, side |-> db.orders[id].order.side, price |-> db.orders[id].order.price,
                  quantity |-> db.orders[id].resting_quantity]
    <3>1. order_map'[o.id] = db.orders[id].order /\ o.quantity = db.orders[id].resting_quantity
      BY <1>2, <2>2 DEF With
    <3>2. db.orders[id].resting_quantity + TradedIn(db.orders[id].order, db.trades) = db.orders[id].order.quantity
      BY <1>2 DEF RowsCurrent
    <3>3. /\ db.orders[id].order \in SignedOrders
          /\ db.orders[id].resting_quantity \in 1..db.orders[id].order.quantity
      BY <1>2 DEF IInv, Stored, RowsSound, RowRecords
    <3>4. PICK a \in Nat, b \in Nat, c \in Int :
            a = TradedIn(db.orders[id].order, db.trades) /\ b = db.orders[id].order.quantity
              /\ c = db.orders[id].resting_quantity
      BY <3>3, AllTradesTyped
    <3>5. c = b - a
      BY <3>2, <3>4
    <3> QED BY <1>3, <3>1, <3>4, <3>5
  <2> QED BY <1>2, <2>1, <2>2
<1> QED BY <1>2, <1>3, <1>4 DEF Accounted, Left

\* Every step keeps the account.
LEMMA NextAccounted ==
  ASSUME IInv, OnceInv, OnceInv', RowsNamed, Accounted, RowsCurrent, [Next]_vars
  PROVE  Accounted'
<1>1. CASE \E r \in Requests : SubmitOrder(r.order, r.type)
  BY <1>1, AccountedSubmit
<1>2. CASE FillOrder
  BY <1>2, FillFacts, AccountedFill
<1>3. CASE FinishOrder
  BY <1>3, AccountedFinish
<1>4. CASE DropUnfilled
  <2>1. /\ handling # NoOrder /\ taker.type = "market" /\ taker.fills = <<>> /\ handling' = NoOrder
        /\ UNCHANGED <<order_map, db>> /\ Engine!Finish
    BY <1>4 DEF DropUnfilled
  <2>2. UNCHANGED book
    BY <2>1, EngineFinish DEF Engine!Rests
  <2>3. AllTrades' = AllTrades
    BY <2>1, TradesIdle
  <2> QED BY <2>1, <2>2, <2>3, AccountedElsewhere
<1>5. CASE \E c \in Cancels : CancelOrder(c)
  <2>1. PICK c, id : CancelStep(c, id)
    BY <1>5, CancelStepFacts
  <2>2. \A o \in OrdersIn(book') : o \in OrdersIn(book) /\ order_map'[o.id] = order_map[o.id]
    <3>1. \A o \in OrdersIn(book') : o \in OrdersIn(book) /\ o.id # id
      BY <2>1 DEF CancelStep
    <3>2. \A o \in OrdersIn(book) : o.id \in DOMAIN order_map
      BY DEF IInv, BookKnown, KnownAs
    <3> QED BY <2>1, <3>1, <3>2 DEF CancelStep, Without, Restrict
  <2>3. AllTrades' = AllTrades /\ handling' = NoOrder
    BY <2>1, TradesIdle DEF CancelStep
  <2> QED BY <2>2, <2>3, AccountedElsewhere
<1>6. CASE \E c \in Cancels : CancelOrderDbFails(c)
  <2>1. PICK id \in DOMAIN order_nonce_map : Engine!Cancel(id) /\ ledger' = LedgerAfterCancel(order_nonce_map[id])
    BY <1>6 DEF CancelOrderDbFails
  <2>2. UNCHANGED <<order_map, db, handling, to_restore>>
    BY <1>6 DEF CancelOrderDbFails
  <2>3. handling = NoOrder /\ \A o \in OrdersIn(book') : o \in OrdersIn(book)
    BY <2>1, <2>2, CancelFacts
  <2>4. AllTrades' = AllTrades
    BY <2>2, <2>3, TradesIdle
  <2> QED BY <2>2, <2>3, <2>4, AccountedElsewhere
<1>7. CASE Crash
  BY <1>7, AccountedCrash
<1>8. CASE RestoreOrder
  BY <1>8, AccountedRestore
<1>9. CASE Load
  <2>1. Engine!SetNextId(LastRow + 1) /\ ~serving /\ db'.trades = db.trades /\ UNCHANGED <<order_map, handling>>
    BY <1>9 DEF Load, IInv, Stored
  <2>2. handling = NoOrder /\ UNCHANGED book
    BY <2>1, EngineOthers DEF IInv, TakerHandled
  <2>3. AllTrades' = AllTrades
    BY <2>1, <2>2, TradesIdle
  <2> QED BY <2>1, <2>2, <2>3, AccountedElsewhere
<1>10. CASE SkipExpired
  <2>1. PICK id : SkipStep(id)
    BY <1>10, SkipFacts
  <2>2. /\ UNCHANGED <<book, order_map, handling>> /\ handling = NoOrder /\ db'.trades = db.trades
    BY <2>1 DEF SkipStep
  <2>3. AllTrades' = AllTrades
    BY <2>2, TradesIdle
  <2> QED BY <2>2, <2>3, AccountedElsewhere
<1>11. CASE Serve \/ PruneNonces \/ Tick \/ UNCHANGED vars
  <2>1. UNCHANGED <<book, taker, order_map, handling>> /\ db'.trades = db.trades
    <3>1. CASE Serve
      BY <3>1, EngineOthers DEF Serve, app_vars
    <3>2. CASE PruneNonces
      BY <3>2 DEF PruneNonces, engine_vars, app_vars, IInv, Stored
    <3>3. CASE Tick \/ UNCHANGED vars
      BY <3>3 DEF Tick, vars, engine_vars, app_vars
    <3> QED BY <1>11, <3>1, <3>2, <3>3
  <2>2. AllTrades' = AllTrades
    BY <2>1 DEF AllTrades, Trades
  <2> QED BY <2>1, <2>2, AccountedElsewhere
<1> QED BY <1>1, <1>2, <1>3, <1>4, <1>5, <1>6, <1>7, <1>8, <1>9, <1>10, <1>11 DEF Next

\* What an order has open: as the taker, or as the one order on the book.
LEMMA OpenIs ==
  ASSUME IInv, OnceInv, RowsNamed, NEW order \in SignedOrders
  PROVE  \/ handling = order /\ Open(order) = taker.remaining
         \/ handling # order /\ Open(order) = 0
         \/ handling # order /\ \E o \in OrdersIn(book) : order_map[o.id] = order /\ Open(order) = o.quantity
<1>1. PICK here : here = {x \in OrdersIn(book) : order_map[x.id] = order}
  OBVIOUS
<1>2. PICK f : f = [o \in here |-> o.quantity]
  OBVIOUS
<1>3. Open(order) = SumFunctionOnSet(f, here) + IF handling = order THEN taker.remaining ELSE 0
  <2>1. DOMAIN f = here
    BY <1>2
  <2>2. SumFunction(f) = SumFunctionOnSet(f, here)
    BY <2>1 DEF SumFunction
  <2> QED BY <1>1, <1>2, <2>2 DEF Open
<1>4. CASE here = {}
  <2>1. SumFunctionOnSet(f, here) = 0
    BY <1>4, SumOfNothing
  <2>2. CASE handling = order
    <3>1. taker.remaining \in Nat
      BY <2>2, TakerFacts, SignedTyped
    <3> QED BY <1>3, <2>1, <2>2, <3>1
  <2>3. CASE handling # order
    BY <1>3, <2>1, <2>3
  <2> QED BY <2>2, <2>3
<1>5. CASE here # {}
  <2>1. PICK o : o \in here
    BY <1>5
  <2>2. o \in OrdersIn(book) /\ order_map[o.id] = order /\ o.quantity \in Nat /\ handling # order
    BY <1>1, <2>1, BookOrders
  <2>3. here = {o}
    BY <1>1, <2>1, BookOrders
  <2>4. f[o] = o.quantity
    BY <1>2, <2>1
  <2>5. SumFunctionOnSet(f, here) = f[o] + SumFunctionOnSet(f, {})
    <3>1. IsFiniteSet(here)
      BY <2>3, FS_Singleton
    <3>2. \A x \in here : f[x] \in Int
      BY <2>2, <2>3, <2>4
    <3>3. {} = here \ {o}
      BY <2>3
    <3> QED BY <2>1, <3>1, <3>2, <3>3, SumSplits
  <2>6. Open(order) = o.quantity
    BY <1>3, <2>2, <2>4, <2>5, SumOfNothing
  <2> QED BY <2>2, <2>6
<1> QED BY <1>4, <1>5

\* The account says that no order trades more than was signed.
LEMMA AccountedSuffices ==
  ASSUME IInv, OnceInv, RowsNamed, Accounted
  PROVE  NoOverfill
<1> SUFFICES ASSUME NEW order \in SignedOrders
             PROVE  TradedIn(order, AllTrades) + Open(order) <= order.quantity
  BY DEF NoOverfill
<1>1. PICK a \in Nat, b \in Nat : a = TradedIn(order, AllTrades) /\ b = order.quantity /\ a <= b
  BY AllTradesTyped DEF Accounted
<1>2. CASE handling = order /\ Open(order) = taker.remaining
  <2>1. handling # NoOrder
    BY <1>2, SignedTyped
  <2>2. Open(order) = b - a
    BY <1>1, <1>2, <2>1 DEF Accounted, Left
  <2> QED BY <1>1, <2>2
<1>3. CASE Open(order) = 0
  BY <1>1, <1>3
<1>4. CASE \E o \in OrdersIn(book) : order_map[o.id] = order /\ Open(order) = o.quantity
  <2>1. Open(order) = b - a
    BY <1>1, <1>4 DEF Accounted, Left
  <2> QED BY <1>1, <2>1
<1> QED BY <1>2, <1>3, <1>4, OpenIs

\* At first there are no orders.
LEMMA InitAccounted == Init => OnceInv /\ RowsNamed /\ Accounted
<1> SUFFICES ASSUME Init PROVE OnceInv /\ RowsNamed /\ Accounted
  OBVIOUS
<1>1. DOMAIN EmptyMap = {} /\ DOMAIN <<>> = {}
  BY DEF EmptyMap
<1>2. OnceInv /\ RowsNamed
  BY <1>1 DEF Init, OnceInv, Remembered, TurnedDown, RowsNamed, MapRows, RowsDistinct
<1>3. IInv /\ handling = NoOrder /\ db.trades = <<>> /\ OrdersIn(book) = {}
  <2>1. Engine!Init /\ handling = NoOrder /\ db.trades = <<>>
    BY DEF Init
  <2>2. book = EmptyBook
    BY <2>1, EngineBook DEF Engine!Init
  <2> QED BY <2>1, <2>2, InitIInv, EmptyHoldsNothing
<1>4. AllTrades = <<>>
  BY <1>3 DEF AllTrades
<1>5. \A order \in SignedOrders : TradedIn(order, AllTrades) = 0 /\ order.quantity \in Nat
  <2>1. \A order : TradedIn(order, <<>>) = 0
    BY <1>1, EmptySeq, TradedNothing
  <2> QED BY <1>3, <1>4, <2>1, AllTradesTyped
<1> QED BY <1>2, <1>3, <1>5 DEF Accounted

\* As long as nonces outlive their orders, and every row recovery reads counts
\* what its order has traded, no order ever trades more than its maker signed, in
\* however many fills, on whichever side of them, across restarts and failing
\* cancels. The code guarantees neither: the run replay_after_restart accepts an
\* order a second time, and in partial_fill_not_stored a row forgets a fill.
THEOREM NeverOverfilled == Spec /\ []NonceOutlivesOrder /\ []RowsCurrent => []NoOverfill
<1>1. Init => OnceInv /\ RowsNamed /\ Accounted
  BY InitAccounted
<1>2. IInv /\ IInv' /\ OnceInv /\ RowsNamed /\ Accounted /\ NonceOutlivesOrder /\ RowsCurrent /\ [Next]_vars
        => OnceInv' /\ RowsNamed' /\ Accounted'
  BY NextOnce, NextNamed, NextAccounted
<1>3. IInv /\ OnceInv /\ RowsNamed /\ Accounted => NoOverfill
  BY AccountedSuffices
<1> QED BY <1>1, <1>2, <1>3, GatewayInvariant, PTL DEF Spec

-----------------------------------------------------------------------------
(* Between two handlers the database holds all there is to lose.           *)

\* No maker is filled in part: the code does not write the row of such a maker
\* again (the run partial_fill_not_stored shows that the row is then wrong).
MakersFilledWhole ==
  handling # NoOrder => \A i \in DOMAIN taker.fills : taker.fills[i].maker_id \notin DOMAIN book.locations

\* An order on the book rests in its row.
BookRows == \A o \in OrdersIn(book) : o.id \in RestingRows

\* And with the quantity of its row.
RowsHeld == \A o \in OrdersIn(book) : db.orders[o.id].resting_quantity = o.quantity

\* Which steps move the book or the rows.
LEMMA StepsOfBook ==
  ASSUME IInv, [Next]_vars
  PROVE  \/ (\A o \in OrdersIn(book') : o \in OrdersIn(book)) /\ db'.orders = db.orders
         \/ \E m, qty : FillStep(m, qty)
         \/ FinishOrder
         \/ \E c, id : CancelStep(c, id)
         \/ \E id : RestoreStep(id)
         \/ \E id : SkipStep(id)
<1>1. CASE \E r \in Requests : SubmitOrder(r.order, r.type)
  <2>1. UNCHANGED <<book, db>>
    BY <1>1, EngineSubmit DEF SubmitOrder
  <2> QED BY <2>1
<1>2. CASE FillOrder
  BY <1>2, FillFacts
<1>3. CASE DropUnfilled
  <2>1. taker.type = "market" /\ UNCHANGED db /\ Engine!Finish
    BY <1>3 DEF DropUnfilled
  <2>2. UNCHANGED book
    BY <2>1, EngineFinish DEF Engine!Rests
  <2> QED BY <2>1, <2>2
<1>4. CASE \E c \in Cancels : CancelOrder(c)
  BY <1>4, CancelStepFacts
<1>5. CASE \E c \in Cancels : CancelOrderDbFails(c)
  <2>1. PICK id \in DOMAIN order_nonce_map : Engine!Cancel(id) /\ ledger' = LedgerAfterCancel(order_nonce_map[id])
    BY <1>5 DEF CancelOrderDbFails
  <2>2. UNCHANGED <<db, handling, to_restore>>
    BY <1>5 DEF CancelOrderDbFails
  <2> QED BY <2>1, <2>2, CancelFacts
<1>6. CASE Crash
  <2>1. UNCHANGED db /\ OrdersIn(book') = {}
    BY <1>6, EngineOthers, EmptyHoldsNothing DEF Crash
  <2> QED BY <2>1
<1>7. CASE Load
  <2>1. UNCHANGED book /\ db'.orders = db.orders
    BY <1>7, EngineOthers DEF Load, IInv, Stored
  <2> QED BY <2>1
<1>8. CASE RestoreOrder
  BY <1>8, RestoreFacts
<1>9. CASE SkipExpired
  BY <1>9, SkipFacts
<1>10. CASE Serve \/ PruneNonces \/ Tick \/ UNCHANGED vars
  <2>1. UNCHANGED book /\ db'.orders = db.orders
    <3>1. CASE Serve
      BY <3>1, EngineOthers DEF Serve
    <3>2. CASE PruneNonces
      BY <3>2 DEF PruneNonces, engine_vars, IInv, Stored
    <3>3. CASE Tick \/ UNCHANGED vars
      BY <3>3 DEF Tick, vars, engine_vars
    <3> QED BY <1>10, <3>1, <3>2, <3>3
  <2> QED BY <2>1
<1> QED BY <1>1, <1>2, <1>3, <1>4, <1>5, <1>6, <1>7, <1>8, <1>9, <1>10 DEF Next

\* A filled maker is off the book, a cancelled order too; what is restored
\* rests in its row, and what comes to rest is given one.
LEMMA NextBookRows ==
  ASSUME IInv, IInv', RestoreSound, BookRows, [Next]_vars
  PROVE  BookRows'
<1>0. \A o \in OrdersIn(book) : o.id \in DOMAIN db.orders /\ db.orders[o.id].status = "resting"
  BY DEF BookRows, RestingRows
<1>00. \A o \in OrdersIn(book') : o.id \in DOMAIN book'.locations
  <2>1. Consistent(book')
    BY DEF IInv, EngineReady
  <2> QED BY <2>1, RestingPlace DEF IndexedAt
<1>000. \A o \in OrdersIn(book) : o.id \in DOMAIN book.locations
  <2>1. Consistent(book)
    BY DEF IInv, EngineReady
  <2> QED BY <2>1, RestingPlace DEF IndexedAt
<1>1. CASE (\A o \in OrdersIn(book') : o \in OrdersIn(book)) /\ db'.orders = db.orders
  BY <1>1 DEF BookRows, RestingRows
<1>2. ASSUME NEW m, NEW qty, FillStep(m, qty) PROVE BookRows'
  <2>1. /\ \A o \in OrdersIn(book') : o \in OrdersIn(book) \/ o = MakerLeft(m, qty)
        /\ m \in OrdersIn(book) /\ UNCHANGED db
    BY <1>2 DEF FillStep
  <2>2. \A o \in OrdersIn(book') : \E n \in OrdersIn(book) : o.id = n.id
    BY <2>1 DEF MakerLeft
  <2> QED BY <2>1, <2>2 DEF BookRows, RestingRows
<1>3. CASE FinishOrder
  <2>1. PICK rows, new : rows = OrderRowsAfter(db.orders) /\ new = taker.id
    OBVIOUS
  <2>2. /\ handling # NoOrder /\ db'.orders = rows
        /\ \A o \in OrdersIn(book') :
             \/ o \in OrdersIn(book) /\ o.id # new
             \/ Engine!Rests /\ o.id = new
    BY <1>3, <2>1, FinishFacts
  <2>3. /\ DOMAIN db.orders \subseteq DOMAIN rows
        /\ Engine!Rests => new \in DOMAIN rows
        /\ \A id \in DOMAIN rows :
             \/ Engine!Rests /\ id = new /\ rows[id].status = "resting"
             \/ /\ id \in DOMAIN db.orders /\ (Engine!Rests => id # new)
                /\ rows[id].status = IF id \in FilledMakers THEN "filled" ELSE db.orders[id].status
    BY <2>1, <2>2, SavedRows
  <2>4. \A id \in DOMAIN book'.locations : id \notin FilledMakers
    BY DEF FilledMakers
  <2>5. ASSUME NEW o \in OrdersIn(book') PROVE o.id \in DOMAIN rows /\ rows[o.id].status = "resting"
    BY <1>0, <1>00, <2>2, <2>3, <2>4
  <2> QED BY <2>2, <2>5 DEF BookRows, RestingRows
<1>4. ASSUME NEW c, NEW id, CancelStep(c, id) PROVE BookRows'
  <2>1. /\ db'.orders = [db.orders EXCEPT ![id].status = "cancelled"] /\ UNCHANGED now
        /\ \A o \in OrdersIn(book') : o \in OrdersIn(book) /\ o.id # id
    BY <1>4 DEF CancelStep
  <2>2. RestingRows' = RestingRows \ {id}
    BY <2>1, RowCancelled
  <2> QED BY <2>1, <2>2 DEF BookRows
<1>5. ASSUME NEW id, RestoreStep(id) PROVE BookRows'
  <2>1. /\ to_restore # NotLoaded /\ id \in to_restore /\ UNCHANGED db
        /\ \A o \in OrdersIn(book') : o \in OrdersIn(book) \/ o.id = id
    BY <1>5 DEF RestoreStep
  <2>2. id \in RestingRows
    BY <2>1 DEF RestoreSound
  <2> QED BY <2>1, <2>2 DEF BookRows, RestingRows
<1>6. ASSUME NEW id, SkipStep(id) PROVE BookRows'
  <2>1. /\ UNCHANGED <<book, now>> /\ id \notin DOMAIN book.locations
        /\ db'.orders = db.orders \/ db'.orders = [db.orders EXCEPT ![id].status = "cancelled"]
    BY <1>6 DEF SkipStep
  <2>2. RestingRows' = RestingRows \/ RestingRows' = RestingRows \ {id}
    BY <2>1, RowCancelled DEF RestingRows
  <2> QED BY <1>000, <2>1, <2>2 DEF BookRows
<1> QED BY <1>1, <1>2, <1>3, <1>4, <1>5, <1>6, StepsOfBook

\* A fill of a whole maker takes it off the book, and puts nothing there.
LEMMA WholeFill ==
  ASSUME IInv, IInv', MakersFilledWhole', NEW m, NEW qty, FillStep(m, qty)
  PROVE  \A o \in OrdersIn(book') : o \in OrdersIn(book)
<1>1. /\ \A o \in OrdersIn(book') : o \in OrdersIn(book) \/ o = MakerLeft(m, qty)
      /\ UNCHANGED <<db, handling>> /\ handling # NoOrder
      /\ taker'.fills = Append(taker.fills, FillOf(m, qty))
  BY DEF FillStep
<1>2. PICK n \in Nat : n + 1 \in DOMAIN taker'.fills /\ taker'.fills[n + 1] = FillOf(m, qty)
  <2>1. PICK fills, fill :
          fills \in Seq(Engine!Fills) /\ fills = taker.fills /\ fill = FillOf(m, qty)
    BY <1>1, TakerFacts
  <2>2. /\ Len(fills) \in Nat /\ Len(fills) + 1 \in DOMAIN Append(fills, fill)
        /\ Append(fills, fill)[Len(fills) + 1] = fill
    BY <2>1, AppendAny, LenProperties
  <2> QED BY <1>1, <2>1, <2>2
<1>3. m.id \notin DOMAIN book'.locations
  BY <1>1, <1>2 DEF MakersFilledWhole, FillOf
<1>4. \A o \in OrdersIn(book') : o.id \in DOMAIN book'.locations
  <2>1. Consistent(book')
    BY DEF IInv, EngineReady
  <2> QED BY <2>1, RestingPlace DEF IndexedAt
<1> QED BY <1>1, <1>3, <1>4 DEF MakerLeft

\* Rows keep their quantities, and a maker that is filled leaves the book.
LEMMA NextRowsHeld ==
  ASSUME IInv, IInv', BookRows, RowsHeld, MakersFilledWhole', [Next]_vars
  PROVE  RowsHeld'
<1>0. \A o \in OrdersIn(book) : o.id \in DOMAIN db.orders
  BY DEF BookRows, RestingRows
<1>1. CASE (\A o \in OrdersIn(book') : o \in OrdersIn(book)) /\ db'.orders = db.orders
  BY <1>1 DEF RowsHeld
<1>2. ASSUME NEW m, NEW qty, FillStep(m, qty) PROVE RowsHeld'
  <2>1. UNCHANGED db /\ \A o \in OrdersIn(book') : o \in OrdersIn(book)
    BY <1>2, WholeFill DEF FillStep
  <2> QED BY <2>1 DEF RowsHeld
<1>3. CASE FinishOrder
  <2>1. PICK rows, new : rows = OrderRowsAfter(db.orders) /\ new = taker.id
    OBVIOUS
  <2>2. /\ handling # NoOrder /\ db'.orders = rows
        /\ \A o \in OrdersIn(book') :
             \/ o \in OrdersIn(book) /\ o.id # new
             \/ Engine!Rests /\ o.id = new /\ o.quantity = taker.remaining
    BY <1>3, <2>1, FinishFacts
  <2>3. /\ DOMAIN db.orders \subseteq DOMAIN rows
        /\ Engine!Rests => new \in DOMAIN rows
        /\ \A id \in DOMAIN rows :
             \/ Engine!Rests /\ id = new /\ rows[id].resting_quantity = taker.remaining
             \/ /\ id \in DOMAIN db.orders /\ (Engine!Rests => id # new)
                /\ rows[id].resting_quantity = db.orders[id].resting_quantity
    BY <2>1, <2>2, SavedRows
  <2>4. ASSUME NEW o \in OrdersIn(book') PROVE rows[o.id].resting_quantity = o.quantity
    BY <1>0, <2>2, <2>3 DEF RowsHeld
  <2> QED BY <2>2, <2>4 DEF RowsHeld
<1>4. ASSUME NEW c, NEW id, CancelStep(c, id) PROVE RowsHeld'
  <2>1. PICK rows : rows = db'.orders
    OBVIOUS
  <2>2. /\ rows = [db.orders EXCEPT ![id].status = "cancelled"]
        /\ \A o \in OrdersIn(book') : o \in OrdersIn(book)
    BY <1>4, <2>1 DEF CancelStep
  <2>3. \A x \in DOMAIN db.orders : rows[x].resting_quantity = db.orders[x].resting_quantity
    BY <2>2, MarkedOnly
  <2> QED BY <1>0, <2>1, <2>2, <2>3 DEF RowsHeld
<1>5. ASSUME NEW id, RestoreStep(id) PROVE RowsHeld'
  <2>1. /\ UNCHANGED db
        /\ \A o \in OrdersIn(book') :
             o \in OrdersIn(book) \/ (o.id = id /\ o.quantity = db.orders[id].resting_quantity)
    BY <1>5 DEF RestoreStep
  <2> QED BY <2>1 DEF RowsHeld
<1>6. ASSUME NEW id, SkipStep(id) PROVE RowsHeld'
  <2>1. PICK rows : rows = db'.orders
    OBVIOUS
  <2>2. UNCHANGED book /\ (rows = db.orders \/ rows = [db.orders EXCEPT ![id].status = "cancelled"])
    BY <1>6, <2>1 DEF SkipStep
  <2>3. \A x \in DOMAIN db.orders : rows[x].resting_quantity = db.orders[x].resting_quantity
    BY <2>2, MarkedOnly
  <2> QED BY <1>0, <2>1, <2>2, <2>3 DEF RowsHeld
<1> QED BY <1>1, <1>2, <1>3, <1>4, <1>5, <1>6, StepsOfBook

-----------------------------------------------------------------------------
(* What the operations of the ledger do, balance by balance.               *)

\* What a ledger has for a user and a token.
LEMMA LedgersAt ==
  ASSUME NEW l \in Ledgers, NEW u \in Users, NEW t \in Tokens
  PROVE  /\ l[u][t] = [available |-> l[u][t].available, reserved |-> l[u][t].reserved]
         /\ l[u][t].available \in Amounts /\ l[u][t].reserved \in Amounts
<1>1. l[u][t] \in [available : Amounts, reserved : Amounts]
  BY DEF Ledgers, Balances
<1> QED BY <1>1

\* One balance is replaced.
LEMMA ReplacedAt ==
  ASSUME NEW l \in Ledgers, NEW u \in Users, NEW t \in Tokens, NEW b
  PROVE  \A v \in Users, s \in Tokens :
           [l EXCEPT ![u][t] = b][v][s] = IF v = u /\ s = t THEN b ELSE l[v][s]
BY DEF Ledgers

\* One part of a balance is replaced.
LEMMA PartReplaced ==
  ASSUME NEW y, NEW z, NEW x
  PROVE  /\ [[available |-> y, reserved |-> z] EXCEPT !.available = x] = [available |-> x, reserved |-> z]
         /\ [[available |-> y, reserved |-> z] EXCEPT !.reserved = x] = [available |-> y, reserved |-> x]
OBVIOUS

\* A credit.
LEMMA CreditAt ==
  ASSUME NEW l \in Ledgers, NEW u \in Users, NEW t \in Tokens, NEW a \in Amounts
  PROVE  /\ Credit(l, u, t, a) \in Ledgers
         /\ \A v \in Users, s \in Tokens :
              /\ Credit(l, u, t, a)[v][s].available = IF v = u /\ s = t THEN Add(l[u][t].available, a)
                                                     ELSE l[v][s].available
              /\ Credit(l, u, t, a)[v][s].reserved = l[v][s].reserved
<1>1. PICK x, r : x = Add(l[u][t].available, a) /\ r = l[u][t].reserved
  OBVIOUS
<1>2. PICK b : b = [available |-> x, reserved |-> r]
  OBVIOUS
<1>3. [l[u][t] EXCEPT !.available = x] = b
  <2>1. PICK y : l[u][t] = [available |-> y, reserved |-> r]
    BY <1>1, LedgersAt
  <2> QED BY <1>2, <2>1, PartReplaced
<1>4. Credit(l, u, t, a) = [l EXCEPT ![u][t] = b]
  BY <1>1, <1>3 DEF Credit
<1>5. \A v \in Users, s \in Tokens : Credit(l, u, t, a)[v][s] = IF v = u /\ s = t THEN b ELSE l[v][s]
  BY <1>4, ReplacedAt
<1> QED BY <1>1, <1>2, <1>5, LedgerKept

\* What is spent.
LEMMA SpendAt ==
  ASSUME NEW l \in Ledgers, NEW u \in Users, NEW t \in Tokens, NEW a \in Amounts
  PROVE  /\ Spend(l, u, t, a) \in Ledgers
         /\ \A v \in Users, s \in Tokens :
              /\ Spend(l, u, t, a)[v][s].available = l[v][s].available
              /\ Spend(l, u, t, a)[v][s].reserved = IF v = u /\ s = t THEN Sub(l[u][t].reserved, a)
                                                   ELSE l[v][s].reserved
<1>1. PICK x, r : x = l[u][t].available /\ r = Sub(l[u][t].reserved, a)
  OBVIOUS
<1>2. PICK b : b = [available |-> x, reserved |-> r]
  OBVIOUS
<1>3. [l[u][t] EXCEPT !.reserved = r] = b
  <2>1. PICK z : l[u][t] = [available |-> x, reserved |-> z]
    BY <1>1, LedgersAt
  <2> QED BY <1>2, <2>1, PartReplaced
<1>4. Spend(l, u, t, a) = [l EXCEPT ![u][t] = b]
  BY <1>1, <1>3 DEF Spend
<1>5. \A v \in Users, s \in Tokens : Spend(l, u, t, a)[v][s] = IF v = u /\ s = t THEN b ELSE l[v][s]
  BY <1>4, ReplacedAt
<1> QED BY <1>1, <1>2, <1>5, LedgerKept

\* What is reserved.
LEMMA ReserveAt ==
  ASSUME NEW l \in Ledgers, NEW u \in Users, NEW t \in Tokens, NEW a \in Amounts
  PROVE  /\ Reserve(l, u, t, a) \in Ledgers
         /\ \A v \in Users, s \in Tokens :
              /\ Reserve(l, u, t, a)[v][s].available = IF v = u /\ s = t THEN Sub(l[u][t].available, a)
                                                      ELSE l[v][s].available
              /\ Reserve(l, u, t, a)[v][s].reserved = IF v = u /\ s = t THEN Add(l[u][t].reserved, a)
                                                     ELSE l[v][s].reserved
<1>1. PICK x, r : x = Sub(l[u][t].available, a) /\ r = Add(l[u][t].reserved, a)
  OBVIOUS
<1>2. PICK half : half = [l EXCEPT ![u][t].available = x]
  OBVIOUS
<1>3. /\ half \in Ledgers /\ x \in Amounts
      /\ \A v \in Users, s \in Tokens :
           half[v][s] = IF v = u /\ s = t THEN [available |-> x, reserved |-> l[u][t].reserved] ELSE l[v][s]
  <2>1. Amounts \subseteq Int
    BY WordAssumption DEF Amounts
  <2>2. x \in Amounts
    <3>1. l[u][t].available \in Int
      BY <2>1, LedgersAt
    <3> QED BY <1>1, <2>1, <3>1, AmountsTyped
  <2>3. half \in Ledgers
    BY <1>2, <2>2, BalanceChanges
  <2>4. [l[u][t] EXCEPT !.available = x] = [available |-> x, reserved |-> l[u][t].reserved]
    <3>1. PICK y, z : y = l[u][t].available /\ z = l[u][t].reserved
      OBVIOUS
    <3>2. l[u][t] = [available |-> y, reserved |-> z]
      BY <3>1, LedgersAt
    <3> QED BY <3>1, <3>2, PartReplaced
  <2>5. half = [l EXCEPT ![u][t] = [available |-> x, reserved |-> l[u][t].reserved]]
    BY <1>2, <2>4
  <2>6. \A v \in Users, s \in Tokens :
           half[v][s] = IF v = u /\ s = t THEN [available |-> x, reserved |-> l[u][t].reserved] ELSE l[v][s]
    BY <2>5, ReplacedAt
  <2> QED BY <2>2, <2>3, <2>6
<1>4. half[u][t].reserved = l[u][t].reserved
  BY <1>3
<1>5. [half[u][t] EXCEPT !.reserved = r] = [available |-> x, reserved |-> r]
  BY <1>3
<1>6. Reserve(l, u, t, a) = [half EXCEPT ![u][t].reserved = r]
  BY <1>1, <1>2, <1>4 DEF Reserve
<1>7. Reserve(l, u, t, a) = [half EXCEPT ![u][t] = [available |-> x, reserved |-> r]]
  BY <1>5, <1>6
<1>8. \A v \in Users, s \in Tokens :
        Reserve(l, u, t, a)[v][s] = IF v = u /\ s = t THEN [available |-> x, reserved |-> r] ELSE half[v][s]
  <2>1. half \in Ledgers
    BY <1>3
  <2> QED BY <1>7, <2>1, ReplacedAt
<1> QED BY <1>1, <1>3, <1>8, LedgerKept

\* What is released.
LEMMA ReleaseAt ==
  ASSUME NEW l \in Ledgers, NEW u \in Users, NEW t \in Tokens, NEW a \in Amounts
  PROVE  /\ Release(l, u, t, a) \in Ledgers
         /\ \A v \in Users, s \in Tokens :
              /\ Release(l, u, t, a)[v][s].available = IF v = u /\ s = t THEN Add(l[u][t].available, a)
                                                      ELSE l[v][s].available
              /\ Release(l, u, t, a)[v][s].reserved = IF v = u /\ s = t THEN Sub(l[u][t].reserved, a)
                                                     ELSE l[v][s].reserved
<1>1. PICK m \in Ledgers : m = Spend(l, u, t, a)
  BY LedgerKept
<1>2. Release(l, u, t, a) = Credit(m, u, t, a)
  BY <1>1 DEF Release
<1>3. \A v \in Users, s \in Tokens :
        /\ m[v][s].available = l[v][s].available
        /\ m[v][s].reserved = IF v = u /\ s = t THEN Sub(l[u][t].reserved, a) ELSE l[v][s].reserved
  BY <1>1, SpendAt
<1>4. /\ Credit(m, u, t, a) \in Ledgers
      /\ \A v \in Users, s \in Tokens :
        /\ Credit(m, u, t, a)[v][s].available = IF v = u /\ s = t THEN Add(m[u][t].available, a)
                                               ELSE m[v][s].available
        /\ Credit(m, u, t, a)[v][s].reserved = m[v][s].reserved
  BY CreditAt
<1> QED BY <1>2, <1>3, <1>4

\* Ledgers with the same balances are the same.
LEMMA SameLedger ==
  ASSUME NEW l \in Ledgers, NEW m \in Ledgers,
         \A v \in Users, s \in Tokens :
           m[v][s].available = l[v][s].available /\ m[v][s].reserved = l[v][s].reserved
  PROVE  m = l
<1>1. \A v \in Users, s \in Tokens : m[v][s] = l[v][s]
  <2> SUFFICES ASSUME NEW v \in Users, NEW s \in Tokens PROVE m[v][s] = l[v][s]
    OBVIOUS
  <2>1. /\ m[v][s] = [available |-> m[v][s].available, reserved |-> m[v][s].reserved]
        /\ l[v][s] = [available |-> l[v][s].available, reserved |-> l[v][s].reserved]
    BY LedgersAt
  <2> QED BY <2>1
<1>2. \A v \in Users : m[v] = l[v]
  BY <1>1 DEF Ledgers
<1> QED BY <1>2 DEF Ledgers

\* Sums and differences of words wrap around at most once.
LEMMA WordSums ==
  ASSUME NEW x \in Amounts, NEW y \in Amounts
  PROVE  /\ x \in Nat /\ y \in Nat /\ Word \in Nat /\ x < Word /\ y < Word
         /\ Add(x, y) = IF x + y < Word THEN x + y ELSE x + y - Word
         /\ Sub(x, y) = IF x >= y THEN x - y ELSE x - y + Word
         /\ Add(x, y) \in Amounts /\ Sub(x, y) \in Amounts
<1>1. PICK w \in Nat \ {0}, a \in Nat, b \in Nat : w = Word /\ a = x /\ b = y /\ a < w /\ b < w
  BY WordAssumption DEF Amounts
<1>2. /\ a + b < w => (a + b) % w = a + b
      /\ a >= b => (a - b) % w = a - b
  BY <1>1
<1>3. a + b >= w => (a + b) % w = a + b - w
  BY <1>1
<1>4. a < b => (a - b) % w = a - b + w
  BY <1>1
<1>5. Add(x, y) \in Amounts /\ Sub(x, y) \in Amounts
  BY <1>1, AmountsTyped
<1>6. (a + b) % w = IF a + b < w THEN a + b ELSE a + b - w
  BY <1>2, <1>3
<1>7. (a - b) % w = IF a >= b THEN a - b ELSE a - b + w
  BY <1>2, <1>4
<1> QED BY <1>1, <1>5, <1>6, <1>7 DEF Add, Sub

\* Releasing what was just reserved gives the ledger back.
LEMMA ReserveReleased ==
  ASSUME NEW l \in Ledgers, NEW u \in Users, NEW t \in Tokens, NEW a \in Amounts
  PROVE  Release(Reserve(l, u, t, a), u, t, a) = l
<1>1. PICK m \in Ledgers : m = Reserve(l, u, t, a)
  BY LedgerKept
<1>2. \A x \in Amounts : Add(Sub(x, a), a) = x /\ Sub(Add(x, a), a) = x
  <2> SUFFICES ASSUME NEW x \in Amounts
               PROVE  Add(Sub(x, a), a) = x /\ Sub(Add(x, a), a) = x
    OBVIOUS
  <2>1. PICK d \in Amounts, s \in Amounts : d = Sub(x, a) /\ s = Add(x, a)
    BY WordSums
  <2>2. /\ d = IF x >= a THEN x - a ELSE x - a + Word
        /\ s = IF x + a < Word THEN x + a ELSE x + a - Word
    BY <2>1, WordSums
  <2>3. Add(d, a) = IF d + a < Word THEN d + a ELSE d + a - Word
    BY WordSums
  <2>4. Sub(s, a) = IF s >= a THEN s - a ELSE s - a + Word
    BY WordSums
  <2>5. x \in Nat /\ a \in Nat /\ Word \in Nat /\ x < Word /\ a < Word
    BY WordSums
  <2>6. Add(d, a) = x
    BY <2>2, <2>3, <2>5
  <2>7. Sub(s, a) = x
    BY <2>2, <2>4, <2>5
  <2> QED BY <2>1, <2>6, <2>7
<1>3. \A v \in Users, s \in Tokens :
        /\ m[v][s].available = IF v = u /\ s = t THEN Sub(l[u][t].available, a) ELSE l[v][s].available
        /\ m[v][s].reserved = IF v = u /\ s = t THEN Add(l[u][t].reserved, a) ELSE l[v][s].reserved
  BY <1>1, ReserveAt
<1>4. PICK n \in Ledgers : n = Release(m, u, t, a)
  BY ReleaseAt
<1>5. \A v \in Users, s \in Tokens :
        /\ n[v][s].available = IF v = u /\ s = t THEN Add(m[u][t].available, a) ELSE m[v][s].available
        /\ n[v][s].reserved = IF v = u /\ s = t THEN Sub(m[u][t].reserved, a) ELSE m[v][s].reserved
  BY <1>4, ReleaseAt
<1>6. \A v \in Users, s \in Tokens :
        n[v][s].available = l[v][s].available /\ n[v][s].reserved = l[v][s].reserved
  <2> SUFFICES ASSUME NEW v \in Users, NEW s \in Tokens
               PROVE  n[v][s].available = l[v][s].available /\ n[v][s].reserved = l[v][s].reserved
    OBVIOUS
  <2>1. CASE v = u /\ s = t
    <3>1. /\ n[v][s].available = Add(m[u][t].available, a) /\ m[u][t].available = Sub(l[u][t].available, a)
          /\ n[v][s].reserved = Sub(m[u][t].reserved, a) /\ m[u][t].reserved = Add(l[u][t].reserved, a)
      BY <1>3, <1>5, <2>1
    <3>2. l[u][t].available \in Amounts /\ l[u][t].reserved \in Amounts
      BY LedgersAt
    <3> QED BY <1>2, <2>1, <3>1, <3>2
  <2>2. CASE ~(v = u /\ s = t)
    BY <1>3, <1>5, <2>2
  <2> QED BY <2>1, <2>2
<1>7. n = l
  BY <1>6, SameLedger
<1> QED BY <1>1, <1>4, <1>7

\* Once loaded, the ledger is what is stored, but for what a submission reserved
\* and its fills moved.
LedgerHeld ==
  to_restore # NotLoaded =>
    /\ handling = NoOrder => ledger = db.balances
    /\ handling # NoOrder /\ taker.fills = <<>> =>
         ledger = Reserve(db.balances, handling.maker, OwnToken(handling), Required(handling))

\* Once loaded, the trades that wait for a batch are those stored.
TradesHeld ==
  to_restore # NotLoaded => [i \in DOMAIN pending_trades |-> pending_trades[i].trade] = db.trades

\* Once loaded, every order turned down is turned down by the database as well.
NoncesHeld ==
  to_restore # NotLoaded => \A o \in accepted_nonces : o = handling \/ Saved(o)

\* Steps that move neither the balances, nor a submission.
LEMMA HeldElsewhere ==
  ASSUME LedgerHeld, UNCHANGED <<ledger, handling, taker>>, db'.balances = db.balances,
         to_restore' # NotLoaded => to_restore # NotLoaded
  PROVE  LedgerHeld'
BY DEF LedgerHeld

\* Every step holds the ledger.
LEMMA NextLedgerHeld ==
  ASSUME ~DbMayFail, IInv, LedgerHeld, [Next]_vars
  PROVE  LedgerHeld'
<1>0. {} # NotLoaded
  BY DEF NotLoaded
<1>1. CASE \E r \in Requests : SubmitOrder(r.order, r.type)
  <2>1. PICK r \in Requests : SubmitOrder(r.order, r.type)
    BY <1>1
  <2>2. /\ handling' = r.order /\ r.order \in SignedOrders /\ UNCHANGED <<db, to_restore>>
        /\ ledger' = Reserve(ledger, r.order.maker, OwnToken(r.order), Required(r.order))
        /\ serving /\ taker = Engine!NoTaker
    BY <2>1, EngineSubmit DEF SubmitOrder, SignedOrders
  <2>3. handling = NoOrder /\ handling' # NoOrder /\ to_restore # NotLoaded
    BY <1>0, <2>2, SignedTyped DEF IInv, TakerHandled, Recovering
  <2> QED BY <2>2, <2>3 DEF LedgerHeld
<1>2. CASE FillOrder
  <2>1. PICK m, qty : FillStep(m, qty)
    BY <1>2, FillFacts
  <2>2. /\ handling' = handling /\ handling # NoOrder
        /\ taker'.fills = Append(taker.fills, FillOf(m, qty))
    BY <2>1 DEF FillStep
  <2>3. taker'.fills # <<>>
    <3>1. PICK fills, fill :
            fills \in Seq(Engine!Fills) /\ fills = taker.fills /\ fill = FillOf(m, qty)
      BY <2>2, TakerFacts
    <3>2. 1 \in DOMAIN Append(fills, fill)
      BY AppendAny, LenProperties
    <3>3. DOMAIN <<>> = {}
      OBVIOUS
    <3> QED BY <2>2, <3>1, <3>2, <3>3
  <2> QED BY <2>2, <2>3 DEF LedgerHeld
<1>3. CASE FinishOrder
  BY <1>3, FinishFacts DEF LedgerHeld
<1>4. CASE DropUnfilled
  <2>1. PICK o, token, amount : o = handling /\ token = OwnToken(handling) /\ amount = Required(handling)
    OBVIOUS
  <2>2. /\ handling # NoOrder /\ taker.fills = <<>> /\ handling' = NoOrder /\ UNCHANGED <<db, to_restore>>
        /\ ledger' = Release(ledger, o.maker, token, amount)
    BY <1>4, <2>1 DEF DropUnfilled
  <2>3. o.maker \in Users /\ token \in Tokens /\ amount \in Amounts /\ db.balances \in Ledgers
    BY <2>1, <2>2, TakerFacts, OrderTyped, AmountsTyped DEF Required, IInv, Stored
  <2>4. to_restore # NotLoaded
    BY <1>0, <2>2, TakerFacts
  <2>5. ledger = Reserve(db.balances, o.maker, token, amount)
    BY <2>1, <2>2, <2>4 DEF LedgerHeld
  <2>6. ledger' = db.balances
    BY <2>2, <2>3, <2>5, ReserveReleased
  <2> QED BY <2>2, <2>6 DEF LedgerHeld
<1>5. CASE \E c \in Cancels : CancelOrder(c)
  <2>1. PICK c, id : CancelStep(c, id)
    BY <1>5, CancelStepFacts
  <2> QED BY <2>1 DEF CancelStep, LedgerHeld
<1>6. CASE \E c \in Cancels : CancelOrderDbFails(c)
  BY <1>6 DEF CancelOrderDbFails
<1>7. CASE Crash
  BY <1>7 DEF Crash, LedgerHeld
<1>8. CASE Load
  <2>1. ledger' = db.balances /\ db'.balances = db.balances /\ ~serving /\ UNCHANGED handling
    BY <1>8 DEF Load, IInv, Stored
  <2>2. handling' = NoOrder
    BY <2>1 DEF IInv, TakerHandled
  <2> QED BY <2>1, <2>2 DEF LedgerHeld
<1>9. CASE RestoreOrder
  <2>1. PICK id : RestoreStep(id)
    BY <1>9, RestoreFacts
  <2>2. UNCHANGED <<ledger, handling, taker, db>> /\ to_restore # NotLoaded
    BY <2>1 DEF RestoreStep
  <2> QED BY <2>2, HeldElsewhere
<1>10. CASE SkipExpired
  <2>1. PICK id : SkipStep(id)
    BY <1>10, SkipFacts
  <2>2. UNCHANGED <<ledger, handling, taker>> /\ to_restore # NotLoaded /\ db'.balances = db.balances
    BY <2>1 DEF SkipStep
  <2> QED BY <2>2, HeldElsewhere
<1>11. CASE Serve \/ PruneNonces \/ Tick \/ UNCHANGED vars
  <2>1. UNCHANGED <<ledger, handling, taker, to_restore>> /\ db'.balances = db.balances
    <3>1. CASE Serve
      BY <3>1, EngineOthers DEF Serve, app_vars
    <3>2. CASE PruneNonces
      BY <3>2 DEF PruneNonces, engine_vars, app_vars, IInv, Stored
    <3>3. CASE Tick \/ UNCHANGED vars
      BY <3>3 DEF Tick, vars, engine_vars, app_vars
    <3> QED BY <1>11, <3>1, <3>2, <3>3
  <2> QED BY <2>1, HeldElsewhere
<1> QED BY <1>1, <1>2, <1>3, <1>4, <1>5, <1>6, <1>7, <1>8, <1>9, <1>10, <1>11 DEF Next

\* What is left of trades that are numbered, from the first id on, is the trades.
LEMMA NumbersDropped ==
  ASSUME NEW trades \in Seq(StoredTrades)
  PROVE  \A n : LET tagged == [i \in DOMAIN trades |-> [id |-> n + i, trade |-> trades[i]]]
                IN  [i \in DOMAIN tagged |-> tagged[i].trade] = trades
<1> SUFFICES ASSUME NEW n, NEW tagged, tagged = [i \in DOMAIN trades |-> [id |-> n + i, trade |-> trades[i]]]
             PROVE  [i \in DOMAIN tagged |-> tagged[i].trade] = trades
  OBVIOUS
<1>1. DOMAIN tagged = DOMAIN trades /\ \A i \in DOMAIN trades : tagged[i].trade = trades[i]
  OBVIOUS
<1>2. trades = [i \in DOMAIN trades |-> trades[i]]
  BY SeqDef
<1> QED BY <1>1, <1>2

\* The trades of numbered trades.
TradesOf(tagged) == [i \in DOMAIN tagged |-> tagged[i].trade]

\* They go part by part.
LEMMA PartsDropped ==
  ASSUME NEW s \in Seq([id : Nat, trade : StoredTrades]), NEW t \in Seq([id : Nat, trade : StoredTrades]),
         NEW x \in Seq(StoredTrades), NEW y \in Seq(StoredTrades),
         TradesOf(s) = x, TradesOf(t) = y
  PROVE  TradesOf(s \o t) = x \o y
<1>1. PICK st, xy, got : /\ st = s \o t /\ xy = x \o y /\ got = TradesOf(st)
  OBVIOUS
<1>2. PICK a \in Nat, b \in Nat : /\ a = Len(s) /\ b = Len(t) /\ DOMAIN s = 1..a /\ DOMAIN t = 1..b
  BY LenProperties
<1>3. /\ DOMAIN x = 1..a /\ \A i \in 1..a : x[i] = s[i].trade
      /\ DOMAIN y = 1..b /\ \A i \in 1..b : y[i] = t[i].trade
  BY <1>2 DEF TradesOf
<1>4. Len(x) = a /\ Len(y) = b
  BY <1>2, <1>3, LenProperties
<1>5. /\ st \in Seq([id : Nat, trade : StoredTrades]) /\ DOMAIN st = 1..(a + b)
      /\ \A i \in 1..(a + b) : st[i] = IF i <= a THEN s[i] ELSE t[i - a]
  <2>1. st \in Seq([id : Nat, trade : StoredTrades]) /\ Len(st) = a + b
    BY <1>1, <1>2, ConcatProperties
  <2>2. DOMAIN st = 1..Len(st)
    BY <2>1, LenProperties
  <2> QED BY <1>1, <1>2, <2>1, <2>2, ConcatProperties
<1>6. /\ xy \in Seq(StoredTrades) /\ DOMAIN xy = 1..(a + b)
      /\ \A i \in 1..(a + b) : xy[i] = IF i <= a THEN x[i] ELSE y[i - a]
  <2>1. xy \in Seq(StoredTrades) /\ Len(xy) = a + b
    BY <1>1, <1>4, ConcatProperties
  <2>2. DOMAIN xy = 1..Len(xy)
    BY <2>1, LenProperties
  <2> QED BY <1>1, <1>4, <2>1, <2>2, ConcatProperties
<1>7. ASSUME NEW i \in 1..(a + b) PROVE st[i].trade = xy[i]
  <2>1. CASE i <= a
    <3>1. i \in 1..a
      BY <2>1
    <3>2. x[i] = s[i].trade
      BY <1>3, <3>1
    <3> QED BY <1>5, <1>6, <2>1, <3>2
  <2>2. CASE ~(i <= a)
    <3>1. i - a \in 1..b
      BY <2>2
    <3>2. y[i - a] = t[i - a].trade
      BY <1>3, <3>1
    <3> QED BY <1>5, <1>6, <2>2, <3>2
  <2> QED BY <2>1, <2>2
<1>8. xy = [i \in 1..(a + b) |-> xy[i]]
  BY <1>6, SeqDef
<1>9. got = [i \in 1..(a + b) |-> st[i].trade]
  BY <1>1, <1>5 DEF TradesOf
<1>10. got = xy
  BY <1>7, <1>8, <1>9
<1> QED BY <1>1, <1>10

\* Every step holds the trades.
LEMMA NextTradesHeld ==
  ASSUME IInv, TradesHeld, [Next]_vars
  PROVE  TradesHeld'
<1>0. {} # NotLoaded
  BY DEF NotLoaded
<1>1. CASE FinishOrder
  <2>1. /\ handling # NoOrder /\ db'.trades = db.trades \o Trades /\ pending_trades' = pending_trades \o Tagged(Trades)
    BY <1>1, FinishFacts
  <2>2. to_restore # NotLoaded
    BY <1>0, <2>1, TakerFacts
  <2>3. PICK s, t, x, y : s = pending_trades /\ t = Tagged(Trades) /\ x = db.trades /\ y = Trades
    OBVIOUS
  <2>4. /\ s \in Seq([id : Nat, trade : StoredTrades]) /\ t \in Seq([id : Nat, trade : StoredTrades])
        /\ x \in Seq(StoredTrades) /\ y \in Seq(StoredTrades)
    BY <2>1, <2>3, TradesTyped DEF IInv, Typed, Stored
  <2>5. TradesOf(s) = x
    BY <2>2, <2>3 DEF TradesHeld, TradesOf
  <2>6. TradesOf(t) = y
    BY <2>3, <2>4, NumbersDropped DEF Tagged, TradesOf
  <2>7. TradesOf(s \o t) = x \o y
    BY <2>4, <2>5, <2>6, PartsDropped
  <2> QED BY <2>1, <2>3, <2>7 DEF TradesHeld, TradesOf
<1>2. CASE Load
  <2>1. pending_trades' = PendingTrades /\ db'.trades = db.trades
    BY <1>2 DEF Load, IInv, Stored
  <2>2. [i \in DOMAIN PendingTrades |-> PendingTrades[i].trade] = db.trades
    <3>1. PICK x \in Seq(StoredTrades) : x = db.trades
      BY DEF IInv, Stored
    <3>2. PICK got : got = PendingTrades
      OBVIOUS
    <3>3. DOMAIN got = DOMAIN x /\ \A i \in DOMAIN x : got[i].trade = x[i]
      BY <3>1, <3>2 DEF PendingTrades
    <3>4. x = [i \in DOMAIN x |-> x[i]]
      BY SeqDef
    <3> QED BY <3>1, <3>2, <3>3, <3>4
  <2> QED BY <2>1, <2>2 DEF TradesHeld
<1>3. CASE Crash
  BY <1>3 DEF Crash, TradesHeld
<1>4. CASE \E c \in Cancels : CancelOrder(c)
  BY <1>4, CancelStepFacts DEF CancelStep, TradesHeld
<1>5. CASE RestoreOrder
  BY <1>5, RestoreFacts DEF RestoreStep, TradesHeld
<1>6. CASE SkipExpired
  BY <1>6, SkipFacts DEF SkipStep, TradesHeld
<1>7. CASE \E r \in Requests : SubmitOrder(r.order, r.type)
  BY <1>7 DEF SubmitOrder, TradesHeld
<1>8. CASE FillOrder \/ DropUnfilled \/ \E c \in Cancels : CancelOrderDbFails(c)
  BY <1>8 DEF FillOrder, DropUnfilled, CancelOrderDbFails, TradesHeld
<1>9. CASE Serve \/ PruneNonces \/ Tick \/ UNCHANGED vars
  BY <1>9 DEF Serve, PruneNonces, Tick, vars, app_vars, IInv, Stored, TradesHeld
<1> QED BY <1>1, <1>2, <1>3, <1>4, <1>5, <1>6, <1>7, <1>8, <1>9 DEF Next

\* Steps that accept nothing and store no nonce.
LEMMA NoncesElsewhere ==
  ASSUME IInv, NoncesHeld, \A o \in accepted_nonces' : o \in accepted_nonces, UNCHANGED now,
         db'.nonces = db.nonces, to_restore' # NotLoaded => to_restore # NotLoaded,
         \A o \in accepted_nonces' : o = handling => o = handling'
  PROVE  NoncesHeld'
BY DEF NoncesHeld, Saved

\* Every step holds the nonces.
LEMMA NextNoncesHeld ==
  ASSUME ~DbMayFail, IInv, OnceInv, NoncesHeld, [Next]_vars
  PROVE  NoncesHeld'
<1>0. {} # NotLoaded /\ accepted_nonces \subseteq SignedOrders /\ NoOrder \notin SignedOrders
  BY SignedTyped DEF NotLoaded, IInv, Typed
<1>1. CASE \E r \in Requests : SubmitOrder(r.order, r.type)
  <2>1. PICK r \in Requests : SubmitOrder(r.order, r.type)
    BY <1>1
  <2>2. /\ handling' = r.order /\ accepted_nonces' = accepted_nonces \cup {r.order}
        /\ UNCHANGED <<db, to_restore, now>> /\ serving /\ taker = Engine!NoTaker
    BY <2>1, EngineSubmit DEF SubmitOrder
  <2>3. handling = NoOrder
    BY <2>2 DEF IInv, TakerHandled
  <2> QED BY <1>0, <2>2, <2>3 DEF NoncesHeld, Saved
<1>2. CASE FillOrder
  <2>1. UNCHANGED <<accepted_nonces, handling, to_restore, db, now>>
    BY <1>2 DEF FillOrder
  <2> QED BY <2>1, NoncesElsewhere
<1>3. CASE FinishOrder
  <2>1. /\ handling # NoOrder /\ db'.nonces = SaveNonce(db.nonces, handling, now + NonceExpiry)
        /\ UNCHANGED <<accepted_nonces, to_restore, now>>
    BY <1>3, FinishFacts
  <2>2. handling \in DOMAIN db'.nonces /\ DOMAIN db.nonces \subseteq DOMAIN db'.nonces
    BY <2>1 DEF SaveNonce, With
  <2>3. \A o \in accepted_nonces : o = handling \/ Saved(o) => Saved(o)'
    BY <2>1, <2>2 DEF Saved
  <2> QED BY <2>1, <2>3 DEF NoncesHeld
<1>4. CASE DropUnfilled
  <2>1. accepted_nonces' = accepted_nonces \ {handling} /\ UNCHANGED <<to_restore, db, now>>
    BY <1>4 DEF DropUnfilled
  <2> QED BY <2>1, NoncesElsewhere
<1>5. CASE \E c \in Cancels : CancelOrder(c)
  <2>1. PICK c, id : CancelStep(c, id)
    BY <1>5, CancelStepFacts
  <2>2. /\ UNCHANGED <<accepted_nonces, to_restore, now>> /\ db'.nonces = db.nonces
        /\ handling = NoOrder
    BY <2>1 DEF CancelStep
  <2> QED BY <1>0, <2>2, NoncesElsewhere
<1>6. CASE \E c \in Cancels : CancelOrderDbFails(c)
  BY <1>6 DEF CancelOrderDbFails
<1>7. CASE Crash
  BY <1>7 DEF Crash, NoncesHeld
<1>8. CASE Load
  <2>1. accepted_nonces' = Unexpired(db.nonces) /\ db'.nonces = Pruned(db.nonces) /\ UNCHANGED now
    BY <1>8 DEF Load, IInv, Stored
  <2>2. DOMAIN db'.nonces = accepted_nonces'
    BY <2>1 DEF Pruned
  <2> QED BY <2>2 DEF NoncesHeld, Saved
<1>9. CASE RestoreOrder
  <2>1. PICK id : RestoreStep(id)
    BY <1>9, RestoreFacts
  <2>2. /\ to_restore # NotLoaded /\ id \in DOMAIN db.orders /\ UNCHANGED <<db, now, handling>>
        /\ accepted_nonces' = accepted_nonces \cup {db.orders[id].order}
    BY <2>1 DEF RestoreStep
  <2>3. Saved(db.orders[id].order)
    BY <2>2 DEF OnceInv, Remembered
  <2> QED BY <2>2, <2>3 DEF NoncesHeld, Saved
<1>10. CASE SkipExpired
  <2>1. PICK id : SkipStep(id)
    BY <1>10, SkipFacts
  <2>2. /\ UNCHANGED <<accepted_nonces, now, handling>> /\ db'.nonces = db.nonces
        /\ to_restore # NotLoaded
    BY <2>1 DEF SkipStep
  <2> QED BY <2>2, NoncesElsewhere
<1>11. CASE PruneNonces
  <2>1. db'.nonces = Pruned(db.nonces) /\ UNCHANGED <<accepted_nonces, now, handling, to_restore>>
    BY <1>11 DEF PruneNonces, app_vars, IInv, Stored
  <2>2. \A o \in DOMAIN db.nonces : o \in DOMAIN Pruned(db.nonces) \/ o.expiry < now
    <3>1. ASSUME NEW o \in DOMAIN db.nonces, db.nonces[o] < now PROVE o.expiry < now
      <4>1. o.expiry \in Nat /\ now \in Nat
        BY InstantsTyped
      <4>2. db.nonces[o] \in Nat /\ o.expiry <= db.nonces[o]
        BY DEF OnceInv, Remembered
      <4> QED BY <3>1, <4>1, <4>2
    <3> QED BY <3>1, OncePruned
  <2> QED BY <2>1, <2>2 DEF NoncesHeld, Saved
<1>12. CASE Tick
  <2>1. now' = now + 1 /\ UNCHANGED <<accepted_nonces, handling, to_restore, db>>
    BY <1>12 DEF Tick, app_vars
  <2>2. \A o \in SignedOrders : o.expiry < now => o.expiry < now'
    <3>1. \A o \in SignedOrders : o.expiry \in Nat /\ now \in Nat
      BY InstantsTyped
    <3> QED BY <2>1, <3>1
  <2> QED BY <1>0, <2>1, <2>2 DEF NoncesHeld, Saved
<1>13. CASE Serve \/ UNCHANGED vars
  <2>1. UNCHANGED <<accepted_nonces, handling, to_restore, db, now>>
    BY <1>13 DEF Serve, vars, app_vars
  <2> QED BY <2>1, NoncesElsewhere
<1> QED BY <1>1, <1>2, <1>3, <1>4, <1>5, <1>6, <1>7, <1>8, <1>9, <1>10, <1>11, <1>12, <1>13 DEF Next

\* What the database holds of the process.
DurableInv == BookRows /\ RowsHeld /\ LedgerHeld /\ TradesHeld /\ NoncesHeld

\* That is all there is to lose.
LEMMA DurableSuffices ==
  ASSUME IInv, ContractInv, RowsNamed, DurableInv
  PROVE  Durable
<1> SUFFICES ASSUME serving, handling = NoOrder
             PROVE  /\ \A o \in OrdersIn(book) :
                         /\ o.id \in RestingRows
                         /\ db.orders[o.id].order = order_map[o.id]
                         /\ db.orders[o.id].resting_quantity = o.quantity
                    /\ \A id \in RestingRows :
                         HasOrder(book, id) \/ db.orders[id].order.expiry < now
                    /\ ledger = db.balances
                    /\ [i \in DOMAIN pending_trades |-> pending_trades[i].trade] = db.trades
                    /\ \A order \in accepted_nonces :
                         \/ order \in DOMAIN db.nonces \/ order.expiry < now
                         \/ \E id \in RestingRows : db.orders[id].order = order
  BY DEF Durable, Answered
<1>1. to_restore = {} /\ to_restore # NotLoaded
  BY DEF IInv, Recovering, NotLoaded
<1>2. ASSUME NEW o \in OrdersIn(book)
      PROVE  /\ o.id \in RestingRows
             /\ db.orders[o.id].order = order_map[o.id]
             /\ db.orders[o.id].resting_quantity = o.quantity
  <2>1. o.id \in DOMAIN order_map
    BY DEF IInv, BookKnown, KnownAs
  <2> QED BY <2>1 DEF DurableInv, BookRows, RowsHeld, RowsNamed, MapRows
<1>3. ASSUME NEW id \in RestingRows, ~(db.orders[id].order.expiry < now)
      PROVE  HasOrder(book, id)
  <2>1. db.orders[id].order.expiry \in Nat /\ now \in Nat
    BY InstantsTyped DEF RestingRows
  <2>2. id \in LiveRows
    BY <1>3, <2>1 DEF LiveRows
  <2> QED BY <1>1, <2>2 DEF ContractInv, RowsPlaced, Met, HasOrder
<1>4. ledger = db.balances /\ [i \in DOMAIN pending_trades |-> pending_trades[i].trade] = db.trades
  BY <1>1 DEF DurableInv, LedgerHeld, TradesHeld
<1>5. \A order \in accepted_nonces : order \in DOMAIN db.nonces \/ order.expiry < now
  BY <1>1, SignedTyped DEF DurableInv, NoncesHeld, Saved, IInv, Typed
<1> QED BY <1>2, <1>3, <1>4, <1>5

\* At first there is nothing to hold.
LEMMA InitDurable == Init => DurableInv
<1> SUFFICES ASSUME Init PROVE DurableInv
  OBVIOUS
<1>1. OrdersIn(book) = {}
  <2>1. book = EmptyBook
    BY EngineBook DEF Init, Engine!Init
  <2> QED BY <2>1, EmptyHoldsNothing
<1>2. to_restore = NotLoaded
  BY DEF Init
<1> QED BY <1>1, <1>2 DEF DurableInv, BookRows, RowsHeld, LedgerHeld, TradesHeld, NoncesHeld

\* When no transaction of a cancel fails, nonces outlive their orders and no maker
\* is filled in part, a crash between two handlers loses nothing: the database
\* holds the book, the balances, the trades and the orders turned down. In the run
\* partial_fill_not_stored a maker is filled in part, and the database holds another book.
THEOREM NothingToLose ==
  ASSUME ~DbMayFail
  PROVE  Spec /\ []NonceOutlivesOrder /\ []MakersFilledWhole => []Durable
<1>1. Init => OnceInv /\ RowsNamed /\ ContractInv /\ DurableInv
  BY InitAccounted, InitContract, InitDurable
<1>2. IInv /\ IInv' /\ OnceInv /\ RowsNamed /\ ContractInv /\ DurableInv /\ NonceOutlivesOrder
        /\ MakersFilledWhole' /\ [Next]_vars
        => OnceInv' /\ RowsNamed' /\ ContractInv' /\ DurableInv'
  <2> SUFFICES ASSUME IInv, IInv', OnceInv, RowsNamed, ContractInv, DurableInv, NonceOutlivesOrder,
                      MakersFilledWhole', [Next]_vars
               PROVE  OnceInv' /\ RowsNamed' /\ ContractInv' /\ DurableInv'
    OBVIOUS
  <2>1. OnceInv' /\ RowsNamed' /\ ContractInv'
    BY NextOnce, NextNamed, NextContract
  <2>2. BookRows /\ RowsHeld /\ LedgerHeld /\ TradesHeld /\ NoncesHeld /\ RestoreSound
    BY DEF DurableInv, ContractInv
  <2>3. BookRows' /\ RowsHeld' /\ LedgerHeld' /\ TradesHeld' /\ NoncesHeld'
    BY <2>2, NextBookRows, NextRowsHeld, NextLedgerHeld, NextTradesHeld, NextNoncesHeld
  <2> QED BY <2>1, <2>3 DEF DurableInv
<1>3. IInv /\ ContractInv /\ RowsNamed /\ DurableInv => Durable
  BY DurableSuffices
<1> QED BY <1>1, <1>2, <1>3, GatewayInvariant, PTL DEF Spec

-----------------------------------------------------------------------------
(* What is reserved covers what is open: amounts.                          *)

\* Rounding down, the parts of an amount are worth no more than the whole.
LEMMA DivAdds ==
  ASSUME NEW s \in Nat \ {0}, NEW a \in Nat, NEW b \in Nat
  PROVE  /\ a \div s \in Nat /\ b \div s \in Nat /\ (a + b) \div s \in Nat
         /\ (a \div s) + (b \div s) <= (a + b) \div s
<1>1. \A x \in Nat : /\ x \div s \in Nat /\ s * (x \div s) <= x /\ x < s * (x \div s) + s
  OBVIOUS
<1>2. PICK x \in Nat, y \in Nat, z \in Nat : x = a \div s /\ y = b \div s /\ z = (a + b) \div s
  BY <1>1
<1>3. s * x <= a /\ s * y <= b /\ a + b < s * z + s
  BY <1>1, <1>2
<1>4. s * (x + y) = s * x + s * y /\ s * (z + 1) = s * z + s
  OBVIOUS
<1>5. s * (x + y) < s * (z + 1)
  <2>1. PICK sx \in Nat, sy \in Nat, sz \in Nat : sx = s * x /\ sy = s * y /\ sz = s * z
    OBVIOUS
  <2> QED BY <1>3, <1>4, <2>1
<1>6. x + y < z + 1
  <2>1. ASSUME x + y >= z + 1 PROVE s * (x + y) >= s * (z + 1)
    <3>1. PICK d \in Nat : d = x + y - (z + 1)
      BY <2>1
    <3>2. s * d \in Nat /\ s * (x + y) = s * (z + 1) + s * d
      BY <3>1
    <3>3. s * (z + 1) \in Nat
      OBVIOUS
    <3> QED BY <3>2, <3>3
  <2>2. s * (x + y) \in Nat /\ s * (z + 1) \in Nat
    OBVIOUS
  <2> QED BY <1>5, <2>1, <2>2
<1> QED BY <1>1, <1>2, <1>6

\* A quote that fits a word is the product, rounded down.
LEMMA QuoteFits ==
  ASSUME NEW q \in Nat, NEW p \in Nat, q * p < Word
  PROVE  QuoteAmount(q, p) = (q * p) \div Scale /\ QuoteAmount(q, p) \in Nat
<1>1. PICK v \in Nat, w \in Nat \ {0}, s \in Nat \ {0} : v = q * p /\ w = Word /\ s = Scale /\ v < w
  BY WordAssumption, GatewayAssumption
<1>2. v % w = v /\ v \div s \in Nat
  BY <1>1
<1> QED BY <1>1, <1>2 DEF QuoteAmount, Mul

\* A product is at least that of a smaller factor.
LEMMA ProductGrows ==
  ASSUME NEW a \in Nat, NEW b \in Nat, NEW c \in Nat, NEW d \in Nat, a <= c, b <= d
  PROVE  a * b \in Nat /\ c * d \in Nat /\ a * b <= c * d
<1>1. PICK x \in Nat, y \in Nat : c = a + x /\ d = b + y
  <2>1. c - a \in Nat /\ d - b \in Nat /\ c = a + (c - a) /\ d = b + (d - b)
    OBVIOUS
  <2> QED BY <2>1
<1>2. c * d = a * b + (a * y + x * b + x * y)
  BY <1>1
<1>3. a * b \in Nat /\ a * y \in Nat /\ x * b \in Nat /\ x * y \in Nat /\ c * d \in Nat
  OBVIOUS
<1> QED BY <1>2, <1>3

\* A part of an order, and what is left of it, cost no more than the order.
LEMMA CollateralSplits ==
  ASSUME NEW side, NEW p \in Nat, NEW q \in Nat, NEW part \in Nat, part <= q, q * p < Word, q < Word
  PROVE  /\ Collateral(side, p, q) \in Amounts /\ Collateral(side, p, part) \in Amounts
         /\ Collateral(side, p, q - part) \in Amounts /\ Amounts \subseteq Nat
         /\ Collateral(side, p, q - part) + Collateral(side, p, part) <= Collateral(side, p, q)
<1>1. PICK rest \in Nat : rest = q - part /\ rest + part = q
  OBVIOUS
<1>2. q \in Amounts /\ part \in Amounts /\ rest \in Amounts /\ Amounts \subseteq Nat
  BY <1>1, WordAssumption DEF Amounts
<1>3. /\ Collateral(side, p, q) \in Amounts /\ Collateral(side, p, part) \in Amounts
      /\ Collateral(side, p, rest) \in Amounts
  BY <1>2, AmountsTyped
<1>4. Collateral(side, p, rest) + Collateral(side, p, part) <= Collateral(side, p, q)
  <2>1. CASE side = "buy"
    <3>1. PICK a \in Nat, b \in Nat, c \in Nat : a = rest * p /\ b = part * p /\ c = q * p
      OBVIOUS
    <3>2. a + b = c
      BY <1>1, <3>1
    <3>3. rest * p < Word /\ part * p < Word
      BY <3>1, <3>2, WordAssumption
    <3>4. /\ QuoteAmount(rest, p) = a \div Scale /\ QuoteAmount(part, p) = b \div Scale
          /\ QuoteAmount(q, p) = c \div Scale
      BY <3>1, <3>3, QuoteFits
    <3>5. (a \div Scale) + (b \div Scale) <= (a + b) \div Scale
      BY DivAdds, GatewayAssumption
    <3> QED BY <2>1, <3>2, <3>4, <3>5 DEF Collateral
  <2>2. CASE side # "buy"
    BY <1>1, <2>2 DEF Collateral
  <2> QED BY <2>1, <2>2
<1> QED BY <1>1, <1>2, <1>3, <1>4

\* A buyer's fill, its surplus and what is left to buy cost no more than what
\* was to be bought at the limit.
LEMMA SurplusSplits ==
  ASSUME NEW limit \in Nat, NEW p \in Nat, p <= limit, NEW q \in Nat, NEW part \in Nat, part <= q,
         q * limit < Word, q < Word
  PROVE  /\ QuoteAmount(part, p) \in Amounts /\ QuoteAmount(part, limit - p) \in Amounts
         /\ Collateral("buy", limit, q - part) + QuoteAmount(part, p) + QuoteAmount(part, limit - p)
              <= Collateral("buy", limit, q)
<1>1. PICK rest \in Nat, over \in Nat : rest = q - part /\ rest + part = q /\ over = limit - p /\ p + over = limit
  OBVIOUS
<1>2. PICK a \in Nat, b \in Nat, c \in Nat, d \in Nat :
        a = rest * limit /\ b = part * p /\ c = part * over /\ d = q * limit
  OBVIOUS
<1>3. a + b + c = d
  BY <1>1, <1>2
<1>4. rest * limit < Word /\ part * p < Word /\ part * over < Word
  BY <1>2, <1>3, WordAssumption
<1>5. /\ QuoteAmount(rest, limit) = a \div Scale /\ QuoteAmount(part, p) = b \div Scale
      /\ QuoteAmount(part, over) = c \div Scale /\ QuoteAmount(q, limit) = d \div Scale
  BY <1>2, <1>4, QuoteFits
<1>6. /\ (a \div Scale) + (b \div Scale) <= (a + b) \div Scale
      /\ a \div Scale \in Nat /\ b \div Scale \in Nat /\ (a + b) \div Scale \in Nat
  BY DivAdds, GatewayAssumption
<1>7. /\ ((a + b) \div Scale) + (c \div Scale) <= (a + b + c) \div Scale
      /\ c \div Scale \in Nat /\ (a + b + c) \div Scale \in Nat
  <2>1. PICK ab \in Nat : ab = a + b
    OBVIOUS
  <2> QED BY <2>1, DivAdds, GatewayAssumption
<1>8. (a \div Scale) + (b \div Scale) + (c \div Scale) <= d \div Scale
  <2>1. PICK x \in Nat, y \in Nat, z \in Nat, xy \in Nat, xyz \in Nat :
          /\ x = a \div Scale /\ y = b \div Scale /\ z = c \div Scale
          /\ xy = (a + b) \div Scale /\ xyz = (a + b + c) \div Scale
    BY <1>6, <1>7
  <2>2. x + y <= xy /\ xy + z <= xyz
    BY <1>6, <1>7, <2>1
  <2>3. xyz = d \div Scale
    BY <1>3, <2>1
  <2> QED BY <2>1, <2>2, <2>3
<1>9. QuoteAmount(part, p) \in Amounts /\ QuoteAmount(part, over) \in Amounts
  BY AmountsTyped
<1>10. /\ Collateral("buy", limit, rest) = QuoteAmount(rest, limit)
       /\ Collateral("buy", limit, q) = QuoteAmount(q, limit)
  BY DEF Collateral
<1> QED BY <1>1, <1>5, <1>8, <1>9, <1>10

-----------------------------------------------------------------------------
(* Balances as numbers: where no word wraps around.                        *)

\* All a user has of a token.
Has(l, u, t) == l[u][t].available + l[u][t].reserved

\* A supply is a sum, and nobody has more.
LEMMA SupplyHolds ==
  ASSUME IsFiniteSet(Users), NEW l \in Ledgers, NEW t \in Tokens
  PROVE  /\ Supply(l, t) = SumFunctionOnSet([u \in Users |-> Has(l, u, t)], Users) /\ Supply(l, t) \in Nat
         /\ \A u \in Users : /\ l[u][t].available \in Nat /\ l[u][t].reserved \in Nat
                             /\ Has(l, u, t) \in Nat /\ Has(l, u, t) <= Supply(l, t)
<1>1. PICK f : f = [u \in Users |-> Has(l, u, t)]
  OBVIOUS
<1>2. \A u \in Users : l[u][t].available \in Nat /\ l[u][t].reserved \in Nat
  <2>1. Amounts \subseteq Nat
    BY WordAssumption DEF Amounts
  <2> QED BY <2>1, LedgersAt
<1>3. \A u \in Users : f[u] = Has(l, u, t) /\ f[u] \in Nat
  BY <1>1, <1>2 DEF Has
<1>4. Supply(l, t) = SumFunctionOnSet(f, Users)
  <2>1. f = [u \in Users |-> l[u][t].available + l[u][t].reserved] /\ DOMAIN f = Users
    BY <1>1 DEF Has
  <2> QED BY <2>1 DEF Supply, SumFunction
<1>5. Supply(l, t) \in Nat
  BY <1>3, <1>4, SumNat
<1>6. \A u \in Users : f[u] <= Supply(l, t)
  BY <1>3, <1>4, SumHolds
<1> QED BY <1>1, <1>2, <1>3, <1>4, <1>5, <1>6

\* When one user has more or less of a token, so has everybody together.
LEMMA SupplyMoves ==
  ASSUME IsFiniteSet(Users), NEW l \in Ledgers, NEW m \in Ledgers, NEW u \in Users, NEW t \in Tokens,
         NEW d \in Int, \A v \in Users, s \in Tokens :
                          Has(m, v, s) = IF v = u /\ s = t THEN Has(l, v, s) + d ELSE Has(l, v, s)
  PROVE  \A s \in Tokens : Supply(m, s) = IF s = t THEN Supply(l, s) + d ELSE Supply(l, s)
<1> SUFFICES ASSUME NEW s \in Tokens
             PROVE  Supply(m, s) = IF s = t THEN Supply(l, s) + d ELSE Supply(l, s)
  OBVIOUS
<1>1. PICK f, g : f = [v \in Users |-> Has(l, v, s)] /\ g = [v \in Users |-> Has(m, v, s)]
  OBVIOUS
<1>2. Supply(l, s) = SumFunctionOnSet(f, Users) /\ Supply(m, s) = SumFunctionOnSet(g, Users)
  BY <1>1, SupplyHolds
<1>3. \A v \in Users : f[v] = Has(l, v, s) /\ g[v] = Has(m, v, s) /\ f[v] \in Int /\ g[v] \in Int
  BY <1>1, SupplyHolds
<1>4. CASE s = t
  <2>1. g[u] = f[u] + d /\ \A v \in Users \ {u} : g[v] = f[v]
    BY <1>3, <1>4
  <2>2. SumFunctionOnSet(g, Users) = SumFunctionOnSet(f, Users) + (g[u] - f[u])
    <3>1. \A v \in Users : f[v] \in Int /\ g[v] \in Int
      BY <1>3
    <3>2. \A v \in Users \ {u} : g[v] = f[v]
      BY <2>1
    <3> QED BY ONLY IsFiniteSet(Users), u \in Users, <3>1, <3>2, SumChanges
  <2>3. g[u] - f[u] = d
    BY <1>3, <2>1
  <2> QED BY <1>2, <1>4, <2>2, <2>3
<1>5. CASE s # t
  <2>1. \A v \in Users : f[v] = g[v]
    BY <1>3, <1>5
  <2> QED BY <1>2, <1>5, <2>1, SumSame
<1> QED BY <1>4, <1>5

\* From l to m, an amount was paid from what a user has reserved.
Pays(l, m, u, t, a) ==
  /\ m \in Ledgers
  /\ \A v \in Users, s \in Tokens :
       /\ m[v][s].available = l[v][s].available
       /\ m[v][s].reserved = IF v = u /\ s = t THEN l[v][s].reserved - a ELSE l[v][s].reserved
  /\ \A s \in Tokens : Supply(m, s) = IF s = t THEN Supply(l, s) - a ELSE Supply(l, s)

\* Or received as available.
Receives(l, m, u, t, a) ==
  /\ m \in Ledgers
  /\ \A v \in Users, s \in Tokens :
       /\ m[v][s].available = IF v = u /\ s = t THEN l[v][s].available + a ELSE l[v][s].available
       /\ m[v][s].reserved = l[v][s].reserved
  /\ \A s \in Tokens : Supply(m, s) = IF s = t THEN Supply(l, s) + a ELSE Supply(l, s)

\* Who has enough reserved pays what is spent.
LEMMA SpendPays ==
  ASSUME IsFiniteSet(Users), NEW l \in Ledgers, NEW u \in Users, NEW t \in Tokens, NEW a \in Amounts,
         a <= l[u][t].reserved
  PROVE  Pays(l, Spend(l, u, t, a), u, t, a)
<1>1. PICK m \in Ledgers : m = Spend(l, u, t, a)
  BY SpendAt
<1>2. a \in Nat /\ Sub(l[u][t].reserved, a) = l[u][t].reserved - a
  <2>1. PICK r \in Amounts : r = l[u][t].reserved
    BY LedgersAt
  <2> QED BY <2>1, WordSums
<1>3. \A v \in Users, s \in Tokens :
        /\ m[v][s].available = l[v][s].available
        /\ m[v][s].reserved = IF v = u /\ s = t THEN l[v][s].reserved - a ELSE l[v][s].reserved
  BY <1>1, <1>2, SpendAt
<1>4. PICK d \in Int : d = 0 - a
  BY <1>2
<1>5. \A v \in Users, s \in Tokens :
        Has(m, v, s) = IF v = u /\ s = t THEN Has(l, v, s) + d ELSE Has(l, v, s)
  <2> SUFFICES ASSUME NEW v \in Users, NEW s \in Tokens
               PROVE  Has(m, v, s) = IF v = u /\ s = t THEN Has(l, v, s) + d ELSE Has(l, v, s)
    OBVIOUS
  <2>1. l[v][s].available \in Nat /\ l[v][s].reserved \in Nat
    BY SupplyHolds
  <2>2. CASE v = u /\ s = t
    BY <1>2, <1>3, <1>4, <2>1, <2>2 DEF Has
  <2>3. CASE ~(v = u /\ s = t)
    BY <1>3, <2>3 DEF Has
  <2> QED BY <2>2, <2>3
<1>6. \A s \in Tokens : Supply(m, s) = IF s = t THEN Supply(l, s) + d ELSE Supply(l, s)
  BY <1>5, SupplyMoves
<1>7. \A s \in Tokens : Supply(l, s) + d = Supply(l, s) - a
  <2>1. \A s \in Tokens : Supply(l, s) \in Nat
    BY SupplyHolds
  <2>2. \A x \in Nat : x + d = x - a
    BY <1>2, <1>4
  <2> QED BY <2>1, <2>2
<1> QED BY <1>1, <1>3, <1>6, <1>7 DEF Pays

\* Who has not too much for a word receives what is credited.
LEMMA CreditReceives ==
  ASSUME IsFiniteSet(Users), NEW l \in Ledgers, NEW u \in Users, NEW t \in Tokens, NEW a \in Amounts,
         l[u][t].available + a < Word
  PROVE  Receives(l, Credit(l, u, t, a), u, t, a)
<1>1. PICK m \in Ledgers : m = Credit(l, u, t, a)
  BY CreditAt
<1>2. a \in Nat /\ Add(l[u][t].available, a) = l[u][t].available + a
  <2>1. PICK x \in Amounts : x = l[u][t].available
    BY LedgersAt
  <2> QED BY <2>1, WordSums
<1>3. \A v \in Users, s \in Tokens :
        /\ m[v][s].available = IF v = u /\ s = t THEN l[v][s].available + a ELSE l[v][s].available
        /\ m[v][s].reserved = l[v][s].reserved
  BY <1>1, <1>2, CreditAt
<1>4. a \in Int
  BY <1>2
<1>5. \A v \in Users, s \in Tokens :
        Has(m, v, s) = IF v = u /\ s = t THEN Has(l, v, s) + a ELSE Has(l, v, s)
  <2> SUFFICES ASSUME NEW v \in Users, NEW s \in Tokens
               PROVE  Has(m, v, s) = IF v = u /\ s = t THEN Has(l, v, s) + a ELSE Has(l, v, s)
    OBVIOUS
  <2>1. l[v][s].available \in Nat /\ l[v][s].reserved \in Nat
    BY SupplyHolds
  <2>2. CASE v = u /\ s = t
    BY <1>2, <1>3, <2>1, <2>2 DEF Has
  <2>3. CASE ~(v = u /\ s = t)
    BY <1>3, <2>3 DEF Has
  <2> QED BY <2>2, <2>3
<1>6. \A s \in Tokens : Supply(m, s) = IF s = t THEN Supply(l, s) + a ELSE Supply(l, s)
  BY <1>4, <1>5, SupplyMoves
<1> QED BY <1>1, <1>3, <1>6 DEF Receives

\* What is released moves from reserved to available.
LEMMA ReleaseMoves ==
  ASSUME IsFiniteSet(Users), NEW l \in Ledgers, NEW u \in Users, NEW t \in Tokens, NEW a \in Amounts,
         a <= l[u][t].reserved, Supply(l, t) < Word, NEW m, m = Release(l, u, t, a)
  PROVE  /\ m \in Ledgers
         /\ \A v \in Users, s \in Tokens :
              /\ m[v][s].available = IF v = u /\ s = t THEN l[v][s].available + a ELSE l[v][s].available
              /\ m[v][s].reserved = IF v = u /\ s = t THEN l[v][s].reserved - a ELSE l[v][s].reserved
         /\ \A s \in Tokens : Supply(m, s) = Supply(l, s)
<1>1. PICK h : h = Spend(l, u, t, a)
  OBVIOUS
<1>2. Pays(l, h, u, t, a) /\ h \in Ledgers
  <2>1. Pays(l, h, u, t, a)
    BY <1>1, SpendPays
  <2> QED BY <2>1 DEF Pays
<1>3. a \in Nat /\ l[u][t].available \in Nat /\ l[u][t].reserved \in Nat
      /\ l[u][t].available + l[u][t].reserved <= Supply(l, t) /\ Supply(l, t) \in Nat
  <2>1. a \in Nat
    BY WordAssumption DEF Amounts
  <2>2. l[u][t].available \in Nat /\ l[u][t].reserved \in Nat /\ Has(l, u, t) <= Supply(l, t)
        /\ Supply(l, t) \in Nat
    BY SupplyHolds
  <2> QED BY <2>1, <2>2 DEF Has
<1>4. h[u][t].available + a < Word
  <2>1. h[u][t].available = l[u][t].available
    BY <1>2 DEF Pays
  <2> QED BY <1>3, <2>1, WordAssumption
<1>5. m = Credit(h, u, t, a)
  BY <1>1 DEF Release
<1>6. Receives(h, m, u, t, a)
  BY <1>2, <1>4, <1>5, CreditReceives
<1>7. \A s \in Tokens : Supply(m, s) = Supply(l, s)
  <2>1. \A s \in Tokens : Supply(l, s) \in Nat
    BY SupplyHolds
  <2> QED BY <1>2, <1>3, <1>6, <2>1 DEF Pays, Receives
<1> QED BY <1>2, <1>6, <1>7 DEF Pays, Receives

\* What is reserved moves from available to reserved.
LEMMA ReserveMoves ==
  ASSUME IsFiniteSet(Users), NEW l \in Ledgers, NEW u \in Users, NEW t \in Tokens, NEW a \in Amounts,
         CanReserve(l, u, t, a), Supply(l, t) < Word, NEW m, m = Reserve(l, u, t, a)
  PROVE  /\ m \in Ledgers
         /\ \A v \in Users, s \in Tokens :
              m[v][s].reserved = IF v = u /\ s = t THEN l[v][s].reserved + a ELSE l[v][s].reserved
         /\ \A s \in Tokens : Supply(m, s) = Supply(l, s)
<1>1. PICK x \in Amounts, r \in Amounts : x = l[u][t].available /\ r = l[u][t].reserved
  BY LedgersAt
<1>2. a \in Nat /\ x \in Nat /\ r \in Nat /\ x + r <= Supply(l, t) /\ Supply(l, t) \in Nat /\ a <= x
  <2>1. a \in Nat
    BY WordAssumption DEF Amounts
  <2>2. l[u][t].available \in Nat /\ l[u][t].reserved \in Nat /\ Has(l, u, t) <= Supply(l, t)
        /\ Supply(l, t) \in Nat
    BY SupplyHolds
  <2>3. Has(l, u, t) = x + r /\ a <= x
    BY <1>1, <2>1, <2>2 DEF Has, CanReserve
  <2> QED BY <1>1, <2>1, <2>2, <2>3
<1>3. Sub(x, a) = x - a /\ Add(r, a) = r + a
  <2>1. r + a < Word
    BY <1>2, WordAssumption
  <2> QED BY <1>2, <2>1, WordSums
<1>4. m \in Ledgers /\ \A v \in Users, s \in Tokens :
        /\ m[v][s].available = IF v = u /\ s = t THEN x - a ELSE l[v][s].available
        /\ m[v][s].reserved = IF v = u /\ s = t THEN r + a ELSE l[v][s].reserved
  <2>1. /\ m \in Ledgers
        /\ \A v \in Users, s \in Tokens :
             /\ m[v][s].available = IF v = u /\ s = t THEN Sub(l[u][t].available, a) ELSE l[v][s].available
             /\ m[v][s].reserved = IF v = u /\ s = t THEN Add(l[u][t].reserved, a) ELSE l[v][s].reserved
    BY ReserveAt
  <2>2. Sub(l[u][t].available, a) = x - a /\ Add(l[u][t].reserved, a) = r + a
    BY <1>1, <1>3
  <2> QED BY <2>1, <2>2
<1>5. \A v \in Users, s \in Tokens :
        Has(m, v, s) = IF v = u /\ s = t THEN Has(l, v, s) + 0 ELSE Has(l, v, s)
  <2> SUFFICES ASSUME NEW v \in Users, NEW s \in Tokens
               PROVE  Has(m, v, s) = IF v = u /\ s = t THEN Has(l, v, s) + 0 ELSE Has(l, v, s)
    OBVIOUS
  <2>1. CASE v = u /\ s = t
    <3>1. Has(m, v, s) = (x - a) + (r + a) /\ Has(l, v, s) = x + r
      BY <1>1, <1>4, <2>1 DEF Has
    <3> QED BY <1>2, <2>1, <3>1
  <2>2. CASE ~(v = u /\ s = t)
    BY <1>4, <2>2 DEF Has
  <2> QED BY <2>1, <2>2
<1>6. \A s \in Tokens : Supply(m, s) = IF s = t THEN Supply(l, s) + 0 ELSE Supply(l, s)
  BY <1>4, <1>5, SupplyMoves
<1>7. \A s \in Tokens : Supply(m, s) = Supply(l, s)
  <2>1. \A s \in Tokens : Supply(l, s) \in Nat
    BY SupplyHolds
  <2>2. \A y \in Nat : y + 0 = y
    OBVIOUS
  <2> QED BY <1>6, <2>1, <2>2
<1> QED BY <1>1, <1>4, <1>7

\* What the two sides of a fill exchange moves between them: the supplies stay.
LEMMA SettleMoves ==
  ASSUME IsFiniteSet(Users), NEW l \in Ledgers, NEW seller \in Users, NEW buyer \in Users,
         NEW base \in Tokens, NEW quote \in Tokens, base # quote, NEW b \in Amounts, NEW q \in Amounts,
         b <= l[seller][base].reserved, q <= l[buyer][quote].reserved,
         Supply(l, base) < Word, Supply(l, quote) < Word,
         NEW m, m = SettleFill(l, seller, buyer, base, quote, b, q)
  PROVE  /\ m \in Ledgers
         /\ \A v \in Users, s \in Tokens :
              m[v][s].reserved = IF v = seller /\ s = base THEN l[v][s].reserved - b
                                 ELSE IF v = buyer /\ s = quote THEN l[v][s].reserved - q
                                 ELSE l[v][s].reserved
         /\ \A s \in Tokens : Supply(m, s) = Supply(l, s)
<1>0. b \in Nat /\ q \in Nat /\ Word \in Nat
  BY WordAssumption DEF Amounts
<1>1. PICK l1 : l1 = Spend(l, seller, base, b)
  OBVIOUS
<1>2. Pays(l, l1, seller, base, b) /\ l1 \in Ledgers
  <2>1. Pays(l, l1, seller, base, b)
    BY <1>1, SpendPays
  <2> QED BY <2>1 DEF Pays
<1>3. q <= l1[buyer][quote].reserved /\ Supply(l1, quote) = Supply(l, quote)
      /\ Supply(l1, base) = Supply(l, base) - b
  BY <1>2 DEF Pays
<1>4. l1[seller][quote].available + q < Word
  <2>1. PICK h : h = Spend(l1, buyer, quote, q)
    OBVIOUS
  <2>2. Pays(l1, h, buyer, quote, q)
    BY <1>2, <1>3, <2>1, SpendPays
  <2>3. /\ h \in Ledgers /\ Supply(h, quote) = Supply(l, quote) - q
        /\ h[seller][quote].available = l1[seller][quote].available
    BY <1>3, <2>2 DEF Pays
  <2>4. /\ h[seller][quote].available \in Nat /\ h[seller][quote].reserved \in Nat
        /\ Has(h, seller, quote) <= Supply(h, quote) /\ Supply(h, quote) \in Nat
    BY <2>3, SupplyHolds
  <2>5. Supply(l, quote) \in Nat
    BY SupplyHolds
  <2> QED BY <1>0, <2>3, <2>4, <2>5 DEF Has
<1>5. PICK l2 : l2 = Credit(l1, seller, quote, q)
  OBVIOUS
<1>6. Receives(l1, l2, seller, quote, q) /\ l2 \in Ledgers
  <2>1. Receives(l1, l2, seller, quote, q)
    BY <1>2, <1>4, <1>5, CreditReceives
  <2> QED BY <2>1 DEF Receives
<1>7. q <= l2[buyer][quote].reserved /\ Supply(l2, base) = Supply(l, base) - b
  BY <1>3, <1>6 DEF Receives
<1>8. PICK l3 : l3 = Spend(l2, buyer, quote, q)
  OBVIOUS
<1>9. Pays(l2, l3, buyer, quote, q) /\ l3 \in Ledgers
  <2>1. Pays(l2, l3, buyer, quote, q)
    BY <1>6, <1>7, <1>8, SpendPays
  <2> QED BY <2>1 DEF Pays
<1>10. l3[buyer][base].available + b < Word
  <2>1. Supply(l3, base) = Supply(l, base) - b
    BY <1>7, <1>9 DEF Pays
  <2>2. /\ l3[buyer][base].available \in Nat /\ l3[buyer][base].reserved \in Nat
        /\ Has(l3, buyer, base) <= Supply(l3, base) /\ Supply(l3, base) \in Nat
    BY <1>9, SupplyHolds
  <2>3. Supply(l, base) \in Nat
    BY SupplyHolds
  <2> QED BY <1>0, <2>1, <2>2, <2>3 DEF Has
<1>11. m = Credit(l3, buyer, base, b)
  BY <1>1, <1>5, <1>8 DEF SettleFill
<1>12. Receives(l3, m, buyer, base, b)
  BY <1>9, <1>10, <1>11, CreditReceives
<1>13. m \in Ledgers
  BY <1>12 DEF Receives
<1>14. \A v \in Users, s \in Tokens :
         m[v][s].reserved = IF v = seller /\ s = base THEN l[v][s].reserved - b
                            ELSE IF v = buyer /\ s = quote THEN l[v][s].reserved - q
                            ELSE l[v][s].reserved
  <2> SUFFICES ASSUME NEW v \in Users, NEW s \in Tokens
               PROVE  m[v][s].reserved = IF v = seller /\ s = base THEN l[v][s].reserved - b
                                         ELSE IF v = buyer /\ s = quote THEN l[v][s].reserved - q
                                         ELSE l[v][s].reserved
    OBVIOUS
  <2>1. m[v][s].reserved = l3[v][s].reserved /\ l2[v][s].reserved = l1[v][s].reserved
    BY <1>6, <1>12 DEF Receives
  <2>2. l3[v][s].reserved = IF v = buyer /\ s = quote THEN l2[v][s].reserved - q ELSE l2[v][s].reserved
    BY <1>9 DEF Pays
  <2>3. l1[v][s].reserved = IF v = seller /\ s = base THEN l[v][s].reserved - b ELSE l[v][s].reserved
    BY <1>2 DEF Pays
  <2> QED BY <2>1, <2>2, <2>3
<1>15. \A s \in Tokens : Supply(m, s) = Supply(l, s)
  <2> SUFFICES ASSUME NEW s \in Tokens PROVE Supply(m, s) = Supply(l, s)
    OBVIOUS
  <2>1. PICK x \in Nat : x = Supply(l, s)
    BY SupplyHolds
  <2>2. Supply(l1, s) = IF s = base THEN x - b ELSE x
    BY <1>2, <2>1 DEF Pays
  <2>3. Supply(l2, s) = IF s = quote THEN Supply(l1, s) + q ELSE Supply(l1, s)
    BY <1>6 DEF Receives
  <2>4. Supply(l3, s) = IF s = quote THEN Supply(l2, s) - q ELSE Supply(l2, s)
    BY <1>9 DEF Pays
  <2>5. Supply(m, s) = IF s = base THEN Supply(l3, s) + b ELSE Supply(l3, s)
    BY <1>12 DEF Receives
  <2>6. CASE s = base
    BY <1>0, <2>1, <2>2, <2>3, <2>4, <2>5, <2>6
  <2>7. CASE s # base
    BY <1>0, <2>1, <2>2, <2>3, <2>4, <2>5, <2>7
  <2> QED BY <2>6, <2>7
<1> QED BY <1>13, <1>14, <1>15

-----------------------------------------------------------------------------
(* What is reserved covers what is open: orders and rows.                  *)

\* Clients sign orders for the two tokens this gateway trades.
OwnPair ==
  /\ base_token # quote_token
  /\ \A o \in SignedOrders : o.base_token = base_token /\ o.quote_token = quote_token

\* A word holds what an order is worth, and all that was deposited of a token.
WordsSuffice ==
  /\ \A o \in SignedOrders : o.quantity * o.price < Word
  /\ \A token \in Tokens : Supply(Deposits, token) < Word

\* What the order of a row can still be charged, after these trades.
Charge(rows, user, side, trades, id) ==
  IF /\ id \in DOMAIN rows /\ rows[id].status = "resting"
     /\ rows[id].order.maker = user /\ rows[id].order.side = side
  THEN Collateral(side, rows[id].order.price,
                  rows[id].order.quantity - TradedIn(rows[id].order, trades))
  ELSE 0

\* And those of all rows of a user.
Owed(rows, user, side, trades) ==
  SumFunctionOnSet([id \in 1..MaxId |-> Charge(rows, user, side, trades, id)], 1..MaxId)

\* No order traded more than it asks for.
Within(trades) == \A order \in SignedOrders : TradedIn(order, trades) \in 0..order.quantity

\* The gateway's tokens, and the one a new order reserves.
LEMMA OwnTokens ==
  ASSUME OwnPair
  PROVE  /\ \A side : PairToken(side) \in Tokens
         /\ \A side, other \in Sides : PairToken(side) = PairToken(other) => side = other
         /\ \A o \in SignedOrders : OwnToken(o) = PairToken(o.side)
<1>1. \A side : PairToken(side) \in Tokens
  BY GatewayAssumption DEF PairToken
<1>2. \A side, other \in Sides : PairToken(side) = PairToken(other) => side = other
  BY DEF OwnPair, PairToken, Sides
<1>3. \A o \in SignedOrders : OwnToken(o) = PairToken(o.side)
  BY DEF OwnPair, OwnToken, PairToken
<1> QED BY <1>1, <1>2, <1>3

\* What part of a signed order costs is a number, a word, and grows with the part.
LEMMA PartCosts ==
  ASSUME WordsSuffice, NEW o \in SignedOrders, NEW side, NEW q \in Nat, q <= o.quantity,
         NEW part \in Nat, part <= q
  PROVE  /\ Collateral(side, o.price, q) \in Amounts /\ Collateral(side, o.price, part) \in Amounts
         /\ Collateral(side, o.price, q - part) \in Amounts /\ Amounts \subseteq Nat
         /\ Collateral(side, o.price, q - part) + Collateral(side, o.price, part)
              <= Collateral(side, o.price, q)
         /\ o.price \in Nat /\ q * o.price < Word /\ q < Word
<1>1. PICK p \in Nat, whole \in Nat : p = o.price /\ whole = o.quantity /\ whole \in Amounts
  BY SignedTyped, OrderTyped
<1>2. whole * p < Word /\ whole < Word /\ Word \in Nat
  BY <1>1, WordAssumption DEF WordsSuffice, Amounts
<1>3. q * p \in Nat /\ whole * p \in Nat /\ q * p <= whole * p
  BY <1>1, ProductGrows
<1>4. q * p < Word /\ q < Word
  <2>1. PICK a \in Nat, c \in Nat : a = q * p /\ c = whole * p
    BY <1>3
  <2>2. a < Word
    BY <1>2, <1>3, <2>1
  <2> QED BY <1>1, <1>2, <2>1, <2>2
<1>5. /\ Collateral(side, p, q) \in Amounts /\ Collateral(side, p, part) \in Amounts
      /\ Collateral(side, p, q - part) \in Amounts /\ Amounts \subseteq Nat
      /\ Collateral(side, p, q - part) + Collateral(side, p, part) <= Collateral(side, p, q)
  BY <1>4, CollateralSplits
<1> QED BY <1>1, <1>4, <1>5

\* The trades made so far, with those of the running submission or without.
LEMMA TradesWithin ==
  ASSUME IInv, Accounted
  PROVE  Within(AllTrades) /\ Within(db.trades)
<1>1. \A order \in SignedOrders :
        /\ TradedIn(order, AllTrades) \in Nat /\ TradedIn(order, db.trades) \in Nat /\ order.quantity \in Nat
        /\ TradedIn(order, AllTrades) <= order.quantity
  BY AllTradesTyped DEF Accounted
<1>2. \A order : TradedIn(order, db.trades) <= TradedIn(order, AllTrades)
  <2>1. CASE handling = NoOrder
    <3>1. AllTrades = db.trades
      BY <2>1 DEF AllTrades
    <3>2. \A order : TradedIn(order, db.trades) \in Nat
      BY AllTradesTyped
    <3> QED BY <3>1, <3>2
  <2>2. CASE handling # NoOrder
    <3>1. AllTrades = db.trades \o Trades
      BY <2>2 DEF AllTrades
    <3>2. Trades \in Seq(StoredTrades) /\ db.trades \in Seq(StoredTrades)
      BY <2>2, TradesTyped, AllTradesTyped
    <3> QED BY <3>1, <3>2, TradedBefore
  <2> QED BY <2>1, <2>2
<1>3. \A a, b, c \in Nat : a <= b /\ b <= c => a \in 0..c /\ b \in 0..c
  OBVIOUS
<1> QED BY <1>1, <1>2, <1>3 DEF Within

\* Charges are numbers, none larger than all together.
LEMMA ChargesTyped ==
  ASSUME WordsSuffice, NEW rows, RowsSound(rows), NEW trades, Within(trades), NEW user, NEW side
  PROVE  /\ IsFiniteSet(1..MaxId) /\ DOMAIN rows \subseteq 1..MaxId
         /\ \A id \in 1..MaxId : Charge(rows, user, side, trades, id) \in Nat
         /\ Owed(rows, user, side, trades) \in Nat
         /\ \A id \in 1..MaxId : Charge(rows, user, side, trades, id) <= Owed(rows, user, side, trades)
<1>1. IsFiniteSet(1..MaxId) /\ DOMAIN rows \subseteq 1..MaxId
  <2>1. \A a, b \in Int : IsFiniteSet(a..b)
    BY FS_Interval
  <2> QED BY <2>1, GatewayAssumption DEF RowsSound
<1>2. ASSUME NEW id \in 1..MaxId PROVE Charge(rows, user, side, trades, id) \in Nat
  <2>1. CASE id \in DOMAIN rows
    <3>1. PICK o \in SignedOrders : o = rows[id].order
      BY <2>1 DEF RowsSound, RowRecords
    <3>2. PICK whole \in Nat, part \in Nat : whole = o.quantity /\ part = TradedIn(o, trades) /\ part <= whole
      BY SignedTyped, OrderTyped DEF Within
    <3>3. Collateral(side, o.price, whole - part) \in Amounts /\ Amounts \subseteq Nat
      <4>1. whole <= o.quantity
        BY <3>2
      <4> QED BY <3>2, <4>1, PartCosts
    <3> QED BY <3>1, <3>2, <3>3 DEF Charge
  <2>2. CASE id \notin DOMAIN rows
    BY <2>2 DEF Charge
  <2> QED BY <2>1, <2>2
<1>3. PICK f : f = [id \in 1..MaxId |-> Charge(rows, user, side, trades, id)]
  OBVIOUS
<1>4. \A id \in 1..MaxId : f[id] = Charge(rows, user, side, trades, id) /\ f[id] \in Nat
  BY <1>2, <1>3
<1>5. Owed(rows, user, side, trades) = SumFunctionOnSet(f, 1..MaxId)
  BY <1>3 DEF Owed
<1>6. SumFunctionOnSet(f, 1..MaxId) \in Nat /\ \A id \in 1..MaxId : f[id] <= SumFunctionOnSet(f, 1..MaxId)
  BY <1>1, <1>4, SumNat, SumHolds
<1> QED BY <1>1, <1>2, <1>4, <1>5, <1>6

\* When no charge grows, what is owed does not.
LEMMA OwedBelow ==
  ASSUME WordsSuffice, NEW rows, RowsSound(rows), NEW trades, Within(trades),
         NEW next, RowsSound(next), NEW more, Within(more), NEW user, NEW side,
         \A id \in 1..MaxId : Charge(next, user, side, more, id) <= Charge(rows, user, side, trades, id)
  PROVE  Owed(next, user, side, more) <= Owed(rows, user, side, trades)
<1>1. PICK f, g : /\ f = [id \in 1..MaxId |-> Charge(rows, user, side, trades, id)]
                  /\ g = [id \in 1..MaxId |-> Charge(next, user, side, more, id)]
  OBVIOUS
<1>2. IsFiniteSet(1..MaxId) /\ \A id \in 1..MaxId : f[id] \in Nat /\ g[id] \in Nat /\ g[id] <= f[id]
  BY <1>1, ChargesTyped
<1>3. SumFunctionOnSet(g, 1..MaxId) <= SumFunctionOnSet(f, 1..MaxId)
  BY <1>2, SumBelow
<1> QED BY <1>1, <1>3 DEF Owed

\* When one row is charged more, or less, by a number, so are all together.
LEMMA OwedMoves ==
  ASSUME WordsSuffice, NEW rows, RowsSound(rows), NEW trades, Within(trades),
         NEW next, RowsSound(next), NEW more, Within(more), NEW user, NEW side,
         NEW id \in 1..MaxId, NEW d \in Int,
         Charge(next, user, side, more, id) <= Charge(rows, user, side, trades, id) + d,
         \A x \in 1..MaxId \ {id} :
           Charge(next, user, side, more, x) <= Charge(rows, user, side, trades, x)
  PROVE  Owed(next, user, side, more) <= Owed(rows, user, side, trades) + d
<1>1. PICK f, g : /\ f = [x \in 1..MaxId |-> Charge(rows, user, side, trades, x)]
                  /\ g = [x \in 1..MaxId |-> Charge(next, user, side, more, x)]
  OBVIOUS
<1>2. /\ IsFiniteSet(1..MaxId) /\ \A x \in 1..MaxId : f[x] \in Nat /\ g[x] \in Nat
      /\ g[id] <= f[id] + d /\ \A x \in 1..MaxId \ {id} : g[x] <= f[x]
  BY <1>1, ChargesTyped
<1>3. SumFunctionOnSet(g, 1..MaxId) <= SumFunctionOnSet(f, 1..MaxId) + d
  BY <1>2, SumMoves
<1> QED BY <1>1, <1>3 DEF Owed

\* What the running taker needs is a number.
LEMMA ClaimTyped ==
  ASSUME IInv, WordsSuffice
  PROVE  /\ \A user, side : Claimed(user, side) \in Nat
         /\ handling # NoOrder => Claimed(handling.maker, handling.side)
                                    = Collateral(handling.side, handling.price, taker.remaining)
<1>1. CASE handling = NoOrder
  BY <1>1 DEF Claimed
<1>2. CASE handling # NoOrder
  <2>1. /\ handling \in SignedOrders /\ taker.remaining \in Nat /\ taker.remaining <= handling.quantity
        /\ taker.price = handling.price
    BY <1>2, TakerFacts DEF IInv, TakerHandled
  <2>2. \A side : Collateral(side, handling.price, taker.remaining) \in Nat
    <3> SUFFICES ASSUME NEW side PROVE Collateral(side, handling.price, taker.remaining) \in Nat
      OBVIOUS
    <3>1. 0 <= taker.remaining
      BY <2>1
    <3> QED BY <2>1, <3>1, PartCosts
  <2> QED BY <1>2, <2>1, <2>2 DEF Claimed
<1> QED BY <1>1, <1>2

-----------------------------------------------------------------------------
(* What is reserved covers what is open: a fill.                           *)

\* What the maker is charged for a fill.
MakerPays(m, qty) == Collateral(m.side, m.price, qty)

\* What the taker is charged: a buyer pays and frees the surplus of its limit.
TakerPays(m, qty) ==
  IF handling.side = "buy" THEN QuoteAmount(qty, m.price) + Surplus(handling, FillOf(m, qty)) ELSE qty

\* A fill is not beyond the price of the taker.
LEMMA FillPriced ==
  ASSUME IInv, MarketPriceProtected', NEW m, NEW qty, FillStep(m, qty)
  PROVE  Accepts(taker.side, taker.price, m.price)
<1>1. taker.type \in {"limit", "market"} /\ taker.fills \in Seq(Engine!Fills)
  BY TakerFacts DEF FillStep
<1>2. CASE taker.type = "limit"
  BY <1>2 DEF FillStep
<1>3. CASE taker.type = "market"
  <2>1. /\ handling' # NoOrder /\ taker'.type = "market" /\ taker'.side = taker.side
        /\ taker'.price = taker.price /\ taker'.fills = Append(taker.fills, FillOf(m, qty))
    BY <1>3 DEF FillStep
  <2>2. /\ Len(taker.fills) + 1 \in DOMAIN Append(taker.fills, FillOf(m, qty))
        /\ Append(taker.fills, FillOf(m, qty))[Len(taker.fills) + 1] = FillOf(m, qty)
    <3>1. Len(taker.fills) \in Nat
      BY <1>1, LenProperties
    <3> QED BY <1>1, <3>1, AppendAny
  <2>3. \A i \in DOMAIN taker'.fills : Accepts(taker'.side, taker'.price, taker'.fills[i].price)
    BY <2>1 DEF MarketPriceProtected
  <2>4. FillOf(m, qty).price = m.price
    BY DEF FillOf
  <2> QED BY <2>1, <2>2, <2>3, <2>4
<1> QED BY <1>1, <1>2, <1>3

\* The terms of the two sides of a fill.
LEMMA FillTerms ==
  ASSUME IInv, NEW m, NEW qty, FillStep(m, qty)
  PROVE  /\ order_map[m.id] \in SignedOrders /\ handling \in SignedOrders
         /\ order_map[m.id].side = m.side /\ order_map[m.id].price = m.price
         /\ m.quantity \in Nat /\ m.quantity <= order_map[m.id].quantity
         /\ qty \in Nat /\ qty # 0 /\ qty <= m.quantity /\ qty <= taker.remaining
         /\ taker.remaining \in Nat /\ taker.remaining <= handling.quantity
         /\ taker.side = handling.side /\ taker.price = handling.price
         /\ m.side = Opposite(handling.side) /\ handling.side \in Sides /\ m.side # handling.side
         /\ order_map[m.id].maker \in Users /\ handling.maker \in Users
         /\ m.price \in Nat /\ handling.price \in Nat /\ handling # NoOrder
<1>1. order_map[m.id] \in SignedOrders /\ handling \in SignedOrders
  BY FillTrades
<1>2. KnownAs(m, order_map) /\ m \in EngineOrders
  BY DEF FillStep, IInv, BookKnown
<1>3. /\ taker.remaining \in Nat /\ taker.remaining <= handling.quantity
      /\ taker.side = handling.side /\ taker.price = handling.price
  BY TakerFacts DEF FillStep, IInv, TakerHandled
<1>4. /\ order_map[m.id].maker \in Users /\ handling.maker \in Users /\ handling.side \in Sides
      /\ order_map[m.id].price \in Nat /\ handling.price \in Nat
  BY <1>1, SignedTyped, OrderTyped
<1>5. m.side = Opposite(handling.side) /\ m.side # handling.side
  BY <1>3, <1>4 DEF FillStep, Opposite, Sides
<1>6. m.quantity \in Nat
  BY <1>2 DEF EngineOrders
<1> QED BY <1>1, <1>2, <1>3, <1>4, <1>5, <1>6 DEF KnownAs, FillStep

\* The amounts of a fill are words, and for each side what is left costs no
\* more than what was open less what was paid.
LEMMA FillPays ==
  ASSUME IInv, WordsSuffice, MarketPriceProtected', NEW m, NEW qty, FillStep(m, qty)
  PROVE  /\ qty \in Amounts /\ QuoteAmount(qty, m.price) \in Amounts /\ Amounts \subseteq Nat
         /\ Surplus(handling, FillOf(m, qty)) \in Amounts
         /\ MakerPays(m, qty) \in Nat /\ TakerPays(m, qty) \in Nat
         /\ Collateral(m.side, m.price, m.quantity) \in Nat
         /\ Collateral(m.side, m.price, m.quantity - qty) \in Nat
         /\ Collateral(m.side, m.price, m.quantity - qty) + MakerPays(m, qty)
              <= Collateral(m.side, m.price, m.quantity)
         /\ Collateral(handling.side, handling.price, taker.remaining) \in Nat
         /\ Collateral(handling.side, handling.price, taker.remaining - qty) \in Nat
         /\ Collateral(handling.side, handling.price, taker.remaining - qty) + TakerPays(m, qty)
              <= Collateral(handling.side, handling.price, taker.remaining)
<1>1. PICK mk \in SignedOrders : mk = order_map[m.id] /\ m.price = mk.price /\ m.side = mk.side
                                 /\ m.quantity \in Nat /\ m.quantity <= mk.quantity
                                 /\ qty \in Nat /\ qty <= m.quantity
  BY FillTerms
<1>2. /\ Collateral(m.side, m.price, m.quantity) \in Amounts /\ MakerPays(m, qty) \in Amounts
      /\ Collateral(m.side, m.price, m.quantity - qty) \in Amounts /\ Amounts \subseteq Nat
      /\ Collateral(m.side, m.price, m.quantity - qty) + MakerPays(m, qty)
           <= Collateral(m.side, m.price, m.quantity)
      /\ qty \in Amounts
  <2>1. /\ Collateral(m.side, mk.price, m.quantity) \in Amounts /\ Collateral(m.side, mk.price, qty) \in Amounts
        /\ Collateral(m.side, mk.price, m.quantity - qty) \in Amounts /\ Amounts \subseteq Nat
        /\ Collateral(m.side, mk.price, m.quantity - qty) + Collateral(m.side, mk.price, qty)
             <= Collateral(m.side, mk.price, m.quantity)
        /\ m.quantity < Word
    BY <1>1, PartCosts
  <2>2. qty \in Amounts
    BY <1>1, <2>1, WordAssumption DEF Amounts
  <2> QED BY <1>1, <2>1, <2>2 DEF MakerPays
<1>3. PICK rem \in Nat, limit \in Nat, p \in Nat :
        /\ rem = taker.remaining /\ limit = handling.price /\ p = m.price
        /\ qty <= rem /\ rem <= handling.quantity /\ handling \in SignedOrders /\ handling.side \in Sides
  BY FillTerms
<1>4. /\ \A side : /\ Collateral(side, limit, rem) \in Amounts
                   /\ Collateral(side, limit, rem - qty) \in Amounts
      /\ rem * limit < Word /\ rem < Word
  <2>1. \A side : /\ Collateral(side, handling.price, rem) \in Amounts
                  /\ Collateral(side, handling.price, rem - qty) \in Amounts
    BY <1>1, <1>3, PartCosts
  <2>2. rem * handling.price < Word /\ rem < Word
    <3>1. 0 \in Nat /\ 0 <= rem
      BY <1>3
    <3> QED BY <1>3, <3>1, PartCosts
  <2> QED BY <1>3, <2>1, <2>2
<1>5. CASE handling.side = "sell"
  <2>1. TakerPays(m, qty) = qty /\ Surplus(handling, FillOf(m, qty)) = 0
    BY <1>5 DEF TakerPays, Surplus
  <2>2. \A x : Collateral(handling.side, limit, x) = x
    BY <1>5 DEF Collateral
  <2>3. 0 \in Amounts /\ QuoteAmount(qty, p) \in Amounts
    <3>1. QuoteAmount(qty, p) \in Amounts
      BY <1>1, <1>3, AmountsTyped
    <3> QED BY <3>1, WordAssumption DEF Amounts
  <2>4. (rem - qty) + qty <= rem
    BY <1>1, <1>3
  <2> QED BY <1>1, <1>2, <1>3, <1>4, <2>1, <2>2, <2>3, <2>4
<1>6. CASE handling.side = "buy"
  <2>1. p <= limit
    <3>1. Accepts("buy", limit, p)
      BY <1>3, <1>6, FillPriced, FillTerms
    <3> QED BY <3>1 DEF Accepts
  <2>2. /\ QuoteAmount(qty, p) \in Amounts /\ QuoteAmount(qty, limit - p) \in Amounts
        /\ Collateral("buy", limit, rem - qty) + QuoteAmount(qty, p) + QuoteAmount(qty, limit - p)
             <= Collateral("buy", limit, rem)
    BY <1>1, <1>3, <1>4, <2>1, SurplusSplits
  <2>3. PICK sur : sur = Surplus(handling, FillOf(m, qty))
    OBVIOUS
  <2>4. sur = IF p < limit THEN QuoteAmount(qty, limit - p) ELSE 0
    BY <1>3, <1>6, <2>3 DEF Surplus, FillOf
  <2>5. sur \in Amounts /\ sur <= QuoteAmount(qty, limit - p)
    <3>1. 0 \in Amounts /\ QuoteAmount(qty, limit - p) \in Nat /\ Amounts \subseteq Nat
      BY <1>2, <2>2, WordAssumption DEF Amounts
    <3> QED BY <2>2, <2>4, <3>1
  <2>6. TakerPays(m, qty) = QuoteAmount(qty, p) + sur
    BY <1>3, <1>6, <2>3 DEF TakerPays
  <2>7. PICK a \in Nat, b \in Nat, c \in Nat, d \in Nat, e \in Nat :
          /\ a = QuoteAmount(qty, p) /\ b = QuoteAmount(qty, limit - p) /\ c = sur
          /\ d = Collateral("buy", limit, rem - qty) /\ e = Collateral("buy", limit, rem)
    BY <1>2, <1>4, <2>2, <2>5
  <2>8. a + c \in Nat /\ d + (a + c) <= e
    BY <2>2, <2>5, <2>7
  <2> QED BY <1>1, <1>2, <1>3, <1>4, <1>6, <2>2, <2>3, <2>5, <2>6, <2>7, <2>8
<1> QED BY <1>3, <1>5, <1>6 DEF Sides

\* What a fill does to the ledger, when both sides have reserved what they pay.
LEMMA FillMoves ==
  ASSUME IInv, IsFiniteSet(Users), OwnPair, WordsSuffice, MarketPriceProtected',
         NEW m, NEW qty, FillStep(m, qty), NEW mu, mu = order_map[m.id].maker, NEW hu, hu = handling.maker,
         MakerPays(m, qty) <= ledger[mu][PairToken(m.side)].reserved,
         TakerPays(m, qty) <= ledger[hu][PairToken(handling.side)].reserved,
         \A token \in Tokens : Supply(ledger, token) = Supply(Deposits, token)
  PROVE  /\ ledger' \in Ledgers
         /\ \A token \in Tokens : Supply(ledger', token) = Supply(ledger, token)
         /\ \A u \in Users, side \in Sides :
              ledger'[u][PairToken(side)].reserved =
                IF u = mu /\ side = m.side THEN ledger[u][PairToken(side)].reserved - MakerPays(m, qty)
                ELSE IF u = hu /\ side = handling.side
                     THEN ledger[u][PairToken(side)].reserved - TakerPays(m, qty)
                ELSE ledger[u][PairToken(side)].reserved
<1>1. /\ mu \in Users /\ hu \in Users /\ m.side = Opposite(handling.side) /\ handling.side \in Sides
      /\ m.side # handling.side
  BY FillTerms
<1>2. PICK quote \in Amounts, sur \in Amounts :
        quote = QuoteAmount(qty, m.price) /\ sur = Surplus(handling, FillOf(m, qty)) /\ qty \in Amounts
  BY FillPays
<1>3. Amounts \subseteq Nat /\ Word \in Nat
  BY WordAssumption DEF Amounts
<1>4. base_token \in Tokens /\ quote_token \in Tokens /\ base_token # quote_token
  BY GatewayAssumption DEF OwnPair
<1>5. PICK l \in Ledgers : l = ledger
  BY DEF IInv, Typed
<1>6. \A token \in Tokens : Supply(l, token) < Word
  BY <1>5 DEF WordsSuffice
<1>7. PICK seller \in Users, buyer \in Users :
        /\ seller = IF handling.side = "buy" THEN mu ELSE hu
        /\ buyer = IF handling.side = "buy" THEN hu ELSE mu
  BY <1>1
<1>8. PICK settled : settled = SettleFill(l, seller, buyer, base_token, quote_token, qty, quote)
  OBVIOUS
<1>9. ledger' = Release(settled, hu, quote_token, sur)
  <2>1. ledger' = LedgerAfterFill(handling, mu, FillOf(m, qty))
    BY DEF FillStep
  <2>2. FillOf(m, qty).quantity = qty /\ FillOf(m, qty).price = m.price
    BY DEF FillOf
  <2> QED BY <1>2, <1>5, <1>7, <1>8, <2>1, <2>2 DEF LedgerAfterFill
<1>10. /\ qty <= l[seller][base_token].reserved
       /\ quote + sur <= IF handling.side = "buy" THEN l[buyer][quote_token].reserved ELSE quote + sur
       /\ quote <= l[buyer][quote_token].reserved
       /\ MakerPays(m, qty) = IF handling.side = "buy" THEN qty ELSE quote
       /\ TakerPays(m, qty) = IF handling.side = "buy" THEN quote + sur ELSE qty
       /\ sur = IF handling.side = "buy" THEN sur ELSE 0
  <2>1. l[buyer][quote_token].reserved \in Nat
    BY <1>3, <1>4, LedgersAt
  <2>2. quote \in Nat /\ sur \in Nat /\ qty \in Nat
    BY <1>2, <1>3
  <2>3. CASE handling.side = "buy"
    <3>1. m.side = "sell"
      BY <1>1, <2>3 DEF Opposite
    <3>2. MakerPays(m, qty) = qty /\ TakerPays(m, qty) = quote + sur
      BY <1>2, <2>3, <3>1 DEF MakerPays, TakerPays, Collateral
    <3>3. PairToken(m.side) = base_token /\ PairToken(handling.side) = quote_token
      BY <2>3, <3>1 DEF PairToken
    <3>4. seller = mu /\ buyer = hu
      BY <1>7, <2>3
    <3> QED BY <1>5, <2>1, <2>2, <2>3, <3>2, <3>3, <3>4
  <2>4. CASE handling.side = "sell"
    <3>1. m.side = "buy"
      BY <1>1, <2>4 DEF Opposite
    <3>2. MakerPays(m, qty) = quote /\ TakerPays(m, qty) = qty /\ sur = 0
      BY <1>2, <2>4, <3>1 DEF MakerPays, TakerPays, Collateral, Surplus
    <3>3. PairToken(m.side) = quote_token /\ PairToken(handling.side) = base_token
      BY <2>4, <3>1 DEF PairToken
    <3>4. seller = hu /\ buyer = mu
      BY <1>7, <2>4
    <3> QED BY <1>5, <2>1, <2>2, <2>4, <3>2, <3>3, <3>4
  <2> QED BY <1>1, <2>3, <2>4 DEF Sides
<1>11. /\ settled \in Ledgers
       /\ \A v \in Users, s \in Tokens :
            settled[v][s].reserved = IF v = seller /\ s = base_token THEN l[v][s].reserved - qty
                                     ELSE IF v = buyer /\ s = quote_token THEN l[v][s].reserved - quote
                                     ELSE l[v][s].reserved
       /\ \A s \in Tokens : Supply(settled, s) = Supply(l, s)
  BY <1>2, <1>4, <1>6, <1>8, <1>10, SettleMoves
<1>12. sur <= settled[hu][quote_token].reserved
  <2>1. settled[hu][quote_token].reserved \in Nat
    BY <1>1, <1>3, <1>4, <1>11, LedgersAt
  <2>2. CASE handling.side = "buy"
    <3>1. settled[hu][quote_token].reserved = l[hu][quote_token].reserved - quote
      BY <1>1, <1>4, <1>7, <1>11, <2>2
    <3>2. l[hu][quote_token].reserved \in Nat
      BY <1>1, <1>3, <1>4, LedgersAt
    <3>3. quote + sur <= l[hu][quote_token].reserved
      BY <1>7, <1>10, <2>2
    <3>4. quote \in Nat /\ sur \in Nat
      BY <1>3
    <3> QED BY <3>1, <3>2, <3>3, <3>4
  <2>3. CASE handling.side # "buy"
    BY <1>10, <2>1, <2>3
  <2> QED BY <2>2, <2>3
<1>13. /\ ledger' \in Ledgers
       /\ \A v \in Users, s \in Tokens :
            ledger'[v][s].reserved = IF v = hu /\ s = quote_token THEN settled[v][s].reserved - sur
                                     ELSE settled[v][s].reserved
       /\ \A s \in Tokens : Supply(ledger', s) = Supply(settled, s)
  <2>1. Supply(settled, quote_token) < Word
    BY <1>4, <1>6, <1>11
  <2> QED BY <1>1, <1>4, <1>9, <1>11, <1>12, <2>1, ReleaseMoves
<1>14. \A token \in Tokens : Supply(ledger', token) = Supply(ledger, token)
  BY <1>5, <1>11, <1>13
<1>15. ASSUME NEW u \in Users, NEW side \in Sides
       PROVE  ledger'[u][PairToken(side)].reserved =
                IF u = mu /\ side = m.side THEN ledger[u][PairToken(side)].reserved - MakerPays(m, qty)
                ELSE IF u = hu /\ side = handling.side
                     THEN ledger[u][PairToken(side)].reserved - TakerPays(m, qty)
                ELSE ledger[u][PairToken(side)].reserved
  <2>1. PICK t \in Tokens : t = PairToken(side) /\ (t = quote_token <=> side = "buy")
                            /\ (t = base_token <=> side = "sell")
    BY <1>4 DEF PairToken, Sides
  <2>2. PICK r \in Nat : r = l[u][t].reserved
    BY <1>3, LedgersAt
  <2>3. settled[u][t].reserved = IF u = seller /\ t = base_token THEN r - qty
                                 ELSE IF u = buyer /\ t = quote_token THEN r - quote ELSE r
    BY <1>11, <2>2
  <2>4. ledger'[u][t].reserved = IF u = hu /\ t = quote_token THEN settled[u][t].reserved - sur
                                 ELSE settled[u][t].reserved
    BY <1>13
  <2>5. quote \in Nat /\ sur \in Nat /\ qty \in Nat
    BY <1>2, <1>3
  <2>6. CASE handling.side = "buy"
    <3>1. m.side = "sell" /\ seller = mu /\ buyer = hu /\ MakerPays(m, qty) = qty
          /\ TakerPays(m, qty) = quote + sur
      BY <1>1, <1>7, <1>10, <2>6 DEF Opposite
    <3>2. CASE side = "buy"
      BY <1>4, <1>5, <2>1, <2>2, <2>3, <2>4, <2>5, <2>6, <3>1, <3>2
    <3>3. CASE side = "sell"
      BY <1>4, <1>5, <2>1, <2>2, <2>3, <2>4, <2>5, <2>6, <3>1, <3>3
    <3> QED BY <3>2, <3>3 DEF Sides
  <2>7. CASE handling.side = "sell"
    <3>1. m.side = "buy" /\ seller = hu /\ buyer = mu /\ MakerPays(m, qty) = quote
          /\ TakerPays(m, qty) = qty /\ sur = 0
      BY <1>1, <1>7, <1>10, <2>7 DEF Opposite
    <3>2. CASE side = "buy"
      BY <1>4, <1>5, <2>1, <2>2, <2>3, <2>4, <2>5, <2>7, <3>1, <3>2
    <3>3. CASE side = "sell"
      BY <1>4, <1>5, <2>1, <2>2, <2>3, <2>4, <2>5, <2>7, <3>1, <3>3
    <3> QED BY <3>2, <3>3 DEF Sides
  <2> QED BY <1>1, <2>6, <2>7 DEF Sides
<1> QED BY <1>13, <1>14, <1>15

\* Whatever the rows and the running taker can still be charged is reserved.
LedgerCovers ==
  to_restore # NotLoaded =>
    \A user \in Users, side \in Sides :
      ledger[user][PairToken(side)].reserved >=
        Claimed(user, side) + Owed(db.orders, user, side, AllTrades)

\* The stored balances cover the stored rows.
RowsCovered ==
  \A user \in Users, side \in Sides :
    db.balances[user][PairToken(side)].reserved >= Owed(db.orders, user, side, db.trades)

\* FundsConserved, from the moment the balances are read.
Conserved ==
  \A token \in Tokens :
    /\ to_restore # NotLoaded => Supply(ledger, token) = Supply(Deposits, token)
    /\ Supply(db.balances, token) = Supply(Deposits, token)

\* All of it: an amount that is charged is there, and nothing is made or lost.
FundsInv == LedgerCovers /\ RowsCovered /\ Conserved

\* What the steps of the funds rest on.
Booked == IInv /\ OnceInv /\ RowsNamed /\ Accounted /\ BookRows

\* A row's order is not the one handled, and no two rows hold the same order.
LEMMA RowsApart ==
  ASSUME Booked
  PROVE  /\ \A id \in DOMAIN db.orders :
              db.orders[id].order \in SignedOrders /\ db.orders[id].order # handling
         /\ \A o \in OrdersIn(book) :
              /\ o.id \in DOMAIN db.orders /\ o.id \in 1..MaxId /\ o.id \in DOMAIN order_map
              /\ db.orders[o.id].order = order_map[o.id] /\ db.orders[o.id].status = "resting"
              /\ order_map[o.id] \in SignedOrders
              /\ order_map[o.id].side = o.side /\ order_map[o.id].price = o.price
              /\ \A x \in DOMAIN db.orders : x # o.id => db.orders[x].order # order_map[o.id]
<1>1. ASSUME NEW id \in DOMAIN db.orders
      PROVE  db.orders[id].order \in SignedOrders /\ db.orders[id].order # handling
  <2>1. db.orders[id].order \in SignedOrders
    BY InstantsTyped DEF Booked
  <2>2. CASE handling # NoOrder
    BY <2>1, <2>2 DEF Booked, OnceInv, Remembered, TurnedDown
  <2>3. CASE handling = NoOrder
    BY <2>1, <2>3, SignedTyped
  <2> QED BY <2>1, <2>2, <2>3
<1>2. DOMAIN db.orders \subseteq 1..MaxId
  BY DEF Booked, IInv, Stored, RowsSound
<1>3. ASSUME NEW o \in OrdersIn(book)
      PROVE  /\ o.id \in DOMAIN db.orders /\ o.id \in DOMAIN order_map
             /\ db.orders[o.id].order = order_map[o.id] /\ db.orders[o.id].status = "resting"
             /\ order_map[o.id] \in SignedOrders
             /\ order_map[o.id].side = o.side /\ order_map[o.id].price = o.price
  <2>1. KnownAs(o, order_map)
    BY DEF Booked, IInv, BookKnown
  <2>2. o.id \in DOMAIN db.orders /\ db.orders[o.id].status = "resting"
    BY DEF Booked, BookRows, RestingRows
  <2>3. db.orders[o.id].order = order_map[o.id] /\ order_map[o.id] \in SignedOrders
    BY <2>1 DEF Booked, RowsNamed, MapRows, KnownAs, IInv, MapsAgree
  <2> QED BY <2>1, <2>2, <2>3 DEF KnownAs
<1>4. ASSUME NEW o \in OrdersIn(book), NEW x \in DOMAIN db.orders, x # o.id
      PROVE  db.orders[x].order # order_map[o.id]
  BY <1>3, <1>4 DEF Booked, RowsNamed, RowsDistinct
<1> QED BY <1>1, <1>2, <1>3, <1>4

\* The row of an order on the book is charged what the book has of it.
LEMMA BookCharge ==
  ASSUME Booked, NEW o \in OrdersIn(book), NEW user, NEW side
  PROVE  Charge(db.orders, user, side, AllTrades, o.id) =
           IF user = order_map[o.id].maker /\ side = o.side
           THEN Collateral(o.side, o.price, o.quantity) ELSE 0
<1>1. PICK id, signed : id = o.id /\ signed = order_map[id]
  OBVIOUS
<1>2. /\ id \in DOMAIN db.orders /\ db.orders[id].order = signed /\ db.orders[id].status = "resting"
      /\ signed.side = o.side /\ signed.price = o.price
  BY <1>1, RowsApart
<1>3. signed.quantity - TradedIn(signed, AllTrades) = o.quantity
  BY <1>1 DEF Booked, Accounted, Left
<1> QED BY <1>1, <1>2, <1>3 DEF Charge

\* A fill charges the maker's row for less, and no other.
LEMMA FillCharges ==
  ASSUME Booked, NEW m, NEW qty, FillStep(m, qty), NEW user, NEW side
  PROVE  /\ m.id \in 1..MaxId
         /\ Charge(db.orders, user, side, AllTrades', m.id) =
              IF user = order_map[m.id].maker /\ side = m.side
              THEN Collateral(m.side, m.price, m.quantity - qty) ELSE 0
         /\ \A x \in 1..MaxId \ {m.id} :
              Charge(db.orders, user, side, AllTrades', x) = Charge(db.orders, user, side, AllTrades, x)
<1>1. PICK id, signed : id = m.id /\ signed = order_map[id]
  OBVIOUS
<1>2. m \in OrdersIn(book)
  BY DEF FillStep
<1>3. /\ id \in DOMAIN db.orders /\ db.orders[id].order = signed /\ db.orders[id].status = "resting"
      /\ signed.side = m.side /\ signed.price = m.price /\ signed \in SignedOrders /\ id \in 1..MaxId
      /\ \A x \in DOMAIN db.orders : x # id => db.orders[x].order # signed
  BY <1>1, <1>2, RowsApart
<1>4. PICK trade \in StoredTrades, trades \in Seq(StoredTrades) :
        trade = TradeOf(m, qty) /\ trades = AllTrades /\ AllTrades' = Append(trades, trade)
  <2>1. /\ TradeOf(m, qty) \in StoredTrades /\ AllTrades \in Seq(StoredTrades)
        /\ AllTrades' = Append(AllTrades, TradeOf(m, qty))
    BY FillTrades DEF Booked
  <2> QED BY <2>1
<1>5. \A order : /\ TradedIn(order, AllTrades') = TradedIn(order, trades) + Part(order, trade)
                 /\ TradedIn(order, trades) \in Nat
  BY <1>4, TradedAppended, TradedIsSum
<1>6. \A order : Part(order, trade) = IF order = signed \/ order = handling THEN qty ELSE 0
  BY <1>1, <1>4 DEF Part, TradeOf
<1>7. signed.quantity - TradedIn(signed, AllTrades') = m.quantity - qty
  <2>1. PICK q \in Nat, a \in Nat, part \in Nat :
          q = signed.quantity /\ a = TradedIn(signed, trades) /\ part = qty
    BY <1>3, <1>5, SignedTyped, OrderTyped DEF FillStep
  <2>2. q - a = m.quantity
    BY <1>1, <1>2, <1>4, <2>1 DEF Booked, Accounted, Left
  <2>3. TradedIn(signed, AllTrades') = a + part
    BY <1>5, <1>6, <2>1
  <2>4. q - (a + part) = (q - a) - part
    BY <2>1
  <2> QED BY <2>1, <2>2, <2>3, <2>4
<1>8. Charge(db.orders, user, side, AllTrades', id) =
        IF user = signed.maker /\ side = m.side THEN Collateral(m.side, m.price, m.quantity - qty) ELSE 0
  BY <1>3, <1>7 DEF Charge
<1>9. ASSUME NEW x \in 1..MaxId, x # id
      PROVE  Charge(db.orders, user, side, AllTrades', x) = Charge(db.orders, user, side, AllTrades, x)
  <2>1. CASE x \in DOMAIN db.orders
    <3>1. PICK order : order = db.orders[x].order
      OBVIOUS
    <3>2. order # signed /\ order # handling
      BY <1>3, <1>9, <2>1, <3>1, RowsApart
    <3>3. TradedIn(order, AllTrades') = TradedIn(order, trades) + 0
      BY <1>5, <1>6, <3>2
    <3>4. TradedIn(order, AllTrades') = TradedIn(order, AllTrades)
      BY <1>4, <1>5, <3>3
    <3> QED BY <3>1, <3>4 DEF Charge
  <2>2. CASE x \notin DOMAIN db.orders
    BY <2>2 DEF Charge
  <2> QED BY <2>1, <2>2
<1> QED BY <1>1, <1>3, <1>8, <1>9

\* What the running taker needs after a fill.
LEMMA FillClaim ==
  ASSUME IInv, WordsSuffice, MarketPriceProtected', NEW m, NEW qty, FillStep(m, qty), NEW user, NEW side
  PROVE  /\ Claimed(user, side)' \in Nat
         /\ Claimed(user, side)' <= Claimed(user, side)
         /\ user = handling.maker /\ side = handling.side =>
              Claimed(user, side)' + TakerPays(m, qty) <= Claimed(user, side)
<1>1. /\ handling # NoOrder /\ handling' = handling /\ taker'.price = taker.price
      /\ taker'.remaining = taker.remaining - qty /\ taker.price = handling.price
  BY FillTerms DEF FillStep
<1>2. Claimed(user, side)' = IF handling.maker = user /\ handling.side = side
                             THEN Collateral(handling.side, handling.price, taker.remaining - qty) ELSE 0
  BY <1>1 DEF Claimed
<1>3. Claimed(user, side) = IF handling.maker = user /\ handling.side = side
                            THEN Collateral(handling.side, handling.price, taker.remaining) ELSE 0
  BY <1>1 DEF Claimed
<1>4. PICK a \in Nat, b \in Nat, c \in Nat :
        /\ a = Collateral(handling.side, handling.price, taker.remaining - qty)
        /\ b = TakerPays(m, qty) /\ c = Collateral(handling.side, handling.price, taker.remaining)
        /\ a + b <= c
  BY FillPays
<1>5. a <= c
  BY <1>4
<1> QED BY <1>2, <1>3, <1>4, <1>5

\* What the rows are owed after a fill.
LEMMA FillOwed ==
  ASSUME Booked, Accounted', IInv', WordsSuffice, MarketPriceProtected', NEW m, NEW qty, FillStep(m, qty),
         NEW user, NEW side
  PROVE  LET owed == Owed(db.orders, user, side, AllTrades)
             then == Owed(db.orders, user, side, AllTrades')
         IN  /\ owed \in Nat /\ then \in Nat /\ then <= owed
             /\ user = order_map[m.id].maker /\ side = m.side =>
                  then + MakerPays(m, qty) <= owed
<1>1. RowsSound(db.orders) /\ Within(AllTrades)
  BY TradesWithin DEF Booked, IInv, Stored
<1>2. Within(AllTrades')
  <2>1. \A order \in SignedOrders : /\ TradedIn(order, AllTrades') <= order.quantity
                                    /\ TradedIn(order, AllTrades') \in Nat
    <3>1. \A order \in SignedOrders : TradedIn(order, AllTrades') <= order.quantity
      BY DEF Accounted
    <3>2. AllTrades' = Append(AllTrades, TradeOf(m, qty)) /\ AllTrades \in Seq(StoredTrades)
          /\ TradeOf(m, qty) \in StoredTrades
      BY FillTrades DEF Booked
    <3>3. AllTrades' \in Seq(StoredTrades)
      BY <3>2, AppendProperties
    <3> QED BY <3>1, <3>3, TradedIsSum
  <2>2. \A order \in SignedOrders : order.quantity \in Nat
    BY SignedTyped, OrderTyped
  <2>3. \A a, b \in Nat : a <= b => a \in 0..b
    OBVIOUS
  <2> QED BY <2>1, <2>2, <2>3 DEF Within
<1>3. PICK trades, more : trades = AllTrades /\ more = AllTrades'
  OBVIOUS
<1>4. m \in OrdersIn(book) /\ m.id \in 1..MaxId
  BY FillCharges DEF FillStep
<1>5. /\ Owed(db.orders, user, side, trades) \in Nat /\ Owed(db.orders, user, side, more) \in Nat
      /\ \A x \in 1..MaxId : /\ Charge(db.orders, user, side, trades, x) \in Nat
                             /\ Charge(db.orders, user, side, more, x) \in Nat
  BY <1>1, <1>2, <1>3, ChargesTyped
<1>6. \A x \in 1..MaxId \ {m.id} :
        Charge(db.orders, user, side, more, x) <= Charge(db.orders, user, side, trades, x)
  <2>1. \A x \in 1..MaxId \ {m.id} :
          Charge(db.orders, user, side, more, x) = Charge(db.orders, user, side, trades, x)
    BY <1>3, FillCharges
  <2> QED BY <1>5, <2>1
<1>7. PICK a \in Nat, b \in Nat, c \in Nat :
        /\ a = Collateral(m.side, m.price, m.quantity - qty) /\ b = MakerPays(m, qty)
        /\ c = Collateral(m.side, m.price, m.quantity) /\ a + b <= c
  BY FillPays DEF Booked
<1>8. PICK d \in Int : d = IF user = order_map[m.id].maker /\ side = m.side THEN 0 - b ELSE 0
  BY <1>7
<1>9. Charge(db.orders, user, side, more, m.id) <= Charge(db.orders, user, side, trades, m.id) + d
  <2>1. Charge(db.orders, user, side, more, m.id) =
          IF user = order_map[m.id].maker /\ side = m.side THEN a ELSE 0
    BY <1>3, <1>7, FillCharges
  <2>2. Charge(db.orders, user, side, trades, m.id) =
          IF user = order_map[m.id].maker /\ side = m.side THEN c ELSE 0
    BY <1>3, <1>4, <1>7, BookCharge
  <2> QED BY <1>7, <1>8, <2>1, <2>2
<1>10. Owed(db.orders, user, side, more) <= Owed(db.orders, user, side, trades) + d
  BY <1>1, <1>2, <1>3, <1>4, <1>6, <1>9, OwedMoves
<1>11. PICK x \in Nat, y \in Nat :
         x = Owed(db.orders, user, side, trades) /\ y = Owed(db.orders, user, side, more) /\ y <= x + d
  BY <1>5, <1>10
<1>12. /\ y <= x
       /\ user = order_map[m.id].maker /\ side = m.side => y + b <= x
  BY <1>7, <1>8, <1>11
<1> QED BY <1>3, <1>7, <1>11, <1>12

\* A fill: both sides pay from what they reserved, and no more than they still
\* owe; what they receive is somebody else's.
LEMMA FundsFill ==
  ASSUME IsFiniteSet(Users), OwnPair, WordsSuffice, MarketPriceProtected',
         Booked, Accounted', IInv', FundsInv, NEW m, NEW qty, FillStep(m, qty)
  PROVE  FundsInv'
<1>1. PICK mu \in Users, hu \in Users : mu = order_map[m.id].maker /\ hu = handling.maker
  BY FillTerms DEF Booked
<1>2. /\ m.side # handling.side /\ handling.side \in Sides /\ m.side \in Sides
      /\ to_restore = {} /\ to_restore' = to_restore /\ db' = db /\ {} # NotLoaded
  <2>1. handling # NoOrder /\ m.side = Opposite(handling.side) /\ m.side # handling.side /\ handling.side \in Sides
    BY FillTerms DEF Booked
  <2>2. m.side \in Sides
    BY <2>1 DEF Opposite, Sides
  <2>3. to_restore = {}
    BY <2>1, TakerFacts DEF Booked
  <2> QED BY <2>1, <2>2, <2>3 DEF FillStep, NotLoaded
<1>3. PICK dm \in Nat, dt \in Nat : dm = MakerPays(m, qty) /\ dt = TakerPays(m, qty)
  BY FillPays DEF Booked
<1>4. \A u \in Users, side \in Sides :
        /\ ledger[u][PairToken(side)].reserved \in Nat
        /\ ledger[u][PairToken(side)].reserved >= Claimed(u, side) + Owed(db.orders, u, side, AllTrades)
        /\ Claimed(u, side) \in Nat /\ Claimed(u, side)' \in Nat
        /\ Owed(db.orders, u, side, AllTrades) \in Nat /\ Owed(db.orders, u, side, AllTrades') \in Nat
  <2>1. \A u \in Users, side \in Sides : ledger[u][PairToken(side)].reserved \in Nat
    <3>1. ledger \in Ledgers /\ Amounts \subseteq Nat
      BY WordAssumption DEF Booked, IInv, Typed, Amounts
    <3> QED BY <3>1, OwnTokens, LedgersAt
  <2>2. \A u \in Users, side \in Sides :
          ledger[u][PairToken(side)].reserved >= Claimed(u, side) + Owed(db.orders, u, side, AllTrades)
    BY <1>2 DEF FundsInv, LedgerCovers
  <2>3. \A u, side : Claimed(u, side) \in Nat
    BY ClaimTyped DEF Booked
  <2>4. \A u \in Users, side \in Sides : Claimed(u, side)' \in Nat
    BY FillClaim DEF Booked
  <2>5. \A u \in Users, side \in Sides :
          Owed(db.orders, u, side, AllTrades) \in Nat /\ Owed(db.orders, u, side, AllTrades') \in Nat
    BY FillOwed
  <2> QED BY <2>1, <2>2, <2>3, <2>4, <2>5
<1>5. dm <= ledger[mu][PairToken(m.side)].reserved
  <2>1. Owed(db.orders, mu, m.side, AllTrades') + dm <= Owed(db.orders, mu, m.side, AllTrades)
    BY <1>1, <1>3, FillOwed
  <2> QED BY <1>2, <1>4, <2>1
<1>6. dt <= ledger[hu][PairToken(handling.side)].reserved
  <2>1. PICK hs \in Sides : hs = handling.side
    BY <1>2
  <2>2. Claimed(hu, hs)' + dt <= Claimed(hu, hs)
    BY <1>1, <1>3, <2>1, FillClaim DEF Booked
  <2>3. PICK c \in Nat, cc \in Nat, w \in Nat, r \in Nat :
          /\ c = Claimed(hu, hs) /\ cc = Claimed(hu, hs)' /\ w = Owed(db.orders, hu, hs, AllTrades)
          /\ r = ledger[hu][PairToken(hs)].reserved /\ r >= c + w
    BY <1>4
  <2>4. dt <= r
    BY <2>2, <2>3
  <2> QED BY <2>1, <2>3, <2>4
<1>7. \A token \in Tokens : Supply(ledger, token) = Supply(Deposits, token)
  BY <1>2 DEF FundsInv, Conserved
<1>8. /\ \A token \in Tokens : Supply(ledger', token) = Supply(ledger, token)
      /\ \A u \in Users, side \in Sides :
              ledger'[u][PairToken(side)].reserved =
                IF u = mu /\ side = m.side THEN ledger[u][PairToken(side)].reserved - dm
                ELSE IF u = hu /\ side = handling.side THEN ledger[u][PairToken(side)].reserved - dt
                ELSE ledger[u][PairToken(side)].reserved
  BY <1>1, <1>3, <1>5, <1>6, <1>7, FillMoves DEF Booked
<1>9. ASSUME NEW u \in Users, NEW side \in Sides
      PROVE  ledger'[u][PairToken(side)].reserved >=
               Claimed(u, side)' + Owed(db.orders, u, side, AllTrades')
  <2>1. PICK r \in Nat, c \in Nat, cc \in Nat, w \in Nat, ww \in Nat :
          /\ r = ledger[u][PairToken(side)].reserved /\ c = Claimed(u, side) /\ cc = Claimed(u, side)'
          /\ w = Owed(db.orders, u, side, AllTrades) /\ ww = Owed(db.orders, u, side, AllTrades')
          /\ r >= c + w
    BY <1>4
  <2>2. cc <= c /\ ww <= w
    BY <2>1, FillClaim, FillOwed DEF Booked
  <2>3. CASE u = mu /\ side = m.side
    <3>1. ww + dm <= w
      BY <1>1, <1>3, <2>1, <2>3, FillOwed
    <3>2. ledger'[u][PairToken(side)].reserved = r - dm
      BY <1>8, <2>1, <2>3
    <3> QED BY <1>3, <2>1, <2>2, <3>1, <3>2
  <2>4. CASE u = hu /\ side = handling.side
    <3>1. cc + dt <= c
      BY <1>1, <1>3, <2>1, <2>4, FillClaim DEF Booked
    <3>2. ledger'[u][PairToken(side)].reserved = r - dt
      BY <1>2, <1>8, <2>1, <2>4
    <3> QED BY <1>3, <2>1, <2>2, <3>1, <3>2
  <2>5. CASE ~(u = mu /\ side = m.side) /\ ~(u = hu /\ side = handling.side)
    <3>1. ledger'[u][PairToken(side)].reserved = r
      BY <1>8, <2>1, <2>5
    <3> QED BY <2>1, <2>2, <3>1
  <2> QED BY <2>3, <2>4, <2>5
<1>10. LedgerCovers'
  BY <1>2, <1>9 DEF LedgerCovers
<1>11. RowsCovered'
  BY <1>2 DEF FundsInv, RowsCovered
<1>12. Conserved'
  BY <1>2, <1>7, <1>8 DEF FundsInv, Conserved
<1> QED BY <1>10, <1>11, <1>12 DEF FundsInv

-----------------------------------------------------------------------------
(* What is reserved covers what is open: the other steps.                  *)

\* What is reserved is a number.
LEMMA ReservedTyped ==
  ASSUME OwnPair, NEW l \in Ledgers
  PROVE  \A u \in Users, side \in Sides : l[u][PairToken(side)].reserved \in Nat
<1>1. Amounts \subseteq Nat
  BY WordAssumption DEF Amounts
<1> QED BY <1>1, OwnTokens, LedgersAt

\* Numbers for what is reserved, claimed and owed now.
LEMMA FundsTyped ==
  ASSUME OwnPair, WordsSuffice, Booked
  PROVE  /\ \A u \in Users, side \in Sides : ledger[u][PairToken(side)].reserved \in Nat
         /\ \A u, side : Claimed(u, side) \in Nat
         /\ \A u, side : Owed(db.orders, u, side, AllTrades) \in Nat
         /\ ledger \in Ledgers /\ RowsSound(db.orders) /\ Within(AllTrades) /\ Within(db.trades)
<1>1. ledger \in Ledgers /\ RowsSound(db.orders) /\ Within(AllTrades) /\ Within(db.trades)
  BY TradesWithin DEF Booked, IInv, Typed, Stored
<1>2. \A u, side : Owed(db.orders, u, side, AllTrades) \in Nat
  BY <1>1, ChargesTyped
<1> QED BY <1>1, <1>2, ReservedTyped, ClaimTyped DEF Booked

\* A submission reserves what its order needs.
LEMMA FundsSubmit ==
  ASSUME IsFiniteSet(Users), OwnPair, WordsSuffice, Booked, FundsInv, AllTrades' = AllTrades,
         NEW r \in Requests, SubmitOrder(r.order, r.type)
  PROVE  FundsInv'
<1>1. PICK o \in SignedOrders : o = r.order
  BY DEF SignedOrders
<1>2. /\ CanReserve(ledger, o.maker, OwnToken(o), Required(o))
      /\ ledger' = Reserve(ledger, o.maker, OwnToken(o), Required(o))
      /\ handling' = o /\ taker'.price = o.price /\ taker'.remaining = o.quantity
      /\ UNCHANGED <<to_restore, db>> /\ serving /\ taker = Engine!NoTaker
  BY <1>1, EngineSubmit DEF SubmitOrder, Acceptable
<1>3. handling = NoOrder /\ handling' # NoOrder /\ to_restore # NotLoaded
  <2>1. to_restore = {}
    BY <1>2 DEF Booked, IInv, Recovering
  <2> QED BY <1>1, <1>2, <2>1, SignedTyped DEF NotLoaded, Booked, IInv, TakerHandled
<1>4. PICK u0 \in Users, s0 \in Sides, t0 \in Tokens, a \in Amounts :
        /\ u0 = o.maker /\ s0 = o.side /\ t0 = OwnToken(o) /\ a = Required(o)
        /\ t0 = PairToken(s0) /\ a \in Nat
  <2>1. o.maker \in Users /\ o.side \in Sides /\ OwnToken(o) \in Tokens
        /\ o.quantity \in Nat /\ o.quantity <= o.quantity
    BY SignedTyped, OrderTyped
  <2>2. Required(o) \in Amounts /\ Required(o) \in Nat
    BY <2>1, PartCosts DEF Required
  <2>3. OwnToken(o) = PairToken(o.side)
    BY OwnTokens
  <2> QED BY <2>1, <2>2, <2>3
<1>5. PICK l, m : l \in Ledgers /\ l = ledger /\ m = ledger'
  BY FundsTyped
<1>6. /\ \A v \in Users, s \in Tokens :
           m[v][s].reserved = IF v = u0 /\ s = t0 THEN l[v][s].reserved + a ELSE l[v][s].reserved
      /\ \A s \in Tokens : Supply(m, s) = Supply(l, s)
  <2>1. Supply(l, t0) < Word
    BY <1>3, <1>5 DEF FundsInv, Conserved, WordsSuffice
  <2>2. m = Reserve(l, u0, t0, a) /\ CanReserve(l, u0, t0, a)
    BY <1>2, <1>4, <1>5
  <2> QED BY <1>5, <2>1, <2>2, ReserveMoves
<1>7. ASSUME NEW u \in Users, NEW side \in Sides
      PROVE  ledger'[u][PairToken(side)].reserved >=
               Claimed(u, side)' + Owed(db.orders, u, side, AllTrades)
  <2>1. Claimed(u, side)' = IF u = u0 /\ side = s0 THEN a ELSE 0
    <3>1. Claimed(u, side)' = IF o.maker = u /\ o.side = side
                              THEN Collateral(side, o.price, o.quantity) ELSE 0
      BY <1>2, <1>3 DEF Claimed
    <3> QED BY <1>4, <3>1 DEF Required
  <2>2. Claimed(u, side) = 0
    BY <1>3 DEF Claimed
  <2>3. PICK x \in Nat, w \in Nat, t \in Tokens :
          x = l[u][t].reserved /\ w = Owed(db.orders, u, side, AllTrades) /\ t = PairToken(side) /\ x >= w
    <3>1. /\ ledger[u][PairToken(side)].reserved \in Nat /\ Owed(db.orders, u, side, AllTrades) \in Nat
          /\ PairToken(side) \in Tokens
      BY FundsTyped, OwnTokens
    <3>2. ledger[u][PairToken(side)].reserved >= Claimed(u, side) + Owed(db.orders, u, side, AllTrades)
      BY <1>3 DEF FundsInv, LedgerCovers
    <3> QED BY <1>5, <2>2, <3>1, <3>2
  <2>4. t = t0 <=> side = s0
    BY <1>4, <2>3, OwnTokens
  <2>5. CASE u = u0 /\ side = s0
    BY <1>4, <1>5, <1>6, <2>1, <2>3, <2>4, <2>5
  <2>6. CASE ~(u = u0 /\ side = s0)
    BY <1>5, <1>6, <2>1, <2>3, <2>4, <2>6
  <2> QED BY <2>5, <2>6
<1>8. LedgerCovers'
  BY <1>2, <1>7 DEF LedgerCovers
<1>9. RowsCovered' /\ Conserved'
  BY <1>2, <1>5, <1>6 DEF FundsInv, RowsCovered, Conserved
<1> QED BY <1>8, <1>9 DEF FundsInv

\* A market order without a fill claims all it reserved.
LEMMA UnfilledClaim ==
  ASSUME Booked, handling # NoOrder, taker.fills = <<>>, AllTrades = db.trades
  PROVE  taker.remaining = handling.quantity
<1>1. handling \in SignedOrders /\ db.trades \in Seq(StoredTrades)
  BY TakerFacts, AllTradesTyped DEF Booked
<1>2. \A i \in DOMAIN db.trades : handling \notin {db.trades[i].maker_order, db.trades[i].taker_order}
  BY DEF Booked, OnceInv, Remembered, TurnedDown
<1>3. TradedIn(handling, AllTrades) = 0
  BY <1>1, <1>2, TradedNothing
<1>4. handling.quantity \in Nat
  BY <1>1, SignedTyped, OrderTyped
<1> QED BY <1>3, <1>4 DEF Booked, Accounted, Left

\* And gets all of it back: what it does not claim any more is released.
LEMMA FundsDrop ==
  ASSUME IsFiniteSet(Users), OwnPair, WordsSuffice, Booked, FundsInv, DropUnfilled
  PROVE  FundsInv'
<1>1. PICK o \in SignedOrders : o = handling
  BY TakerFacts DEF DropUnfilled, Booked
<1>2. /\ ledger' = Release(ledger, o.maker, OwnToken(o), Required(o))
      /\ handling # NoOrder /\ handling' = NoOrder /\ UNCHANGED <<to_restore, db>>
      /\ taker.fills = <<>>
  BY <1>1 DEF DropUnfilled
<1>3. AllTrades' = AllTrades /\ AllTrades = db.trades /\ to_restore # NotLoaded
  <2>1. to_restore = {}
    BY <1>2, TakerFacts DEF Booked
  <2> QED BY <1>2, <2>1, TradesIdle DEF Booked, NotLoaded
<1>4. PICK u0 \in Users, s0 \in Sides, t0 \in Tokens, a \in Amounts :
        /\ u0 = o.maker /\ s0 = o.side /\ t0 = OwnToken(o) /\ a = Required(o)
        /\ t0 = PairToken(s0) /\ a \in Nat
  <2>1. o.maker \in Users /\ o.side \in Sides /\ OwnToken(o) \in Tokens
        /\ o.quantity \in Nat /\ o.quantity <= o.quantity
    BY SignedTyped, OrderTyped
  <2>2. Required(o) \in Amounts /\ Required(o) \in Nat
    BY <2>1, PartCosts DEF Required
  <2>3. OwnToken(o) = PairToken(o.side)
    BY OwnTokens
  <2> QED BY <2>1, <2>2, <2>3
<1>5. PICK l, m : l \in Ledgers /\ l = ledger /\ m = ledger'
  BY FundsTyped
<1>6. ASSUME NEW u \in Users, NEW side \in Sides
      PROVE  /\ l[u][PairToken(side)].reserved \in Nat
             /\ Owed(db.orders, u, side, AllTrades) \in Nat /\ PairToken(side) \in Tokens
             /\ l[u][PairToken(side)].reserved >=
                  (IF u = u0 /\ side = s0 THEN a ELSE 0) + Owed(db.orders, u, side, AllTrades)
  <2>1. Claimed(u, side) = IF u = u0 /\ side = s0 THEN a ELSE 0
    <3>1. taker.remaining = o.quantity /\ taker.price = o.price
      BY <1>1, <1>2, <1>3, UnfilledClaim DEF Booked, IInv, TakerHandled
    <3> QED BY <1>1, <1>2, <1>4, <3>1 DEF Claimed, Required
  <2>2. l[u][PairToken(side)].reserved >= Claimed(u, side) + Owed(db.orders, u, side, AllTrades)
    BY <1>3, <1>5 DEF FundsInv, LedgerCovers
  <2>3. /\ l[u][PairToken(side)].reserved \in Nat
        /\ Owed(db.orders, u, side, AllTrades) \in Nat /\ PairToken(side) \in Tokens
    BY <1>5, FundsTyped, OwnTokens
  <2> QED BY <2>1, <2>2, <2>3
<1>7. /\ \A v \in Users, s \in Tokens :
           m[v][s].reserved = IF v = u0 /\ s = t0 THEN l[v][s].reserved - a ELSE l[v][s].reserved
      /\ \A s \in Tokens : Supply(m, s) = Supply(l, s)
  <2>1. Supply(l, t0) < Word
    BY <1>3, <1>5 DEF FundsInv, Conserved, WordsSuffice
  <2>2. a <= l[u0][t0].reserved
    BY <1>4, <1>6
  <2>3. m = Release(l, u0, t0, a)
    BY <1>2, <1>4, <1>5
  <2> QED BY <1>5, <2>1, <2>2, <2>3, ReleaseMoves
<1>8. ASSUME NEW u \in Users, NEW side \in Sides
      PROVE  ledger'[u][PairToken(side)].reserved >=
               Claimed(u, side)' + Owed(db.orders, u, side, AllTrades)
  <2>1. Claimed(u, side)' = 0
    BY <1>2 DEF Claimed
  <2>2. PICK x \in Nat, w \in Nat, t \in Tokens :
          /\ x = l[u][t].reserved /\ w = Owed(db.orders, u, side, AllTrades) /\ t = PairToken(side)
          /\ x >= (IF u = u0 /\ side = s0 THEN a ELSE 0) + w
    BY <1>6
  <2>3. t = t0 <=> side = s0
    BY <1>4, <2>2, OwnTokens
  <2>4. CASE u = u0 /\ side = s0
    BY <1>4, <1>5, <1>7, <2>1, <2>2, <2>3, <2>4
  <2>5. CASE ~(u = u0 /\ side = s0)
    BY <1>5, <1>7, <2>1, <2>2, <2>3, <2>5
  <2> QED BY <2>4, <2>5
<1>9. LedgerCovers'
  BY <1>2, <1>3, <1>8 DEF LedgerCovers
<1>10. RowsCovered' /\ Conserved'
  BY <1>2, <1>5, <1>7 DEF FundsInv, RowsCovered, Conserved
<1> QED BY <1>9, <1>10 DEF FundsInv

\* A row whose order is the same, and rests only if it did, is charged no more.
LEMMA ChargesRetired ==
  ASSUME NEW rows, NEW next, NEW trades, NEW user, NEW side, NEW id,
         id \in DOMAIN next => /\ id \in DOMAIN rows /\ next[id].order = rows[id].order
                               /\ next[id].status = "resting" => rows[id].status = "resting",
         Charge(rows, user, side, trades, id) \in Nat
  PROVE  Charge(next, user, side, trades, id) <= Charge(rows, user, side, trades, id)
<1>1. \/ Charge(next, user, side, trades, id) = 0
      \/ Charge(next, user, side, trades, id) = Charge(rows, user, side, trades, id)
  BY DEF Charge
<1> QED BY <1>1

\* What rests of a submission is owed where it was claimed, and what filled is
\* owed no more.
LEMMA FinishOwed ==
  ASSUME WordsSuffice, Booked, IInv', FinishOrder, NEW user, NEW side
  PROVE  Owed(db'.orders, user, side, AllTrades) <=
           Owed(db.orders, user, side, AllTrades) + Claimed(user, side)
<1>1. handling # NoOrder /\ db'.orders = OrderRowsAfter(db.orders)
  BY FinishFacts DEF Booked
<1>2. PICK rows, next, trades : rows = db.orders /\ next = db'.orders /\ trades = AllTrades
  OBVIOUS
<1>3. RowsSound(rows) /\ RowsSound(next) /\ Within(trades)
  BY <1>2, TradesWithin DEF Booked, IInv, Stored
<1>4. \A id \in DOMAIN next :
        \/ /\ Engine!Rests /\ id = taker.id
           /\ next[id] = [order |-> handling, status |-> "resting", resting_quantity |-> taker.remaining]
        \/ /\ id \in DOMAIN rows /\ (Engine!Rests => id # taker.id)
           /\ next[id].order = rows[id].order
           /\ next[id].status = IF id \in FilledMakers THEN "filled" ELSE rows[id].status
  BY <1>1, <1>2, SavedRows DEF Booked
<1>5. \A id \in 1..MaxId : Charge(rows, user, side, trades, id) \in Nat
  BY <1>3, ChargesTyped
<1>6. \A id \in 1..MaxId : (Engine!Rests => id # taker.id) =>
        Charge(next, user, side, trades, id) <= Charge(rows, user, side, trades, id)
  <2> SUFFICES ASSUME NEW id \in 1..MaxId, Engine!Rests => id # taker.id
               PROVE  Charge(next, user, side, trades, id) <= Charge(rows, user, side, trades, id)
    OBVIOUS
  <2>1. id \in DOMAIN next => /\ id \in DOMAIN rows /\ next[id].order = rows[id].order
                              /\ next[id].status = "resting" => rows[id].status = "resting"
    BY <1>4
  <2> QED BY <1>5, <2>1, ChargesRetired
<1>7. PICK c \in Nat : c = Claimed(user, side)
  BY ClaimTyped DEF Booked
<1>8. Owed(rows, user, side, trades) \in Nat
  BY <1>3, ChargesTyped
<1>9. CASE ~Engine!Rests
  <2>1. \A id \in 1..MaxId : Charge(next, user, side, trades, id) <= Charge(rows, user, side, trades, id)
    BY <1>6, <1>9
  <2>2. Owed(next, user, side, trades) <= Owed(rows, user, side, trades)
    BY <1>3, <2>1, OwedBelow
  <2>3. Owed(next, user, side, trades) \in Nat
    BY <1>3, ChargesTyped
  <2> QED BY <1>2, <1>7, <1>8, <2>2, <2>3
<1>10. CASE Engine!Rests
  <2>1. PICK id : id = taker.id
    OBVIOUS
  <2>2. id \in DOMAIN next /\ next[id].order = handling /\ next[id].status = "resting" /\ id \in 1..MaxId
    <3>1. id \in DOMAIN next
      BY <1>1, <1>2, <1>10, <2>1, SavedRows DEF Booked
    <3>2. DOMAIN next \subseteq 1..MaxId
      BY <1>3 DEF RowsSound
    <3> QED BY <1>4, <1>10, <2>1, <3>1, <3>2
  <2>3. Charge(next, user, side, trades, id) = c
    <3>1. handling.quantity - TradedIn(handling, trades) = taker.remaining
      BY <1>1, <1>2 DEF Booked, Accounted, Left
    <3>2. taker.price = handling.price
      BY <1>1 DEF Booked, IInv, TakerHandled
    <3>3. Claimed(user, side) = IF handling.maker = user /\ handling.side = side
                                THEN Collateral(side, handling.price, taker.remaining) ELSE 0
      BY <1>1, <3>2 DEF Claimed
    <3> QED BY <1>7, <2>2, <3>1, <3>3 DEF Charge
  <2>4. Charge(next, user, side, trades, id) <= Charge(rows, user, side, trades, id) + c
    BY <1>5, <1>7, <2>2, <2>3
  <2>5. \A x \in 1..MaxId \ {id} :
          Charge(next, user, side, trades, x) <= Charge(rows, user, side, trades, x)
    BY <1>6, <2>1
  <2>6. Owed(next, user, side, trades) <= Owed(rows, user, side, trades) + c
    BY <1>3, <1>7, <2>2, <2>4, <2>5, OwedMoves
  <2> QED BY <1>2, <1>7, <2>6
<1> QED BY <1>9, <1>10

\* The transaction of a submission stores balances that cover the stored rows.
LEMMA FundsFinish ==
  ASSUME OwnPair, WordsSuffice, Booked, IInv', FundsInv, FinishOrder
  PROVE  FundsInv'
<1>1. /\ handling # NoOrder /\ handling' = NoOrder /\ db'.balances = ledger /\ db'.trades = AllTrades
      /\ AllTrades' = AllTrades /\ UNCHANGED <<ledger, to_restore>>
  BY FinishFacts DEF Booked
<1>2. to_restore # NotLoaded
  <2>1. to_restore = {}
    BY <1>1, TakerFacts DEF Booked
  <2> QED BY <2>1 DEF NotLoaded
<1>3. PICK trades : trades = AllTrades
  OBVIOUS
<1>4. ASSUME NEW u \in Users, NEW side \in Sides
      PROVE  /\ ledger[u][PairToken(side)].reserved >= Owed(db'.orders, u, side, trades)
             /\ Owed(db'.orders, u, side, trades) \in Nat
             /\ Claimed(u, side)' = 0
  <2>1. ledger[u][PairToken(side)].reserved >= Claimed(u, side) + Owed(db.orders, u, side, trades)
    BY <1>2, <1>3 DEF FundsInv, LedgerCovers
  <2>2. Owed(db'.orders, u, side, trades) <= Owed(db.orders, u, side, trades) + Claimed(u, side)
    BY <1>3, FinishOwed
  <2>3. Claimed(u, side)' = 0
    BY <1>1 DEF Claimed
  <2>4. Owed(db'.orders, u, side, trades) \in Nat
    <3>1. RowsSound(db'.orders) /\ Within(trades)
      BY <1>3, FundsTyped DEF IInv, Stored
    <3> QED BY <3>1, ChargesTyped
  <2>5. PICK x \in Nat, c \in Nat, w \in Nat :
          x = ledger[u][PairToken(side)].reserved /\ c = Claimed(u, side)
          /\ w = Owed(db.orders, u, side, trades)
    BY <1>3, FundsTyped
  <2> QED BY <2>1, <2>2, <2>3, <2>4, <2>5
<1>5. LedgerCovers'
  <2> SUFFICES ASSUME NEW u \in Users, NEW side \in Sides
               PROVE  ledger'[u][PairToken(side)].reserved >=
                        Claimed(u, side)' + Owed(db'.orders, u, side, AllTrades')
    BY DEF LedgerCovers
  <2>1. PICK w \in Nat : w = Owed(db'.orders, u, side, trades) /\ ledger[u][PairToken(side)].reserved >= w
    BY <1>4
  <2>2. Claimed(u, side)' + w = w
    BY <1>4
  <2> QED BY <1>1, <1>3, <2>1, <2>2
<1>6. RowsCovered'
  <2>1. \A u \in Users, side \in Sides :
          db'.balances[u][PairToken(side)].reserved >= Owed(db'.orders, u, side, db'.trades)
    BY <1>1, <1>3, <1>4
  <2> QED BY <2>1 DEF RowsCovered
<1>7. Conserved'
  BY <1>1, <1>2 DEF FundsInv, Conserved
<1> QED BY <1>5, <1>6, <1>7 DEF FundsInv

\* What is entered in order_nonce_map to be released is in the gateway's token.
TokensNamed ==
  \A id \in DOMAIN order_nonce_map : order_nonce_map[id].token = PairToken(order_map[id].side)

\* A cancel releases what is left of the order: what is entered for an order is
\* what it needed when it came to rest, and nothing lowers it after a fill.
CancelsExact ==
  \A c \in Cancels, id \in DOMAIN order_nonce_map :
    Cancellable(c, id) =>
      \A o \in OrdersIn(book) : o.id = id =>
        order_nonce_map[id].amount = Collateral(o.side, o.price, o.quantity)

\* An entry under an id names the token.
LEMMA TokenEntered ==
  ASSUME IInv, TokensNamed, NEW id, NEW o, NEW quantity,
         order_map' = With(order_map, id, o),
         order_nonce_map' = With(order_nonce_map, id, NonceEntry(o, quantity))
  PROVE  TokensNamed'
<1>1. DOMAIN order_map = DOMAIN order_nonce_map
  BY DEF IInv, MapsAgree
<1>2. \A x \in DOMAIN order_nonce_map' :
        \/ x = id /\ order_map'[x] = o /\ order_nonce_map'[x] = NonceEntry(o, quantity)
        \/ /\ x \in DOMAIN order_nonce_map
           /\ order_map'[x] = order_map[x] /\ order_nonce_map'[x] = order_nonce_map[x]
  BY <1>1 DEF With
<1>3. NonceEntry(o, quantity).token = PairToken(o.side)
  BY DEF NonceEntry
<1> QED BY <1>2, <1>3 DEF TokensNamed

\* Every step keeps the tokens.
LEMMA NextTokens ==
  ASSUME IInv, TokensNamed, [Next]_vars
  PROVE  TokensNamed'
<1>1. CASE UNCHANGED <<order_map, order_nonce_map>>
  BY <1>1 DEF TokensNamed
<1>2. CASE \E r \in Requests : SubmitOrder(r.order, r.type)
  BY <1>1, <1>2 DEF SubmitOrder
<1>3. CASE FillOrder
  BY <1>1, <1>3 DEF FillOrder
<1>4. CASE FinishOrder
  <2>1. order_map' = Entered(order_map, handling)
        /\ order_nonce_map' = Entered(order_nonce_map, NonceEntry(handling, taker.remaining))
    BY <1>4 DEF FinishOrder
  <2>2. CASE Engine!Rests
    BY <2>1, <2>2, TokenEntered DEF Entered
  <2>3. CASE ~Engine!Rests
    BY <1>1, <2>1, <2>3 DEF Entered
  <2> QED BY <2>2, <2>3
<1>5. CASE DropUnfilled
  BY <1>1, <1>5 DEF DropUnfilled
<1>6. CASE \E c \in Cancels : CancelOrder(c)
  <2>1. PICK c, id : CancelStep(c, id)
    BY <1>6, CancelStepFacts
  <2>2. order_map' = Without(order_map, id) /\ order_nonce_map' = Without(order_nonce_map, id)
    BY <2>1 DEF CancelStep
  <2>3. DOMAIN order_map = DOMAIN order_nonce_map
    BY DEF IInv, MapsAgree
  <2> QED BY <2>2, <2>3 DEF TokensNamed, Without, Restrict
<1>7. CASE \E c \in Cancels : CancelOrderDbFails(c)
  BY <1>1, <1>7 DEF CancelOrderDbFails
<1>8. CASE Crash
  BY <1>8 DEF Crash, EmptyMap, TokensNamed
<1>9. CASE Load \/ PruneNonces \/ SkipExpired \/ Serve \/ Tick \/ UNCHANGED vars
  BY <1>1, <1>9 DEF Load, PruneNonces, SkipExpired, Serve, Tick, vars, app_vars
<1>10. CASE RestoreOrder
  <2>1. PICK id : RestoreStep(id)
    BY <1>10, RestoreFacts
  <2> QED BY <2>1, TokenEntered DEF RestoreStep
<1> QED BY <1>2, <1>3, <1>4, <1>5, <1>6, <1>7, <1>8, <1>9, <1>10 DEF Next

\* A cancel releases what the order's row was charged.
LEMMA FundsCancel ==
  ASSUME IsFiniteSet(Users), OwnPair, WordsSuffice, Booked, IInv', FundsInv, TokensNamed, CancelsExact,
         NEW c \in Cancels, CancelOrder(c)
  PROVE  FundsInv'
<1>1. PICK id : CancelStep(c, id)
  BY CancelStepFacts DEF Booked
<1>2. PICK m \in OrdersIn(book) : m.id = id
  BY <1>1 DEF CancelStep
<1>3. PICK u0 \in Users, s0 \in Sides, t0 \in Tokens, a \in Amounts :
        /\ u0 = order_map[id].maker /\ s0 = m.side /\ t0 = PairToken(s0)
        /\ a = Collateral(m.side, m.price, m.quantity) /\ a \in Nat
        /\ ledger' = Release(ledger, u0, t0, a)
  <2>1. /\ order_map[id] \in SignedOrders /\ order_map[id].side = m.side /\ order_map[id].price = m.price
        /\ id \in DOMAIN order_map
    BY <1>2, RowsApart
  <2>2. m.quantity \in Nat /\ m.quantity <= order_map[id].quantity
    <3>1. KnownAs(m, order_map) /\ m.quantity \in Nat \ {0}
      BY BookOrders DEF Booked, IInv, BookKnown
    <3> QED BY <1>2, <3>1 DEF KnownAs
  <2>3. /\ Collateral(m.side, m.price, m.quantity) \in Amounts
        /\ Collateral(m.side, m.price, m.quantity) \in Nat
    <3>1. 0 \in Nat /\ 0 <= m.quantity
      BY <2>2
    <3> QED BY <2>1, <2>2, <3>1, PartCosts
  <2>4. order_map[id].maker \in Users /\ m.side \in Sides /\ PairToken(m.side) \in Tokens
    BY <2>1, SignedTyped, OrderTyped, OwnTokens
  <2>5. PICK entry : entry = order_nonce_map[id]
    OBVIOUS
  <2>6. entry.maker = order_map[id].maker /\ entry.token = PairToken(m.side)
        /\ entry.amount = Collateral(m.side, m.price, m.quantity)
    <3>1. id \in DOMAIN order_nonce_map /\ Cancellable(c, id)
      BY <1>1 DEF CancelStep
    <3>2. entry.amount = Collateral(m.side, m.price, m.quantity)
      BY <1>2, <2>5, <3>1 DEF CancelsExact
    <3>3. entry.maker = order_map[id].maker
      BY <2>1, <2>5 DEF Booked, IInv, MapsAgree
    <3>4. entry.token = PairToken(m.side)
      BY <2>1, <2>5, <3>1 DEF TokensNamed
    <3> QED BY <3>2, <3>3, <3>4
  <2>7. ledger' = Release(ledger, entry.maker, entry.token, entry.amount)
    BY <1>1, <2>5 DEF CancelStep, LedgerAfterCancel
  <2> QED BY <2>3, <2>4, <2>6, <2>7
<1>4. PICK l, n : l \in Ledgers /\ l = ledger /\ n = ledger'
  BY FundsTyped
<1>5. PICK rows, next, trades : rows = db.orders /\ next = db'.orders /\ trades = AllTrades
  OBVIOUS
<1>6. /\ next = [rows EXCEPT ![id].status = "cancelled"] /\ db'.trades = db.trades
      /\ db'.balances = n /\ handling = NoOrder /\ handling' = NoOrder
      /\ UNCHANGED to_restore /\ serving
  BY <1>1, <1>4, <1>5 DEF CancelStep
<1>7. to_restore # NotLoaded /\ AllTrades' = trades /\ db.trades = trades
  <2>1. to_restore = {}
    BY <1>6 DEF Booked, IInv, Recovering
  <2> QED BY <1>5, <1>6, <2>1, TradesIdle DEF Booked, NotLoaded
<1>8. id \in 1..MaxId /\ RowsSound(rows) /\ RowsSound(next) /\ Within(trades)
  BY <1>2, <1>5, RowsApart, FundsTyped DEF IInv, Stored
<1>9. ASSUME NEW u \in Users, NEW side \in Sides
      PROVE  /\ PairToken(side) \in Tokens /\ l[u][PairToken(side)].reserved \in Nat
             /\ Owed(rows, u, side, trades) \in Nat /\ Owed(next, u, side, trades) \in Nat
             /\ Owed(next, u, side, trades) <= Owed(rows, u, side, trades)
             /\ u = u0 /\ side = s0 => Owed(next, u, side, trades) + a <= Owed(rows, u, side, trades)
             /\ l[u][PairToken(side)].reserved >= Owed(rows, u, side, trades)
  <2>1. /\ DOMAIN next = DOMAIN rows
        /\ \A x \in DOMAIN rows : next[x].order = rows[x].order /\ (x # id => next[x] = rows[x])
    BY <1>5, <1>6, MarkedOnly DEF Booked
  <2>2. \A x \in 1..MaxId : Charge(rows, u, side, trades, x) \in Nat
    BY <1>8, ChargesTyped
  <2>3. \A x \in 1..MaxId \ {id} : Charge(next, u, side, trades, x) <= Charge(rows, u, side, trades, x)
    BY <2>1, <2>2, ChargesRetired
  <2>4. Charge(next, u, side, trades, id) = 0
    <3>1. id \in DOMAIN next => next[id].status = "cancelled"
      <4>1. id \in DOMAIN rows /\ rows[id] = [order |-> rows[id].order, status |-> rows[id].status,
                                              resting_quantity |-> rows[id].resting_quantity]
        <5>1. id \in DOMAIN rows
          BY <1>2, <1>5, RowsApart
        <5>2. rows[id] \in RowRecords
          BY <1>8, <5>1 DEF RowsSound
        <5> QED BY <5>1, <5>2 DEF RowRecords
      <4> QED BY <1>6, <4>1
    <3> QED BY <3>1 DEF Charge
  <2>5. Charge(rows, u, side, trades, id) = IF u = u0 /\ side = s0 THEN a ELSE 0
    BY <1>2, <1>3, <1>5, BookCharge
  <2>6. PICK d \in Int : d = IF u = u0 /\ side = s0 THEN 0 - a ELSE 0
    BY <1>3
  <2>7. Charge(next, u, side, trades, id) <= Charge(rows, u, side, trades, id) + d
    BY <1>3, <2>4, <2>5, <2>6
  <2>8. Owed(next, u, side, trades) <= Owed(rows, u, side, trades) + d
    BY <1>8, <2>3, <2>7, OwedMoves
  <2>9. Owed(rows, u, side, trades) \in Nat /\ Owed(next, u, side, trades) \in Nat
    BY <1>8, ChargesTyped
  <2>10. l[u][PairToken(side)].reserved >= Owed(rows, u, side, trades)
    <3>1. ledger[u][PairToken(side)].reserved >= Claimed(u, side) + Owed(rows, u, side, trades)
      BY <1>5, <1>7 DEF FundsInv, LedgerCovers
    <3>2. Claimed(u, side) = 0
      BY <1>6 DEF Claimed
    <3> QED BY <1>4, <2>9, <3>1, <3>2
  <2>11. PairToken(side) \in Tokens /\ l[u][PairToken(side)].reserved \in Nat
    BY <1>4, OwnTokens, FundsTyped
  <2> QED BY <1>3, <2>6, <2>8, <2>9, <2>10, <2>11
<1>10. /\ \A v \in Users, s \in Tokens :
            n[v][s].reserved = IF v = u0 /\ s = t0 THEN l[v][s].reserved - a ELSE l[v][s].reserved
       /\ \A s \in Tokens : Supply(n, s) = Supply(l, s)
  <2>1. Supply(l, t0) < Word
    BY <1>4, <1>7 DEF FundsInv, Conserved, WordsSuffice
  <2>2. a <= l[u0][t0].reserved
    <3>1. PICK x \in Nat, w \in Nat, ww \in Nat :
            x = l[u0][t0].reserved /\ w = Owed(rows, u0, s0, trades) /\ ww = Owed(next, u0, s0, trades)
            /\ ww + a <= w /\ x >= w
      BY <1>3, <1>9
    <3> QED BY <1>3, <3>1
  <2>3. n = Release(l, u0, t0, a)
    BY <1>3, <1>4
  <2> QED BY <1>4, <2>1, <2>2, <2>3, ReleaseMoves
<1>11. ASSUME NEW u \in Users, NEW side \in Sides
       PROVE  n[u][PairToken(side)].reserved >= Owed(next, u, side, trades) /\ Owed(next, u, side, trades) \in Nat
  <2>1. PICK x \in Nat, w \in Nat, ww \in Nat, t \in Tokens :
          /\ x = l[u][t].reserved /\ w = Owed(rows, u, side, trades) /\ ww = Owed(next, u, side, trades)
          /\ t = PairToken(side) /\ x >= w /\ ww <= w
          /\ u = u0 /\ side = s0 => ww + a <= w
    BY <1>9
  <2>2. t = t0 <=> side = s0
    BY <1>3, <2>1, OwnTokens
  <2>3. n[u][t].reserved = IF u = u0 /\ side = s0 THEN x - a ELSE x
    BY <1>10, <2>1, <2>2
  <2>4. n[u][t].reserved >= ww
    BY <1>3, <2>1, <2>3
  <2> QED BY <2>1, <2>4
<1>12. LedgerCovers'
  <2> SUFFICES ASSUME NEW u \in Users, NEW side \in Sides
               PROVE  ledger'[u][PairToken(side)].reserved >=
                        Claimed(u, side)' + Owed(db'.orders, u, side, AllTrades')
    BY DEF LedgerCovers
  <2>1. PICK w \in Nat : w = Owed(next, u, side, trades) /\ n[u][PairToken(side)].reserved >= w
    BY <1>11
  <2>2. Claimed(u, side)' + w = w
    <3>1. Claimed(u, side)' = 0
      BY <1>6 DEF Claimed
    <3> QED BY <2>1, <3>1
  <2> QED BY <1>4, <1>5, <1>7, <2>1, <2>2
<1>13. RowsCovered'
  <2>1. \A u \in Users, side \in Sides :
          db'.balances[u][PairToken(side)].reserved >= Owed(db'.orders, u, side, db'.trades)
    BY <1>5, <1>6, <1>7, <1>11
  <2> QED BY <2>1 DEF RowsCovered
<1>14. Conserved'
  BY <1>4, <1>6, <1>7, <1>10 DEF FundsInv, Conserved
<1> QED BY <1>12, <1>13, <1>14 DEF FundsInv

\* Steps that move no amounts, make no trade, and let rows retire at most.
LEMMA FundsQuiet ==
  ASSUME WordsSuffice, OwnPair, Booked, IInv', FundsInv,
         UNCHANGED ledger, db'.balances = db.balances, db'.trades = db.trades, AllTrades' = AllTrades,
         \A u, side : Claimed(u, side)' = Claimed(u, side),
         to_restore' # NotLoaded => to_restore # NotLoaded,
         \A id \in DOMAIN db'.orders :
           /\ id \in DOMAIN db.orders /\ db'.orders[id].order = db.orders[id].order
           /\ db'.orders[id].status = "resting" => db.orders[id].status = "resting"
  PROVE  FundsInv'
<1>1. PICK rows, next, all, stored : rows = db.orders /\ next = db'.orders /\ all = AllTrades /\ stored = db.trades
  OBVIOUS
<1>2. RowsSound(rows) /\ RowsSound(next) /\ Within(all) /\ Within(stored)
  BY <1>1, FundsTyped DEF IInv, Stored
<1>3. ASSUME NEW trades, Within(trades), NEW u, NEW side
      PROVE  /\ Owed(next, u, side, trades) <= Owed(rows, u, side, trades)
             /\ Owed(next, u, side, trades) \in Nat /\ Owed(rows, u, side, trades) \in Nat
  <2>1. \A id \in 1..MaxId : Charge(rows, u, side, trades, id) \in Nat
    BY <1>2, <1>3, ChargesTyped
  <2>2. \A id \in 1..MaxId : Charge(next, u, side, trades, id) <= Charge(rows, u, side, trades, id)
    <3> SUFFICES ASSUME NEW id \in 1..MaxId
                 PROVE  Charge(next, u, side, trades, id) <= Charge(rows, u, side, trades, id)
      OBVIOUS
    <3>1. id \in DOMAIN next => /\ id \in DOMAIN rows /\ next[id].order = rows[id].order
                                /\ next[id].status = "resting" => rows[id].status = "resting"
      BY <1>1
    <3> QED BY <2>1, <3>1, ChargesRetired
  <2> QED BY <1>2, <1>3, <2>2, OwedBelow, ChargesTyped
<1>4. LedgerCovers'
  <2> SUFFICES ASSUME to_restore' # NotLoaded, NEW u \in Users, NEW side \in Sides
               PROVE  ledger'[u][PairToken(side)].reserved >=
                        Claimed(u, side)' + Owed(db'.orders, u, side, AllTrades')
    BY DEF LedgerCovers
  <2>1. ledger[u][PairToken(side)].reserved >= Claimed(u, side) + Owed(rows, u, side, all)
    BY <1>1 DEF FundsInv, LedgerCovers
  <2>2. PICK x \in Nat, c \in Nat, w \in Nat, ww \in Nat :
          /\ x = ledger[u][PairToken(side)].reserved /\ c = Claimed(u, side)
          /\ w = Owed(rows, u, side, all) /\ ww = Owed(next, u, side, all) /\ ww <= w
    BY <1>2, <1>3, FundsTyped
  <2>3. x >= c + ww
    BY <2>1, <2>2
  <2> QED BY <1>1, <2>2, <2>3
<1>5. RowsCovered'
  <2> SUFFICES ASSUME NEW u \in Users, NEW side \in Sides
               PROVE  db'.balances[u][PairToken(side)].reserved >= Owed(db'.orders, u, side, db'.trades)
    BY DEF RowsCovered
  <2>1. db.balances[u][PairToken(side)].reserved >= Owed(rows, u, side, stored)
    BY <1>1 DEF FundsInv, RowsCovered
  <2>2. db.balances[u][PairToken(side)].reserved \in Nat
    <3>1. db.balances \in Ledgers
      BY DEF Booked, IInv, Stored
    <3> QED BY <3>1, ReservedTyped
  <2>3. Owed(next, u, side, stored) <= Owed(rows, u, side, stored)
        /\ Owed(next, u, side, stored) \in Nat /\ Owed(rows, u, side, stored) \in Nat
    BY <1>2, <1>3
  <2>4. db.balances[u][PairToken(side)].reserved >= Owed(next, u, side, stored)
    BY <2>1, <2>2, <2>3
  <2> QED BY <1>1, <2>4
<1>6. Conserved'
  BY DEF FundsInv, Conserved
<1> QED BY <1>4, <1>5, <1>6 DEF FundsInv

\* A crash leaves what is stored.
LEMMA FundsCrash ==
  ASSUME FundsInv, Crash
  PROVE  FundsInv'
<1>1. UNCHANGED db /\ to_restore' = NotLoaded
  BY DEF Crash
<1> QED BY <1>1 DEF FundsInv, LedgerCovers, RowsCovered, Conserved

\* What is read covers the rows that are read.
LEMMA FundsLoad ==
  ASSUME WordsSuffice, Booked, FundsInv, Load
  PROVE  FundsInv'
<1>1. /\ ledger' = db.balances /\ db'.balances = db.balances /\ db'.orders = db.orders
      /\ db'.trades = db.trades /\ ~serving /\ UNCHANGED handling
  BY DEF Load, Booked, IInv, Stored
<1>2. handling = NoOrder /\ handling' = NoOrder
  BY <1>1 DEF Booked, IInv, TakerHandled
<1>3. AllTrades' = AllTrades /\ AllTrades = db.trades
  BY <1>1, <1>2, TradesIdle DEF Booked
<1>4. RowsCovered'
  BY <1>1 DEF FundsInv, RowsCovered
<1>5. Conserved'
  BY <1>1 DEF FundsInv, Conserved
<1>6. LedgerCovers'
  <2> SUFFICES ASSUME NEW u \in Users, NEW side \in Sides
               PROVE  ledger'[u][PairToken(side)].reserved >=
                        Claimed(u, side)' + Owed(db'.orders, u, side, AllTrades')
    BY DEF LedgerCovers
  <2>1. db.balances[u][PairToken(side)].reserved >= Owed(db.orders, u, side, db.trades)
    BY DEF FundsInv, RowsCovered
  <2>2. Claimed(u, side)' = 0
    BY <1>2 DEF Claimed
  <2>3. Owed(db.orders, u, side, db.trades) \in Nat
    <3>1. RowsSound(db.orders) /\ Within(db.trades)
      BY TradesWithin DEF Booked, IInv, Stored
    <3> QED BY <3>1, ChargesTyped
  <2>4. PICK w \in Nat : w = Owed(db.orders, u, side, db.trades)
    BY <2>3
  <2>5. Claimed(u, side)' + w = w
    BY <2>2
  <2> QED BY <1>1, <1>3, <2>1, <2>4, <2>5
<1> QED BY <1>4, <1>5, <1>6 DEF FundsInv

\* Every step keeps the funds, when no transaction of a cancel fails.
LEMMA NextFunds ==
  ASSUME ~DbMayFail, IsFiniteSet(Users), OwnPair, WordsSuffice, Booked, OnceInv', Accounted', IInv', FundsInv,
         TokensNamed, CancelsExact, MarketPriceProtected', [Next]_vars
  PROVE  FundsInv'
<1>1. CASE \E r \in Requests : SubmitOrder(r.order, r.type)
  <2>1. PICK r \in Requests : SubmitOrder(r.order, r.type)
    BY <1>1
  <2>2. AllTrades' = AllTrades
    BY <2>1, AccountedSubmit DEF Booked
  <2> QED BY <2>1, <2>2, FundsSubmit
<1>2. CASE FillOrder
  BY <1>2, FillFacts, FundsFill DEF Booked
<1>3. CASE FinishOrder
  BY <1>3, FundsFinish
<1>4. CASE DropUnfilled
  BY <1>4, FundsDrop
<1>5. CASE \E c \in Cancels : CancelOrder(c)
  BY <1>5, FundsCancel
<1>6. CASE \E c \in Cancels : CancelOrderDbFails(c)
  BY <1>6 DEF CancelOrderDbFails
<1>7. CASE Crash
  BY <1>7, FundsCrash
<1>8. CASE Load
  BY <1>8, FundsLoad
<1>9. CASE RestoreOrder
  <2>1. PICK id : RestoreStep(id)
    BY <1>9, RestoreFacts DEF Booked
  <2>2. UNCHANGED <<ledger, handling, db>> /\ to_restore # NotLoaded /\ handling = NoOrder
    BY <2>1 DEF RestoreStep
  <2>3. AllTrades' = AllTrades
    BY <2>2, TradesIdle DEF Booked
  <2>4. \A u, side : Claimed(u, side)' = Claimed(u, side)
    BY <2>2 DEF Claimed
  <2> QED BY <2>2, <2>3, <2>4, FundsQuiet
<1>10. CASE SkipExpired
  <2>1. PICK id : SkipStep(id)
    BY <1>10, SkipFacts DEF Booked
  <2>2. /\ UNCHANGED <<ledger, handling>> /\ to_restore # NotLoaded /\ handling = NoOrder
        /\ db'.balances = db.balances /\ db'.trades = db.trades
    BY <2>1 DEF SkipStep
  <2>3. AllTrades' = AllTrades
    BY <2>2, TradesIdle DEF Booked
  <2>4. \A u, side : Claimed(u, side)' = Claimed(u, side)
    BY <2>2 DEF Claimed
  <2>5. PICK next : next = db'.orders
    OBVIOUS
  <2>6. \A x \in DOMAIN next :
          /\ x \in DOMAIN db.orders /\ next[x].order = db.orders[x].order
          /\ next[x].status = "resting" => db.orders[x].status = "resting"
    <3>1. CASE next = db.orders
      BY <3>1
    <3>2. CASE next = [db.orders EXCEPT ![id].status = "cancelled"]
      <4>1. /\ DOMAIN next = DOMAIN db.orders
            /\ \A x \in DOMAIN db.orders : /\ next[x].order = db.orders[x].order
                                           /\ x # id => next[x] = db.orders[x]
        BY <3>2, MarkedOnly DEF Booked
      <4>2. id \in DOMAIN db.orders /\ next[id].status = "cancelled"
        <5>1. id \in DOMAIN db.orders
          BY <2>1 DEF SkipStep
        <5>2. PICK row \in RowRecords : row = db.orders[id]
          BY <5>1 DEF Booked, IInv, Stored, RowsSound
        <5>3. [row EXCEPT !.status = "cancelled"].status = "cancelled"
          BY DEF RowRecords
        <5>4. next[id] = [row EXCEPT !.status = "cancelled"]
          BY <3>2, <5>1, <5>2
        <5> QED BY <5>1, <5>3, <5>4
      <4> QED BY <4>1, <4>2
    <3> QED BY <2>1, <2>5, <3>1, <3>2 DEF SkipStep
  <2> QED BY <2>2, <2>3, <2>4, <2>5, <2>6, FundsQuiet
<1>11. CASE Serve \/ PruneNonces \/ Tick \/ UNCHANGED vars
  <2>1. /\ UNCHANGED <<ledger, handling, taker, order_map, to_restore>> /\ db'.balances = db.balances
        /\ db'.trades = db.trades /\ db'.orders = db.orders
    <3>1. CASE Serve
      BY <3>1, EngineOthers DEF Serve, app_vars
    <3>2. CASE PruneNonces
      BY <3>2 DEF PruneNonces, engine_vars, app_vars, Booked, IInv, Stored
    <3>3. CASE Tick \/ UNCHANGED vars
      BY <3>3 DEF Tick, vars, engine_vars, app_vars
    <3> QED BY <1>11, <3>1, <3>2, <3>3
  <2>2. AllTrades' = AllTrades
    BY <2>1 DEF AllTrades, Trades
  <2>3. \A u, side : Claimed(u, side)' = Claimed(u, side)
    BY <2>1 DEF Claimed
  <2> QED BY <2>1, <2>2, <2>3, FundsQuiet
<1> QED BY <1>1, <1>2, <1>3, <1>4, <1>5, <1>6, <1>7, <1>8, <1>9, <1>10, <1>11 DEF Next

\* What a user's orders on the book can be charged is owed for their rows.
LEMMA BookOwed ==
  ASSUME WordsSuffice, Booked, NEW user, NEW side
  PROVE  LET open == {x \in OrdersOf(user) : x.side = side}
         IN  /\ SumFunction([o \in open |-> Collateral(side, o.price, o.quantity)]) \in Nat
             /\ SumFunction([o \in open |-> Collateral(side, o.price, o.quantity)])
                  <= Owed(db.orders, user, side, AllTrades)
<1>1. PICK S : S = {x \in OrdersOf(user) : x.side = side}
  OBVIOUS
<1>2. PICK f, g, h : /\ f = [o \in S |-> Collateral(side, o.price, o.quantity)]
                     /\ g = [id \in 1..MaxId |-> Charge(db.orders, user, side, AllTrades, id)]
                     /\ h = [o \in S |-> o.id]
  OBVIOUS
<1>3. \A o \in S : /\ o \in OrdersIn(book) /\ o.side = side /\ order_map[o.id].maker = user
                   /\ o.id \in 1..MaxId
  BY <1>1, RowsApart DEF OrdersOf
<1>4. \A id \in 1..MaxId : g[id] \in Nat
  BY <1>2, ChargesTyped, TradesWithin DEF Booked, IInv, Stored
<1>5. \A o \in S : h[o] \in 1..MaxId /\ f[o] = g[h[o]] /\ f[o] \in Nat /\ f[o] <= g[h[o]]
  <2> SUFFICES ASSUME NEW o \in S
               PROVE  h[o] \in 1..MaxId /\ f[o] = g[h[o]] /\ f[o] \in Nat /\ f[o] <= g[h[o]]
    OBVIOUS
  <2>1. h[o] = o.id /\ o.id \in 1..MaxId
    BY <1>2, <1>3
  <2>2. Charge(db.orders, user, side, AllTrades, o.id) = Collateral(o.side, o.price, o.quantity)
    BY <1>3, BookCharge
  <2>3. f[o] = g[h[o]]
    BY <1>2, <1>3, <2>1, <2>2
  <2> QED BY <1>4, <2>1, <2>3
<1>6. \A x, y \in S : h[x] = h[y] => x = y
  BY <1>2, <1>3, IdNamesOrder DEF Booked, IInv, EngineReady
<1>7. IsFiniteSet(1..MaxId)
  <2>1. \A a, b \in Int : IsFiniteSet(a..b)
    BY FS_Interval
  <2> QED BY <2>1, GatewayAssumption
<1>8. IsFiniteSet(S)
  <2>1. h \in Injection(S, 1..MaxId)
    BY <1>2, <1>5, <1>6 DEF Injection, IsInjective
  <2> QED BY <1>7, <2>1, FS_Injection
<1>9. SumFunctionOnSet(f, S) <= SumFunctionOnSet(g, 1..MaxId) /\ SumFunctionOnSet(f, S) \in Nat
  BY <1>4, <1>5, <1>6, <1>7, <1>8, SumInjected, SumNat
<1>10. SumFunction(f) = SumFunctionOnSet(f, S)
  BY <1>2 DEF SumFunction
<1> QED BY <1>1, <1>2, <1>9, <1>10 DEF Owed

\* The invariant is what the properties ask for.
LEMMA FundsSuffice ==
  ASSUME WordsSuffice, OwnPair, Booked, FundsInv
  PROVE  ReservedCoversBook /\ FundsConserved
<1>1. serving => to_restore # NotLoaded
  BY DEF Booked, IInv, Recovering, NotLoaded
<1>2. FundsConserved
  BY <1>1 DEF FundsInv, Conserved, FundsConserved
<1>3. ReservedCoversBook
  <2> SUFFICES ASSUME serving, NEW user \in Users, NEW side \in Sides
               PROVE  ledger[user][PairToken(side)].reserved >=
                        Claimed(user, side) +
                        SumFunction([o \in {x \in OrdersOf(user) : x.side = side} |->
                                       Collateral(side, o.price, o.quantity)])
    BY DEF ReservedCoversBook
  <2>1. ledger[user][PairToken(side)].reserved >=
          Claimed(user, side) + Owed(db.orders, user, side, AllTrades)
    BY <1>1 DEF FundsInv, LedgerCovers
  <2>2. PICK x \in Nat, c \in Nat, w \in Nat, s \in Nat :
          /\ x = ledger[user][PairToken(side)].reserved /\ c = Claimed(user, side)
          /\ w = Owed(db.orders, user, side, AllTrades)
          /\ s = SumFunction([o \in {y \in OrdersOf(user) : y.side = side} |->
                                Collateral(side, o.price, o.quantity)])
          /\ s <= w
    BY FundsTyped, BookOwed
  <2> QED BY <2>1, <2>2
<1> QED BY <1>2, <1>3

\* Before the first start nothing is owed, and all is as deposited.
LEMMA InitFunds ==
  ASSUME OwnPair
  PROVE  Init => BookRows /\ TokensNamed /\ FundsInv
<1> SUFFICES ASSUME Init PROVE BookRows /\ TokensNamed /\ FundsInv
  OBVIOUS
<1>1. /\ to_restore = NotLoaded /\ order_nonce_map = EmptyMap /\ DOMAIN EmptyMap = {}
      /\ db.balances = Deposits /\ db.orders = EmptyMap
  BY DEF Init, EmptyMap
<1>2. BookRows
  BY InitDurable DEF DurableInv
<1>3. TokensNamed
  BY <1>1 DEF TokensNamed
<1>4. RowsCovered
  <2> SUFFICES ASSUME NEW u \in Users, NEW side \in Sides
               PROVE  db.balances[u][PairToken(side)].reserved >= Owed(db.orders, u, side, db.trades)
    BY DEF RowsCovered
  <2>1. PICK g : g = [id \in 1..MaxId |-> Charge(db.orders, u, side, db.trades, id)]
    OBVIOUS
  <2>2. \A id \in 1..MaxId : g[id] = 0
    BY <1>1, <2>1 DEF Charge
  <2>3. IsFiniteSet(1..MaxId)
    <3>1. \A a, b \in Int : IsFiniteSet(a..b)
      BY FS_Interval
    <3> QED BY <3>1, GatewayAssumption
  <2>4. Owed(db.orders, u, side, db.trades) = 0
    BY <2>1, <2>2, <2>3, SumOfZeros DEF Owed
  <2>5. db.balances[u][PairToken(side)].reserved \in Nat
    BY <1>1, ReservedTyped, GatewayAssumption
  <2> QED BY <2>4, <2>5
<1>5. LedgerCovers /\ Conserved
  BY <1>1 DEF LedgerCovers, Conserved
<1> QED BY <1>2, <1>3, <1>4, <1>5 DEF FundsInv

\* The parts that hold by themselves, and the funds, together.
LEMMA NextBooked ==
  ASSUME ~DbMayFail, IsFiniteSet(Users), OwnPair, WordsSuffice,
         Booked, ContractInv, TokensNamed, FundsInv, IInv',
         NonceOutlivesOrder, RowsCurrent, CancelsExact, MarketPriceProtected', [Next]_vars
  PROVE  Booked' /\ ContractInv' /\ TokensNamed' /\ FundsInv'
<1>1. OnceInv' /\ RowsNamed'
  BY NextOnce, NextNamed DEF Booked
<1>2. ContractInv' /\ BookRows'
  BY NextContract, NextBookRows DEF Booked, ContractInv
<1>3. Accounted'
  BY <1>1, NextAccounted DEF Booked
<1>4. TokensNamed'
  BY NextTokens DEF Booked
<1>5. FundsInv'
  BY <1>1, <1>3, NextFunds
<1> QED BY <1>1, <1>2, <1>3, <1>4, <1>5 DEF Booked

\* What holds of the funds at every moment.
LEMMA FundsInvariant ==
  ASSUME ~DbMayFail, IsFiniteSet(Users), OwnPair, WordsSuffice
  PROVE  Spec /\ []NonceOutlivesOrder /\ []RowsCurrent /\ []CancelsExact /\ []MarketPriceProtected
           => [](ReservedCoversBook /\ FundsConserved)
<1>1. Init => Booked /\ ContractInv /\ TokensNamed /\ FundsInv
  BY InitIInv, InitAccounted, InitContract, InitFunds DEF Booked
<1>2. Booked /\ ContractInv /\ TokensNamed /\ FundsInv /\ IInv' /\ NonceOutlivesOrder /\ RowsCurrent
        /\ CancelsExact /\ MarketPriceProtected' /\ [Next]_vars
        => Booked' /\ ContractInv' /\ TokensNamed' /\ FundsInv'
  BY NextBooked
<1>3. Booked /\ FundsInv => ReservedCoversBook /\ FundsConserved
  BY FundsSuffice
<1> QED BY <1>1, <1>2, <1>3, GatewayInvariant, PTL DEF Spec

\* Whatever fills come next, settle_fill finds reserved what it takes: of every
\* user, for every order on the book and for the running taker. This rests on
\* clients that sign for the gateway's pair, on words that hold every amount, and
\* on transactions of cancels that do not fail; on nonces and rows as in
\* NeverOverfilled; on cancels that release what is left of an order, and on market
\* orders that stay within their price. The code enforces none of these: the runs
\* cancel_after_partial_fill and market_price show the last two fail.
THEOREM OpenOrdersFunded ==
  ASSUME ~DbMayFail, IsFiniteSet(Users), OwnPair, WordsSuffice
  PROVE  Spec /\ []NonceOutlivesOrder /\ []RowsCurrent /\ []CancelsExact /\ []MarketPriceProtected
           => []ReservedCoversBook
<1>1. Spec /\ []NonceOutlivesOrder /\ []RowsCurrent /\ []CancelsExact /\ []MarketPriceProtected
        => [](ReservedCoversBook /\ FundsConserved)
  BY FundsInvariant
<1> QED BY <1>1, PTL

\* Under the same hypotheses orders, fills, cancels and restarts move funds between
\* users, and between available and reserved, but neither make nor lose any, in
\* memory and in the database: no subtraction of the ledger wraps around.
THEOREM FundsKept ==
  ASSUME ~DbMayFail, IsFiniteSet(Users), OwnPair, WordsSuffice
  PROVE  Spec /\ []NonceOutlivesOrder /\ []RowsCurrent /\ []CancelsExact /\ []MarketPriceProtected
           => []FundsConserved
<1>1. Spec /\ []NonceOutlivesOrder /\ []RowsCurrent /\ []CancelsExact /\ []MarketPriceProtected
        => [](ReservedCoversBook /\ FundsConserved)
  BY FundsInvariant
<1> QED BY <1>1, PTL

-----------------------------------------------------------------------------
(* Where no maker is filled in part, rows and cancels follow.              *)

\* Trades an order takes no part in do not count.
LEMMA TradedWithout ==
  ASSUME NEW first \in Seq(StoredTrades), NEW rest \in Seq(StoredTrades), NEW order,
         \A i \in DOMAIN rest : order \notin {rest[i].maker_order, rest[i].taker_order}
  PROVE  TradedIn(order, first \o rest) = TradedIn(order, first)
<1>1. PICK all, n : all = first \o rest /\ n = Len(first)
  OBVIOUS
<1>2. /\ all \in Seq(StoredTrades) /\ n \in Nat /\ Len(all) \in Nat /\ Len(all) = n + Len(rest)
      /\ n <= Len(all) /\ DOMAIN rest = 1..Len(rest) /\ Len(rest) \in Nat
      /\ \A i \in 1..n : all[i] = first[i]
      /\ \A i \in 1..Len(all) : i > n => all[i] = rest[i - n]
  BY <1>1, ConcatProperties, LenProperties
<1>3. PICK f, g : /\ f = [i \in DOMAIN first |-> Part(order, first[i])]
                  /\ g = [i \in DOMAIN all |-> Part(order, all[i])]
  OBVIOUS
<1>4. /\ TradedIn(order, first) = SumFunctionOnSet(f, 1..n) /\ IsFiniteSet(1..n)
      /\ DOMAIN first = 1..n /\ \A i \in 1..n : f[i] \in Nat
  BY <1>1, <1>3, TradedIsSum
<1>5. /\ TradedIn(order, all) = SumFunctionOnSet(g, 1..Len(all)) /\ IsFiniteSet(1..Len(all))
      /\ DOMAIN all = 1..Len(all) /\ \A i \in 1..Len(all) : g[i] \in Nat
  BY <1>2, <1>3, TradedIsSum
<1>6. \A i \in (1..Len(all)) \ (1..n) : g[i] = 0
  <2> SUFFICES ASSUME NEW i \in (1..Len(all)) \ (1..n) PROVE g[i] = 0
    OBVIOUS
  <2>1. i > n /\ i - n \in 1..Len(rest)
    BY <1>2
  <2>2. all[i] = rest[i - n] /\ order \notin {rest[i - n].maker_order, rest[i - n].taker_order}
    BY <1>2, <2>1
  <2> QED BY <1>3, <1>5, <2>2 DEF Part
<1>7. SumFunctionOnSet(g, 1..Len(all)) = SumFunctionOnSet(g, 1..n)
  <2>1. 1..n \in SUBSET (1..Len(all)) /\ \A i \in 1..Len(all) : g[i] \in Int
    BY <1>2, <1>5
  <2> QED BY <1>5, <1>6, <2>1, SumWithoutZeros
<1>8. SumFunctionOnSet(g, 1..n) = SumFunctionOnSet(f, 1..n)
  <2>1. \A i \in 1..n : f[i] \in Int /\ g[i] \in Int /\ g[i] = f[i]
    <3>1. \A i \in 1..n : i \in 1..Len(all)
      BY <1>2
    <3> QED BY <1>2, <1>3, <1>4, <1>5, <3>1
  <2> QED BY <1>4, <2>1, SumSame
<1> QED BY <1>1, <1>4, <1>5, <1>7, <1>8

\* Every row that rests counts what its order has traded.
RowsCounted ==
  \A id \in RestingRows :
    db.orders[id].resting_quantity + TradedIn(db.orders[id].order, db.trades)
      = db.orders[id].order.quantity

\* What is entered for an order on the book is the collateral of what is left.
EntriesExact ==
  \A o \in OrdersIn(book) :
    o.id \in DOMAIN order_nonce_map
      /\ order_nonce_map[o.id].amount = Collateral(o.side, o.price, o.quantity)

\* Then recovery and cancels find what they need.
LEMMA CountedSuffices ==
  ASSUME RestoreSound, RowsCounted, EntriesExact
  PROVE  RowsCurrent /\ CancelsExact
<1>1. RowsCurrent
  BY DEF RestoreSound, RowsCounted, RowsCurrent
<1>2. CancelsExact
  BY DEF EntriesExact, CancelsExact
<1> QED BY <1>1, <1>2

\* Rows that rest no more do not matter, others are the same.
LEMMA CountedElsewhere ==
  ASSUME RowsCounted, db'.trades = db.trades,
         \A id \in RestingRows' :
           /\ id \in RestingRows /\ db'.orders[id].order = db.orders[id].order
           /\ db'.orders[id].resting_quantity = db.orders[id].resting_quantity
  PROVE  RowsCounted'
BY DEF RowsCounted

\* The end of a submission puts at most its own order on the book.
LEMMA FinishEnters ==
  ASSUME IInv, FinishOrder, NEW id \in DOMAIN book'.locations
  PROVE  id \in DOMAIN book.locations \/ (Engine!Rests /\ id = taker.id)
<1>1. book' = IF Engine!Rests
              THEN Insert(book, [id |-> taker.id, side |-> taker.side, price |-> taker.price,
                                 quantity |-> taker.remaining])
              ELSE book
  BY EngineFinish DEF FinishOrder
<1>2. CASE Engine!Rests
  <2>1. book'.locations = With(book.locations, taker.id, [side |-> taker.side, price |-> taker.price])
    BY <1>1, <1>2, LocationsAfter
  <2> QED BY <1>2, <2>1 DEF With
<1>3. CASE ~Engine!Rests
  BY <1>1, <1>3
<1> QED BY <1>2, <1>3

\* A submission is saved: the makers it filled rest no more, its own row counts
\* its trades, and no other row's order is in them.
LEMMA CountedFinish ==
  ASSUME Booked, RowsCounted, MakersFilledWhole, FinishOrder
  PROVE  RowsCounted'
<1>1. PICK rows, new, filled : rows = OrderRowsAfter(db.orders) /\ new = taker.id /\ filled = FilledMakers
  OBVIOUS
<1>2. /\ handling # NoOrder /\ db'.orders = rows /\ db'.trades = AllTrades
      /\ AllTrades = db.trades \o Trades
  <2>1. handling # NoOrder /\ db'.orders = rows /\ db'.trades = AllTrades
    BY <1>1, FinishFacts DEF Booked
  <2> QED BY <2>1 DEF AllTrades
<1>3. \A id \in DOMAIN rows :
        \/ /\ Engine!Rests /\ id = new
           /\ rows[id] = [order |-> handling, status |-> "resting", resting_quantity |-> taker.remaining]
        \/ /\ id \in DOMAIN db.orders /\ (Engine!Rests => id # new)
           /\ rows[id].order = db.orders[id].order
           /\ rows[id].resting_quantity = db.orders[id].resting_quantity
           /\ rows[id].status = IF id \in filled THEN "filled" ELSE db.orders[id].status
  BY <1>1, <1>2, SavedRows DEF Booked
<1>4. taker.remaining + TradedIn(handling, AllTrades) = handling.quantity
  <2>1. taker.remaining = handling.quantity - TradedIn(handling, AllTrades)
    BY <1>2 DEF Booked, Accounted, Left
  <2>2. handling.quantity \in Nat /\ TradedIn(handling, AllTrades) \in Nat
    BY <1>2, TakerFacts, AllTradesTyped DEF Booked
  <2> QED BY <2>1, <2>2
<1>5. PICK made \in Seq(StoredTrades) : made = Trades
  BY <1>2, TradesTyped DEF Booked
<1>6. ASSUME NEW id \in DOMAIN db.orders, id \notin filled, Engine!Rests => id # new
      PROVE  TradedIn(db.orders[id].order, AllTrades) = TradedIn(db.orders[id].order, db.trades)
  <2>1. ASSUME NEW i \in DOMAIN made
        PROVE  db.orders[id].order \notin {made[i].maker_order, made[i].taker_order}
    <3>1. PICK maker : maker = taker.fills[i].maker_id
      OBVIOUS
    <3>2. i \in DOMAIN taker.fills /\ made[i].maker_order = order_map[maker] /\ made[i].taker_order = handling
      BY <1>5, <3>1 DEF Trades
    <3>3. maker \in DOMAIN db.orders /\ db.orders[maker].order = order_map[maker]
      <4>1. maker \in DOMAIN order_map
        BY <1>2, <3>1, <3>2 DEF Booked, IInv, TakerHandled
      <4> QED BY <4>1 DEF Booked, RowsNamed, MapRows
    <3>4. maker # id
      <4>1. maker \notin DOMAIN book.locations
        BY <1>2, <3>1, <3>2 DEF MakersFilledWhole
      <4>2. CASE maker \in DOMAIN book'.locations
        BY <1>1, <1>6, <4>1, <4>2, FinishEnters DEF Booked
      <4>3. CASE maker \notin DOMAIN book'.locations
        BY <1>1, <1>6, <3>1, <3>2, <4>3 DEF FilledMakers
      <4> QED BY <4>2, <4>3
    <3>5. db.orders[id].order # order_map[maker]
      BY <1>6, <3>3, <3>4 DEF Booked, RowsNamed, RowsDistinct
    <3>6. db.orders[id].order # handling
      BY <1>6, RowsApart
    <3> QED BY <3>2, <3>5, <3>6
  <2>2. db.trades \in Seq(StoredTrades)
    BY AllTradesTyped DEF Booked
  <2>3. PICK order, first : order = db.orders[id].order /\ first = db.trades
    OBVIOUS
  <2>4. TradedIn(order, first \o made) = TradedIn(order, first)
    BY <2>1, <2>2, <2>3, TradedWithout
  <2> QED BY <1>2, <1>5, <2>3, <2>4
<1>7. ASSUME NEW id \in DOMAIN rows, rows[id].status = "resting"
      PROVE  rows[id].resting_quantity + TradedIn(rows[id].order, AllTrades) = rows[id].order.quantity
  <2>1. CASE Engine!Rests /\ id = new
    BY <1>3, <1>4, <2>1
  <2>2. CASE ~(Engine!Rests /\ id = new)
    <3>1. /\ id \in DOMAIN db.orders /\ (Engine!Rests => id # new)
          /\ rows[id].order = db.orders[id].order
          /\ rows[id].resting_quantity = db.orders[id].resting_quantity
          /\ rows[id].status = IF id \in filled THEN "filled" ELSE db.orders[id].status
      BY <1>3, <2>2
    <3>2. id \notin filled /\ id \in RestingRows
      BY <1>7, <3>1 DEF RestingRows
    <3> QED BY <1>6, <3>1, <3>2 DEF RowsCounted
  <2> QED BY <2>1, <2>2
<1> QED BY <1>2, <1>7 DEF RowsCounted, RestingRows

\* Every step keeps the rows counted.
LEMMA NextCounted ==
  ASSUME Booked, IInv', RowsCounted, MakersFilledWhole, [Next]_vars
  PROVE  RowsCounted'
<1>0. IInv
  BY DEF Booked
<1>1. CASE FinishOrder
  BY <1>1, CountedFinish
<1>2. ASSUME NEW id, db'.trades = db.trades, UNCHANGED now,
             db'.orders = [db.orders EXCEPT ![id].status = "cancelled"]
      PROVE  RowsCounted'
  <2>1. PICK rows : rows = db'.orders
    OBVIOUS
  <2>2. /\ \A x \in DOMAIN db.orders : /\ rows[x].order = db.orders[x].order
                                       /\ rows[x].resting_quantity = db.orders[x].resting_quantity
                                       /\ x # id => rows[x] = db.orders[x]
    BY <1>0, <1>2, <2>1, MarkedOnly
  <2>3. RestingRows' = RestingRows \ {id}
    BY <1>0, <1>2, RowCancelled
  <2>4. RestingRows \subseteq DOMAIN db.orders
    BY DEF RestingRows
  <2> QED BY <1>2, <2>1, <2>2, <2>3, <2>4, CountedElsewhere
<1>3. CASE db'.trades = db.trades /\ db'.orders = db.orders
  BY <1>3 DEF RowsCounted, RestingRows
<1>4. CASE \E c \in Cancels : CancelOrder(c)
  <2>1. PICK c, id : CancelStep(c, id)
    BY <1>0, <1>4, CancelStepFacts
  <2> QED BY <1>2, <2>1 DEF CancelStep
<1>5. CASE SkipExpired
  <2>1. PICK id : SkipStep(id)
    BY <1>0, <1>5, SkipFacts
  <2> QED BY <1>2, <1>3, <2>1 DEF SkipStep
<1>6. CASE RestoreOrder
  BY <1>0, <1>3, <1>6, RestoreFacts DEF RestoreStep
<1>7. CASE \E r \in Requests : SubmitOrder(r.order, r.type)
  BY <1>3, <1>7 DEF SubmitOrder
<1>8. CASE FillOrder \/ DropUnfilled \/ \E c \in Cancels : CancelOrderDbFails(c)
  BY <1>3, <1>8 DEF FillOrder, DropUnfilled, CancelOrderDbFails
<1>9. CASE Crash \/ Load \/ Serve \/ PruneNonces \/ Tick \/ UNCHANGED vars
  BY <1>0, <1>3, <1>9 DEF Crash, Load, Serve, PruneNonces, Tick, vars, app_vars, IInv, Stored
<1> QED BY <1>1, <1>4, <1>5, <1>6, <1>7, <1>8, <1>9 DEF Next

\* What comes to rest is entered with its collateral, beside the others.
LEMMA EntryMade ==
  ASSUME EntriesExact, NEW id, NEW order, NEW quantity,
         order_nonce_map' = With(order_nonce_map, id, NonceEntry(order, quantity)),
         \A o \in OrdersIn(book') :
           \/ o \in OrdersIn(book) /\ o.id # id
           \/ o = [id |-> id, side |-> order.side, price |-> order.price, quantity |-> quantity]
  PROVE  EntriesExact'
<1>1. /\ id \in DOMAIN order_nonce_map' /\ order_nonce_map'[id] = NonceEntry(order, quantity)
      /\ \A x \in DOMAIN order_nonce_map : x # id =>
           x \in DOMAIN order_nonce_map' /\ order_nonce_map'[x] = order_nonce_map[x]
  BY DEF With
<1>2. NonceEntry(order, quantity).amount = Collateral(order.side, order.price, quantity)
  BY DEF NonceEntry
<1> QED BY <1>1, <1>2 DEF EntriesExact

\* Every step keeps the entries exact.
LEMMA NextEntries ==
  ASSUME ~DbMayFail, IInv, IInv', EntriesExact, MakersFilledWhole', [Next]_vars
  PROVE  EntriesExact'
<1>1. CASE (\A o \in OrdersIn(book') : o \in OrdersIn(book)) /\ UNCHANGED order_nonce_map
  BY <1>1 DEF EntriesExact
<1>2. CASE \E r \in Requests : SubmitOrder(r.order, r.type)
  <2>1. UNCHANGED <<book, order_nonce_map>>
    BY <1>2, EngineSubmit DEF SubmitOrder
  <2> QED BY <1>1, <2>1
<1>3. CASE FillOrder
  <2>1. PICK m, qty : FillStep(m, qty)
    BY <1>3, FillFacts
  <2> QED BY <1>1, <2>1, WholeFill DEF FillStep
<1>4. CASE FinishOrder
  <2>1. /\ handling # NoOrder
        /\ order_nonce_map' = Entered(order_nonce_map, NonceEntry(handling, taker.remaining))
        /\ \A o \in OrdersIn(book') :
             \/ o \in OrdersIn(book) /\ o.id # taker.id
             \/ /\ Engine!Rests
                /\ o = [id |-> taker.id, side |-> taker.side, price |-> taker.price,
                        quantity |-> taker.remaining]
    BY <1>4, FinishFacts
  <2>2. taker.side = handling.side /\ taker.price = handling.price
    BY <2>1 DEF IInv, TakerHandled
  <2>3. CASE Engine!Rests
    BY <2>1, <2>2, <2>3, EntryMade DEF Entered
  <2>4. CASE ~Engine!Rests
    BY <1>1, <2>1, <2>4 DEF Entered
  <2> QED BY <2>3, <2>4
<1>5. CASE DropUnfilled
  <2>1. taker.type = "market" /\ UNCHANGED order_nonce_map /\ Engine!Finish
    BY <1>5 DEF DropUnfilled
  <2>2. UNCHANGED book
    BY <2>1, EngineFinish DEF Engine!Rests
  <2> QED BY <1>1, <2>1, <2>2
<1>6. CASE \E c \in Cancels : CancelOrder(c)
  <2>1. PICK c, id : CancelStep(c, id)
    BY <1>6, CancelStepFacts
  <2>2. /\ order_nonce_map' = Without(order_nonce_map, id)
        /\ \A o \in OrdersIn(book') : o \in OrdersIn(book) /\ o.id # id
    BY <2>1 DEF CancelStep
  <2> QED BY <2>2 DEF EntriesExact, Without, Restrict
<1>7. CASE \E c \in Cancels : CancelOrderDbFails(c)
  BY <1>7 DEF CancelOrderDbFails
<1>8. CASE Crash
  <2>1. OrdersIn(book') = {}
    BY <1>8, EngineOthers, EmptyHoldsNothing DEF Crash
  <2> QED BY <2>1 DEF EntriesExact
<1>9. CASE RestoreOrder
  <2>1. PICK id : RestoreStep(id)
    BY <1>9, RestoreFacts
  <2>2. PICK order, quantity : order = db.orders[id].order /\ quantity = db.orders[id].resting_quantity
    OBVIOUS
  <2>3. /\ order_nonce_map' = With(order_nonce_map, id, NonceEntry(order, quantity))
        /\ \A o \in OrdersIn(book') :
             \/ o \in OrdersIn(book) /\ o.id # id
             \/ o = [id |-> id, side |-> order.side, price |-> order.price, quantity |-> quantity]
    BY <2>1, <2>2 DEF RestoreStep
  <2> QED BY <2>3, EntryMade
<1>10. CASE Load
  <2>1. UNCHANGED <<book, order_nonce_map>>
    BY <1>10, EngineOthers DEF Load
  <2> QED BY <1>1, <2>1
<1>11. CASE Serve
  <2>1. UNCHANGED <<book, order_nonce_map>>
    BY <1>11, EngineOthers DEF Serve, app_vars
  <2> QED BY <1>1, <2>1
<1>12. CASE SkipExpired \/ PruneNonces \/ Tick \/ UNCHANGED vars
  <2>1. UNCHANGED <<book, order_nonce_map>>
    BY <1>12 DEF SkipExpired, PruneNonces, Tick, vars, app_vars, engine_vars
  <2> QED BY <1>1, <2>1
<1> QED BY <1>2, <1>3, <1>4, <1>5, <1>6, <1>7, <1>8, <1>9, <1>10, <1>11, <1>12 DEF Next

\* At first there are no rows, and nothing is on the book.
LEMMA InitCounted == Init => RowsCounted /\ EntriesExact
<1> SUFFICES ASSUME Init PROVE RowsCounted /\ EntriesExact
  OBVIOUS
<1>1. OrdersIn(book) = {}
  <2>1. book = EmptyBook
    BY EngineBook DEF Init, Engine!Init
  <2> QED BY <2>1, EmptyHoldsNothing
<1>2. RestingRows = {}
  BY DEF Init, RestingRows, EmptyMap
<1> QED BY <1>1, <1>2 DEF RowsCounted, EntriesExact

\* Where clients' orders fill their makers whole, as in a market of lots of one
\* size, nothing has to be assumed of rows and cancels: no order trades more than
\* was signed, what is reserved covers what is open, no funds are made or lost, and
\* a crash between two handlers loses nothing. What remains are nonces that outlive
\* their orders, market orders within their price, and cancels that are stored.
THEOREM WholeFillsAreSafe ==
  ASSUME ~DbMayFail, IsFiniteSet(Users), OwnPair, WordsSuffice
  PROVE  Spec /\ []NonceOutlivesOrder /\ []MarketPriceProtected /\ []MakersFilledWhole
           => [](NoOverfill /\ ReservedCoversBook /\ FundsConserved /\ Durable)
<1> DEFINE Inv == /\ Booked /\ ContractInv /\ TokensNamed /\ FundsInv
                  /\ DurableInv /\ RowsCounted /\ EntriesExact
<1>1. Init => Inv
  BY InitIInv, InitAccounted, InitContract, InitFunds, InitDurable, InitCounted DEF Booked
<1>2. Inv /\ IInv' /\ NonceOutlivesOrder /\ MarketPriceProtected' /\ MakersFilledWhole
        /\ MakersFilledWhole' /\ [Next]_vars
        => Inv'
  <2> SUFFICES ASSUME Inv, IInv', NonceOutlivesOrder, MarketPriceProtected', MakersFilledWhole,
                      MakersFilledWhole', [Next]_vars
               PROVE  Inv'
    OBVIOUS
  <2>1. RowsCurrent /\ CancelsExact
    BY CountedSuffices DEF ContractInv
  <2>2. Booked' /\ ContractInv' /\ TokensNamed' /\ FundsInv'
    BY <2>1, NextBooked
  <2>3. BookRows' /\ RowsHeld' /\ LedgerHeld' /\ TradesHeld' /\ NoncesHeld'
    BY <2>2, NextRowsHeld, NextLedgerHeld, NextTradesHeld, NextNoncesHeld DEF Booked, DurableInv
  <2>4. RowsCounted' /\ EntriesExact'
    BY NextCounted, NextEntries DEF Booked
  <2> QED BY <2>2, <2>3, <2>4 DEF DurableInv
<1>3. Inv => NoOverfill /\ ReservedCoversBook /\ FundsConserved /\ Durable
  BY AccountedSuffices, FundsSuffice, DurableSuffices DEF Booked
<1>4. Spec => []IInv
  BY GatewayInvariant
<1> HIDE DEF Inv
<1> QED BY <1>1, <1>2, <1>3, <1>4, PTL DEF Spec

==============================================================================
