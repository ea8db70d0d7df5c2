------------------------------ MODULE OrderBook ------------------------------
(***************************************************************************)
(* The price-time priority book of crates/matching-engine/src/book.rs, as  *)
(* pure operators on a book value.                                         *)
(*                                                                         *)
(* A book is a record of the struct's fields:                              *)
(*   levels     the maps `bids` and `asks`: for each side a function from  *)
(*              the prices that have a level to the queue of that level,   *)
(*   locations  the map `locations`, from order ids to side and price.     *)
(* The two BTreeMaps and the two `take_best_*` functions are mirror images *)
(* of each other, so the operators below take the side as an argument.     *)
(***************************************************************************)
EXTENDS Integers, Sequences, SequencesExt

CONSTANTS MaxPrice,   \* the largest price, 2^256 - 1 in the code
          Prices      \* the prices orders may have

ASSUME PricesAssumption == MaxPrice \in Nat /\ Prices \subseteq 0..MaxPrice

-----------------------------------------------------------------------------
(* Orders and books.                                                       *)

Sides == {"buy", "sell"}

Opposite(side) == IF side = "buy" THEN "sell" ELSE "buy"

EngineOrders ==
  [id : Nat, side : Sides, price : Prices, quantity : Nat \ {0}]

Locations == [side : Sides, price : Prices]

EmptyBook ==
  [levels    |-> [s \in Sides |-> [p \in {} |-> <<>>]],
   locations |-> [id \in {} |-> 0]]

\* The orders resting on one side, and on both.
OrdersOn(b, side) == UNION {Range(b.levels[side][p]) : p \in DOMAIN b.levels[side]}

OrdersIn(b) == UNION {OrdersOn(b, side) : side \in Sides}

\* has_order: only the index is consulted.
HasOrder(b, id) == id \in DOMAIN b.locations

\* total_ask_qty and total_bid_qty.
TotalQty(b, side) == SumFunction([o \in OrdersOn(b, side) |-> o.quantity])

-----------------------------------------------------------------------------
(* Priorities between prices.                                              *)

\* A resting order at p is matched before one at q: bids high to low, asks
\* low to high, the ends of the BTreeMap that best_bid and best_ask read.
BetterPrice(side, p, q) == IF side = "buy" THEN p > q ELSE p < q

\* Mutant: the other end of the map is read.
WorstPrice(b, side) ==
  CHOOSE p \in DOMAIN b.levels[side] :
    \A q \in DOMAIN b.levels[side] : ~BetterPrice(side, p, q)

BestPrice(b, side) ==
  CHOOSE p \in DOMAIN b.levels[side] :
    \A q \in DOMAIN b.levels[side] : ~BetterPrice(side, q, p)

\* A taker on `side` with this limit accepts this resting price.
Accepts(side, limit, price) ==
  IF side = "buy" THEN price <= limit ELSE price >= limit

-----------------------------------------------------------------------------
(* Operations.                                                             *)

\* entry(price).or_default(): the queue at a price, empty when there is none.
QueueAt(b, side, p) ==
  IF p \in DOMAIN b.levels[side] THEN b.levels[side][p] ELSE <<>>

Without(f, x) == Restrict(f, DOMAIN f \ {x})

With(f, x, v) == [y \in DOMAIN f \cup {x} |-> IF y = x THEN v ELSE f[y]]

\* Store a queue back at its price; an emptied level leaves its map.
PutQueue(levels, side, p, queue) ==
  [levels EXCEPT ![side] = IF queue = <<>> THEN Without(@, p)
                                           ELSE With(@, p, queue)]

\* Mutant: a new order joins the front of its queue.
InsertFront(b, o) ==
  [levels    |-> PutQueue(b.levels, o.side, o.price,
                          <<o>> \o QueueAt(b, o.side, o.price)),
   locations |-> With(b.locations, o.id, [side |-> o.side, price |-> o.price])]

Insert(b, o) ==
  [levels    |-> PutQueue(b.levels, o.side, o.price,
                          Append(QueueAt(b, o.side, o.price), o)),
   locations |-> With(b.locations, o.id, [side |-> o.side, price |-> o.price])]

\* The place of an order in its queue; 0 when the queue does not hold it.
Position(b, id) ==
  LET queue == QueueAt(b, b.locations[id].side, b.locations[id].price)
  IN  IF \E i \in DOMAIN queue : queue[i].id = id
      THEN CHOOSE i \in DOMAIN queue : queue[i].id = id
      ELSE 0

\* The order's index entry goes first, then the order if its queue holds it.
RemoveOrder(b, id) ==
  LET loc == b.locations[id]
      i   == Position(b, id)
  IN  [levels    |-> IF i = 0 THEN b.levels
                     ELSE PutQueue(b.levels, loc.side, loc.price,
                                   RemoveAt(b.levels[loc.side][loc.price], i)),
       locations |-> Without(b.locations, id)]

\* The order the next fill on this side meets: the oldest at the best price.
BestMaker(b, side) == Head(b.levels[side][BestPrice(b, side)])

\* Mutant: the maker is always taken whole.
FillWholeMaker(b, side, max_qty) == BestMaker(b, side).quantity

FillQty(b, side, max_qty) ==
  IF max_qty < BestMaker(b, side).quantity THEN max_qty ELSE BestMaker(b, side).quantity

\* Mutant: a maker that is filled completely stays in the index.
TakeBestKeepingLocation(b, side, max_qty) ==
  LET p     == BestPrice(b, side)
      queue == b.levels[side][p]
      left  == Head(queue).quantity - FillQty(b, side, max_qty)
  IN  [b EXCEPT !.levels =
         PutQueue(@, side, p, IF left = 0 THEN Tail(queue)
                              ELSE [queue EXCEPT ![1].quantity = left])]

\* Mutant: a maker that is filled partially goes to the back of its queue.
TakeBestRequeueing(b, side, max_qty) ==
  LET p     == BestPrice(b, side)
      queue == b.levels[side][p]
      left  == Head(queue).quantity - FillQty(b, side, max_qty)
  IN  IF left = 0
      THEN [levels    |-> PutQueue(b.levels, side, p, Tail(queue)),
            locations |-> Without(b.locations, Head(queue).id)]
      ELSE [levels    |-> PutQueue(b.levels, side, p,
                            Append(Tail(queue), [Head(queue) EXCEPT !.quantity = left])),
            locations |-> b.locations]

\* take_best_ask and take_best_bid: the book after filling up to max_qty from
\* the front order. A filled maker leaves its queue and the index.
TakeBest(b, side, max_qty) ==
  LET p     == BestPrice(b, side)
      queue == b.levels[side][p]
      left  == Head(queue).quantity - FillQty(b, side, max_qty)
  IN  IF left = 0
      THEN [levels    |-> PutQueue(b.levels, side, p, Tail(queue)),
            locations |-> Without(b.locations, Head(queue).id)]
      ELSE [levels    |-> PutQueue(b.levels, side, p,
                                   [queue EXCEPT ![1].quantity = left]),
            locations |-> b.locations]

-----------------------------------------------------------------------------
(* What makes a book well formed, in named parts.                          *)

\* The two maps are functions on prices, their queues sequences of orders.
LevelsTyped(b) ==
  /\ b.levels = [s \in Sides |-> b.levels[s]]
  /\ \A s \in Sides :
       /\ DOMAIN b.levels[s] \subseteq Prices
       /\ \A p \in DOMAIN b.levels[s] : b.levels[s][p] \in Seq(EngineOrders)

LocationsTyped(b) ==
  /\ DOMAIN b.locations \subseteq Nat
  /\ \A id \in DOMAIN b.locations : b.locations[id] \in Locations

\* No level without orders: best_bid and best_ask read the map's key, and a
\* take from an empty level is the panic "take must succeed".
NoEmptyLevel(b) ==
  \A s \in Sides : \A p \in DOMAIN b.levels[s] : b.levels[s][p] # <<>>

\* Every order sits at its own side and price, and the index says so.
IndexedAt(b, o, side, p) ==
  /\ o.side = side /\ o.price = p
  /\ o.id \in DOMAIN b.locations
  /\ b.locations[o.id] = [side |-> side, price |-> p]

OrdersIndexed(b) ==
  \A s \in Sides : \A p \in DOMAIN b.levels[s] : \A i \in DOMAIN b.levels[s][p] :
    IndexedAt(b, b.levels[s][p][i], s, p)

\* The index names no order that is not there.
IndexSound(b) ==
  \A id \in DOMAIN b.locations :
    LET loc == b.locations[id]
    IN  /\ loc.price \in DOMAIN b.levels[loc.side]
        /\ \E i \in DOMAIN b.levels[loc.side][loc.price] :
             b.levels[loc.side][loc.price][i].id = id

\* A queue is in order of arrival: ids grow from front to back.
QueuesInTimeOrder(b) ==
  \A s \in Sides : \A p \in DOMAIN b.levels[s] :
    \A i, j \in DOMAIN b.levels[s][p] :
      i < j => b.levels[s][p][i].id < b.levels[s][p][j].id

\* Every bid is below every ask.
NotCrossed(b) ==
  \A bid \in DOMAIN b.levels["buy"], ask \in DOMAIN b.levels["sell"] : bid < ask

\* What the operations keep whatever they are called with.
Consistent(b) ==
  /\ LevelsTyped(b) /\ LocationsTyped(b)
  /\ NoEmptyLevel(b) /\ OrdersIndexed(b) /\ IndexSound(b)
  /\ QueuesInTimeOrder(b)

WellFormed(b) == Consistent(b) /\ NotCrossed(b)
=============================================================================
