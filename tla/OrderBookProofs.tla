---------------------------- MODULE OrderBookProofs ----------------------------
(***************************************************************************)
(* Lemmas about the operations of the order book: each keeps a consistent  *)
(* book consistent and an uncrossed book uncrossed. Then which orders a    *)
(* book holds, whatever levels and queues hold them: what insert, cancel   *)
(* and take_best_* do to the set of resting orders, and that the maker a   *)
(* take meets is the best and oldest of its side. They hold for every set  *)
(* of prices and every book; what is proved of the engine and of the       *)
(* gateway rests on them.                                                  *)
(***************************************************************************)
EXTENDS OrderBook, FiniteSums, SequenceTheorems

\* A non-empty bounded set of numbers has a least and a greatest element.
LEMMA Extremes ==
  ASSUME NEW bound \in Nat, NEW P \in SUBSET (0..bound), P # {}
  PROVE  /\ \E p \in P : \A q \in P : ~(q < p)
         /\ \E p \in P : \A q \in P : ~(q > p)
<1> DEFINE R == OpToRel(<, Nat)
<1>0. P \subseteq Nat /\ \A p \in P : p <= bound
  OBVIOUS
<1>1. IsWellFoundedOn(R, Nat)
  BY NatLessThanWellFounded
<1>2. \A T \in SUBSET Nat : T # {} => \E x \in T : \A y \in T : ~(<<y, x>> \in R)
  <2> HIDE DEF R
  <2> QED BY <1>1, WFMin
<1>3. \A T \in SUBSET Nat : T # {} => \E x \in T : \A y \in T : ~(y < x)
  <2> SUFFICES ASSUME NEW T \in SUBSET Nat, T # {}
               PROVE  \E x \in T : \A y \in T : ~(y < x)
    OBVIOUS
  <2>1. PICK x \in T : \A y \in T : ~(<<y, x>> \in R)
    BY <1>2
  <2> QED BY <2>1 DEF OpToRel
<1>4. \E p \in P : \A q \in P : ~(q < p)
  BY <1>0, <1>3
<1>5. \E p \in P : \A q \in P : ~(q > p)
  <2> DEFINE T == {bound - p : p \in P}
  <2>0. \A p \in P : bound - p \in Nat
    BY <1>0
  <2>1. T \in SUBSET Nat /\ T # {}
    BY <2>0
  <2>2. PICK x \in T : \A y \in T : ~(y < x)
    BY <1>3, <2>1
  <2>3. PICK p \in P : x = bound - p
    BY <2>2
  <2>4. ASSUME NEW q \in P PROVE ~(q > p)
    <3>1. bound - q \in T
      OBVIOUS
    <3>2. ~(bound - q < bound - p)
      BY <2>2, <2>3, <3>1
    <3> QED BY <1>0, <3>2
  <2> QED BY <2>4
<1> QED BY <1>4, <1>5

\* A book without orders is well formed.
LEMMA EmptyWellFormed == WellFormed(EmptyBook) /\ DOMAIN EmptyBook.locations = {}
<1>1. /\ EmptyBook.levels = [s \in Sides |-> [p \in {} |-> <<>>]]
      /\ EmptyBook.locations = [id \in {} |-> 0]
  BY DEF EmptyBook
<1>2. \A s \in Sides : DOMAIN EmptyBook.levels[s] = {}
  BY <1>1
<1>3. DOMAIN EmptyBook.locations = {}
  BY <1>1
<1>4. LevelsTyped(EmptyBook)
  BY <1>1, <1>2 DEF LevelsTyped
<1>5. /\ LocationsTyped(EmptyBook) /\ NoEmptyLevel(EmptyBook) /\ OrdersIndexed(EmptyBook)
      /\ IndexSound(EmptyBook) /\ QueuesInTimeOrder(EmptyBook)
  BY <1>2, <1>3 DEF LocationsTyped, NoEmptyLevel, OrdersIndexed, IndexSound, QueuesInTimeOrder
<1>6. NotCrossed(EmptyBook)
  BY <1>2 DEF NotCrossed, Sides
<1> QED BY <1>3, <1>4, <1>5, <1>6 DEF WellFormed, Consistent

\* best_bid and best_ask return the end of the map that is best for the taker.
LEMMA BestPriceIsBest ==
  ASSUME NEW b, NEW side \in Sides, LevelsTyped(b), DOMAIN b.levels[side] # {}
  PROVE  /\ BestPrice(b, side) \in DOMAIN b.levels[side]
         /\ \A q \in DOMAIN b.levels[side] : ~BetterPrice(side, q, BestPrice(b, side))
<1>1. DOMAIN b.levels[side] \in SUBSET Prices
  BY DEF LevelsTyped
<1>2. \E p \in DOMAIN b.levels[side] :
        \A q \in DOMAIN b.levels[side] : ~BetterPrice(side, q, p)
  BY <1>1, Extremes, PricesAssumption DEF BetterPrice
<1> QED BY <1>2 DEF BestPrice

\* When the best price of the other side is not acceptable, no price there is.
LEMMA NoneAccepted ==
  ASSUME NEW b, LevelsTyped(b), NEW side \in Sides, NEW limit \in Prices,
         \/ DOMAIN b.levels[Opposite(side)] = {}
         \/ ~Accepts(side, limit, BestPrice(b, Opposite(side)))
  PROVE  \A q \in DOMAIN b.levels[Opposite(side)] : ~Accepts(side, limit, q)
<1> SUFFICES ASSUME NEW q \in DOMAIN b.levels[Opposite(side)]
             PROVE  ~Accepts(side, limit, q)
  OBVIOUS
<1>1. PICK other, best : other = Opposite(side) /\ best = BestPrice(b, other)
  OBVIOUS
<1>2. other \in Sides /\ q \in DOMAIN b.levels[other]
  BY <1>1 DEF Opposite, Sides
<1>3. best \in DOMAIN b.levels[other] /\ ~BetterPrice(other, q, best)
  BY <1>1, <1>2, BestPriceIsBest
<1>4. q \in Nat /\ best \in Nat /\ limit \in Nat
  <2>1. \A x \in Prices : x \in Nat
    BY PricesAssumption
  <2>2. DOMAIN b.levels[other] \subseteq Prices
    BY <1>2 DEF LevelsTyped
  <2> QED BY <1>2, <1>3, <2>1, <2>2
<1>5. ~Accepts(side, limit, best)
  BY <1>1
<1> QED BY <1>1, <1>3, <1>4, <1>5 DEF Accepts, BetterPrice, Opposite, Sides

\* What the maps hold after a queue was put back.
LEMMA PutQueueLevels ==
  ASSUME NEW levels, NEW side \in Sides, NEW p, NEW queue,
         levels = [s \in Sides |-> levels[s]]
  PROVE  LET after == PutQueue(levels, side, p, queue)
         IN  /\ after = [s \in Sides |-> after[s]]
             /\ \A s \in Sides \ {side} : after[s] = levels[s]
             /\ queue = <<>> => DOMAIN after[side] = DOMAIN levels[side] \ {p}
             /\ queue # <<>> => /\ DOMAIN after[side] = DOMAIN levels[side] \cup {p}
                                /\ after[side][p] = queue
             /\ \A q \in DOMAIN after[side] : q # p =>
                  q \in DOMAIN levels[side] /\ after[side][q] = levels[side][q]
<1> DEFINE after == PutQueue(levels, side, p, queue)
<1>1. after = [s \in Sides |-> IF s = side THEN (IF queue = <<>> THEN Without(levels[side], p)
                                                 ELSE With(levels[side], p, queue))
                               ELSE levels[s]]
  BY DEF PutQueue
<1>2. after[side] = IF queue = <<>> THEN Without(levels[side], p)
                                    ELSE With(levels[side], p, queue)
  BY <1>1
<1>3. CASE queue = <<>>
  BY <1>1, <1>2, <1>3 DEF Without, Restrict
<1>4. CASE queue # <<>>
  BY <1>1, <1>2, <1>4 DEF With
<1> QED BY <1>3, <1>4

\* The heart of every operation: one queue is replaced and the index with it.
\* The book stays consistent if the new queue holds orders of its own side and
\* price in order of age, the index agrees with it and is otherwise as before.
LEMMA ReplaceQueue ==
  ASSUME NEW b, Consistent(b),
         NEW side \in Sides, NEW p \in Prices,
         NEW queue \in Seq(EngineOrders), NEW locations,
         \A i \in DOMAIN queue :
           /\ queue[i].side = side /\ queue[i].price = p
           /\ queue[i].id \in DOMAIN locations
           /\ locations[queue[i].id] = [side |-> side, price |-> p],
         \A i, j \in DOMAIN queue : i < j => queue[i].id < queue[j].id,
         \A id \in DOMAIN locations :
           \/ \E i \in DOMAIN queue : queue[i].id = id
           \/ /\ id \in DOMAIN b.locations
              /\ locations[id] = b.locations[id]
              /\ b.locations[id] # [side |-> side, price |-> p],
         \A id \in DOMAIN b.locations :
           b.locations[id] # [side |-> side, price |-> p] =>
             id \in DOMAIN locations /\ locations[id] = b.locations[id]
  PROVE  Consistent([levels    |-> PutQueue(b.levels, side, p, queue),
                     locations |-> locations])
<1> DEFINE after == PutQueue(b.levels, side, p, queue)
           c == [levels |-> after, locations |-> locations]
<1> USE DEF Consistent
<1>0. c.levels = after /\ c.locations = locations
  OBVIOUS
<1>1. /\ after = [s \in Sides |-> after[s]]
      /\ \A s \in Sides \ {side} : after[s] = b.levels[s]
      /\ queue = <<>> => DOMAIN after[side] = DOMAIN b.levels[side] \ {p}
      /\ queue # <<>> => /\ DOMAIN after[side] = DOMAIN b.levels[side] \cup {p}
                         /\ after[side][p] = queue
      /\ \A q \in DOMAIN after[side] : q # p =>
           q \in DOMAIN b.levels[side] /\ after[side][q] = b.levels[side][q]
  BY PutQueueLevels DEF LevelsTyped
<1>2. p \in DOMAIN after[side] => queue # <<>> /\ after[side][p] = queue
  BY <1>1
<1>3. \A s \in Sides : \A q \in DOMAIN after[s] :
        \/ s = side /\ q = p /\ queue # <<>> /\ after[s][q] = queue
        \/ <<s, q>> # <<side, p>> /\ q \in DOMAIN b.levels[s] /\ after[s][q] = b.levels[s][q]
  BY <1>1, <1>2
<1> HIDE DEF after, c
<1>4. LevelsTyped(c)
  <2>1. \A s \in Sides : \A q \in DOMAIN after[s] : q \in Prices /\ after[s][q] \in Seq(EngineOrders)
    BY <1>3 DEF LevelsTyped
  <2> QED BY <2>1, <1>0, <1>1 DEF LevelsTyped
<1>5. LocationsTyped(c)
  <2> SUFFICES ASSUME NEW id \in DOMAIN locations
               PROVE  id \in Nat /\ locations[id] \in Locations
    BY <1>0 DEF LocationsTyped
  <2>1. CASE \E i \in DOMAIN queue : queue[i].id = id
    <3>1. PICK i \in DOMAIN queue : queue[i].id = id
      BY <2>1
    <3>2. queue[i] \in EngineOrders
      BY <3>1, ElementOfSeq, LenProperties
    <3> QED BY <3>1, <3>2 DEF EngineOrders, Locations
  <2>2. CASE id \in DOMAIN b.locations /\ locations[id] = b.locations[id]
    BY <2>2 DEF LocationsTyped
  <2> QED BY <2>1, <2>2
<1>6. NoEmptyLevel(c)
  BY <1>0, <1>3 DEF NoEmptyLevel
<1>7. OrdersIndexed(c)
  <2> SUFFICES ASSUME NEW s \in Sides, NEW q \in DOMAIN after[s], NEW i \in DOMAIN after[s][q]
               PROVE  IndexedAt(c, after[s][q][i], s, q)
    BY <1>0 DEF OrdersIndexed
  <2>1. CASE s = side /\ q = p /\ after[s][q] = queue
    BY <2>1, <1>0 DEF IndexedAt
  <2>2. CASE <<s, q>> # <<side, p>> /\ q \in DOMAIN b.levels[s] /\ after[s][q] = b.levels[s][q]
    <3> DEFINE o == b.levels[s][q][i]
    <3>1. /\ o.side = s /\ o.price = q
          /\ o.id \in DOMAIN b.locations
          /\ b.locations[o.id] = [side |-> s, price |-> q]
      BY <2>2 DEF OrdersIndexed, IndexedAt
    <3>2. [side |-> s, price |-> q] # [side |-> side, price |-> p]
      BY <2>2
    <3> HIDE DEF o
    <3>3. o.id \in DOMAIN locations /\ locations[o.id] = [side |-> s, price |-> q]
      BY <3>1, <3>2
    <3> QED BY <2>2, <3>1, <3>3, <1>0 DEF o, IndexedAt
  <2> QED BY <1>3, <2>1, <2>2
<1>8. IndexSound(c)
  <2> SUFFICES ASSUME NEW id \in DOMAIN locations
               PROVE  /\ locations[id].price \in DOMAIN after[locations[id].side]
                      /\ \E i \in DOMAIN after[locations[id].side][locations[id].price] :
                           after[locations[id].side][locations[id].price][i].id = id
    BY <1>0 DEF IndexSound
  <2>1. CASE \E i \in DOMAIN queue : queue[i].id = id
    <3>1. PICK i \in DOMAIN queue : queue[i].id = id
      BY <2>1
    <3>2. queue # <<>>
      BY <3>1
    <3>3. p \in DOMAIN after[side] /\ after[side][p] = queue
      BY <1>1, <3>2 DEF after
    <3>4. locations[id] = [side |-> side, price |-> p]
      BY <3>1
    <3> QED BY <3>1, <3>3, <3>4
  <2>2. CASE /\ id \in DOMAIN b.locations
             /\ locations[id] = b.locations[id]
             /\ b.locations[id] # [side |-> side, price |-> p]
    <3> DEFINE loc == b.locations[id]
    <3>1. loc \in Locations
      BY <2>2 DEF LocationsTyped
    <3>2. /\ loc.price \in DOMAIN b.levels[loc.side]
          /\ \E i \in DOMAIN b.levels[loc.side][loc.price] : b.levels[loc.side][loc.price][i].id = id
      BY <2>2 DEF IndexSound
    <3>3. loc.side # side \/ loc.price # p
      BY <2>2, <3>1 DEF Locations
    <3>4. /\ loc.price \in DOMAIN after[loc.side]
          /\ after[loc.side][loc.price] = b.levels[loc.side][loc.price]
      <4>1. CASE loc.side # side
        BY <4>1, <3>1, <3>2, <1>1 DEF Locations
      <4>2. CASE loc.side = side
        BY <4>2, <3>3, <3>2, <1>1 DEF after
      <4> QED BY <4>1, <4>2
    <3>5. locations[id] = loc
      BY <2>2
    <3> HIDE DEF loc
    <3> QED BY <3>2, <3>4, <3>5
  <2> QED BY <2>1, <2>2
<1>9. QueuesInTimeOrder(c)
  BY <1>0, <1>3 DEF QueuesInTimeOrder
<1> QED BY <1>4, <1>5, <1>6, <1>7, <1>8, <1>9 DEF after, c

\* A queue that is replaced crosses nothing if a price that gets its first order
\* meets no price of the other side.
LEMMA ReplaceQueueUncrossed ==
  ASSUME NEW b, LevelsTyped(b), NotCrossed(b),
         NEW side \in Sides, NEW p \in Prices, NEW queue, NEW locations,
         queue # <<>> /\ p \notin DOMAIN b.levels[side] =>
           \A q \in DOMAIN b.levels[Opposite(side)] : ~Accepts(side, p, q)
  PROVE  NotCrossed([levels    |-> PutQueue(b.levels, side, p, queue),
                     locations |-> locations])
<1> DEFINE after == PutQueue(b.levels, side, p, queue)
<1>1. /\ \A s \in Sides \ {side} : after[s] = b.levels[s]
      /\ queue = <<>> => DOMAIN after[side] = DOMAIN b.levels[side] \ {p}
      /\ \A q \in DOMAIN after[side] : q # p => q \in DOMAIN b.levels[side]
  BY PutQueueLevels DEF LevelsTyped
<1> HIDE DEF after
<1>2. SUFFICES ASSUME NEW bid \in DOMAIN after["buy"], NEW ask \in DOMAIN after["sell"]
               PROVE  bid < ask
  BY DEF NotCrossed, after
<1>3. "buy" \in Sides /\ "sell" \in Sides /\ side \in {"buy", "sell"}
  BY DEF Sides
<1>4. bid \in DOMAIN b.levels["buy"] \/ (side = "buy" /\ bid = p /\ queue # <<>>)
  BY <1>1, <1>3
<1>5. ask \in DOMAIN b.levels["sell"] \/ (side = "sell" /\ ask = p /\ queue # <<>>)
  BY <1>1, <1>3
<1>6. CASE bid \in DOMAIN b.levels["buy"] /\ ask \in DOMAIN b.levels["sell"]
  BY <1>6 DEF NotCrossed
<1>7. CASE bid \notin DOMAIN b.levels["buy"]
  <2>1. ask \in DOMAIN b.levels["sell"] /\ ~Accepts("buy", bid, ask)
    BY <1>4, <1>5, <1>7 DEF Opposite
  <2>2. ask \in Prices /\ bid \in Prices
    BY <2>1, <1>3, <1>4, <1>7 DEF LevelsTyped
  <2> QED BY <2>1, <2>2, PricesAssumption DEF Accepts
<1>8. CASE ask \notin DOMAIN b.levels["sell"]
  <2>1. bid \in DOMAIN b.levels["buy"] /\ ~Accepts("sell", ask, bid)
    BY <1>4, <1>5, <1>8 DEF Opposite
  <2>2. ask \in Prices /\ bid \in Prices
    BY <2>1, <1>3, <1>5, <1>8 DEF LevelsTyped
  <2> QED BY <2>1, <2>2, PricesAssumption DEF Accepts
<1> QED BY <1>6, <1>7, <1>8

\* What a consistent book knows of the queue at a price (perhaps empty).
LEMMA QueueFacts ==
  ASSUME NEW b, Consistent(b), NEW side \in Sides, NEW p \in Prices
  PROVE  /\ QueueAt(b, side, p) \in Seq(EngineOrders)
         /\ \A i \in DOMAIN QueueAt(b, side, p) :
              /\ QueueAt(b, side, p)[i] \in EngineOrders
              /\ IndexedAt(b, QueueAt(b, side, p)[i], side, p)
         /\ \A i, j \in DOMAIN QueueAt(b, side, p) :
              i < j => QueueAt(b, side, p)[i].id < QueueAt(b, side, p)[j].id
         /\ \A id \in DOMAIN b.locations :
              b.locations[id] = [side |-> side, price |-> p] =>
                \E i \in DOMAIN QueueAt(b, side, p) : QueueAt(b, side, p)[i].id = id
<1> DEFINE queue == QueueAt(b, side, p)
<1>1. CASE p \in DOMAIN b.levels[side]
  <2>1. queue = b.levels[side][p]
    BY <1>1 DEF QueueAt
  <2>2. queue \in Seq(EngineOrders)
    BY <2>1, <1>1 DEF Consistent, LevelsTyped
  <2>3. \A i \in DOMAIN queue : queue[i] \in EngineOrders
    <3> HIDE DEF queue
    <3> QED BY <2>2, LenProperties, ElementOfSeq
  <2>4. \A i \in DOMAIN queue : IndexedAt(b, queue[i], side, p)
    BY <2>1, <1>1 DEF Consistent, OrdersIndexed
  <2>5. \A i, j \in DOMAIN queue : i < j => queue[i].id < queue[j].id
    BY <2>1, <1>1 DEF Consistent, QueuesInTimeOrder
  <2>6. \A id \in DOMAIN b.locations :
          b.locations[id] = [side |-> side, price |-> p] => \E i \in DOMAIN queue : queue[i].id = id
    BY <2>1, <1>1 DEF Consistent, IndexSound
  <2> QED BY <2>2, <2>3, <2>4, <2>5, <2>6
<1>2. CASE p \notin DOMAIN b.levels[side]
  <2>1. queue = <<>>
    BY <1>2 DEF QueueAt
  <2>2. ASSUME NEW id \in DOMAIN b.locations PROVE b.locations[id] # [side |-> side, price |-> p]
    BY <1>2 DEF Consistent, IndexSound
  <2> QED BY <2>1, <2>2
<1> QED BY <1>1, <1>2

\* insert keeps the book consistent when the new order is the youngest.
LEMMA InsertConsistent ==
  ASSUME NEW b, Consistent(b), NEW o \in EngineOrders,
         \A id \in DOMAIN b.locations : id < o.id
  PROVE  /\ Consistent(Insert(b, o))
         /\ DOMAIN Insert(b, o).locations = DOMAIN b.locations \cup {o.id}
<1> DEFINE old   == QueueAt(b, o.side, o.price)
           queue == Append(old, o)
           locs  == With(b.locations, o.id, [side |-> o.side, price |-> o.price])
<1>1. o.side \in Sides /\ o.price \in Prices /\ o.id \in Nat
  BY DEF EngineOrders
<1>2. /\ old \in Seq(EngineOrders)
      /\ \A i \in DOMAIN old : old[i] \in EngineOrders /\ IndexedAt(b, old[i], o.side, o.price)
      /\ \A i, j \in DOMAIN old : i < j => old[i].id < old[j].id
      /\ \A id \in DOMAIN b.locations :
           b.locations[id] = [side |-> o.side, price |-> o.price] =>
             \E i \in DOMAIN old : old[i].id = id
  BY <1>1, QueueFacts
<1>3. /\ DOMAIN locs = DOMAIN b.locations \cup {o.id}
      /\ locs[o.id] = [side |-> o.side, price |-> o.price]
      /\ \A id \in DOMAIN b.locations : locs[id] = b.locations[id]
  <2>1. o.id \notin DOMAIN b.locations
    BY <1>1
  <2> QED BY <2>1 DEF With
<1> HIDE DEF old, locs
<1>4. /\ queue \in Seq(EngineOrders) /\ queue # <<>>
      /\ DOMAIN old = 1..Len(old) /\ Len(old) \in Nat
      /\ DOMAIN queue = 1..(Len(old) + 1)
      /\ \A i \in DOMAIN old : queue[i] = old[i]
      /\ queue[Len(old) + 1] = o
  BY <1>2, AppendProperties, LenProperties
<1> HIDE DEF queue
<1>5. \A i \in DOMAIN queue : i \in DOMAIN old \/ (i = Len(old) + 1 /\ queue[i] = o)
  BY <1>4
<1>6. \A i \in DOMAIN queue :
        /\ queue[i].side = o.side /\ queue[i].price = o.price
        /\ queue[i].id \in DOMAIN locs
        /\ locs[queue[i].id] = [side |-> o.side, price |-> o.price]
  BY <1>2, <1>3, <1>4, <1>5 DEF IndexedAt
<1>7. \A i, j \in DOMAIN queue : i < j => queue[i].id < queue[j].id
  <2> SUFFICES ASSUME NEW i \in DOMAIN queue, NEW j \in DOMAIN queue, i < j
               PROVE  queue[i].id < queue[j].id
    OBVIOUS
  <2>1. i \in DOMAIN old
    BY <1>4, <1>5
  <2>2. CASE j \in DOMAIN old
    BY <1>2, <1>4, <2>1, <2>2
  <2>3. CASE queue[j] = o
    <3>1. old[i].id \in DOMAIN b.locations
      BY <1>2, <2>1 DEF IndexedAt
    <3> QED BY <1>4, <2>1, <2>3, <3>1
  <2> QED BY <1>5, <2>2, <2>3
<1>8. \A id \in DOMAIN locs :
        \/ \E i \in DOMAIN queue : queue[i].id = id
        \/ /\ id \in DOMAIN b.locations
           /\ locs[id] = b.locations[id]
           /\ b.locations[id] # [side |-> o.side, price |-> o.price]
  <2> SUFFICES ASSUME NEW id \in DOMAIN locs, ~\E i \in DOMAIN queue : queue[i].id = id
               PROVE  /\ id \in DOMAIN b.locations
                      /\ locs[id] = b.locations[id]
                      /\ b.locations[id] # [side |-> o.side, price |-> o.price]
    OBVIOUS
  <2>1. id # o.id
    BY <1>4
  <2>2. \A i \in DOMAIN old : old[i].id # id
    BY <1>4
  <2> QED BY <1>2, <1>3, <2>1, <2>2
<1>9. \A id \in DOMAIN b.locations :
        b.locations[id] # [side |-> o.side, price |-> o.price] =>
          id \in DOMAIN locs /\ locs[id] = b.locations[id]
  BY <1>3
<1>10. Consistent([levels |-> PutQueue(b.levels, o.side, o.price, queue), locations |-> locs])
  BY <1>1, <1>4, <1>6, <1>7, <1>8, <1>9, ReplaceQueue
<1>11. Insert(b, o) = [levels |-> PutQueue(b.levels, o.side, o.price, queue), locations |-> locs]
  BY DEF Insert, queue, old, locs
<1> QED BY <1>3, <1>10, <1>11

\* insert keeps the book well formed when the new order also meets nothing on
\* the other side.
LEMMA InsertWellFormed ==
  ASSUME NEW b, WellFormed(b), NEW o \in EngineOrders,
         \A id \in DOMAIN b.locations : id < o.id,
         \A q \in DOMAIN b.levels[Opposite(o.side)] : ~Accepts(o.side, o.price, q)
  PROVE  /\ WellFormed(Insert(b, o))
         /\ DOMAIN Insert(b, o).locations = DOMAIN b.locations \cup {o.id}
<1>1. o.side \in Sides /\ o.price \in Prices
  BY DEF EngineOrders
<1>2. NotCrossed(Insert(b, o))
  BY <1>1, ReplaceQueueUncrossed DEF Insert, WellFormed, Consistent
<1> QED BY <1>2, InsertConsistent DEF WellFormed

\* Removing one element keeps the others and their order.
LEMMA RemoveAtProperties ==
  ASSUME NEW S, NEW seq \in Seq(S), NEW i \in 1..Len(seq)
  PROVE  /\ RemoveAt(seq, i) \in Seq(S)
         /\ Len(RemoveAt(seq, i)) = Len(seq) - 1
         /\ \A j \in 1..(Len(seq) - 1) :
              RemoveAt(seq, i)[j] = IF j < i THEN seq[j] ELSE seq[j + 1]
<1> DEFINE left == SubSeq(seq, 1, i - 1)
           right == SubSeq(seq, i + 1, Len(seq))
<1>1. Len(seq) \in Nat /\ \A j \in 1..Len(seq) : seq[j] \in S
  BY ElementOfSeq, LenProperties
<1>2. /\ left \in Seq(S)
      /\ Len(left) = i - 1
      /\ \A j \in 1..(i - 1) : left[j] = seq[j]
  <2>1. 1 \in Int /\ i - 1 \in Int /\ \A j \in 1..(i - 1) : seq[j] \in S
    BY <1>1
  <2>2. /\ left \in Seq(S)
        /\ Len(left) = IF 1 <= i - 1 THEN (i - 1) - 1 + 1 ELSE 0
        /\ \A j \in 1..((i - 1) - 1 + 1) : left[j] = seq[1 + j - 1]
    BY <2>1, SubSeqProperties
  <2> HIDE DEF left
  <2> QED BY <2>2, <1>1
<1>3. /\ right \in Seq(S)
      /\ Len(right) = Len(seq) - i
      /\ \A j \in 1..(Len(seq) - i) : right[j] = seq[i + j]
  <2>1. i + 1 \in Int /\ Len(seq) \in Int /\ \A j \in (i + 1)..Len(seq) : seq[j] \in S
    BY <1>1
  <2>2. /\ right \in Seq(S)
        /\ Len(right) = IF i + 1 <= Len(seq) THEN Len(seq) - (i + 1) + 1 ELSE 0
        /\ \A j \in 1..(Len(seq) - (i + 1) + 1) : right[j] = seq[(i + 1) + j - 1]
    BY <2>1, SubSeqProperties
  <2> HIDE DEF right
  <2> QED BY <2>2, <1>1
<1> HIDE DEF left, right
<1>4. /\ left \o right \in Seq(S)
      /\ Len(left \o right) = Len(left) + Len(right)
      /\ \A j \in 1..(Len(left) + Len(right)) :
           (left \o right)[j] = IF j <= Len(left) THEN left[j] ELSE right[j - Len(left)]
  BY <1>2, <1>3, ConcatProperties
<1>5. ASSUME NEW j \in 1..(Len(seq) - 1)
      PROVE  (left \o right)[j] = IF j < i THEN seq[j] ELSE seq[j + 1]
  <2>1. j \in 1..(Len(left) + Len(right))
    BY <1>1, <1>2, <1>3
  <2>2. (left \o right)[j] = IF j <= Len(left) THEN left[j] ELSE right[j - Len(left)]
    BY <2>1, <1>4
  <2>3. CASE j < i
    BY <2>2, <2>3, <1>1, <1>2
  <2>4. CASE ~(j < i)
    <3>1. j - (i - 1) \in 1..(Len(seq) - i) /\ i + (j - (i - 1)) = j + 1
      BY <2>4, <1>1
    <3>2. right[j - (i - 1)] = seq[j + 1]
      BY <3>1, <1>3
    <3> QED BY <2>2, <2>4, <3>2, <1>1, <1>2
  <2> QED BY <2>3, <2>4
<1>6. RemoveAt(seq, i) = left \o right
  BY DEF RemoveAt, left, right
<1> QED BY <1>1, <1>2, <1>3, <1>4, <1>5, <1>6

\* A queue that loses the order at one place, and the index that order's entry:
\* the book stays consistent. cancel and a complete fill both do this.
LEMMA DropConsistent ==
  ASSUME NEW b, Consistent(b), NEW side \in Sides, NEW p \in DOMAIN b.levels[side],
         NEW k \in DOMAIN b.levels[side][p], NEW queue \in Seq(EngineOrders),
         Len(queue) = Len(b.levels[side][p]) - 1,
         \A i \in 1..Len(queue) :
           queue[i] = IF i < k THEN b.levels[side][p][i] ELSE b.levels[side][p][i + 1]
  PROVE  Consistent([levels    |-> PutQueue(b.levels, side, p, queue),
                     locations |-> Without(b.locations, b.levels[side][p][k].id)])
<1> DEFINE old  == b.levels[side][p]
           gone == old[k].id
           locs == Without(b.locations, gone)
<1>1. p \in Prices /\ old = QueueAt(b, side, p)
  BY DEF Consistent, LevelsTyped, QueueAt
<1>2. /\ old \in Seq(EngineOrders)
      /\ \A i \in DOMAIN old : old[i] \in EngineOrders /\ IndexedAt(b, old[i], side, p)
      /\ \A i, j \in DOMAIN old : i < j => old[i].id < old[j].id
      /\ \A id \in DOMAIN b.locations :
           b.locations[id] = [side |-> side, price |-> p] =>
             \E i \in DOMAIN old : old[i].id = id
  <2> HIDE DEF old
  <2>1. p \in Prices /\ old = QueueAt(b, side, p)
    BY <1>1
  <2> QED BY <2>1, QueueFacts
<1>3. DOMAIN locs = DOMAIN b.locations \ {gone} /\ \A id \in DOMAIN locs : locs[id] = b.locations[id]
  BY DEF Without, Restrict
<1>4. gone \in DOMAIN b.locations /\ b.locations[gone] = [side |-> side, price |-> p]
  BY <1>2 DEF IndexedAt
<1> HIDE DEF locs
<1>5. /\ Len(old) \in Nat /\ DOMAIN old = 1..Len(old)
      /\ Len(queue) \in Nat /\ DOMAIN queue = 1..Len(queue)
      /\ Len(queue) = Len(old) - 1 /\ k \in 1..Len(old)
      /\ \A i \in 1..Len(queue) : queue[i] = IF i < k THEN old[i] ELSE old[i + 1]
  BY <1>2, LenProperties
<1> HIDE DEF old, gone
\* Every place of the new queue was a place of the old one, k excepted.
<1> DEFINE was(i) == IF i < k THEN i ELSE i + 1
<1>6. /\ \A i \in DOMAIN queue : was(i) \in DOMAIN old \ {k} /\ queue[i] = old[was(i)]
      /\ \A i, j \in DOMAIN queue : i < j => was(i) < was(j)
      /\ \A m \in DOMAIN old \ {k} : \E i \in DOMAIN queue : queue[i] = old[m]
  <2>1. \A i \in DOMAIN queue : was(i) \in DOMAIN old \ {k} /\ queue[i] = old[was(i)]
    BY <1>5
  <2>2. \A i, j \in DOMAIN queue : i < j => was(i) < was(j)
    BY <1>5
  <2>3. ASSUME NEW m \in DOMAIN old \ {k} PROVE \E i \in DOMAIN queue : queue[i] = old[m]
    <3>1. CASE m < k
      <4>1. m \in DOMAIN queue /\ queue[m] = old[m]
        BY <1>5, <3>1
      <4> QED BY <4>1
    <3>2. CASE m > k
      <4>1. m - 1 \in DOMAIN queue /\ queue[m - 1] = old[m]
        BY <1>5, <3>2
      <4> QED BY <4>1
    <3> QED BY <3>1, <3>2, <1>5
  <2> QED BY <2>1, <2>2, <2>3
<1>7. \A m \in DOMAIN old \ {k} : old[m].id # gone
  <2> SUFFICES ASSUME NEW m \in DOMAIN old, m # k
               PROVE  old[m].id # old[k].id
    BY DEF gone
  <2>1. m < k \/ k < m
    BY <1>5
  <2>2. old[m].id \in Nat /\ old[k].id \in Nat
    BY <1>2, <1>5 DEF EngineOrders
  <2> QED BY <1>2, <1>5, <2>1, <2>2
<1> HIDE DEF was
<1>8. \A i \in DOMAIN queue :
        /\ queue[i].side = side /\ queue[i].price = p
        /\ queue[i].id \in DOMAIN locs
        /\ locs[queue[i].id] = [side |-> side, price |-> p]
  BY <1>2, <1>3, <1>6, <1>7 DEF IndexedAt
<1>9. \A i, j \in DOMAIN queue : i < j => queue[i].id < queue[j].id
  BY <1>2, <1>6
<1>10. \A id \in DOMAIN locs :
         \/ \E i \in DOMAIN queue : queue[i].id = id
         \/ /\ id \in DOMAIN b.locations
            /\ locs[id] = b.locations[id]
            /\ b.locations[id] # [side |-> side, price |-> p]
  <2> SUFFICES ASSUME NEW id \in DOMAIN locs, b.locations[id] = [side |-> side, price |-> p]
               PROVE  \E i \in DOMAIN queue : queue[i].id = id
    BY <1>3
  <2>1. PICK m \in DOMAIN old : old[m].id = id
    BY <1>2, <1>3
  <2>2. m # k
    BY <1>3, <2>1 DEF gone
  <2> QED BY <1>6, <2>1, <2>2
<1>11. \A id \in DOMAIN b.locations :
         b.locations[id] # [side |-> side, price |-> p] =>
           id \in DOMAIN locs /\ locs[id] = b.locations[id]
  BY <1>3, <1>4
<1>12. Consistent([levels |-> PutQueue(b.levels, side, p, queue), locations |-> locs])
  BY <1>1, <1>8, <1>9, <1>10, <1>11, ReplaceQueue
<1> QED BY <1>12 DEF locs, gone, old

\* A queue that got shorter crosses nothing that the longer one did not cross.
LEMMA DropUncrossed ==
  ASSUME NEW b, LevelsTyped(b), NotCrossed(b), NEW side \in Sides,
         NEW p \in DOMAIN b.levels[side], NEW queue, NEW locations
  PROVE  NotCrossed([levels    |-> PutQueue(b.levels, side, p, queue),
                     locations |-> locations])
<1>1. p \in Prices
  BY DEF LevelsTyped
<1> QED BY <1>1, ReplaceQueueUncrossed

\* cancel finds every indexed order and keeps the book consistent.
LEMMA RemoveConsistent ==
  ASSUME NEW b, Consistent(b), NEW id \in DOMAIN b.locations
  PROVE  /\ Consistent(RemoveOrder(b, id))
         /\ DOMAIN RemoveOrder(b, id).locations = DOMAIN b.locations \ {id}
<1> DEFINE side == b.locations[id].side
           p    == b.locations[id].price
           old  == b.levels[side][p]
           k    == Position(b, id)
<1>1. /\ side \in Sides /\ p \in DOMAIN b.levels[side]
      /\ \E i \in DOMAIN old : old[i].id = id
  BY DEF Consistent, LocationsTyped, Locations, IndexSound
<1>2. old = QueueAt(b, side, p)
  BY <1>1 DEF QueueAt
<1>3. k \in DOMAIN old /\ old[k].id = id
  BY <1>1, <1>2 DEF Position
<1>4. old \in Seq(EngineOrders)
  BY <1>1 DEF Consistent, LevelsTyped
<1>5. DOMAIN old = 1..Len(old) /\ Len(old) \in Nat
  BY <1>4, LenProperties
<1>6. /\ RemoveAt(old, k) \in Seq(EngineOrders)
      /\ Len(RemoveAt(old, k)) = Len(old) - 1
      /\ \A j \in 1..(Len(old) - 1) : RemoveAt(old, k)[j] = IF j < k THEN old[j] ELSE old[j + 1]
  <2> HIDE DEF old, k
  <2> QED BY <1>3, <1>4, <1>5, RemoveAtProperties
<1>7. Consistent([levels    |-> PutQueue(b.levels, side, p, RemoveAt(old, k)),
                  locations |-> Without(b.locations, id)])
  <2>1. Consistent([levels    |-> PutQueue(b.levels, side, p, RemoveAt(old, k)),
                    locations |-> Without(b.locations, old[k].id)])
    <3> HIDE DEF side, p, k
    <3> QED BY <1>1, <1>3, <1>6, DropConsistent
  <2> HIDE DEF side, p, old, k
  <2> QED BY <1>3, <2>1
<1>8. RemoveOrder(b, id) = [levels    |-> PutQueue(b.levels, side, p, RemoveAt(old, k)),
                            locations |-> Without(b.locations, id)]
  <2>1. k # 0
    BY <1>3, <1>5
  <2> QED BY <2>1, Zenon DEF RemoveOrder
<1>9. DOMAIN Without(b.locations, id) = DOMAIN b.locations \ {id}
  BY DEF Without, Restrict
<1>10. RemoveOrder(b, id).locations = Without(b.locations, id)
  <2> HIDE DEF side, p, old, k
  <2> QED BY <1>8
<1>11. Consistent(RemoveOrder(b, id))
  <2> HIDE DEF side, p, old, k
  <2> QED BY <1>7, <1>8
<1> QED BY <1>9, <1>10, <1>11

\* A cancel crosses nothing.
LEMMA RemoveWellFormed ==
  ASSUME NEW b, WellFormed(b), NEW id \in DOMAIN b.locations
  PROVE  /\ WellFormed(RemoveOrder(b, id))
         /\ DOMAIN RemoveOrder(b, id).locations = DOMAIN b.locations \ {id}
<1> DEFINE loc == b.locations[id]
<1>1. loc.side \in Sides /\ loc.price \in DOMAIN b.levels[loc.side]
  BY DEF WellFormed, Consistent, LocationsTyped, Locations, IndexSound
<1> HIDE DEF loc
<1>2. NotCrossed([levels |-> b.levels, locations |-> Without(b.locations, id)])
  BY DEF WellFormed, NotCrossed
<1>3. \A queue : NotCrossed([levels    |-> PutQueue(b.levels, loc.side, loc.price, queue),
                             locations |-> Without(b.locations, id)])
  BY <1>1, DropUncrossed DEF WellFormed, Consistent
<1>4. NotCrossed(RemoveOrder(b, id))
  BY <1>2, <1>3 DEF RemoveOrder, loc
<1> QED BY <1>4, RemoveConsistent DEF WellFormed

\* The maker a take meets: the front of the best queue.
LEMMA BestMakerFacts ==
  ASSUME NEW b, Consistent(b), NEW side \in Sides, DOMAIN b.levels[side] # {}
  PROVE  LET p == BestPrice(b, side)
             queue == b.levels[side][p]
         IN  /\ p \in DOMAIN b.levels[side] /\ p \in Prices
             /\ queue \in Seq(EngineOrders) /\ queue # <<>>
             /\ DOMAIN queue = 1..Len(queue) /\ Len(queue) \in Nat /\ 1 \in DOMAIN queue
             /\ BestMaker(b, side) = queue[1] /\ Head(queue) = queue[1]
             /\ BestMaker(b, side) \in EngineOrders
             /\ BestMaker(b, side).price = p
             /\ BestMaker(b, side).id \in DOMAIN b.locations
<1> DEFINE p == BestPrice(b, side)
           queue == b.levels[side][p]
<1>1. p \in DOMAIN b.levels[side]
  BY BestPriceIsBest DEF Consistent
<1>2. queue \in Seq(EngineOrders) /\ queue # <<>> /\ p \in Prices
  BY <1>1 DEF Consistent, LevelsTyped, NoEmptyLevel
<1>3. BestMaker(b, side) = Head(queue)
  BY DEF BestMaker
<1>4. \A i \in DOMAIN queue : IndexedAt(b, queue[i], side, p)
  BY <1>1 DEF Consistent, OrdersIndexed
<1> HIDE DEF queue, p
<1>5. DOMAIN queue = 1..Len(queue) /\ Len(queue) \in Nat /\ 1 \in DOMAIN queue
  BY <1>2, LenProperties, EmptySeq
<1>6. Head(queue) = queue[1] /\ queue[1] \in EngineOrders
  BY <1>2, <1>5, ElementOfSeq
<1> QED BY <1>1, <1>2, <1>3, <1>4, <1>5, <1>6 DEF p, queue, IndexedAt

\* A take fills something and no more than either side has.
LEMMA FillQtyBounds ==
  ASSUME NEW b, Consistent(b), NEW side \in Sides, DOMAIN b.levels[side] # {},
         NEW max_qty \in Nat \ {0}
  PROVE  /\ FillQty(b, side, max_qty) \in Nat \ {0}
         /\ FillQty(b, side, max_qty) <= max_qty
         /\ FillQty(b, side, max_qty) <= BestMaker(b, side).quantity
<1>1. BestMaker(b, side).quantity \in Nat \ {0}
  BY BestMakerFacts DEF EngineOrders
<1> QED BY <1>1 DEF FillQty

\* take_best_ask and take_best_bid keep the book consistent, whether the maker
\* is filled or keeps a part, and bring no new order onto it.
LEMMA TakeConsistent ==
  ASSUME NEW b, Consistent(b), NEW side \in Sides, DOMAIN b.levels[side] # {},
         NEW max_qty \in Nat \ {0}
  PROVE  /\ Consistent(TakeBest(b, side, max_qty))
         /\ DOMAIN TakeBest(b, side, max_qty).locations \subseteq DOMAIN b.locations
<1> DEFINE p     == BestPrice(b, side)
           old   == b.levels[side][p]
           maker == BestMaker(b, side)
           left  == Head(old).quantity - FillQty(b, side, max_qty)
<1>1. /\ p \in DOMAIN b.levels[side] /\ p \in Prices
      /\ old \in Seq(EngineOrders) /\ old # <<>>
      /\ DOMAIN old = 1..Len(old) /\ Len(old) \in Nat /\ 1 \in DOMAIN old
      /\ maker = old[1] /\ Head(old) = old[1]
      /\ maker \in EngineOrders /\ maker.id \in DOMAIN b.locations
  BY BestMakerFacts
<1>2. left \in Nat
  <2>1. FillQty(b, side, max_qty) \in Nat /\ FillQty(b, side, max_qty) <= maker.quantity
    BY FillQtyBounds
  <2>2. maker.quantity \in Nat
    BY <1>1 DEF EngineOrders
  <2> QED BY <1>1, <2>1, <2>2
<1>3. CASE left = 0
  <2>1. /\ Tail(old) \in Seq(EngineOrders)
        /\ Len(Tail(old)) = Len(old) - 1
        /\ \A i \in 1..Len(Tail(old)) : Tail(old)[i] = old[i + 1]
    <3> HIDE DEF old
    <3> QED BY <1>1, HeadTailProperties
  <2>2. \A i \in 1..Len(Tail(old)) : Tail(old)[i] = IF i < 1 THEN old[i] ELSE old[i + 1]
    BY <1>1, <2>1
  <2>3. Consistent([levels    |-> PutQueue(b.levels, side, p, Tail(old)),
                    locations |-> Without(b.locations, old[1].id)])
    <3> HIDE DEF p
    <3> QED BY <1>1, <2>1, <2>2, DropConsistent
  <2>4. TakeBest(b, side, max_qty) =
          [levels    |-> PutQueue(b.levels, side, p, Tail(old)),
           locations |-> Without(b.locations, old[1].id)]
    BY <1>1, <1>3 DEF TakeBest
  <2>5. DOMAIN Without(b.locations, old[1].id) \subseteq DOMAIN b.locations
    BY DEF Without, Restrict
  <2> QED BY <2>3, <2>4, <2>5
<1>4. CASE left # 0
  <2> DEFINE queue == [old EXCEPT ![1].quantity = left]
  <2>1. TakeBest(b, side, max_qty) =
          [levels |-> PutQueue(b.levels, side, p, queue), locations |-> b.locations]
    BY <1>4 DEF TakeBest
  <2>2. /\ \A i \in DOMAIN old : old[i] \in EngineOrders /\ IndexedAt(b, old[i], side, p)
        /\ \A i, j \in DOMAIN old : i < j => old[i].id < old[j].id
        /\ \A id \in DOMAIN b.locations :
             b.locations[id] = [side |-> side, price |-> p] => \E i \in DOMAIN old : old[i].id = id
    <3>1. old = QueueAt(b, side, p)
      BY <1>1 DEF QueueAt
    <3> HIDE DEF old, p
    <3> QED BY <1>1, <3>1, QueueFacts
  <2> HIDE DEF old, p, left
  <2> DEFINE rest == [old[1] EXCEPT !.quantity = left]
  <2>3. /\ rest \in EngineOrders /\ rest.id = old[1].id
        /\ rest.side = old[1].side /\ rest.price = old[1].price
    BY <1>1, <1>2, <1>4 DEF EngineOrders
  <2>4. /\ queue = [old EXCEPT ![1] = rest]
        /\ queue \in Seq(EngineOrders) /\ DOMAIN queue = DOMAIN old
        /\ \A i \in DOMAIN old : queue[i] = IF i = 1 THEN rest ELSE old[i]
    <3>1. queue = [old EXCEPT ![1] = rest]
      OBVIOUS
    <3> HIDE DEF queue, rest
    <3> QED BY <1>1, <2>3, <3>1, ExceptSeq
  <2> HIDE DEF queue, rest
  <2>5. \A i \in DOMAIN queue :
          queue[i].id = old[i].id /\ queue[i].side = side /\ queue[i].price = p
    BY <2>2, <2>3, <2>4 DEF IndexedAt
  <2>6. \A i \in DOMAIN queue :
          /\ queue[i].side = side /\ queue[i].price = p
          /\ queue[i].id \in DOMAIN b.locations
          /\ b.locations[queue[i].id] = [side |-> side, price |-> p]
    BY <2>2, <2>4, <2>5 DEF IndexedAt
  <2>7. \A i, j \in DOMAIN queue : i < j => queue[i].id < queue[j].id
    BY <2>2, <2>4, <2>5
  <2>8. \A id \in DOMAIN b.locations :
          \/ \E i \in DOMAIN queue : queue[i].id = id
          \/ /\ id \in DOMAIN b.locations
             /\ b.locations[id] = b.locations[id]
             /\ b.locations[id] # [side |-> side, price |-> p]
    BY <2>2, <2>4, <2>5
  <2>9. Consistent([levels |-> PutQueue(b.levels, side, p, queue), locations |-> b.locations])
    BY <1>1, <2>4, <2>6, <2>7, <2>8, ReplaceQueue
  <2> QED BY <2>1, <2>9
<1> QED BY <1>3, <1>4

\* A fill crosses nothing.
LEMMA TakeWellFormed ==
  ASSUME NEW b, WellFormed(b), NEW side \in Sides, DOMAIN b.levels[side] # {},
         NEW max_qty \in Nat \ {0}
  PROVE  /\ WellFormed(TakeBest(b, side, max_qty))
         /\ DOMAIN TakeBest(b, side, max_qty).locations \subseteq DOMAIN b.locations
<1> DEFINE p == BestPrice(b, side)
<1>1. p \in DOMAIN b.levels[side]
  BY BestPriceIsBest DEF WellFormed, Consistent
<1> HIDE DEF p
<1>2. \A queue, locations : NotCrossed([levels    |-> PutQueue(b.levels, side, p, queue),
                                        locations |-> locations])
  BY <1>1, DropUncrossed DEF WellFormed, Consistent
<1>3. NotCrossed(TakeBest(b, side, max_qty))
  BY <1>2 DEF TakeBest, p
<1> QED BY <1>3, TakeConsistent DEF WellFormed

-----------------------------------------------------------------------------
(* Which orders a book holds                                               *)

\* m is matched before n: at a better price, or at the same price and older.
Precedes(m, n) ==
  \/ BetterPrice(m.side, m.price, n.price)
  \/ m.price = n.price /\ m.id < n.id

\* An order at a place of a queue knows where it is, and so does the index.
LEMMA PlaceFacts ==
  ASSUME NEW b, Consistent(b),
         NEW s \in Sides, NEW p \in DOMAIN b.levels[s], NEW i \in DOMAIN b.levels[s][p]
  PROVE  /\ b.levels[s][p][i] \in EngineOrders
         /\ IndexedAt(b, b.levels[s][p][i], s, p)
         /\ b.levels[s][p][i].side = s /\ b.levels[s][p][i].price = p
<1> DEFINE q == b.levels[s][p]
<1>1. q \in Seq(EngineOrders) /\ IndexedAt(b, q[i], s, p)
  BY DEF Consistent, LevelsTyped, OrdersIndexed
<1>2. q[i] \in EngineOrders
  <2> HIDE DEF q
  <2>1. i \in DOMAIN q
    BY DEF q
  <2> QED BY <1>1, <2>1, ElementOfSeq, LenProperties
<1>3. q[i].side = s /\ q[i].price = p
  <2> HIDE DEF q
  <2> QED BY <1>1 DEF IndexedAt
<1> QED BY <1>1, <1>2, <1>3

\* A resting order is one at a place of a queue, and knows where it is.
LEMMA RestingPlace ==
  ASSUME NEW b, Consistent(b), NEW o
  PROVE  /\ o \in OrdersIn(b) <=>
              \E s \in Sides : \E p \in DOMAIN b.levels[s] :
                \E i \in DOMAIN b.levels[s][p] : o = b.levels[s][p][i]
         /\ o \in OrdersIn(b) =>
              /\ o \in EngineOrders
              /\ IndexedAt(b, o, o.side, o.price)
              /\ o.price \in DOMAIN b.levels[o.side]
              /\ \E i \in DOMAIN b.levels[o.side][o.price] : o = b.levels[o.side][o.price][i]
         /\ \A side \in Sides : o \in OrdersOn(b, side) <=> o \in OrdersIn(b) /\ o.side = side
<1>1. \A side \in Sides :
        o \in OrdersOn(b, side) <=>
          \E p \in DOMAIN b.levels[side] : \E i \in DOMAIN b.levels[side][p] : o = b.levels[side][p][i]
  BY DEF OrdersOn, Range
<1>2. o \in OrdersIn(b) <=> \E side \in Sides : o \in OrdersOn(b, side)
  BY DEF OrdersIn
<1>3. ASSUME NEW s \in Sides, NEW p \in DOMAIN b.levels[s], NEW i \in DOMAIN b.levels[s][p],
             o = b.levels[s][p][i]
      PROVE  o \in EngineOrders /\ IndexedAt(b, o, s, p) /\ o.side = s /\ o.price = p
  BY <1>3, PlaceFacts
<1>4. o \in OrdersIn(b) =>
        /\ o \in EngineOrders
        /\ IndexedAt(b, o, o.side, o.price)
        /\ o.price \in DOMAIN b.levels[o.side]
        /\ \E i \in DOMAIN b.levels[o.side][o.price] : o = b.levels[o.side][o.price][i]
  BY <1>1, <1>2, <1>3
<1>5. \A side \in Sides : o \in OrdersOn(b, side) <=> o \in OrdersIn(b) /\ o.side = side
  BY <1>1, <1>2, <1>3
<1> QED BY <1>1, <1>2, <1>4, <1>5

\* A new book rests no order.
LEMMA EmptyHoldsNothing == OrdersIn(EmptyBook) = {}
<1>1. EmptyBook.levels = [s \in Sides |-> [p \in {} |-> <<>>]]
  BY DEF EmptyBook
<1>2. \A s \in Sides : DOMAIN EmptyBook.levels[s] = {}
  BY <1>1
<1> QED BY <1>2 DEF OrdersIn, OrdersOn

\* Two resting orders are the same when their ids are.
LEMMA IdNamesOrder ==
  ASSUME NEW b, Consistent(b), NEW m \in OrdersIn(b), NEW n \in OrdersIn(b), m.id = n.id
  PROVE  m = n
<1>1. /\ IndexedAt(b, m, m.side, m.price) /\ IndexedAt(b, n, n.side, n.price)
      /\ m \in EngineOrders /\ n \in EngineOrders
      /\ m.price \in DOMAIN b.levels[m.side]
      /\ \E i \in DOMAIN b.levels[m.side][m.price] : m = b.levels[m.side][m.price][i]
      /\ \E j \in DOMAIN b.levels[n.side][n.price] : n = b.levels[n.side][n.price][j]
  BY RestingPlace
<1>2. [side |-> m.side, price |-> m.price] = [side |-> n.side, price |-> n.price]
  BY <1>1 DEF IndexedAt
<1>3. m.side = n.side /\ m.price = n.price /\ m.side \in Sides
  BY <1>1, <1>2 DEF EngineOrders
<1> DEFINE q == b.levels[m.side][m.price]
<1>4. PICK i \in DOMAIN q, j \in DOMAIN q : m = q[i] /\ n = q[j]
  BY <1>1, <1>3
<1>5. DOMAIN q = 1..Len(q) /\ Len(q) \in Nat
  BY <1>1, <1>3, LenProperties DEF Consistent, LevelsTyped
<1>6. \A k, l \in DOMAIN q : k < l => q[k].id < q[l].id
  BY <1>1, <1>3 DEF Consistent, QueuesInTimeOrder
<1> HIDE DEF q
<1>7. m.id \in Nat /\ n.id \in Nat
  BY <1>1 DEF EngineOrders
<1>8. i = j
  BY <1>4, <1>5, <1>6, <1>7
<1> QED BY <1>4, <1>8

\* What a book holds after one queue was put back.
LEMMA OrdersAfterPut ==
  ASSUME NEW b, Consistent(b), NEW side \in Sides, NEW p, NEW queue,
         NEW c, c.levels = PutQueue(b.levels, side, p, queue)
  PROVE  \A o : o \in OrdersIn(c) <=>
                  \/ o \in OrdersIn(b) /\ (o.side # side \/ o.price # p)
                  \/ o \in Range(queue)
<1> DEFINE after == PutQueue(b.levels, side, p, queue)
<1>0. c.levels = after
  OBVIOUS
<1> SUFFICES ASSUME NEW o
             PROVE  o \in OrdersIn(c) <=>
                      \/ o \in OrdersIn(b) /\ (o.side # side \/ o.price # p)
                      \/ o \in Range(queue)
  OBVIOUS
<1>1. /\ after = [s \in Sides |-> after[s]]
      /\ \A s \in Sides \ {side} : after[s] = b.levels[s]
      /\ queue = <<>> => DOMAIN after[side] = DOMAIN b.levels[side] \ {p}
      /\ queue # <<>> => /\ DOMAIN after[side] = DOMAIN b.levels[side] \cup {p}
                         /\ after[side][p] = queue
      /\ \A q \in DOMAIN after[side] : q # p =>
           q \in DOMAIN b.levels[side] /\ after[side][q] = b.levels[side][q]
  BY PutQueueLevels DEF Consistent, LevelsTyped
<1> HIDE DEF after
<1>2. o \in OrdersIn(c) <=>
        \E s \in Sides : \E q \in DOMAIN after[s] : \E i \in DOMAIN after[s][q] : o = after[s][q][i]
  BY <1>0 DEF OrdersIn, OrdersOn, Range
<1>3. \A s \in Sides : \A q \in DOMAIN b.levels[s] : <<s, q>> # <<side, p>> =>
        q \in DOMAIN after[s] /\ after[s][q] = b.levels[s][q]
  BY <1>1
<1>4. \A s \in Sides : \A q \in DOMAIN after[s] :
        \/ s = side /\ q = p /\ queue # <<>> /\ after[s][q] = queue
        \/ <<s, q>> # <<side, p>> /\ q \in DOMAIN b.levels[s] /\ after[s][q] = b.levels[s][q]
  BY <1>1
<1>5. ASSUME o \in OrdersIn(c)
      PROVE  \/ o \in OrdersIn(b) /\ (o.side # side \/ o.price # p)
             \/ o \in Range(queue)
  <2>0. PICK s \in Sides : \E q \in DOMAIN after[s] : \E i \in DOMAIN after[s][q] : o = after[s][q][i]
    BY <1>2, <1>5
  <2>1. PICK q \in DOMAIN after[s] : \E i \in DOMAIN after[s][q] : o = after[s][q][i]
    BY <2>0
  <2>2. CASE after[s][q] = queue /\ s = side /\ q = p
    BY <2>1, <2>2 DEF Range
  <2>3. CASE <<s, q>> # <<side, p>> /\ q \in DOMAIN b.levels[s] /\ after[s][q] = b.levels[s][q]
    <3>1. PICK i \in DOMAIN b.levels[s][q] : o = b.levels[s][q][i]
      BY <2>1, <2>3
    <3>2. o \in OrdersIn(b)
      BY <2>3, <3>1, RestingPlace
    <3>3. o.side = s /\ o.price = q
      BY <2>3, <3>1, PlaceFacts
    <3> QED BY <2>3, <3>2, <3>3
  <2> QED BY <1>4, <2>2, <2>3
<1>6. ASSUME o \in OrdersIn(b), o.side # side \/ o.price # p
      PROVE  o \in OrdersIn(c)
  <2>1. /\ o.side \in Sides /\ o.price \in DOMAIN b.levels[o.side]
        /\ \E i \in DOMAIN b.levels[o.side][o.price] : o = b.levels[o.side][o.price][i]
    BY <1>6, RestingPlace DEF EngineOrders
  <2> QED BY <1>2, <1>3, <1>6, <2>1
<1>7. ASSUME o \in Range(queue)
      PROVE  o \in OrdersIn(c)
  <2>1. PICK i \in DOMAIN queue : o = queue[i]
    BY <1>7 DEF Range
  <2>2. queue # <<>>
    OBVIOUS
  <2> QED BY <1>1, <1>2, <2>1, <2>2
<1> QED BY <1>5, <1>6, <1>7

\* The orders of one level are those of the book with its side and price.
LEMMA OrdersOfLevel ==
  ASSUME NEW b, Consistent(b), NEW side \in Sides, NEW p, NEW o
  PROVE  o \in OrdersIn(b) /\ o.side = side /\ o.price = p <=>
           o \in Range(QueueAt(b, side, p))
<1>1. CASE p \in DOMAIN b.levels[side]
  <2>1. QueueAt(b, side, p) = b.levels[side][p]
    BY <1>1 DEF QueueAt
  <2>2. \A i \in DOMAIN b.levels[side][p] :
          b.levels[side][p][i].side = side /\ b.levels[side][p][i].price = p
    BY <1>1, PlaceFacts
  <2> QED BY <1>1, <2>1, <2>2, RestingPlace DEF Range
<1>2. CASE p \notin DOMAIN b.levels[side]
  BY <1>2, RestingPlace DEF QueueAt, Range
<1> QED BY <1>1, <1>2

\* Appending adds one element to a sequence's range.
LEMMA AppendRange ==
  ASSUME NEW S, NEW seq \in Seq(S), NEW x \in S
  PROVE  Range(Append(seq, x)) = Range(seq) \cup {x}
<1>1. /\ DOMAIN seq = 1..Len(seq) /\ Len(seq) \in Nat
      /\ DOMAIN Append(seq, x) = 1..(Len(seq) + 1)
      /\ \A i \in 1..Len(seq) : Append(seq, x)[i] = seq[i]
      /\ Append(seq, x)[Len(seq) + 1] = x
  BY AppendProperties, LenProperties
<1>2. 1..(Len(seq) + 1) = (1..Len(seq)) \cup {Len(seq) + 1}
  BY <1>1
<1> QED BY <1>1, <1>2 DEF Range

\* insert adds the order and nothing else.
LEMMA OrdersAfterInsert ==
  ASSUME NEW b, Consistent(b), NEW o \in EngineOrders
  PROVE  OrdersIn(Insert(b, o)) = OrdersIn(b) \cup {o}
<1> DEFINE old   == QueueAt(b, o.side, o.price)
           queue == Append(old, o)
<1>1. o.side \in Sides /\ o.price \in Prices
  BY DEF EngineOrders
<1>2. old \in Seq(EngineOrders)
  BY <1>1, QueueFacts
<1>3. \A x : x \in OrdersIn(b) /\ x.side = o.side /\ x.price = o.price <=> x \in Range(old)
  BY <1>1, OrdersOfLevel
<1> HIDE DEF old
<1>4. Range(queue) = Range(old) \cup {o}
  BY <1>2, AppendRange DEF Range
<1> HIDE DEF queue
<1>5. Insert(b, o).levels = PutQueue(b.levels, o.side, o.price, queue)
  BY DEF Insert, queue, old
<1>6. \A x : x \in OrdersIn(Insert(b, o)) <=>
               \/ x \in OrdersIn(b) /\ (x.side # o.side \/ x.price # o.price)
               \/ x \in Range(queue)
  BY <1>1, <1>5, OrdersAfterPut
<1> QED BY <1>3, <1>4, <1>6

\* The places of a queue hold different orders.
LEMMA QueueInjective ==
  ASSUME NEW b, Consistent(b), NEW s \in Sides, NEW p \in DOMAIN b.levels[s],
         NEW i \in DOMAIN b.levels[s][p], NEW j \in DOMAIN b.levels[s][p], i # j
  PROVE  b.levels[s][p][i] # b.levels[s][p][j]
<1> DEFINE q == b.levels[s][p]
<1>1. DOMAIN q = 1..Len(q) /\ Len(q) \in Nat
  BY LenProperties DEF Consistent, LevelsTyped
<1>2. \A k, l \in DOMAIN q : k < l => q[k].id < q[l].id
  BY DEF Consistent, QueuesInTimeOrder
<1>3. q[i] \in EngineOrders /\ q[j] \in EngineOrders
  BY PlaceFacts
<1>4. i \in DOMAIN q /\ j \in DOMAIN q
  OBVIOUS
<1> HIDE DEF q
<1>5. i < j \/ j < i
  BY <1>1, <1>4
<1>6. q[i].id \in Nat /\ q[j].id \in Nat
  BY <1>3 DEF EngineOrders
<1>7. q[i].id # q[j].id
  BY <1>2, <1>4, <1>5, <1>6
<1> QED BY <1>7 DEF q

\* A sequence without repetition that loses the element at one place loses it
\* altogether, and nothing else.
LEMMA RemoveAtRange ==
  ASSUME NEW S, NEW old \in Seq(S), NEW k \in 1..Len(old),
         \A i, j \in 1..Len(old) : i # j => old[i] # old[j]
  PROVE  Range(RemoveAt(old, k)) = Range(old) \ {old[k]}
<1> DEFINE queue == RemoveAt(old, k)
<1>1. /\ queue \in Seq(S) /\ Len(queue) = Len(old) - 1
      /\ \A i \in 1..(Len(old) - 1) : queue[i] = IF i < k THEN old[i] ELSE old[i + 1]
  BY RemoveAtProperties
<1> HIDE DEF queue
<1>2. /\ Len(old) \in Nat /\ DOMAIN old = 1..Len(old)
      /\ DOMAIN queue = 1..(Len(old) - 1)
  BY <1>1, LenProperties
<1>3. ASSUME NEW i \in DOMAIN queue PROVE queue[i] \in Range(old) \ {old[k]}
  <2> DEFINE was == IF i < k THEN i ELSE i + 1
  <2>1. was \in DOMAIN old /\ was # k /\ queue[i] = old[was]
    BY <1>1, <1>2
  <2> QED BY <1>2, <2>1 DEF Range
<1>4. ASSUME NEW m \in DOMAIN old, m # k PROVE old[m] \in Range(queue)
  <2> DEFINE now == IF m < k THEN m ELSE m - 1
  <2>1. now \in DOMAIN queue /\ queue[now] = old[m]
    BY <1>1, <1>2, <1>4
  <2> HIDE DEF now
  <2> QED BY <2>1 DEF Range
<1> QED BY <1>2, <1>3, <1>4 DEF Range, queue

\* The same for its first element, which Tail leaves out.
LEMMA TailRange ==
  ASSUME NEW S, NEW old \in Seq(S), old # <<>>,
         \A i, j \in 1..Len(old) : i # j => old[i] # old[j]
  PROVE  Range(Tail(old)) = Range(old) \ {old[1]}
<1> DEFINE queue == Tail(old)
<1>1. /\ queue \in Seq(S) /\ Len(queue) = Len(old) - 1
      /\ \A i \in 1..Len(queue) : queue[i] = old[i + 1]
  BY HeadTailProperties
<1> HIDE DEF queue
<1>2. /\ Len(old) \in Nat /\ DOMAIN old = 1..Len(old) /\ 1 \in DOMAIN old
      /\ DOMAIN queue = 1..Len(queue)
  BY <1>1, LenProperties, EmptySeq
<1>3. ASSUME NEW i \in DOMAIN queue PROVE queue[i] \in Range(old) \ {old[1]}
  <2>1. i + 1 \in DOMAIN old /\ i + 1 # 1 /\ queue[i] = old[i + 1]
    BY <1>1, <1>2
  <2> QED BY <1>2, <2>1 DEF Range
<1>4. ASSUME NEW m \in DOMAIN old, m # 1 PROVE old[m] \in Range(queue)
  <2>1. m - 1 \in DOMAIN queue /\ queue[m - 1] = old[m]
    BY <1>1, <1>2, <1>4
  <2> QED BY <2>1 DEF Range
<1> QED BY <1>2, <1>3, <1>4 DEF Range, queue

\* A queue that loses one order takes it from the book.
LEMMA OrdersAfterDrop ==
  ASSUME NEW b, Consistent(b), NEW side \in Sides, NEW p \in DOMAIN b.levels[side],
         NEW queue, NEW m \in Range(b.levels[side][p]),
         Range(queue) = Range(b.levels[side][p]) \ {m},
         NEW c, c.levels = PutQueue(b.levels, side, p, queue)
  PROVE  OrdersIn(c) = OrdersIn(b) \ {m}
<1> DEFINE old == Range(b.levels[side][p])
<1>1. \A x : x \in OrdersIn(b) /\ x.side = side /\ x.price = p <=> x \in old
  BY OrdersOfLevel DEF QueueAt
<1>2. \A x : x \in OrdersIn(c) <=>
               \/ x \in OrdersIn(b) /\ (x.side # side \/ x.price # p)
               \/ x \in Range(queue)
  BY OrdersAfterPut
<1>3. m \in old /\ Range(queue) = old \ {m}
  OBVIOUS
<1> HIDE DEF old
<1> QED BY <1>1, <1>2, <1>3

\* The same for an order anywhere in its queue.
LEMMA OrdersAfterRemoveAt ==
  ASSUME NEW b, Consistent(b), NEW side \in Sides, NEW p \in DOMAIN b.levels[side],
         NEW old, old = b.levels[side][p], NEW k \in DOMAIN old, NEW m, m = old[k],
         NEW c, c.levels = PutQueue(b.levels, side, p, RemoveAt(old, k))
  PROVE  m \in OrdersIn(b) /\ OrdersIn(c) = OrdersIn(b) \ {m}
<1>1. old \in Seq(EngineOrders)
  BY DEF Consistent, LevelsTyped
<1>2. DOMAIN old = 1..Len(old) /\ Len(old) \in Nat
  BY <1>1, LenProperties
<1>3. \A i, j \in 1..Len(old) : i # j => old[i] # old[j]
  BY <1>2, QueueInjective
<1>4. PICK queue : queue = RemoveAt(old, k)
  OBVIOUS
<1>5. k \in 1..Len(old)
  BY <1>2
<1>6. Range(queue) = Range(old) \ {old[k]}
  BY <1>1, <1>3, <1>4, <1>5, RemoveAtRange
<1>7. old[k] \in Range(old)
  BY DEF Range
<1>8. m \in Range(b.levels[side][p]) /\ Range(queue) = Range(b.levels[side][p]) \ {m}
  BY <1>6, <1>7
<1>9. c.levels = PutQueue(b.levels, side, p, queue)
  BY <1>4
<1>10. \A q, x, d :
         /\ x \in Range(b.levels[side][p]) /\ Range(q) = Range(b.levels[side][p]) \ {x}
         /\ d.levels = PutQueue(b.levels, side, p, q)
         => OrdersIn(d) = OrdersIn(b) \ {x}
  BY OrdersAfterDrop
<1>11. OrdersIn(c) = OrdersIn(b) \ {m}
  BY <1>8, <1>9, <1>10
<1> QED BY <1>11, RestingPlace

\* cancel takes the order of that id from the book and no other.
LEMMA OrdersAfterRemove ==
  ASSUME NEW b, Consistent(b), NEW id \in DOMAIN b.locations
  PROVE  \E m \in OrdersIn(b) : m.id = id /\ OrdersIn(RemoveOrder(b, id)) = OrdersIn(b) \ {m}
<1>1. PICK side, p : side = b.locations[id].side /\ p = b.locations[id].price
  OBVIOUS
<1>2. PICK old, k : old = b.levels[side][p] /\ k = Position(b, id)
  OBVIOUS
<1>3. side \in Sides /\ p \in DOMAIN b.levels[side] /\ \E i \in DOMAIN old : old[i].id = id
  BY <1>1, <1>2 DEF Consistent, LocationsTyped, Locations, IndexSound
<1>4. k \in DOMAIN old /\ old[k].id = id
  BY <1>1, <1>2, <1>3 DEF Position, QueueAt
<1>5. k # 0
  BY <1>2, <1>3, <1>4, LenProperties DEF Consistent, LevelsTyped
<1>6. RemoveOrder(b, id).levels = PutQueue(b.levels, side, p, RemoveAt(old, k))
  BY <1>1, <1>2, <1>5 DEF RemoveOrder
<1>7. PICK m : m = old[k]
  OBVIOUS
<1>8. m \in OrdersIn(b) /\ OrdersIn(RemoveOrder(b, id)) = OrdersIn(b) \ {m}
  BY <1>2, <1>3, <1>4, <1>6, <1>7, OrdersAfterRemoveAt
<1> QED BY <1>4, <1>7, <1>8

\* The maker a take meets comes before every other order of its side.
LEMMA BestMakerPrecedes ==
  ASSUME NEW b, Consistent(b), NEW side \in Sides, DOMAIN b.levels[side] # {}
  PROVE  /\ BestMaker(b, side) \in OrdersIn(b) /\ BestMaker(b, side).side = side
         /\ \A n \in OrdersIn(b) :
              n.side = side /\ n # BestMaker(b, side) => Precedes(BestMaker(b, side), n)
<1> DEFINE p == BestPrice(b, side)
           queue == b.levels[side][p]
           m == BestMaker(b, side)
<1>1. /\ p \in DOMAIN b.levels[side] /\ p \in Prices
      /\ DOMAIN queue = 1..Len(queue) /\ Len(queue) \in Nat /\ 1 \in DOMAIN queue
      /\ m = queue[1] /\ m \in EngineOrders /\ m.price = p
  BY BestMakerFacts
<1>2. m \in OrdersIn(b) /\ m.side = side
  BY <1>1, RestingPlace, PlaceFacts
<1>3. \A q \in DOMAIN b.levels[side] : ~BetterPrice(side, q, p)
  BY BestPriceIsBest DEF Consistent
<1>4. ASSUME NEW n \in OrdersIn(b), n.side = side, n # m
      PROVE  Precedes(m, n)
  <2>1. /\ n \in EngineOrders /\ n.price \in DOMAIN b.levels[side]
        /\ \E i \in DOMAIN b.levels[side][n.price] : n = b.levels[side][n.price][i]
    BY <1>4, RestingPlace
  <2>2. CASE n.price = p
    <3>1. PICK i \in DOMAIN queue : n = queue[i]
      BY <2>1, <2>2
    <3>2. \A k, l \in DOMAIN queue : k < l => queue[k].id < queue[l].id
      BY <1>1 DEF Consistent, QueuesInTimeOrder
    <3> HIDE DEF queue, p, m
    <3>3. 1 < i
      BY <1>1, <1>4, <3>1
    <3>4. m.id < n.id
      BY <1>1, <3>1, <3>2, <3>3
    <3> QED BY <1>1, <2>2, <3>4 DEF Precedes
  <2>3. CASE n.price # p
    <3>1. ~BetterPrice(side, n.price, p)
      BY <1>3, <2>1
    <3> HIDE DEF queue, p, m
    <3>2. n.price \in Nat /\ p \in Nat
      <4>1. n.price \in Prices /\ p \in Prices
        BY <1>1, <2>1 DEF EngineOrders
      <4>2. Prices \subseteq Nat
        BY PricesAssumption
      <4> QED BY <4>1, <4>2
    <3>3. BetterPrice(side, p, n.price)
      BY <2>3, <3>1, <3>2 DEF BetterPrice
    <3> QED BY <1>1, <1>2, <3>3 DEF Precedes
  <2> QED BY <2>2, <2>3
<1> QED BY <1>2, <1>4

\* take_best_* takes the maker from the book when it is filled, and otherwise
\* leaves it with what is left of its quantity.
LEMMA OrdersAfterTake ==
  ASSUME NEW b, Consistent(b), NEW side \in Sides, DOMAIN b.levels[side] # {},
         NEW max_qty \in Nat \ {0}
  PROVE  LET m    == BestMaker(b, side)
             left == m.quantity - FillQty(b, side, max_qty)
         IN  /\ left = 0 => OrdersIn(TakeBest(b, side, max_qty)) = OrdersIn(b) \ {m}
             /\ left # 0 => OrdersIn(TakeBest(b, side, max_qty)) =
                              (OrdersIn(b) \ {m}) \cup {[m EXCEPT !.quantity = left]}
<1> DEFINE p     == BestPrice(b, side)
           old   == b.levels[side][p]
           m     == BestMaker(b, side)
           left  == m.quantity - FillQty(b, side, max_qty)
           c     == TakeBest(b, side, max_qty)
<1>1. /\ p \in DOMAIN b.levels[side] /\ p \in Prices
      /\ old \in Seq(EngineOrders) /\ old # <<>>
      /\ DOMAIN old = 1..Len(old) /\ Len(old) \in Nat /\ 1 \in DOMAIN old
      /\ m = old[1] /\ Head(old) = old[1]
      /\ m \in EngineOrders
  BY BestMakerFacts
<1>2. Head(old).quantity - FillQty(b, side, max_qty) = left
  <2> HIDE DEF old, p
  <2> QED BY <1>1
<1>3. CASE left = 0
  <2>1. /\ Tail(old) \in Seq(EngineOrders)
        /\ Len(Tail(old)) = Len(old) - 1
        /\ \A i \in 1..Len(Tail(old)) : Tail(old)[i] = old[i + 1]
    <3> HIDE DEF old
    <3> QED BY <1>1, HeadTailProperties
  <2>2. \A i \in 1..Len(Tail(old)) : Tail(old)[i] = IF i < 1 THEN old[i] ELSE old[i + 1]
    BY <1>1, <2>1
  <2>3. c.levels = PutQueue(b.levels, side, p, Tail(old))
    BY <1>2, <1>3 DEF TakeBest
  <2>4. \A i, j \in 1..Len(old) : i # j => old[i] # old[j]
    BY <1>1, QueueInjective
  <2>5. m \in Range(old) /\ Range(Tail(old)) = Range(old) \ {m}
    <3> HIDE DEF old
    <3>1. Range(Tail(old)) = Range(old) \ {old[1]}
      BY <1>1, <2>4, TailRange
    <3>2. old[1] \in Range(old)
      BY <1>1 DEF Range
    <3> HIDE DEF m
    <3> QED BY <1>1, <3>1, <3>2
  <2>6. OrdersIn(c) = OrdersIn(b) \ {m}
    <3> DEFINE queue == Tail(old)
    <3>1. m \in Range(b.levels[side][p]) /\ Range(queue) = Range(b.levels[side][p]) \ {m}
      BY <2>5
    <3>2. c.levels = PutQueue(b.levels, side, p, queue)
      BY <2>3
    <3>3. p \in DOMAIN b.levels[side]
      BY <1>1
    <3> HIDE DEF p, c, m, queue
    <3> QED BY <3>1, <3>2, <3>3, OrdersAfterDrop
  <2> QED BY <1>3, <2>6
<1>4. CASE left # 0
  <2> DEFINE rest  == [m EXCEPT !.quantity = left]
             queue == [old EXCEPT ![1].quantity = left]
  <2>1. c.levels = PutQueue(b.levels, side, p, queue)
    BY <1>2, <1>4 DEF TakeBest
  <2>2. queue = [old EXCEPT ![1] = rest]
    <3> HIDE DEF p, left
    <3> QED BY <1>1
  <2>3. DOMAIN queue = DOMAIN old /\ \A i \in DOMAIN old : queue[i] = IF i = 1 THEN rest ELSE old[i]
    <3> HIDE DEF old, rest, queue
    <3> QED BY <1>1, <2>2
  <2>4. \A i \in DOMAIN old : i # 1 => old[i] # old[1]
    BY <1>1, QueueInjective
  <2>5. \A x : x \in OrdersIn(b) /\ x.side = side /\ x.price = p <=> x \in Range(old)
    BY <1>1, OrdersOfLevel DEF QueueAt
  <2>6. \A x : x \in OrdersIn(c) <=>
                 \/ x \in OrdersIn(b) /\ (x.side # side \/ x.price # p)
                 \/ x \in Range(queue)
    <3> HIDE DEF p, c, queue
    <3> QED BY <2>1, OrdersAfterPut
  <2> HIDE DEF old, rest, queue, p, c, left, m
  <2>7. Range(queue) = (Range(old) \ {m}) \cup {rest}
    BY <1>1, <2>3, <2>4 DEF Range
  <2>8. m \in Range(old)
    BY <1>1 DEF Range
  <2>9. OrdersIn(c) = (OrdersIn(b) \ {m}) \cup {rest}
    BY <2>5, <2>6, <2>7, <2>8
  <2> QED BY <2>9, <1>4 DEF c, rest, m, left
<1> QED BY <1>3, <1>4

\* What a function makes of a finite set is finite.
LEMMA ImageFinite ==
  ASSUME NEW f, NEW D, IsFiniteSet(D)
  PROVE  IsFiniteSet({f[x] : x \in D})
<1> DEFINE g == [x \in D |-> f[x]]
<1>1. g \in Surjection(D, {f[x] : x \in D})
  BY DEF Surjection
<1> QED BY <1>1, FS_Surjection

\* A side rests finitely many orders.
LEMMA OrdersFinite ==
  ASSUME NEW b, Consistent(b), NEW side \in Sides
  PROVE  IsFiniteSet(OrdersOn(b, side))
<1> DEFINE queues == b.levels[side]
<1>1. DOMAIN queues \subseteq 0..MaxPrice /\ MaxPrice \in Nat
  BY PricesAssumption DEF Consistent, LevelsTyped
<1>2. IsFiniteSet(DOMAIN queues)
  <2>1. IsFiniteSet(0..MaxPrice)
    BY <1>1, FS_Interval
  <2> HIDE DEF queues
  <2> QED BY <1>1, <2>1, FS_Subset
<1>3. ASSUME NEW p \in DOMAIN queues PROVE IsFiniteSet(Range(queues[p]))
  <2>1. DOMAIN queues[p] = 1..Len(queues[p]) /\ Len(queues[p]) \in Nat
    BY LenProperties DEF Consistent, LevelsTyped
  <2>2. IsFiniteSet(DOMAIN queues[p])
    BY <2>1, FS_Interval
  <2> QED BY <2>2, ImageFinite DEF Range
<1> DEFINE ranges == [p \in DOMAIN queues |-> Range(queues[p])]
<1>4. IsFiniteSet({ranges[p] : p \in DOMAIN queues})
  <2> HIDE DEF ranges
  <2> QED BY <1>2, ImageFinite
<1>5. {ranges[p] : p \in DOMAIN queues} = {Range(queues[p]) : p \in DOMAIN queues}
  OBVIOUS
<1>6. IsFiniteSet(UNION {Range(queues[p]) : p \in DOMAIN queues})
  <2> DEFINE family == {Range(queues[p]) : p \in DOMAIN queues}
  <2>1. IsFiniteSet(family) /\ \A T \in family : IsFiniteSet(T)
    BY <1>3, <1>4, <1>5
  <2> HIDE DEF family
  <2>2. IsFiniteSet(UNION family)
    BY <2>1, FS_UNION
  <2> QED BY <2>2 DEF family
<1> QED BY <1>6 DEF OrdersOn

\* The total of a side is the sum over its orders of what they offer.
LEMMA TotalIsSum ==
  ASSUME NEW b, Consistent(b), NEW side \in Sides
  PROVE  /\ OrdersOn(b, side) \in SUBSET EngineOrders
         /\ TotalQty(b, side) =
              SumFunctionOnSet([o \in EngineOrders |-> o.quantity], OrdersOn(b, side))
<1>1. OrdersOn(b, side) \in SUBSET EngineOrders
  BY RestingPlace
<1>2. TotalQty(b, side) = SumFunctionOnSet([o \in OrdersOn(b, side) |-> o.quantity], OrdersOn(b, side))
  BY DEF TotalQty, SumFunction
<1>3. PICK f, g : /\ f = [o \in OrdersOn(b, side) |-> o.quantity]
                  /\ g = [o \in EngineOrders |-> o.quantity]
  OBVIOUS
<1>4. \A o \in OrdersOn(b, side) : f[o] = g[o]
  BY <1>1, <1>3
<1>5. SumFunctionOnSet(f, OrdersOn(b, side)) = SumFunctionOnSet(g, OrdersOn(b, side))
  BY <1>4, OrdersFinite, SumSame
<1> QED BY <1>1, <1>2, <1>3, <1>5

\* A take lowers the total of its side by what it fills.
LEMMA TotalAfterTake ==
  ASSUME NEW b, Consistent(b), NEW side \in Sides, DOMAIN b.levels[side] # {},
         NEW max_qty \in Nat \ {0}
  PROVE  /\ TotalQty(b, side) \in Int
         /\ TotalQty(TakeBest(b, side, max_qty), side) = TotalQty(b, side) - FillQty(b, side, max_qty)
<1>1. PICK m, c, f, fill : /\ m = BestMaker(b, side) /\ c = TakeBest(b, side, max_qty)
                           /\ f = [o \in EngineOrders |-> o.quantity]
                           /\ fill = FillQty(b, side, max_qty)
  OBVIOUS
<1>2. PICK S, T : S = OrdersOn(b, side) /\ T = OrdersOn(c, side)
  OBVIOUS
<1>3. Consistent(c)
  BY <1>1, TakeConsistent
<1>4. /\ S \in SUBSET EngineOrders /\ TotalQty(b, side) = SumFunctionOnSet(f, S)
      /\ T \in SUBSET EngineOrders /\ TotalQty(c, side) = SumFunctionOnSet(f, T)
      /\ IsFiniteSet(S) /\ IsFiniteSet(T)
  BY <1>1, <1>2, <1>3, TotalIsSum, OrdersFinite
<1>5. \A o \in EngineOrders : f[o] \in Int /\ f[o] = o.quantity
  BY <1>1 DEF EngineOrders
<1>6. m \in OrdersIn(b) /\ m.side = side /\ m \in EngineOrders /\ m \in S
  BY <1>1, <1>2, BestMakerPrecedes, RestingPlace
<1>7. fill \in Nat /\ fill <= m.quantity /\ m.quantity \in Nat
  BY <1>1, <1>6, FillQtyBounds DEF EngineOrders
<1>0. PICK others : others = S \ {m}
  OBVIOUS
<1>8. /\ SumFunctionOnSet(f, S) = m.quantity + SumFunctionOnSet(f, others)
      /\ SumFunctionOnSet(f, others) \in Int
  <2>1. IsFiniteSet(others) /\ others \in SUBSET EngineOrders
    BY <1>0, <1>4, FS_Subset
  <2>2. SumFunctionOnSet(f, others) \in Int
    BY <1>5, <2>1, SumType
  <2>3. SumFunctionOnSet(f, S) = f[m] + SumFunctionOnSet(f, others)
    BY <1>0, <1>4, <1>5, <1>6, SumSplits
  <2> QED BY <1>5, <1>6, <2>2, <2>3
<1>9. \A o : (o \in S <=> o \in OrdersIn(b) /\ o.side = side) /\ (o \in T <=> o \in OrdersIn(c) /\ o.side = side)
  BY <1>2, <1>3, RestingPlace
<1>10. CASE m.quantity - fill = 0
  <2>1. OrdersIn(c) = OrdersIn(b) \ {m}
    BY <1>1, <1>10, OrdersAfterTake
  <2>2. T = others
    BY <1>0, <1>9, <2>1
  <2> QED BY <1>1, <1>4, <1>7, <1>8, <1>10, <2>2
<1>11. CASE m.quantity - fill # 0
  <2>1. PICK rest : rest = [m EXCEPT !.quantity = m.quantity - fill]
    OBVIOUS
  <2>2. /\ rest \in EngineOrders /\ rest.side = side /\ rest.id = m.id
        /\ rest.quantity = m.quantity - fill
    BY <1>6, <1>7, <1>11, <2>1 DEF EngineOrders
  <2>3. OrdersIn(c) = (OrdersIn(b) \ {m}) \cup {rest}
    BY <1>1, <1>11, <2>1, OrdersAfterTake
  <2>4. rest \notin others
    BY <1>0, <1>6, <1>9, <2>2, IdNamesOrder
  <2>5. T = others \cup {rest}
    BY <1>0, <1>9, <2>2, <2>3
  <2>6. others = T \ {rest} /\ rest \in T
    BY <2>4, <2>5
  <2>7. SumFunctionOnSet(f, T) = f[rest] + SumFunctionOnSet(f, others)
    BY <1>4, <1>5, <2>6, SumSplits
  <2>9. f[rest] = m.quantity - fill
    BY <1>5, <2>2
  <2> QED BY <1>1, <1>4, <1>7, <1>8, <2>7, <2>9
<1> QED BY <1>1, <1>4, <1>7, <1>8, <1>10, <1>11
=============================================================================
