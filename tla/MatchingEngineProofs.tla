-------------------------- MODULE MatchingEngineProofs --------------------------
(***************************************************************************)
(* Invariants of the matching engine, for every set of prices, every set   *)
(* of quantities and every number of orders.                               *)
(***************************************************************************)
EXTENDS MatchingEngine, OrderBookProofs

\* The inductive invariant. A crossed book or a queue out of order can only be
\* excluded together with what is known of ids: every id on the book was
\* assigned before the taker's, so that a resting remainder is the youngest
\* order of its queue, and before next_id, so that the next taker's is.
IInv ==
  /\ WellFormed(book)
  /\ next_id \in 1..(MaxId + 1)
  /\ serving \in BOOLEAN
  /\ taker \in Takers \cup {NoTaker}
  /\ \A id \in DOMAIN book.locations : id \in 1..(next_id - 1)
  /\ taker # NoTaker =>
       /\ taker.id \in 1..(next_id - 1)
       /\ serving
       /\ \A id \in DOMAIN book.locations : id < taker.id

\* NoTaker is none of the takers, so that a test for it decides.
LEMMA NoTakerIsNone == \A t \in Takers : t # NoTaker
BY DEF Takers, NoTaker

\* When the loop of submit is over and something of a limit order is left, no
\* price of the other side is acceptable: not the best one, hence none.
LEMMA RemainderCrossesNothing ==
  ASSUME WellFormed(book), taker \in Takers, ~CanMatch, Rests
  PROVE  \A q \in DOMAIN book.levels[Opposite(taker.side)] :
           ~Accepts(taker.side, taker.price, q)
<1>1. taker.side \in Sides /\ taker.price \in Prices /\ LevelsTyped(book)
  BY DEF Takers, WellFormed, Consistent
<1>2. \/ DOMAIN book.levels[Opposite(taker.side)] = {}
      \/ ~Accepts(taker.side, taker.price, BestPrice(book, Opposite(taker.side)))
  BY DEF CanMatch, Rests
<1> QED BY <1>1, <1>2, NoneAccepted

LEMMA InitIInv == Init => IInv
<1> SUFFICES ASSUME Init PROVE IInv
  OBVIOUS
<1>1. WellFormed(book) /\ DOMAIN book.locations = {}
  BY EmptyWellFormed DEF Init
<1>2. next_id \in 1..(MaxId + 1)
  BY MaxIdAssumption DEF Init
<1>3. serving \in BOOLEAN /\ taker = NoTaker
  BY Zenon DEF Init
<1> QED BY <1>1, <1>2, <1>3 DEF IInv

LEMMA NextIInv == IInv /\ [Next]_vars => IInv'
<1> SUFFICES ASSUME IInv, [Next]_vars PROVE IInv'
  OBVIOUS
<1>0. next_id \in Nat /\ MaxId \in Nat
  BY MaxIdAssumption DEF IInv
<1>1. ASSUME NEW side \in Sides, NEW price \in Prices, NEW quantity \in Quantities,
             NEW type \in OrderTypes, Submit(side, price, quantity, type)
      PROVE  IInv'
  <2>1. taker' \in Takers
    BY <1>1, <1>0, QuantitiesAssumption DEF Submit, Takers
  <2>2. taker'.id = next_id
    BY <1>1 DEF Submit
  <2> QED BY <1>0, <1>1, <2>1, <2>2 DEF IInv, Submit, Idle
<1>2. CASE Match
  <2> DEFINE side == Opposite(taker.side)
  <2>1. taker \in Takers /\ side \in Sides /\ taker.remaining \in Nat \ {0}
        /\ DOMAIN book.levels[side] # {} /\ WellFormed(book)
    BY <1>2 DEF IInv, Match, CanMatch, Opposite, Sides, Takers
  <2>2. /\ WellFormed(book')
        /\ DOMAIN book'.locations \subseteq DOMAIN book.locations
    BY <1>2, <2>1, TakeWellFormed DEF Match
  <2>3. NextFill \in Fills /\ NextFill.quantity <= taker.remaining
    <3>1. /\ BestPrice(book, side) \in Prices
          /\ BestMaker(book, side) \in EngineOrders
      BY <2>1, BestMakerFacts DEF WellFormed
    <3>2. FillQty(book, side, taker.remaining) \in Nat \ {0}
          /\ FillQty(book, side, taker.remaining) <= taker.remaining
      BY <2>1, FillQtyBounds DEF WellFormed
    <3> QED BY <3>1, <3>2 DEF NextFill, Fills, EngineOrders
  <2>4. taker' \in Takers /\ taker'.id = taker.id
    <3>1. taker' = [taker EXCEPT !.remaining = taker.remaining - NextFill.quantity,
                                 !.fills = Append(taker.fills, NextFill)]
      BY <1>2 DEF Match
    <3>2. taker.remaining - NextFill.quantity \in Nat
      BY <2>1, <2>3 DEF Fills
    <3>3. Append(taker.fills, NextFill) \in Seq(Fills)
      BY <2>1, <2>3, AppendProperties DEF Takers
    <3> QED BY <2>1, <3>1, <3>2, <3>3 DEF Takers
  <2> QED BY <1>2, <2>2, <2>4 DEF IInv, Match
<1>3. CASE Finish
  <2>1. taker \in Takers /\ WellFormed(book)
    BY <1>3 DEF IInv, Finish
  <2>2. CASE Rests
    <3>1. Remainder \in EngineOrders /\ Remainder.id = taker.id
          /\ Remainder.side = taker.side /\ Remainder.price = taker.price
      BY <2>1, <2>2 DEF Remainder, EngineOrders, Takers, Rests
    <3>2. \A q \in DOMAIN book.levels[Opposite(taker.side)] :
            ~Accepts(taker.side, taker.price, q)
      BY <1>3, <2>1, <2>2, RemainderCrossesNothing DEF Finish
    <3>3. \A id \in DOMAIN book.locations : id < taker.id
      BY <1>3 DEF IInv, Finish
    <3>4. /\ WellFormed(Insert(book, Remainder))
          /\ DOMAIN Insert(book, Remainder).locations = DOMAIN book.locations \cup {taker.id}
      BY <2>1, <3>1, <3>2, <3>3, InsertWellFormed
    <3> QED BY <1>3, <2>2, <3>4 DEF IInv, Finish
  <2>3. CASE ~Rests
    BY <1>3, <2>3 DEF IInv, Finish
  <2> QED BY <2>2, <2>3
<1>4. ASSUME NEW id \in DOMAIN book.locations, Cancel(id)
      PROVE  IInv'
  <2>1. /\ WellFormed(RemoveOrder(book, id))
        /\ DOMAIN RemoveOrder(book, id).locations = DOMAIN book.locations \ {id}
    BY RemoveWellFormed DEF IInv
  <2> QED BY <1>4, <2>1 DEF IInv, Cancel, Idle
<1>5. CASE Boot
  <2>1. WellFormed(book') /\ DOMAIN book'.locations = {}
    BY <1>5, EmptyWellFormed DEF Boot
  <2>2. next_id' \in 1..(MaxId + 1)
    BY <1>0, <1>5 DEF Boot
  <2>3. serving' \in BOOLEAN /\ taker' = NoTaker
    BY <1>5, Zenon DEF Boot
  <2> QED BY <2>1, <2>2, <2>3 DEF IInv
<1>6. ASSUME NEW id \in 1..(MaxId + 1), SetNextId(id)
      PROVE  IInv'
  BY <1>0, <1>6, EmptyWellFormed DEF IInv, SetNextId
<1>7. ASSUME NEW o \in EngineOrders, RestoreOrder(o)
      PROVE  IInv'
  <2>1. /\ WellFormed(Insert(book, o))
        /\ DOMAIN Insert(book, o).locations = DOMAIN book.locations \cup {o.id}
    BY <1>7, InsertWellFormed DEF IInv, RestoreOrder, Restore, Restorable
  <2> QED BY <1>0, <1>7, <2>1 DEF IInv, RestoreOrder, Restore, Restorable
<1>8. CASE Serve
  BY <1>8 DEF IInv, Serve
<1>9. CASE UNCHANGED vars
  BY <1>9 DEF IInv, vars
<1>10. ASSUME NEW id \in 1..MaxId, NEW side \in Sides, NEW price \in Prices,
              NEW quantity \in Quantities \ {0}
       PROVE  [id |-> id, side |-> side, price |-> price, quantity |-> quantity] \in EngineOrders
  BY <1>0, QuantitiesAssumption DEF EngineOrders
<1> QED BY <1>1, <1>2, <1>3, <1>4, <1>5, <1>6, <1>7, <1>8, <1>9, <1>10 DEF Next

\* Every behaviour of the engine keeps the inductive invariant.
THEOREM Invariance == Spec => []IInv
<1>1. Init => IInv
  BY InitIInv
<1>2. IInv /\ [Next]_vars => IInv'
  BY NextIInv
<1> QED BY <1>1, <1>2, PTL DEF Spec

\* The variables of the engine stay in their types.
THEOREM TypeCorrect == Spec => []TypeOK
<1>1. IInv => TypeOK
  BY DEF IInv, TypeOK, WellFormed, Consistent
<1> QED BY <1>1, Invariance, PTL

\* The two indexes of the book always agree and no level is empty: the panic
\* "best_ask exists so take must succeed" (engine.rs) is unreachable.
THEOREM BookStaysConsistent == Spec => []BookConsistent
<1>1. IInv => BookConsistent
  BY DEF IInv, BookConsistent, WellFormed, Consistent
<1> QED BY <1>1, Invariance, PTL

\* The book is never crossed (the property test best_bid_below_best_ask, for
\* every sequence of submissions, cancels and restarts).
THEOREM NeverCrossed == Spec => []Uncrossed
<1>1. IInv => Uncrossed
  BY DEF IInv, Uncrossed, WellFormed
<1> QED BY <1>1, Invariance, PTL

\* Older orders stay ahead of younger ones in every queue.
THEOREM TimePriorityKept == Spec => []TimePriority
<1>1. IInv => TimePriority
  BY DEF IInv, TimePriority, WellFormed, Consistent
<1> QED BY <1>1, Invariance, PTL

-----------------------------------------------------------------------------
(* The order in which a taker meets its makers, and market orders.         *)

\* The maker of a taker's i-th fill, as it was on the book.
Maker(t, i) == [id |-> t.fills[i].maker_id, side |-> Opposite(t.side), price |-> t.fills[i].price]

\* The fills are in order, and as long as the taker wants more, everything that
\* is left on the other side comes after every maker met so far: a maker that
\* keeps a part has taken all the taker wanted.
MakersInOrder(t) ==
  \A i, j \in DOMAIN t.fills : i < j => Precedes(Maker(t, i), Maker(t, j))

RestComesLater(t, orders) ==
  t.remaining > 0 => \A i \in DOMAIN t.fills : \A o \in orders : Precedes(Maker(t, i), o)

WithinItsLimit(t) ==
  t.type = "limit" => \A i \in DOMAIN t.fills : Accepts(t.side, t.price, t.fills[i].price)

\* What a market order still wants is there.
Fillable(t, total) == t.type = "market" => t.remaining <= total

Sweep ==
  taker # NoTaker =>
    /\ MakersInOrder(taker)
    /\ RestComesLater(taker, OrdersOn(book, Opposite(taker.side)))
    /\ WithinItsLimit(taker)
    /\ Fillable(taker, TotalQty(book, Opposite(taker.side)))

\* What an iteration of the loop does to the orders of the other side.
LEMMA MatchFacts ==
  ASSUME IInv, Match
  PROVE  LET side == Opposite(taker.side)
             m    == BestMaker(book, side)
             fill == FillQty(book, side, taker.remaining)
         IN  /\ taker \in Takers /\ taker.side \in Sides /\ side \in Sides
             /\ WellFormed(book) /\ DOMAIN book.levels[side] # {}
             /\ taker.remaining \in Nat \ {0}
             /\ m \in EngineOrders /\ m \in OrdersIn(book) /\ m.side = side
             /\ m.price = BestPrice(book, side)
             /\ fill \in Nat \ {0} /\ fill <= taker.remaining /\ fill <= m.quantity
             /\ book' = TakeBest(book, side, taker.remaining)
             /\ NextFill = [maker_id |-> m.id, price |-> m.price, quantity |-> fill]
             /\ taker' = [taker EXCEPT !.remaining = taker.remaining - fill,
                                       !.fills = Append(taker.fills, NextFill)]
<1>1. PICK side, m, fill : /\ side = Opposite(taker.side) /\ m = BestMaker(book, side)
                           /\ fill = FillQty(book, side, taker.remaining)
  OBVIOUS
<1>2. /\ taker \in Takers /\ taker.side \in Sides /\ side \in Sides
      /\ WellFormed(book) /\ DOMAIN book.levels[side] # {} /\ taker.remaining \in Nat \ {0}
  BY <1>1 DEF IInv, Match, CanMatch, Opposite, Sides, Takers
<1>3. /\ m \in EngineOrders /\ m \in OrdersIn(book) /\ m.side = side /\ m.price = BestPrice(book, side)
  BY <1>1, <1>2, BestMakerFacts, BestMakerPrecedes DEF WellFormed
<1>4. fill \in Nat \ {0} /\ fill <= taker.remaining /\ fill <= m.quantity
  BY <1>1, <1>2, FillQtyBounds DEF WellFormed
<1>5. NextFill = [maker_id |-> m.id, price |-> m.price, quantity |-> fill]
  BY <1>1, <1>3 DEF NextFill
<1>6. /\ book' = TakeBest(book, side, taker.remaining)
      /\ taker' = [taker EXCEPT !.remaining = taker.remaining - fill,
                                !.fills = Append(taker.fills, NextFill)]
  BY <1>1, <1>5 DEF Match
<1> QED BY <1>1, <1>2, <1>3, <1>4, <1>5, <1>6

\* A sequence of fills with one more.
LEMMA FillsAppend ==
  ASSUME NEW fills \in Seq(Fills), NEW f \in Fills
  PROVE  /\ Len(fills) \in Nat /\ DOMAIN fills = 1..Len(fills)
         /\ DOMAIN Append(fills, f) = 1..(Len(fills) + 1)
         /\ \A i \in 1..Len(fills) : Append(fills, f)[i] = fills[i]
         /\ Append(fills, f)[Len(fills) + 1] = f
BY AppendProperties, LenProperties

LEMMA MatchKeepsSweep ==
  ASSUME IInv, Sweep, Match
  PROVE  Sweep'
<1>1. PICK side, m, fill, n : /\ side = Opposite(taker.side) /\ m = BestMaker(book, side)
                              /\ fill = FillQty(book, side, taker.remaining)
                              /\ n = Len(taker.fills)
  OBVIOUS
<1>2. /\ taker \in Takers /\ taker.side \in Sides /\ side \in Sides
      /\ WellFormed(book) /\ DOMAIN book.levels[side] # {}
      /\ taker.remaining \in Nat \ {0}
      /\ m \in EngineOrders /\ m \in OrdersIn(book) /\ m.side = side
      /\ m.price = BestPrice(book, side)
      /\ fill \in Nat \ {0} /\ fill <= taker.remaining /\ fill <= m.quantity
      /\ book' = TakeBest(book, side, taker.remaining)
      /\ NextFill = [maker_id |-> m.id, price |-> m.price, quantity |-> fill]
      /\ taker' = [taker EXCEPT !.remaining = taker.remaining - fill,
                                !.fills = Append(taker.fills, NextFill)]
  BY <1>1, MatchFacts
<1>3. /\ taker'.side = taker.side /\ taker'.type = taker.type /\ taker'.price = taker.price
      /\ taker'.remaining = taker.remaining - fill
      /\ taker'.fills = Append(taker.fills, NextFill)
      /\ taker.type \in OrderTypes
  BY <1>2 DEF Takers
<1>4. /\ n \in Nat /\ DOMAIN taker.fills = 1..n /\ DOMAIN taker'.fills = 1..(n + 1)
      /\ \A i \in 1..n : taker'.fills[i] = taker.fills[i]
      /\ taker'.fills[n + 1] = NextFill
  <2>1. taker.fills \in Seq(Fills) /\ NextFill \in Fills
    BY <1>2 DEF Takers, Fills, EngineOrders
  <2> QED BY <1>1, <1>3, <2>1, FillsAppend
<1>5. /\ \A i \in 1..n : Maker(taker', i) = Maker(taker, i)
      /\ Maker(taker', n + 1).id = m.id /\ Maker(taker', n + 1).side = m.side
      /\ Maker(taker', n + 1).price = m.price
  BY <1>1, <1>2, <1>3, <1>4 DEF Maker
<1>6. \A o : o \in OrdersOn(book, side) <=> o \in OrdersIn(book) /\ o.side = side
  BY <1>2, RestingPlace DEF WellFormed
<1>7. /\ MakersInOrder(taker) /\ RestComesLater(taker, OrdersOn(book, side))
      /\ WithinItsLimit(taker) /\ Fillable(taker, TotalQty(book, side))
  BY <1>1 DEF Sweep, Match
<1>8. \A i \in 1..n : \A o \in OrdersOn(book, side) : Precedes(Maker(taker, i), o)
  BY <1>2, <1>4, <1>7 DEF RestComesLater
<1>9. MakersInOrder(taker')
  <2> SUFFICES ASSUME NEW i \in 1..(n + 1), NEW j \in 1..(n + 1), i < j
               PROVE  Precedes(Maker(taker', i), Maker(taker', j))
    BY <1>4 DEF MakersInOrder
  <2>1. i \in 1..n
    BY <1>4
  <2>2. CASE j \in 1..n
    BY <1>4, <1>5, <1>7, <2>1, <2>2 DEF MakersInOrder
  <2>3. CASE j = n + 1
    <3>1. Precedes(Maker(taker, i), m)
      BY <1>2, <1>6, <1>8, <2>1
    <3> QED BY <1>5, <2>1, <2>3, <3>1 DEF Precedes
  <2> QED BY <1>4, <2>2, <2>3
<1>10. RestComesLater(taker', OrdersOn(book', side))
  <2> SUFFICES ASSUME taker.remaining - fill > 0,
                      NEW i \in 1..(n + 1), NEW o \in OrdersOn(book', side)
               PROVE  Precedes(Maker(taker', i), o)
    BY <1>3, <1>4 DEF RestComesLater
  <2>1. m.quantity - fill = 0
    BY <1>1, <1>2 DEF FillQty, EngineOrders
  <2>2. OrdersIn(book') = OrdersIn(book) \ {m}
    BY <1>1, <1>2, <2>1, OrdersAfterTake DEF WellFormed
  <2>3. WellFormed(book')
    BY <1>2, TakeWellFormed
  <2>4. o \in OrdersIn(book) /\ o # m /\ o.side = side
    BY <1>2, <2>2, <2>3, RestingPlace DEF WellFormed
  <2>5. CASE i \in 1..n
    BY <1>5, <1>6, <1>8, <2>4, <2>5
  <2>6. CASE i = n + 1
    <3>1. Precedes(m, o)
      BY <1>1, <1>2, <2>4, BestMakerPrecedes DEF WellFormed
    <3> QED BY <1>5, <2>6, <3>1 DEF Precedes
  <2> QED BY <1>4, <2>5, <2>6
<1>11. WithinItsLimit(taker')
  <2> SUFFICES ASSUME taker.type = "limit", NEW i \in 1..(n + 1)
               PROVE  Accepts(taker.side, taker.price, taker'.fills[i].price)
    BY <1>3, <1>4 DEF WithinItsLimit
  <2>1. CASE i \in 1..n
    BY <1>4, <1>7, <2>1 DEF WithinItsLimit
  <2>2. CASE i = n + 1
    <3>1. taker'.fills[i].price = BestPrice(book, side)
      BY <1>2, <1>4, <2>2
    <3> QED BY <1>1, <3>1 DEF Match, CanMatch
  <2> QED BY <1>4, <2>1, <2>2
<1>12. Fillable(taker', TotalQty(book', side))
  <2>1. /\ TotalQty(book, side) \in Int
        /\ TotalQty(book', side) = TotalQty(book, side) - fill
    BY <1>1, <1>2, TotalAfterTake DEF WellFormed
  <2> QED BY <1>2, <1>3, <1>7, <2>1 DEF Fillable
<1> QED BY <1>1, <1>3, <1>9, <1>10, <1>11, <1>12 DEF Sweep

LEMMA NextSweep == IInv /\ Sweep /\ [Next]_vars => Sweep'
<1> SUFFICES ASSUME IInv, Sweep, [Next]_vars PROVE Sweep'
  OBVIOUS
<1>1. ASSUME NEW side \in Sides, NEW price \in Prices, NEW quantity \in Quantities,
             NEW type \in OrderTypes, Submit(side, price, quantity, type)
      PROVE  Sweep'
  <2>1. /\ taker'.side = side /\ taker'.type = type /\ taker'.remaining = quantity
        /\ taker'.fills = <<>> /\ book' = book
    BY <1>1 DEF Submit
  <2>2. DOMAIN taker'.fills = {}
    BY <2>1
  <2>3. type = "market" => quantity <= TotalQty(book, Opposite(side))
    <3>1. quantity \in Int /\ TotalQty(book, Opposite(side)) \in Int
      <4>1. Consistent(book) /\ Opposite(side) \in Sides
        BY DEF IInv, WellFormed, Opposite, Sides
      <4>2. PICK f : f = [o \in EngineOrders |-> o.quantity]
        OBVIOUS
      <4>3. PICK S \in SUBSET EngineOrders : S = OrdersOn(book, Opposite(side))
        BY <4>1, TotalIsSum
      <4>4. \A o \in S : f[o] \in Int
        BY <4>2 DEF EngineOrders
      <4>5. IsFiniteSet(S) /\ TotalQty(book, Opposite(side)) = SumFunctionOnSet(f, S)
        BY <4>1, <4>2, <4>3, TotalIsSum, OrdersFinite
      <4>6. SumFunctionOnSet(f, S) \in Int
        BY <4>4, <4>5, SumType
      <4> QED BY <4>5, <4>6, QuantitiesAssumption
    <3> QED BY <1>1, <3>1 DEF Submit
  <2> QED BY <2>1, <2>2, <2>3 DEF Sweep, MakersInOrder, RestComesLater, WithinItsLimit, Fillable
<1>2. CASE Match
  BY <1>2, MatchKeepsSweep
<1>3. CASE taker' = NoTaker
  BY <1>3 DEF Sweep
<1>4. CASE book' = book /\ taker' = taker
  BY <1>4 DEF Sweep
<1>5. ASSUME NEW id \in DOMAIN book.locations, Cancel(id)
      PROVE  taker' = NoTaker
  BY <1>5 DEF Cancel, Idle
<1>6. ASSUME NEW o, RestoreOrder(o)
      PROVE  taker' = NoTaker
  BY <1>6 DEF RestoreOrder, Restore, IInv
<1> QED BY <1>1, <1>2, <1>3, <1>4, <1>5, <1>6 DEF Next, Finish, Boot, SetNextId, Serve, vars

\* What the loop keeps of a taker holds in every behaviour.
THEOREM SweepInvariance == Spec => []Sweep
<1>1. Init => Sweep
  BY DEF Init, Sweep
<1> QED BY <1>1, NextSweep, Invariance, PTL DEF Spec

\* Every taker meets its makers best price first, then oldest first, and a limit
\* order never trades beyond its limit.
THEOREM MakersMetInOrder == Spec => []SweepInOrder
<1>1. IInv /\ Sweep => SweepInOrder
  <2> SUFFICES ASSUME IInv, Sweep, taker # NoTaker
               PROVE  /\ \A i, j \in DOMAIN taker.fills : i < j =>
                           /\ ~BetterPrice(Opposite(taker.side), taker.fills[j].price, taker.fills[i].price)
                           /\ taker.fills[i].price = taker.fills[j].price =>
                                taker.fills[i].maker_id < taker.fills[j].maker_id
                      /\ taker.type = "limit" =>
                           \A i \in DOMAIN taker.fills :
                             Accepts(taker.side, taker.price, taker.fills[i].price)
    BY DEF SweepInOrder
  <2>1. taker \in Takers /\ taker.fills \in Seq(Fills)
    BY DEF IInv, Takers
  <2>2. ASSUME NEW i \in DOMAIN taker.fills, NEW j \in DOMAIN taker.fills, i < j
        PROVE  /\ ~BetterPrice(Opposite(taker.side), taker.fills[j].price, taker.fills[i].price)
               /\ taker.fills[i].price = taker.fills[j].price =>
                    taker.fills[i].maker_id < taker.fills[j].maker_id
    <3>1. Precedes(Maker(taker, i), Maker(taker, j))
      BY <2>2 DEF Sweep, MakersInOrder
    <3>2. taker.fills[i] \in Fills /\ taker.fills[j] \in Fills
      BY <2>1, ElementOfSeq, LenProperties
    <3>3. /\ taker.fills[i].price \in Nat /\ taker.fills[j].price \in Nat
          /\ taker.fills[i].maker_id \in Nat /\ taker.fills[j].maker_id \in Nat
      <4>1. PICK f, g : f = taker.fills[i] /\ g = taker.fills[j]
        OBVIOUS
      <4>2. f.price \in Prices /\ g.price \in Prices /\ f.maker_id \in Nat /\ g.maker_id \in Nat
        BY <3>2, <4>1 DEF Fills
      <4>3. Prices \subseteq Nat
        BY PricesAssumption
      <4> QED BY <4>1, <4>2, <4>3
    <3> QED BY <3>1, <3>3 DEF Precedes, Maker, BetterPrice
  <2>3. WithinItsLimit(taker)
    BY DEF Sweep
  <2> QED BY <2>2, <2>3 DEF WithinItsLimit
<1> QED BY <1>1, Invariance, SweepInvariance, PTL

\* A market order that was let in is filled completely: when its loop is over,
\* either nothing is left of it or the other side is empty, and then the total
\* it was promised is zero.
THEOREM MarketOrdersFill == Spec => MarketAllOrNothing
<1>1. IInv /\ Sweep /\ Finish /\ taker.type = "market" => taker.remaining = 0
  <2> SUFFICES ASSUME IInv, Sweep, Finish, taker.type = "market", taker.remaining # 0
               PROVE  FALSE
    OBVIOUS
  <2>1. PICK side : side = Opposite(taker.side)
    OBVIOUS
  <2>2. taker # NoTaker /\ taker \in Takers /\ taker.remaining \in Nat \ {0} /\ side \in Sides
        /\ WellFormed(book)
    BY <2>1 DEF Finish, IInv, Takers, Opposite, Sides
  <2>3. DOMAIN book.levels[side] = {}
    BY <2>1, <2>2 DEF Finish, CanMatch
  <2>4. OrdersOn(book, side) = {}
    BY <2>3 DEF OrdersOn
  <2>5. TotalQty(book, side) = 0
    <3>1. TotalQty(book, side) = SumFunctionOnSet([o \in EngineOrders |-> o.quantity], OrdersOn(book, side))
      BY <2>2, TotalIsSum DEF WellFormed
    <3> QED BY <2>4, <3>1, SumOfNothing
  <2>6. taker.remaining <= TotalQty(book, side)
    BY <2>1, <2>2 DEF Sweep, Fillable
  <2> QED BY <2>2, <2>5, <2>6
<1>2. IInv /\ Sweep /\ [Next]_vars => [Finish /\ taker.type = "market" => taker.remaining = 0]_vars
  BY <1>1
<1> QED BY <1>2, Invariance, SweepInvariance, PTL DEF Spec, MarketAllOrNothing

-----------------------------------------------------------------------------
(* The refinement: levels, queues and the index produce what a plain set   *)
(* of orders, searched for the best and oldest, would produce.             *)

\* An iteration of the loop is a trade with the next maker of the set.
LEMMA MatchIsTrade ==
  ASSUME IInv, Match
  PROVE  \E m \in OrdersIn(book) : PTP!Trade(m)
<1>1. PICK side, m, fill : /\ side = Opposite(taker.side) /\ m = BestMaker(book, side)
                           /\ fill = FillQty(book, side, taker.remaining)
  OBVIOUS
<1>2. /\ taker \in Takers /\ taker.side \in Sides /\ side \in Sides
      /\ WellFormed(book) /\ DOMAIN book.levels[side] # {}
      /\ taker.remaining \in Nat \ {0}
      /\ m \in EngineOrders /\ m \in OrdersIn(book) /\ m.side = side
      /\ m.price = BestPrice(book, side)
      /\ fill \in Nat \ {0} /\ fill <= taker.remaining /\ fill <= m.quantity
      /\ book' = TakeBest(book, side, taker.remaining)
      /\ NextFill = [maker_id |-> m.id, price |-> m.price, quantity |-> fill]
      /\ taker' = [taker EXCEPT !.remaining = taker.remaining - fill,
                                !.fills = Append(taker.fills, NextFill)]
  BY <1>1, MatchFacts
<1>3. fill = IF m.quantity < taker.remaining THEN m.quantity ELSE taker.remaining
  <2>1. m.quantity \in Nat
    BY <1>2 DEF EngineOrders
  <2>2. fill = IF taker.remaining < m.quantity THEN taker.remaining ELSE m.quantity
    BY <1>1 DEF FillQty
  <2> QED BY <1>2, <2>1, <2>2
<1>4. PTP!Tradable(m)
  <2>1. taker.type \in OrderTypes
    BY <1>2 DEF Takers
  <2>2. taker.type = "limit" => Accepts(taker.side, taker.price, m.price)
    BY <1>1, <1>2 DEF Match, CanMatch
  <2> QED BY <1>2, <2>1, <2>2 DEF PTP!Tradable, OrderTypes, Accepts, Sides
<1>5. ASSUME NEW n \in PTP!Against(taker.side) \ {m}
      PROVE  PTP!Before(m, n)
  <2>1. n \in OrdersIn(book) /\ n.side = side /\ n # m
    <3>1. n \in OrdersIn(book) /\ n.side # taker.side /\ n # m
      BY <1>5 DEF PTP!Against
    <3>2. n.side \in Sides
      BY <1>2, <3>1, RestingPlace DEF EngineOrders, WellFormed
    <3> QED BY <1>1, <1>2, <3>1, <3>2 DEF Opposite, Sides
  <2>2. Precedes(m, n)
    BY <1>1, <1>2, <2>1, BestMakerPrecedes DEF WellFormed
  <2> QED BY <1>2, <2>2 DEF Precedes, BetterPrice, PTP!Before, Sides
<1>6. m \in PTP!Against(taker.side)
  BY <1>1, <1>2 DEF PTP!Against, Opposite, Sides
<1>7. PTP!NextMaker(m)
  BY <1>2, <1>4, <1>5, <1>6 DEF PTP!NextMaker
<1>8. OrdersIn(book') = (OrdersIn(book) \ {m}) \cup PTP!Left(m, fill)
  <2>1. m.quantity \in Nat /\ m.quantity - fill \in Nat
    BY <1>2 DEF EngineOrders
  <2>2. PICK rest : rest = [m EXCEPT !.quantity = m.quantity - fill]
    OBVIOUS
  <2>3. rest.quantity = m.quantity - fill
    BY <1>2, <2>2 DEF EngineOrders
  <2>4. PTP!Left(m, fill) = {o \in {rest} : o.quantity > 0}
    BY <2>2 DEF PTP!Left
  <2>5. CASE m.quantity - fill = 0
    <3>1. OrdersIn(book') = OrdersIn(book) \ {m}
      BY <1>1, <1>2, <2>5, OrdersAfterTake DEF WellFormed
    <3>2. PTP!Left(m, fill) = {}
      BY <2>3, <2>4, <2>5
    <3> QED BY <3>1, <3>2
  <2>6. CASE m.quantity - fill # 0
    <3>1. OrdersIn(book') = (OrdersIn(book) \ {m}) \cup {rest}
      BY <1>1, <1>2, <2>2, <2>6, OrdersAfterTake DEF WellFormed
    <3>2. PTP!Left(m, fill) = {rest}
      BY <2>1, <2>3, <2>4, <2>6
    <3> QED BY <3>1, <3>2
  <2> QED BY <2>5, <2>6
<1>9. taker' = [taker EXCEPT !.remaining = @ - fill,
                             !.fills = Append(@, [maker_id |-> m.id, price |-> m.price,
                                                  quantity |-> fill])]
  BY <1>2
<1>10. taker # NoTaker /\ UNCHANGED <<next_id, serving>>
  BY DEF Match
<1> QED BY <1>2, <1>3, <1>7, <1>8, <1>9, <1>10 DEF PTP!Trade

\* When the loop is over, nobody of the set is left to trade with.
LEMMA NobodyLeft ==
  ASSUME WellFormed(book), taker \in Takers, ~CanMatch
  PROVE  ~\E m \in OrdersIn(book) : PTP!NextMaker(m)
<1> SUFFICES ASSUME NEW m \in OrdersIn(book), PTP!NextMaker(m)
             PROVE  FALSE
  OBVIOUS
<1>1. PICK side : side = Opposite(taker.side)
  OBVIOUS
<1>2. /\ taker.side \in Sides /\ side \in Sides /\ taker.type \in OrderTypes
      /\ taker.remaining \in Nat /\ taker.price \in Prices
  BY <1>1 DEF Takers, Opposite, Sides
<1>3. m.side # taker.side /\ PTP!Tradable(m) /\ taker.remaining > 0
  BY DEF PTP!NextMaker, PTP!Against
<1>4. m.side \in Sides /\ m.price \in Prices /\ m.price \in DOMAIN book.levels[m.side]
  BY RestingPlace DEF EngineOrders, WellFormed
<1>5. m.side = side
  BY <1>1, <1>2, <1>3, <1>4 DEF Opposite, Sides
<1>6. taker.type = "limit"
  BY <1>1, <1>2, <1>3, <1>4, <1>5 DEF CanMatch, OrderTypes
<1>7. ~Accepts(taker.side, taker.price, m.price)
  BY <1>1, <1>3, <1>4, <1>5, <1>6, RemainderCrossesNothing DEF Rests
<1>8. Accepts(taker.side, taker.price, m.price)
  BY <1>2, <1>3, <1>6 DEF PTP!Tradable, Accepts, Sides
<1> QED BY <1>7, <1>8

\* The end of submit is the end of the taker: what is left joins the set.
LEMMA FinishIsConclude ==
  ASSUME IInv, Finish
  PROVE  PTP!Conclude
<1>1. taker \in Takers /\ taker # NoTaker /\ WellFormed(book) /\ ~CanMatch
  BY DEF IInv, Finish
<1>2. ~\E m \in OrdersIn(book) : PTP!NextMaker(m)
  BY <1>1, NobodyLeft
<1>3. OrdersIn(book') = IF taker.type = "limit" /\ taker.remaining > 0
                        THEN OrdersIn(book) \cup {Remainder}
                        ELSE OrdersIn(book)
  <2>1. CASE Rests
    <3>1. Remainder \in EngineOrders
      BY <1>1, <2>1 DEF Remainder, EngineOrders, Takers, Rests
    <3>2. book' = Insert(book, Remainder)
      BY <2>1 DEF Finish
    <3>3. OrdersIn(book') = OrdersIn(book) \cup {Remainder}
      BY <1>1, <3>1, <3>2, OrdersAfterInsert DEF WellFormed
    <3> QED BY <2>1, <3>3 DEF Rests
  <2>2. CASE ~Rests
    BY <2>2 DEF Finish, Rests
  <2> QED BY <2>1, <2>2
<1>4. taker' = NoTaker /\ UNCHANGED <<next_id, serving>>
  BY DEF Finish
<1> QED BY <1>1, <1>2, <1>3, <1>4 DEF PTP!Conclude, Remainder

\* A restored order is younger than all the set holds and meets none of them.
LEMMA RestoreIsReload ==
  ASSUME IInv, NEW o \in EngineOrders, RestoreOrder(o)
  PROVE  PTP!Reload(o)
<1>1. /\ WellFormed(book) /\ o.side \in Sides /\ o.id \in Nat /\ next_id \in Nat
  BY DEF IInv, EngineOrders
<1>2. /\ ~serving /\ o.id < next_id /\ book' = Insert(book, o)
      /\ UNCHANGED <<next_id, taker, serving>>
  BY <1>1 DEF RestoreOrder, Restorable, Restore
<1>3. OrdersIn(book') = OrdersIn(book) \cup {o}
  BY <1>1, <1>2, OrdersAfterInsert DEF WellFormed
<1>4. ASSUME NEW m \in OrdersIn(book)
      PROVE  m.id < o.id
  <2>1. m.id \in DOMAIN book.locations
    BY <1>1, RestingPlace DEF IndexedAt, WellFormed
  <2> QED BY <2>1 DEF RestoreOrder, Restorable
<1>5. ASSUME NEW m \in PTP!Against(o.side)
      PROVE  IF o.side = "buy" THEN o.price < m.price ELSE m.price < o.price
  <2>1. m \in OrdersIn(book) /\ m.side # o.side
    BY DEF PTP!Against
  <2>2. m.side \in Sides /\ m.price \in Prices /\ m.price \in DOMAIN book.levels[m.side]
    BY <1>1, <2>1, RestingPlace DEF EngineOrders, WellFormed
  <2>3. m.side = Opposite(o.side)
    BY <1>1, <2>1, <2>2 DEF Opposite, Sides
  <2>4. ~Accepts(o.side, o.price, m.price)
    BY <2>2, <2>3 DEF RestoreOrder, Restorable
  <2>5. o.price \in Nat /\ m.price \in Nat
    BY <2>2, PricesAssumption DEF EngineOrders
  <2> QED BY <2>4, <2>5 DEF Accepts
<1> QED BY <1>2, <1>3, <1>4, <1>5 DEF PTP!Reload

\* cancel takes one order from the set.
LEMMA CancelIsWithdraw ==
  ASSUME IInv, NEW id \in DOMAIN book.locations, Cancel(id)
  PROVE  \E m \in OrdersIn(book) : PTP!Withdraw(m)
<1>1. WellFormed(book) /\ serving /\ taker = NoTaker /\ book' = RemoveOrder(book, id)
      /\ UNCHANGED <<next_id, taker, serving>>
  BY DEF IInv, Cancel, Idle
<1>2. PICK m \in OrdersIn(book) : OrdersIn(book') = OrdersIn(book) \ {m}
  BY <1>1, OrdersAfterRemove DEF WellFormed
<1> QED BY <1>1, <1>2 DEF PTP!Withdraw

\* Every step of the engine is a step of the set of orders, or leaves it alone.
LEMMA StepImplements == IInv /\ [Next]_vars => [PTP!Next]_(PTP!vars)
<1> SUFFICES ASSUME IInv, [Next]_vars
             PROVE  PTP!Next \/ UNCHANGED PTP!vars
  OBVIOUS
<1>1. ASSUME NEW side \in Sides, NEW price \in Prices, NEW quantity \in Quantities,
             NEW type \in OrderTypes, Submit(side, price, quantity, type)
      PROVE  PTP!Accept(side, price, quantity, type)
  BY <1>1 DEF Submit, Idle, PTP!Accept
<1>2. CASE Match
  BY <1>2, MatchIsTrade DEF PTP!Next
<1>3. CASE Finish
  BY <1>3, FinishIsConclude DEF PTP!Next
<1>4. ASSUME NEW id \in DOMAIN book.locations, Cancel(id)
      PROVE  PTP!Next
  BY <1>4, CancelIsWithdraw DEF PTP!Next
<1>5. CASE Boot
  BY <1>5, EmptyHoldsNothing DEF Boot, PTP!Next, PTP!Close
<1>6. ASSUME NEW id \in 1..(MaxId + 1), SetNextId(id)
      PROVE  PTP!Renumber(id)
  BY <1>6, EmptyHoldsNothing DEF SetNextId, PTP!Renumber
<1>7. ASSUME NEW id \in 1..MaxId, NEW side \in Sides, NEW price \in Prices,
             NEW quantity \in Quantities \ {0},
             RestoreOrder([id |-> id, side |-> side, price |-> price, quantity |-> quantity])
      PROVE  PTP!Next
  <2>1. PICK o : o = [id |-> id, side |-> side, price |-> price, quantity |-> quantity]
    OBVIOUS
  <2>2. o \in EngineOrders
    BY <2>1, QuantitiesAssumption, MaxIdAssumption DEF EngineOrders
  <2>3. PTP!Reload(o)
    BY <1>7, <2>1, <2>2, RestoreIsReload
  <2> QED BY <2>1, <2>3 DEF PTP!Next, PTP!Side, Sides
<1>8. CASE Serve
  BY <1>8 DEF Serve, PTP!Next, PTP!Open
<1>9. CASE UNCHANGED vars
  BY <1>9 DEF vars, PTP!vars
<1>10. ASSUME NEW side \in Sides, NEW price \in Prices, NEW quantity \in Quantities,
              NEW type \in OrderTypes, Submit(side, price, quantity, type)
       PROVE  PTP!Next
  BY <1>1, <1>10 DEF PTP!Next, PTP!Side, Sides, OrderTypes
<1>11. ASSUME NEW id \in 1..(MaxId + 1), SetNextId(id)
       PROVE  PTP!Next
  BY <1>6, <1>11 DEF PTP!Next
<1> QED BY <1>2, <1>3, <1>4, <1>5, <1>7, <1>8, <1>9, <1>10, <1>11 DEF Next

\* The engine implements price-time priority, for every set of prices and
\* quantities and any number of orders.
THEOREM EngineImplementsPriority == Spec => ImplementsPriority
<1>1. Init => PTP!Init
  BY EmptyHoldsNothing DEF Init, PTP!Init
<1> QED BY <1>1, StepImplements, Invariance, PTL DEF Spec, ImplementsPriority, PTP!Spec
=============================================================================
