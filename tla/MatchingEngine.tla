---------------------------- MODULE MatchingEngine ----------------------------
(***************************************************************************)
(* The matching engine of crates/matching-engine/src/engine.rs.            *)
(*                                                                         *)
(* `submit` is a loop; here it is Submit (the checks and the new id), one  *)
(* Match per iteration and Finish (the remainder rests). The caller holds  *)
(* the gateway's mutex, so nothing else happens while `taker` is set.      *)
(* Boot, SetNextId, RestoreOrder and Serve are the calls of the gateway's  *)
(* recovery (crates/gateway/src/main.rs); what their guards say of the     *)
(* restored orders is the caller's obligation, discharged in Gateway.tla.  *)
(***************************************************************************)
EXTENDS OrderBook

CONSTANTS Quantities,   \* the quantities orders may ask for
          MaxId         \* bound: the largest order id the model assigns

ASSUME QuantitiesAssumption == Quantities \subseteq Nat
ASSUME MaxIdAssumption == MaxId \in Nat

VARIABLES book,      \* the order book
          next_id,   \* the id the next accepted order gets
          taker,     \* the order submit is working on, or NoTaker
          serving    \* recovery is over and requests are served

vars == <<book, next_id, taker, serving>>

OrderTypes == {"limit", "market"}

Fills == [maker_id : Nat, price : Prices, quantity : Nat \ {0}]

Takers == [id : Nat, side : Sides, price : Prices, type : OrderTypes,
           quantity : Nat, remaining : Nat, fills : Seq(Fills)]

NoTaker == [id |-> 0]

Idle == serving /\ taker = NoTaker

Init ==
  /\ book = EmptyBook
  /\ next_id = 1
  /\ taker = NoTaker
  /\ serving = FALSE

-----------------------------------------------------------------------------
(* submit                                                                  *)

\* Mutant: a market order is let in as soon as the other side has any order.
SubmitIfAnyLiquidity(side, price, quantity, type) ==
  /\ Idle /\ next_id <= MaxId
  /\ type = "market" => OrdersOn(book, Opposite(side)) # {}
  /\ taker' = [id |-> next_id, side |-> side, price |-> price, type |-> type,
               quantity |-> quantity, remaining |-> quantity, fills |-> <<>>]
  /\ next_id' = next_id + 1
  /\ UNCHANGED <<book, serving>>

\* A market order that the other side cannot fill completely is rejected and
\* gets no id; any other order gets the next one.
Submit(side, price, quantity, type) ==
  /\ Idle /\ next_id <= MaxId
  /\ type = "market" => TotalQty(book, Opposite(side)) >= quantity
  /\ taker' = [id |-> next_id, side |-> side, price |-> price, type |-> type,
               quantity |-> quantity, remaining |-> quantity, fills |-> <<>>]
  /\ next_id' = next_id + 1
  /\ UNCHANGED <<book, serving>>

\* Mutant: the limit is compared the wrong way round.
CanMatchWrongWay ==
  LET side == Opposite(taker.side)
  IN  /\ taker.remaining > 0
      /\ DOMAIN book.levels[side] # {}
      /\ taker.type = "limit" => Accepts(side, taker.price, BestPrice(book, side))

\* The loop goes on: something is left, the other side has a best price, and
\* a limit order accepts it. (A market order's price is not looked at.)
CanMatch ==
  LET side == Opposite(taker.side)
  IN  /\ taker.remaining > 0
      /\ DOMAIN book.levels[side] # {}
      /\ taker.type = "limit" =>
           Accepts(taker.side, taker.price, BestPrice(book, side))

NextFill ==
  LET side == Opposite(taker.side)
  IN  [maker_id |-> BestMaker(book, side).id,
       price    |-> BestPrice(book, side),
       quantity |-> FillQty(book, side, taker.remaining)]

Match ==
  /\ taker # NoTaker /\ CanMatch
  /\ book' = TakeBest(book, Opposite(taker.side), taker.remaining)
  /\ taker' = [taker EXCEPT !.remaining = @ - NextFill.quantity,
                            !.fills = Append(@, NextFill)]
  /\ UNCHANGED <<next_id, serving>>

Rests == taker.remaining > 0 /\ taker.type = "limit"

Remainder == [id |-> taker.id, side |-> taker.side, price |-> taker.price,
              quantity |-> taker.remaining]

\* Mutant: an unacceptable best price is skipped instead of ending the loop.
FinishWhenExhausted ==
  /\ taker # NoTaker
  /\ taker.remaining = 0 \/ DOMAIN book.levels[Opposite(taker.side)] = {}
  /\ book' = IF Rests THEN Insert(book, Remainder) ELSE book
  /\ taker' = NoTaker
  /\ UNCHANGED <<next_id, serving>>

\* The loop is over. What a limit order has left rests on the book.
Finish ==
  /\ taker # NoTaker /\ ~CanMatch
  /\ book' = IF Rests THEN Insert(book, Remainder) ELSE book
  /\ taker' = NoTaker
  /\ UNCHANGED <<next_id, serving>>

-----------------------------------------------------------------------------
(* cancel, and the calls recovery makes                                    *)

Cancel(id) ==
  /\ Idle /\ HasOrder(book, id)
  /\ book' = RemoveOrder(book, id)
  /\ UNCHANGED <<next_id, taker, serving>>

\* The process starts again, at any time, with a new engine.
Boot ==
  /\ book' = EmptyBook
  /\ next_id' = 1
  /\ taker' = NoTaker
  /\ serving' = FALSE

\* Before any order is restored, the counter continues after the largest id
\* that was ever stored.
SetNextId(id) ==
  /\ ~serving /\ book = EmptyBook /\ next_id = 1
  /\ next_id' = id
  /\ UNCHANGED <<book, taker, serving>>

\* What the caller promises of the orders it restores: ids that were assigned,
\* in ascending order, and no bid that meets an ask.
Restorable(o) ==
  /\ o.id \in 1..(next_id - 1)
  /\ \A id \in DOMAIN book.locations : id < o.id
  /\ \A p \in DOMAIN book.levels[Opposite(o.side)] : ~Accepts(o.side, o.price, p)

\* restore_order itself checks nothing.
Restore(o) ==
  /\ ~serving
  /\ book' = Insert(book, o)
  /\ UNCHANGED <<next_id, taker, serving>>

RestoreOrder(o) == Restorable(o) /\ Restore(o)

Serve ==
  /\ ~serving
  /\ serving' = TRUE
  /\ UNCHANGED <<book, next_id, taker>>

Next ==
  \/ \E side \in Sides, price \in Prices, quantity \in Quantities, type \in OrderTypes :
       Submit(side, price, quantity, type)
  \/ Match
  \/ Finish
  \/ \E id \in DOMAIN book.locations : Cancel(id)
  \/ Boot
  \/ \E id \in 1..(MaxId + 1) : SetNextId(id)
  \/ \E id \in 1..MaxId, side \in Sides, price \in Prices, quantity \in Quantities \ {0} :
       RestoreOrder([id |-> id, side |-> side, price |-> price, quantity |-> quantity])
  \/ Serve

Spec == Init /\ [][Next]_vars

\* submit runs to its end: it is a loop without waiting, and no other task can
\* take the mutex from it.
FairSpec == Spec /\ WF_vars(Match \/ Finish)

-----------------------------------------------------------------------------
(* Properties                                                              *)

\* The variables stay in their types.
TypeOK ==
  /\ LevelsTyped(book) /\ LocationsTyped(book)
  /\ next_id \in 1..(MaxId + 1)
  /\ taker \in Takers \cup {NoTaker}
  /\ serving \in BOOLEAN

\* The book's two indexes agree: locations (used by cancel and has_order) and
\* the levels (used by matching) name the same orders, and no empty level is
\* left for best_ask or best_bid to return and take_best_* to panic on.
BookConsistent == NoEmptyLevel(book) /\ OrdersIndexed(book) /\ IndexSound(book)

\* The book is never crossed, not even while a taker is being matched or the
\* book is being restored: every order that could trade has traded.
Uncrossed == NotCrossed(book)

\* Time priority survives partial fills, cancels in the middle of a queue and
\* a restart: a queue holds older orders before younger ones.
TimePriority == QueuesInTimeOrder(book)

\* A taker sweeps the book outwards: each fill is at a price no better than
\* the one before it, makers at one price are met oldest first, and a limit
\* order never trades beyond its limit.
SweepInOrder ==
  taker # NoTaker =>
    /\ \A i, j \in DOMAIN taker.fills : i < j =>
         /\ ~BetterPrice(Opposite(taker.side), taker.fills[j].price, taker.fills[i].price)
         /\ taker.fills[i].price = taker.fills[j].price =>
              taker.fills[i].maker_id < taker.fills[j].maker_id
    /\ taker.type = "limit" =>
         \A i \in DOMAIN taker.fills :
           Accepts(taker.side, taker.price, taker.fills[i].price)

\* A market order that was let in is filled completely: the liquidity counted
\* before the loop is what the loop finds.
MarketAllOrNothing ==
  [][Finish /\ taker.type = "market" => taker.remaining = 0]_vars

\* Every submitted order is answered: the loop ends.
SubmitTerminates == taker # NoTaker ~> taker = NoTaker

\* The engine implements price-time priority: its levels and queues always
\* produce the fills that a set of orders, searched for the best and oldest,
\* would produce.
PTP == INSTANCE PriceTimePriority WITH
         resting <- OrdersIn(book), assigned <- next_id, open <- serving

ImplementsPriority == PTP!Spec
=============================================================================
