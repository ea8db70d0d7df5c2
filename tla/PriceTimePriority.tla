--------------------------- MODULE PriceTimePriority ---------------------------
(***************************************************************************)
(* What an exchange promises, without levels, queues or indexes: a set of  *)
(* resting orders, and a taker that meets them strictly by price, then by  *)
(* age. MatchingEngine implements this specification (crates/              *)
(* matching-engine/src/book.rs: "Price-time priority book").               *)
(***************************************************************************)
EXTENDS Integers, Sequences

CONSTANTS Prices, Quantities, MaxId, NoTaker

VARIABLES resting,    \* the set of resting orders
          taker,      \* the order being matched, or NoTaker
          assigned,   \* ids below this one may have been given out
          open        \* orders are accepted and withdrawn

vars == <<resting, taker, assigned, open>>

Side == {"buy", "sell"}

Against(side) == {o \in resting : o.side # side}

\* m is served before n: a better price for the taker, or the same and older.
Before(m, n) ==
  \/ m.side = "buy" /\ m.price > n.price
  \/ m.side = "sell" /\ m.price < n.price
  \/ m.price = n.price /\ m.id < n.id

Tradable(m) ==
  \/ taker.type = "market"
  \/ taker.side = "buy" /\ m.price <= taker.price
  \/ taker.side = "sell" /\ m.price >= taker.price

\* The maker that must be served next.
NextMaker(m) ==
  /\ m \in Against(taker.side) /\ Tradable(m) /\ taker.remaining > 0
  /\ \A n \in Against(taker.side) \ {m} : Before(m, n)

Init == resting = {} /\ taker = NoTaker /\ assigned = 1 /\ open = FALSE

Accept(side, price, quantity, type) ==
  /\ open /\ taker = NoTaker
  /\ taker' = [id |-> assigned, side |-> side, price |-> price, type |-> type,
               quantity |-> quantity, remaining |-> quantity, fills |-> <<>>]
  /\ assigned' = assigned + 1
  /\ UNCHANGED <<resting, open>>

\* What is left of a maker after a trade: nothing when it is filled.
Left(m, quantity) ==
  {o \in {[m EXCEPT !.quantity = @ - quantity]} : o.quantity > 0}

\* The two trade as much as both have.
Trade(m) ==
  LET quantity == IF m.quantity < taker.remaining THEN m.quantity ELSE taker.remaining
  IN  /\ taker # NoTaker /\ NextMaker(m)
      /\ resting' = (resting \ {m}) \cup Left(m, quantity)
      /\ taker' = [taker EXCEPT !.remaining = @ - quantity,
                                !.fills = Append(@, [maker_id |-> m.id, price |-> m.price,
                                                     quantity |-> quantity])]
      /\ UNCHANGED <<assigned, open>>

\* Nobody is left to trade with: a limit order rests with what it has left.
Conclude ==
  /\ taker # NoTaker
  /\ ~\E m \in resting : NextMaker(m)
  /\ resting' = IF taker.type = "limit" /\ taker.remaining > 0
                THEN resting \cup {[id |-> taker.id, side |-> taker.side,
                                    price |-> taker.price, quantity |-> taker.remaining]}
                ELSE resting
  /\ taker' = NoTaker
  /\ UNCHANGED <<assigned, open>>

Withdraw(m) ==
  /\ open /\ taker = NoTaker
  /\ resting' = resting \ {m}
  /\ UNCHANGED <<taker, assigned, open>>

\* The exchange closes without notice and opens with the orders it reloads.
Close == resting' = {} /\ taker' = NoTaker /\ assigned' = 1 /\ open' = FALSE

Renumber(id) ==
  /\ ~open /\ resting = {}
  /\ assigned' = id
  /\ UNCHANGED <<resting, taker, open>>

Reload(o) ==
  /\ ~open /\ o.id < assigned
  /\ \A m \in resting : m.id < o.id
  /\ \A m \in Against(o.side) :
       IF o.side = "buy" THEN o.price < m.price ELSE m.price < o.price
  /\ resting' = resting \cup {o}
  /\ UNCHANGED <<taker, assigned, open>>

Open == ~open /\ open' = TRUE /\ UNCHANGED <<resting, taker, assigned>>

Next ==
  \/ \E side \in Side, price \in Prices, quantity \in Quantities, type \in {"limit", "market"} :
       Accept(side, price, quantity, type)
  \/ \E m \in resting : Trade(m)
  \/ Conclude
  \/ \E m \in resting : Withdraw(m)
  \/ Close
  \/ \E id \in 1..(MaxId + 1) : Renumber(id)
  \/ \E id \in 1..MaxId, side \in Side, price \in Prices, quantity \in Quantities :
       Reload([id |-> id, side |-> side, price |-> price, quantity |-> quantity])
  \/ Open

Spec == Init /\ [][Next]_vars
=============================================================================
