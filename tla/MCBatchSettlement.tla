-------------------------- MODULE MCBatchSettlement --------------------------
(***************************************************************************)
(* Small instances of the settlement of trades for TLC.                    *)
(***************************************************************************)
EXTENDS BatchSettlement

CONSTANTS alice, bob, base, quote

MCTokens == {base, quote}

Order(maker, nonce, side, price, quantity, expiry) ==
  [maker |-> maker, nonce |-> nonce, side |-> side, price |-> price, quantity |-> quantity,
   base_token |-> base, quote_token |-> quote, expiry |-> expiry]

Trade(maker_order, taker_order, price, quantity) ==
  [maker_order |-> maker_order, taker_order |-> taker_order, price |-> price, quantity |-> quantity]

\* An ask that is filled in two parts. The first buyer would have paid more, the
\* second order expires. (Scale is 1.)
Ask  == Order(alice, 1, "sell", 1, 2, 9)
Bid1 == Order(bob, 1, "buy", 2, 1, 9)
Bid2 == Order(bob, 2, "buy", 1, 1, 0)
Ask3 == Order(bob, 3, "sell", 2, 1, 9)
Bid3 == Order(alice, 3, "buy", 2, 1, 9)

MCTrades == {Trade(Ask, Bid1, 1, 1), Trade(Ask, Bid2, 1, 1), Trade(Ask3, Bid3, 2, 1)}
MCCancels == {Ask}

\* alice sells what she has; bob can sell only what he bought.
MCDeposited ==
  [u \in Users |-> [t \in Tokens |->
     IF u = alice /\ t = base THEN 2 ELSE IF t = quote THEN 2 ELSE 0]]

MCTransfers == {[user |-> bob, token |-> quote, amount |-> 2]}
=============================================================================
