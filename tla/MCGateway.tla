------------------------------ MODULE MCGateway ------------------------------
(***************************************************************************)
(* Small instances of the gateway for TLC: each run names the orders that  *)
(* clients may submit, the cancels they may sign, and what they deposited. *)
(***************************************************************************)
EXTENDS Gateway

CONSTANTS alice, bob, carol, base, quote

MCTokens == {base, quote}
MCPrices == 1..3
MCQuantities == 0..4

Order(maker, nonce, side, price, quantity, expiry) ==
  [maker |-> maker, nonce |-> nonce, side |-> side, price |-> price, quantity |-> quantity,
   base_token |-> base, quote_token |-> quote, expiry |-> expiry]

Limit(order) == [order |-> order, type |-> "limit"]
Market(order) == [order |-> order, type |-> "market"]

Forever == 9

\* Everybody deposited the same.
Deposited(base_amount, quote_amount) ==
  [u \in Users |-> [t \in Tokens |->
     [available |-> IF t = base THEN base_amount ELSE quote_amount, reserved |-> 0]]]

\* Partial fills, sweeps over two levels, price improvement, halves that round
\* down (Scale is 2), a market order for nothing, two makers with one nonce.
\* Only orders of quantity 1 are cancelled: nobody fills them in part.
PartialRequests ==
  {Limit(Order(alice, 1, "sell", 1, 3, Forever)),
   Limit(Order(alice, 2, "sell", 2, 1, Forever)),
   Limit(Order(bob, 2, "buy", 3, 3, Forever)),
   Market(Order(bob, 3, "buy", 3, 1, Forever)),
   Limit(Order(carol, 2, "buy", 1, 1, Forever)),
   Market(Order(carol, 3, "sell", 1, 0, Forever))}
PartialCancels == {[signer |-> alice, nonce |-> 2], [signer |-> carol, nonce |-> 2]}
PartialDeposits == Deposited(4, 4)

\* Lots of one size: an order is filled whole or not at all. Every order is
\* expired by the time its nonce is (NonceExpiry is 1).
RestartRequests ==
  {Limit(Order(alice, 1, "sell", 1, 2, 1)),
   Limit(Order(alice, 2, "sell", 2, 2, 0)),
   Limit(Order(bob, 1, "buy", 2, 2, 1)),
   Market(Order(bob, 2, "buy", 3, 2, 1)),
   Limit(Order(bob, 3, "buy", 1, 2, 1))}
RestartCancels == {[signer |-> bob, nonce |-> 1], [signer |-> alice, nonce |-> 1]}
RestartDeposits == Deposited(4, 12)

\* One large ask and a smaller bid.
UnevenRequests ==
  {Limit(Order(alice, 1, "sell", 1, 3, Forever)),
   Limit(Order(bob, 1, "buy", 1, 1, Forever))}
UnevenCancels == {[signer |-> alice, nonce |-> 1]}

\* A market buy whose price is below the only ask.
MarketRequests ==
  {Limit(Order(alice, 1, "sell", 3, 1, Forever)),
   Market(Order(bob, 1, "buy", 1, 1, Forever))}

NoCancels == {}
=============================================================================
