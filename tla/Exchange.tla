-------------------------------- MODULE Exchange --------------------------------
(***************************************************************************)
(* The contract (contracts/src/Exchange.sol): the balances it owes, the    *)
(* nonces it has seen, and the calls that change them. A call either runs  *)
(* to its end or reverts and changes nothing. Solidity checks arithmetic:  *)
(* what does not fit a word reverts. A signature that is not the maker's   *)
(* also reverts; the orders here are signed by their makers.               *)
(***************************************************************************)
EXTENDS Integers, Sequences, SequencesExt, FiniteSetsExt

CONSTANTS Users, Tokens,
          Word,         \* the number of values of a uint256
          Scale,        \* the price unit, 10^18 in the code
          Deposited,    \* what the users deposited before
          Transfers,    \* the deposits and withdrawals explored: [user, token, amount]
          MaxHeld,      \* bound: tokens of one kind in the contract
          MaxTime       \* bound: the last block timestamp

ASSUME ExchangeAssumption ==
  /\ IsFiniteSet(Users) /\ Scale \in Nat \ {0}
  /\ Deposited \in [Users -> [Tokens -> Nat]]
  /\ Transfers \subseteq [user : Users, token : Tokens, amount : Nat]

VARIABLES contract,         \* [balances, usedNonces]
          held,             \* the tokens the contract holds (IERC20.balanceOf)
          block_timestamp

exchange_vars == <<contract, held, block_timestamp>>

Total(balances, token) == SumFunction([u \in Users |-> balances[u][token]])

ExchangeInit ==
  /\ contract = [balances |-> Deposited, usedNonces |-> {}]
  /\ held = [t \in Tokens |-> Total(Deposited, t)]
  /\ block_timestamp = 0

Deposit(user, token, amount) ==
  /\ held[token] + amount <= MaxHeld
  /\ contract' = [contract EXCEPT !.balances[user][token] = @ + amount]
  /\ held' = [held EXCEPT ![token] = @ + amount]
  /\ UNCHANGED block_timestamp

Withdraw(user, token, amount) ==
  /\ contract.balances[user][token] >= amount
  /\ contract' = [contract EXCEPT !.balances[user][token] = @ - amount]
  /\ held' = [held EXCEPT ![token] = @ - amount]
  /\ UNCHANGED block_timestamp

BlockTime ==
  /\ block_timestamp < MaxTime
  /\ block_timestamp' = block_timestamp + 1
  /\ UNCHANGED <<contract, held>>

NonceKey(order) == [maker |-> order.maker, nonce |-> order.nonce]

NonceKeys(trade) == {NonceKey(trade.maker_order), NonceKey(trade.taker_order)}

\* Anybody may cancel any nonce, any number of times.
CancelNonce(c, key) == [c EXCEPT !.usedNonces = @ \cup {key}]

-----------------------------------------------------------------------------
(* settleBatch                                                             *)

WithinLimit(order, price) ==
  IF order.side = "sell" THEN price >= order.price ELSE price <= order.price

\* The maker's side decides who buys.
Buyer(trade) ==
  IF trade.maker_order.side = "buy" THEN trade.maker_order.maker ELSE trade.taker_order.maker

Seller(trade) ==
  IF trade.maker_order.side = "buy" THEN trade.taker_order.maker ELSE trade.maker_order.maker

Cost(trade) == (trade.quantity * trade.price) \div Scale

Funded(c, trade) ==
  /\ c.balances[Seller(trade)][trade.maker_order.base_token] >= trade.quantity
  /\ c.balances[Buyer(trade)][trade.maker_order.quote_token] >= Cost(trade)

\* Mutant: the nonces are not looked up.
SettlesAgain(c, trade) ==
  /\ block_timestamp <= trade.maker_order.expiry /\ block_timestamp <= trade.taker_order.expiry
  /\ WithinLimit(trade.maker_order, trade.price) /\ WithinLimit(trade.taker_order, trade.price)
  /\ trade.quantity * trade.price < Word
  /\ Funded(c, trade)

\* The checks of _settleTrade.
Settles(c, trade) ==
  /\ block_timestamp <= trade.maker_order.expiry /\ block_timestamp <= trade.taker_order.expiry
  /\ NonceKeys(trade) \cap c.usedNonces = {}
  /\ WithinLimit(trade.maker_order, trade.price) /\ WithinLimit(trade.taker_order, trade.price)
  /\ trade.quantity * trade.price < Word
  /\ Funded(c, trade)

Moved(balances, user, token, amount) == [balances EXCEPT ![user][token] = @ + amount]

\* Mutant: the buyer pays at its own limit.
PaidAtLimit(balances, trade) ==
  LET baseToken  == trade.maker_order.base_token
      quoteToken == trade.maker_order.quote_token
      price      == trade.taker_order.price
      sold == Moved(Moved(balances, Seller(trade), baseToken, -trade.quantity),
                    Seller(trade), quoteToken, Cost(trade))
  IN  Moved(Moved(sold, Buyer(trade), quoteToken, -((trade.quantity * price) \div Scale)),
            Buyer(trade), baseToken, trade.quantity)

\* One balance after the other: buyer and seller may be the same.
Paid(balances, trade) ==
  LET baseToken  == trade.maker_order.base_token
      quoteToken == trade.maker_order.quote_token
      sold == Moved(Moved(balances, Seller(trade), baseToken, -trade.quantity),
                    Seller(trade), quoteToken, Cost(trade))
  IN  Moved(Moved(sold, Buyer(trade), quoteToken, -Cost(trade)),
            Buyer(trade), baseToken, trade.quantity)

Settled(c, trade) ==
  [balances |-> Paid(c.balances, trade), usedNonces |-> c.usedNonces \cup NonceKeys(trade)]

Reverted == [reverted |-> TRUE]

\* A trade that reverts takes the whole batch with it.
AfterTrade(c, trade) ==
  IF c # Reverted /\ Settles(c, trade) THEN Settled(c, trade) ELSE Reverted

\* Every trade in turn.
SettleBatch(c, trades) ==
  LET after[n \in 0..Len(trades)] == IF n = 0 THEN c ELSE AfterTrade(after[n - 1], trades[n])
  IN  after[Len(trades)]
=============================================================================
