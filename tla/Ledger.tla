-------------------------------- MODULE Ledger --------------------------------
(***************************************************************************)
(* The balances of crates/gateway/src/ledger.rs: for every user and token  *)
(* what is available and what is reserved for open orders. The amounts are *)
(* U256 words; its operators wrap around silently, here modulo Word.       *)
(***************************************************************************)
EXTENDS Integers, FiniteSetsExt

CONSTANTS Users, Tokens,
          Word       \* the number of values of an amount, 2^256 in the code

ASSUME WordAssumption == Word \in Nat \ {0}

Amounts == 0..(Word - 1)

Balances == [available : Amounts, reserved : Amounts]

Ledgers == [Users -> [Tokens -> Balances]]

Add(x, y) == (x + y) % Word
Sub(x, y) == (x - y) % Word
Mul(x, y) == (x * y) % Word

Credit(ledger, user, token, amount) ==
  [ledger EXCEPT ![user][token].available = Add(@, amount)]

\* reserve fails, and changes nothing, when too little is available.
CanReserve(ledger, user, token, amount) == ledger[user][token].available >= amount

Reserve(ledger, user, token, amount) ==
  [ledger EXCEPT ![user][token].available = Sub(@, amount),
                 ![user][token].reserved  = Add(@, amount)]

\* Neither release nor settle_fill looks at how much is reserved.
Spend(ledger, user, token, amount) ==
  [ledger EXCEPT ![user][token].reserved = Sub(@, amount)]

Release(ledger, user, token, amount) ==
  Credit(Spend(ledger, user, token, amount), user, token, amount)

\* Mutant: the seller's base is taken from what is available.
SettleFromAvailable(ledger, seller, buyer, base_token, quote_token, base_amount, quote_amount) ==
  [ledger EXCEPT ![seller][base_token].available  = Sub(@, base_amount),
                 ![seller][quote_token].available = Add(@, quote_amount),
                 ![buyer][quote_token].reserved   = Sub(@, quote_amount),
                 ![buyer][base_token].available   = Add(@, base_amount)]

\* Both sides pay from what was reserved and receive as available, one balance
\* after the other: seller and buyer may be the same.
SettleFill(ledger, seller, buyer, base_token, quote_token, base_amount, quote_amount) ==
  LET sold == Credit(Spend(ledger, seller, base_token, base_amount),
                     seller, quote_token, quote_amount)
  IN  Credit(Spend(sold, buyer, quote_token, quote_amount), buyer, base_token, base_amount)

\* What all users together hold of a token, as a number that does not wrap.
Supply(ledger, token) ==
  SumFunction([u \in Users |-> ledger[u][token].available + ledger[u][token].reserved])
=============================================================================
