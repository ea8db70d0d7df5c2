----------------------------- MODULE ExchangeProofs -----------------------------
(***************************************************************************)
(* The contract, for every set of users, tokens and orders: what a batch   *)
(* does that settles. Its nonces are new and none of them occurs twice,    *)
(* all of them are used afterwards, and no token is created or lost.       *)
(***************************************************************************)
EXTENDS Exchange, FiniteSums, SequenceTheorems

Balances == [Users -> [Tokens -> Nat]]

ContractTyped(c) ==
  /\ c = [balances |-> c.balances, usedNonces |-> c.usedNonces]
  /\ c.balances \in Balances

\* A trade between users, in tokens of the contract.
SoundTrade(trade) ==
  /\ trade.quantity \in Nat /\ trade.price \in Nat
  /\ trade.maker_order.maker \in Users /\ trade.taker_order.maker \in Users
  /\ trade.maker_order.base_token \in Tokens /\ trade.maker_order.quote_token \in Tokens

-----------------------------------------------------------------------------
(* Balances and their totals.                                              *)

Accounts(b) == b \in [Users -> [Tokens -> Int]]

\* From b to c, one balance has changed, and the total of its token with it.
Moves(b, c, u, t, amount) ==
  /\ Accounts(c)
  /\ \A v \in Users, s \in Tokens :
       c[v][s] = IF v = u /\ s = t THEN b[v][s] + amount ELSE b[v][s]
  /\ \A s \in Tokens :
       /\ Total(b, s) \in Int
       /\ Total(c, s) = IF s = t THEN Total(b, s) + amount ELSE Total(b, s)

\* That is what moving an amount to one account does.
LEMMA TotalAfterMove ==
  ASSUME NEW b, Accounts(b), NEW u \in Users, NEW t \in Tokens,
         NEW amount \in Int, NEW c, c = Moved(b, u, t, amount)
  PROVE  Accounts(c) /\ Moves(b, c, u, t, amount)
<1> USE DEF Accounts
<1>0. b[u][t] + amount \in Int
  OBVIOUS
<1>1. c \in [Users -> [Tokens -> Int]]
  BY <1>0 DEF Moved
<1>2. \A v \in Users, s \in Tokens : c[v][s] = IF v = u /\ s = t THEN b[v][s] + amount ELSE b[v][s]
  BY DEF Moved
<1>3. ASSUME NEW s \in Tokens
      PROVE  /\ Total(b, s) \in Int
             /\ Total(c, s) = IF s = t THEN Total(b, s) + amount ELSE Total(b, s)
  <2>1. PICK f, g, others : /\ f = [v \in Users |-> b[v][s]] /\ g = [v \in Users |-> c[v][s]]
                            /\ others = Users \ {u}
    OBVIOUS
  <2>2. Total(b, s) = SumFunctionOnSet(f, Users) /\ Total(c, s) = SumFunctionOnSet(g, Users)
    BY <2>1 DEF Total, SumFunction
  <2>3. IsFiniteSet(Users) /\ IsFiniteSet(others)
    BY <2>1, ExchangeAssumption, FS_RemoveElement
  <2>4. \A v \in Users : f[v] = b[v][s] /\ g[v] = c[v][s] /\ b[v][s] \in Int /\ c[v][s] \in Int
    BY <1>1, <2>1
  <2>5. \A v \in others : f[v] \in Int /\ f[v] = g[v]
    BY <1>2, <2>1, <2>4
  <2>6. (\A v \in Users : f[v] \in Int) /\ (\A v \in Users : g[v] \in Int)
    BY <2>4
  <2>7. SumFunctionOnSet(f, Users) = f[u] + SumFunctionOnSet(f, others)
    BY <2>1, <2>3, <2>6, SumSplits
  <2>8. SumFunctionOnSet(g, Users) = g[u] + SumFunctionOnSet(g, others)
    BY <2>1, <2>3, <2>6, SumSplits
  <2>9. SumFunctionOnSet(f, others) = SumFunctionOnSet(g, others)
    BY <2>3, <2>5, SumSame
  <2>10. SumFunctionOnSet(f, others) \in Int
    BY <2>3, <2>5, SumType
  <2>11. f[u] \in Int /\ g[u] = IF s = t THEN f[u] + amount ELSE f[u]
    BY <1>2, <2>4
  <2> QED BY <2>2, <2>7, <2>8, <2>9, <2>10, <2>11
<1> QED BY <1>1, <1>2, <1>3 DEF Moves

\* What a trade pays is there, and leaves every total as it was.
LEMMA PaidKeepsTotals ==
  ASSUME NEW c, ContractTyped(c), NEW trade, SoundTrade(trade), Funded(c, trade)
  PROVE  /\ Paid(c.balances, trade) \in Balances
         /\ \A t \in Tokens : Total(Paid(c.balances, trade), t) = Total(c.balances, t)
<1>1. PICK b, seller, buyer, base, quote, quantity, cost :
        /\ b = c.balances /\ seller = Seller(trade) /\ buyer = Buyer(trade)
        /\ base = trade.maker_order.base_token /\ quote = trade.maker_order.quote_token
        /\ quantity = trade.quantity /\ cost = Cost(trade)
  OBVIOUS
<1>2. /\ b \in Balances /\ seller \in Users /\ buyer \in Users
      /\ base \in Tokens /\ quote \in Tokens /\ quantity \in Nat
  BY <1>1 DEF ContractTyped, SoundTrade, Seller, Buyer
<1>3. cost \in Nat
  <2>1. PICK value : value = trade.quantity * trade.price
    OBVIOUS
  <2>2. value \in Nat
    BY <2>1 DEF SoundTrade
  <2>3. Scale \in Nat \ {0}
    BY ExchangeAssumption
  <2>4. value \div Scale \in Nat
    BY <2>2, <2>3
  <2> QED BY <1>1, <2>1, <2>4 DEF Cost
<1>4. b[seller][base] >= quantity /\ b[buyer][quote] >= cost
  BY <1>1 DEF Funded
<1>5. \A u \in Users, t \in Tokens : b[u][t] \in Nat
  BY <1>2 DEF Balances
<1>6. Accounts(b) /\ -quantity \in Int /\ -cost \in Int
  BY <1>2, <1>3 DEF Balances, Accounts
<1>7. PICK b1 : b1 = Moved(b, seller, base, -quantity)
  OBVIOUS
<1>8. Moves(b, b1, seller, base, -quantity) /\ Accounts(b1)
  BY <1>2, <1>6, <1>7, TotalAfterMove
<1>9. PICK b2 : b2 = Moved(b1, seller, quote, cost)
  OBVIOUS
<1>10. Moves(b1, b2, seller, quote, cost) /\ Accounts(b2)
  BY <1>2, <1>3, <1>8, <1>9, TotalAfterMove
<1>11. PICK b3 : b3 = Moved(b2, buyer, quote, -cost)
  OBVIOUS
<1>12. Moves(b2, b3, buyer, quote, -cost) /\ Accounts(b3)
  BY <1>2, <1>6, <1>10, <1>11, TotalAfterMove
<1>13. PICK b4 : b4 = Moved(b3, buyer, base, quantity)
  OBVIOUS
<1>14. Moves(b3, b4, buyer, base, quantity) /\ Accounts(b4)
  BY <1>2, <1>12, <1>13, TotalAfterMove
<1>15. Paid(c.balances, trade) = b4
  BY <1>1, <1>7, <1>9, <1>11, <1>13 DEF Paid
<1>16. ASSUME NEW t \in Tokens
       PROVE  Total(b4, t) = Total(b, t)
  <2>1. PICK n : n = Total(b, t)
    OBVIOUS
  <2>2. n \in Int
    BY <1>8, <2>1 DEF Moves
  <2>3. Total(b1, t) = IF t = base THEN n + (-quantity) ELSE n
    BY <1>8, <2>1 DEF Moves
  <2>4. Total(b2, t) = IF t = quote THEN Total(b1, t) + cost ELSE Total(b1, t)
    BY <1>10 DEF Moves
  <2>5. Total(b3, t) = IF t = quote THEN Total(b2, t) + (-cost) ELSE Total(b2, t)
    BY <1>12 DEF Moves
  <2>6. Total(b4, t) = IF t = base THEN Total(b3, t) + quantity ELSE Total(b3, t)
    BY <1>14 DEF Moves
  <2> QED BY <1>2, <1>3, <2>1, <2>2, <2>3, <2>4, <2>5, <2>6
<1>17. ASSUME NEW u \in Users, NEW t \in Tokens
       PROVE  b4[u][t] \in Nat
  <2>1. PICK n : n = b[u][t]
    OBVIOUS
  <2>2. /\ n \in Nat /\ (u = seller /\ t = base => n >= quantity)
        /\ (u = buyer /\ t = quote => n >= cost)
    BY <1>4, <1>5, <2>1
  <2>3. b1[u][t] = IF u = seller /\ t = base THEN n + (-quantity) ELSE n
    BY <1>8, <2>1 DEF Moves
  <2>4. b2[u][t] = IF u = seller /\ t = quote THEN b1[u][t] + cost ELSE b1[u][t]
    BY <1>10 DEF Moves
  <2>5. b3[u][t] = IF u = buyer /\ t = quote THEN b2[u][t] + (-cost) ELSE b2[u][t]
    BY <1>12 DEF Moves
  <2>6. b4[u][t] = IF u = buyer /\ t = base THEN b3[u][t] + quantity ELSE b3[u][t]
    BY <1>14 DEF Moves
  <2> QED BY <1>2, <1>3, <2>2, <2>3, <2>4, <2>5, <2>6
<1>18. b4 \in Balances
  BY <1>14, <1>17 DEF Balances, Accounts
<1> QED BY <1>1, <1>15, <1>16, <1>18

-----------------------------------------------------------------------------
(* Batches.                                                                *)

\* What the contract is after each of the first n trades.
RunsTo(run, c, trades, n) ==
  run = [k \in 0..n |-> IF k = 0 THEN c ELSE AfterTrade(run[k - 1], trades[k])]

\* The recursive function of settleBatch exists: it can be extended trade by trade.
LEMMA RunExists ==
  ASSUME NEW c, NEW trades, NEW N \in Nat
  PROVE  \E run : RunsTo(run, c, trades, N)
<1> DEFINE Reached == {n \in 0..N : \E run : RunsTo(run, c, trades, n)}
<1>1. 0 \in Reached
  <2>1. PICK run : run = [k \in 0..0 |-> c]
    OBVIOUS
  <2>2. RunsTo(run, c, trades, 0)
    BY <2>1 DEF RunsTo
  <2> QED BY <2>2
<1>2. ASSUME NEW n \in 0..(N - 1), n \in Reached
      PROVE  n + 1 \in Reached
  <2>1. PICK h : RunsTo(h, c, trades, n)
    BY <1>2
  <2>2. PICK run : run = [k \in 0..(n + 1) |-> IF k = 0 THEN c ELSE AfterTrade(h[k - 1], trades[k])]
    OBVIOUS
  <2>3. \A k \in 0..n : run[k] = h[k]
    BY <2>1, <2>2 DEF RunsTo
  <2>4. \A k \in 0..(n + 1) : k # 0 => run[k - 1] = h[k - 1]
    BY <2>3
  <2>5. RunsTo(run, c, trades, n + 1)
    BY <2>2, <2>4 DEF RunsTo
  <2> QED BY <2>5
<1>3. N \in 0..N
  OBVIOUS
<1> HIDE DEF Reached
<1>4. N \in Reached
  BY <1>1, <1>2, <1>3, CountingUp
<1> QED BY <1>4 DEF Reached

\* settleBatch takes one trade after the other.
LEMMA BatchRuns ==
  ASSUME NEW c, NEW trades, Len(trades) \in Nat
  PROVE  \E run : /\ run[0] = c /\ SettleBatch(c, trades) = run[Len(trades)]
                  /\ \A k \in 1..Len(trades) : run[k] = AfterTrade(run[k - 1], trades[k])
<1>1. PICK run : run = CHOOSE r : RunsTo(r, c, trades, Len(trades))
  OBVIOUS
<1>2. SettleBatch(c, trades) = run[Len(trades)]
  BY <1>1 DEF SettleBatch, RunsTo
<1>3. RunsTo(run, c, trades, Len(trades))
  BY <1>1, RunExists
<1> QED BY <1>2, <1>3 DEF RunsTo

\* One trade that settles: its nonces were new and are used, and the totals stay.
LEMMA TradeSettles ==
  ASSUME NEW c, ContractTyped(c), NEW trade, SoundTrade(trade), NEW d,
         d = AfterTrade(c, trade), d # Reverted
  PROVE  /\ ContractTyped(d)
         /\ d.usedNonces = c.usedNonces \cup NonceKeys(trade)
         /\ NonceKeys(trade) \cap c.usedNonces = {}
         /\ \A t \in Tokens : Total(d.balances, t) = Total(c.balances, t)
<1>1. Settles(c, trade) /\ d = Settled(c, trade)
  BY DEF AfterTrade
<1>2. Funded(c, trade) /\ NonceKeys(trade) \cap c.usedNonces = {}
  BY <1>1 DEF Settles
<1>3. d.balances = Paid(c.balances, trade) /\ d.usedNonces = c.usedNonces \cup NonceKeys(trade)
      /\ d = [balances |-> d.balances, usedNonces |-> d.usedNonces]
  BY <1>1 DEF Settled
<1>4. /\ Paid(c.balances, trade) \in Balances
      /\ \A t \in Tokens : Total(Paid(c.balances, trade), t) = Total(c.balances, t)
  BY <1>2, PaidKeepsTotals
<1> QED BY <1>2, <1>3, <1>4 DEF ContractTyped

\* The contract after the first n trades of a batch, none of which reverted.
SoFar(c, d, trades, n) ==
  /\ ContractTyped(d) /\ c.usedNonces \subseteq d.usedNonces
  /\ \A t \in Tokens : Total(d.balances, t) = Total(c.balances, t)
  /\ \A i \in 1..n : /\ NonceKeys(trades[i]) \subseteq d.usedNonces
                     /\ NonceKeys(trades[i]) \cap c.usedNonces = {}
  /\ \A i, j \in 1..n : i < j => NonceKeys(trades[i]) \cap NonceKeys(trades[j]) = {}

\* A batch that settles: no nonce of it was used before or twice, all are used
\* now, and no total has changed.
LEMMA BatchSettles ==
  ASSUME NEW c, ContractTyped(c), NEW trades, Len(trades) \in Nat,
         \A i \in 1..Len(trades) : SoundTrade(trades[i]),
         SettleBatch(c, trades) # Reverted
  PROVE  SoFar(c, SettleBatch(c, trades), trades, Len(trades))
<1>1. PICK N : N = Len(trades)
  OBVIOUS
<1>2. PICK run : /\ run[0] = c /\ SettleBatch(c, trades) = run[N]
                 /\ \A k \in 1..N : run[k] = AfterTrade(run[k - 1], trades[k])
  BY <1>1, BatchRuns
<1> DEFINE Good == {n \in 0..N : run[n] # Reverted => SoFar(c, run[n], trades, n)}
<1>3. 0 \in Good
  BY <1>1, <1>2 DEF SoFar
<1>4. ASSUME NEW n \in 0..(N - 1), n \in Good
      PROVE  n + 1 \in Good
  <2>0. n + 1 \in 0..N /\ n + 1 \in 1..N /\ (n + 1) - 1 = n
    BY <1>1
  <2> SUFFICES ASSUME run[n + 1] # Reverted
               PROVE  SoFar(c, run[n + 1], trades, n + 1)
    BY <2>0
  <2>1. PICK b, d, trade : b = run[n] /\ d = run[n + 1] /\ trade = trades[n + 1]
    OBVIOUS
  <2>2. d = AfterTrade(b, trade) /\ d # Reverted
    BY <1>2, <2>0, <2>1
  <2>3. SoFar(c, b, trades, n)
    <3>1. b # Reverted
      BY <2>2 DEF AfterTrade
    <3> QED BY <1>4, <2>1, <3>1
  <2>4. SoundTrade(trade)
    BY <1>1, <2>0, <2>1
  <2>5. /\ ContractTyped(d) /\ d.usedNonces = b.usedNonces \cup NonceKeys(trade)
        /\ NonceKeys(trade) \cap b.usedNonces = {}
        /\ \A t \in Tokens : Total(d.balances, t) = Total(b.balances, t)
    BY <2>2, <2>3, <2>4, TradeSettles DEF SoFar
  <2>6. c.usedNonces \subseteq d.usedNonces /\ \A t \in Tokens : Total(d.balances, t) = Total(c.balances, t)
    BY <2>3, <2>5 DEF SoFar
  <2>7. \A i \in 1..(n + 1) : i \in 1..n \/ i = n + 1
    OBVIOUS
  <2>8. ASSUME NEW i \in 1..(n + 1)
        PROVE  NonceKeys(trades[i]) \subseteq d.usedNonces /\ NonceKeys(trades[i]) \cap c.usedNonces = {}
    <3>1. CASE i \in 1..n
      BY <2>3, <2>5, <3>1 DEF SoFar
    <3>2. CASE i = n + 1
      BY <2>1, <2>3, <2>5, <3>2 DEF SoFar
    <3> QED BY <2>7, <3>1, <3>2
  <2>9. ASSUME NEW i \in 1..(n + 1), NEW j \in 1..(n + 1), i < j
        PROVE  NonceKeys(trades[i]) \cap NonceKeys(trades[j]) = {}
    <3>1. i \in 1..n
      BY <2>9
    <3>2. CASE j \in 1..n
      BY <2>3, <2>9, <3>1, <3>2 DEF SoFar
    <3>3. CASE j = n + 1
      <4>1. NonceKeys(trades[i]) \subseteq b.usedNonces
        BY <2>3, <3>1 DEF SoFar
      <4> QED BY <2>1, <2>5, <3>3, <4>1
    <3> QED BY <2>7, <3>2, <3>3
  <2> QED BY <2>1, <2>5, <2>6, <2>8, <2>9 DEF SoFar
<1>5. N \in Nat /\ N \in 0..N
  BY <1>1
<1> HIDE DEF Good
<1>6. N \in Good
  BY <1>3, <1>4, <1>5, CountingUp
<1> QED BY <1>1, <1>2, <1>6 DEF Good
=============================================================================
