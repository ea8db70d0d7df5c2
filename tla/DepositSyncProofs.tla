--------------------------- MODULE DepositSyncProofs ---------------------------
(***************************************************************************)
(* Theorems about the deposit service: while calls fail, streams end and   *)
(* the process dies, every deposit is credited once, the stored rows and   *)
(* the cursor belong together, and the cursor never goes back. They hold   *)
(* for every chain, chunk size and number of users, tokens and faults.     *)
(*                                                                         *)
(* The invariant has three parts. Typed: the types. Ordered: the cursor is *)
(* the last write of a chunk, and events come in the order of blocks.      *)
(* Exactly: what the ledger, the rows and the subscription add up to.      *)
(***************************************************************************)
EXTENDS DepositSync, FiniteSums, SequenceTheorems

-----------------------------------------------------------------------------
(* What events deposit: the recursion, and what it computes.               *)

\* An event of the subscription or of a range of blocks.
Events == [deposit : Deposits, block_number : Nat]

\* g adds up the first n events, as the recursion of the definition does.
Adds(g, events, b, u, t, n) ==
  g = [i \in 0..n |-> IF i = 0 THEN 0 ELSE g[i - 1] + Counted(events[i], b, u, t)]

\* The recursive function that the definition chooses exists, up to any n, and
\* so Deposited is its last value.
LEMMA DepositedUnfold ==
  ASSUME NEW events, Len(events) \in Nat, NEW b, NEW u, NEW t
  PROVE  \E g : /\ Adds(g, events, b, u, t, Len(events))
                /\ Deposited(events, b, u, t) = g[Len(events)]
<1> DEFINE N == Len(events)
           Reached == {n \in 0..N : \E g : Adds(g, events, b, u, t, n)}
<1>1. 0 \in Reached
  <2>1. Adds([i \in 0..0 |-> 0], events, b, u, t, 0)
    BY DEF Adds
  <2> QED BY <2>1
<1>2. ASSUME NEW n \in 0..(N - 1), n \in Reached PROVE n + 1 \in Reached
  <2>1. PICK g : Adds(g, events, b, u, t, n)
    BY <1>2
  <2>2. PICK last : last = g[n] + Counted(events[n + 1], b, u, t)
    OBVIOUS
  <2> DEFINE h == [i \in 0..(n + 1) |-> IF i <= n THEN g[i] ELSE last]
  <2>3. \A i \in 0..n : g[i] = IF i = 0 THEN 0 ELSE g[i - 1] + Counted(events[i], b, u, t)
    BY <2>1 DEF Adds
  <2>4. /\ \A i \in 0..n : h[i] = g[i]
        /\ h[n + 1] = last
    OBVIOUS
  <2>5. \A i \in 0..(n + 1) : h[i] = IF i = 0 THEN 0 ELSE h[i - 1] + Counted(events[i], b, u, t)
    <3> SUFFICES ASSUME NEW i \in 0..(n + 1)
                 PROVE  h[i] = IF i = 0 THEN 0 ELSE h[i - 1] + Counted(events[i], b, u, t)
      OBVIOUS
    <3>1. CASE i = 0
      BY <2>3, <2>4, <3>1
    <3>2. CASE i \in 1..n
      <4>1. i - 1 \in 0..n /\ i \in 0..n /\ i # 0
        BY <3>2
      <4> HIDE DEF h
      <4> QED BY <2>3, <2>4, <4>1
    <3>3. CASE i = n + 1
      <4>1. i - 1 = n /\ n \in 0..n /\ i # 0
        BY <3>3
      <4> HIDE DEF h
      <4> QED BY <2>2, <2>4, <3>3, <4>1
    <3> QED BY <3>1, <3>2, <3>3
  <2>6. h = [i \in 0..(n + 1) |-> h[i]]
    OBVIOUS
  <2>7. Adds(h, events, b, u, t, n + 1)
    <3> HIDE DEF h
    <3> QED BY <2>5, <2>6 DEF Adds
  <2> QED BY <2>7
<1>3. PICK g : Adds(g, events, b, u, t, N)
  <2>1. \A n \in 0..N : n \in Reached
    <3> HIDE DEF Reached, N
    <3> QED BY <1>1, <1>2, CountingUp, N \in Nat DEF N
  <2>2. N \in 0..N
    OBVIOUS
  <2> QED BY <2>1, <2>2
<1> DEFINE chosen == CHOOSE f : f = [i \in 0..Len(events) |->
             IF i = 0 THEN 0 ELSE f[i - 1] + Counted(events[i], b, u, t)]
<1>4. Adds(chosen, events, b, u, t, N)
  BY <1>3 DEF Adds
<1>5. Deposited(events, b, u, t) = chosen[N]
  BY DEF Deposited
<1> QED BY <1>4, <1>5

\* Such a sum starts with nothing, and each event adds its deposit.
LEMMA AddsUp ==
  ASSUME NEW g, NEW events, NEW b, NEW u, NEW t, NEW n \in Nat, Adds(g, events, b, u, t, n)
  PROVE  /\ g[0] = 0
         /\ \A i \in 0..(n - 1) : g[i + 1] = g[i] + Counted(events[i + 1], b, u, t)
<1>1. 0 \in 0..n
  OBVIOUS
<1>2. ASSUME NEW i \in 0..(n - 1) PROVE g[i + 1] = g[i] + Counted(events[i + 1], b, u, t)
  <2>1. i + 1 \in 0..n /\ i + 1 # 0 /\ (i + 1) - 1 = i
    OBVIOUS
  <2> QED BY <2>1 DEF Adds
<1> QED BY <1>1, <1>2 DEF Adds

\* Events that count the same deposit the same.
LEMMA DepositedSame ==
  ASSUME NEW d, NEW e, NEW n \in Nat, Len(d) = n, Len(e) = n, NEW b, NEW c, NEW u, NEW t,
         \A i \in 1..n : Counted(d[i], b, u, t) = Counted(e[i], c, u, t)
  PROVE  Deposited(d, b, u, t) = Deposited(e, c, u, t)
<1>1. PICK g : Adds(g, d, b, u, t, n) /\ Deposited(d, b, u, t) = g[n]
  BY DepositedUnfold
<1>2. PICK h : Adds(h, e, c, u, t, n) /\ Deposited(e, c, u, t) = h[n]
  BY DepositedUnfold
<1>3. /\ g[0] = h[0]
      /\ \A i \in 0..(n - 1) : g[i + 1] = g[i] + Counted(d[i + 1], b, u, t)
      /\ \A i \in 0..(n - 1) : h[i + 1] = h[i] + Counted(e[i + 1], c, u, t)
  BY <1>1, <1>2, AddsUp
<1> DEFINE Same == {i \in 0..n : g[i] = h[i]}
<1>4. 0 \in Same
  BY <1>3
<1>5. ASSUME NEW i \in 0..(n - 1), i \in Same PROVE i + 1 \in Same
  <2>1. i + 1 \in 0..n /\ i + 1 \in 1..n
    OBVIOUS
  <2> QED BY <1>3, <1>5, <2>1
<1>6. n \in Same
  <2> HIDE DEF Same
  <2>1. \A i \in 0..n : i \in Same
    BY <1>4, <1>5, CountingUp
  <2> QED BY <2>1
<1> QED BY <1>1, <1>2, <1>6

\* What is deposited is a number, however many events there are.
LEMMA CountedTyped == \A e \in Events : \A b, u, t : Counted(e, b, u, t) \in Nat
BY DEF Counted, Events, Deposits, Amounts

\* What events deposit is a number.
LEMMA DepositedTyped ==
  ASSUME NEW d \in Seq(Events), NEW b, NEW u, NEW t
  PROVE  Deposited(d, b, u, t) \in Nat
<1>1. PICK n \in Nat : n = Len(d)
  BY LenProperties
<1>2. PICK g : Adds(g, d, b, u, t, n) /\ Deposited(d, b, u, t) = g[n]
  BY <1>1, DepositedUnfold
<1>3. /\ g[0] = 0
      /\ \A i \in 0..(n - 1) : g[i + 1] = g[i] + Counted(d[i + 1], b, u, t)
  BY <1>2, AddsUp
<1>4. \A i \in 1..n : Counted(d[i], b, u, t) \in Nat
  BY <1>1, ElementOfSeq, CountedTyped
<1> DEFINE Good == {i \in 0..n : g[i] \in Nat}
<1>5. 0 \in Good
  BY <1>3
<1>6. ASSUME NEW i \in 0..(n - 1), i \in Good PROVE i + 1 \in Good
  <2>1. i + 1 \in 0..n /\ i + 1 \in 1..n
    OBVIOUS
  <2> QED BY <1>3, <1>4, <1>6, <2>1
<1>7. n \in Good
  <2> HIDE DEF Good
  <2>1. \A i \in 0..n : i \in Good
    BY <1>5, <1>6, CountingUp
  <2> QED BY <2>1
<1> QED BY <1>2, <1>7

\* Events that count nothing deposit nothing.
LEMMA NothingDeposited ==
  ASSUME NEW d \in Seq(Events), NEW b, NEW u, NEW t,
         \A i \in DOMAIN d : Counted(d[i], b, u, t) = 0
  PROVE  Deposited(d, b, u, t) = 0
<1>1. PICK n \in Nat : n = Len(d) /\ DOMAIN d = 1..n
  BY LenProperties
<1>2. PICK g : Adds(g, d, b, u, t, n) /\ Deposited(d, b, u, t) = g[n]
  BY <1>1, DepositedUnfold
<1>3. /\ g[0] = 0
      /\ \A i \in 0..(n - 1) : g[i + 1] = g[i] + Counted(d[i + 1], b, u, t)
  BY <1>2, AddsUp
<1> DEFINE Good == {i \in 0..n : g[i] = 0}
<1>5. 0 \in Good
  BY <1>3
<1>6. ASSUME NEW i \in 0..(n - 1), i \in Good PROVE i + 1 \in Good
  <2>1. i + 1 \in 0..n /\ i + 1 \in 1..n
    OBVIOUS
  <2> QED BY <1>1, <1>3, <1>6, <2>1
<1>7. n \in Good
  <2> HIDE DEF Good
  <2>1. \A i \in 0..n : i \in Good
    BY <1>5, <1>6, CountingUp
  <2> QED BY <2>1
<1> QED BY <1>2, <1>7

\* A single event deposits what it counts.
LEMMA DepositedOne ==
  ASSUME NEW x \in Events, NEW b, NEW u, NEW t
  PROVE  Deposited(<<x>>, b, u, t) = Counted(x, b, u, t)
<1>1. Len(<<x>>) = 1 /\ <<x>>[1] = x
  OBVIOUS
<1>2. PICK g : Adds(g, <<x>>, b, u, t, 1) /\ Deposited(<<x>>, b, u, t) = g[1]
  BY <1>1, DepositedUnfold
<1>3. g[0] = 0 /\ g[0 + 1] = g[0] + Counted(<<x>>[0 + 1], b, u, t)
  <2>1. 0 \in 0..(1 - 1) /\ 1 \in Nat
    OBVIOUS
  <2> QED BY <1>2, <2>1, AddsUp
<1>4. Counted(x, b, u, t) \in Nat /\ 0 + 1 = 1
  BY CountedTyped
<1> QED BY <1>1, <1>2, <1>3, <1>4

\* Two lots of events deposit what each of them deposits.
LEMMA DepositedConcat ==
  ASSUME NEW d \in Seq(Events), NEW e \in Seq(Events), NEW b, NEW u, NEW t
  PROVE  Deposited(d \o e, b, u, t) = Deposited(d, b, u, t) + Deposited(e, b, u, t)
<1>1. PICK n \in Nat : n = Len(d)
  BY LenProperties
<1>2. PICK k \in Nat : k = Len(e)
  BY LenProperties
<1>3. PICK both \in Seq(Events) :
        /\ both = d \o e /\ Len(both) = n + k
        /\ \A i \in 1..(n + k) : both[i] = IF i <= n THEN d[i] ELSE e[i - n]
  <2>1. /\ d \o e \in Seq(Events) /\ Len(d \o e) = Len(d) + Len(e)
        /\ \A i \in 1..(Len(d) + Len(e)) : (d \o e)[i] = IF i <= Len(d) THEN d[i] ELSE e[i - Len(d)]
    BY ConcatProperties
  <2>2. PICK both \in Seq(Events) : both = d \o e
    BY <2>1
  <2> QED BY <1>1, <1>2, <2>1, <2>2
<1>4. PICK g : Adds(g, d, b, u, t, n) /\ Deposited(d, b, u, t) = g[n]
  BY <1>1, DepositedUnfold
<1>5. PICK f : Adds(f, e, b, u, t, k) /\ Deposited(e, b, u, t) = f[k]
  BY <1>2, DepositedUnfold
<1>6. PICK h : Adds(h, both, b, u, t, n + k) /\ Deposited(both, b, u, t) = h[n + k]
  <2>1. Len(both) \in Nat
    BY <1>3
  <2>2. PICK h : Adds(h, both, b, u, t, Len(both)) /\ Deposited(both, b, u, t) = h[Len(both)]
    BY <2>1, DepositedUnfold
  <2> QED BY <1>3, <2>2
<1>7. /\ g[0] = 0 /\ f[0] = 0 /\ h[0] = 0
      /\ \A i \in 0..(n - 1) : g[i + 1] = g[i] + Counted(d[i + 1], b, u, t)
      /\ \A i \in 0..(k - 1) : f[i + 1] = f[i] + Counted(e[i + 1], b, u, t)
      /\ \A i \in 0..(n + k - 1) : h[i + 1] = h[i] + Counted(both[i + 1], b, u, t)
  <2>1. n + k \in Nat
    OBVIOUS
  <2> QED BY <1>4, <1>5, <1>6, <2>1, AddsUp
<1> DEFINE Same == {i \in 0..n : g[i] = h[i]}
<1>8. 0 \in Same
  BY <1>7
<1>9. ASSUME NEW i \in 0..(n - 1), i \in Same PROVE i + 1 \in Same
  <2>1. i + 1 \in 0..n /\ i \in 0..(n + k - 1) /\ i + 1 \in 1..(n + k) /\ i + 1 <= n
    OBVIOUS
  <2> QED BY <1>3, <1>7, <1>9, <2>1
<1>10. g[n] = h[n]
  <2> HIDE DEF Same
  <2>1. \A i \in 0..n : i \in Same
    BY <1>8, <1>9, CountingUp
  <2>2. n \in Same
    BY <2>1
  <2> QED BY <2>2 DEF Same
<1>11. h[n] \in Nat /\ \A i \in 1..k : Counted(e[i], b, u, t) \in Nat
  BY <1>2, <1>4, <1>10, DepositedTyped, ElementOfSeq, CountedTyped
<1> DEFINE Sum == {i \in 0..k : h[n + i] = h[n] + f[i] /\ f[i] \in Nat}
<1>12. 0 \in Sum
  <2>1. n + 0 = n /\ h[n] + 0 = h[n] /\ 0 \in 0..k
    BY <1>11
  <2> QED BY <1>7, <2>1
<1>13. ASSUME NEW i \in 0..(k - 1), i \in Sum PROVE i + 1 \in Sum
  <2>1. /\ i + 1 \in 0..k /\ i + 1 \in 1..k /\ n + i \in 0..(n + k - 1) /\ (n + i) + 1 \in 1..(n + k)
        /\ ~((n + i) + 1 <= n) /\ ((n + i) + 1) - n = i + 1 /\ (n + i) + 1 = n + (i + 1)
    OBVIOUS
  <2>2. h[(n + i) + 1] = h[n + i] + Counted(e[i + 1], b, u, t)
    BY <1>3, <1>7, <2>1
  <2>3. f[i + 1] = f[i] + Counted(e[i + 1], b, u, t)
    BY <1>7
  <2>4. h[n + i] = h[n] + f[i] /\ f[i] \in Nat
    BY <1>13
  <2>5. PICK x, y, z \in Nat : x = h[n] /\ y = f[i] /\ z = Counted(e[i + 1], b, u, t)
    BY <1>11, <2>1, <2>4
  <2>6. f[i + 1] = y + z /\ y + z \in Nat
    BY <2>3, <2>5
  <2>7. h[n + (i + 1)] = x + (y + z)
    <3>1. h[(n + i) + 1] = (x + y) + z
      BY <2>2, <2>4, <2>5
    <3>2. (x + y) + z = x + (y + z) /\ n + (i + 1) = (n + i) + 1
      OBVIOUS
    <3> QED BY <3>1, <3>2
  <2>8. h[n + (i + 1)] = h[n] + f[i + 1]
    BY <2>5, <2>6, <2>7
  <2>9. f[i + 1] \in Nat
    BY <2>6
  <2> QED BY <2>1, <2>8, <2>9
<1>14. k \in Sum
  <2> HIDE DEF Sum
  <2>1. \A i \in 0..k : i \in Sum
    BY <1>12, <1>13, CountingUp
  <2> QED BY <2>1
<1> QED BY <1>3, <1>4, <1>5, <1>6, <1>10, <1>14

\* The first event, and the others.
LEMMA DepositedTail ==
  ASSUME NEW d \in Seq(Events), d # <<>>, NEW b, NEW u, NEW t
  PROVE  /\ Head(d) \in Events /\ Tail(d) \in Seq(Events)
         /\ Deposited(d, b, u, t) = Counted(Head(d), b, u, t) + Deposited(Tail(d), b, u, t)
<1>1. Head(d) \in Events /\ Tail(d) \in Seq(Events)
  BY HeadTailProperties
<1>2. PICK x \in Events, rest \in Seq(Events) : x = Head(d) /\ rest = Tail(d)
  BY <1>1
<1>3. PICK one \in Seq(Events) : one = <<x>>
  <2>1. <<x>> \in Seq(Events)
    OBVIOUS
  <2> QED BY <2>1
<1>4. d = one \o rest
  <2>1. Len(d) \in Nat /\ Len(d) # 0
    BY LenProperties, EmptySeq
  <2>2. 1 \in 1..Len(d) /\ Len(d) \in 1..Len(d)
    BY <2>1
  <2>3. SubSeq(d, 1, Len(d)) = <<d[1]>> \o SubSeq(d, 1 + 1, Len(d))
    BY <2>2, SubSeqRecursiveFirst
  <2>4. Tail(d) = SubSeq(d, 2, Len(d)) /\ SubSeq(d, 1, Len(d)) = d /\ 1 + 1 = 2
    BY TailIsSubSeq, SubSeqFull
  <2>5. Head(d) = d[1]
    OBVIOUS
  <2> QED BY <1>2, <1>3, <2>3, <2>4, <2>5
<1>5. Deposited(one, b, u, t) = Counted(x, b, u, t)
  BY <1>3, DepositedOne
<1>6. Deposited(one \o rest, b, u, t) = Deposited(one, b, u, t) + Deposited(rest, b, u, t)
  BY DepositedConcat
<1> QED BY <1>1, <1>2, <1>4, <1>5, <1>6

-----------------------------------------------------------------------------
(* The events of a chain.                                                  *)

\* g gathers the events of the blocks from f to n, as the recursion does.
Gathers(g, c, f, n) ==
  g = [b \in (f - 1)..n |-> IF b < f THEN <<>> ELSE g[b - 1] \o EventsOf(c, b)]

\* The recursion of EventsIn, block by block.
LEMMA GathersUp ==
  ASSUME NEW g, NEW c, NEW f \in Nat, NEW n \in Nat, f - 1 <= n, Gathers(g, c, f, n)
  PROVE  /\ g[f - 1] = <<>>
         /\ \A b \in f..n : g[b] = g[b - 1] \o EventsOf(c, b)
<1>1. f - 1 \in (f - 1)..n /\ f - 1 < f
  OBVIOUS
<1>2. \A b \in f..n : b \in (f - 1)..n /\ ~(b < f)
  OBVIOUS
<1> QED BY <1>1, <1>2 DEF Gathers

\* The recursive function that the definition chooses exists, up to any block, and
\* so EventsIn is its last value.
LEMMA EventsUnfold ==
  ASSUME NEW c, NEW f \in Nat \ {0}, NEW n \in Nat, f - 1 <= n
  PROVE  \E g : Gathers(g, c, f, n) /\ EventsIn(c, f, n) = g[n]
<1> DEFINE N == n - (f - 1)
           Reached == {k \in 0..N : \E g : Gathers(g, c, f, f - 1 + k)}
<1>0. N \in Nat /\ f - 1 + N = n /\ f - 1 + 0 = f - 1
  OBVIOUS
<1>1. 0 \in Reached
  <2>1. Gathers([b \in (f - 1)..(f - 1) |-> <<>>], c, f, f - 1)
    <3>1. \A b \in (f - 1)..(f - 1) : b < f
      OBVIOUS
    <3> QED BY <3>1 DEF Gathers
  <2> QED BY <1>0, <2>1
<1>2. ASSUME NEW k \in 0..(N - 1), k \in Reached PROVE k + 1 \in Reached
  <2>1. PICK m \in Nat : m = f - 1 + k
    BY <1>0
  <2>2. PICK g : Gathers(g, c, f, m)
    BY <1>2, <2>1
  <2>3. PICK last : last = g[m] \o EventsOf(c, m + 1)
    OBVIOUS
  <2> DEFINE h == [b \in (f - 1)..(m + 1) |-> IF b <= m THEN g[b] ELSE last]
  <2>4. m \in (f - 1)..m /\ m + 1 >= f
    BY <2>1
  <2>5. \A b \in (f - 1)..m : g[b] = IF b < f THEN <<>> ELSE g[b - 1] \o EventsOf(c, b)
    BY <2>2 DEF Gathers
  <2>6. /\ \A b \in (f - 1)..m : h[b] = g[b]
        /\ h[m + 1] = last
    BY <2>4
  <2>7. \A b \in (f - 1)..(m + 1) : h[b] = IF b < f THEN <<>> ELSE h[b - 1] \o EventsOf(c, b)
    <3> SUFFICES ASSUME NEW b \in (f - 1)..(m + 1)
                 PROVE  h[b] = IF b < f THEN <<>> ELSE h[b - 1] \o EventsOf(c, b)
      OBVIOUS
    <3>1. CASE b < f
      <4>1. b \in (f - 1)..m
        BY <2>4, <3>1
      <4> HIDE DEF h
      <4> QED BY <2>5, <2>6, <3>1, <4>1
    <3>2. CASE ~(b < f) /\ b <= m
      <4>1. b \in (f - 1)..m /\ b - 1 \in (f - 1)..m
        BY <3>2
      <4> HIDE DEF h
      <4> QED BY <2>5, <2>6, <3>2, <4>1
    <3>3. CASE b = m + 1
      <4>1. b - 1 = m /\ ~(b < f)
        BY <2>4, <3>3
      <4> HIDE DEF h
      <4> QED BY <2>3, <2>4, <2>6, <3>3, <4>1
    <3> QED BY <3>1, <3>2, <3>3
  <2>8. h = [b \in (f - 1)..(m + 1) |-> h[b]]
    OBVIOUS
  <2>9. Gathers(h, c, f, m + 1)
    <3> HIDE DEF h
    <3> QED BY <2>7, <2>8 DEF Gathers
  <2>10. m + 1 = f - 1 + (k + 1) /\ k + 1 \in 0..N
    BY <2>1
  <2> QED BY <2>9, <2>10
<1>3. PICK g : Gathers(g, c, f, n)
  <2>1. \A k \in 0..N : k \in Reached
    <3> HIDE DEF Reached, N
    <3> QED BY <1>0, <1>1, <1>2, CountingUp
  <2>2. N \in Reached
    BY <1>0, <2>1
  <2> QED BY <1>0, <2>2
<1> DEFINE chosen == CHOOSE h : h = [b \in (f - 1)..n |->
             IF b < f THEN <<>> ELSE h[b - 1] \o EventsOf(c, b)]
<1>4. Gathers(chosen, c, f, n)
  BY <1>3 DEF Gathers
<1>5. EventsIn(c, f, n) = chosen[n]
  BY DEF EventsIn
<1> QED BY <1>4, <1>5

\* No blocks have no events; one more block adds its own.
LEMMA EventsNone ==
  ASSUME NEW c, NEW f \in Nat \ {0}
  PROVE  EventsIn(c, f, f - 1) = <<>>
<1>1. PICK n \in Nat : n = f - 1 /\ f - 1 <= n
  OBVIOUS
<1>2. PICK g : Gathers(g, c, f, n) /\ EventsIn(c, f, n) = g[n]
  BY <1>1, EventsUnfold
<1>3. g[f - 1] = <<>>
  BY <1>1, <1>2, GathersUp
<1> QED BY <1>1, <1>2, <1>3

\* One block more.
LEMMA EventsNext ==
  ASSUME NEW c, NEW f \in Nat \ {0}, NEW n \in Nat, f - 1 <= n
  PROVE  EventsIn(c, f, n + 1) = EventsIn(c, f, n) \o EventsOf(c, n + 1)
<1>1. PICK g : Gathers(g, c, f, n) /\ EventsIn(c, f, n) = g[n]
  BY EventsUnfold
<1>2. PICK m \in Nat : m = n + 1 /\ f - 1 <= m
  OBVIOUS
<1>3. PICK h : Gathers(h, c, f, m) /\ EventsIn(c, f, m) = h[m]
  BY <1>2, EventsUnfold
<1>4. /\ g[f - 1] = <<>> /\ h[f - 1] = <<>>
      /\ \A b \in f..n : g[b] = g[b - 1] \o EventsOf(c, b)
      /\ \A b \in f..m : h[b] = h[b - 1] \o EventsOf(c, b)
  <2>1. g[f - 1] = <<>> /\ \A b \in f..n : g[b] = g[b - 1] \o EventsOf(c, b)
    BY <1>1, GathersUp
  <2>2. h[f - 1] = <<>> /\ \A b \in f..m : h[b] = h[b - 1] \o EventsOf(c, b)
    <3>1. m \in Nat /\ f \in Nat /\ f - 1 <= m /\ Gathers(h, c, f, m)
      BY <1>2, <1>3
    <3> QED BY ONLY <3>1, GathersUp
  <2> QED BY <2>1, <2>2
<1> DEFINE N == n - (f - 1)
           Same == {k \in 0..N : g[f - 1 + k] = h[f - 1 + k]}
<1>5. N \in Nat /\ f - 1 + N = n /\ f - 1 + 0 = f - 1
  OBVIOUS
<1>6. 0 \in Same
  BY <1>4, <1>5
<1>7. ASSUME NEW k \in 0..(N - 1), k \in Same PROVE k + 1 \in Same
  <2>1. PICK b \in f..n : b = f - 1 + (k + 1) /\ b - 1 = f - 1 + k /\ b \in f..m
    <3>1. f - 1 + (k + 1) \in f..n /\ f - 1 + (k + 1) \in f..m /\ f - 1 + (k + 1) - 1 = f - 1 + k
      BY <1>2
    <3> QED BY <3>1
  <2>2. g[b - 1] = h[b - 1]
    BY <1>7, <2>1
  <2>3. g[b] = h[b]
    BY <1>4, <2>1, <2>2
  <2>4. k + 1 \in 0..N
    OBVIOUS
  <2> QED BY <2>1, <2>3, <2>4
<1>8. N \in Same
  <2> HIDE DEF Same, N
  <2>1. \A k \in 0..N : k \in Same
    BY <1>5, <1>6, <1>7, CountingUp
  <2> QED BY <1>5, <2>1
<1>10. g[n] = h[n]
  BY <1>5, <1>8
<1>9. h[m] = h[m - 1] \o EventsOf(c, m) /\ m - 1 = n
  <2>1. m \in f..m /\ m - 1 = n
    BY <1>2
  <2> QED BY <1>4, <2>1
<1> QED BY <1>1, <1>2, <1>3, <1>9, <1>10

\* The events of a block, and of several.
EventsAt(f, n) == {e \in Events : e.block_number \in f..n}

\* The events of a block: one for each deposit, with the block's number.
LEMMA EventsOfTyped ==
  ASSUME NEW c \in Seq(Seq(Deposits)), NEW b \in 1..Len(c)
  PROVE  /\ EventsOf(c, b) \in Seq(EventsAt(b, b)) /\ DOMAIN EventsOf(c, b) = DOMAIN c[b]
         /\ \A j \in DOMAIN c[b] : EventsOf(c, b)[j] = [deposit |-> c[b][j], block_number |-> b]
<1>1. PICK block \in Seq(Deposits) : block = c[b]
  BY ElementOfSeq
<1>2. PICK k \in Nat : DOMAIN block = 1..k /\ \A j \in 1..k : block[j] \in Deposits
  BY LenProperties, ElementOfSeq
<1>3. b \in Nat
  BY LenProperties
<1>4. EventsOf(c, b) = [j \in 1..k |-> [deposit |-> block[j], block_number |-> b]]
  BY <1>1, <1>2 DEF EventsOf
<1>5. \A j \in 1..k : [deposit |-> block[j], block_number |-> b] \in EventsAt(b, b)
  BY <1>2, <1>3 DEF EventsAt, Events
<1>6. EventsOf(c, b) \in [1..k -> EventsAt(b, b)]
  BY <1>4, <1>5
<1>7. EventsOf(c, b) \in Seq(EventsAt(b, b))
  BY <1>6, SeqDef
<1> QED BY <1>1, <1>2, <1>4, <1>7

\* A block deposits the same for those who have passed any earlier block, and
\* nothing for those who have passed it.
LEMMA BlockDeposits ==
  ASSUME NEW c \in Seq(Seq(Deposits)), NEW n \in 1..Len(c), NEW b \in Nat, NEW u, NEW t
  PROVE  /\ Deposited(EventsOf(c, n), 0, u, t) \in Nat
         /\ Deposited(EventsOf(c, n), b, u, t) =
              IF n > b THEN Deposited(EventsOf(c, n), 0, u, t) ELSE 0
         /\ c[n] = <<>> => Deposited(EventsOf(c, n), b, u, t) = 0
<1>1. PICK block \in Seq(EventsAt(n, n)) : block = EventsOf(c, n)
  BY EventsOfTyped
<1>2. block \in Seq(Events)
  <2>1. EventsAt(n, n) \subseteq Events
    BY DEF EventsAt
  <2> QED BY <2>1, SeqMonotonic
<1>3. PICK k \in Nat : k = Len(block) /\ DOMAIN block = 1..k
  BY LenProperties
<1>4. n \in Nat /\ n > 0
  BY LenProperties
<1>5. \A j \in 1..k : block[j].block_number = n
  BY <1>3, <1>4, ElementOfSeq DEF EventsAt
<1>6. Deposited(block, 0, u, t) \in Nat
  BY <1>2, DepositedTyped
<1>7. ASSUME n > b PROVE Deposited(block, b, u, t) = Deposited(block, 0, u, t)
  <2>1. \A j \in 1..k : Counted(block[j], b, u, t) = Counted(block[j], 0, u, t)
    BY <1>4, <1>5, <1>7 DEF Counted
  <2>2. k \in Nat /\ Len(block) = k
    BY <1>3
  <2> QED BY <2>1, <2>2, DepositedSame
<1>8. ASSUME ~(n > b) PROVE Deposited(block, b, u, t) = 0
  <2>1. \A j \in DOMAIN block : Counted(block[j], b, u, t) = 0
    BY <1>3, <1>5, <1>8 DEF Counted
  <2> QED BY <1>2, <2>1, NothingDeposited
<1>9. ASSUME c[n] = <<>> PROVE Deposited(block, b, u, t) = 0
  <2>1. DOMAIN block = DOMAIN c[n]
    BY <1>1, EventsOfTyped
  <2>2. DOMAIN block = {}
    BY <1>9, <2>1
  <2> QED BY <1>2, <2>2, NothingDeposited
<1> QED BY <1>1, <1>6, <1>7, <1>8, <1>9

\* The events of a range are of its blocks.
LEMMA EventsInTyped ==
  ASSUME NEW c \in Seq(Seq(Deposits)), NEW f \in Nat \ {0}, NEW n \in Nat, f - 1 <= n, n <= Len(c)
  PROVE  EventsIn(c, f, n) \in Seq(EventsAt(f, n))
<1> DEFINE N == n - (f - 1)
           Good == {k \in 0..N : EventsIn(c, f, f - 1 + k) \in Seq(EventsAt(f, n))}
<1>1. N \in Nat /\ f - 1 + N = n /\ f - 1 + 0 = f - 1
  OBVIOUS
<1>2. 0 \in Good
  <2>1. EventsIn(c, f, f - 1) \in Seq(EventsAt(f, n))
    <3>1. <<>> \in Seq(EventsAt(f, n))
      OBVIOUS
    <3> QED BY <3>1, EventsNone
  <2> QED BY <1>1, <2>1
<1>3. ASSUME NEW k \in 0..(N - 1), k \in Good PROVE k + 1 \in Good
  <2>1. PICK m \in Nat : m = f - 1 + k /\ f - 1 <= m /\ m + 1 = f - 1 + (k + 1) /\ m + 1 \in f..n /\ m + 1 \in 1..Len(c)
    <3>1. Len(c) \in Nat
      BY LenProperties
    <3>2. f - 1 + k \in Nat /\ f - 1 <= f - 1 + k /\ (f - 1 + k) + 1 = f - 1 + (k + 1) /\ (f - 1 + k) + 1 \in f..n
      OBVIOUS
    <3>3. (f - 1 + k) + 1 \in 1..Len(c)
      BY <3>1, <3>2
    <3> QED BY <3>2, <3>3
  <2>2. EventsIn(c, f, m) \in Seq(EventsAt(f, n))
    BY <1>3, <2>1
  <2>3. EventsOf(c, m + 1) \in Seq(EventsAt(f, n))
    <3>1. PICK b \in 1..Len(c) : b = m + 1
      BY <2>1
    <3>2. EventsAt(b, b) \subseteq EventsAt(f, n)
      BY <2>1, <3>1 DEF EventsAt
    <3>3. EventsOf(c, b) \in Seq(EventsAt(b, b))
      BY EventsOfTyped
    <3> QED BY <3>1, <3>2, <3>3, SeqMonotonic
  <2>4. EventsIn(c, f, m + 1) = EventsIn(c, f, m) \o EventsOf(c, m + 1)
    BY <2>1, EventsNext
  <2>5. EventsIn(c, f, m + 1) \in Seq(EventsAt(f, n))
    BY <2>2, <2>3, <2>4, ConcatProperties
  <2> QED BY <2>1, <2>5
<1>4. N \in Good
  <2> HIDE DEF Good, N
  <2>1. \A k \in 0..N : k \in Good
    BY <1>1, <1>2, <1>3, CountingUp
  <2> QED BY <1>1, <2>1
<1> QED BY <1>1, <1>4

\* Events of some blocks are events.
LEMMA EventsAtEvents == \A f, n : Seq(EventsAt(f, n)) \subseteq Seq(Events)
<1>1. ASSUME NEW f, NEW n PROVE EventsAt(f, n) \subseteq Events
  BY DEF EventsAt
<1> QED BY <1>1, SeqMonotonic

-----------------------------------------------------------------------------
(* What a chain deposits up to a block.                                    *)

\* What is deposited for a user up to block b of chain c.
Total(c, b, u, t) == Deposited(EventsIn(c, 1, b), 0, u, t)

\* What is deposited after a block, and up to another.
LEMMA RangeNext ==
  ASSUME NEW c \in Seq(Seq(Deposits)), NEW f \in Nat \ {0}, NEW n \in Nat, f - 1 <= n, n < Len(c),
         NEW u, NEW t
  PROVE  /\ Deposited(EventsIn(c, f, n), 0, u, t) \in Nat
         /\ Deposited(EventsOf(c, n + 1), 0, u, t) \in Nat
         /\ Deposited(EventsIn(c, f, n + 1), 0, u, t) =
              Deposited(EventsIn(c, f, n), 0, u, t) + Deposited(EventsOf(c, n + 1), 0, u, t)
<1>0. Len(c) \in Nat
  BY LenProperties
<1>1. PICK m \in 1..Len(c) : m = n + 1
  BY <1>0
<1>2. PICK d \in Seq(Events) : d = EventsIn(c, f, n)
  <2>1. n <= Len(c)
    BY <1>0
  <2>2. EventsIn(c, f, n) \in Seq(EventsAt(f, n))
    BY <2>1, EventsInTyped
  <2> QED BY <2>2, EventsAtEvents
<1>3. PICK e \in Seq(Events) : e = EventsOf(c, m)
  <2>1. EventsOf(c, m) \in Seq(EventsAt(m, m))
    BY EventsOfTyped
  <2> QED BY <2>1, EventsAtEvents
<1>4. EventsIn(c, f, n + 1) = d \o e
  BY <1>1, <1>2, <1>3, EventsNext
<1>5. Deposited(d, 0, u, t) \in Nat /\ Deposited(e, 0, u, t) \in Nat
  BY DepositedTyped
<1>6. Deposited(d \o e, 0, u, t) = Deposited(d, 0, u, t) + Deposited(e, 0, u, t)
  BY DepositedConcat
<1> QED BY <1>1, <1>2, <1>3, <1>4, <1>5, <1>6

\* What a chain deposits is a number.
LEMMA TotalTyped ==
  ASSUME NEW c \in Seq(Seq(Deposits)), NEW b \in 0..Len(c), NEW u, NEW t
  PROVE  Total(c, b, u, t) \in Nat
<1>1. b \in Nat /\ b <= Len(c) /\ 1 \in Nat \ {0} /\ 1 - 1 <= b
  BY LenProperties
<1>2. EventsIn(c, 1, b) \in Seq(EventsAt(1, b))
  BY <1>1, EventsInTyped
<1>3. PICK d \in Seq(Events) : d = EventsIn(c, 1, b)
  BY <1>2, EventsAtEvents
<1> QED BY <1>3, DepositedTyped DEF Total

\* Before the first block nothing is deposited.
LEMMA TotalNone ==
  ASSUME NEW c, NEW u, NEW t
  PROVE  Total(c, 0, u, t) = 0
<1>1. EventsIn(c, 1, 1 - 1) = <<>> /\ 1 - 1 = 0
  BY EventsNone
<1>2. PICK d \in Seq(Events) : d = <<>>
  <2>1. <<>> \in Seq(Events)
    OBVIOUS
  <2> QED BY <2>1
<1>3. DOMAIN d = {}
  BY <1>2
<1>4. Deposited(d, 0, u, t) = 0
  BY <1>3, NothingDeposited
<1> QED BY <1>1, <1>2, <1>4 DEF Total

\* What is deposited in a range of blocks is the difference of the totals.
LEMMA TotalRange ==
  ASSUME NEW c \in Seq(Seq(Deposits)), NEW f \in Nat \ {0}, NEW n \in Nat, f - 1 <= n, n <= Len(c),
         NEW u, NEW t
  PROVE  /\ Deposited(EventsIn(c, f, n), 0, u, t) \in Nat
         /\ Total(c, n, u, t) = Total(c, f - 1, u, t) + Deposited(EventsIn(c, f, n), 0, u, t)
<1> DEFINE N == n - (f - 1)
           Between(m) == Deposited(EventsIn(c, f, m), 0, u, t)
           Good == {k \in 0..N : /\ Between(f - 1 + k) \in Nat
                                 /\ Total(c, f - 1 + k, u, t) = Total(c, f - 1, u, t) + Between(f - 1 + k)}
<1>0. Len(c) \in Nat
  BY LenProperties
<1>1. N \in Nat /\ f - 1 + N = n /\ f - 1 + 0 = f - 1 /\ f - 1 \in 0..Len(c)
  BY <1>0
<1>2. Total(c, f - 1, u, t) \in Nat
  BY <1>1, TotalTyped
<1>3. 0 \in Good
  <2>1. PICK d \in Seq(Events) : d = <<>>
    <3>1. <<>> \in Seq(Events)
      OBVIOUS
    <3> QED BY <3>1
  <2>2. DOMAIN d = {}
    BY <2>1
  <2>3. Deposited(d, 0, u, t) = 0
    BY <2>2, NothingDeposited
  <2>4. Between(f - 1) = 0
    BY <2>1, <2>3, EventsNone
  <2> HIDE DEF Between
  <2> QED BY <1>1, <1>2, <2>4
<1>4. ASSUME NEW k \in 0..(N - 1), k \in Good PROVE k + 1 \in Good
  <2>1. PICK m \in Nat : m = f - 1 + k /\ m + 1 = f - 1 + (k + 1) /\ f - 1 <= m /\ m < Len(c)
    <3>1. f - 1 + k \in Nat /\ (f - 1 + k) + 1 = f - 1 + (k + 1) /\ f - 1 <= f - 1 + k /\ f - 1 + k < n
      OBVIOUS
    <3>2. f - 1 + k < Len(c)
      BY <1>0, <3>1
    <3> QED BY <3>1, <3>2
  <2>2. /\ Between(m) \in Nat /\ Deposited(EventsOf(c, m + 1), 0, u, t) \in Nat
        /\ Between(m + 1) = Between(m) + Deposited(EventsOf(c, m + 1), 0, u, t)
    BY <2>1, RangeNext
  <2>3. Total(c, m + 1, u, t) = Total(c, m, u, t) + Deposited(EventsOf(c, m + 1), 0, u, t)
    <3>1. 1 \in Nat \ {0} /\ 1 - 1 <= m
      OBVIOUS
    <3> QED BY <2>1, <3>1, RangeNext DEF Total
  <2>4. Total(c, m, u, t) = Total(c, f - 1, u, t) + Between(m)
    BY <1>4, <2>1
  <2> HIDE DEF Between
  <2>5. PICK x, y, z \in Nat : x = Total(c, f - 1, u, t) /\ y = Between(m) /\ z = Deposited(EventsOf(c, m + 1), 0, u, t)
    BY <1>2, <2>2
  <2>6. Total(c, m + 1, u, t) = (x + y) + z /\ Between(m + 1) = y + z
    BY <2>2, <2>3, <2>4, <2>5
  <2>7. (x + y) + z = x + (y + z) /\ y + z \in Nat
    OBVIOUS
  <2>8. k + 1 \in 0..N
    OBVIOUS
  <2>9. Total(c, m + 1, u, t) = Total(c, f - 1, u, t) + Between(m + 1) /\ Between(m + 1) \in Nat
    BY <2>5, <2>6, <2>7
  <2> QED BY <2>1, <2>8, <2>9
<1>5. N \in Good
  <2> HIDE DEF Good, N
  <2>1. \A k \in 0..N : k \in Good
    BY <1>1, <1>3, <1>4, CountingUp
  <2> QED BY <1>1, <2>1
<1> QED BY <1>1, <1>5

\* Deposits are never taken back.
LEMMA TotalGrows ==
  ASSUME NEW c \in Seq(Seq(Deposits)), NEW a \in 0..Len(c), NEW b \in 0..Len(c), a <= b, NEW u, NEW t
  PROVE  Total(c, a, u, t) <= Total(c, b, u, t)
<1>0. Len(c) \in Nat
  BY LenProperties
<1>1. PICK f \in Nat \ {0} : f - 1 = a /\ f - 1 <= b
  <2>1. a + 1 \in Nat \ {0} /\ (a + 1) - 1 = a
    BY <1>0
  <2> QED BY <2>1
<1>2. b \in Nat /\ b <= Len(c)
  BY <1>0
<1>3. /\ Deposited(EventsIn(c, f, b), 0, u, t) \in Nat
      /\ Total(c, b, u, t) = Total(c, f - 1, u, t) + Deposited(EventsIn(c, f, b), 0, u, t)
  BY <1>1, <1>2, TotalRange
<1>4. Total(c, a, u, t) \in Nat
  BY TotalTyped
<1> QED BY <1>1, <1>3, <1>4

\* Blocks without deposits leave the totals as they are.
LEMMA TotalFlat ==
  ASSUME NEW c \in Seq(Seq(Deposits)), NEW a \in 0..Len(c), NEW b \in 0..Len(c), a <= b, NEW u, NEW t,
         \A n \in (a + 1)..b : c[n] = <<>>
  PROVE  Total(c, b, u, t) = Total(c, a, u, t)
<1> DEFINE N == b - a
           Good == {k \in 0..N : Total(c, a + k, u, t) = Total(c, a, u, t)}
<1>0. Len(c) \in Nat
  BY LenProperties
<1>1. N \in Nat /\ a + N = b /\ a + 0 = a
  BY <1>0
<1>2. 0 \in Good
  BY <1>1
<1>3. ASSUME NEW k \in 0..(N - 1), k \in Good PROVE k + 1 \in Good
  <2>1. PICK m \in Nat : m = a + k /\ m + 1 = a + (k + 1) /\ m < Len(c) /\ m + 1 \in (a + 1)..b /\ m + 1 \in 1..Len(c) /\ 1 - 1 <= m
    <3>1. /\ a + k \in Nat /\ (a + k) + 1 = a + (k + 1) /\ a + k < Len(c) /\ (a + k) + 1 \in (a + 1)..b
          /\ (a + k) + 1 \in 1..Len(c) /\ 1 - 1 <= a + k
      BY <1>0
    <3> QED BY <3>1
  <2>2. PICK n \in 1..Len(c) : n = m + 1 /\ c[n] = <<>>
    BY <2>1
  <2>3. Deposited(EventsOf(c, n), 0, u, t) = 0
    BY <2>2, BlockDeposits
  <2>4. Total(c, m, u, t) \in Nat
    <3>1. m \in 0..Len(c)
      BY <1>0, <2>1
    <3> QED BY <3>1, TotalTyped
  <2>5. Total(c, m + 1, u, t) = Total(c, m, u, t) + Deposited(EventsOf(c, m + 1), 0, u, t)
    <3>1. 1 \in Nat \ {0}
      OBVIOUS
    <3> QED BY <2>1, <3>1, RangeNext DEF Total
  <2>6. Total(c, m + 1, u, t) = Total(c, m, u, t)
    BY <2>2, <2>3, <2>4, <2>5
  <2>7. k + 1 \in 0..N
    BY <1>1
  <2>8. Total(c, m, u, t) = Total(c, a, u, t)
    BY <1>3, <2>1
  <2> QED BY <2>1, <2>6, <2>7, <2>8
<1>4. N \in Good
  <2> HIDE DEF Good, N
  <2>1. \A k \in 0..N : k \in Good
    BY <1>1, <1>2, <1>3, CountingUp
  <2> QED BY <1>1, <2>1
<1> QED BY <1>1, <1>4

\* What the assumption on the chains says of the totals.
LEMMA ChainTotals ==
  ASSUME NEW c \in Chains, NEW u \in Users, NEW t \in Tokens
  PROVE  /\ c \in Seq(Seq(Deposits)) /\ Len(c) \in Nat
         /\ \A b \in 0..Len(c) : Total(c, b, u, t) \in Nat /\ Total(c, b, u, t) < Word
         /\ \A b \in 0..Len(c) : b < contract_deploy_block => Total(c, b, u, t) = 0
<1>1. /\ c \in Seq(Seq(Deposits)) /\ contract_deploy_block <= Len(c)
      /\ \A b \in 1..(contract_deploy_block - 1) : c[b] = <<>>
      /\ Total(c, Len(c), u, t) < Word
  BY ChainsAssumption DEF Total
<1>2. Len(c) \in Nat
  BY <1>1, LenProperties
<1>3. ASSUME NEW b \in 0..Len(c) PROVE Total(c, b, u, t) \in Nat /\ Total(c, b, u, t) < Word
  <2>1. Len(c) \in 0..Len(c) /\ b <= Len(c)
    BY <1>2
  <2>2. Total(c, b, u, t) \in Nat /\ Total(c, Len(c), u, t) \in Nat
    BY <1>1, <2>1, TotalTyped
  <2>3. Total(c, b, u, t) <= Total(c, Len(c), u, t)
    BY <1>1, <2>1, TotalGrows
  <2> QED BY <1>1, <2>2, <2>3, WordAssumption
<1>4. ASSUME NEW b \in 0..Len(c), b < contract_deploy_block PROVE Total(c, b, u, t) = 0
  <2>1. 0 \in 0..Len(c) /\ 0 <= b
    BY <1>2
  <2>2. \A n \in (0 + 1)..b : c[n] = <<>>
    BY <1>1, <1>4, SyncAssumption
  <2>3. Total(c, b, u, t) = Total(c, 0, u, t)
    BY <1>1, <2>1, <2>2, TotalFlat
  <2> QED BY <2>3, TotalNone
<1> QED BY <1>1, <1>2, <1>3, <1>4

-----------------------------------------------------------------------------
(* Arithmetic.                                                             *)

\* The maximum of two numbers, as the model takes it of a block and a boundary.
LEMMA MaxOfTwo == \A a, b \in Int : Max({a, b}) = IF a >= b THEN a ELSE b
<1> SUFFICES ASSUME NEW a \in Int, NEW b \in Int PROVE Max({a, b}) = IF a >= b THEN a ELSE b
  OBVIOUS
<1> DEFINE m == IF a >= b THEN a ELSE b
<1>1. m \in {a, b} /\ \A y \in {a, b} : m >= y
  OBVIOUS
<1>2. \A x \in {a, b} : (\A y \in {a, b} : x >= y) => x = m
  OBVIOUS
<1>3. Max({a, b}) \in {a, b} /\ \A y \in {a, b} : Max({a, b}) >= y
  BY <1>1 DEF Max
<1> QED BY <1>2, <1>3

\* The minimum of two numbers, as the end of a chunk is.
LEMMA MinOfTwo == \A a, b \in Int : Min({a, b}) = IF a <= b THEN a ELSE b
<1> SUFFICES ASSUME NEW a \in Int, NEW b \in Int PROVE Min({a, b}) = IF a <= b THEN a ELSE b
  OBVIOUS
<1> DEFINE m == IF a <= b THEN a ELSE b
<1>1. m \in {a, b} /\ \A y \in {a, b} : m <= y
  OBVIOUS
<1>2. \A x \in {a, b} : (\A y \in {a, b} : x <= y) => x = m
  OBVIOUS
<1>3. Min({a, b}) \in {a, b} /\ \A y \in {a, b} : Min({a, b}) <= y
  BY <1>1 DEF Min
<1> QED BY <1>2, <1>3

\* A sum or difference of words wraps around at most once.
LEMMA ModCases ==
  ASSUME NEW W \in Nat \ {0}, NEW x \in Int
  PROVE  /\ 0 <= x /\ x < W => x % W = x
         /\ W <= x /\ x < 2 * W => x % W = x - W
         /\ (0 - W) <= x /\ x < 0 => x % W = x + W
         /\ x % W \in 0..(W - 1)
  OBVIOUS

\* Sums and differences of words, which wrap around at most once.
LEMMA SumsOfWords ==
  ASSUME NEW x \in Amounts, NEW y \in Amounts
  PROVE  /\ Add(x, y) \in Amounts /\ Sub(x, y) \in Amounts
         /\ Add(x, y) = IF x + y < Word THEN x + y ELSE x + y - Word
         /\ Sub(x, y) = IF x < y THEN x - y + Word ELSE x - y
<1>1. PICK W \in Nat \ {0} : W = Word
  BY WordAssumption
<1>2. PICK s \in Int, d \in Int : s = x + y /\ d = x - y
  BY <1>1 DEF Amounts
<1>3. /\ 0 <= s /\ s < 2 * W /\ (0 - W) <= d /\ d < W
      /\ d < 0 <=> x < y
  BY <1>1, <1>2 DEF Amounts
<1>4. /\ 0 <= s /\ s < W => s % W = s
      /\ W <= s /\ s < 2 * W => s % W = s - W
      /\ s % W \in 0..(W - 1)
  BY ModCases
<1>5. /\ 0 <= d /\ d < W => d % W = d
      /\ (0 - W) <= d /\ d < 0 => d % W = d + W
      /\ d % W \in 0..(W - 1)
  BY ModCases
<1>6. Add(x, y) = s % W /\ Sub(x, y) = d % W
  BY <1>1, <1>2 DEF Add, Sub
<1>7. s % W = IF s < W THEN s ELSE s - W
  <2>1. CASE s < W
    BY <1>3, <1>4, <2>1
  <2>2. CASE ~(s < W)
    <3>1. W <= s
      BY <2>2
    <3> QED BY <1>3, <1>4, <2>2, <3>1
  <2> QED BY <2>1, <2>2
<1>8. d % W = IF d < 0 THEN d + W ELSE d
  <2>1. CASE d < 0
    BY <1>3, <1>5, <2>1
  <2>2. CASE ~(d < 0)
    <3>1. 0 <= d
      BY <2>2
    <3> QED BY <1>3, <1>5, <2>2, <3>1
  <2> QED BY <2>1, <2>2
<1>9. Add(x, y) = IF s < W THEN s ELSE s - W
  BY <1>6, <1>7
<1>10. Sub(x, y) = IF d < 0 THEN d + W ELSE d
  BY <1>6, <1>8
<1>11. Add(x, y) \in Amounts /\ Sub(x, y) \in Amounts
  BY <1>1, <1>4, <1>5, <1>6 DEF Amounts
<1>12. (IF s < W THEN s ELSE s - W) = IF x + y < Word THEN x + y ELSE x + y - Word
  <2>1. W = Word /\ s = x + y /\ W \in Int /\ s \in Int /\ x \in Int /\ y \in Int
    BY <1>1, <1>2 DEF Amounts
  <2> QED BY <2>1
<1>13. (IF d < 0 THEN d + W ELSE d) = IF x < y THEN x - y + Word ELSE x - y
  <2>1. (IF d < 0 THEN d + W ELSE d) = IF x < y THEN d + W ELSE d
    BY <1>3
  <2> QED BY <1>1, <1>2, <2>1
<1> QED BY <1>9, <1>10, <1>11, <1>12, <1>13

\* Crediting adds to what is held, unless that is too much for a word.
LEMMA HoldsMore ==
  ASSUME NEW x \in Amounts, NEW r \in Amounts, NEW a \in Amounts, Add(x, r) + a < Word
  PROVE  Add(Add(x, a), r) = Add(x, r) + a
<1>1. PICK p \in Amounts : p = Add(x, r) /\ p = IF x + r < Word THEN x + r ELSE x + r - Word
  BY SumsOfWords
<1>2. PICK q \in Amounts : q = Add(x, a) /\ q = IF x + a < Word THEN x + a ELSE x + a - Word
  BY SumsOfWords
<1>3. Add(q, r) = IF q + r < Word THEN q + r ELSE q + r - Word
  BY SumsOfWords
<1>4. PICK sum : sum = Add(q, r)
  OBVIOUS
<1>5. sum = p + a
  <2>1. p + a < Word
    BY <1>1
  <2> QED BY <1>1, <1>2, <1>3, <1>4, <2>1, WordAssumption DEF Amounts
<1> QED BY <1>1, <1>2, <1>4, <1>5

\* What moves between available and reserved is held all the time.
LEMMA MovedIsHeld ==
  ASSUME NEW x \in Amounts, NEW r \in Amounts, NEW a \in Amounts
  PROVE  Add(Sub(x, a), Add(r, a)) = Add(x, r)
<1>1. PICK p \in Amounts : p = Sub(x, a) /\ p = IF x < a THEN x - a + Word ELSE x - a
  BY SumsOfWords
<1>2. PICK q \in Amounts : q = Add(r, a) /\ q = IF r + a < Word THEN r + a ELSE r + a - Word
  BY SumsOfWords
<1>3. PICK sum : sum = Add(p, q) /\ sum = IF p + q < Word THEN p + q ELSE p + q - Word
  BY SumsOfWords
<1>4. PICK held : held = Add(x, r) /\ held = IF x + r < Word THEN x + r ELSE x + r - Word
  BY SumsOfWords
<1>5. sum = held
  BY <1>1, <1>2, <1>3, <1>4, WordAssumption DEF Amounts
<1> QED BY <1>1, <1>2, <1>3, <1>4, <1>5

-----------------------------------------------------------------------------
(* The ledger.                                                             *)

\* Addition of words commutes.
LEMMA AddCommutes == \A x, y \in Amounts : Add(x, y) = Add(y, x)
<1> SUFFICES ASSUME NEW x \in Amounts, NEW y \in Amounts PROVE Add(x, y) = Add(y, x)
  OBVIOUS
<1>1. x + y = y + x
  BY WordAssumption DEF Amounts
<1> QED BY <1>1 DEF Add

\* What a ledger has for a user and a token.
LEMMA LedgersAt ==
  ASSUME NEW l \in Ledgers, NEW u \in Users, NEW t \in Tokens
  PROVE  /\ l[u][t] \in Balances /\ l[u][t].available \in Amounts /\ l[u][t].reserved \in Amounts
         /\ Held(l[u][t]) = Add(l[u][t].available, l[u][t].reserved) /\ Held(l[u][t]) \in Amounts
<1>1. l[u][t] \in Balances /\ l[u][t].available \in Amounts /\ l[u][t].reserved \in Amounts
  BY DEF Ledgers, Balances
<1> QED BY <1>1, SumsOfWords DEF Held

\* What crediting, reserving and spending put there.
LEMMA CreditIs ==
  ASSUME NEW l \in Ledgers, NEW u \in Users, NEW t \in Tokens, NEW a \in Amounts
  PROVE  \E b \in Balances :
           /\ b.available = Add(l[u][t].available, a) /\ b.reserved = l[u][t].reserved
           /\ Credit(l, u, t, a) \in Ledgers
           /\ \A v \in Users, s \in Tokens : Credit(l, u, t, a)[v][s] = IF v = u /\ s = t THEN b ELSE l[v][s]
<1> DEFINE b == [available |-> Add(l[u][t].available, a), reserved |-> l[u][t].reserved]
<1>1. b \in Balances
  BY LedgersAt, SumsOfWords DEF Balances
<1>2. [l[u][t] EXCEPT !.available = Add(l[u][t].available, a)] = b
  <2>1. l[u][t] \in [available : Amounts, reserved : Amounts]
    BY LedgersAt DEF Balances
  <2> QED BY <2>1
<1>3. Credit(l, u, t, a) = [l EXCEPT ![u][t] = b]
  <2>1. Credit(l, u, t, a) = [l EXCEPT ![u] = [l[u] EXCEPT ![t] = [l[u][t] EXCEPT !.available = Add(l[u][t].available, a)]]]
    BY DEF Credit
  <2>2. [l EXCEPT ![u][t] = b] = [l EXCEPT ![u] = [l[u] EXCEPT ![t] = b]]
    OBVIOUS
  <2> HIDE DEF b
  <2> QED BY <1>2, <2>1, <2>2
<1>4. PICK after : after = Credit(l, u, t, a)
  OBVIOUS
<1>5. after \in Ledgers /\ \A v \in Users, s \in Tokens : after[v][s] = IF v = u /\ s = t THEN b ELSE l[v][s]
  <2> HIDE DEF b
  <2>1. after = [l EXCEPT ![u][t] = b]
    BY <1>3, <1>4
  <2> QED BY <1>1, <2>1 DEF Ledgers
<1> QED BY <1>1, <1>4, <1>5

\* What spending puts there.
LEMMA SpendIs ==
  ASSUME NEW l \in Ledgers, NEW u \in Users, NEW t \in Tokens, NEW a \in Amounts
  PROVE  \E b \in Balances :
           /\ b.available = l[u][t].available /\ b.reserved = Sub(l[u][t].reserved, a)
           /\ Spend(l, u, t, a) \in Ledgers
           /\ \A v \in Users, s \in Tokens : Spend(l, u, t, a)[v][s] = IF v = u /\ s = t THEN b ELSE l[v][s]
<1> DEFINE b == [available |-> l[u][t].available, reserved |-> Sub(l[u][t].reserved, a)]
<1>1. b \in Balances
  BY LedgersAt, SumsOfWords DEF Balances
<1>2. [l[u][t] EXCEPT !.reserved = Sub(l[u][t].reserved, a)] = b
  <2>1. l[u][t] \in [available : Amounts, reserved : Amounts]
    BY LedgersAt DEF Balances
  <2> QED BY <2>1
<1>3. Spend(l, u, t, a) = [l EXCEPT ![u][t] = b]
  <2>1. Spend(l, u, t, a) = [l EXCEPT ![u] = [l[u] EXCEPT ![t] = [l[u][t] EXCEPT !.reserved = Sub(l[u][t].reserved, a)]]]
    BY DEF Spend
  <2>2. [l EXCEPT ![u][t] = b] = [l EXCEPT ![u] = [l[u] EXCEPT ![t] = b]]
    OBVIOUS
  <2> HIDE DEF b
  <2> QED BY <1>2, <2>1, <2>2
<1>4. PICK after : after = Spend(l, u, t, a)
  OBVIOUS
<1>5. after \in Ledgers /\ \A v \in Users, s \in Tokens : after[v][s] = IF v = u /\ s = t THEN b ELSE l[v][s]
  <2> HIDE DEF b
  <2>1. after = [l EXCEPT ![u][t] = b]
    BY <1>3, <1>4
  <2> QED BY <1>1, <2>1 DEF Ledgers
<1> QED BY <1>1, <1>4, <1>5

\* What reserving puts there.
LEMMA ReserveIs ==
  ASSUME NEW l \in Ledgers, NEW u \in Users, NEW t \in Tokens, NEW a \in Amounts
  PROVE  \E b \in Balances :
           /\ b.available = Sub(l[u][t].available, a) /\ b.reserved = Add(l[u][t].reserved, a)
           /\ Reserve(l, u, t, a) \in Ledgers
           /\ \A v \in Users, s \in Tokens : Reserve(l, u, t, a)[v][s] = IF v = u /\ s = t THEN b ELSE l[v][s]
<1> DEFINE b == [available |-> Sub(l[u][t].available, a), reserved |-> Add(l[u][t].reserved, a)]
           x == Sub(l[u][t].available, a)
           y == Add(l[u][t].reserved, a)
           half == [l EXCEPT ![u][t].available = x]
<1>1. b \in Balances /\ x \in Amounts /\ y \in Amounts
  BY LedgersAt, SumsOfWords DEF Balances
<1>2. Reserve(l, u, t, a) = [half EXCEPT ![u][t].reserved = y]
  BY DEF Reserve
<1> HIDE DEF x, y
<1>3. /\ half \in [Users -> [Tokens -> [available : Amounts, reserved : Amounts]]]
      /\ \A v \in Users, s \in Tokens :
           half[v][s] = IF v = u /\ s = t THEN [available |-> x, reserved |-> l[u][t].reserved] ELSE l[v][s]
  BY <1>1 DEF Ledgers, Balances
<1> HIDE DEF half
<1>4. PICK after : after = Reserve(l, u, t, a) /\ after = [half EXCEPT ![u][t].reserved = y]
  BY <1>2
<1>5. /\ after \in [Users -> [Tokens -> [available : Amounts, reserved : Amounts]]]
      /\ \A v \in Users, s \in Tokens :
           after[v][s] = IF v = u /\ s = t THEN [available |-> x, reserved |-> y] ELSE half[v][s]
  BY <1>1, <1>3, <1>4
<1>6. [available |-> x, reserved |-> y] = b
  BY DEF x, y
<1> HIDE DEF b
<1>7. after \in Ledgers /\ \A v \in Users, s \in Tokens : after[v][s] = IF v = u /\ s = t THEN b ELSE l[v][s]
  BY <1>3, <1>5, <1>6 DEF Ledgers, Balances
<1>8. b.available = Sub(l[u][t].available, a) /\ b.reserved = Add(l[u][t].reserved, a)
  BY DEF b
<1> QED BY <1>1, <1>4, <1>7, <1>8

\* A credit adds to what its user holds, up to a word, and to nobody else's.
LEMMA CreditHolds ==
  ASSUME NEW l \in Ledgers, NEW u \in Users, NEW t \in Tokens, NEW a \in Amounts
  PROVE  /\ Credit(l, u, t, a) \in Ledgers
         /\ \A v \in Users, s \in Tokens : v # u \/ s # t => Credit(l, u, t, a)[v][s] = l[v][s]
         /\ Held(l[u][t]) + a < Word => Held(Credit(l, u, t, a)[u][t]) = Held(l[u][t]) + a
<1>1. PICK b \in Balances :
        /\ b.available = Add(l[u][t].available, a) /\ b.reserved = l[u][t].reserved
        /\ Credit(l, u, t, a) \in Ledgers
        /\ \A v \in Users, s \in Tokens : Credit(l, u, t, a)[v][s] = IF v = u /\ s = t THEN b ELSE l[v][s]
  BY CreditIs
<1>2. PICK x \in Amounts, r \in Amounts :
        x = l[u][t].available /\ r = l[u][t].reserved /\ Held(l[u][t]) = Add(x, r) /\ Held(b) = Add(Add(x, a), r)
  BY <1>1, LedgersAt DEF Held
<1>3. Held(l[u][t]) + a < Word => Held(b) = Held(l[u][t]) + a
  BY <1>2, HoldsMore
<1>4. Credit(l, u, t, a)[u][t] = b /\ \A v \in Users, s \in Tokens : v # u \/ s # t => Credit(l, u, t, a)[v][s] = l[v][s]
  BY <1>1
<1> QED BY <1>1, <1>3, <1>4

\* Reserving moves collateral; what a user holds stays.
LEMMA ReserveHolds ==
  ASSUME NEW l \in Ledgers, NEW u \in Users, NEW t \in Tokens, NEW a \in Amounts
  PROVE  /\ Reserve(l, u, t, a) \in Ledgers
         /\ \A v \in Users, s \in Tokens : Held(Reserve(l, u, t, a)[v][s]) = Held(l[v][s])
<1>1. PICK b \in Balances :
        /\ b.available = Sub(l[u][t].available, a) /\ b.reserved = Add(l[u][t].reserved, a)
        /\ Reserve(l, u, t, a) \in Ledgers
        /\ \A v \in Users, s \in Tokens : Reserve(l, u, t, a)[v][s] = IF v = u /\ s = t THEN b ELSE l[v][s]
  BY ReserveIs
<1>2. Held(b) = Held(l[u][t])
  <2>1. PICK x \in Amounts, r \in Amounts :
          x = l[u][t].available /\ r = l[u][t].reserved /\ Held(l[u][t]) = Add(x, r)
    BY LedgersAt
  <2>2. Held(b) = Add(Sub(x, a), Add(r, a))
    BY <1>1, <2>1 DEF Held
  <2> QED BY <2>1, <2>2, MovedIsHeld
<1> QED BY <1>1, <1>2

\* Releasing moves it back; what a user holds stays.
LEMMA ReleaseHolds ==
  ASSUME NEW l \in Ledgers, NEW u \in Users, NEW t \in Tokens, NEW a \in Amounts
  PROVE  /\ Release(l, u, t, a) \in Ledgers
         /\ \A v \in Users, s \in Tokens : Held(Release(l, u, t, a)[v][s]) = Held(l[v][s])
<1>1. PICK spent \in Balances :
        /\ spent.available = l[u][t].available /\ spent.reserved = Sub(l[u][t].reserved, a)
        /\ Spend(l, u, t, a) \in Ledgers
        /\ \A v \in Users, s \in Tokens : Spend(l, u, t, a)[v][s] = IF v = u /\ s = t THEN spent ELSE l[v][s]
  BY SpendIs
<1>2. PICK m \in Ledgers : m = Spend(l, u, t, a)
  BY <1>1
<1>3. PICK b \in Balances :
        /\ b.available = Add(m[u][t].available, a) /\ b.reserved = m[u][t].reserved
        /\ Credit(m, u, t, a) \in Ledgers
        /\ \A v \in Users, s \in Tokens : Credit(m, u, t, a)[v][s] = IF v = u /\ s = t THEN b ELSE m[v][s]
  BY CreditIs
<1>4. Release(l, u, t, a) = Credit(m, u, t, a)
  BY <1>2 DEF Release
<1>5. Held(b) = Held(l[u][t])
  <2>1. PICK x \in Amounts, r \in Amounts :
          x = l[u][t].available /\ r = l[u][t].reserved /\ Held(l[u][t]) = Add(x, r)
    BY LedgersAt
  <2>2. m[u][t].available = x /\ m[u][t].reserved = Sub(r, a)
    BY <1>1, <1>2, <2>1
  <2>3. Held(b) = Add(Add(x, a), Sub(r, a))
    BY <1>3, <2>2 DEF Held
  <2>4. Add(x, a) \in Amounts /\ Sub(r, a) \in Amounts
    BY SumsOfWords
  <2>5. Add(Add(x, a), Sub(r, a)) = Add(Sub(r, a), Add(x, a)) /\ Add(x, r) = Add(r, x)
    BY <2>4, AddCommutes
  <2>6. Add(Sub(r, a), Add(x, a)) = Add(r, x)
    BY MovedIsHeld
  <2> QED BY <2>1, <2>3, <2>5, <2>6
<1>6. \A v \in Users, s \in Tokens : m[v][s] = IF v = u /\ s = t THEN spent ELSE l[v][s]
  BY <1>1, <1>2
<1>7. \A v \in Users, s \in Tokens : Held(Credit(m, u, t, a)[v][s]) = Held(l[v][s])
  BY <1>3, <1>5, <1>6
<1> QED BY <1>3, <1>4, <1>7

\* Sums of deposits only grow.
LEMMA AddsGrow ==
  ASSUME NEW d \in Seq(Events), NEW b, NEW u, NEW t, NEW n \in Nat, n = Len(d),
         NEW g, Adds(g, d, b, u, t, n)
  PROVE  \A i \in 0..n : g[i] \in Nat /\ g[i] <= g[n]
<1>1. /\ g[0] = 0
      /\ \A i \in 0..(n - 1) : g[i + 1] = g[i] + Counted(d[i + 1], b, u, t)
  BY AddsUp
<1>2. \A i \in 1..n : Counted(d[i], b, u, t) \in Nat
  BY ElementOfSeq, CountedTyped
<1> DEFINE Good == {i \in 0..n : g[i] \in Nat /\ \A j \in 0..i : g[j] \in Nat /\ g[j] <= g[i]}
<1>3. 0 \in Good
  BY <1>1
<1>4. ASSUME NEW i \in 0..(n - 1), i \in Good PROVE i + 1 \in Good
  <2>1. i + 1 \in 0..n /\ i + 1 \in 1..n
    OBVIOUS
  <2>2. PICK a \in Nat : a = Counted(d[i + 1], b, u, t)
    BY <1>2, <2>1
  <2>3. g[i] \in Nat /\ g[i + 1] = g[i] + a /\ \A j \in 0..i : g[j] \in Nat /\ g[j] <= g[i]
    BY <1>1, <1>4, <2>2
  <2>4. g[i + 1] \in Nat /\ g[i] <= g[i + 1]
    BY <2>3
  <2>5. \A j \in 0..(i + 1) : g[j] \in Nat /\ g[j] <= g[i + 1]
    <3> SUFFICES ASSUME NEW j \in 0..(i + 1) PROVE g[j] \in Nat /\ g[j] <= g[i + 1]
      OBVIOUS
    <3>1. CASE j = i + 1
      BY <2>4, <3>1
    <3>2. CASE j \in 0..i
      <4>1. g[j] \in Nat /\ g[j] <= g[i]
        BY <2>3, <3>2
      <4> QED BY <2>3, <2>4, <4>1
    <3> QED BY <3>1, <3>2
  <2> QED BY <2>1, <2>4, <2>5
<1>5. n \in Good
  <2> HIDE DEF Good
  <2>1. \A i \in 0..n : i \in Good
    BY <1>3, <1>4, CountingUp
  <2> QED BY <2>1
<1> QED BY <1>5

\* g credits the first n events, as the recursion of CreditAll does.
Credits(g, l, d, n) ==
  g = [i \in 0..n |->
         IF i = 0 THEN l
         ELSE Credit(g[i - 1], d[i].deposit.user, d[i].deposit.token, d[i].deposit.amount)]

\* The recursive function that CreditAll chooses exists, up to any number of deposits.
LEMMA CreditAllUnfold ==
  ASSUME NEW l, NEW d, Len(d) \in Nat
  PROVE  \E g : Credits(g, l, d, Len(d)) /\ CreditAll(l, d) = g[Len(d)]
<1> DEFINE N == Len(d)
           Reached == {n \in 0..N : \E g : Credits(g, l, d, n)}
           With(m, e) == Credit(m, e.deposit.user, e.deposit.token, e.deposit.amount)
<1>1. 0 \in Reached
  <2>1. Credits([i \in 0..0 |-> l], l, d, 0)
    BY DEF Credits
  <2> QED BY <2>1
<1>2. ASSUME NEW n \in 0..(N - 1), n \in Reached PROVE n + 1 \in Reached
  <2>1. PICK g : Credits(g, l, d, n)
    BY <1>2
  <2>2. PICK last : last = With(g[n], d[n + 1])
    OBVIOUS
  <2> DEFINE h == [i \in 0..(n + 1) |-> IF i <= n THEN g[i] ELSE last]
  <2>3. \A i \in 0..n : g[i] = IF i = 0 THEN l ELSE With(g[i - 1], d[i])
    BY <2>1 DEF Credits
  <2>4. /\ \A i \in 0..n : h[i] = g[i]
        /\ h[n + 1] = last
    OBVIOUS
  <2> HIDE DEF With
  <2>5. \A i \in 0..(n + 1) : h[i] = IF i = 0 THEN l ELSE With(h[i - 1], d[i])
    <3> SUFFICES ASSUME NEW i \in 0..(n + 1)
                 PROVE  h[i] = IF i = 0 THEN l ELSE With(h[i - 1], d[i])
      OBVIOUS
    <3>1. CASE i = 0
      BY <2>3, <2>4, <3>1
    <3>2. CASE i \in 1..n
      <4>1. i - 1 \in 0..n /\ i \in 0..n /\ i # 0
        BY <3>2
      <4> HIDE DEF h
      <4> QED BY <2>3, <2>4, <4>1
    <3>3. CASE i = n + 1
      <4>1. i - 1 = n /\ n \in 0..n /\ i # 0
        BY <3>3
      <4> HIDE DEF h
      <4> QED BY <2>2, <2>4, <3>3, <4>1
    <3> QED BY <3>1, <3>2, <3>3
  <2>6. h = [i \in 0..(n + 1) |-> h[i]]
    OBVIOUS
  <2>7. Credits(h, l, d, n + 1)
    <3> HIDE DEF h
    <3> QED BY <2>5, <2>6 DEF Credits, With
  <2> QED BY <2>7
<1>3. PICK g : Credits(g, l, d, N)
  <2>1. \A n \in 0..N : n \in Reached
    <3> HIDE DEF Reached, N
    <3> QED BY <1>1, <1>2, CountingUp, N \in Nat DEF N
  <2>2. N \in 0..N
    OBVIOUS
  <2> QED BY <2>1, <2>2
<1> DEFINE chosen == CHOOSE f : f = [i \in 0..Len(d) |->
             IF i = 0 THEN l
             ELSE Credit(f[i - 1], d[i].deposit.user, d[i].deposit.token, d[i].deposit.amount)]
<1>4. Credits(chosen, l, d, N)
  BY <1>3 DEF Credits
<1>5. CreditAll(l, d) = chosen[N]
  BY DEF CreditAll
<1> QED BY <1>4, <1>5

\* Crediting events gives a user what they deposit, as long as a word can hold it.
LEMMA CreditAllHolds ==
  ASSUME NEW l \in Ledgers, NEW d \in Seq(Events), \A i \in DOMAIN d : d[i].block_number > 0
  PROVE  /\ CreditAll(l, d) \in Ledgers
         /\ \A u \in Users, t \in Tokens :
              Held(l[u][t]) + Deposited(d, 0, u, t) < Word
              => Held(CreditAll(l, d)[u][t]) = Held(l[u][t]) + Deposited(d, 0, u, t)
<1>1. PICK n \in Nat : n = Len(d) /\ DOMAIN d = 1..n
  BY LenProperties
<1>2. PICK g : Credits(g, l, d, n) /\ CreditAll(l, d) = g[n]
  BY <1>1, CreditAllUnfold
<1>3. /\ g[0] = l
      /\ \A i \in 0..(n - 1) :
           g[i + 1] = Credit(g[i], d[i + 1].deposit.user, d[i + 1].deposit.token, d[i + 1].deposit.amount)
  <2>1. 0 \in 0..n
    OBVIOUS
  <2>2. ASSUME NEW i \in 0..(n - 1)
        PROVE g[i + 1] = Credit(g[i], d[i + 1].deposit.user, d[i + 1].deposit.token, d[i + 1].deposit.amount)
    <3>1. i + 1 \in 0..n /\ i + 1 # 0 /\ (i + 1) - 1 = i
      OBVIOUS
    <3> QED BY <1>2, <3>1 DEF Credits
  <2> QED BY <1>2, <2>1, <2>2 DEF Credits
<1>4. \A i \in 1..n : /\ d[i].deposit.user \in Users /\ d[i].deposit.token \in Tokens
                      /\ d[i].deposit.amount \in Amounts /\ d[i].block_number \in Nat /\ d[i].block_number > 0
  <2>1. \A i \in 1..n : d[i] \in Events /\ d[i].block_number > 0
    BY <1>1, ElementOfSeq
  <2> QED BY <2>1 DEF Events, Deposits
<1> DEFINE Typed == {i \in 0..n : g[i] \in Ledgers}
<1>5. \A i \in 0..n : g[i] \in Ledgers
  <2>1. 0 \in Typed
    BY <1>3
  <2>2. ASSUME NEW i \in 0..(n - 1), i \in Typed PROVE i + 1 \in Typed
    <3>1. i + 1 \in 0..n /\ i + 1 \in 1..n
      OBVIOUS
    <3>2. PICK u \in Users, t \in Tokens, a \in Amounts :
            u = d[i + 1].deposit.user /\ t = d[i + 1].deposit.token /\ a = d[i + 1].deposit.amount
      BY <1>4, <3>1
    <3>3. PICK m \in Ledgers : m = g[i]
      BY <2>2
    <3>4. g[i + 1] = Credit(m, u, t, a)
      BY <1>3, <3>2, <3>3
    <3>5. g[i + 1] \in Ledgers
      BY <3>4, CreditHolds
    <3> QED BY <3>1, <3>5
  <2>3. \A i \in 0..n : i \in Typed
    <3> HIDE DEF Typed
    <3> QED BY <2>1, <2>2, CountingUp
  <2> QED BY <2>3
<1>6. ASSUME NEW u \in Users, NEW t \in Tokens, Held(l[u][t]) + Deposited(d, 0, u, t) < Word
      PROVE  Held(g[n][u][t]) = Held(l[u][t]) + Deposited(d, 0, u, t)
  <2>1. PICK h : Adds(h, d, 0, u, t, n) /\ Deposited(d, 0, u, t) = h[n]
    BY <1>1, DepositedUnfold
  <2>2. /\ h[0] = 0
        /\ \A i \in 0..(n - 1) : h[i + 1] = h[i] + Counted(d[i + 1], 0, u, t)
    <3>1. PICK b : b = 0
      OBVIOUS
    <3>2. Adds(h, d, b, u, t, n)
      BY <2>1, <3>1
    <3>3. /\ h[0] = 0
          /\ \A i \in 0..(n - 1) : h[i + 1] = h[i] + Counted(d[i + 1], b, u, t)
      BY <3>2, AddsUp
    <3> QED BY <3>1, <3>3
  <2>3. \A i \in 0..n : h[i] \in Nat /\ h[i] <= h[n]
    BY <1>1, <2>1, AddsGrow
  <2>4. PICK held \in Nat : held = Held(l[u][t])
    <3>1. Held(l[u][t]) \in Amounts
      BY LedgersAt
    <3> QED BY <3>1, WordAssumption DEF Amounts
  <2> DEFINE Good == {i \in 0..n : Held(g[i][u][t]) = held + h[i]}
  <2>5. 0 \in Good
    BY <1>3, <2>2, <2>4
  <2>6. ASSUME NEW i \in 0..(n - 1), i \in Good PROVE i + 1 \in Good
    <3>1. i + 1 \in 0..n /\ i + 1 \in 1..n /\ i \in 0..n
      OBVIOUS
    <3>2. PICK v \in Users, s \in Tokens, a \in Amounts :
            v = d[i + 1].deposit.user /\ s = d[i + 1].deposit.token /\ a = d[i + 1].deposit.amount
      BY <1>4, <3>1
    <3>3. PICK m \in Ledgers : m = g[i]
      BY <1>5, <3>1
    <3>4. g[i + 1] = Credit(m, v, s, a)
      BY <1>3, <3>2, <3>3
    <3>5. Held(m[u][t]) = held + h[i]
      BY <2>6, <3>3
    <3>6. Counted(d[i + 1], 0, u, t) = IF v = u /\ s = t THEN a ELSE 0
      <4>1. d[i + 1].block_number > 0
        BY <1>4, <3>1
      <4> QED BY <3>2, <4>1 DEF Counted
    <3>7. CASE v = u /\ s = t
      <4>1. h[i + 1] = h[i] + a /\ a \in Nat /\ h[i] \in Nat
        BY <2>2, <2>3, <3>1, <3>6, <3>7, WordAssumption DEF Amounts
      <4>2. (held + h[i]) + a < Word
        <5>1. h[i + 1] <= h[n] /\ h[n] \in Nat /\ held + h[n] < Word
          BY <1>6, <2>1, <2>3, <2>4, <3>1
        <5> QED BY <4>1, <5>1, WordAssumption
      <4>3. Held(m[u][t]) + a < Word
        BY <3>5, <4>2
      <4>4. Held(Credit(m, u, t, a)[u][t]) = Held(m[u][t]) + a
        BY <4>3, CreditHolds
      <4>5. (held + h[i]) + a = held + (h[i] + a)
        BY <4>1
      <4>6. Held(g[i + 1][u][t]) = held + h[i + 1]
        BY <3>4, <3>5, <3>7, <4>1, <4>4, <4>5
      <4> QED BY <3>1, <4>6
    <3>8. CASE ~(v = u /\ s = t)
      <4>1. Credit(m, v, s, a)[u][t] = m[u][t]
        BY <3>8, CreditHolds
      <4>2. h[i + 1] = h[i]
        BY <2>2, <2>3, <3>1, <3>6, <3>8
      <4>3. Held(g[i + 1][u][t]) = held + h[i + 1]
        BY <3>4, <3>5, <4>1, <4>2
      <4> QED BY <3>1, <4>3
    <3> QED BY <3>7, <3>8
  <2>7. n \in Good
    <3> HIDE DEF Good
    <3>1. \A i \in 0..n : i \in Good
      BY <2>5, <2>6, CountingUp
    <3> QED BY <3>1
  <2> QED BY <2>1, <2>4, <2>7
<1>7. n \in 0..n
  OBVIOUS
<1> QED BY <1>2, <1>5, <1>6, <1>7

-----------------------------------------------------------------------------
(* Types.                                                                  *)

\* What the task may have to write: rows, and a cursor within the chain.
Writes == Rows \cup [kind : {"cursor"}, block : 0..Len(chain)]

\* The types that every step preserves; TypeOK follows.
Typed ==
  /\ chain \in Chains /\ node \in 1..Len(chain)
  /\ ledger \in Ledgers /\ resting \subseteq Users \X Tokens
  /\ db \in [balances : Ledgers, last_synced_block : 0..Len(chain)]
  /\ serving \in BOOLEAN
  /\ phase \in {"head", "subscribe", "sync", "live"}
  /\ phase = "live" => serving
  /\ phase \in {"sync", "live"} => stream \in Seq(EventsAt(1, Len(chain)))
  /\ phase \notin {"sync", "live"} => stream = NoStream /\ writing = <<>>
  /\ head \in 0..Len(chain) /\ current \in 0..(Len(chain) + 1)
  /\ phase = "sync" => current >= 1
  /\ last_synced \in 0..Len(chain) /\ last_persisted_block \in 0..Len(chain)
  /\ writing \in Seq(Writes)
  /\ faults \in 0..MaxFaults

\* A chain is a sequence of blocks that reaches the deploy block.
LEMMA ChainTyped ==
  ASSUME chain \in Chains
  PROVE  /\ chain \in Seq(Seq(Deposits)) /\ Len(chain) \in Nat /\ DOMAIN chain = 1..Len(chain)
         /\ contract_deploy_block \in 1..Len(chain)
  BY ChainsAssumption, SyncAssumption, LenProperties

\* A subscription with deposits of the chain is not what there is without one.
LEMMA StreamIsOne ==
  ASSUME NEW n, NEW d \in Seq(EventsAt(1, n)), n \in Nat
  PROVE  d # NoStream
<1> SUFFICES ASSUME d = NoStream PROVE FALSE
  OBVIOUS
<1>1. Len(d) = 1 /\ d[1] = [block_number |-> NoBlock]
  BY DEF NoStream
<1>2. d[1] \in EventsAt(1, n)
  <2>1. PICK i \in 1..Len(d) : i = 1
    BY <1>1
  <2>2. d[i] \in EventsAt(1, n)
    BY ElementOfSeq
  <2> QED BY <2>1, <2>2
<1> QED BY <1>1, <1>2 DEF EventsAt, NoBlock

\* The rows of a chunk, and the cursor behind them.
LEMMA RowsThenCursor ==
  ASSUME NEW W, NEW rows \in Seq(W), NEW x \in W, NEW w, w = rows \o <<x>>
  PROVE  /\ w \in Seq(W) /\ w # <<>> /\ Len(rows) \in Nat /\ Len(w) = Len(rows) + 1
         /\ w[Len(w)] = x /\ \A i \in 1..Len(rows) : w[i] = rows[i]
<1>1. PICK one \in Seq(W) : one = <<x>> /\ Len(one) = 1 /\ one[1] = x
  <2>1. <<x>> \in Seq(W) /\ Len(<<x>>) = 1 /\ <<x>>[1] = x
    OBVIOUS
  <2> QED BY <2>1
<1>2. PICK n \in Nat : n = Len(rows)
  BY LenProperties
<1>3. w = rows \o one
  BY <1>1
<1>4. /\ w \in Seq(W) /\ Len(w) = n + 1
      /\ \A i \in 1..(n + 1) : w[i] = IF i <= n THEN rows[i] ELSE one[i - n]
  BY <1>1, <1>2, <1>3, ConcatProperties
<1>5. n + 1 \in 1..(n + 1) /\ ~(n + 1 <= n) /\ (n + 1) - n = 1 /\ n + 1 # 0
  OBVIOUS
<1>6. w[n + 1] = x
  BY <1>1, <1>4, <1>5
<1>7. \A i \in 1..n : w[i] = rows[i]
  BY <1>4
<1>8. w # <<>>
  BY <1>4, <1>5, EmptySeq
<1> QED BY <1>2, <1>4, <1>6, <1>7, <1>8

\* The rows of deposits that were credited.
LEMMA RowsTyped ==
  ASSUME NEW l \in Ledgers, NEW d \in Seq(Events), NEW rows,
         rows = [i \in DOMAIN d |-> BalanceSave(l, d[i])]
  PROVE  /\ rows \in Seq(Rows) /\ Len(rows) = Len(d)
         /\ \A i \in 1..Len(d) : rows[i] = BalanceSave(l, d[i])
<1>1. PICK n \in Nat : n = Len(d) /\ DOMAIN d = 1..n
  BY LenProperties
<1>2. ASSUME NEW i \in 1..n PROVE BalanceSave(l, d[i]) \in Rows
  <2>1. d[i] \in Events
    BY <1>1, ElementOfSeq
  <2>2. PICK u \in Users, t \in Tokens : u = d[i].deposit.user /\ t = d[i].deposit.token
    BY <2>1 DEF Events, Deposits
  <2>3. l[u][t] \in Balances
    BY LedgersAt
  <2> QED BY <2>2, <2>3 DEF BalanceSave, Rows
<1>3. rows \in [1..n -> Rows]
  BY <1>1, <1>2
<1>4. rows \in Seq(Rows) /\ Len(rows) = n
  BY <1>3, SeqDef, LenProperties
<1> QED BY <1>1, <1>4

\* A chunk that is synchronised: it ends at or behind its start, not behind the head.
LEMMA ChunkTyped ==
  ASSUME Typed, phase = "sync", current <= head
  PROVE  ChunkEnd \in current..head /\ ChunkEnd \in 1..Len(chain)
<1>1. current \in Nat /\ head \in Nat /\ current >= 1 /\ head <= Len(chain) /\ Len(chain) \in Nat
  BY ChainTyped DEF Typed
<1>2. current + CHUNK_SIZE - 1 \in Int /\ current + CHUNK_SIZE - 1 >= current
  BY <1>1, SyncAssumption
<1>3. PICK x \in Int : x = current + CHUNK_SIZE - 1
  BY <1>2
<1>4. ChunkEnd = IF x <= head THEN x ELSE head
  BY <1>1, <1>3, MinOfTwo DEF ChunkEnd
<1> QED BY <1>1, <1>2, <1>3, <1>4

\* The events fetched for a chunk are of its blocks.
LEMMA RangeTyped ==
  ASSUME chain \in Chains, NEW f \in 1..Len(chain), NEW n \in f..Len(chain)
  PROVE  DepositsIn(f, n) \in Seq(EventsAt(f, n)) /\ DepositsIn(f, n) \in Seq(EventsAt(1, Len(chain)))
         /\ DepositsIn(f, n) \in Seq(Events)
<1>1. chain \in Seq(Seq(Deposits)) /\ Len(chain) \in Nat
  BY ChainTyped
<1>2. f \in Nat \ {0} /\ n \in Nat /\ f - 1 <= n /\ n <= Len(chain)
  BY <1>1
<1>3. DepositsIn(f, n) \in Seq(EventsAt(f, n))
  BY <1>1, <1>2, EventsInTyped DEF DepositsIn
<1>4. EventsAt(f, n) \subseteq EventsAt(1, Len(chain))
  BY <1>1, <1>2 DEF EventsAt
<1> QED BY <1>3, <1>4, SeqMonotonic, EventsAtEvents

\* The first state has its types.
LEMMA InitTyped == Init => Typed
<1> SUFFICES ASSUME Init PROVE Typed
  OBVIOUS
<1> USE DEF Init
<1>1. chain \in Chains /\ node \in 1..Len(chain) /\ Len(chain) \in Nat
  BY ChainTyped
<1>2. ZeroLedger \in Ledgers
  BY WordAssumption DEF ZeroLedger, Ledgers, Balances, Amounts
<1>3. db \in [balances : Ledgers, last_synced_block : 0..Len(chain)]
  BY <1>1, <1>2 DEF NoBlock
<1>4. writing \in Seq(Writes)
  OBVIOUS
<1>5. faults \in 0..MaxFaults /\ 0 \in 0..Len(chain) /\ 0 \in 0..(Len(chain) + 1)
  BY <1>1, SyncAssumption
<1> QED BY <1>1, <1>2, <1>3, <1>4, <1>5 DEF Typed

\* No step changes the chain that is explored.
LEMMA ChainStays == Next => chain' = chain
BY DEF Next, NodeAdvances, Task, GetHead, Subscribe, SyncChunk, GoLive, SkipCovered, CreditLive, SaveBalance,
       SetLastSyncedBlock, Reconnect, Restart, NewConnection, SubmitOrder, CancelOrder, chain_vars

\* The events of a new block extend the subscription.
LEMMA NodeAdvancesTyped == Typed /\ NodeAdvances => Typed'
<1> SUFFICES ASSUME Typed, NodeAdvances PROVE Typed'
  OBVIOUS
<1>1. Len(chain) \in Nat /\ node \in 1..Len(chain) /\ node < Len(chain) /\ node' = node + 1 /\ chain' = chain
  BY ChainTyped DEF Typed, NodeAdvances
<1>2. node' \in 1..Len(chain)
  BY <1>1
<1>3. ASSUME phase \in {"sync", "live"} PROVE stream' \in Seq(EventsAt(1, Len(chain)))
  <2>1. PICK s \in Seq(EventsAt(1, Len(chain))) : s = stream
    BY <1>3 DEF Typed
  <2>2. s # NoStream
    BY <1>1, StreamIsOne
  <2>3. PICK n \in 1..Len(chain) : n = node + 1 /\ n \in n..Len(chain)
    BY <1>1
  <2>4. PICK d \in Seq(EventsAt(1, Len(chain))) : d = DepositsIn(node + 1, node + 1)
    BY <2>3, RangeTyped DEF Typed
  <2>5. stream' = s \o d
    BY <2>1, <2>2, <2>4 DEF NodeAdvances
  <2> QED BY <2>5, ConcatProperties
<1>4. phase \notin {"sync", "live"} => stream' = NoStream
  BY DEF NodeAdvances, Typed
<1> QED BY <1>1, <1>2, <1>3, <1>4 DEF Typed, NodeAdvances, state_vars, task_vars, Writes

\* The first block to synchronise is in the chain or right behind it.
LEMMA SubscribeTyped == Typed /\ Subscribe => Typed'
<1> SUFFICES ASSUME Typed, Subscribe PROVE Typed'
  OBVIOUS
<1>1. Len(chain) \in Nat /\ contract_deploy_block \in 1..Len(chain) /\ db.last_synced_block \in 0..Len(chain)
  BY ChainTyped DEF Typed
<1>2. current' \in 1..(Len(chain) + 1)
  BY <1>1 DEF Subscribe, StartBlock
<1>3. stream' \in Seq(EventsAt(1, Len(chain)))
  <2>1. <<>> \in Seq(EventsAt(1, Len(chain)))
    OBVIOUS
  <2> QED BY <2>1 DEF Subscribe
<1> QED BY <1>1, <1>2, <1>3 DEF Typed, Subscribe, state_vars, Writes

\* A chunk ends in the chain, and its rows hold balances.
LEMMA SyncChunkTyped == Typed /\ SyncChunk => Typed'
<1> SUFFICES ASSUME Typed, SyncChunk PROVE Typed'
  OBVIOUS
<1>1. phase = "sync" /\ current <= head /\ Len(chain) \in Nat /\ chain' = chain
  BY ChainTyped DEF SyncChunk, Typed, chain_vars
<1>2. PICK end \in 1..Len(chain) : end = ChunkEnd /\ end \in current..head
  BY <1>1, ChunkTyped
<1>3. PICK f \in 1..Len(chain) : f = current /\ end \in f..Len(chain)
  BY <1>1, <1>2 DEF Typed
<1>4. PICK d \in Seq(Events) : d = DepositsIn(current, ChunkEnd) /\ d \in Seq(EventsAt(1, Len(chain)))
  BY <1>2, <1>3, RangeTyped DEF Typed
<1>5. \A i \in DOMAIN d : d[i].block_number > 0
  <2> SUFFICES ASSUME NEW i \in DOMAIN d PROVE d[i].block_number > 0
    OBVIOUS
  <2>1. d[i] \in EventsAt(1, Len(chain))
    BY <1>4, LenProperties, ElementOfSeq
  <2> QED BY <1>1, <2>1 DEF EventsAt
<1>6. ledger' = CreditAll(ledger, d) /\ ledger' \in Ledgers
  <2>1. ledger' = CreditAll(ledger, d)
    BY <1>4 DEF SyncChunk
  <2> QED BY <1>5, <2>1, CreditAllHolds DEF Typed
<1>7. PICK rows : rows = [i \in DOMAIN d |-> BalanceSave(ledger', d[i])]
  OBVIOUS
<1>8. rows \in Seq(Rows)
  BY <1>6, <1>7, RowsTyped
<1>9. rows \in Seq(Writes)
  BY <1>8, SeqMonotonic DEF Writes
<1>10. PICK x \in Writes : x = CursorSave(end)
  <2>1. CursorSave(end) \in [kind : {"cursor"}, block : 0..Len(chain)]
    BY <1>1 DEF CursorSave
  <2> QED BY <2>1 DEF Writes
<1>11. writing' = rows \o <<x>>
  BY <1>2, <1>4, <1>7, <1>10 DEF SyncChunk
<1>12. writing' \in Seq(Writes)
  BY <1>9, <1>11, RowsThenCursor
<1>13. writing' \in Seq(Writes')
  BY <1>1, <1>12 DEF Writes
<1>14. current' \in 1..(Len(chain) + 1)
  BY <1>1, <1>2 DEF SyncChunk
<1> QED BY <1>1, <1>6, <1>13, <1>14 DEF Typed, SyncChunk, chain_vars

\* The boundary is the later of cursor and head.
LEMMA BoundaryTyped ==
  Typed => /\ Boundary \in 0..Len(chain)
           /\ Boundary = IF db.last_synced_block >= head THEN db.last_synced_block ELSE head
<1> SUFFICES ASSUME Typed
             PROVE  /\ Boundary \in 0..Len(chain)
                    /\ Boundary = IF db.last_synced_block >= head THEN db.last_synced_block ELSE head
  OBVIOUS
<1>1. PICK c \in 0..Len(chain) : c = db.last_synced_block
  BY DEF Typed
<1>2. head \in 0..Len(chain) /\ Len(chain) \in Nat
  BY ChainTyped DEF Typed
<1>3. c \in Int /\ head \in Int
  BY <1>2
<1>4. Boundary = IF c >= head THEN c ELSE head
  BY <1>1, <1>3, MaxOfTwo DEF Boundary
<1> QED BY <1>1, <1>2, <1>4

\* The live loop begins with a boundary in the chain.
LEMMA GoLiveTyped == Typed /\ GoLive => Typed'
BY BoundaryTyped DEF Typed, GoLive, chain_vars, Writes

\* The first event of the subscription.
LEMMA StreamHead ==
  ASSUME Typed, phase = "live", stream # <<>>
  PROVE  /\ stream \in Seq(EventsAt(1, Len(chain))) /\ Head(stream) \in EventsAt(1, Len(chain))
         /\ Head(stream) \in Events /\ Head(stream).block_number \in 1..Len(chain)
         /\ Tail(stream) \in Seq(EventsAt(1, Len(chain)))
         /\ Len(stream) \in Nat /\ Len(Tail(stream)) = Len(stream) - 1 /\ Head(stream) = stream[1] /\ 1 \in 1..Len(stream)
         /\ \A i \in 1..(Len(stream) - 1) : Tail(stream)[i] = stream[i + 1]
<1>1. PICK s \in Seq(EventsAt(1, Len(chain))) : s = stream /\ s # <<>>
  BY DEF Typed
<1>2. /\ Head(s) \in EventsAt(1, Len(chain)) /\ Tail(s) \in Seq(EventsAt(1, Len(chain)))
      /\ Len(Tail(s)) = Len(s) - 1 /\ \A i \in 1..Len(Tail(s)) : Tail(s)[i] = s[i + 1]
  BY <1>1, HeadTailProperties
<1>3. Head(s) \in Events /\ Head(s).block_number \in 1..Len(chain)
  BY <1>2 DEF EventsAt
<1>4. Len(s) \in Nat /\ Len(s) # 0 /\ Head(s) = s[1]
  BY <1>1, LenProperties, EmptySeq
<1>5. 1 \in 1..Len(s)
  BY <1>4
<1> QED BY <1>1, <1>2, <1>3, <1>4, <1>5

\* What is left of the subscription is a subscription.
LEMMA SkipCoveredTyped == Typed /\ SkipCovered => Typed'
<1> SUFFICES ASSUME Typed, SkipCovered PROVE Typed'
  OBVIOUS
<1>1. Tail(stream) \in Seq(EventsAt(1, Len(chain)))
  BY StreamHead DEF SkipCovered
<1> QED BY <1>1 DEF Typed, SkipCovered, state_vars, task_vars, Writes

\* A credit of the live loop: a row, and perhaps the cursor of the event's block.
LEMMA CreditLiveTyped == Typed /\ CreditLive => Typed'
<1> SUFFICES ASSUME Typed, CreditLive PROVE Typed'
  OBVIOUS
<1>1. Tail(stream) \in Seq(EventsAt(1, Len(chain))) /\ Len(chain) \in Nat /\ chain' = chain
  BY StreamHead, ChainTyped DEF CreditLive, Typed
<1>2. PICK x \in Events : x = Head(stream) /\ x.block_number \in 1..Len(chain)
  BY StreamHead DEF CreditLive
<1>3. PICK d \in Seq(Events) : d = <<x>> /\ Len(d) = 1 /\ d[1] = x /\ DOMAIN d = 1..1
  <2>1. <<x>> \in Seq(Events) /\ Len(<<x>>) = 1 /\ <<x>>[1] = x /\ DOMAIN <<x>> = 1..1
    OBVIOUS
  <2> QED BY <2>1
<1>4. ledger' = CreditAll(ledger, d) /\ ledger' \in Ledgers
  <2>1. ledger' = CreditAll(ledger, d)
    BY <1>2, <1>3 DEF CreditLive
  <2>2. \A i \in DOMAIN d : d[i].block_number > 0
    BY <1>1, <1>2, <1>3
  <2> QED BY <2>1, <2>2, CreditAllHolds DEF Typed
<1>5. PICK row \in Writes : row = BalanceSave(ledger', x)
  <2>1. PICK u \in Users, t \in Tokens : u = x.deposit.user /\ t = x.deposit.token
    BY DEF Events, Deposits
  <2>2. ledger'[u][t] \in Balances
    BY <1>4, LedgersAt
  <2>3. BalanceSave(ledger', x) \in Rows
    BY <2>1, <2>2 DEF BalanceSave, Rows
  <2> QED BY <2>3 DEF Writes
<1>6. PICK y \in Writes : y = CursorSave(x.block_number)
  <2>1. CursorSave(x.block_number) \in [kind : {"cursor"}, block : 0..Len(chain)]
    BY <1>1, <1>2 DEF CursorSave
  <2> QED BY <2>1 DEF Writes
<1>7. writing' \in Seq(Writes)
  <2>1. CASE x.block_number > last_persisted_block
    <3>1. writing' = <<row>> \o <<y>>
      BY <1>2, <1>5, <1>6, <2>1 DEF CreditLive, AdvanceBlock
    <3>2. <<row>> \in Seq(Writes) /\ <<y>> \in Seq(Writes)
      OBVIOUS
    <3> QED BY <3>1, <3>2, ConcatProperties
  <2>2. CASE ~(x.block_number > last_persisted_block)
    <3>1. writing' = <<row>> \o <<>>
      BY <1>2, <1>5, <2>2 DEF CreditLive, AdvanceBlock
    <3>2. <<row>> \in Seq(Writes) /\ <<>> \in Seq(Writes)
      OBVIOUS
    <3> QED BY <3>1, <3>2, ConcatProperties
  <2> QED BY <2>1, <2>2
<1>8. last_persisted_block' \in 0..Len(chain)
  <2>1. PICK b \in 1..Len(chain) : b = x.block_number
    BY <1>2
  <2>2. last_persisted_block \in 0..Len(chain) /\ last_persisted_block \in Int /\ b \in Int
    BY <1>1 DEF Typed
  <2>3. last_persisted_block' = Max({last_persisted_block, b})
    BY <1>2, <2>1 DEF CreditLive
  <2>4. last_persisted_block' = IF last_persisted_block >= b THEN last_persisted_block ELSE b
    BY <2>2, <2>3, MaxOfTwo
  <2> QED BY <1>1, <2>2, <2>4
<1> QED BY <1>1, <1>4, <1>7, <1>8 DEF Typed, CreditLive, Writes

\* The next write.
LEMMA NextWrite ==
  ASSUME Typed, writing # <<>>
  PROVE  /\ Head(writing) \in Writes /\ Tail(writing) \in Seq(Writes) /\ Head(writing) = writing[1]
         /\ Len(writing) \in Nat /\ 1 \in 1..Len(writing) /\ Len(Tail(writing)) = Len(writing) - 1
         /\ \A i \in 1..(Len(writing) - 1) : Tail(writing)[i] = writing[i + 1]
         /\ phase \in {"sync", "live"}
<1>1. PICK s \in Seq(Writes) : s = writing /\ s # <<>>
  BY DEF Typed
<1>2. /\ Head(s) \in Writes /\ Tail(s) \in Seq(Writes)
      /\ Len(Tail(s)) = Len(s) - 1 /\ \A i \in 1..Len(Tail(s)) : Tail(s)[i] = s[i + 1]
  BY <1>1, HeadTailProperties
<1>3. Len(s) \in Nat /\ Len(s) # 0 /\ Head(s) = s[1]
  BY <1>1, LenProperties, EmptySeq
<1>4. 1 \in 1..Len(s)
  BY <1>3
<1>5. phase \in {"sync", "live"}
  BY DEF Typed
<1> QED BY <1>1, <1>2, <1>3, <1>4, <1>5

\* A stored row keeps the stored balances a ledger.
LEMMA SaveBalanceTyped == Typed /\ SaveBalance => Typed'
<1> SUFFICES ASSUME Typed, SaveBalance PROVE Typed'
  OBVIOUS
<1>1. Tail(writing) \in Seq(Writes) /\ Head(writing) \in Rows
  <2>1. Tail(writing) \in Seq(Writes) /\ Head(writing) \in Writes /\ Head(writing).kind = "row"
    BY NextWrite DEF SaveBalance
  <2> QED BY <2>1 DEF Writes
<1>2. PICK u \in Users, t \in Tokens, b \in Balances :
        u = Head(writing).user /\ t = Head(writing).token /\ b = Head(writing).balance
  BY <1>1 DEF Rows
<1>3. db' = [db EXCEPT !.balances[u][t] = b] /\ writing' = Tail(writing)
  BY <1>2 DEF SaveBalance
<1>4. db' \in [balances : Ledgers, last_synced_block : 0..Len(chain)]
  BY <1>3 DEF Typed, Ledgers
<1> QED BY <1>1, <1>3, <1>4, NextWrite DEF Typed, SaveBalance, chain_vars, Writes

\* A stored cursor is a block of the chain.
LEMMA SetLastSyncedBlockTyped == Typed /\ SetLastSyncedBlock => Typed'
<1> SUFFICES ASSUME Typed, SetLastSyncedBlock PROVE Typed'
  OBVIOUS
<1>1. Tail(writing) \in Seq(Writes) /\ Head(writing).block \in 0..Len(chain)
  <2>1. Tail(writing) \in Seq(Writes) /\ Head(writing) \in Writes /\ Head(writing).kind = "cursor"
    BY NextWrite DEF SetLastSyncedBlock
  <2> QED BY <2>1 DEF Writes, Rows
<1>2. db' = [db EXCEPT !.last_synced_block = Head(writing).block] /\ writing' = Tail(writing)
  BY DEF SetLastSyncedBlock
<1>3. db' \in [balances : Ledgers, last_synced_block : 0..Len(chain)]
  BY <1>1, <1>2 DEF Typed
<1> QED BY <1>1, <1>2, <1>3, NextWrite DEF Typed, SetLastSyncedBlock, chain_vars, Writes

\* A new connection begins without subscription and without writes.
LEMMA NewConnectionTyped ==
  ASSUME Typed, NewConnection, ledger' \in Ledgers, serving' \in BOOLEAN
  PROVE  Typed'
<1>1. Len(chain) \in Nat /\ node \in 1..Len(chain) /\ faults' \in 0..MaxFaults /\ chain' = chain
  BY ChainTyped, SyncAssumption DEF Typed, NewConnection
<1>2. node' \in 1..Len(chain)
  <2>1. PICK b \in Int : b = node - MaxLag
    BY <1>1, SyncAssumption
  <2>2. Max({1, b}) = IF 1 >= b THEN 1 ELSE b
    BY MaxOfTwo
  <2>3. node' \in Max({1, b})..node
    BY <2>1 DEF NewConnection
  <2> QED BY <1>1, <2>2, <2>3
<1>3. writing' \in Seq(Writes')
  BY DEF NewConnection
<1> QED BY <1>1, <1>2, <1>3 DEF Typed, NewConnection

\* Reserving and releasing keep the ledger a ledger.
LEMMA OrdersTyped ==
  ASSUME Typed, NEW u \in Users, NEW t \in Tokens, SubmitOrder(u, t) \/ CancelOrder(u, t)
  PROVE  Typed'
<1>1. ledger' \in Ledgers
  BY ReserveHolds, ReleaseHolds, SyncAssumption DEF Typed, SubmitOrder, CancelOrder
<1>2. db' \in [balances : Ledgers, last_synced_block : 0..Len(chain)]
  <2>1. db' = [db EXCEPT !.balances = ledger']
    BY DEF SubmitOrder, CancelOrder, SaveSnapshot
  <2> QED BY <1>1, <2>1 DEF Typed
<1>3. resting' \subseteq Users \X Tokens
  BY DEF Typed, SubmitOrder, CancelOrder
<1> QED BY <1>1, <1>2, <1>3 DEF Typed, SubmitOrder, CancelOrder, chain_vars, task_vars, Writes

\* Every step preserves the types.
LEMMA NextTyped == Typed /\ [Next]_vars => Typed'
<1> SUFFICES ASSUME Typed, [Next]_vars PROVE Typed'
  OBVIOUS
<1>1. CASE NodeAdvances
  BY <1>1, NodeAdvancesTyped
<1>2. CASE GetHead
  BY <1>2, ChainTyped DEF GetHead, Typed, chain_vars, state_vars, Writes
<1>3. CASE Subscribe
  BY <1>3, SubscribeTyped
<1>4. CASE SyncChunk
  BY <1>4, SyncChunkTyped
<1>5. CASE GoLive
  BY <1>5, GoLiveTyped
<1>6. CASE SkipCovered
  BY <1>6, SkipCoveredTyped
<1>7. CASE CreditLive
  BY <1>7, CreditLiveTyped
<1>8. CASE SaveBalance
  BY <1>8, SaveBalanceTyped
<1>9. CASE SetLastSyncedBlock
  BY <1>9, SetLastSyncedBlockTyped
<1>10. CASE Reconnect
  BY <1>10, NewConnectionTyped DEF Reconnect, Typed
<1>11. CASE Restart
  BY <1>11, NewConnectionTyped DEF Restart, Typed
<1>12. CASE \E u \in Users, t \in Tokens : SubmitOrder(u, t) \/ CancelOrder(u, t)
  BY <1>12, OrdersTyped
<1>13. CASE UNCHANGED vars
  BY <1>13 DEF vars, chain_vars, state_vars, task_vars, Typed, Writes
<1> QED BY <1>1, <1>2, <1>3, <1>4, <1>5, <1>6, <1>7, <1>8, <1>9, <1>10, <1>11, <1>12, <1>13 DEF Next, Task

\* The type invariant of the run.
LEMMA TypedTypes == Typed => TypeOK
<1> SUFFICES ASSUME Typed PROVE TypeOK
  OBVIOUS
<1>1. Len(chain) \in Nat /\ DOMAIN chain = 1..Len(chain)
  BY ChainTyped DEF Typed
<1>2. \A i \in DOMAIN writing : writing[i] \in Rows \cup Cursors
  <2> SUFFICES ASSUME NEW i \in DOMAIN writing PROVE writing[i] \in Rows \cup Cursors
    OBVIOUS
  <2>1. writing[i] \in Writes
    BY LenProperties, ElementOfSeq DEF Typed
  <2> QED BY <1>1, <2>1 DEF Writes, Cursors
<1>3. phase \in {"sync", "live"} <=> stream # NoStream
  BY <1>1, StreamIsOne DEF Typed
<1> QED BY <1>1, <1>2, <1>3 DEF Typed, TypeOK

-----------------------------------------------------------------------------
(* The order of writes and of events, whether or not balances are exact.   *)

\* Where the cursor is when the writes in hand are done.
NextCursor ==
  IF writing # <<>> /\ writing[Len(writing)].kind = "cursor"
    THEN writing[Len(writing)].block ELSE db.last_synced_block

\* It is at this block, or there is none and there were no deposits so far.
CursorAt(block) == NextCursor = block \/ (NextCursor = NoBlock /\ block < contract_deploy_block)

\* The cursor is written last, and forward; it follows the synchronisation, and
\* then the live loop.
WritesInOrder ==
  /\ \A i \in DOMAIN writing :
       writing[i].kind = "cursor" => i = Len(writing) /\ writing[i].block >= db.last_synced_block
  /\ phase = "sync" =>
       /\ CursorAt(current - 1)
       /\ writing # <<>> => writing[Len(writing)].kind = "cursor"
  /\ phase = "live" =>
       /\ CursorAt(last_persisted_block)
       /\ last_synced <= last_persisted_block
       /\ last_persisted_block = last_synced \/ (NextCursor # NoBlock /\ last_persisted_block <= node)

\* The events of the subscription come in the order of their blocks, and those the
\* live loop will credit are not of a block before the last it stored.
StreamInOrder ==
  phase \in {"sync", "live"} =>
    /\ \A i \in DOMAIN stream : stream[i].block_number <= node
    /\ \A i, j \in DOMAIN stream : i <= j => stream[i].block_number <= stream[j].block_number
    /\ phase = "live" =>
         \A i \in DOMAIN stream :
           stream[i].block_number > last_synced => stream[i].block_number >= last_persisted_block

\* Both orders.
Ordered == WritesInOrder /\ StreamInOrder

\* Without writes in hand the cursor is the stored one.
LEMMA NothingToWrite == writing = <<>> => NextCursor = db.last_synced_block
BY DEF NextCursor

\* A step that takes no part in writing.
LEMMA WritesStay ==
  ASSUME Typed, WritesInOrder, UNCHANGED <<writing, phase, current, last_synced, last_persisted_block>>,
         db'.last_synced_block = db.last_synced_block, node' \in Int, node' >= node
  PROVE  WritesInOrder' /\ NextCursor' = NextCursor
<1>1. NextCursor' = NextCursor
  BY DEF NextCursor
<1>2. last_persisted_block \in Int /\ node \in Int
  BY ChainTyped DEF Typed
<1> QED BY <1>1, <1>2 DEF WritesInOrder, CursorAt

\* The writes after a first one.
LEMMA WritesAfter ==
  ASSUME Typed, WritesInOrder, writing # <<>>, writing' = Tail(writing), db' \in [balances : Ledgers, last_synced_block : Nat],
         UNCHANGED <<phase, node, current, last_synced, last_persisted_block>>,
         \/ Head(writing).kind = "row" /\ db'.last_synced_block = db.last_synced_block
         \/ Head(writing).kind = "cursor" /\ db'.last_synced_block = Head(writing).block
  PROVE  WritesInOrder' /\ NextCursor' = NextCursor /\ db'.last_synced_block >= db.last_synced_block
<1>1. PICK n \in Nat : n = Len(writing) /\ 1 \in 1..n /\ DOMAIN writing = 1..n
  <2>1. writing \in Seq(Writes)
    BY DEF Typed
  <2> QED BY <2>1, NextWrite, LenProperties
<1>2. PICK rest \in Seq(Writes) : /\ rest = Tail(writing) /\ Len(rest) = n - 1 /\ DOMAIN rest = 1..(n - 1)
                                  /\ \A i \in 1..(n - 1) : rest[i] = writing[i + 1]
  <2>1. Tail(writing) \in Seq(Writes)
    BY NextWrite
  <2> QED BY <1>1, <2>1, NextWrite, LenProperties
<1>3. Head(writing) = writing[1]
  BY NextWrite
<1>4. rest = <<>> <=> n = 1
  BY <1>1, <1>2, EmptySeq
<1>5. n - 1 \in 1..(n - 1) => rest[n - 1] = writing[n]
  <2>1. n - 1 + 1 = n
    BY <1>1
  <2> QED BY <1>2, <2>1
<1>6. db.last_synced_block \in Int /\ db'.last_synced_block \in Int
  BY DEF Typed
<1>7. CASE n = 1
  <2>1. writing' = <<>> /\ NextCursor' = db'.last_synced_block
    BY <1>2, <1>4, <1>7 DEF NextCursor
  <2>2. NextCursor = IF Head(writing).kind = "cursor" THEN Head(writing).block ELSE db.last_synced_block
    BY <1>1, <1>3, <1>7 DEF NextCursor
  <2>3. NextCursor' = NextCursor
    BY <2>1, <2>2
  <2>4. db'.last_synced_block >= db.last_synced_block
    <3>1. Head(writing).kind = "cursor" => Head(writing).block >= db.last_synced_block
      BY <1>1, <1>3 DEF WritesInOrder
    <3> QED BY <1>6, <3>1
  <2>5. WritesInOrder'
    BY <2>1, <2>3 DEF WritesInOrder, CursorAt
  <2> QED BY <2>3, <2>4, <2>5
<1>8. CASE n # 1
  <2>1. n - 1 \in 1..(n - 1) /\ rest[n - 1] = writing[n] /\ rest # <<>>
    BY <1>1, <1>4, <1>5, <1>8
  <2>2. Head(writing).kind = "row" /\ db'.last_synced_block = db.last_synced_block
    <3>1. writing[1].kind # "cursor"
      BY <1>1, <1>8 DEF WritesInOrder
    <3> QED BY <1>3, <3>1
  <2>3. NextCursor' = NextCursor
    BY <1>1, <1>2, <2>1, <2>2 DEF NextCursor
  <2>4. \A i \in DOMAIN rest : rest[i].kind = "cursor" => i = Len(rest) /\ rest[i].block >= db.last_synced_block
    <3> SUFFICES ASSUME NEW i \in 1..(n - 1), rest[i].kind = "cursor"
                 PROVE  i = n - 1 /\ rest[i].block >= db.last_synced_block
      BY <1>2
    <3>1. rest[i] = writing[i + 1] /\ i + 1 \in 1..n
      BY <1>2
    <3>2. i + 1 = n /\ writing[i + 1].block >= db.last_synced_block
      BY <1>1, <3>1 DEF WritesInOrder
    <3> QED BY <3>1, <3>2
  <2>5. WritesInOrder'
    <3>1. writing' = rest /\ rest[Len(rest)] = writing[n]
      BY <1>2, <2>1
    <3> QED BY <1>1, <2>1, <2>2, <2>3, <2>4, <3>1 DEF WritesInOrder, CursorAt
  <2> QED BY <1>6, <2>2, <2>3, <2>5
<1> QED BY <1>7, <1>8

\* The synchronisation starts right behind the cursor.
LEMMA SubscribeOrdered == Typed /\ Subscribe => Ordered'
<1> SUFFICES ASSUME Typed, Subscribe PROVE Ordered'
  OBVIOUS
<1>1. writing = <<>> /\ writing' = <<>> /\ stream' = <<>> /\ phase' = "sync" /\ current' = StartBlock
      /\ db' = db
  BY DEF Typed, Subscribe, state_vars
<1>2. NextCursor' = db.last_synced_block
  BY <1>1 DEF NextCursor
<1>3. db.last_synced_block \in Int /\ contract_deploy_block \in Int
  BY SyncAssumption DEF Typed
<1>4. CursorAt(current - 1)'
  BY <1>1, <1>2, <1>3 DEF CursorAt, StartBlock
<1> QED BY <1>1, <1>4 DEF Ordered, WritesInOrder, StreamInOrder

\* What a chunk writes: rows, and then the cursor.
LEMMA ChunkWrites ==
  ASSUME Typed, SyncChunk
  PROVE  \E end \in 1..Len(chain), d \in Seq(Events), n \in Nat :
           /\ end = ChunkEnd /\ end \in current..head /\ current' = end + 1
           /\ d = DepositsIn(current, end) /\ n = Len(d) /\ \A i \in DOMAIN d : d[i].block_number > 0
           /\ ledger' = CreditAll(ledger, d) /\ ledger' \in Ledgers
           /\ Len(writing') = n + 1 /\ DOMAIN writing' = 1..(n + 1) /\ writing' # <<>>
           /\ writing'[n + 1] = CursorSave(end)
           /\ \A i \in 1..n : writing'[i] = BalanceSave(ledger', d[i]) /\ writing'[i].kind = "row"
<1>1. phase = "sync" /\ current <= head /\ Len(chain) \in Nat /\ chain' = chain
  BY ChainTyped DEF SyncChunk, Typed, chain_vars
<1>2. PICK end \in 1..Len(chain) : end = ChunkEnd /\ end \in current..head
  BY <1>1, ChunkTyped
<1>3. PICK f \in 1..Len(chain) : f = current /\ end \in f..Len(chain)
  BY <1>1, <1>2 DEF Typed
<1>4. PICK d \in Seq(Events) : d = DepositsIn(current, end) /\ d \in Seq(EventsAt(1, Len(chain)))
  BY <1>2, <1>3, RangeTyped DEF Typed
<1>5. PICK n \in Nat : n = Len(d) /\ DOMAIN d = 1..n
  BY LenProperties
<1>6. \A i \in DOMAIN d : d[i].block_number > 0
  <2> SUFFICES ASSUME NEW i \in DOMAIN d PROVE d[i].block_number > 0
    OBVIOUS
  <2>1. d[i] \in EventsAt(1, Len(chain))
    BY <1>4, LenProperties, ElementOfSeq
  <2> QED BY <1>1, <2>1 DEF EventsAt
<1>7. PICK l \in Ledgers : l = ledger' /\ ledger' = CreditAll(ledger, d)
  <2>1. ledger' = CreditAll(ledger, d)
    BY <1>2, <1>4 DEF SyncChunk
  <2> QED BY <1>6, <2>1, CreditAllHolds DEF Typed
<1>8. PICK rows \in Seq(Rows) : /\ rows = [i \in DOMAIN d |-> BalanceSave(l, d[i])] /\ Len(rows) = n
                                /\ \A i \in 1..n : rows[i] = BalanceSave(l, d[i])
  <2>1. PICK rows : rows = [i \in DOMAIN d |-> BalanceSave(l, d[i])]
    OBVIOUS
  <2> QED BY <1>5, <2>1, RowsTyped
<1>9. rows \in Seq(Writes)
  BY <1>8, SeqMonotonic DEF Writes
<1>10. PICK x \in Writes : x = CursorSave(end)
  <2>1. CursorSave(end) \in [kind : {"cursor"}, block : 0..Len(chain)]
    BY <1>1 DEF CursorSave
  <2> QED BY <2>1 DEF Writes
<1>11. PICK w : w = writing' /\ w = rows \o <<x>>
  <2>1. writing' = rows \o <<x>>
    BY <1>2, <1>4, <1>7, <1>8, <1>10 DEF SyncChunk
  <2> QED BY <2>1
<1>12. /\ w \in Seq(Writes) /\ w # <<>> /\ Len(w) = n + 1
       /\ w[n + 1] = x /\ \A i \in 1..n : w[i] = rows[i]
  BY <1>8, <1>9, <1>11, RowsThenCursor
<1>13. DOMAIN w = 1..(n + 1)
  BY <1>12, LenProperties
<1>14. \A i \in 1..n : w[i].kind = "row"
  BY <1>8, <1>12 DEF BalanceSave
<1>15. current' = end + 1
  BY <1>2 DEF SyncChunk
<1>16. writing' = w /\ writing'[n + 1] = CursorSave(end)
  BY <1>10, <1>11, <1>12
<1>17. \A i \in 1..n : writing'[i] = BalanceSave(ledger', d[i]) /\ writing'[i].kind = "row"
  BY <1>7, <1>8, <1>12, <1>14, <1>16
<1>18. Len(writing') = n + 1 /\ DOMAIN writing' = 1..(n + 1) /\ writing' # <<>>
  BY <1>12, <1>13, <1>16
<1>19. /\ end = ChunkEnd /\ end \in current..head /\ current' = end + 1
       /\ d = DepositsIn(current, end) /\ n = Len(d) /\ \A i \in DOMAIN d : d[i].block_number > 0
       /\ ledger' = CreditAll(ledger, d) /\ ledger' \in Ledgers
  BY <1>2, <1>4, <1>5, <1>6, <1>7, <1>15
<1> QED BY <1>16, <1>17, <1>18, <1>19

\* A chunk starts right behind the cursor and leaves the cursor at its end.
LEMMA SyncChunkOrdered == Typed /\ Ordered /\ SyncChunk => Ordered' /\ NextCursor' = ChunkEnd
<1> SUFFICES ASSUME Typed, Ordered, SyncChunk PROVE Ordered' /\ NextCursor' = ChunkEnd
  OBVIOUS
<1>1. PICK end \in 1..Len(chain), d \in Seq(Events), n \in Nat :
        /\ end = ChunkEnd /\ end \in current..head /\ current' = end + 1
        /\ Len(writing') = n + 1 /\ DOMAIN writing' = 1..(n + 1) /\ writing' # <<>>
        /\ writing'[n + 1] = CursorSave(end)
        /\ \A i \in 1..n : writing'[i].kind = "row"
  BY ChunkWrites
<1>2. phase = "sync" /\ phase' = "sync" /\ db' = db /\ writing = <<>> /\ stream' = stream /\ node' = node
  BY DEF SyncChunk, chain_vars
<1>3. CursorSave(end).kind = "cursor" /\ CursorSave(end).block = end
  BY DEF CursorSave
<1>4. NextCursor' = end
  BY <1>1, <1>3 DEF NextCursor
<1>5. end >= db.last_synced_block
  <2>1. CursorAt(current - 1) /\ NextCursor = db.last_synced_block
    BY <1>2, NothingToWrite DEF Ordered, WritesInOrder
  <2>2. current \in Nat /\ current >= 1 /\ db.last_synced_block \in Nat /\ end \in Nat
    BY <1>1, <1>2, ChainTyped DEF Typed
  <2> QED BY <1>1, <2>1, <2>2 DEF CursorAt, NoBlock
<1>6. \A i \in 1..(n + 1) : writing'[i].kind = "cursor" => i = n + 1 /\ writing'[i].block >= db.last_synced_block
  <2> SUFFICES ASSUME NEW i \in 1..(n + 1), writing'[i].kind = "cursor"
               PROVE  i = n + 1 /\ writing'[i].block >= db.last_synced_block
    OBVIOUS
  <2>1. i \notin 1..n
    BY <1>1
  <2>2. i = n + 1
    BY <2>1
  <2> QED BY <1>1, <1>3, <1>5, <2>2
<1>7. CursorAt(current - 1)'
  <2>1. current' - 1 = end
    BY <1>1
  <2> QED BY <1>4, <2>1 DEF CursorAt
<1>8. WritesInOrder'
  <2>1. writing'[Len(writing')].kind = "cursor"
    BY <1>1, <1>3
  <2>2. phase' # "live"
    BY <1>2
  <2> QED BY <1>1, <1>2, <1>6, <1>7, <2>1, <2>2 DEF WritesInOrder
<1>9. StreamInOrder'
  BY <1>2 DEF Ordered, StreamInOrder
<1> QED BY <1>1, <1>4, <1>8, <1>9 DEF Ordered

\* Where the historical synchronisation ends.
LEMMA BoundaryIs ==
  ASSUME Typed, WritesInOrder, phase = "sync", writing = <<>>, current > head
  PROVE  /\ Boundary \in 0..Len(chain) /\ Boundary >= head /\ CursorAt(Boundary)
         /\ Boundary <= current - 1
         /\ NextCursor # NoBlock => Boundary = current - 1
<1>1. PICK c \in Nat : c = db.last_synced_block /\ c = NextCursor
  BY NothingToWrite DEF Typed
<1>2. PICK b \in Nat : b = Boundary /\ b \in 0..Len(chain) /\ b = IF c >= head THEN c ELSE head
  BY <1>1, ChainTyped, BoundaryTyped DEF Typed
<1>3. head \in Nat /\ current \in Nat /\ current >= 1
  BY ChainTyped DEF Typed
<1>4. c = current - 1 \/ (c = 0 /\ current - 1 < contract_deploy_block)
  BY <1>1 DEF WritesInOrder, CursorAt, NoBlock
<1>5. c = b \/ (c = 0 /\ b < contract_deploy_block)
  BY <1>2, <1>3, <1>4, SyncAssumption
<1>6. c # 0 => b = current - 1
  BY <1>2, <1>3, <1>4
<1>7. b <= current - 1 /\ b >= head
  BY <1>2, <1>3, <1>4
<1> QED BY <1>1, <1>2, <1>5, <1>6, <1>7 DEF CursorAt, NoBlock

\* The live loop starts where the cursor is, or before any deposit.
LEMMA GoLiveOrdered == Typed /\ Ordered /\ GoLive => Ordered'
<1> SUFFICES ASSUME Typed, Ordered, GoLive PROVE Ordered'
  OBVIOUS
<1>1. /\ phase = "sync" /\ writing = <<>> /\ current > head /\ phase' = "live" /\ writing' = <<>> /\ db' = db
      /\ last_synced' = Boundary /\ last_persisted_block' = Boundary /\ stream' = stream /\ node' = node
  BY DEF GoLive, chain_vars
<1>2. CursorAt(Boundary) /\ NextCursor' = NextCursor /\ Boundary \in Int
  BY <1>1, BoundaryIs, ChainTyped DEF Ordered, NextCursor, Typed
<1>3. WritesInOrder'
  BY <1>1, <1>2 DEF WritesInOrder, CursorAt
<1>4. StreamInOrder'
  <2>1. \A i \in DOMAIN stream : stream[i].block_number > Boundary => stream[i].block_number >= Boundary
    <3> SUFFICES ASSUME NEW i \in DOMAIN stream, stream[i].block_number > Boundary
                 PROVE  stream[i].block_number >= Boundary
      OBVIOUS
    <3>1. PICK s \in Seq(EventsAt(1, Len(chain))) : s = stream
      BY <1>1 DEF Typed
    <3>2. s[i] \in EventsAt(1, Len(chain))
      BY <3>1, LenProperties, ElementOfSeq
    <3>3. stream[i].block_number \in Int
      BY <3>1, <3>2 DEF EventsAt, Events
    <3> QED BY <1>2, <3>3
  <2> QED BY <1>1, <2>1 DEF Ordered, StreamInOrder
<1> QED BY <1>3, <1>4 DEF Ordered

\* The events after a first one are in order, none of a block before its block.
LEMMA StreamAfter ==
  ASSUME Typed, StreamInOrder, phase = "live", stream # <<>>
  PROVE  /\ \A i \in DOMAIN Tail(stream) : i + 1 \in DOMAIN stream /\ Tail(stream)[i] = stream[i + 1]
         /\ \A i \in DOMAIN Tail(stream) : Tail(stream)[i].block_number \in 1..node
         /\ \A i \in DOMAIN Tail(stream) : Tail(stream)[i].block_number >= Head(stream).block_number
         /\ \A i, j \in DOMAIN Tail(stream) : i <= j => Tail(stream)[i].block_number <= Tail(stream)[j].block_number
<1>1. PICK s \in Seq(EventsAt(1, Len(chain))), rest \in Seq(EventsAt(1, Len(chain))), n \in Nat :
        /\ s = stream /\ rest = Tail(stream) /\ n = Len(s) /\ Len(rest) = n - 1 /\ 1 \in 1..n
        /\ \A i \in 1..(n - 1) : rest[i] = s[i + 1]
        /\ Head(stream) = s[1]
  BY StreamHead
<1>2. DOMAIN s = 1..n /\ DOMAIN rest = 1..(n - 1)
  BY <1>1, LenProperties
<1>3. \A i \in 1..n : s[i].block_number \in Int /\ s[i].block_number >= 1
  <2> SUFFICES ASSUME NEW i \in 1..n PROVE s[i].block_number \in Int /\ s[i].block_number >= 1
    OBVIOUS
  <2>1. s[i] \in EventsAt(1, Len(chain))
    BY <1>1, ElementOfSeq
  <2>2. s[i].block_number \in Nat /\ s[i].block_number \in 1..Len(chain)
    BY <2>1 DEF EventsAt, Events
  <2> QED BY <2>2
<1>4. \A i \in 1..(n - 1) : i + 1 \in 1..n /\ 1 <= i + 1
  OBVIOUS
<1>5. /\ \A i \in 1..n : s[i].block_number <= node
      /\ \A i, j \in 1..n : i <= j => s[i].block_number <= s[j].block_number
  BY <1>1, <1>2 DEF StreamInOrder
<1>6. \A i \in 1..(n - 1) : rest[i].block_number \in 1..node /\ rest[i].block_number >= s[1].block_number
  <2> SUFFICES ASSUME NEW i \in 1..(n - 1)
               PROVE  rest[i].block_number \in 1..node /\ rest[i].block_number >= s[1].block_number
    OBVIOUS
  <2>1. PICK k \in 1..n : k = i + 1 /\ 1 <= k /\ rest[i] = s[k]
    BY <1>1, <1>4
  <2>2. /\ s[k].block_number \in Int /\ s[k].block_number >= 1 /\ s[k].block_number <= node
        /\ s[1].block_number <= s[k].block_number /\ s[1].block_number \in Int
    BY <1>1, <1>3, <1>5, <2>1
  <2>3. node \in Int
    BY ChainTyped DEF Typed
  <2> QED BY <2>1, <2>2, <2>3
<1>7. \A i, j \in 1..(n - 1) : i <= j => rest[i].block_number <= rest[j].block_number
  <2> SUFFICES ASSUME NEW i \in 1..(n - 1), NEW j \in 1..(n - 1), i <= j
               PROVE  rest[i].block_number <= rest[j].block_number
    OBVIOUS
  <2>1. i + 1 \in 1..n /\ j + 1 \in 1..n /\ i + 1 <= j + 1
    OBVIOUS
  <2> QED BY <1>1, <1>5, <2>1
<1> QED BY <1>1, <1>2, <1>4, <1>6, <1>7

\* Skipping an event keeps both orders.
LEMMA SkipCoveredOrdered == Typed /\ Ordered /\ SkipCovered => Ordered' /\ NextCursor' = NextCursor
<1> SUFFICES ASSUME Typed, Ordered, SkipCovered PROVE Ordered' /\ NextCursor' = NextCursor
  OBVIOUS
<1>1. /\ phase = "live" /\ stream # <<>> /\ stream' = Tail(stream) /\ node' = node /\ db' = db
      /\ UNCHANGED <<writing, phase, current, last_synced, last_persisted_block>>
  BY DEF SkipCovered, task_vars, state_vars
<1>2. WritesInOrder' /\ NextCursor' = NextCursor
  <2>1. node \in Int
    BY ChainTyped DEF Typed
  <2>2. node' \in Int /\ node' >= node /\ db'.last_synced_block = db.last_synced_block
    BY <1>1, <2>1
  <2> QED BY <1>1, <2>2, WritesStay DEF Ordered
<1>3. StreamInOrder'
  <2>1. PICK rest : rest = Tail(stream) /\ stream' = rest
    BY <1>1
  <2>2. \A i \in DOMAIN rest : i + 1 \in DOMAIN stream /\ rest[i] = stream[i + 1]
    BY <1>1, <2>1, StreamAfter DEF Ordered
  <2>3. \A i \in DOMAIN rest : rest[i].block_number > last_synced => rest[i].block_number >= last_persisted_block
    BY <1>1, <2>2 DEF Ordered, StreamInOrder
  <2>4. \A i \in DOMAIN rest : rest[i].block_number <= node
    BY <1>1, <2>2 DEF Ordered, StreamInOrder
  <2>5. \A i, j \in DOMAIN rest : i <= j => rest[i].block_number <= rest[j].block_number
    BY <1>1, <2>1, StreamAfter DEF Ordered
  <2> QED BY <1>1, <2>1, <2>3, <2>4, <2>5 DEF StreamInOrder
<1> QED BY <1>2, <1>3 DEF Ordered

\* The live loop credits an event of the last block it stored or of a later one,
\* and then writes its row, and the cursor if the block is a later one.
LEMMA LiveWrites ==
  ASSUME Typed, Ordered, CreditLive
  PROVE  \E x \in Events, b \in 1..Len(chain) :
           /\ x = Head(stream) /\ b = x.block_number /\ b > last_synced /\ b >= last_persisted_block /\ b <= node
           /\ last_persisted_block' = b /\ stream' = Tail(stream)
           /\ ledger' = CreditAll(ledger, <<x>>) /\ ledger' \in Ledgers
           /\ writing' # <<>> /\ writing'[1] = BalanceSave(ledger', x)
           /\ IF b > last_persisted_block
                THEN Len(writing') = 2 /\ DOMAIN writing' = 1..2 /\ writing'[2] = CursorSave(b)
                ELSE Len(writing') = 1 /\ DOMAIN writing' = 1..1
<1>1. phase = "live" /\ stream # <<>> /\ writing = <<>>
  BY DEF CreditLive
<1>2. PICK x \in Events, b \in 1..Len(chain) : x = Head(stream) /\ b = x.block_number
  BY <1>1, StreamHead
<1>3. b > last_synced
  BY <1>2 DEF CreditLive
<1>4. b >= last_persisted_block /\ b <= node
  <2>1. 1 \in DOMAIN stream /\ x = stream[1]
    <3>1. stream \in Seq(EventsAt(1, Len(chain))) /\ 1 \in 1..Len(stream) /\ Head(stream) = stream[1]
      BY <1>1, StreamHead
    <3> QED BY <1>2, <3>1, LenProperties
  <2> QED BY <1>1, <1>2, <1>3, <2>1 DEF Ordered, StreamInOrder
<1>5. last_persisted_block' = b
  <2>1. last_persisted_block \in Int /\ b \in Int
    BY ChainTyped DEF Typed
  <2>2. last_persisted_block' = Max({last_persisted_block, b})
    BY <1>2 DEF CreditLive
  <2>3. Max({last_persisted_block, b}) = IF last_persisted_block >= b THEN last_persisted_block ELSE b
    BY <2>1, MaxOfTwo
  <2> QED BY <1>4, <2>1, <2>2, <2>3
<1>6. ledger' = CreditAll(ledger, <<x>>) /\ ledger' \in Ledgers /\ stream' = Tail(stream)
  <2>1. ledger' \in Ledgers
    BY CreditLiveTyped DEF Typed
  <2> QED BY <1>2, <2>1 DEF CreditLive
<1>7. PICK row : row = BalanceSave(ledger', x)
  OBVIOUS
<1>8. CASE b > last_persisted_block
  <2>1. PICK y : y = CursorSave(b)
    OBVIOUS
  <2>2. writing' = <<row>> \o <<y>>
    BY <1>2, <1>7, <1>8, <2>1 DEF CreditLive, AdvanceBlock
  <2>3. PICK one \in Seq({row, y}) : one = <<row>> /\ Len(one) = 1 /\ one[1] = row
    <3>1. <<row>> \in Seq({row, y}) /\ Len(<<row>>) = 1 /\ <<row>>[1] = row
      OBVIOUS
    <3> QED BY <3>1
  <2>4. PICK w : w = writing' /\ w = one \o <<y>>
    BY <2>2, <2>3
  <2>5. w # <<>> /\ w[1] = row /\ w[2] = y /\ Len(w) = 2 /\ DOMAIN w = 1..2
    <3>1. PICK last \in {row, y} : last = y
      OBVIOUS
    <3>2. /\ w \in Seq({row, y}) /\ w # <<>> /\ Len(w) = Len(one) + 1
          /\ w[Len(w)] = last /\ \A i \in 1..Len(one) : w[i] = one[i]
      BY <2>4, <3>1, RowsThenCursor
    <3>3. Len(w) = 2 /\ 1 \in 1..Len(one)
      BY <2>3, <3>2
    <3> QED BY <2>3, <3>1, <3>2, <3>3, LenProperties
  <2> QED BY <1>2, <1>3, <1>4, <1>5, <1>6, <1>7, <1>8, <2>1, <2>4, <2>5
<1>9. CASE ~(b > last_persisted_block)
  <2>2. writing' = <<row>> \o <<>>
    BY <1>2, <1>7, <1>9 DEF CreditLive, AdvanceBlock
  <2>3. <<row>> \o <<>> = <<row>>
    OBVIOUS
  <2>4. PICK w : w = writing' /\ w = <<row>>
    BY <2>2, <2>3
  <2>5. w # <<>> /\ w[1] = row /\ Len(w) = 1 /\ DOMAIN w = 1..1
    BY <2>4
  <2> QED BY <1>2, <1>3, <1>4, <1>5, <1>6, <1>7, <1>9, <2>4, <2>5
<1> QED BY <1>8, <1>9

\* The live loop stores the block of the event it credits, once per block.
LEMMA CreditLiveOrdered == Typed /\ Ordered /\ CreditLive => Ordered'
<1> SUFFICES ASSUME Typed, Ordered, CreditLive PROVE Ordered'
  OBVIOUS
<1>1. /\ phase = "live" /\ stream # <<>> /\ writing = <<>> /\ node' = node /\ db' = db
      /\ UNCHANGED <<phase, last_synced>>
  BY DEF CreditLive
<1>2. PICK x \in Events, b \in 1..Len(chain) :
        /\ x = Head(stream) /\ b = x.block_number /\ b > last_synced /\ b >= last_persisted_block /\ b <= node
        /\ last_persisted_block' = b /\ stream' = Tail(stream)
        /\ writing' # <<>> /\ writing'[1] = BalanceSave(ledger', x)
        /\ IF b > last_persisted_block
             THEN Len(writing') = 2 /\ DOMAIN writing' = 1..2 /\ writing'[2] = CursorSave(b)
             ELSE Len(writing') = 1 /\ DOMAIN writing' = 1..1
  BY LiveWrites
<1>3. writing'[1].kind = "row" /\ CursorSave(b).kind = "cursor" /\ CursorSave(b).block = b
  BY <1>2 DEF BalanceSave, CursorSave
<1>4. /\ last_synced \in Nat /\ last_persisted_block \in Nat /\ b \in Nat /\ b # 0 /\ db.last_synced_block \in Nat
  BY ChainTyped DEF Typed
<1>5. /\ CursorAt(last_persisted_block) /\ last_synced <= last_persisted_block /\ NextCursor = db.last_synced_block
      /\ last_persisted_block = last_synced \/ NextCursor # NoBlock
  BY <1>1, NothingToWrite DEF Ordered, WritesInOrder
<1>6. b >= db.last_synced_block
  BY <1>2, <1>4, <1>5 DEF CursorAt, NoBlock
<1>7. CASE b > last_persisted_block
  <2>1. NextCursor' = b
    BY <1>2, <1>3, <1>7 DEF NextCursor
  <2>2. CursorAt(last_persisted_block)' /\ NextCursor' # NoBlock
    BY <1>2, <1>4, <2>1 DEF CursorAt, NoBlock
  <2>3. \A i \in 1..2 : writing'[i].kind = "cursor" => i = 2 /\ writing'[i].block >= db.last_synced_block
    BY <1>2, <1>3, <1>6, <1>7
  <2> QED
    <3>1. WritesInOrder'
      <4>1. \A i \in DOMAIN writing' : writing'[i].kind = "cursor" => i = Len(writing') /\ writing'[i].block >= db'.last_synced_block
        BY <1>1, <1>2, <1>7, <2>3
      <4>2. last_synced' <= last_persisted_block' /\ last_persisted_block' <= node'
        BY <1>1, <1>2, <1>4, ChainTyped DEF Typed
      <4>3. phase' = "live"
        BY <1>1
      <4> QED BY <2>2, <4>1, <4>2, <4>3 DEF WritesInOrder
    <3>2. StreamInOrder'
      <4>1. PICK rest : rest = Tail(stream) /\ stream' = rest
        BY <1>2
      <4>2. /\ \A i \in DOMAIN rest : rest[i].block_number \in 1..node
            /\ \A i \in DOMAIN rest : rest[i].block_number >= b
            /\ \A i, j \in DOMAIN rest : i <= j => rest[i].block_number <= rest[j].block_number
        BY <1>1, <1>2, <4>1, StreamAfter DEF Ordered
      <4> QED BY <1>1, <1>2, <4>1, <4>2 DEF StreamInOrder
    <3> QED BY <3>1, <3>2 DEF Ordered
<1>8. CASE ~(b > last_persisted_block)
  <2>1. NextCursor' = NextCursor /\ last_persisted_block' = last_persisted_block
    BY <1>1, <1>2, <1>3, <1>4, <1>5, <1>8 DEF NextCursor
  <2>2. CursorAt(last_persisted_block)' /\ NextCursor' # NoBlock
    <3>1. b = last_persisted_block /\ last_persisted_block # last_synced
      BY <1>2, <1>4, <1>8
    <3> QED BY <1>5, <2>1, <3>1 DEF CursorAt
  <2>3. \A i \in 1..1 : writing'[i].kind # "cursor"
    BY <1>3
  <2> QED
    <3>1. WritesInOrder'
      BY <1>1, <1>2, <1>4, <1>5, <1>8, <2>1, <2>2, <2>3 DEF WritesInOrder
    <3>2. StreamInOrder'
      <4>1. PICK rest : rest = Tail(stream) /\ stream' = rest
        BY <1>2
      <4>2. /\ \A i \in DOMAIN rest : rest[i].block_number \in 1..node
            /\ \A i \in DOMAIN rest : rest[i].block_number >= b
            /\ \A i, j \in DOMAIN rest : i <= j => rest[i].block_number <= rest[j].block_number
        BY <1>1, <1>2, <4>1, StreamAfter DEF Ordered
      <4> QED BY <1>1, <1>2, <4>1, <4>2 DEF StreamInOrder
    <3> QED BY <3>1, <3>2 DEF Ordered
<1> QED BY <1>7, <1>8

\* The block a node sees next: its events follow those of the subscription.
LEMMA NodeAdvancesStream ==
  ASSUME Typed, NodeAdvances, phase \in {"sync", "live"}
  PROVE  \E s \in Seq(EventsAt(1, Len(chain))), e \in Seq(EventsAt(node + 1, node + 1)) :
           s = stream /\ e = EventsOf(chain, node + 1) /\ stream' = s \o e /\ e \in Seq(Events) /\ s \in Seq(Events)
<1>1. Len(chain) \in Nat /\ node \in 1..Len(chain) /\ node < Len(chain) /\ chain \in Seq(Seq(Deposits))
  BY ChainTyped DEF Typed, NodeAdvances
<1>2. PICK s \in Seq(EventsAt(1, Len(chain))) : s = stream
  BY DEF Typed
<1>3. s # NoStream
  BY <1>1, StreamIsOne
<1>4. PICK n \in 1..Len(chain) : n = node + 1 /\ n \in Nat \ {0} /\ n - 1 \in Nat /\ n - 1 <= n - 1 /\ (n - 1) + 1 = n
  BY <1>1
<1>5. PICK e \in Seq(EventsAt(n, n)) : e = EventsOf(chain, n)
  BY <1>1, EventsOfTyped
<1>6. DepositsIn(n, n) = e
  <2>1. EventsIn(chain, n, (n - 1) + 1) = EventsIn(chain, n, n - 1) \o EventsOf(chain, (n - 1) + 1)
    BY <1>4, EventsNext
  <2>2. EventsIn(chain, n, n - 1) = <<>>
    BY <1>4, EventsNone
  <2>3. EventsIn(chain, n, n) = <<>> \o e
    BY <1>4, <1>5, <2>1, <2>2
  <2>4. <<>> \o e = e
    OBVIOUS
  <2> QED BY <2>3, <2>4 DEF DepositsIn
<1>7. stream' = s \o e
  BY <1>2, <1>3, <1>4, <1>6 DEF NodeAdvances
<1>8. e \in Seq(Events) /\ s \in Seq(Events)
  BY EventsAtEvents
<1> QED BY <1>2, <1>4, <1>5, <1>7, <1>8

\* The events of a new block come behind those of earlier ones.
LEMMA NodeAdvancesOrdered == Typed /\ Ordered /\ NodeAdvances => Ordered' /\ NextCursor' = NextCursor
<1> SUFFICES ASSUME Typed, Ordered, NodeAdvances PROVE Ordered' /\ NextCursor' = NextCursor
  OBVIOUS
<1>1. /\ node \in Nat /\ node' = node + 1 /\ db' = db
      /\ UNCHANGED <<writing, phase, current, last_synced, last_persisted_block>>
  BY ChainTyped DEF NodeAdvances, task_vars, state_vars, Typed
<1>2. WritesInOrder' /\ NextCursor' = NextCursor
  <2>1. node' \in Int /\ node' >= node /\ db'.last_synced_block = db.last_synced_block
    BY <1>1
  <2> QED BY <1>1, <2>1, WritesStay DEF Ordered
<1>3. ASSUME phase \in {"sync", "live"} PROVE StreamInOrder'
  <2>1. PICK s \in Seq(EventsAt(1, Len(chain))), e \in Seq(EventsAt(node + 1, node + 1)) :
          s = stream /\ stream' = s \o e /\ e \in Seq(Events) /\ s \in Seq(Events)
    BY <1>3, NodeAdvancesStream
  <2>2. PICK n \in Nat, k \in Nat : n = Len(s) /\ k = Len(e) /\ DOMAIN s = 1..n
    BY LenProperties
  <2>3. PICK both \in Seq(Events) :
          /\ both = stream' /\ DOMAIN both = 1..(n + k)
          /\ \A i \in 1..(n + k) : both[i] = IF i <= n THEN s[i] ELSE e[i - n]
    <3>1. /\ s \o e \in Seq(Events) /\ Len(s \o e) = Len(s) + Len(e)
          /\ \A i \in 1..(Len(s) + Len(e)) : (s \o e)[i] = IF i <= Len(s) THEN s[i] ELSE e[i - Len(s)]
      BY <2>1, ConcatProperties
    <3>2. PICK both \in Seq(Events) : both = s \o e
      BY <3>1
    <3>3. Len(both) = n + k /\ \A i \in 1..(n + k) : both[i] = IF i <= n THEN s[i] ELSE e[i - n]
      BY <2>2, <3>1, <3>2
    <3>4. DOMAIN both = 1..(n + k)
      BY <3>3, LenProperties
    <3>5. both = stream'
      BY <2>1, <3>2
    <3> QED BY <3>3, <3>4, <3>5
  <2>4. \A i \in 1..k : e[i].block_number = node + 1
    <3> SUFFICES ASSUME NEW i \in 1..k PROVE e[i].block_number = node + 1
      OBVIOUS
    <3>1. e[i] \in EventsAt(node + 1, node + 1)
      BY <2>2, ElementOfSeq
    <3> QED BY <1>1, <3>1 DEF EventsAt, Events
  <2>11. \A i \in DOMAIN stream : stream[i].block_number <= node
    BY <1>3 DEF Ordered, StreamInOrder
  <2>5. \A i \in 1..n : s[i].block_number \in Nat /\ s[i].block_number <= node
    <3> SUFFICES ASSUME NEW i \in 1..n PROVE s[i].block_number \in Nat /\ s[i].block_number <= node
      OBVIOUS
    <3>1. s[i] \in EventsAt(1, Len(chain))
      BY <2>2, ElementOfSeq
    <3>2. s[i].block_number <= node
      BY <2>1, <2>2, <2>11
    <3> QED BY <3>1, <3>2 DEF EventsAt, Events
  <2>6. \A i, j \in 1..n : i <= j => s[i].block_number <= s[j].block_number
    BY <1>3, <2>1, <2>2 DEF Ordered, StreamInOrder
  <2>7. \A i \in 1..(n + k) :
          IF i <= n THEN i \in 1..n /\ both[i] = s[i] /\ both[i].block_number <= node /\ both[i].block_number \in Nat
                    ELSE both[i].block_number = node + 1
    <3> SUFFICES ASSUME NEW i \in 1..(n + k)
                 PROVE  IF i <= n THEN i \in 1..n /\ both[i] = s[i] /\ both[i].block_number <= node /\ both[i].block_number \in Nat
                                  ELSE both[i].block_number = node + 1
      OBVIOUS
    <3>1. CASE i <= n
      <4>1. i \in 1..n
        BY <3>1
      <4> QED BY <2>3, <2>5, <3>1, <4>1
    <3>2. CASE ~(i <= n)
      <4>1. i - n \in 1..k
        BY <3>2
      <4> QED BY <2>3, <2>4, <3>2, <4>1
    <3> QED BY <3>1, <3>2
  <2>8. \A i \in 1..(n + k) : both[i].block_number <= node + 1
    BY <1>1, <2>7
  <2>9. \A i, j \in 1..(n + k) : i <= j => both[i].block_number <= both[j].block_number
    <3> SUFFICES ASSUME NEW i \in 1..(n + k), NEW j \in 1..(n + k), i <= j
                 PROVE  both[i].block_number <= both[j].block_number
      OBVIOUS
    <3>1. CASE j <= n
      <4>1. i <= n
        BY <3>1
      <4> QED BY <2>6, <2>7, <3>1, <4>1
    <3>2. CASE ~(j <= n)
      BY <2>7, <2>8, <3>2
    <3> QED BY <3>1, <3>2
  <2>10. ASSUME phase = "live"
         PROVE  \A i \in 1..(n + k) : both[i].block_number > last_synced => both[i].block_number >= last_persisted_block
    <3>1. \A i \in 1..n : s[i].block_number > last_synced => s[i].block_number >= last_persisted_block
      BY <2>1, <2>2, <2>10 DEF Ordered, StreamInOrder
    <3>2. last_persisted_block = last_synced \/ last_persisted_block <= node
      BY <2>10 DEF Ordered, WritesInOrder
    <3>3. last_persisted_block \in Nat /\ last_synced \in Nat
      BY ChainTyped DEF Typed
    <3> SUFFICES ASSUME NEW i \in 1..(n + k), both[i].block_number > last_synced
                 PROVE  both[i].block_number >= last_persisted_block
      OBVIOUS
    <3>4. CASE i <= n
      BY <2>7, <3>1, <3>4
    <3>5. CASE ~(i <= n)
      BY <1>1, <2>7, <3>2, <3>3, <3>5
    <3> QED BY <3>4, <3>5
  <2> QED BY <1>1, <2>3, <2>8, <2>9, <2>10 DEF StreamInOrder
<1>4. phase \notin {"sync", "live"} => StreamInOrder'
  BY <1>1 DEF StreamInOrder
<1> QED BY <1>2, <1>3, <1>4 DEF Ordered

\* A task that is not synchronising has nothing to write and no events.
LEMMA IdleOrdered == writing' = <<>> /\ phase' \notin {"sync", "live"} => Ordered'
<1> SUFFICES ASSUME writing' = <<>>, phase' \notin {"sync", "live"} PROVE Ordered'
  OBVIOUS
<1>1. DOMAIN writing' = {}
  OBVIOUS
<1> QED BY <1>1 DEF Ordered, WritesInOrder, StreamInOrder

\* A write moves the cursor forward or not at all.
LEMMA SaveOrdered ==
  Typed /\ Ordered /\ (SaveBalance \/ SetLastSyncedBlock)
  => Ordered' /\ NextCursor' = NextCursor /\ db'.last_synced_block >= db.last_synced_block
<1> SUFFICES ASSUME Typed, Ordered, SaveBalance \/ SetLastSyncedBlock
             PROVE  Ordered' /\ NextCursor' = NextCursor /\ db'.last_synced_block >= db.last_synced_block
  OBVIOUS
<1>1. /\ writing # <<>> /\ writing' = Tail(writing) /\ UNCHANGED <<stream, node, phase, current, last_synced, last_persisted_block>>
  BY DEF SaveBalance, SetLastSyncedBlock, chain_vars
<1>2. db' \in [balances : Ledgers, last_synced_block : Nat]
  <2>1. Typed' /\ chain' = chain /\ Len(chain) \in Nat
    BY SaveBalanceTyped, SetLastSyncedBlockTyped, ChainTyped DEF SaveBalance, SetLastSyncedBlock, chain_vars, Typed
  <2>2. db' \in [balances : Ledgers, last_synced_block : 0..Len(chain)]
    BY <2>1 DEF Typed
  <2> QED BY <2>1, <2>2
<1>3. \/ Head(writing).kind = "row" /\ db'.last_synced_block = db.last_synced_block
      \/ Head(writing).kind = "cursor" /\ db'.last_synced_block = Head(writing).block
  BY DEF SaveBalance, SetLastSyncedBlock, Typed
<1>4. WritesInOrder' /\ NextCursor' = NextCursor /\ db'.last_synced_block >= db.last_synced_block
  BY <1>1, <1>2, <1>3, WritesAfter DEF Ordered
<1>5. StreamInOrder'
  BY <1>1 DEF Ordered, StreamInOrder
<1> QED BY <1>4, <1>5 DEF Ordered

\* Orders and cancels leave the cursor alone.
LEMMA OrdersOrdered ==
  ASSUME Typed, Ordered, NEW u \in Users, NEW t \in Tokens, SubmitOrder(u, t) \/ CancelOrder(u, t)
  PROVE  Ordered' /\ NextCursor' = NextCursor /\ db'.last_synced_block = db.last_synced_block
<1>1. /\ db' = [db EXCEPT !.balances = ledger']
      /\ UNCHANGED <<stream, node, writing, phase, current, last_synced, last_persisted_block>>
  BY DEF SubmitOrder, CancelOrder, SaveSnapshot, chain_vars, task_vars
<1>2. db'.last_synced_block = db.last_synced_block /\ node \in Int
  BY <1>1, ChainTyped DEF Typed
<1>3. node' \in Int /\ node' >= node
  BY <1>1, <1>2
<1>4. WritesInOrder' /\ NextCursor' = NextCursor
  BY <1>1, <1>2, <1>3, WritesStay DEF Ordered
<1>5. StreamInOrder'
  BY <1>1 DEF Ordered, StreamInOrder
<1> QED BY <1>2, <1>4, <1>5 DEF Ordered

\* At first nothing is to be written.
LEMMA InitOrdered == Init => Ordered
<1> SUFFICES ASSUME Init PROVE Ordered
  OBVIOUS
<1>1. DOMAIN writing = {} /\ phase = "head"
  BY DEF Init
<1> QED BY <1>1 DEF Ordered, WritesInOrder, StreamInOrder

\* Every step keeps both orders.
LEMMA NextOrdered == Typed /\ Ordered /\ [Next]_vars => Ordered'
<1> SUFFICES ASSUME Typed, Ordered, [Next]_vars PROVE Ordered'
  OBVIOUS
<1>1. CASE NodeAdvances
  BY <1>1, NodeAdvancesOrdered
<1>2. CASE GetHead
  BY <1>2, IdleOrdered DEF GetHead, Typed
<1>3. CASE Subscribe
  BY <1>3, SubscribeOrdered
<1>4. CASE SyncChunk
  BY <1>4, SyncChunkOrdered
<1>5. CASE GoLive
  BY <1>5, GoLiveOrdered
<1>6. CASE SkipCovered
  BY <1>6, SkipCoveredOrdered
<1>7. CASE CreditLive
  BY <1>7, CreditLiveOrdered
<1>8. CASE SaveBalance \/ SetLastSyncedBlock
  BY <1>8, SaveOrdered
<1>9. CASE Reconnect \/ Restart
  BY <1>9, IdleOrdered DEF Reconnect, Restart, NewConnection
<1>10. CASE \E u \in Users, t \in Tokens : SubmitOrder(u, t) \/ CancelOrder(u, t)
  BY <1>10, OrdersOrdered
<1>11. CASE UNCHANGED vars
  BY <1>11 DEF vars, chain_vars, state_vars, task_vars, Ordered, WritesInOrder, StreamInOrder, CursorAt, NextCursor
<1> QED BY <1>1, <1>2, <1>3, <1>4, <1>5, <1>6, <1>7, <1>8, <1>9, <1>10, <1>11 DEF Next, Task

\* No step moves the stored cursor back.
LEMMA CursorForward == Typed /\ Ordered /\ [Next]_vars => db'.last_synced_block >= db.last_synced_block
<1> SUFFICES ASSUME Typed, Ordered, [Next]_vars PROVE db'.last_synced_block >= db.last_synced_block
  OBVIOUS
<1>1. db.last_synced_block \in Nat
  BY ChainTyped DEF Typed
<1>2. CASE SaveBalance \/ SetLastSyncedBlock
  BY <1>2, SaveOrdered
<1>3. CASE \E u \in Users, t \in Tokens : SubmitOrder(u, t) \/ CancelOrder(u, t)
  BY <1>1, <1>3, OrdersOrdered
<1>4. CASE db' = db
  BY <1>1, <1>4
<1> QED BY <1>2, <1>3, <1>4 DEF Next, Task, vars, state_vars, NodeAdvances, GetHead, Subscribe, SyncChunk, GoLive,
        SkipCovered, CreditLive, Reconnect, Restart, NewConnection

-----------------------------------------------------------------------------
(* Exactly the deposits of the chain.                                      *)

\* From which block on the subscription has every deposit.
Floor == IF phase = "live" THEN last_persisted_block ELSE Max({NextCursor, head})

\* What is deposited in a later block is in the subscription, if the node has seen it.
StreamComplete ==
  \A b \in 0..Len(chain), u \in Users, t \in Tokens :
    b >= Floor => Deposited(stream, b, u, t) + Total(chain, b, u, t) = Total(chain, Max({node, b}), u, t)

\* A row in hand holds what the ledger does, and so does a stored one that none in
\* hand will replace.
RowsFollow ==
  /\ \A i \in DOMAIN writing :
       writing[i].kind = "row"
       => Held(writing[i].balance) = Held(ledger[writing[i].user][writing[i].token])
  /\ \A u \in Users, t \in Tokens :
       \/ \E i \in DOMAIN writing : writing[i].kind = "row" /\ writing[i].user = u /\ writing[i].token = t
       \/ Held(db.balances[u][t]) = Held(ledger[u][t])

\* The ledger holds the blocks that were synchronised or, once the loop is live, with what
\* is left in the subscription, those the node has seen.
LedgerExact ==
  \A u \in Users, t \in Tokens :
    /\ phase = "sync" => Held(ledger[u][t]) = Total(chain, current - 1, u, t)
    /\ phase = "live" =>
         Held(ledger[u][t]) + Deposited(stream, last_synced, u, t) = Total(chain, Max({node, last_synced}), u, t)

\* What is true of the sums as long as no synchronisation began in a wrong state.
Exactly == exact /\ phase \in {"sync", "live"} => StreamComplete /\ RowsFollow /\ LedgerExact

\* What is deposited up to a block: a word, and nothing before the contract is deployed.
LEMMA OnChainTyped ==
  ASSUME Typed, NEW u \in Users, NEW t \in Tokens, NEW b \in 0..Len(chain)
  PROVE  /\ OnChain(u, t, b) = Total(chain, b, u, t)
         /\ Total(chain, b, u, t) \in Nat /\ Total(chain, b, u, t) < Word
         /\ b < contract_deploy_block => Total(chain, b, u, t) = 0
<1>1. OnChain(u, t, b) = Total(chain, b, u, t)
  BY DEF OnChain, Total
<1>2. PICK c \in Chains : c = chain
  BY DEF Typed
<1> QED BY <1>1, <1>2, ChainTotals

\* The later one of the node's block and another.
LEMMA LaterTyped ==
  ASSUME Typed, NEW b \in 0..Len(chain)
  PROVE  Max({node, b}) = (IF node >= b THEN node ELSE b) /\ Max({node, b}) \in 0..Len(chain)
<1>1. node \in 1..Len(chain) /\ Len(chain) \in Nat
  BY ChainTyped DEF Typed
<1>2. node \in Int /\ b \in Int
  BY <1>1
<1> QED BY <1>1, <1>2, MaxOfTwo

\* A subscription consists of events.
LEMMA StreamTyped ==
  ASSUME Typed, phase \in {"sync", "live"}, NEW b, NEW u, NEW t
  PROVE  stream \in Seq(Events) /\ Deposited(stream, b, u, t) \in Nat
<1>1. stream \in Seq(Events)
  BY EventsAtEvents DEF Typed
<1> QED BY <1>1, DepositedTyped

\* A block that the node sees adds its deposits to the subscription, for those who
\* have not passed it, and to the chain's.
LEMMA NodeAdvancesDeposits ==
  ASSUME Typed, NodeAdvances, phase \in {"sync", "live"},
         NEW b \in 0..Len(chain), NEW u \in Users, NEW t \in Tokens
  PROVE  \E more \in Nat :
           /\ Deposited(stream', b, u, t) = Deposited(stream, b, u, t) + more
           /\ Total(chain', Max({node', b}), u, t) = Total(chain, Max({node, b}), u, t) + more
<1>1. /\ Len(chain) \in Nat /\ node \in 1..Len(chain) /\ node < Len(chain) /\ chain \in Seq(Seq(Deposits))
      /\ node' = node + 1 /\ chain' = chain
  BY ChainTyped DEF Typed, NodeAdvances
<1>2. PICK s \in Seq(Events), e \in Seq(Events) :
        s = stream /\ e = EventsOf(chain, node + 1) /\ stream' = s \o e
  BY NodeAdvancesStream
<1>3. PICK n \in 1..Len(chain) : n = node + 1 /\ n \in 0..Len(chain) /\ node \in 0..Len(chain) /\ b \in Nat /\ node \in Nat /\ 1 - 1 <= node
  BY <1>1
<1>4. PICK all \in Nat : all = Deposited(e, 0, u, t)
  BY DepositedTyped
<1>5. PICK more \in Nat : more = Deposited(e, b, u, t) /\ more = IF n > b THEN all ELSE 0
  <2>1. Deposited(EventsOf(chain, n), b, u, t) = IF n > b THEN Deposited(EventsOf(chain, n), 0, u, t) ELSE 0
    BY <1>1, <1>3, BlockDeposits
  <2>2. Deposited(e, b, u, t) = IF n > b THEN all ELSE 0
    BY <1>2, <1>3, <1>4, <2>1
  <2>3. Deposited(e, b, u, t) \in Nat
    BY DepositedTyped
  <2> QED BY <2>2, <2>3
<1>6. Deposited(stream', b, u, t) = Deposited(stream, b, u, t) + more
  BY <1>2, <1>5, DepositedConcat
<1>7. Total(chain, n, u, t) = Total(chain, node, u, t) + all
  <2>1. Total(chain, node + 1, u, t) = Total(chain, node, u, t) + Deposited(EventsOf(chain, node + 1), 0, u, t)
    <3>1. 1 \in Nat \ {0} /\ node < Len(chain)
      BY <1>1
    <3> QED BY <1>1, <1>3, <3>1, RangeNext DEF Total
  <2> QED BY <1>2, <1>3, <1>4, <2>1, OnChainTyped
<1>8. Max({node', b}) = IF n >= b THEN n ELSE b
  <2>1. n \in Int /\ b \in Int
    BY <1>3
  <2> QED BY <1>1, <1>3, <2>1, MaxOfTwo
<1>9. Max({node, b}) = IF node >= b THEN node ELSE b
  BY LaterTyped
<1>10. Total(chain, b, u, t) \in Nat /\ Total(chain, node, u, t) \in Nat
  BY <1>3, OnChainTyped
<1>11. Total(chain, IF n >= b THEN n ELSE b, u, t) = Total(chain, IF node >= b THEN node ELSE b, u, t) + more
  <2>1. CASE n > b
    <3>1. node >= b /\ n >= b
      BY <1>3, <2>1
    <3> QED BY <1>5, <1>7, <2>1, <3>1
  <2>2. CASE n = b
    <3>1. ~(node >= b) /\ n >= b /\ ~(n > b)
      BY <1>3, <2>2
    <3> QED BY <1>5, <1>10, <2>2, <3>1
  <2>3. CASE n < b
    <3>1. ~(node >= b) /\ ~(n >= b) /\ ~(n > b)
      BY <1>3, <2>3
    <3> QED BY <1>5, <1>10, <3>1
  <2> QED BY <1>3, <2>1, <2>2, <2>3
<1> QED BY <1>1, <1>6, <1>8, <1>9, <1>11

\* What a new block deposits is added on both sides.
LEMMA NodeAdvancesExactly == Typed /\ Ordered /\ Exactly /\ NodeAdvances => Exactly'
<1> SUFFICES ASSUME Typed, Ordered, Exactly, NodeAdvances, exact', phase' \in {"sync", "live"}
             PROVE  (StreamComplete /\ RowsFollow /\ LedgerExact)'
  BY DEF Exactly
<1>1. /\ exact /\ phase \in {"sync", "live"} /\ chain' = chain /\ node' = node + 1
      /\ UNCHANGED <<state_vars, task_vars>>
  BY DEF NodeAdvances, task_vars
<1>2. StreamComplete /\ RowsFollow /\ LedgerExact
  BY <1>1 DEF Exactly
<1>3. RowsFollow'
  BY <1>1, <1>2 DEF RowsFollow, state_vars, task_vars
<1>4. ASSUME NEW b \in 0..Len(chain), NEW u \in Users, NEW t \in Tokens, NEW x \in Nat,
             Deposited(stream, b, u, t) + x = Total(chain, Max({node, b}), u, t)
      PROVE  Deposited(stream', b, u, t) + x = Total(chain', Max({node', b}), u, t)
  <2>1. PICK more \in Nat :
          /\ Deposited(stream', b, u, t) = Deposited(stream, b, u, t) + more
          /\ Total(chain', Max({node', b}), u, t) = Total(chain, Max({node, b}), u, t) + more
    BY <1>1, NodeAdvancesDeposits
  <2>2. PICK y \in Nat : y = Deposited(stream, b, u, t)
    BY <1>1, StreamTyped
  <2>3. (y + more) + x = (y + x) + more
    OBVIOUS
  <2> QED BY <1>4, <2>1, <2>2, <2>3
<1>5. Floor' = Floor
  BY <1>1 DEF Floor, NextCursor, state_vars, task_vars
<1>6. StreamComplete'
  <2>1. ASSUME NEW b \in 0..Len(chain), NEW u \in Users, NEW t \in Tokens, b >= Floor
        PROVE  Deposited(stream', b, u, t) + Total(chain, b, u, t) = Total(chain', Max({node', b}), u, t)
    <3>1. Deposited(stream, b, u, t) + Total(chain, b, u, t) = Total(chain, Max({node, b}), u, t)
      BY <1>2, <2>1 DEF StreamComplete
    <3> QED BY <1>4, <3>1, OnChainTyped
  <2> QED BY <1>1, <1>5, <2>1 DEF StreamComplete
<1>7. LedgerExact'
  <2>1. ASSUME phase = "live", NEW u \in Users, NEW t \in Tokens
        PROVE  Held(ledger[u][t]) + Deposited(stream', last_synced, u, t) = Total(chain', Max({node', last_synced}), u, t)
    <3>1. PICK b \in 0..Len(chain) : b = last_synced
      BY DEF Typed
    <3>2. PICK h \in Nat : h = Held(ledger[u][t])
      <4>1. Held(ledger[u][t]) \in Amounts
        BY LedgersAt DEF Typed
      <4> QED BY <4>1, WordAssumption DEF Amounts
    <3>3. PICK y \in Nat, z \in Nat : y = Deposited(stream, b, u, t) /\ z = Deposited(stream', b, u, t)
      <4>1. stream' \in Seq(Events)
        BY <1>1, NodeAdvancesTyped, EventsAtEvents DEF Typed, task_vars
      <4> QED BY <1>1, <4>1, StreamTyped, DepositedTyped
    <3>4. h + y = Total(chain, Max({node, b}), u, t)
      BY <1>2, <2>1, <3>1, <3>2, <3>3 DEF LedgerExact
    <3>5. h + y = y + h /\ h + z = z + h
      OBVIOUS
    <3>6. z + h = Total(chain', Max({node', b}), u, t)
      BY <1>4, <3>3, <3>4, <3>5
    <3> QED BY <3>1, <3>2, <3>3, <3>5, <3>6
  <2> QED BY <1>1, <1>2, <2>1 DEF LedgerExact, state_vars, task_vars
<1> QED BY <1>3, <1>6, <1>7

\* What a user holds is a word, and so a number.
LEMMA HeldTyped ==
  ASSUME NEW l \in Ledgers, NEW u \in Users, NEW t \in Tokens
  PROVE  Held(l[u][t]) \in Nat /\ Held(l[u][t]) \in Amounts
<1>1. Held(l[u][t]) \in Amounts
  BY LedgersAt
<1> QED BY <1>1, WordAssumption DEF Amounts

\* The synchronisation begins with the blocks up to the cursor, and misses none later.
LEMMA SubscribeExactly == Typed /\ Ordered /\ Subscribe => Exactly'
<1> SUFFICES ASSUME Typed, Ordered, Subscribe, exact'
             PROVE  (StreamComplete /\ RowsFollow /\ LedgerExact)'
  BY DEF Exactly
<1>1. /\ chain' = chain /\ node' = node /\ ledger' = ledger /\ db' = db /\ head' = head
      /\ phase' = "sync" /\ stream' = <<>> /\ writing = <<>> /\ writing' = <<>> /\ current' = StartBlock
      /\ Agrees(ledger, db.last_synced_block) /\ Agrees(db.balances, db.last_synced_block)
      /\ \A b \in (head + 1)..node : b <= db.last_synced_block \/ chain[b] = <<>>
  BY DEF Typed, Subscribe, state_vars
<1>2. PICK c \in 0..Len(chain) : c = db.last_synced_block
  BY DEF Typed
<1>3. /\ Len(chain) \in Nat /\ chain \in Seq(Seq(Deposits)) /\ contract_deploy_block \in 1..Len(chain)
      /\ node \in 1..Len(chain) /\ head \in 0..Len(chain)
  BY ChainTyped DEF Typed
<1>4. Floor' = IF c >= head THEN c ELSE head
  <2>1. NextCursor' = c
    BY <1>1, <1>2 DEF NextCursor
  <2>2. Floor' = Max({c, head})
    BY <1>1, <2>1 DEF Floor
  <2>3. c \in Int /\ head \in Int
    BY <1>3
  <2> QED BY <2>2, <2>3, MaxOfTwo
<1>5. StreamComplete'
  <2>1. ASSUME NEW b \in 0..Len(chain), NEW u \in Users, NEW t \in Tokens, b >= Floor'
        PROVE  Deposited(<<>>, b, u, t) + Total(chain, b, u, t) = Total(chain, Max({node, b}), u, t)
    <3>1. Deposited(<<>>, b, u, t) = 0
      <4>1. PICK none \in Seq(Events) : none = <<>>
        <5>1. <<>> \in Seq(Events)
          OBVIOUS
        <5> QED BY <5>1
      <4>2. DOMAIN none = {}
        BY <4>1
      <4> QED BY <4>1, <4>2, NothingDeposited
    <3>2. Total(chain, b, u, t) \in Nat
      BY OnChainTyped
    <3>3. CASE node >= b
      <4>1. \A n \in (b + 1)..node : chain[n] = <<>>
        <5> SUFFICES ASSUME NEW n \in (b + 1)..node PROVE chain[n] = <<>>
          OBVIOUS
        <5>1. n \in (head + 1)..node /\ ~(n <= c)
          BY <1>3, <1>4, <2>1
        <5> QED BY <1>1, <1>2, <5>1
      <4>2. node \in 0..Len(chain) /\ b <= node
        BY <1>3, <3>3
      <4>3. Total(chain, node, u, t) = Total(chain, b, u, t)
        BY <1>3, <4>1, <4>2, TotalFlat
      <4> QED BY <3>1, <3>2, <3>3, <4>3, LaterTyped
    <3>4. CASE ~(node >= b)
      BY <3>1, <3>2, <3>4, LaterTyped
    <3> QED BY <3>3, <3>4
  <2> QED BY <1>1, <2>1 DEF StreamComplete
<1>6. RowsFollow'
  <2>1. DOMAIN writing' = {}
    BY <1>1
  <2>2. \A u \in Users, t \in Tokens : Held(db.balances[u][t]) = Held(ledger[u][t])
    BY <1>1 DEF Agrees
  <2> QED BY <1>1, <2>1, <2>2 DEF RowsFollow
<1>7. LedgerExact'
  <2>1. ASSUME NEW u \in Users, NEW t \in Tokens
        PROVE  Held(ledger[u][t]) = Total(chain, StartBlock - 1, u, t)
    <3>1. Held(ledger[u][t]) = Total(chain, c, u, t)
      BY <1>1, <1>2, OnChainTyped DEF Agrees
    <3>2. CASE c = NoBlock
      <4>1. PICK b \in 0..Len(chain) : b = StartBlock - 1 /\ b < contract_deploy_block
        BY <1>2, <1>3, <3>2 DEF StartBlock
      <4>2. c < contract_deploy_block
        BY <1>3, <3>2 DEF NoBlock
      <4>3. Total(chain, b, u, t) = 0 /\ Total(chain, c, u, t) = 0
        BY <4>1, <4>2, OnChainTyped
      <4> QED BY <3>1, <4>1, <4>3
    <3>3. CASE c # NoBlock
      <4>1. StartBlock - 1 = c
        BY <1>2, <1>3, <3>3 DEF StartBlock
      <4> QED BY <3>1, <4>1
    <3> QED BY <3>2, <3>3
  <2> QED BY <1>1, <2>1 DEF LedgerExact
<1> QED BY <1>5, <1>6, <1>7

\* A chunk credits the deposits of its blocks.
LEMMA SyncChunkExactly == Typed /\ Ordered /\ Exactly /\ SyncChunk => Exactly'
<1> SUFFICES ASSUME Typed, Ordered, Exactly, SyncChunk, exact'
             PROVE  (StreamComplete /\ RowsFollow /\ LedgerExact)'
  BY DEF Exactly
<1>1. /\ exact /\ phase = "sync" /\ phase' = "sync" /\ writing = <<>> /\ current <= head
      /\ chain' = chain /\ node' = node /\ stream' = stream /\ db' = db /\ head' = head
  BY DEF SyncChunk, chain_vars
<1>2. StreamComplete /\ RowsFollow /\ LedgerExact
  BY <1>1 DEF Exactly
<1>3. PICK end \in 1..Len(chain), d \in Seq(Events), n \in Nat :
        /\ end = ChunkEnd /\ end \in current..head /\ current' = end + 1
        /\ d = DepositsIn(current, end) /\ n = Len(d) /\ \A i \in DOMAIN d : d[i].block_number > 0
        /\ ledger' = CreditAll(ledger, d) /\ ledger' \in Ledgers
        /\ DOMAIN writing' = 1..(n + 1)
        /\ writing'[n + 1] = CursorSave(end)
        /\ \A i \in 1..n : writing'[i] = BalanceSave(ledger', d[i]) /\ writing'[i].kind = "row"
  BY ChunkWrites
<1>4. /\ Len(chain) \in Nat /\ chain \in Seq(Seq(Deposits)) /\ current \in Nat \ {0} /\ current - 1 <= end
      /\ end \in Nat /\ end <= Len(chain) /\ end \in 0..Len(chain) /\ current - 1 \in 0..Len(chain) /\ head \in Nat
  BY <1>1, <1>3, ChainTyped DEF Typed
<1>5. ASSUME NEW u \in Users, NEW t \in Tokens
      PROVE  /\ Held(ledger'[u][t]) = Total(chain, end, u, t)
             /\ Held(ledger'[u][t]) = Held(ledger[u][t]) + Deposited(d, 0, u, t)
  <2>1. Total(chain, end, u, t) = Total(chain, current - 1, u, t) + Deposited(d, 0, u, t)
    BY <1>3, <1>4, TotalRange DEF DepositsIn
  <2>2. Held(ledger[u][t]) = Total(chain, current - 1, u, t)
    BY <1>1, <1>2 DEF LedgerExact
  <2>3. Total(chain, end, u, t) < Word
    BY <1>4, OnChainTyped
  <2>4. Held(ledger[u][t]) + Deposited(d, 0, u, t) < Word
    BY <2>1, <2>2, <2>3
  <2>5. Held(CreditAll(ledger, d)[u][t]) = Held(ledger[u][t]) + Deposited(d, 0, u, t)
    <3>1. PICK l \in Ledgers : l = ledger
      BY DEF Typed
    <3>2. \A v \in Users, s \in Tokens :
            Held(l[v][s]) + Deposited(d, 0, v, s) < Word
            => Held(CreditAll(l, d)[v][s]) = Held(l[v][s]) + Deposited(d, 0, v, s)
      BY <1>3, CreditAllHolds
    <3> QED BY <2>4, <3>1, <3>2
  <2> QED BY <1>3, <2>1, <2>2, <2>5
<1>6. LedgerExact'
  <2>1. current' - 1 = end
    BY <1>3, <1>4
  <2> QED BY <1>1, <1>5, <2>1 DEF LedgerExact
<1>7. StreamComplete'
  <2>1. Floor' = Max({ChunkEnd, head}) /\ Floor = Max({NextCursor, head})
    BY <1>1, SyncChunkOrdered DEF Floor
  <2>2. PICK c \in Nat : c = NextCursor /\ c <= head
    <3>1. CursorAt(current - 1)
      BY <1>1 DEF Ordered, WritesInOrder
    <3>2. PICK k \in Nat : k = NextCursor
      <4>1. NextCursor = db.last_synced_block
        BY <1>1, NothingToWrite
      <4> QED BY <1>4, <4>1 DEF Typed
    <3>3. NextCursor = current - 1 \/ NextCursor = 0
      BY <3>1 DEF CursorAt, NoBlock
    <3> QED BY <1>1, <1>4, <3>2, <3>3
  <2>3. Max({c, head}) = head /\ Max({end, head}) = head
    <3>1. c \in Int /\ end \in Int /\ head \in Int
      BY <1>4
    <3>2. Max({c, head}) = (IF c >= head THEN c ELSE head) /\ Max({end, head}) = (IF end >= head THEN end ELSE head)
      BY <3>1, MaxOfTwo
    <3> QED BY <1>3, <1>4, <2>2, <3>2
  <2>4. Floor' = Floor
    BY <1>3, <2>1, <2>2, <2>3
  <2> QED BY <1>1, <1>2, <2>4 DEF StreamComplete
<1>8. RowsFollow'
  <2>1. ASSUME NEW i \in DOMAIN writing', writing'[i].kind = "row"
        PROVE  Held(writing'[i].balance) = Held(ledger'[writing'[i].user][writing'[i].token])
    <3>1. i \in 1..n
      <4>1. CursorSave(end).kind = "cursor"
        BY DEF CursorSave
      <4>2. i # n + 1
        BY <1>3, <2>1, <4>1
      <4> QED BY <1>3, <4>2
    <3>2. writing'[i] = BalanceSave(ledger', d[i])
      BY <1>3, <3>1
    <3> QED BY <3>2 DEF BalanceSave
  <2>2. ASSUME NEW u \in Users, NEW t \in Tokens
        PROVE  \/ \E i \in DOMAIN writing' : writing'[i].kind = "row" /\ writing'[i].user = u /\ writing'[i].token = t
               \/ Held(db.balances[u][t]) = Held(ledger'[u][t])
    <3>1. CASE \E i \in DOMAIN d : d[i].deposit.user = u /\ d[i].deposit.token = t
      <4>1. PICK i \in DOMAIN d : d[i].deposit.user = u /\ d[i].deposit.token = t
        BY <3>1
      <4>2. i \in 1..n /\ i \in DOMAIN writing'
        BY <1>3, LenProperties
      <4>3. writing'[i] = BalanceSave(ledger', d[i]) /\ writing'[i].kind = "row"
        BY <1>3, <4>2
      <4>4. writing'[i].user = u /\ writing'[i].token = t
        BY <4>1, <4>3 DEF BalanceSave
      <4> QED BY <4>2, <4>3, <4>4
    <3>2. CASE \A i \in DOMAIN d : ~(d[i].deposit.user = u /\ d[i].deposit.token = t)
      <4>1. \A i \in DOMAIN d : Counted(d[i], 0, u, t) = 0
        BY <3>2 DEF Counted
      <4>2. Deposited(d, 0, u, t) = 0
        BY <4>1, NothingDeposited
      <4>3. Held(ledger'[u][t]) = Held(ledger[u][t])
        BY <1>5, <4>2, HeldTyped DEF Typed
      <4>4. Held(db.balances[u][t]) = Held(ledger[u][t])
        <5>1. DOMAIN writing = {}
          BY <1>1
        <5> QED BY <1>2, <5>1 DEF RowsFollow
      <4> QED BY <4>3, <4>4
    <3> QED BY <3>1, <3>2
  <2> QED BY <1>1, <2>1, <2>2 DEF RowsFollow
<1> QED BY <1>6, <1>7, <1>8

\* Where synchronisation and live loop meet nothing is lost or counted twice.
LEMMA GoLiveExactly == Typed /\ Ordered /\ Exactly /\ GoLive => Exactly'
<1> SUFFICES ASSUME Typed, Ordered, Exactly, GoLive, exact'
             PROVE  (StreamComplete /\ RowsFollow /\ LedgerExact)'
  BY DEF Exactly
<1>1. /\ exact /\ phase = "sync" /\ phase' = "live" /\ writing = <<>> /\ writing' = <<>> /\ current > head
      /\ chain' = chain /\ node' = node /\ stream' = stream /\ db' = db /\ head' = head /\ ledger' = ledger
      /\ last_synced' = Boundary /\ last_persisted_block' = Boundary
  BY DEF GoLive, chain_vars
<1>2. StreamComplete /\ RowsFollow /\ LedgerExact
  BY <1>1 DEF Exactly
<1>3. PICK b \in 0..Len(chain) :
        /\ b = Boundary /\ b <= current - 1 /\ CursorAt(b)
        /\ NextCursor # NoBlock => b = current - 1
  BY <1>1, BoundaryIs DEF Ordered
<1>4. Floor = b /\ Floor' = b
  BY <1>1, <1>3, NothingToWrite DEF Floor, Boundary
<1>5. StreamComplete'
  BY <1>1, <1>2, <1>4 DEF StreamComplete
<1>6. RowsFollow'
  BY <1>1, <1>2 DEF RowsFollow
<1>7. LedgerExact'
  <2>1. ASSUME NEW u \in Users, NEW t \in Tokens
        PROVE  Held(ledger[u][t]) + Deposited(stream, b, u, t) = Total(chain, Max({node, b}), u, t)
    <3>1. current - 1 \in 0..Len(chain) /\ current \in Nat /\ contract_deploy_block \in Nat /\ Len(chain) \in Nat
      BY <1>1, ChainTyped, SyncAssumption DEF Typed
    <3>2. PICK k \in 0..Len(chain) : k = current - 1
      BY <3>1
    <3>3. Held(ledger[u][t]) = Total(chain, k, u, t)
      BY <1>1, <1>2, <3>2 DEF LedgerExact
    <3>4. Total(chain, k, u, t) = Total(chain, b, u, t)
      <4>1. CASE NextCursor # NoBlock
        BY <1>3, <3>2, <4>1
      <4>2. CASE NextCursor = NoBlock
        <5>1. CursorAt(current - 1)
          BY <1>1 DEF Ordered, WritesInOrder
        <5>2. k < contract_deploy_block
          BY <3>1, <3>2, <4>2, <5>1, SyncAssumption DEF CursorAt, NoBlock
        <5>3. b < contract_deploy_block
          BY <1>3, <3>1, <3>2, <5>2
        <5> QED BY <5>2, <5>3, OnChainTyped
      <4> QED BY <4>1, <4>2
    <3>5. Deposited(stream, b, u, t) + Total(chain, b, u, t) = Total(chain, Max({node, b}), u, t)
      <4>1. b >= Floor
        BY <1>4, <3>1
      <4> QED BY <1>2, <4>1 DEF StreamComplete
    <3>6. PICK x \in Nat, y \in Nat : x = Deposited(stream, b, u, t) /\ y = Total(chain, b, u, t)
      BY <1>1, StreamTyped, OnChainTyped
    <3>7. x + y = y + x
      OBVIOUS
    <3> QED BY <3>3, <3>4, <3>5, <3>6, <3>7
  <2> QED BY <1>1, <1>3, <2>1 DEF LedgerExact
<1> QED BY <1>5, <1>6, <1>7

\* The first event of the subscription, and the others.
LEMMA StreamTaken ==
  ASSUME Typed, phase = "live", stream # <<>>, NEW b, NEW u, NEW t
  PROVE  \E first \in Nat, others \in Nat :
           /\ first = Counted(Head(stream), b, u, t) /\ others = Deposited(Tail(stream), b, u, t)
           /\ Deposited(stream, b, u, t) = first + others
<1>1. PICK s \in Seq(Events) : s = stream /\ s # <<>>
  BY StreamTyped
<1>2. /\ Head(s) \in Events /\ Tail(s) \in Seq(Events)
      /\ Deposited(s, b, u, t) = Counted(Head(s), b, u, t) + Deposited(Tail(s), b, u, t)
  BY <1>1, DepositedTail
<1>3. Counted(Head(s), b, u, t) \in Nat /\ Deposited(Tail(s), b, u, t) \in Nat
  BY <1>2, CountedTyped, DepositedTyped
<1> QED BY <1>1, <1>2, <1>3

\* An event of a block that was passed counts nothing.
LEMMA SkipCoveredExactly == Typed /\ Ordered /\ Exactly /\ SkipCovered => Exactly'
<1> SUFFICES ASSUME Typed, Ordered, Exactly, SkipCovered, exact'
             PROVE  (StreamComplete /\ RowsFollow /\ LedgerExact)'
  BY DEF Exactly
<1>1. /\ exact /\ phase = "live" /\ stream # <<>> /\ stream' = Tail(stream) /\ Head(stream).block_number <= last_synced
      /\ UNCHANGED <<chain, node, ledger, db, writing, phase, head, current, last_synced, last_persisted_block>>
  BY DEF SkipCovered, state_vars, task_vars
<1>2. StreamComplete /\ RowsFollow /\ LedgerExact
  BY <1>1 DEF Exactly
<1>3. ASSUME NEW b \in 0..Len(chain), b >= last_synced, NEW u \in Users, NEW t \in Tokens
      PROVE  Deposited(stream', b, u, t) = Deposited(stream, b, u, t)
  <2>1. PICK first \in Nat, others \in Nat :
          /\ first = Counted(Head(stream), b, u, t) /\ others = Deposited(Tail(stream), b, u, t)
          /\ Deposited(stream, b, u, t) = first + others
    BY <1>1, StreamTaken
  <2>2. ~(Head(stream).block_number > b)
    <3>1. Head(stream).block_number \in 1..Len(chain) /\ last_synced \in 0..Len(chain) /\ Len(chain) \in Nat
      BY <1>1, StreamHead, ChainTyped DEF Typed
    <3> QED BY <1>1, <1>3, <3>1
  <2>3. first = 0
    BY <2>1, <2>2 DEF Counted
  <2> QED BY <1>1, <2>1, <2>3
<1>4. Floor = last_persisted_block /\ Floor' = last_persisted_block
  BY <1>1 DEF Floor
<1>5. StreamComplete'
  <2>1. ASSUME NEW b \in 0..Len(chain), NEW u \in Users, NEW t \in Tokens, b >= last_persisted_block
        PROVE  Deposited(stream', b, u, t) + Total(chain, b, u, t) = Total(chain, Max({node, b}), u, t)
    <3>1. b >= last_synced
      <4>1. last_synced <= last_persisted_block
        BY <1>1 DEF Ordered, WritesInOrder
      <4>2. last_synced \in Nat /\ last_persisted_block \in Nat /\ b \in Nat
        BY ChainTyped DEF Typed
      <4> QED BY <2>1, <4>1, <4>2
    <3>2. Deposited(stream, b, u, t) + Total(chain, b, u, t) = Total(chain, Max({node, b}), u, t)
      BY <1>2, <1>4, <2>1 DEF StreamComplete
    <3> QED BY <1>3, <3>1, <3>2
  <2> QED BY <1>1, <1>4, <2>1 DEF StreamComplete
<1>6. RowsFollow'
  BY <1>1, <1>2 DEF RowsFollow
<1>7. LedgerExact'
  <2>1. ASSUME NEW u \in Users, NEW t \in Tokens
        PROVE  Held(ledger[u][t]) + Deposited(stream', last_synced, u, t) = Total(chain, Max({node, last_synced}), u, t)
    <3>1. PICK b \in 0..Len(chain) : b = last_synced /\ b >= last_synced
      BY ChainTyped DEF Typed
    <3>2. Deposited(stream', b, u, t) = Deposited(stream, b, u, t)
      BY <1>3, <3>1
    <3>3. Held(ledger[u][t]) + Deposited(stream, b, u, t) = Total(chain, Max({node, b}), u, t)
      BY <1>1, <1>2, <3>1 DEF LedgerExact
    <3> QED BY <3>1, <3>2, <3>3
  <2> QED BY <1>1, <2>1 DEF LedgerExact
<1> QED BY <1>5, <1>6, <1>7

\* What the live loop credits is no longer to come.
LEMMA CreditLiveExactly == Typed /\ Ordered /\ Exactly /\ CreditLive => Exactly'
<1> SUFFICES ASSUME Typed, Ordered, Exactly, CreditLive, exact'
             PROVE  (StreamComplete /\ RowsFollow /\ LedgerExact)'
  BY DEF Exactly
<1>1. /\ exact /\ phase = "live" /\ stream # <<>> /\ writing = <<>>
      /\ UNCHANGED <<chain, node, db, phase, head, current, last_synced>>
  BY DEF CreditLive
<1>2. StreamComplete /\ RowsFollow /\ LedgerExact
  BY <1>1 DEF Exactly
<1>3. PICK x \in Events, b \in 1..Len(chain) :
        /\ x = Head(stream) /\ b = x.block_number /\ b > last_synced /\ b >= last_persisted_block /\ b <= node
        /\ last_persisted_block' = b /\ stream' = Tail(stream)
        /\ ledger' = CreditAll(ledger, <<x>>) /\ ledger' \in Ledgers
        /\ writing' # <<>> /\ writing'[1] = BalanceSave(ledger', x)
        /\ IF b > last_persisted_block
             THEN Len(writing') = 2 /\ DOMAIN writing' = 1..2 /\ writing'[2] = CursorSave(b)
             ELSE Len(writing') = 1 /\ DOMAIN writing' = 1..1
  BY LiveWrites
<1>4. PICK synced \in 0..Len(chain), stored \in 0..Len(chain) : synced = last_synced /\ stored = last_persisted_block
  BY DEF Typed
<1>5. Len(chain) \in Nat
  BY ChainTyped DEF Typed
<1>6. ASSUME NEW u \in Users, NEW t \in Tokens
      PROVE  /\ Held(ledger'[u][t]) = Held(ledger[u][t]) + Counted(x, 0, u, t)
             /\ Held(ledger'[u][t]) + Deposited(stream', synced, u, t) = Total(chain, Max({node, synced}), u, t)
  <2>1. PICK first \in Nat, others \in Nat :
          /\ first = Counted(Head(stream), synced, u, t) /\ others = Deposited(Tail(stream), synced, u, t)
          /\ Deposited(stream, synced, u, t) = first + others
    BY <1>1, StreamTaken
  <2>2. PICK l \in Ledgers, h \in Nat : l = ledger /\ h = Held(l[u][t])
    BY HeldTyped DEF Typed
  <2>3. h + (first + others) = Total(chain, Max({node, synced}), u, t)
    BY <1>1, <1>2, <1>4, <2>1, <2>2 DEF LedgerExact
  <2>4. Total(chain, Max({node, synced}), u, t) < Word /\ Word \in Nat
    BY LaterTyped, OnChainTyped, WordAssumption
  <2>5. h + first < Word
    BY <2>3, <2>4
  <2>6. Counted(x, 0, u, t) = first
    <3>1. b > 0 /\ b > synced
      BY <1>3, <1>4
    <3> QED BY <1>3, <2>1, <3>1 DEF Counted
  <2>7. PICK d \in Seq(Events) : d = <<x>> /\ \A i \in DOMAIN d : d[i].block_number > 0
    <3>1. PICK d \in Seq(Events) : d = <<x>>
      <4>1. <<x>> \in Seq(Events)
        OBVIOUS
      <4> QED BY <4>1
    <3>2. \A i \in DOMAIN d : d[i] = x
      BY <3>1
    <3>3. x.block_number > 0
      BY <1>3
    <3>4. \A i \in DOMAIN d : d[i].block_number > 0
      BY <3>2, <3>3
    <3> QED BY <3>1, <3>4
  <2>8. Deposited(d, 0, u, t) = first
    BY <2>6, <2>7, DepositedOne
  <2>9. \A v \in Users, s \in Tokens :
          Held(l[v][s]) + Deposited(d, 0, v, s) < Word
          => Held(CreditAll(l, d)[v][s]) = Held(l[v][s]) + Deposited(d, 0, v, s)
    BY <2>7, CreditAllHolds
  <2>10. Held(ledger'[u][t]) = h + first
    BY <1>3, <2>2, <2>5, <2>7, <2>8, <2>9
  <2>11. (h + first) + others = h + (first + others)
    OBVIOUS
  <2> QED BY <1>3, <2>1, <2>2, <2>3, <2>6, <2>10, <2>11
<1>7. LedgerExact'
  BY <1>1, <1>4, <1>6 DEF LedgerExact
<1>8. Floor = stored /\ Floor' = b
  BY <1>1, <1>3, <1>4 DEF Floor
<1>9. StreamComplete'
  <2>1. ASSUME NEW c \in 0..Len(chain), NEW u \in Users, NEW t \in Tokens, c >= b
        PROVE  Deposited(stream', c, u, t) + Total(chain, c, u, t) = Total(chain, Max({node, c}), u, t)
    <3>1. c >= stored /\ ~(b > c)
      BY <1>3, <1>4, <1>5, <2>1
    <3>2. Deposited(stream, c, u, t) + Total(chain, c, u, t) = Total(chain, Max({node, c}), u, t)
      BY <1>2, <1>8, <3>1 DEF StreamComplete
    <3>3. PICK first \in Nat, others \in Nat :
            /\ first = Counted(Head(stream), c, u, t) /\ others = Deposited(Tail(stream), c, u, t)
            /\ Deposited(stream, c, u, t) = first + others
      BY <1>1, StreamTaken
    <3>4. first = 0
      BY <1>3, <3>1, <3>3 DEF Counted
    <3> QED BY <1>3, <3>2, <3>3, <3>4
  <2> QED BY <1>1, <1>8, <2>1 DEF StreamComplete
<1>10. RowsFollow'
  <2>1. ASSUME NEW i \in DOMAIN writing', writing'[i].kind = "row"
        PROVE  Held(writing'[i].balance) = Held(ledger'[writing'[i].user][writing'[i].token])
    <3>1. CursorSave(b).kind # "row"
      BY DEF CursorSave
    <3>2. i = 1
      BY <1>3, <2>1, <3>1
    <3> QED BY <1>3, <3>2 DEF BalanceSave
  <2>2. ASSUME NEW u \in Users, NEW t \in Tokens
        PROVE  \/ \E i \in DOMAIN writing' : writing'[i].kind = "row" /\ writing'[i].user = u /\ writing'[i].token = t
               \/ Held(db.balances[u][t]) = Held(ledger'[u][t])
    <3>1. CASE x.deposit.user = u /\ x.deposit.token = t
      <4>1. 1 \in DOMAIN writing'
        BY <1>3
      <4>2. writing'[1].kind = "row" /\ writing'[1].user = u /\ writing'[1].token = t
        BY <1>3, <3>1 DEF BalanceSave
      <4> QED BY <4>1, <4>2
    <3>2. CASE ~(x.deposit.user = u /\ x.deposit.token = t)
      <4>1. Counted(x, 0, u, t) = 0
        BY <3>2 DEF Counted
      <4>2. PICK h \in Nat : h = Held(ledger[u][t])
        BY HeldTyped DEF Typed
      <4>3. Held(ledger'[u][t]) = h
        BY <1>6, <4>1, <4>2
      <4>4. DOMAIN writing = {}
        BY <1>1
      <4>5. Held(db.balances[u][t]) = h
        BY <1>2, <4>2, <4>4 DEF RowsFollow
      <4> QED BY <4>3, <4>5
    <3> QED BY <3>1, <3>2
  <2> QED BY <1>1, <2>1, <2>2 DEF RowsFollow
<1> QED BY <1>7, <1>9, <1>10

\* The other events and blocks are as they were.
LEMMA StreamUnchanged ==
  ASSUME StreamComplete, Floor' = Floor, UNCHANGED <<chain, node, stream>>
  PROVE  StreamComplete'
BY DEF StreamComplete

\* The row that is stored was the next one.
LEMMA SaveBalanceExactly == Typed /\ Ordered /\ Exactly /\ SaveBalance => Exactly'
<1> SUFFICES ASSUME Typed, Ordered, Exactly, SaveBalance, exact', phase' \in {"sync", "live"}
             PROVE  (StreamComplete /\ RowsFollow /\ LedgerExact)'
  BY DEF Exactly
<1>1. /\ exact /\ phase \in {"sync", "live"} /\ writing # <<>> /\ Head(writing).kind = "row"
      /\ UNCHANGED <<chain, node, stream, ledger, phase, head, current, last_synced, last_persisted_block>>
  BY DEF SaveBalance, chain_vars
<1>2. StreamComplete /\ RowsFollow /\ LedgerExact
  BY <1>1 DEF Exactly
<1>3. PICK n \in Nat, rest \in Seq(Writes) :
        /\ n = Len(writing) /\ rest = Tail(writing) /\ rest = writing' /\ DOMAIN writing = 1..n
        /\ DOMAIN rest = 1..(n - 1) /\ 1 \in 1..n
        /\ \A i \in 1..(n - 1) : rest[i] = writing[i + 1]
        /\ writing[1] \in Rows /\ Head(writing) = writing[1]
  <2>1. /\ Head(writing) \in Writes /\ Tail(writing) \in Seq(Writes) /\ Head(writing) = writing[1]
        /\ Len(writing) \in Nat /\ 1 \in 1..Len(writing) /\ Len(Tail(writing)) = Len(writing) - 1
        /\ \A i \in 1..(Len(writing) - 1) : Tail(writing)[i] = writing[i + 1]
    BY <1>1, NextWrite
  <2>2. DOMAIN writing = 1..Len(writing) /\ DOMAIN Tail(writing) = 1..Len(Tail(writing))
    BY <2>1, LenProperties DEF Typed
  <2>3. writing' = Tail(writing)
    BY DEF SaveBalance
  <2>4. Head(writing) \in Rows
    BY <1>1, <2>1 DEF Writes
  <2> QED BY <2>1, <2>2, <2>3, <2>4
<1>4. PICK v \in Users, s \in Tokens, b \in Balances :
        v = writing[1].user /\ s = writing[1].token /\ b = writing[1].balance /\ writing[1].kind = "row"
  BY <1>3 DEF Rows
<1>5. \A u \in Users, t \in Tokens : db'.balances[u][t] = IF u = v /\ t = s THEN b ELSE db.balances[u][t]
  <2>1. db' = [db EXCEPT !.balances[v][s] = b]
    BY <1>3, <1>4 DEF SaveBalance
  <2>2. db.balances \in Ledgers /\ db'.balances = [db.balances EXCEPT ![v][s] = b]
    BY <2>1 DEF Typed
  <2> QED BY <2>2 DEF Ledgers
<1>6. StreamComplete'
  <2>1. NextCursor' = NextCursor
    BY SaveOrdered
  <2>2. Floor' = Floor
    BY <1>1, <2>1 DEF Floor
  <2> QED BY <1>1, <1>2, <2>2, StreamUnchanged
<1>7. LedgerExact'
  BY <1>1, <1>2 DEF LedgerExact
<1>8. RowsFollow'
  <2>1. ASSUME NEW i \in 1..(n - 1)
        PROVE  i + 1 \in DOMAIN writing /\ rest[i] = writing[i + 1]
    BY <1>3
  <2>2. ASSUME NEW i \in DOMAIN rest, rest[i].kind = "row"
        PROVE  Held(rest[i].balance) = Held(ledger[rest[i].user][rest[i].token])
    BY <1>2, <1>3, <2>1, <2>2 DEF RowsFollow
  <2>3. ASSUME NEW u \in Users, NEW t \in Tokens
        PROVE  \/ \E i \in DOMAIN rest : rest[i].kind = "row" /\ rest[i].user = u /\ rest[i].token = t
               \/ Held(db'.balances[u][t]) = Held(ledger[u][t])
    <3>1. CASE u = v /\ t = s
      <4>1. Held(writing[1].balance) = Held(ledger[writing[1].user][writing[1].token])
        BY <1>2, <1>3, <1>4 DEF RowsFollow
      <4> QED BY <1>4, <1>5, <3>1, <4>1
    <3>2. CASE ~(u = v /\ t = s)
      <4>1. db'.balances[u][t] = db.balances[u][t]
        BY <1>5, <3>2
      <4>2. CASE Held(db.balances[u][t]) = Held(ledger[u][t])
        BY <4>1, <4>2
      <4>3. CASE Held(db.balances[u][t]) # Held(ledger[u][t])
        <5>1. PICK i \in DOMAIN writing : writing[i].kind = "row" /\ writing[i].user = u /\ writing[i].token = t
          BY <1>2, <4>3 DEF RowsFollow
        <5>2. i # 1
          BY <1>4, <3>2, <5>1
        <5>3. i - 1 \in 1..(n - 1) /\ (i - 1) + 1 = i
          BY <1>3, <5>2
        <5>4. rest[i - 1] = writing[i]
          BY <2>1, <5>3
        <5> QED BY <1>3, <5>1, <5>3, <5>4
      <4> QED BY <4>2, <4>3
    <3> QED BY <3>1, <3>2
  <2> QED BY <1>1, <1>3, <2>2, <2>3 DEF RowsFollow
<1> QED BY <1>6, <1>7, <1>8

\* The cursor is stored when no row is left to store.
LEMMA SetLastSyncedBlockExactly == Typed /\ Ordered /\ Exactly /\ SetLastSyncedBlock => Exactly'
<1> SUFFICES ASSUME Typed, Ordered, Exactly, SetLastSyncedBlock, exact', phase' \in {"sync", "live"}
             PROVE  (StreamComplete /\ RowsFollow /\ LedgerExact)'
  BY DEF Exactly
<1>1. /\ exact /\ phase \in {"sync", "live"} /\ writing # <<>> /\ Head(writing).kind = "cursor"
      /\ UNCHANGED <<chain, node, stream, ledger, phase, head, current, last_synced, last_persisted_block>>
      /\ db' = [db EXCEPT !.last_synced_block = Head(writing).block] /\ writing' = Tail(writing)
  BY DEF SetLastSyncedBlock, chain_vars
<1>2. StreamComplete /\ RowsFollow /\ LedgerExact
  BY <1>1 DEF Exactly
<1>3. db'.balances = db.balances
  BY <1>1 DEF Typed
<1>4. DOMAIN writing = 1..1 /\ DOMAIN writing' = {} /\ writing[1].kind = "cursor"
  <2>1. /\ Tail(writing) \in Seq(Writes) /\ Head(writing) = writing[1]
        /\ Len(writing) \in Nat /\ 1 \in 1..Len(writing) /\ Len(Tail(writing)) = Len(writing) - 1
    BY <1>1, NextWrite
  <2>2. DOMAIN writing = 1..Len(writing) /\ DOMAIN Tail(writing) = 1..Len(Tail(writing))
    BY <2>1, LenProperties DEF Typed
  <2>3. Len(writing) = 1
    BY <1>1, <2>1, <2>2 DEF Ordered, WritesInOrder
  <2> QED BY <1>1, <2>1, <2>2, <2>3
<1>5. StreamComplete'
  <2>1. NextCursor' = NextCursor
    BY SaveOrdered
  <2>2. Floor' = Floor
    BY <1>1, <2>1 DEF Floor
  <2> QED BY <1>1, <1>2, <2>2, StreamUnchanged
<1>6. LedgerExact'
  BY <1>1, <1>2 DEF LedgerExact
<1>7. RowsFollow'
  <2>1. \A i \in DOMAIN writing : writing[i].kind = "cursor"
    BY <1>4
  <2>2. \A u \in Users, t \in Tokens : Held(db.balances[u][t]) = Held(ledger[u][t])
    BY <1>2, <2>1 DEF RowsFollow
  <2> QED BY <1>1, <1>3, <1>4, <2>2 DEF RowsFollow
<1> QED BY <1>5, <1>6, <1>7

\* Orders and cancels move within what is held, and store the whole ledger.
LEMMA OrdersExactly ==
  ASSUME Typed, Ordered, Exactly, NEW v \in Users, NEW s \in Tokens, SubmitOrder(v, s) \/ CancelOrder(v, s)
  PROVE  Exactly'
<1> SUFFICES ASSUME exact', phase' \in {"sync", "live"}
             PROVE  (StreamComplete /\ RowsFollow /\ LedgerExact)'
  BY DEF Exactly
<1>1. /\ exact /\ phase \in {"sync", "live"} /\ db' = [db EXCEPT !.balances = ledger']
      /\ UNCHANGED <<chain, node, stream, writing, phase, head, current, last_synced, last_persisted_block>>
  BY DEF SubmitOrder, CancelOrder, SaveSnapshot, chain_vars, task_vars
<1>2. StreamComplete /\ RowsFollow /\ LedgerExact
  BY <1>1 DEF Exactly
<1>3. db'.balances = ledger'
  BY <1>1 DEF Typed
<1>4. \A u \in Users, t \in Tokens : Held(ledger'[u][t]) = Held(ledger[u][t])
  <2>1. OrderSize \in Amounts /\ ledger \in Ledgers
    BY SyncAssumption DEF Typed
  <2>2. CASE SubmitOrder(v, s)
    <3>1. ledger' = Reserve(ledger, v, s, OrderSize)
      BY <2>2 DEF SubmitOrder
    <3> QED BY <2>1, <3>1, ReserveHolds
  <2>3. CASE CancelOrder(v, s)
    <3>1. ledger' = Release(ledger, v, s, OrderSize)
      BY <2>3 DEF CancelOrder
    <3> QED BY <2>1, <3>1, ReleaseHolds
  <2> QED BY <2>2, <2>3
<1>5. StreamComplete'
  <2>1. NextCursor' = NextCursor
    BY OrdersOrdered
  <2>2. Floor' = Floor
    BY <1>1, <2>1 DEF Floor
  <2> QED BY <1>1, <1>2, <2>2, StreamUnchanged
<1>6. LedgerExact'
  BY <1>1, <1>2, <1>4 DEF LedgerExact
<1>7. RowsFollow'
  <2>1. ASSUME NEW i \in DOMAIN writing, writing[i].kind = "row"
        PROVE  Held(writing[i].balance) = Held(ledger'[writing[i].user][writing[i].token])
    <3>1. writing[i] \in Writes
      BY ElementOfSeq, LenProperties DEF Typed
    <3>2. writing[i].user \in Users /\ writing[i].token \in Tokens
      BY <2>1, <3>1 DEF Writes, Rows
    <3>3. Held(writing[i].balance) = Held(ledger[writing[i].user][writing[i].token])
      BY <1>2, <2>1 DEF RowsFollow
    <3> QED BY <1>4, <3>2, <3>3
  <2> QED BY <1>1, <1>3, <2>1 DEF RowsFollow
<1> QED BY <1>5, <1>6, <1>7

\* Every step keeps the sums.
LEMMA NextExactly == Typed /\ Ordered /\ Exactly /\ [Next]_vars => Exactly'
<1> SUFFICES ASSUME Typed, Ordered, Exactly, [Next]_vars PROVE Exactly'
  OBVIOUS
<1>1. CASE NodeAdvances
  BY <1>1, NodeAdvancesExactly
<1>2. CASE GetHead
  BY <1>2 DEF GetHead, Exactly
<1>3. CASE Subscribe
  BY <1>3, SubscribeExactly
<1>4. CASE SyncChunk
  BY <1>4, SyncChunkExactly
<1>5. CASE GoLive
  BY <1>5, GoLiveExactly
<1>6. CASE SkipCovered
  BY <1>6, SkipCoveredExactly
<1>7. CASE CreditLive
  BY <1>7, CreditLiveExactly
<1>8. CASE SaveBalance
  BY <1>8, SaveBalanceExactly
<1>9. CASE SetLastSyncedBlock
  BY <1>9, SetLastSyncedBlockExactly
<1>10. CASE Reconnect \/ Restart
  BY <1>10 DEF Reconnect, Restart, NewConnection, Exactly
<1>11. CASE \E u \in Users, t \in Tokens : SubmitOrder(u, t) \/ CancelOrder(u, t)
  BY <1>11, OrdersExactly
<1>12. CASE UNCHANGED vars
  BY <1>12 DEF vars, chain_vars, state_vars, task_vars, Exactly, StreamComplete, RowsFollow, LedgerExact,
               Floor, NextCursor
<1> QED BY <1>1, <1>2, <1>3, <1>4, <1>5, <1>6, <1>7, <1>8, <1>9, <1>10, <1>11, <1>12 DEF Next, Task

\* The sums say that every deposit is credited once.
LEMMA EachOnce == Typed /\ Exactly => EachDepositOnce
<1> SUFFICES ASSUME Typed, Exactly, exact
             PROVE  /\ phase = "sync" => Agrees(ledger, current - 1)
                    /\ phase = "live" =>
                         \A u \in Users, t \in Tokens :
                           Held(ledger[u][t]) + StillToCome(u, t) = OnChain(u, t, Max({node, last_synced}))
  BY DEF EachDepositOnce
<1>1. ASSUME phase = "sync" PROVE Agrees(ledger, current - 1)
  <2>1. PICK b \in 0..Len(chain) : b = current - 1
    BY <1>1, ChainTyped DEF Typed
  <2>2. \A u \in Users, t \in Tokens : Held(ledger[u][t]) = Total(chain, b, u, t)
    BY <1>1, <2>1 DEF Exactly, LedgerExact
  <2> QED BY <2>1, <2>2, OnChainTyped DEF Agrees
<1>2. ASSUME phase = "live", NEW u \in Users, NEW t \in Tokens
      PROVE  Held(ledger[u][t]) + StillToCome(u, t) = OnChain(u, t, Max({node, last_synced}))
  <2>1. PICK b \in 0..Len(chain) : b = Max({node, last_synced})
    <3>1. last_synced \in 0..Len(chain)
      BY DEF Typed
    <3> QED BY <3>1, LaterTyped
  <2>2. Held(ledger[u][t]) + Deposited(stream, last_synced, u, t) = Total(chain, b, u, t)
    BY <1>2, <2>1 DEF Exactly, LedgerExact
  <2>3. OnChain(u, t, b) = Total(chain, b, u, t)
    BY OnChainTyped
  <2> QED BY <2>1, <2>2, <2>3 DEF StillToCome
<1> QED BY <1>1, <1>2

\* And, with the order of the writes, that rows and cursor belong together.
LEMMA RowsAtCursor == Typed /\ Ordered /\ Exactly => CursorMatchesRows
<1> SUFFICES ASSUME Typed, Ordered, Exactly, exact, phase \in {"sync", "live"}, writing = <<>>,
                    \A i \in DOMAIN stream : stream[i].block_number # db.last_synced_block,
                    NEW u \in Users, NEW t \in Tokens
             PROVE  Held(db.balances[u][t]) = OnChain(u, t, db.last_synced_block)
  BY DEF CursorMatchesRows, Agrees
<1>1. StreamComplete /\ RowsFollow /\ LedgerExact
  BY DEF Exactly
<1>2. PICK c \in 0..Len(chain), none \in 0..Len(chain) :
        c = db.last_synced_block /\ c = NextCursor /\ none = 0
  BY NothingToWrite, ChainTyped DEF Typed
<1>3. PICK deploy \in 1..Len(chain) : deploy = contract_deploy_block /\ Len(chain) \in Nat /\ none < deploy
  BY <1>2, ChainTyped DEF Typed
<1>4. PICK h \in Nat : h = Held(ledger[u][t]) /\ h = Held(db.balances[u][t])
  <2>1. DOMAIN writing = {}
    OBVIOUS
  <2> QED BY <1>1, <2>1, HeldTyped DEF Typed, RowsFollow
<1>5. OnChain(u, t, c) = Total(chain, c, u, t) /\ Total(chain, none, u, t) = 0
  BY <1>3, OnChainTyped
<1>6. CASE phase = "sync"
  <2>1. PICK b \in 0..Len(chain) : b = current - 1
    BY <1>6, ChainTyped DEF Typed
  <2>2. h = Total(chain, b, u, t)
    BY <1>1, <1>4, <1>6, <2>1 DEF LedgerExact
  <2>3. c = b \/ (c = none /\ b < deploy)
    BY <1>2, <1>3, <1>6, <2>1 DEF Ordered, WritesInOrder, CursorAt, NoBlock
  <2>4. Total(chain, c, u, t) = Total(chain, b, u, t)
    BY <1>3, <1>5, <2>3, OnChainTyped
  <2> QED BY <1>2, <1>4, <1>5, <2>2, <2>4
<1>7. CASE phase = "live"
  <2>1. PICK synced \in 0..Len(chain), stored \in 0..Len(chain) :
          synced = last_synced /\ stored = last_persisted_block
    BY DEF Typed
  <2>2. /\ c = stored \/ (c = none /\ stored < deploy)
        /\ synced <= stored
        /\ stored = synced \/ (c # none /\ stored <= node)
    BY <1>2, <1>3, <1>7, <2>1 DEF Ordered, WritesInOrder, CursorAt, NoBlock
  <2>3. PICK x \in Nat, y \in Nat : x = Deposited(stream, stored, u, t) /\ y = Deposited(stream, synced, u, t)
    BY StreamTyped
  <2>4. x + Total(chain, stored, u, t) = Total(chain, Max({node, stored}), u, t)
    <3>1. Floor = stored
      BY <1>7, <2>1 DEF Floor
    <3>2. stored >= Floor
      BY <1>3, <3>1
    <3> QED BY <1>1, <2>3, <3>2 DEF StreamComplete
  <2>5. h + y = Total(chain, Max({node, synced}), u, t)
    BY <1>1, <1>4, <1>7, <2>1, <2>3 DEF LedgerExact
  <2>6. Total(chain, Max({node, synced}), u, t) = Total(chain, Max({node, stored}), u, t)
    <3>1. CASE stored = synced
      BY <3>1
    <3>2. CASE stored # synced
      <4>1. node >= stored /\ node >= synced
        <5>1. node \in Nat /\ stored \in Nat /\ synced \in Nat
          BY ChainTyped DEF Typed
        <5> QED BY <2>2, <3>2, <5>1
      <4> QED BY <4>1, LaterTyped
    <3> QED BY <3>1, <3>2
  <2>7. x = y
    <3>1. CASE stored = synced
      BY <2>3, <3>1
    <3>2. CASE stored # synced
      <4>1. c = stored
        BY <2>2, <3>2
      <4>2. PICK s \in Seq(Events), n \in Nat : s = stream /\ n = Len(s) /\ DOMAIN s = 1..n
        BY StreamTyped, LenProperties
      <4>3. ASSUME NEW i \in 1..n
            PROVE  Counted(s[i], stored, u, t) = Counted(s[i], synced, u, t)
        <5>1. s[i].block_number \in 1..Len(chain)
          <6>1. s \in Seq(EventsAt(1, Len(chain)))
            BY <4>2 DEF Typed
          <6>2. s[i] \in EventsAt(1, Len(chain))
            BY <4>2, <6>1, ElementOfSeq
          <6> QED BY <6>2 DEF EventsAt
        <5>2. s[i].block_number > synced => s[i].block_number >= stored
          BY <1>7, <2>1, <4>2 DEF Ordered, StreamInOrder
        <5>3. s[i].block_number # stored
          BY <1>2, <4>1, <4>2
        <5>4. s[i].block_number > stored <=> s[i].block_number > synced
          <6>1. PICK k : k = s[i].block_number
            OBVIOUS
          <6>2. k \in Nat /\ synced \in Nat /\ stored \in Nat
            BY <1>3, <5>1, <6>1
          <6> QED BY <2>2, <5>2, <5>3, <6>1, <6>2
        <5> QED BY <5>4 DEF Counted
      <4>4. Deposited(s, stored, u, t) = Deposited(s, synced, u, t)
        BY <4>2, <4>3, DepositedSame
      <4> QED BY <2>3, <4>2, <4>4
    <3> QED BY <3>1, <3>2
  <2>8. h = Total(chain, stored, u, t)
    <3>1. PICK z \in Nat : z = Total(chain, stored, u, t)
      BY OnChainTyped
    <3> QED BY <2>4, <2>5, <2>6, <2>7, <3>1
  <2>9. Total(chain, c, u, t) = Total(chain, stored, u, t)
    BY <1>3, <1>5, <2>2, OnChainTyped
  <2> QED BY <1>2, <1>4, <1>5, <2>8, <2>9
<1> QED BY <1>6, <1>7

-----------------------------------------------------------------------------

\* What every step preserves: the types, the order of writes and events, and the sums.
DepositInv == Typed /\ Ordered /\ Exactly

\* The invariant holds in every state.
LEMMA DepositInvHolds == Spec => []DepositInv
<1>1. Init => DepositInv
  <2> SUFFICES ASSUME Init PROVE DepositInv
    OBVIOUS
  <2>1. phase = "head"
    BY DEF Init
  <2> QED BY <2>1, InitTyped, InitOrdered DEF DepositInv, Exactly
<1>2. DepositInv /\ [Next]_vars => DepositInv'
  BY NextTyped, NextOrdered, NextExactly DEF DepositInv
<1> QED BY <1>1, <1>2, PTL DEF Spec

\* The state of the deposit service has its types whatever chain it watches, however
\* often calls fail and the process dies.
THEOREM DepositTypes == Spec => []TypeOK
<1>1. DepositInv => TypeOK
  BY TypedTypes DEF DepositInv
<1> QED BY <1>1, DepositInvHolds, PTL

\* Every deposit is credited once, by the historical synchronisation or by the live
\* loop (sync_historical and the loop of deposit.rs).
THEOREM DepositsCreditedOnce == Spec => []EachDepositOnce
<1>1. DepositInv => EachDepositOnce
  BY EachOnce DEF DepositInv
<1> QED BY <1>1, DepositInvHolds, PTL

\* The rows and the cursor that a restart finds between two writes belong together.
THEOREM CursorAndRowsAgree == Spec => []CursorMatchesRows
<1>1. DepositInv => CursorMatchesRows
  BY RowsAtCursor DEF DepositInv
<1> QED BY <1>1, DepositInvHolds, PTL

\* set_last_synced_block is never called with an earlier block than the one stored.
THEOREM CursorNeverGoesBack == Spec => CursorMovesForward
<1>1. DepositInv /\ [Next]_vars => [db'.last_synced_block >= db.last_synced_block]_vars
  BY CursorForward DEF DepositInv
<1> QED BY <1>1, DepositInvHolds, PTL DEF Spec, CursorMovesForward
================================================================================
