----------------------------- MODULE WsFeedProofs ------------------------------
(***************************************************************************)
(* Proofs about the feed, for any connections, requests and messages.      *)
(*                                                                         *)
(* FeedExact is inductive once the registry is known to hold the senders   *)
(* of the registered connections and of no other: who is registered has    *)
(* proved its address, ids are given once, and nothing is on its way       *)
(* before. The steps need that the messages for an address among two lots  *)
(* of dispatches are those of the first and then those of the second.      *)
(***************************************************************************)
EXTENDS WsFeed, FiniteSums, SequenceTheorems

-----------------------------------------------------------------------------
(* The messages for an address: the recursion, and what it computes.       *)

\* g computes the messages for an address among the first n dispatches, as the
\* recursion of the definition does.
Collects(g, a, dispatches, n) ==
  g = [i \in 0..n |->
         IF i = 0 THEN <<>>
         ELSE IF dispatches[i].address = a THEN Append(g[i - 1], dispatches[i].message)
         ELSE g[i - 1]]

\* The recursive function that the definition chooses exists, up to any n, and
\* so MessagesFor is its last value.
LEMMA MessagesUnfold ==
  ASSUME NEW a, NEW dispatches, Len(dispatches) \in Nat
  PROVE  \E g : /\ Collects(g, a, dispatches, Len(dispatches))
                /\ MessagesFor(a, dispatches) = g[Len(dispatches)]
<1> DEFINE N == Len(dispatches)
           Reached == {n \in 0..N : \E g : Collects(g, a, dispatches, n)}
<1>1. 0 \in Reached
  <2>1. Collects([i \in 0..0 |-> <<>>], a, dispatches, 0)
    BY DEF Collects
  <2> QED BY <2>1
<1>2. ASSUME NEW n \in 0..(N - 1), n \in Reached PROVE n + 1 \in Reached
  <2>1. PICK g : Collects(g, a, dispatches, n)
    BY <1>2
  <2>2. PICK last : last = IF dispatches[n + 1].address = a THEN Append(g[n], dispatches[n + 1].message)
                           ELSE g[n]
    OBVIOUS
  <2> DEFINE h == [i \in 0..(n + 1) |-> IF i <= n THEN g[i] ELSE last]
  <2>3. \A i \in 0..n : g[i] = IF i = 0 THEN <<>>
                               ELSE IF dispatches[i].address = a THEN Append(g[i - 1], dispatches[i].message)
                               ELSE g[i - 1]
    BY <2>1 DEF Collects
  <2>4. /\ \A i \in 0..n : h[i] = g[i]
        /\ h[n + 1] = last
    OBVIOUS
  <2>5. \A i \in 0..(n + 1) : h[i] = IF i = 0 THEN <<>>
                               ELSE IF dispatches[i].address = a THEN Append(h[i - 1], dispatches[i].message)
                               ELSE h[i - 1]
    <3> SUFFICES ASSUME NEW i \in 0..(n + 1)
                 PROVE  h[i] = IF i = 0 THEN <<>>
                               ELSE IF dispatches[i].address = a THEN Append(h[i - 1], dispatches[i].message)
                               ELSE h[i - 1]
      OBVIOUS
    <3>1. CASE i = 0
      BY <2>3, <2>4, <3>1
    <3>2. CASE i \in 1..n
      <4>1. i - 1 \in 0..n /\ i \in 0..n /\ i # 0
        BY <3>2
      <4> HIDE DEF h
      <4> QED BY <2>3, <2>4, <4>1
    <3>3. CASE i = n + 1
      <4>1. i - 1 = n /\ n \in 0..n /\ i # 0
        BY <3>3
      <4> HIDE DEF h
      <4> QED BY <2>2, <2>4, <3>3, <4>1
    <3> QED BY <3>1, <3>2, <3>3
  <2>6. h = [i \in 0..(n + 1) |-> h[i]]
    OBVIOUS
  <2>7. Collects(h, a, dispatches, n + 1)
    <3> HIDE DEF h
    <3> QED BY <2>5, <2>6 DEF Collects
  <2> QED BY <2>7
<1>3. N \in 0..N
  OBVIOUS
<1>4. PICK g : Collects(g, a, dispatches, N)
  <2>1. \A n \in 0..N : n \in Reached
    <3> HIDE DEF Reached, N
    <3> QED BY <1>1, <1>2, CountingUp, N \in Nat DEF N
  <2> QED BY <1>3, <2>1
<1> DEFINE chosen == CHOOSE f : f = [i \in 0..Len(dispatches) |->
         IF i = 0 THEN <<>>
         ELSE IF dispatches[i].address = a THEN Append(f[i - 1], dispatches[i].message)
         ELSE f[i - 1]]
<1>5. Collects(chosen, a, dispatches, N)
  BY <1>4 DEF Collects
<1>6. MessagesFor(a, dispatches) = chosen[N]
  BY DEF MessagesFor
<1> QED BY <1>5, <1>6

\* What was collected from the first dispatches does not depend on later ones.
LEMMA MessagesAgree ==
  ASSUME NEW a, NEW d, NEW e, NEW n \in Nat, NEW m \in Nat, n <= m,
         \A i \in 1..n : d[i] = e[i],
         NEW g, Collects(g, a, d, n), NEW h, Collects(h, a, e, m)
  PROVE  g[n] = h[n]
<1> DEFINE Same == {i \in 0..n : g[i] = h[i]}
<1>1. 0 \in Same
  BY DEF Collects
<1>2. ASSUME NEW i \in 0..(n - 1), i \in Same PROVE i + 1 \in Same
  <2>1. /\ i + 1 \in 0..n /\ i + 1 \in 0..m /\ i + 1 # 0 /\ (i + 1) - 1 = i /\ i + 1 \in 1..n
    OBVIOUS
  <2>2. g[i + 1] = IF d[i + 1].address = a THEN Append(g[i], d[i + 1].message) ELSE g[i]
    BY <2>1 DEF Collects
  <2>3. h[i + 1] = IF e[i + 1].address = a THEN Append(h[i], e[i + 1].message) ELSE h[i]
    BY <2>1 DEF Collects
  <2> QED BY <1>2, <2>1, <2>2, <2>3
<1>3. n \in Same
  <2> HIDE DEF Same
  <2>1. \A i \in 0..n : i \in Same
    BY <1>1, <1>2, CountingUp
  <2> QED BY <2>1
<1> QED BY <1>3

\* Nothing is sent: no message.
LEMMA NoMessages == \A a : MessagesFor(a, <<>>) = <<>>
<1> SUFFICES ASSUME NEW a PROVE MessagesFor(a, <<>>) = <<>>
  OBVIOUS
<1>1. Len(<<>>) = 0
  OBVIOUS
<1>2. PICK g : Collects(g, a, <<>>, 0) /\ MessagesFor(a, <<>>) = g[0]
  BY <1>1, MessagesUnfold
<1> QED BY <1>2 DEF Collects

\* One more is sent: its message is the last one, or it is for another address.
LEMMA MessagesStep ==
  ASSUME NEW a, NEW D, NEW d \in Seq(D), NEW x \in D
  PROVE  MessagesFor(a, Append(d, x)) =
           IF x.address = a THEN Append(MessagesFor(a, d), x.message) ELSE MessagesFor(a, d)
<1>2. PICK n \in Nat : n = Len(d)
  BY LenProperties
<1>3. PICK longer \in Seq(D) : /\ longer = Append(d, x) /\ Len(longer) = n + 1
                               /\ \A i \in 1..n : longer[i] = d[i]
                               /\ longer[n + 1] = x
  BY <1>2, AppendProperties
<1>4. PICK g : Collects(g, a, d, n) /\ MessagesFor(a, d) = g[n]
  BY <1>2, MessagesUnfold
<1>5. PICK h : Collects(h, a, longer, n + 1) /\ MessagesFor(a, longer) = h[n + 1]
  <2>1. Len(longer) \in Nat
    BY <1>3
  <2>2. PICK h : Collects(h, a, longer, Len(longer)) /\ MessagesFor(a, longer) = h[Len(longer)]
    BY <2>1, MessagesUnfold
  <2> QED BY <1>3, <2>2
<1>6. g[n] = h[n]
  <2>1. n + 1 \in Nat /\ n <= n + 1 /\ \A i \in 1..n : d[i] = longer[i]
    BY <1>3
  <2> QED BY <1>4, <1>5, <2>1, MessagesAgree
<1>7. h[n + 1] = IF longer[n + 1].address = a THEN Append(h[n], longer[n + 1].message) ELSE h[n]
  <2>1. n + 1 \in 0..(n + 1) /\ n + 1 # 0 /\ (n + 1) - 1 = n
    OBVIOUS
  <2> QED BY <1>5, <2>1 DEF Collects
<1> QED BY <1>3, <1>4, <1>5, <1>6, <1>7

\* The first dispatches, one more than n, are the first n and another.
LEMMA FirstAndOneMore ==
  ASSUME NEW D, NEW d \in Seq(D), NEW n \in 0..(Len(d) - 1)
  PROVE  /\ SubSeq(d, 1, n) \in Seq(D) /\ d[n + 1] \in D
         /\ SubSeq(d, 1, n + 1) = Append(SubSeq(d, 1, n), d[n + 1])
<1>1. Len(d) \in Nat /\ n + 1 \in 1..Len(d) /\ \A i \in 1..Len(d) : d[i] \in D
  BY LenProperties, ElementOfSeq
<1>2. \A i \in 1..n : d[i] \in D
  BY <1>1
<1>3. SubSeq(d, 1, n) \in Seq(D)
  BY <1>2, SubSeqProperties
<1>4. SubSeq(d, 1, n + 1) = SubSeq(d, 1, (n + 1) - 1) \o <<d[n + 1]>>
  <2>1. 1 \in 1..Len(d) /\ n + 1 \in 1..Len(d)
    BY <1>1
  <2> QED BY <2>1, SubSeqRecursiveSecond
<1>5. (n + 1) - 1 = n
  OBVIOUS
<1> QED BY <1>1, <1>3, <1>4, <1>5, AppendIsConcat

\* It is the same to append to a part or to the whole.
LEMMA AppendLater ==
  ASSUME NEW S, NEW s \in Seq(S), NEW t \in Seq(S), NEW x \in S
  PROVE  s \o Append(t, x) = Append(s \o t, x)
<1>1. <<x>> \in Seq(S) /\ s \o t \in Seq(S)
  BY ConcatProperties
<1>2. Append(t, x) = t \o <<x>> /\ Append(s \o t, x) = (s \o t) \o <<x>>
  BY <1>1, AppendIsConcat
<1> QED BY <1>1, <1>2, ConcatAssociative

\* The messages are a sequence of what was dispatched.
LEMMA MessagesTyped ==
  ASSUME NEW a, NEW D, NEW M, \A x \in D : x.message \in M, NEW d \in Seq(D)
  PROVE  MessagesFor(a, d) \in Seq(M)
<1> DEFINE N == Len(d)
           Good == {n \in 0..N : MessagesFor(a, SubSeq(d, 1, n)) \in Seq(M)}
<1>0. N \in Nat
  BY LenProperties
<1>1. 0 \in Good
  <2>1. SubSeq(d, 1, 0) = <<>>
    BY SubSeqEmpty
  <2>2. MessagesFor(a, SubSeq(d, 1, 0)) \in Seq(M)
    BY <2>1, NoMessages, EmptySeq
  <2>3. 0 \in 0..N
    BY <1>0
  <2> QED BY <2>2, <2>3
<1>2. ASSUME NEW n \in 0..(N - 1), n \in Good PROVE n + 1 \in Good
  <2>1. /\ SubSeq(d, 1, n) \in Seq(D) /\ d[n + 1] \in D
        /\ SubSeq(d, 1, n + 1) = Append(SubSeq(d, 1, n), d[n + 1])
    BY FirstAndOneMore
  <2>2. PICK first \in Seq(D), x \in D : first = SubSeq(d, 1, n) /\ x = d[n + 1]
    BY <2>1
  <2>3. PICK lot \in Seq(M) : lot = MessagesFor(a, first)
    BY <1>2, <2>2
  <2>4. MessagesFor(a, Append(first, x)) \in {lot, Append(lot, x.message)}
    BY <2>3, MessagesStep
  <2>5. MessagesFor(a, SubSeq(d, 1, n + 1)) \in Seq(M)
    <3>1. PICK message \in M : message = x.message
      OBVIOUS
    <3>2. Append(lot, message) \in Seq(M)
      BY AppendProperties
    <3> QED BY <2>1, <2>2, <2>4, <3>1, <3>2
  <2>6. n + 1 \in 0..N
    BY <1>0
  <2> QED BY <2>5, <2>6
<1>3. N \in Good
  <2> HIDE DEF Good, N
  <2>1. \A n \in 0..N : n \in Good
    BY <1>0, <1>1, <1>2, CountingUp
  <2> QED BY <1>0, <2>1
<1> QED BY <1>3, SubSeqFull

\* The messages among two lots of dispatches are those of the first, then
\* those of the second.
LEMMA MessagesConcat ==
  ASSUME NEW a, NEW D, NEW d \in Seq(D), NEW e \in Seq(D)
  PROVE  MessagesFor(a, d \o e) = MessagesFor(a, d) \o MessagesFor(a, e)
<1>1. PICK M : \A x \in D : x.message \in M
  <2>1. \A x \in D : x.message \in {y.message : y \in D}
    OBVIOUS
  <2> QED BY <2>1, Zenon
<1> DEFINE N == Len(e)
           Good == {n \in 0..N : MessagesFor(a, d \o SubSeq(e, 1, n)) =
                                 MessagesFor(a, d) \o MessagesFor(a, SubSeq(e, 1, n))}
<1>2. N \in Nat /\ MessagesFor(a, d) \in Seq(M)
  BY <1>1, LenProperties, MessagesTyped
<1>3. 0 \in Good
  <2>1. SubSeq(e, 1, 0) = <<>> /\ d \o <<>> = d
    BY SubSeqEmpty, ConcatEmptySeq
  <2>2. MessagesFor(a, d) \o <<>> = MessagesFor(a, d)
    BY <1>2, ConcatEmptySeq
  <2>3. MessagesFor(a, d \o SubSeq(e, 1, 0)) = MessagesFor(a, d) \o MessagesFor(a, SubSeq(e, 1, 0))
    BY <2>1, <2>2, NoMessages
  <2>4. 0 \in 0..N
    BY <1>2
  <2> QED BY <2>3, <2>4
<1>4. ASSUME NEW n \in 0..(N - 1), n \in Good PROVE n + 1 \in Good
  <2>1. PICK first \in Seq(D), x \in D :
          first = SubSeq(e, 1, n) /\ x = e[n + 1] /\ SubSeq(e, 1, n + 1) = Append(first, x)
    BY FirstAndOneMore
  <2>2. d \o Append(first, x) = Append(d \o first, x) /\ d \o first \in Seq(D)
    BY AppendLater, ConcatProperties
  <2>3. PICK lot1, lot2 \in Seq(M) : lot1 = MessagesFor(a, d) /\ lot2 = MessagesFor(a, first)
    BY <1>1, MessagesTyped
  <2>4. MessagesFor(a, d \o first) = lot1 \o lot2
    BY <1>4, <2>1, <2>3
  <2>5. MessagesFor(a, Append(d \o first, x)) = lot1 \o MessagesFor(a, Append(first, x))
    <3>1. CASE x.address = a
      <4>1. MessagesFor(a, Append(d \o first, x)) = Append(lot1 \o lot2, x.message)
        BY <2>2, <2>4, <3>1, MessagesStep
      <4>2. MessagesFor(a, Append(first, x)) = Append(lot2, x.message)
        BY <2>3, <3>1, MessagesStep
      <4>3. Append(lot1 \o lot2, x.message) = lot1 \o Append(lot2, x.message)
        <5>1. PICK message \in M : message = x.message
          BY <1>1
        <5>2. lot1 \o Append(lot2, message) = Append(lot1 \o lot2, message)
          BY AppendLater
        <5> QED BY <5>1, <5>2
      <4> QED BY <4>1, <4>2, <4>3
    <3>2. CASE x.address # a
      <4>1. MessagesFor(a, Append(d \o first, x)) = lot1 \o lot2
        BY <2>2, <2>4, <3>2, MessagesStep
      <4>2. MessagesFor(a, Append(first, x)) = lot2
        BY <2>3, <3>2, MessagesStep
      <4> QED BY <4>1, <4>2
    <3> QED BY <3>1, <3>2
  <2>6. MessagesFor(a, d \o SubSeq(e, 1, n + 1)) =
          MessagesFor(a, d) \o MessagesFor(a, SubSeq(e, 1, n + 1))
    BY <2>1, <2>2, <2>3, <2>5
  <2>7. n + 1 \in 0..N
    BY <1>2
  <2> QED BY <2>6, <2>7
<1>5. N \in Good
  <2> HIDE DEF Good, N
  <2>1. \A n \in 0..N : n \in Good
    BY <1>3, <1>4, <1>2, CountingUp
  <2> QED BY <1>2, <2>1
<1> QED BY <1>5, SubSeqFull

-----------------------------------------------------------------------------
(* The inductive invariant, part by part.                                  *)

\* All that is ever sent, and the messages in it.
Sent == UNION {{Dispatches(r)[i] : i \in DOMAIN Dispatches(r)} : r \in Requests}

Messages == {d.message : d \in Sent}

\* The connections of an address that are registered, and their senders.
Registrations(a) == {s \in Sockets : address[s] = a /\ phase[s] \in {"open", "closing"}}

Sender(s) == [id |-> sender_id[s], tx |-> s]

TasksTyped ==
  /\ phase \in [Sockets -> Phases] /\ address \in [Sockets -> Addresses \cup {Nobody}]
  /\ sender_id \in [Sockets -> Nat] /\ since \in [Sockets -> Nat]
  /\ channel \in [Sockets -> Seq(Messages)] /\ sending \in [Sockets -> Seq(Messages)]
  /\ received \in [Sockets -> Seq(Messages)]
  /\ handler \in [Requests -> {"waiting", "dispatch", "answered", "dropped"}]
  /\ closed \subseteq Sockets /\ dispatched \in Seq(Sent)
  /\ \A s \in Sockets : Len(sending[s]) <= 1 /\ since[s] <= Len(dispatched)

\* Who is registered has proved an address.
Proved == \A s \in Sockets : phase[s] \in {"register", "open", "closing"} => address[s] = Signer[s]

\* The registry holds the senders of the registered connections, with ids that
\* were given to them alone.
RegistrySound ==
  /\ registry = [connections |-> registry.connections, next_id |-> registry.next_id]
  /\ registry.next_id \in Nat
  /\ Connected \subseteq Addresses /\ \A a \in Connected : Senders(a) # {}
  /\ \A a \in Addresses : Senders(a) = {Sender(s) : s \in Registrations(a)}
  /\ \A s \in Sockets : phase[s] \in {"open", "closing"} => sender_id[s] < registry.next_id
  /\ \A s, t \in Sockets :
       s # t /\ {phase[s], phase[t]} \subseteq {"open", "closing"} => sender_id[s] # sender_id[t]

\* Before a connection is registered nothing is on its way.
Unopened ==
  \A s \in Sockets : phase[s] \in {"new", "authenticate", "register"} =>
    channel[s] = <<>> /\ sending[s] = <<>> /\ received[s] = <<>>

IInv == TasksTyped /\ Proved /\ RegistrySound /\ Unopened /\ FeedExact

-----------------------------------------------------------------------------
(* Feeds: what is sent extends them, and a part of one stays a part of it. *)

\* Leaving out the first part of a sequence, before or after it is extended.
LEMMA SubSeqExtends ==
  ASSUME NEW S, NEW s \in Seq(S), NEW t \in Seq(S), NEW m \in 0..Len(s)
  PROVE  SubSeq(s \o t, m + 1, Len(s \o t)) = SubSeq(s, m + 1, Len(s)) \o t
<1>1. PICK both \in Seq(S) : both = s \o t
  BY ConcatProperties
<1>2. PICK n \in Nat : n = Len(s)
  BY LenProperties
<1>3. PICK k \in Nat : k = Len(t)
  BY LenProperties
<1>4. Len(both) = n + k /\ m \in 0..n
  BY <1>1, <1>2, <1>3, ConcatProperties
<1>5. SubSeq(both, m + 1, n) \o SubSeq(both, n + 1, n + k) = SubSeq(both, m + 1, n + k)
  <2>1. m + 1 \in 1..(Len(both) + 1) /\ n \in (m + 1 - 1)..Len(both) /\ n + k \in n..Len(both)
    BY <1>4
  <2> QED BY <2>1, ConcatAdjacentSubSeq
<1>6. SubSeq(both, m + 1, n) = SubSeq(s, m + 1, n)
  <2>1. CASE m = n
    <3>1. n < m + 1 /\ m + 1 \in Int /\ n \in Int
      BY <1>4, <2>1
    <3> QED BY <3>1, SubSeqEmpty
  <2>2. CASE m # n
    <3>1. m + 1 \in 1..Len(s) /\ n \in 1..Len(s)
      BY <1>2, <1>4, <2>2
    <3> QED BY <1>1, <3>1, SubSeqOfConcat1
  <2> QED BY <2>1, <2>2
<1>7. SubSeq(both, n + 1, n + k) = t
  <2>1. CASE k = 0
    <3>1. n + k < n + 1 /\ n + 1 \in Int /\ n + k \in Int
      BY <2>1
    <3>2. t = <<>>
      BY <1>3, <2>1, EmptySeq
    <3> QED BY <3>1, <3>2, SubSeqEmpty
  <2>2. CASE k # 0
    <3>1. /\ n + 1 \in (Len(s) + 1)..(Len(s) + Len(t))
          /\ n + k \in (Len(s) + 1)..(Len(s) + Len(t))
          /\ n + 1 - Len(s) = 1 /\ n + k - Len(s) = Len(t)
      BY <1>2, <1>3, <2>2
    <3>2. SubSeq(both, n + 1, n + k) = SubSeq(t, 1, Len(t))
      BY <1>1, <3>1, SubSeqOfConcat2
    <3> QED BY <3>2, SubSeqFull
  <2> QED BY <2>1, <2>2
<1> QED BY <1>1, <1>2, <1>3, <1>4, <1>5, <1>6, <1>7

\* A sequence is a first part of itself, and of what extends it.
LEMMA PrefixFacts ==
  ASSUME NEW S, NEW r \in Seq(S), NEW t \in Seq(S)
  PROVE  /\ IsPrefix(r, r \o t)
         /\ \A f \in Seq(S) : IsPrefix(r, f) => IsPrefix(r, f \o t)
<1>1. ASSUME NEW f \in Seq(S), IsPrefix(r, f) PROVE IsPrefix(r, f \o t)
  <2>1. Len(r) \in Nat /\ Len(f) \in Nat /\ Len(t) \in Nat /\ Len(f \o t) = Len(f) + Len(t)
    BY LenProperties, ConcatProperties
  <2>2. Len(r) <= Len(f) /\ SubSeq(r, 1, Len(r)) = SubSeq(f, 1, Len(r))
    BY <1>1 DEF IsPrefix
  <2>3. SubSeq(f \o t, 1, Len(r)) = SubSeq(f, 1, Len(r))
    <3>1. CASE Len(r) = 0
      <4>1. SubSeq(f \o t, 1, 0) = <<>> /\ SubSeq(f, 1, 0) = <<>>
        BY SubSeqEmpty
      <4> QED BY <3>1, <4>1
    <3>2. CASE Len(r) # 0
      <4>1. 1 \in 1..Len(f) /\ Len(r) \in 1..Len(f)
        BY <2>1, <2>2, <3>2
      <4> QED BY <4>1, SubSeqOfConcat1
    <3> QED BY <3>1, <3>2
  <2> QED BY <2>1, <2>2, <2>3 DEF IsPrefix
<1>2. IsPrefix(r, r)
  <2>1. Len(r) \in Nat
    BY LenProperties
  <2> QED BY <2>1 DEF IsPrefix
<1> QED BY <1>1, <1>2

\* What the handlers send.
LEMMA DispatchesTyped ==
  ASSUME NEW r \in Requests
  PROVE  Dispatches(r) \in Seq(Sent)
<1>1. PICK sent : sent = Dispatches(r)
  OBVIOUS
<1>2. \E n \in Nat : sent = [i \in 1..n |-> sent[i]]
  <2>1. CASE "taker" \in DOMAIN r
    <3>1. PICK n \in Nat : n = 2 * Len(r.makers)
      BY <2>1, WsFeedAssumption, LenProperties
    <3> QED BY <1>1, <2>1, <3>1 DEF Dispatches
  <2>2. CASE "taker" \notin DOMAIN r
    <3>1. PICK x : sent = <<x>>
      BY <1>1, <2>2 DEF Dispatches
    <3>2. <<x>> = [i \in 1..1 |-> <<x>>[i]]
      OBVIOUS
    <3> QED BY <3>1, <3>2
  <2> QED BY <2>1, <2>2
<1>3. PICK n \in Nat : sent = [i \in 1..n |-> sent[i]]
  BY <1>2
<1>4. \A i \in 1..n : sent[i] \in Sent
  <2>1. DOMAIN sent = 1..n
    BY <1>3
  <2>2. {sent[i] : i \in DOMAIN sent} \subseteq Sent
    BY <1>1 DEF Sent
  <2> QED BY <2>1, <2>2
<1>5. sent \in [1..n -> Sent]
  BY <1>3, <1>4, Zenon
<1> QED BY <1>1, <1>5, SeqDef

\* What is sent makes a feed longer by the messages for its address.
LEMMA FeedExtends ==
  ASSUME TasksTyped, NEW s \in Sockets, NEW more \in Seq(Sent),
         dispatched' = dispatched \o more, UNCHANGED <<address, since>>
  PROVE  /\ Feed(s) \in Seq(Messages) /\ MessagesFor(address[s], more) \in Seq(Messages)
         /\ Feed(s)' = Feed(s) \o MessagesFor(address[s], more)
<1>0. PICK d \in Seq(Sent) : d = dispatched
  BY DEF TasksTyped
<1>1. PICK m \in 0..Len(d) : d = dispatched /\ m = since[s]
  BY <1>0, LenProperties DEF TasksTyped
<1>2. PICK part \in Seq(Sent) : part = SubSeq(d, m + 1, Len(d))
  <2>1. \A i \in (m + 1)..Len(d) : d[i] \in Sent
    BY <1>1, LenProperties, ElementOfSeq
  <2>2. m + 1 \in Int /\ Len(d) \in Int
    BY <1>1, LenProperties
  <2> QED BY <2>1, <2>2, SubSeqProperties
<1>3. SubSeq(d \o more, m + 1, Len(d \o more)) = part \o more
  BY <1>2, SubSeqExtends
<1>4. \A x \in Sent : x.message \in Messages
  BY DEF Messages
<1>5. \A a : /\ MessagesFor(a, part) \in Seq(Messages) /\ MessagesFor(a, more) \in Seq(Messages)
             /\ MessagesFor(a, part \o more) = MessagesFor(a, part) \o MessagesFor(a, more)
  BY <1>4, MessagesTyped, MessagesConcat
<1>6. Feed(s) = MessagesFor(address[s], part)
  BY <1>1, <1>2 DEF Feed
<1>7. Feed(s)' = MessagesFor(address[s], part \o more)
  BY <1>1, <1>3 DEF Feed
<1> QED BY <1>5, <1>6, <1>7

\* A feed changes only with what is sent and with its own connection.
LEMMA FeedKept ==
  ASSUME NEW s \in Sockets, UNCHANGED dispatched, address'[s] = address[s], since'[s] = since[s]
  PROVE  Feed(s)' = Feed(s)
  BY DEF Feed

\* A connection has a sender while it is registered.
LEMMA SendersAre ==
  ASSUME IInv
  PROVE  /\ \A a \in Addresses : Receivers(a) = Registrations(a)
         /\ \A s \in Sockets : IsSender(s) <=> phase[s] \in {"open", "closing"}
<1>1. ASSUME NEW a \in Addresses PROVE Receivers(a) = Registrations(a)
  <2>1. Senders(a) = {Sender(s) : s \in Registrations(a)}
    BY DEF IInv, RegistrySound
  <2>2. \A s : Sender(s).tx = s
    BY DEF Sender
  <2> QED BY <2>1, <2>2 DEF Receivers
<1>2. Connected \subseteq Addresses /\ \A a \in Addresses : Receivers(a) # {} => a \in Connected
  BY DEF IInv, RegistrySound, Receivers, Senders
<1>3. \A s \in Sockets : phase[s] \in {"open", "closing"} => address[s] \in Addresses
  BY WsFeedAssumption DEF IInv, Proved
<1> QED BY <1>1, <1>2, <1>3 DEF IsSender, Registrations

\* A feed is made of messages, and is empty when nothing was sent since.
LEMMA FeedTyped ==
  ASSUME NEW a, NEW d \in Seq(Sent), NEW m \in 0..Len(d)
  PROVE  /\ MessagesFor(a, SubSeq(d, m + 1, Len(d))) \in Seq(Messages)
         /\ m = Len(d) => MessagesFor(a, SubSeq(d, m + 1, Len(d))) = <<>>
<1>1. Len(d) \in Nat
  BY LenProperties
<1>2. \A i \in (m + 1)..Len(d) : d[i] \in Sent
  BY <1>1, ElementOfSeq
<1>3. SubSeq(d, m + 1, Len(d)) \in Seq(Sent)
  BY <1>1, <1>2, SubSeqProperties
<1>4. \A x \in Sent : x.message \in Messages
  BY DEF Messages
<1>5. MessagesFor(a, SubSeq(d, m + 1, Len(d))) \in Seq(Messages)
  BY <1>3, <1>4, MessagesTyped
<1>6. ASSUME m = Len(d) PROVE MessagesFor(a, SubSeq(d, m + 1, Len(d))) = <<>>
  <2>1. SubSeq(d, m + 1, Len(d)) = <<>>
    BY <1>1, <1>6, SubSeqEmpty
  <2> QED BY <2>1, NoMessages
<1> QED BY <1>5, <1>6

\* What is written to a connection, in its socket, on its way, and sent to it.
LEMMA FeedOfSocket ==
  ASSUME TasksTyped, FeedExact, NEW s \in Sockets
  PROVE  \E r, w, c, f \in Seq(Messages) :
           /\ r = received[s] /\ w = sending[s] /\ c = channel[s] /\ f = Feed(s)
           /\ IsPrefix(r, f) /\ (phase[s] = "open" => r \o w \o c = f)
<1>1. /\ received[s] \in Seq(Messages) /\ sending[s] \in Seq(Messages)
      /\ channel[s] \in Seq(Messages)
  BY DEF TasksTyped
<1>2. Feed(s) \in Seq(Messages)
  <2>1. PICK d \in Seq(Sent) : d = dispatched
    BY DEF TasksTyped
  <2>2. PICK m \in 0..Len(d) : m = since[s]
    BY <2>1, LenProperties DEF TasksTyped
  <2> QED BY <2>1, <2>2, FeedTyped DEF Feed
<1>3. IsPrefix(received[s], Feed(s)) /\ (phase[s] = "open" => received[s] \o sending[s] \o channel[s] = Feed(s))
  BY DEF FeedExact
<1> QED BY <1>1, <1>2, <1>3

\* Messages that wait in several places are one line.
LEMMA MessagesAssociative ==
  \A s, t, u \in Seq(Messages) : (s \o t) \o u = s \o (t \o u)
BY ConcatAssociative

\* The empty sequence is a first part of any.
LEMMA EmptyPrefix == ASSUME NEW S, NEW f \in Seq(S) PROVE IsPrefix(<<>>, f)
<1>1. <<>> \in Seq(S) /\ <<>> \o f = f
  BY EmptySeq, ConcatEmptySeq
<1> QED BY <1>1, PrefixFacts

\* The registry is sound as long as it and those it is about stay as they are.
LEMMA RegistryKept ==
  ASSUME RegistrySound, UNCHANGED <<registry, sender_id>>,
         \A s \in Sockets : /\ phase'[s] \in {"open", "closing"} <=> phase[s] \in {"open", "closing"}
                            /\ phase[s] \in {"open", "closing"} => address'[s] = address[s]
  PROVE  RegistrySound'
<1>1. \A a : Registrations(a)' = Registrations(a)
  BY DEF Registrations
<1>2. \A s : Sender(s)' = Sender(s)
  BY DEF Sender
<1>3. Connected' = Connected /\ \A a : Senders(a)' = Senders(a)
  BY DEF Connected, Senders
<1>4. \A a \in Addresses : Senders(a)' = {Sender(s)' : s \in Registrations(a)'}
  BY <1>1, <1>2, <1>3 DEF RegistrySound
<1>5. \A s, t \in Sockets :
        s # t /\ {phase'[s], phase'[t]} \subseteq {"open", "closing"} => sender_id'[s] # sender_id'[t]
  BY DEF RegistrySound
<1> QED BY <1>3, <1>4, <1>5 DEF RegistrySound

\* What was exact for a connection of which nothing changes stays so.
LEMMA FeedStays ==
  ASSUME IInv, UNCHANGED dispatched, NEW s \in Sockets, address'[s] = address[s],
         since'[s] = since[s], received'[s] = received[s],
         phase'[s] = "open" =>
           phase[s] = "open" /\ sending'[s] = sending[s] /\ channel'[s] = channel[s]
  PROVE  /\ phase'[s] = "open" => received'[s] \o sending'[s] \o channel'[s] = Feed(s)'
         /\ IsPrefix(received'[s], Feed(s)')
<1>1. Feed(s)' = Feed(s)
  BY FeedKept
<1> QED BY <1>1 DEF IInv, FeedExact

-----------------------------------------------------------------------------
(* Every action.                                                           *)

\* Nothing is connected and nothing sent.
LEMMA InitIInv == Init => IInv
<1> SUFFICES ASSUME Init PROVE IInv
  OBVIOUS
<1>0. <<>> \in Seq(Messages) /\ <<>> \in Seq(Sent) /\ Len(<<>>) = 0
  BY EmptySeq
<1>1. TasksTyped
  BY <1>0 DEF Init, TasksTyped, Phases
<1>2. Proved /\ Unopened
  BY DEF Init, Proved, Unopened
<1>3. RegistrySound
  <2>1. Connected = {} /\ \A a : Senders(a) = {} /\ Registrations(a) = {}
    BY DEF Init, Connected, Senders, Registrations
  <2>2. registry.next_id = 0 /\ registry = [connections |-> registry.connections, next_id |-> registry.next_id]
    BY DEF Init
  <2> QED BY <2>1, <2>2 DEF RegistrySound, Init
<1>4. FeedExact
  <2>1. ASSUME NEW s \in Sockets
        PROVE  phase[s] # "open" /\ IsPrefix(received[s], Feed(s))
    <3>1. PICK d \in Seq(Sent) : d = dispatched /\ Len(d) = 0
      BY <1>0 DEF Init
    <3>2. 0 \in 0..Len(d) /\ since[s] = 0 /\ received[s] = <<>> /\ phase[s] = "new"
      BY <3>1 DEF Init
    <3>3. Feed(s) \in Seq(Messages)
      BY <3>1, <3>2, FeedTyped DEF Feed
    <3> QED BY <3>2, <3>3, EmptyPrefix
  <2> QED BY <2>1 DEF FeedExact
<1> QED BY <1>1, <1>2, <1>3, <1>4 DEF IInv

\* Steps that touch neither the registry, nor the tasks, nor what was sent.
LEMMA HandlerSteps ==
  ASSUME IInv, UNCHANGED <<registry, socket_vars, channel, dispatched, since>>,
         closed' \subseteq Sockets, handler' \in [Requests -> {"waiting", "dispatch", "answered", "dropped"}]
  PROVE  IInv'
<1>1. TasksTyped'
  BY DEF IInv, TasksTyped, socket_vars
<1>2. Proved' /\ Unopened'
  BY DEF IInv, Proved, Unopened, socket_vars
<1>3. RegistrySound'
  BY RegistryKept DEF IInv, socket_vars
<1>4. FeedExact'
  BY FeedStays DEF FeedExact, socket_vars
<1> QED BY <1>1, <1>2, <1>3, <1>4 DEF IInv

\* What is sent goes to the registered connections of its address, and makes their
\* feeds longer by as much.
LEMMA DispatchStep ==
  ASSUME IInv, NEW r \in Requests, Dispatch(r)
  PROVE  IInv'
<1>1. PICK more \in Seq(Sent) : more = Dispatches(r)
  BY DispatchesTyped
<1>2. /\ channel' = [s \in Sockets |->
            IF IsSender(s) THEN channel[s] \o MessagesFor(address[s], more) ELSE channel[s]]
      /\ dispatched' = dispatched \o more /\ handler' = [handler EXCEPT ![r] = "answered"]
      /\ UNCHANGED <<registry, phase, address, sender_id, sending, received, closed, since>>
  BY <1>1 DEF Dispatch, socket_vars
<1>3. ASSUME NEW s \in Sockets
      PROVE  \E x, y \in Seq(Messages) :
               /\ x = Feed(s) /\ y = MessagesFor(address[s], more) /\ Feed(s)' = x \o y
  BY <1>2, FeedExtends DEF IInv
<1>4. \A s \in Sockets : IsSender(s) <=> phase[s] \in {"open", "closing"}
  BY SendersAre
<1>5. TasksTyped'
  <2>1. channel' \in [Sockets -> Seq(Messages)]
    <3>1. ASSUME NEW s \in Sockets PROVE channel'[s] \in Seq(Messages)
      <4>1. PICK x, y \in Seq(Messages) : y = MessagesFor(address[s], more)
        BY <1>3
      <4>2. PICK c \in Seq(Messages) : c = channel[s]
        BY DEF IInv, TasksTyped
      <4>3. c \o y \in Seq(Messages)
        BY ConcatProperties
      <4> QED BY <1>2, <4>1, <4>2, <4>3
    <3>2. DOMAIN channel' = Sockets /\ channel' = [s \in Sockets |-> channel'[s]]
      BY <1>2
    <3> QED BY <3>1, <3>2
  <2>2. PICK d \in Seq(Sent) : d = dispatched
    BY DEF IInv, TasksTyped
  <2>3. dispatched' \in Seq(Sent) /\ Len(dispatched') = Len(dispatched) + Len(more)
        /\ Len(more) \in Nat /\ Len(dispatched) \in Nat
    BY <1>2, <2>2, ConcatProperties, LenProperties
  <2>4. \A s \in Sockets : Len(sending'[s]) <= 1 /\ since'[s] <= Len(dispatched')
    BY <1>2, <2>3 DEF IInv, TasksTyped
  <2> QED BY <1>2, <2>1, <2>3, <2>4 DEF IInv, TasksTyped
<1>6. Proved'
  BY <1>2 DEF IInv, Proved
<1>7. Unopened'
  BY <1>2, <1>4 DEF IInv, Unopened
<1>8. RegistrySound'
  BY <1>2, RegistryKept DEF IInv
<1>9. FeedExact'
  <2>1. ASSUME NEW s \in Sockets
        PROVE  /\ phase'[s] = "open" => received'[s] \o sending'[s] \o channel'[s] = Feed(s)'
               /\ IsPrefix(received'[s], Feed(s)')
    <3>1. PICK x, y \in Seq(Messages) :
            x = Feed(s) /\ y = MessagesFor(address[s], more) /\ Feed(s)' = x \o y
      BY <1>3
    <3>2. PICK p, w, c \in Seq(Messages) :
            /\ p = received[s] /\ w = sending[s] /\ c = channel[s]
            /\ IsPrefix(p, x) /\ (phase[s] = "open" => p \o w \o c = x)
      BY <3>1, FeedOfSocket DEF IInv
    <3>3. IsPrefix(received'[s], Feed(s)')
      BY <1>2, <3>1, <3>2, PrefixFacts
    <3>4. ASSUME phase'[s] = "open" PROVE received'[s] \o sending'[s] \o channel'[s] = Feed(s)'
      <4>1. phase[s] = "open" /\ IsSender(s)
        BY <1>2, <1>4, <3>4
      <4>2. channel'[s] = c \o y /\ received'[s] = p /\ sending'[s] = w
        BY <1>2, <3>1, <3>2, <4>1
      <4>3. PICK first \in Seq(Messages) : first = p \o w
        BY ConcatProperties
      <4>4. (first \o c) \o y = first \o (c \o y)
        BY MessagesAssociative
      <4> QED BY <3>1, <3>2, <4>1, <4>2, <4>3, <4>4
    <3> QED BY <3>3, <3>4
  <2> QED BY <2>1 DEF FeedExact
<1> QED BY <1>5, <1>6, <1>7, <1>8, <1>9 DEF IInv

\* Before a connection is registered: the challenge, its answer, the end of it.
LEMMA OpeningSteps ==
  ASSUME IInv, NEW s \in Sockets, Connect(s) \/ Authenticate(s) \/ RejectAuth(s)
  PROVE  IInv'
<1>1. /\ phase[s] \in {"new", "authenticate"}
      /\ phase' = [phase EXCEPT ![s] = phase'[s]] /\ phase'[s] \in {"authenticate", "register", "gone"}
      /\ address' = [address EXCEPT ![s] = address'[s]] /\ address'[s] \in Addresses \cup {Nobody}
      /\ phase'[s] = "register" => address'[s] = Signer[s]
      /\ UNCHANGED <<registry, sender_id, sending, received, channel, closed, handler, dispatched, since>>
  <2>1. phase \in [Sockets -> Phases] /\ address \in [Sockets -> Addresses \cup {Nobody}]
    BY DEF IInv, TasksTyped
  <2>2. Signer[s] \in Addresses
    BY WsFeedAssumption
  <2>3. CASE Connect(s)
    BY <2>1, <2>3 DEF Connect, Goto
  <2>4. CASE Authenticate(s)
    BY <2>1, <2>2, <2>4 DEF Authenticate, Goto
  <2>5. CASE RejectAuth(s)
    BY <2>1, <2>5 DEF RejectAuth, Goto
  <2> QED BY <2>3, <2>4, <2>5
<1>2. phase \in [Sockets -> Phases] /\ address \in [Sockets -> Addresses \cup {Nobody}]
  BY DEF IInv, TasksTyped
<1>3. \A t \in Sockets : t # s => phase'[t] = phase[t] /\ address'[t] = address[t]
  BY <1>1, <1>2
<1>4. TasksTyped'
  <2>1. phase' \in [Sockets -> Phases] /\ address' \in [Sockets -> Addresses \cup {Nobody}]
    BY <1>1, <1>2 DEF Phases
  <2> QED BY <1>1, <2>1 DEF IInv, TasksTyped
<1>5. Proved'
  BY <1>1, <1>3 DEF IInv, Proved
<1>6. Unopened'
  BY <1>1, <1>3 DEF IInv, Unopened
<1>7. RegistrySound'
  <2>1. \A t \in Sockets : /\ phase'[t] \in {"open", "closing"} <=> phase[t] \in {"open", "closing"}
                           /\ phase[t] \in {"open", "closing"} => address'[t] = address[t]
    BY <1>1, <1>3
  <2> QED BY <1>1, <2>1, RegistryKept DEF IInv
<1>8. FeedExact'
  <2>1. ASSUME NEW t \in Sockets
        PROVE  /\ phase'[t] = "open" => received'[t] \o sending'[t] \o channel'[t] = Feed(t)'
               /\ IsPrefix(received'[t], Feed(t)')
    <3>1. CASE t # s
      BY <1>1, <1>3, <3>1, FeedStays
    <3>2. CASE t = s
      <4>1. phase'[t] # "open" /\ received'[t] = <<>>
        BY <1>1, <3>2 DEF IInv, Unopened
      <4>2. PICK d \in Seq(Sent) : d = dispatched'
        BY <1>4 DEF TasksTyped
      <4>3. since'[t] \in 0..Len(d)
        BY <1>4, <4>2, LenProperties DEF TasksTyped
      <4>4. Feed(t)' \in Seq(Messages)
        BY <4>2, <4>3, FeedTyped DEF Feed
      <4> QED BY <4>1, <4>4, EmptyPrefix
    <3> QED BY <3>1, <3>2
  <2> QED BY <2>1 DEF FeedExact
<1> QED BY <1>4, <1>5, <1>6, <1>7, <1>8 DEF IInv

\* What PutSenders does to the registry.
LEMMA PutSendersFacts ==
  ASSUME NEW a, NEW senders, registry'.connections = PutSenders(a, senders)
  PROVE  /\ Connected' = IF senders = {} THEN Connected \ {a} ELSE Connected \cup {a}
         /\ Senders(a)' = senders
         /\ \A b : b # a => Senders(b)' = Senders(b)
<1>1. CASE senders = {}
  <2>1. registry'.connections = [b \in Connected \ {a} |-> registry.connections[b]]
    BY <1>1 DEF PutSenders
  <2>2. Connected' = Connected \ {a}
    BY <2>1 DEF Connected
  <2> QED BY <1>1, <2>1, <2>2 DEF Senders
<1>2. CASE senders # {}
  <2>1. registry'.connections =
          [b \in Connected \cup {a} |-> IF b = a THEN senders ELSE registry.connections[b]]
    BY <1>2 DEF PutSenders
  <2>2. Connected' = Connected \cup {a}
    BY <2>1 DEF Connected
  <2> QED BY <1>2, <2>1, <2>2 DEF Senders
<1> QED BY <1>1, <1>2

\* A connection that is registered joins those of its address, with an id no other
\* has, and its feed starts empty.
LEMMA RegisterStep ==
  ASSUME IInv, NEW s \in Sockets, Register(s)
  PROVE  IInv'
<1>1. /\ phase[s] = "register" /\ phase' = [phase EXCEPT ![s] = "open"]
      /\ registry' = Registered(s)
      /\ sender_id' = [sender_id EXCEPT ![s] = registry.next_id]
      /\ since' = [since EXCEPT ![s] = Len(dispatched)]
      /\ UNCHANGED <<address, sending, received, channel, closed, handler, dispatched>>
  BY DEF Register, Goto
<1>2. /\ phase \in [Sockets -> Phases] /\ sender_id \in [Sockets -> Nat] /\ since \in [Sockets -> Nat]
      /\ registry.next_id \in Nat
  BY DEF IInv, TasksTyped, RegistrySound
<1>3. /\ phase'[s] = "open" /\ sender_id'[s] = registry.next_id /\ since'[s] = Len(dispatched)
      /\ \A t \in Sockets : t # s => /\ phase'[t] = phase[t] /\ sender_id'[t] = sender_id[t]
                                     /\ since'[t] = since[t]
  BY <1>1, <1>2
<1>4. PICK d \in Seq(Sent) : d = dispatched /\ Len(d) \in Nat
  BY LenProperties DEF IInv, TasksTyped
<1>5. TasksTyped'
  <2>1. phase' \in [Sockets -> Phases] /\ sender_id' \in [Sockets -> Nat] /\ since' \in [Sockets -> Nat]
    BY <1>1, <1>2, <1>4 DEF Phases
  <2>2. \A t \in Sockets : Len(sending'[t]) <= 1 /\ since'[t] <= Len(dispatched')
    BY <1>1, <1>3, <1>4 DEF IInv, TasksTyped
  <2> QED BY <1>1, <2>1, <2>2 DEF IInv, TasksTyped
<1>6. Proved'
  BY <1>1, <1>3 DEF IInv, Proved
<1>7. Unopened'
  BY <1>1, <1>3 DEF IInv, Unopened
<1>8. RegistrySound'
  <2>1. PICK a \in Addresses : a = address[s]
    BY <1>1, WsFeedAssumption DEF IInv, Proved
  <2>2. PICK new : new = [id |-> registry.next_id, tx |-> s]
    OBVIOUS
  <2>3. /\ registry' = [connections |-> registry'.connections, next_id |-> registry'.next_id]
        /\ registry'.next_id = registry.next_id + 1
        /\ registry'.connections = PutSenders(a, Senders(a) \cup {new})
    BY <1>1, <2>1, <2>2 DEF Registered
  <2>4. /\ Connected' = Connected \cup {a} /\ Senders(a)' = Senders(a) \cup {new}
        /\ \A b : b # a => Senders(b)' = Senders(b)
    <3>1. Senders(a) \cup {new} # {}
      OBVIOUS
    <3> QED BY <2>3, <3>1, PutSendersFacts
  <2>5. \A t \in Sockets : t # s => Sender(t)' = Sender(t)
    BY <1>3 DEF Sender
  <2>6. Sender(s)' = new
    BY <1>3, <2>2 DEF Sender
  <2>7. /\ Registrations(a)' = Registrations(a) \cup {s} /\ s \notin Registrations(a)
        /\ \A b \in Addresses : b # a => Registrations(b)' = Registrations(b) /\ s \notin Registrations(b)
    BY <1>1, <1>3, <2>1 DEF Registrations
  <2>8. \A b : Registrations(b) \subseteq Sockets
    BY DEF Registrations
  <2>9. ASSUME NEW b \in Addresses PROVE Senders(b)' = {Sender(t)' : t \in Registrations(b)'}
    <3>1. Senders(b) = {Sender(t) : t \in Registrations(b)}
      BY DEF IInv, RegistrySound
    <3>2. \A t \in Registrations(b) : t # s /\ Sender(t)' = Sender(t)
      BY <2>5, <2>7, <2>8
    <3>3. CASE b = a
      BY <2>4, <2>6, <2>7, <3>1, <3>2, <3>3
    <3>4. CASE b # a
      BY <2>4, <2>7, <3>1, <3>2, <3>4
    <3> QED BY <3>3, <3>4
  <2>10. Connected' \subseteq Addresses /\ \A b \in Connected' : Senders(b)' # {}
    BY <2>4 DEF IInv, RegistrySound
  <2>11. \A t \in Sockets : phase[t] \in {"open", "closing"} => sender_id[t] < registry.next_id
    BY DEF IInv, RegistrySound
  <2>12. \A t \in Sockets : phase'[t] \in {"open", "closing"} => sender_id'[t] < registry'.next_id
    BY <1>2, <1>3, <2>3, <2>11
  <2>13. ASSUME NEW t \in Sockets, NEW u \in Sockets, t # u,
                {phase'[t], phase'[u]} \subseteq {"open", "closing"}
         PROVE  sender_id'[t] # sender_id'[u]
    <3>1. CASE t = s
      BY <1>2, <1>3, <2>11, <2>13, <3>1
    <3>2. CASE u = s
      BY <1>2, <1>3, <2>11, <2>13, <3>2
    <3>3. CASE t # s /\ u # s
      BY <1>3, <2>13, <3>3 DEF IInv, RegistrySound
    <3> QED BY <3>1, <3>2, <3>3
  <2>14. registry'.next_id \in Nat
    BY <1>2, <2>3
  <2> QED BY <2>3, <2>9, <2>10, <2>12, <2>13, <2>14 DEF RegistrySound
<1>9. FeedExact'
  <2>1. ASSUME NEW t \in Sockets
        PROVE  /\ phase'[t] = "open" => received'[t] \o sending'[t] \o channel'[t] = Feed(t)'
               /\ IsPrefix(received'[t], Feed(t)')
    <3>1. CASE t # s
      BY <1>1, <1>3, <3>1, FeedStays
    <3>2. CASE t = s
      <4>1. received'[s] = <<>> /\ sending'[s] = <<>> /\ channel'[s] = <<>>
        BY <1>1 DEF IInv, Unopened
      <4>2. Feed(s)' = <<>>
        <5>1. PICK m \in 0..Len(d) : m = Len(d)
          BY <1>4
        <5>2. MessagesFor(address'[s], SubSeq(d, m + 1, Len(d))) = <<>>
          BY <5>1, FeedTyped
        <5>3. Feed(s)' = MessagesFor(address'[s], SubSeq(d, m + 1, Len(d)))
          BY <1>1, <1>3, <1>4, <5>1 DEF Feed
        <5> QED BY <5>2, <5>3
      <4>3. <<>> \in Seq(Messages) /\ <<>> \o <<>> = <<>>
        BY EmptySeq, ConcatEmptySeq
      <4> QED BY <3>2, <4>1, <4>2, <4>3, EmptyPrefix
    <3> QED BY <3>1, <3>2
  <2> QED BY <2>1 DEF FeedExact
<1> QED BY <1>5, <1>6, <1>7, <1>8, <1>9 DEF IInv

\* A message taken from a channel and put into the socket stays next in line.
LEMMA TakeMessageStep ==
  ASSUME IInv, NEW s \in Sockets, TakeMessage(s)
  PROVE  IInv'
<1>1. /\ phase[s] = "open" /\ sending[s] = <<>> /\ channel[s] # <<>>
      /\ sending' = [sending EXCEPT ![s] = <<Head(channel[s])>>]
      /\ channel' = [channel EXCEPT ![s] = Tail(channel[s])]
      /\ UNCHANGED <<registry, phase, address, sender_id, received, closed, handler, dispatched, since>>
  BY DEF TakeMessage
<1>2. sending \in [Sockets -> Seq(Messages)] /\ channel \in [Sockets -> Seq(Messages)]
  BY DEF IInv, TasksTyped
<1>3. PICK p, w, c, f \in Seq(Messages) :
        /\ p = received[s] /\ w = sending[s] /\ c = channel[s] /\ f = Feed(s)
        /\ IsPrefix(p, f) /\ p \o w \o c = f
  BY <1>1, FeedOfSocket DEF IInv
<1>4. PICK first, rest \in Seq(Messages) :
        first = <<Head(c)>> /\ rest = Tail(c) /\ Len(first) = 1 /\ first \o rest = c
  <2>1. Head(c) \in Messages /\ Tail(c) \in Seq(Messages)
    BY <1>1, <1>3, HeadTailProperties
  <2>2. <<Head(c)>> \in Seq(Messages) /\ Len(<<Head(c)>>) = 1
    BY <2>1
  <2>3. <<Head(c)>> \o Tail(c) = c
    <3>1. Len(c) \in Nat /\ Len(c) # 0
      BY <1>1, <1>3, LenProperties, EmptySeq
    <3>2. 1 \in 1..Len(c) /\ Len(c) \in 1..Len(c)
      BY <3>1
    <3>3. SubSeq(c, 1, Len(c)) = <<c[1]>> \o SubSeq(c, 1 + 1, Len(c))
      BY <3>2, SubSeqRecursiveFirst
    <3>4. Tail(c) = SubSeq(c, 2, Len(c)) /\ SubSeq(c, 1, Len(c)) = c /\ 1 + 1 = 2
      BY <1>1, <1>3, TailIsSubSeq, SubSeqFull
    <3>5. Head(c) = c[1]
      OBVIOUS
    <3> QED BY <3>3, <3>4, <3>5
  <2> QED BY <2>1, <2>2, <2>3
<1>5. /\ sending'[s] = first /\ channel'[s] = rest
      /\ \A t \in Sockets : t # s => sending'[t] = sending[t] /\ channel'[t] = channel[t]
  BY <1>1, <1>2, <1>3, <1>4
<1>6. TasksTyped'
  <2>1. sending' \in [Sockets -> Seq(Messages)] /\ channel' \in [Sockets -> Seq(Messages)]
    BY <1>1, <1>2, <1>3, <1>4
  <2>2. \A t \in Sockets : Len(sending'[t]) <= 1 /\ since'[t] <= Len(dispatched')
    BY <1>1, <1>4, <1>5 DEF IInv, TasksTyped
  <2> QED BY <1>1, <2>1, <2>2 DEF IInv, TasksTyped
<1>7. Proved'
  BY <1>1 DEF IInv, Proved
<1>8. Unopened'
  BY <1>1, <1>5 DEF IInv, Unopened
<1>9. RegistrySound'
  BY <1>1, RegistryKept DEF IInv
<1>10. FeedExact'
  <2>1. ASSUME NEW t \in Sockets
        PROVE  /\ phase'[t] = "open" => received'[t] \o sending'[t] \o channel'[t] = Feed(t)'
               /\ IsPrefix(received'[t], Feed(t)')
    <3>1. CASE t # s
      BY <1>1, <1>5, <3>1, FeedStays
    <3>2. CASE t = s
      <4>1. Feed(s)' = f
        BY <1>1, <1>3, FeedKept
      <4>2. (p \o first) \o rest = p \o (first \o rest)
        BY MessagesAssociative
      <4>3. p \o w = p
        BY <1>1, <1>3, ConcatEmptySeq
      <4>4. (p \o first) \o rest = f
        BY <1>3, <1>4, <4>2, <4>3
      <4> QED BY <1>1, <1>3, <1>5, <3>2, <4>1, <4>4
    <3> QED BY <3>1, <3>2
  <2> QED BY <2>1 DEF FeedExact
<1> QED BY <1>6, <1>7, <1>8, <1>9, <1>10 DEF IInv

\* What was in the socket is written.
LEMMA SendMessageStep ==
  ASSUME IInv, NEW s \in Sockets, SendMessage(s)
  PROVE  IInv'
<1>1. /\ phase[s] = "open"
      /\ received' = [received EXCEPT ![s] = received[s] \o sending[s]]
      /\ sending' = [sending EXCEPT ![s] = <<>>]
      /\ UNCHANGED <<registry, phase, address, sender_id, channel, closed, handler, dispatched, since>>
  BY DEF SendMessage
<1>2. sending \in [Sockets -> Seq(Messages)] /\ received \in [Sockets -> Seq(Messages)]
  BY DEF IInv, TasksTyped
<1>3. PICK p, w, c, f \in Seq(Messages) :
        /\ p = received[s] /\ w = sending[s] /\ c = channel[s] /\ f = Feed(s)
        /\ IsPrefix(p, f) /\ p \o w \o c = f
  BY <1>1, FeedOfSocket DEF IInv
<1>4. PICK written, none \in Seq(Messages) :
        written = p \o w /\ none = <<>> /\ Len(none) = 0 /\ written \o none = written
  <2>1. PICK written \in Seq(Messages) : written = p \o w
    BY ConcatProperties
  <2>2. written \o <<>> = written /\ <<>> \in Seq(Messages) /\ Len(<<>>) = 0
    BY ConcatEmptySeq, EmptySeq
  <2> QED BY <2>1, <2>2
<1>5. /\ received'[s] = written /\ sending'[s] = none
      /\ \A t \in Sockets : t # s => sending'[t] = sending[t] /\ received'[t] = received[t]
  BY <1>1, <1>2, <1>3, <1>4
<1>6. TasksTyped'
  <2>1. sending' \in [Sockets -> Seq(Messages)] /\ received' \in [Sockets -> Seq(Messages)]
    BY <1>1, <1>2, <1>3, <1>4
  <2>2. \A t \in Sockets : Len(sending'[t]) <= 1 /\ since'[t] <= Len(dispatched')
    BY <1>1, <1>4, <1>5 DEF IInv, TasksTyped
  <2> QED BY <1>1, <2>1, <2>2 DEF IInv, TasksTyped
<1>7. Proved'
  BY <1>1 DEF IInv, Proved
<1>8. Unopened'
  BY <1>1, <1>5 DEF IInv, Unopened
<1>9. RegistrySound'
  BY <1>1, RegistryKept DEF IInv
<1>10. FeedExact'
  <2>1. ASSUME NEW t \in Sockets
        PROVE  /\ phase'[t] = "open" => received'[t] \o sending'[t] \o channel'[t] = Feed(t)'
               /\ IsPrefix(received'[t], Feed(t)')
    <3>1. CASE t # s
      BY <1>1, <1>5, <3>1, FeedStays
    <3>2. CASE t = s
      <4>1. Feed(s)' = f
        BY <1>1, <1>3, FeedKept
      <4>2. IsPrefix(written, written \o c)
        BY PrefixFacts
      <4> QED BY <1>1, <1>3, <1>4, <1>5, <3>2, <4>1, <4>2
    <3> QED BY <3>1, <3>2
  <2> QED BY <2>1 DEF FeedExact
<1> QED BY <1>6, <1>7, <1>8, <1>9, <1>10 DEF IInv

\* A connection that ends keeps its sender until it is removed.
LEMMA LoopEndsStep ==
  ASSUME IInv, NEW s \in Sockets, LoopEnds(s)
  PROVE  IInv'
<1>1. /\ phase[s] = "open" /\ phase' = [phase EXCEPT ![s] = "closing"]
      /\ UNCHANGED <<registry, address, sender_id, sending, received, channel, closed, handler,
                     dispatched, since>>
  BY DEF LoopEnds, Goto
<1>2. phase \in [Sockets -> Phases]
  BY DEF IInv, TasksTyped
<1>3. phase'[s] = "closing" /\ \A t \in Sockets : t # s => phase'[t] = phase[t]
  BY <1>1, <1>2
<1>4. TasksTyped'
  <2>1. phase' \in [Sockets -> Phases]
    BY <1>1, <1>2 DEF Phases
  <2> QED BY <1>1, <2>1 DEF IInv, TasksTyped
<1>5. Proved'
  BY <1>1, <1>3 DEF IInv, Proved
<1>6. Unopened'
  BY <1>1, <1>3 DEF IInv, Unopened
<1>7. RegistrySound'
  <2>1. \A t \in Sockets : /\ phase'[t] \in {"open", "closing"} <=> phase[t] \in {"open", "closing"}
                           /\ phase[t] \in {"open", "closing"} => address'[t] = address[t]
    BY <1>1, <1>3
  <2> QED BY <1>1, <2>1, RegistryKept DEF IInv
<1>8. FeedExact'
  <2>1. \A t \in Sockets : phase'[t] = "open" => phase[t] = "open"
    BY <1>3
  <2> QED BY <1>1, <2>1, FeedStays DEF FeedExact
<1> QED BY <1>4, <1>5, <1>6, <1>7, <1>8 DEF IInv

\* A connection that is removed leaves the others of its address: no other has its id.
LEMMA UnregisterStep ==
  ASSUME IInv, NEW s \in Sockets, Unregister(s)
  PROVE  IInv'
<1>1. /\ phase[s] = "closing" /\ phase' = [phase EXCEPT ![s] = "gone"]
      /\ registry' = Removed(s)
      /\ channel' = [channel EXCEPT ![s] = <<>>] /\ sending' = [sending EXCEPT ![s] = <<>>]
      /\ UNCHANGED <<address, sender_id, received, closed, handler, dispatched, since>>
  BY DEF Unregister, Goto
<1>2. /\ phase \in [Sockets -> Phases] /\ sending \in [Sockets -> Seq(Messages)]
      /\ channel \in [Sockets -> Seq(Messages)]
  BY DEF IInv, TasksTyped
<1>3. /\ phase'[s] = "gone" /\ sending'[s] = <<>>
      /\ \A t \in Sockets : t # s => /\ phase'[t] = phase[t] /\ sending'[t] = sending[t]
                                     /\ channel'[t] = channel[t]
  BY <1>1, <1>2
<1>4. TasksTyped'
  <2>1. <<>> \in Seq(Messages) /\ Len(<<>>) = 0
    BY EmptySeq
  <2>2. /\ phase' \in [Sockets -> Phases] /\ sending' \in [Sockets -> Seq(Messages)]
        /\ channel' \in [Sockets -> Seq(Messages)]
    BY <1>1, <1>2, <2>1 DEF Phases
  <2>3. \A t \in Sockets : Len(sending'[t]) <= 1 /\ since'[t] <= Len(dispatched')
    BY <1>1, <1>3, <2>1 DEF IInv, TasksTyped
  <2> QED BY <1>1, <2>2, <2>3 DEF IInv, TasksTyped
<1>5. Proved'
  BY <1>1, <1>3 DEF IInv, Proved
<1>6. Unopened'
  BY <1>1, <1>3 DEF IInv, Unopened
<1>7. RegistrySound'
  <2>1. PICK a \in Addresses : a = address[s]
    BY <1>1, WsFeedAssumption DEF IInv, Proved
  <2>2. PICK left : left = {x \in Senders(a) : x.id # sender_id[s]}
    OBVIOUS
  <2>3. /\ registry' = [connections |-> registry'.connections, next_id |-> registry'.next_id]
        /\ registry'.next_id = registry.next_id
        /\ registry'.connections = PutSenders(a, left)
    <3>1. registry = [connections |-> registry.connections, next_id |-> registry.next_id]
      BY DEF IInv, RegistrySound
    <3>2. registry' = [connections |-> PutSenders(a, left), next_id |-> registry.next_id]
      BY <1>1, <2>1, <2>2, <3>1 DEF Removed
    <3> QED BY <3>2
  <2>4. /\ Connected' = IF left = {} THEN Connected \ {a} ELSE Connected \cup {a}
        /\ Senders(a)' = left /\ \A b : b # a => Senders(b)' = Senders(b)
    BY <2>3, PutSendersFacts
  <2>5. \A t : Sender(t)' = Sender(t)
    BY <1>1 DEF Sender
  <2>6. /\ Registrations(a)' = Registrations(a) \ {s} /\ s \in Registrations(a)
        /\ \A b \in Addresses : b # a => Registrations(b)' = Registrations(b)
    BY <1>1, <1>3, <2>1 DEF Registrations
  <2>7. \A t \in Registrations(a) : t # s => sender_id[t] # sender_id[s]
    BY <1>1 DEF IInv, RegistrySound, Registrations
  <2>8. left = {Sender(t) : t \in Registrations(a) \ {s}}
    <3>1. Senders(a) = {Sender(t) : t \in Registrations(a)}
      BY DEF IInv, RegistrySound
    <3>2. \A t : Sender(t).id = sender_id[t]
      BY DEF Sender
    <3> QED BY <2>2, <2>6, <2>7, <3>1, <3>2
  <2>9. ASSUME NEW b \in Addresses PROVE Senders(b)' = {Sender(t)' : t \in Registrations(b)'}
    <3>1. CASE b = a
      BY <2>4, <2>5, <2>6, <2>8, <3>1
    <3>2. CASE b # a
      BY <2>4, <2>5, <2>6, <3>2 DEF IInv, RegistrySound
    <3> QED BY <3>1, <3>2
  <2>10. Connected' \subseteq Addresses /\ \A b \in Connected' : Senders(b)' # {}
    BY <2>4 DEF IInv, RegistrySound
  <2>11. \A t \in Sockets : phase'[t] \in {"open", "closing"} =>
           phase[t] \in {"open", "closing"} /\ sender_id'[t] < registry'.next_id
    BY <1>1, <1>3, <2>3 DEF IInv, RegistrySound
  <2>12. \A t, u \in Sockets :
           t # u /\ {phase'[t], phase'[u]} \subseteq {"open", "closing"} => sender_id'[t] # sender_id'[u]
    BY <1>1, <2>11 DEF IInv, RegistrySound
  <2>13. registry'.next_id \in Nat
    BY <2>3 DEF IInv, RegistrySound
  <2> QED BY <2>3, <2>9, <2>10, <2>11, <2>12, <2>13 DEF RegistrySound
<1>8. FeedExact'
  <2>1. ASSUME NEW t \in Sockets
        PROVE  /\ phase'[t] = "open" => received'[t] \o sending'[t] \o channel'[t] = Feed(t)'
               /\ IsPrefix(received'[t], Feed(t)')
    <3>1. phase'[t] = "open" =>
            phase[t] = "open" /\ sending'[t] = sending[t] /\ channel'[t] = channel[t]
      BY <1>3
    <3> QED BY <1>1, <3>1, FeedStays
  <2> QED BY <2>1 DEF FeedExact
<1> QED BY <1>4, <1>5, <1>6, <1>7, <1>8 DEF IInv

-----------------------------------------------------------------------------
(* The theorems.                                                           *)

\* Every step of the feed keeps the invariant.
LEMMA StepIInv == IInv /\ [Next]_vars => IInv'
<1> SUFFICES ASSUME IInv, [Next]_vars PROVE IInv'
  OBVIOUS
<1>1. ASSUME NEW r \in Requests, HandleRequest(r) \/ DropHandler(r) PROVE IInv'
  BY <1>1, HandlerSteps DEF HandleRequest, DropHandler, IInv, TasksTyped
<1>2. ASSUME NEW r \in Requests, Dispatch(r) PROVE IInv'
  BY <1>2, DispatchStep
<1>3. ASSUME NEW s \in Sockets, Connect(s) \/ Authenticate(s) \/ RejectAuth(s) PROVE IInv'
  BY <1>3, OpeningSteps
<1>4. ASSUME NEW s \in Sockets, Task(s) PROVE IInv'
  BY <1>4, OpeningSteps, RegisterStep, TakeMessageStep, SendMessageStep, LoopEndsStep,
     UnregisterStep DEF Task
<1>5. ASSUME NEW s \in Sockets, ClientCloses(s) PROVE IInv'
  BY <1>5, HandlerSteps DEF ClientCloses, IInv, TasksTyped
<1>6. CASE UNCHANGED vars
  BY <1>6, HandlerSteps DEF vars, IInv, TasksTyped
<1> QED BY <1>1, <1>2, <1>3, <1>4, <1>5, <1>6 DEF Next

\* The inductive invariant holds in every reachable state (ws.rs, ws_registry.rs and
\* the handlers of routes.rs that send).
THEOREM FeedInvariant == Spec => []IInv
  BY InitIInv, StepIInv, PTL DEF Spec

\* Connections and handlers wait for the lock of the registry.
QueueTyped == queue \in Seq(Sockets \cup Requests)

\* Every step keeps them so: one more asks, the first lets go, one is dropped.
LEMMA QueueStep == QueueTyped /\ [Next]_vars => QueueTyped'
<1> SUFFICES ASSUME QueueTyped, [Next]_vars PROVE QueueTyped'
  OBVIOUS
<1> DEFINE Tasks == Sockets \cup Requests
<1>1. ASSUME NEW w \in Tasks, Ask(w) PROVE QueueTyped'
  BY <1>1, AppendProperties DEF Ask, QueueTyped
<1>2. ASSUME NEW w \in Tasks, UnderLock(w) PROVE QueueTyped'
  BY <1>2, HeadTailProperties DEF UnderLock, QueueTyped
<1>3. ASSUME NEW w \in Tasks, Abandon(w) PROVE QueueTyped'
  <2>1. PICK q \in Seq(Tasks) : q = queue /\ Len(q) \in Nat /\ DOMAIN q = 1..Len(q)
    BY LenProperties DEF QueueTyped
  <2>2. PICK i \in 1..Len(q) : queue' = SubSeq(q, 1, i - 1) \o SubSeq(q, i + 1, Len(q))
    BY <1>3, <2>1 DEF Abandon, RemoveAt
  <2>3. \A m, n \in Int : (\A k \in m..n : k \in 1..Len(q)) => SubSeq(q, m, n) \in Seq(Tasks)
    BY <2>1, SubSeqProperties
  <2>4. SubSeq(q, 1, i - 1) \in Seq(Tasks)
    <3>1. 1 \in Int /\ i - 1 \in Int /\ \A k \in 1..(i - 1) : k \in 1..Len(q)
      BY <2>1
    <3> QED BY <2>3, <3>1
  <2>5. SubSeq(q, i + 1, Len(q)) \in Seq(Tasks)
    <3>1. i + 1 \in Int /\ Len(q) \in Int /\ \A k \in (i + 1)..Len(q) : k \in 1..Len(q)
      BY <2>1
    <3> QED BY <2>3, <3>1
  <2> QED BY <2>2, <2>4, <2>5, ConcatProperties DEF QueueTyped
<1>4. CASE UNCHANGED queue
  BY <1>4 DEF QueueTyped
<1>5. ASSUME NEW r \in Requests, HandleRequest(r) \/ Dispatch(r) \/ DropHandler(r)
      PROVE  QueueTyped'
  BY <1>1, <1>2, <1>3, <1>5 DEF HandleRequest, Dispatch, DropHandler
<1>6. ASSUME NEW s \in Sockets,
             Authenticate(s) \/ Register(s) \/ LoopEnds(s) \/ Unregister(s)
      PROVE  QueueTyped'
  BY <1>1, <1>2, <1>6 DEF Authenticate, Register, LoopEnds, Unregister
<1>7. ASSUME NEW s \in Sockets,
             Connect(s) \/ RejectAuth(s) \/ TakeMessage(s) \/ SendMessage(s) \/ ClientCloses(s)
      PROVE  QueueTyped'
  BY <1>4, <1>7 DEF Connect, RejectAuth, TakeMessage, SendMessage, ClientCloses
<1>8. CASE UNCHANGED vars
  BY <1>4, <1>8 DEF vars
<1> QED BY <1>5, <1>6, <1>7, <1>8 DEF Next, Task

\* The variables stay in their types, and no two registered connections have the same
\* id, by which the registry removes them (ws_registry.rs).
THEOREM FeedTypes == Spec => []TypeOK
<1>1. IInv /\ QueueTyped => TypeOK
  <2> SUFFICES ASSUME IInv, QueueTyped PROVE TypeOK
    OBVIOUS
  <2>1. ASSUME NEW s \in Sockets
        PROVE  /\ phase[s] \in Phases /\ address[s] \in Addresses \cup {Nobody}
               /\ Len(sending[s]) <= 1 /\ since[s] \in 0..Len(dispatched)
    <3>1. PICK d \in Seq(Sent) : d = dispatched /\ Len(d) \in Nat
      BY LenProperties DEF IInv, TasksTyped
    <3> QED BY <3>1 DEF IInv, TasksTyped
  <2>2. closed \subseteq Sockets /\ \A r \in Requests : handler[r] \in {"waiting", "dispatch", "answered", "dropped"}
    BY DEF IInv, TasksTyped
  <2> QED BY <2>1, <2>2 DEF TypeOK, IInv, RegistrySound, QueueTyped
<1>2. Init => QueueTyped
  BY EmptySeq DEF Init, QueueTyped
<1> QED BY <1>1, <1>2, QueueStep, FeedInvariant, PTL DEF Spec

\* The registry names exactly the connections that were registered and not removed:
\* removing one by its id leaves those that the same address has besides
\* (WsRegistry::register and unregister).
THEOREM RegistryIsExact == Spec => []RegistryExact
<1>1. IInv => RegistryExact
  <2> SUFFICES ASSUME IInv PROVE RegistryExact
    OBVIOUS
  <2>1. \A a \in Addresses : Receivers(a) = {s \in Sockets : address[s] = a /\ phase[s] \in {"open", "closing"}}
    BY SendersAre DEF Registrations
  <2>2. ASSUME NEW a \in Connected
        PROVE  Senders(a) # {} /\ \A x, y \in Senders(a) : x.tx = y.tx => x = y
    <3>1. Senders(a) # {} /\ Senders(a) = {Sender(s) : s \in Registrations(a)}
      BY DEF IInv, RegistrySound
    <3>2. \A s : Sender(s).tx = s
      BY DEF Sender
    <3> QED BY <3>1, <3>2
  <2> QED BY <2>1, <2>2 DEF RegistryExact
<1> QED BY <1>1, FeedInvariant, PTL

\* What is written to a connection, waits in its socket and in its channel is what was
\* sent to its address since it was registered, in that order; what is written is always
\* a first part of it (WsRegistry::send_to and the loop of ws.rs).
THEOREM FeedIsExact == Spec => []FeedExact
<1>1. IInv => FeedExact
  BY DEF IInv
<1> QED BY <1>1, FeedInvariant, PTL
===============================================================================
