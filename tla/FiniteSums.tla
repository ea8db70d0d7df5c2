------------------------------- MODULE FiniteSums -------------------------------
(***************************************************************************)
(* What SumFunctionOnSet of the module Functions computes, for every       *)
(* finite set: nothing for the empty set, and for any element of the set   *)
(* its value and the sum over the others, whichever element the recursion  *)
(* of the definition takes first. Total quantities of the order book and   *)
(* total balances of the contract are sums of this kind. And what is       *)
(* proved by counting up to a bound.                                       *)
(***************************************************************************)
EXTENDS Functions, FiniteSetTheorems, WellFoundedInduction, TLAPS

\* The element the recursion takes from a set.
First(s) == CHOOSE x \in s : TRUE

\* What holds at 0, and at n + 1 when it holds at n, holds up to any bound.
LEMMA CountingUp ==
  ASSUME NEW N \in Nat, NEW S, 0 \in S, \A n \in 0..(N - 1) : n \in S => n + 1 \in S
  PROVE  \A n \in 0..N : n \in S
<1> DEFINE R == OpToRel(<, Nat)
           missing == {n \in 0..N : n \notin S}
<1> SUFFICES ASSUME missing # {} PROVE FALSE
  OBVIOUS
<1>1. IsWellFoundedOn(R, Nat)
  BY NatLessThanWellFounded
<1>2. missing \in SUBSET Nat
  OBVIOUS
<1>3. PICK m \in missing : \A n \in missing : ~(<<n, m>> \in R)
  <2> HIDE DEF R, missing
  <2> QED BY <1>1, <1>2, WFMin
<1>4. m \in 1..N
  OBVIOUS
<1>5. m - 1 \in 0..(N - 1) /\ m - 1 \notin missing
  <2>1. m - 1 \in 0..(N - 1) /\ m - 1 \in Nat /\ m \in Nat /\ m - 1 < m
    BY <1>4
  <2>2. <<m - 1, m>> \in R
    BY <2>1 DEF OpToRel
  <2> HIDE DEF R
  <2> QED BY <1>3, <2>1, <2>2
<1>6. m - 1 \in S
  BY <1>5
<1>7. (m - 1) + 1 \in S /\ (m - 1) + 1 = m
  BY <1>4, <1>5, <1>6
<1> QED BY <1>3, <1>7

\* Among finite sets there is one of least size: how every proof below goes
\* by induction on the size of a set, taking a least counterexample.
LEMMA LeastSet ==
  ASSUME NEW C, C # {}, \A s \in C : IsFiniteSet(s)
  PROVE  \E s \in C : \A t \in C : Cardinality(t) >= Cardinality(s)
<1> DEFINE R == OpToRel(<, Nat)
           sizes == {Cardinality(s) : s \in C}
<1>1. sizes \in SUBSET Nat /\ sizes # {}
  BY FS_CardinalityType
<1>2. IsWellFoundedOn(R, Nat)
  BY NatLessThanWellFounded
<1>3. \A T \in SUBSET Nat : T # {} => \E x \in T : \A y \in T : ~(<<y, x>> \in R)
  <2> HIDE DEF R
  <2> QED BY <1>2, WFMin
<1>4. PICK n \in sizes : \A y \in sizes : ~(<<y, n>> \in R)
  <2> HIDE DEF R, sizes
  <2> QED BY <1>1, <1>3
<1>5. PICK s \in C : n = Cardinality(s)
  OBVIOUS
<1>6. ASSUME NEW t \in C PROVE Cardinality(t) >= Cardinality(s)
  <2>1. Cardinality(t) \in Nat /\ Cardinality(s) \in Nat /\ Cardinality(t) \in sizes
    BY FS_CardinalityType
  <2>2. ~(<<Cardinality(t), n>> \in R)
    BY <1>4, <2>1
  <2> QED BY <1>5, <2>1, <2>2 DEF OpToRel
<1> QED BY <1>5, <1>6

\* A set that is not empty is larger than it is without its first element.
LEMMA WithoutFirst ==
  ASSUME NEW s, IsFiniteSet(s), s # {}
  PROVE  /\ First(s) \in s
         /\ \A x \in s : /\ IsFiniteSet(s \ {x})
                         /\ ~(Cardinality(s \ {x}) >= Cardinality(s))
<1>1. First(s) \in s
  BY DEF First
<1>2. ASSUME NEW x \in s PROVE IsFiniteSet(s \ {x}) /\ ~(Cardinality(s \ {x}) >= Cardinality(s))
  <2>1. IsFiniteSet(s \ {x}) /\ Cardinality(s \ {x}) = Cardinality(s) - 1
    BY FS_RemoveElement
  <2>2. Cardinality(s) \in Nat
    BY FS_CardinalityType
  <2> QED BY <2>1, <2>2
<1> QED BY <1>1, <1>2

\* g computes the sums of f over the sets of a family, as the recursion of
\* the definition does.
Computes(g, f, F) ==
  g = [s \in F |-> IF s = {} THEN 0 ELSE f[First(s)] + g[s \ {First(s)}]]

SumsOfSubsets(g, f, S) == Computes(g, f, SUBSET S)

\* The recursive function that the definition chooses exists: there is one for
\* the subsets up to each size, since the one for a size less can be extended.
LEMMA SumsExist ==
  ASSUME NEW f, NEW S, IsFiniteSet(S)
  PROVE  \E g : SumsOfSubsets(g, f, S)
<1> DEFINE UpTo(n) == {s \in SUBSET S : Cardinality(s) <= n}
           Missing == {T \in SUBSET S : ~\E g : Computes(g, f, UpTo(Cardinality(T)))}
<1>0. \A s \in SUBSET S : IsFiniteSet(s) /\ Cardinality(s) \in Nat /\ Cardinality(s) <= Cardinality(S)
  BY FS_Subset, FS_CardinalityType
<1>1. Missing = {}
  <2> SUFFICES ASSUME Missing # {} PROVE FALSE
    OBVIOUS
  <2>1. PICK T \in Missing : \A t \in Missing : Cardinality(t) >= Cardinality(T)
    BY <1>0, LeastSet
  <2> DEFINE n == Cardinality(T)
  <2>2. n \in Nat /\ ~\E g : Computes(g, f, UpTo(n))
    BY <1>0, <2>1
  <2>3. CASE T = {}
    <3>1. n = 0
      BY <2>3, FS_EmptySet
    <3>2. \A s \in UpTo(n) : s = {}
      BY <1>0, <3>1, FS_EmptySet
    <3>3. Computes([s \in UpTo(n) |-> 0], f, UpTo(n))
      <4> HIDE DEF UpTo, n
      <4> QED BY <3>2 DEF Computes
    <3> QED BY <2>2, <3>3
  <2>4. CASE T # {}
    <3>1. T \ {First(T)} \notin Missing /\ Cardinality(T \ {First(T)}) = n - 1
      <4>1. First(T) \in T /\ IsFiniteSet(T)
        BY <1>0, <2>4 DEF First
      <4>2. Cardinality(T \ {First(T)}) = n - 1
        BY <4>1, FS_RemoveElement
      <4>3. T \ {First(T)} \notin Missing
        <5> HIDE DEF Missing
        <5> QED BY <2>1, <2>2, <4>2
      <4> QED BY <4>2, <4>3
    <3>2. PICK h : Computes(h, f, UpTo(n - 1))
      BY <3>1
    <3> DEFINE g == [s \in UpTo(n) |-> IF s = {} THEN 0 ELSE f[First(s)] + h[s \ {First(s)}]]
    <3>3. \A s \in UpTo(n) : s # {} => s \ {First(s)} \in UpTo(n - 1)
      <4> SUFFICES ASSUME NEW s \in SUBSET S, Cardinality(s) <= n, s # {}
                   PROVE  Cardinality(s \ {First(s)}) <= n - 1
        OBVIOUS
      <4>1. First(s) \in s /\ IsFiniteSet(s) /\ Cardinality(s) \in Nat
        BY <1>0 DEF First
      <4>2. Cardinality(s \ {First(s)}) = Cardinality(s) - 1
        BY <4>1, FS_RemoveElement
      <4> HIDE DEF n
      <4> QED BY <4>1, <4>2, <2>2
    <3>4. \A s \in UpTo(n - 1) : s \in UpTo(n)
      BY <1>0, <2>2
    <3> HIDE DEF UpTo, n
    <3>5. \A s \in UpTo(n - 1) : g[s] = h[s]
      BY <3>2, <3>4 DEF Computes
    <3>6. \A s \in UpTo(n) : s # {} => g[s \ {First(s)}] = h[s \ {First(s)}]
      BY <3>3, <3>5
    <3>7. Computes(g, f, UpTo(n))
      BY <3>6 DEF Computes
    <3> QED BY <2>2, <3>7
  <2> QED BY <2>3, <2>4
<1>2. PICK g : Computes(g, f, UpTo(Cardinality(S)))
  BY <1>1
<1>3. UpTo(Cardinality(S)) = SUBSET S
  BY <1>0
<1> QED BY <1>2, <1>3 DEF SumsOfSubsets

\* Functions that compute the sums for the subsets of a set and of a larger one
\* agree on the smaller set.
LEMMA SumsAgree ==
  ASSUME NEW f, NEW S, IsFiniteSet(S), NEW T \in SUBSET S,
         NEW g, SumsOfSubsets(g, f, S), NEW h, SumsOfSubsets(h, f, T)
  PROVE  g[T] = h[T]
<1> DEFINE Differ == {s \in SUBSET T : g[s] # h[s]}
<1>0. \A s \in SUBSET T : s \in SUBSET S /\ IsFiniteSet(s)
  BY FS_Subset
<1> SUFFICES ASSUME Differ # {} PROVE FALSE
  OBVIOUS
<1>1. PICK s \in Differ : \A t \in Differ : Cardinality(t) >= Cardinality(s)
  BY <1>0, LeastSet
<1>2. CASE s = {}
  BY <1>0, <1>1, <1>2 DEF SumsOfSubsets, Computes
<1>3. CASE s # {}
  <2>1. First(s) \in s /\ ~(Cardinality(s \ {First(s)}) >= Cardinality(s))
    BY <1>0, <1>3, WithoutFirst
  <2>2. s \ {First(s)} \in SUBSET T /\ s \ {First(s)} \notin Differ
    <3>1. s \ {First(s)} \in SUBSET T
      BY <1>1
    <3> HIDE DEF Differ
    <3> QED BY <1>1, <2>1, <3>1
  <2>3. g[s \ {First(s)}] = h[s \ {First(s)}]
    BY <2>2
  <2>4. /\ g[s] = f[First(s)] + g[s \ {First(s)}]
        /\ h[s] = f[First(s)] + h[s \ {First(s)}]
    BY <1>0, <1>1, <1>3 DEF SumsOfSubsets, Computes
  <2> QED BY <1>1, <2>3, <2>4
<1> QED BY <1>2, <1>3

\* The definition's recursion, unfolded once.
LEMMA SumUnfolds ==
  ASSUME NEW f, NEW S, IsFiniteSet(S)
  PROVE  SumFunctionOnSet(f, S) =
           IF S = {} THEN 0 ELSE f[First(S)] + SumFunctionOnSet(f, S \ {First(S)})
<1> DEFINE Sums(T) == CHOOSE g : SumsOfSubsets(g, f, T)
<1>1. ASSUME NEW T PROVE SumFunctionOnSet(f, T) = Sums(T)[T]
  BY DEF SumFunctionOnSet, FoldFunctionOnSet, MapThenFoldSet, SumsOfSubsets, Computes, First
<1>2. ASSUME NEW T, IsFiniteSet(T) PROVE SumsOfSubsets(Sums(T), f, T)
  BY <1>2, SumsExist
<1> HIDE DEF Sums
<1>3. SumsOfSubsets(Sums(S), f, S)
  BY <1>2
<1>4. CASE S = {}
  BY <1>1, <1>3, <1>4 DEF SumsOfSubsets, Computes
<1>5. CASE S # {}
  <2>0. PICK T : T = S \ {First(S)}
    OBVIOUS
  <2>1. IsFiniteSet(T) /\ T \in SUBSET S
    BY <2>0, FS_Subset
  <2>2. SumsOfSubsets(Sums(T), f, T)
    BY <1>2, <2>1
  <2>3. Sums(S)[T] = Sums(T)[T]
    <3>1. PICK g, h : g = Sums(S) /\ h = Sums(T)
      OBVIOUS
    <3>2. SumsOfSubsets(g, f, S) /\ SumsOfSubsets(h, f, T)
      BY <1>3, <2>2, <3>1
    <3>3. g[T] = h[T]
      BY <2>1, <3>2, SumsAgree
    <3> QED BY <3>1, <3>3
  <2>4. Sums(S)[S] = f[First(S)] + Sums(S)[T]
    BY <1>3, <1>5, <2>0 DEF SumsOfSubsets, Computes
  <2> QED BY <1>1, <1>5, <2>0, <2>3, <2>4
<1> QED BY <1>4, <1>5

\* The sum over no elements.
LEMMA SumOfNothing == \A f : SumFunctionOnSet(f, {}) = 0
BY SumUnfolds, FS_EmptySet

\* A sum of integers is one.
LEMMA SumType ==
  ASSUME NEW S, IsFiniteSet(S), NEW f, \A x \in S : f[x] \in Int
  PROVE  SumFunctionOnSet(f, S) \in Int
<1> DEFINE Bad == {s \in SUBSET S : SumFunctionOnSet(f, s) \notin Int}
<1>0. \A s \in SUBSET S : IsFiniteSet(s) /\ Cardinality(s) \in Nat
  BY FS_Subset, FS_CardinalityType
<1> SUFFICES ASSUME Bad # {} PROVE FALSE
  OBVIOUS
<1>1. PICK s \in Bad : \A t \in Bad : Cardinality(t) >= Cardinality(s)
  BY <1>0, LeastSet
<1>2. s # {}
  BY <1>1, SumOfNothing
<1>3. /\ First(s) \in s /\ ~(Cardinality(s \ {First(s)}) >= Cardinality(s))
      /\ SumFunctionOnSet(f, s) = f[First(s)] + SumFunctionOnSet(f, s \ {First(s)})
  BY <1>0, <1>2, WithoutFirst, SumUnfolds
<1>4. s \ {First(s)} \in SUBSET S /\ s \ {First(s)} \notin Bad
  <2> HIDE DEF Bad
  <2>1. s \ {First(s)} \in SUBSET S
    BY <1>1 DEF Bad
  <2> QED BY <1>1, <1>3, <2>1
<1>5. f[First(s)] \in Int /\ SumFunctionOnSet(f, s \ {First(s)}) \in Int
  BY <1>3, <1>4
<1> QED BY <1>1, <1>3, <1>5

\* The sum over a set, with any one of its elements put aside.
LEMMA SumSplits ==
  ASSUME NEW S, IsFiniteSet(S), NEW f, \A x \in S : f[x] \in Int,
         NEW x \in S, NEW rest, rest = S \ {x}
  PROVE  SumFunctionOnSet(f, S) = f[x] + SumFunctionOnSet(f, rest)
<1> DEFINE Sum(s) == SumFunctionOnSet(f, s)
           Bad == {s \in SUBSET S : \E y \in s : Sum(s) # f[y] + Sum(s \ {y})}
<1>0. \A s \in SUBSET S : IsFiniteSet(s) /\ Cardinality(s) \in Nat /\ Sum(s) \in Int
  BY FS_Subset, FS_CardinalityType, SumType
<1>1. Bad = {}
  <2> SUFFICES ASSUME Bad # {} PROVE FALSE
    OBVIOUS
  <2>1. PICK s \in Bad : \A t \in Bad : Cardinality(t) >= Cardinality(s)
    BY <1>0, LeastSet
  <2>2. PICK y \in s : Sum(s) # f[y] + Sum(s \ {y})
    BY <2>1
  <2>3. PICK z : z = First(s)
    OBVIOUS
  <2>4. /\ z \in s /\ ~(Cardinality(s \ {z}) >= Cardinality(s)) /\ ~(Cardinality(s \ {y}) >= Cardinality(s))
        /\ Sum(s) = f[z] + Sum(s \ {z})
    BY <1>0, <2>3, WithoutFirst, SumUnfolds
  <2>5. /\ s \ {y} \in SUBSET S /\ s \ {y} \notin Bad
        /\ s \ {z} \in SUBSET S /\ s \ {z} \notin Bad
    <3> HIDE DEF Bad
    <3>1. s \ {y} \in SUBSET S /\ s \ {z} \in SUBSET S
      BY <2>1 DEF Bad
    <3> QED BY <2>1, <2>4, <3>1
  <2>6. y # z
    BY <2>2, <2>4
  <2>7. /\ Sum(s \ {z}) = f[y] + Sum((s \ {z}) \ {y})
        /\ Sum(s \ {y}) = f[z] + Sum((s \ {y}) \ {z})
    BY <2>2, <2>4, <2>5, <2>6
  <2>8. Sum((s \ {z}) \ {y}) = Sum((s \ {y}) \ {z})
    <3>1. (s \ {z}) \ {y} = (s \ {y}) \ {z}
      OBVIOUS
    <3> QED BY <3>1, Zenon
  <2>9. f[y] \in Int /\ f[z] \in Int /\ Sum((s \ {z}) \ {y}) \in Int
    BY <1>0, <2>1, <2>2, <2>4, <2>5
  <2> HIDE DEF Sum
  <2> QED BY <2>2, <2>4, <2>7, <2>8, <2>9
<1>2. Sum(S) = f[x] + Sum(S \ {x})
  BY <1>1
<1> QED BY <1>2

\* A sum depends on the values in the set only.
LEMMA SumSame ==
  ASSUME NEW S, IsFiniteSet(S), NEW f, NEW g, \A x \in S : f[x] = g[x]
  PROVE  SumFunctionOnSet(f, S) = SumFunctionOnSet(g, S)
<1> DEFINE Bad == {s \in SUBSET S : SumFunctionOnSet(f, s) # SumFunctionOnSet(g, s)}
<1>0. \A s \in SUBSET S : IsFiniteSet(s) /\ Cardinality(s) \in Nat
  BY FS_Subset, FS_CardinalityType
<1> SUFFICES ASSUME Bad # {} PROVE FALSE
  OBVIOUS
<1>1. PICK s \in Bad : \A t \in Bad : Cardinality(t) >= Cardinality(s)
  BY <1>0, LeastSet
<1>2. s # {}
  BY <1>1, SumOfNothing
<1>3. /\ First(s) \in s /\ ~(Cardinality(s \ {First(s)}) >= Cardinality(s))
      /\ SumFunctionOnSet(f, s) = f[First(s)] + SumFunctionOnSet(f, s \ {First(s)})
      /\ SumFunctionOnSet(g, s) = g[First(s)] + SumFunctionOnSet(g, s \ {First(s)})
  BY <1>0, <1>2, WithoutFirst, SumUnfolds
<1>4. s \ {First(s)} \in SUBSET S /\ s \ {First(s)} \notin Bad
  <2> HIDE DEF Bad
  <2>1. s \ {First(s)} \in SUBSET S
    BY <1>1 DEF Bad
  <2> QED BY <1>1, <1>3, <2>1
<1>5. SumFunctionOnSet(f, s \ {First(s)}) = SumFunctionOnSet(g, s \ {First(s)})
  BY <1>4
<1>6. f[First(s)] = g[First(s)]
  BY <1>1, <1>3
<1> QED BY <1>1, <1>3, <1>5, <1>6

\* A sum of natural numbers is one.
LEMMA SumNat ==
  ASSUME NEW S, IsFiniteSet(S), NEW f, \A x \in S : f[x] \in Nat
  PROVE  SumFunctionOnSet(f, S) \in Nat
<1> DEFINE Bad == {s \in SUBSET S : SumFunctionOnSet(f, s) \notin Nat}
<1>0. \A s \in SUBSET S : IsFiniteSet(s) /\ Cardinality(s) \in Nat
  BY FS_Subset, FS_CardinalityType
<1> SUFFICES ASSUME Bad # {} PROVE FALSE
  OBVIOUS
<1>1. PICK s \in Bad : \A t \in Bad : Cardinality(t) >= Cardinality(s)
  BY <1>0, LeastSet
<1>2. s # {}
  BY <1>1, SumOfNothing
<1>3. /\ First(s) \in s /\ ~(Cardinality(s \ {First(s)}) >= Cardinality(s))
      /\ SumFunctionOnSet(f, s) = f[First(s)] + SumFunctionOnSet(f, s \ {First(s)})
  BY <1>0, <1>2, WithoutFirst, SumUnfolds
<1>4. s \ {First(s)} \in SUBSET S /\ s \ {First(s)} \notin Bad
  <2> HIDE DEF Bad
  <2>1. s \ {First(s)} \in SUBSET S
    BY <1>1 DEF Bad
  <2> QED BY <1>1, <1>3, <2>1
<1>5. f[First(s)] \in Nat /\ SumFunctionOnSet(f, s \ {First(s)}) \in Nat
  BY <1>3, <1>4
<1> QED BY <1>1, <1>3, <1>5

\* When one value changes, the sum changes by the difference.
LEMMA SumChanges ==
  ASSUME NEW S, IsFiniteSet(S), NEW f, NEW g, NEW x \in S,
         \A y \in S : f[y] \in Int /\ g[y] \in Int, \A y \in S \ {x} : g[y] = f[y]
  PROVE  SumFunctionOnSet(g, S) = SumFunctionOnSet(f, S) + (g[x] - f[x])
<1>1. PICK rest : rest = S \ {x}
  OBVIOUS
<1>2. IsFiniteSet(rest) /\ \A y \in rest : f[y] \in Int /\ g[y] = f[y]
  BY <1>1, FS_RemoveElement
<1>3. SumFunctionOnSet(f, S) = f[x] + SumFunctionOnSet(f, rest)
  BY <1>1, SumSplits
<1>4. SumFunctionOnSet(g, S) = g[x] + SumFunctionOnSet(g, rest)
  BY <1>1, SumSplits
<1>5. SumFunctionOnSet(f, rest) \in Int /\ SumFunctionOnSet(g, rest) = SumFunctionOnSet(f, rest)
  BY <1>2, SumType, SumSame
<1> QED BY <1>3, <1>4, <1>5

\* Of natural numbers, none is more than the sum.
LEMMA SumHolds ==
  ASSUME NEW S, IsFiniteSet(S), NEW f, \A y \in S : f[y] \in Nat, NEW x \in S
  PROVE  f[x] <= SumFunctionOnSet(f, S)
<1>1. PICK rest : rest = S \ {x}
  OBVIOUS
<1>2. IsFiniteSet(rest) /\ SumFunctionOnSet(f, rest) \in Nat
  BY <1>1, FS_RemoveElement, SumNat
<1>3. SumFunctionOnSet(f, S) = f[x] + SumFunctionOnSet(f, rest)
  BY <1>1, SumSplits
<1> QED BY <1>2, <1>3

\* A sum is at most another one when each of its values goes to a place of its
\* own in the other sum that holds no less.
LEMMA SumInjected ==
  ASSUME NEW S, IsFiniteSet(S), NEW f, \A x \in S : f[x] \in Nat,
         NEW T, IsFiniteSet(T), NEW g, \A y \in T : g[y] \in Nat,
         NEW h, \A x \in S : h[x] \in T /\ f[x] <= g[h[x]],
         \A x, y \in S : h[x] = h[y] => x = y
  PROVE  SumFunctionOnSet(f, S) <= SumFunctionOnSet(g, T)
<1> DEFINE Bad == {t \in SUBSET T : \E s \in SUBSET S :
                     /\ \A x \in s : h[x] \in t
                     /\ ~(SumFunctionOnSet(f, s) <= SumFunctionOnSet(g, t))}
<1>0. /\ \A s \in SUBSET S : IsFiniteSet(s) /\ SumFunctionOnSet(f, s) \in Nat
      /\ \A t \in SUBSET T : IsFiniteSet(t) /\ SumFunctionOnSet(g, t) \in Nat
  BY FS_Subset, SumNat
<1>1. Bad = {}
  <2> SUFFICES ASSUME Bad # {} PROVE FALSE
    OBVIOUS
  <2>1. PICK t \in Bad : \A u \in Bad : Cardinality(u) >= Cardinality(t)
    BY <1>0, LeastSet
  <2>2. PICK s \in SUBSET S : /\ \A x \in s : h[x] \in t
                              /\ ~(SumFunctionOnSet(f, s) <= SumFunctionOnSet(g, t))
    BY <2>1
  <2>3. t # {}
    <3>1. s = {} => SumFunctionOnSet(f, s) = 0
      BY SumOfNothing
    <3> QED BY <1>0, <2>2, <3>1, SumOfNothing
  <2>4. PICK y \in t : y = First(t)
    BY <1>0, <2>1, <2>3, WithoutFirst
  <2>5. PICK u : u = t \ {y}
    OBVIOUS
  <2>6. /\ u \in SUBSET T /\ ~(Cardinality(u) >= Cardinality(t)) /\ u \notin Bad
        /\ SumFunctionOnSet(g, t) = g[y] + SumFunctionOnSet(g, u) /\ g[y] \in Nat
    <3>1. u \in SUBSET T /\ IsFiniteSet(t) /\ \A z \in t : g[z] \in Nat /\ g[z] \in Int
      BY <1>0, <2>1, <2>5
    <3>2. ~(Cardinality(u) >= Cardinality(t))
      BY <2>3, <2>4, <2>5, <3>1, WithoutFirst
    <3>3. SumFunctionOnSet(g, t) = g[y] + SumFunctionOnSet(g, u)
      BY <2>5, <3>1, SumSplits
    <3> HIDE DEF Bad
    <3> QED BY <2>1, <3>1, <3>2, <3>3
  <2>7. CASE \E x \in s : h[x] = y
    <3>1. PICK x \in s : h[x] = y
      BY <2>7
    <3>2. PICK r : r = s \ {x}
      OBVIOUS
    <3>3. r \in SUBSET S /\ \A z \in r : h[z] \in u
      BY <2>2, <2>5, <3>1, <3>2
    <3>4. SumFunctionOnSet(f, r) <= SumFunctionOnSet(g, u)
      BY <2>6, <3>3
    <3>5. SumFunctionOnSet(f, s) = f[x] + SumFunctionOnSet(f, r)
      BY <1>0, <3>2, SumSplits
    <3>6. f[x] \in Nat /\ f[x] <= g[y]
      BY <3>1
    <3> HIDE DEF Bad
    <3> QED BY <1>0, <2>2, <2>6, <3>3, <3>4, <3>5, <3>6
  <2>8. CASE ~\E x \in s : h[x] = y
    <3>1. \A z \in s : h[z] \in u
      BY <2>2, <2>5, <2>8
    <3>2. SumFunctionOnSet(f, s) <= SumFunctionOnSet(g, u)
      BY <2>6, <3>1
    <3> HIDE DEF Bad
    <3> QED BY <1>0, <2>2, <2>6, <3>2
  <2> QED BY <2>7, <2>8
<1>2. \A t \in SUBSET T : \A s \in SUBSET S :
        (\A x \in s : h[x] \in t) => SumFunctionOnSet(f, s) <= SumFunctionOnSet(g, t)
  BY <1>1
<1> HIDE DEF Bad
<1>3. S \in SUBSET S /\ T \in SUBSET T /\ \A x \in S : h[x] \in T
  OBVIOUS
<1> QED BY <1>2, <1>3

\* One value more at the end of a sequence of values.
LEMMA SumAppended ==
  ASSUME NEW n \in Nat, NEW f, NEW g, \A i \in 1..n : f[i] \in Int /\ g[i] = f[i], g[n + 1] \in Int
  PROVE  SumFunctionOnSet(g, 1..(n + 1)) = SumFunctionOnSet(f, 1..n) + g[n + 1]
<1>1. IsFiniteSet(1..n) /\ IsFiniteSet(1..(n + 1)) /\ 1..n = (1..(n + 1)) \ {n + 1}
  <2>1. \A a, b \in Int : IsFiniteSet(a..b)
    BY FS_Interval
  <2>2. 1..n = (1..(n + 1)) \ {n + 1}
    OBVIOUS
  <2> QED BY <2>1, <2>2
<1>2. \A i \in 1..(n + 1) : g[i] \in Int
  OBVIOUS
<1>3. SumFunctionOnSet(g, 1..(n + 1)) = g[n + 1] + SumFunctionOnSet(g, 1..n)
  BY <1>1, <1>2, SumSplits
<1>4. SumFunctionOnSet(g, 1..n) = SumFunctionOnSet(f, 1..n) /\ SumFunctionOnSet(f, 1..n) \in Int
  BY <1>1, SumSame, SumType
<1> QED BY <1>3, <1>4

\* A sum of zeros is zero.
LEMMA SumOfZeros ==
  ASSUME NEW S, IsFiniteSet(S), NEW f, \A x \in S : f[x] = 0
  PROVE  SumFunctionOnSet(f, S) = 0
<1> DEFINE Bad == {s \in SUBSET S : SumFunctionOnSet(f, s) # 0}
<1>0. \A s \in SUBSET S : IsFiniteSet(s) /\ Cardinality(s) \in Nat
  BY FS_Subset, FS_CardinalityType
<1> SUFFICES ASSUME Bad # {} PROVE FALSE
  OBVIOUS
<1>1. PICK s \in Bad : \A t \in Bad : Cardinality(t) >= Cardinality(s)
  BY <1>0, LeastSet
<1>2. s # {}
  BY <1>1, SumOfNothing
<1>3. /\ First(s) \in s /\ ~(Cardinality(s \ {First(s)}) >= Cardinality(s))
      /\ SumFunctionOnSet(f, s) = f[First(s)] + SumFunctionOnSet(f, s \ {First(s)})
  BY <1>0, <1>2, WithoutFirst, SumUnfolds
<1>4. s \ {First(s)} \in SUBSET S /\ s \ {First(s)} \notin Bad
  <2> HIDE DEF Bad
  <2>1. s \ {First(s)} \in SUBSET S
    BY <1>1 DEF Bad
  <2> QED BY <1>1, <1>3, <2>1
<1>5. f[First(s)] = 0 /\ SumFunctionOnSet(f, s \ {First(s)}) = 0
  BY <1>1, <1>3, <1>4
<1> QED BY <1>1, <1>3, <1>5

\* Values that are nowhere larger add up to no more.
LEMMA SumBelow ==
  ASSUME NEW S, IsFiniteSet(S), NEW f, NEW g, \A x \in S : f[x] \in Nat /\ g[x] \in Nat /\ g[x] <= f[x]
  PROVE  SumFunctionOnSet(g, S) <= SumFunctionOnSet(f, S)
<1>1. PICK h : h = [x \in S |-> x]
  OBVIOUS
<1>2. /\ \A x \in S : h[x] \in S /\ g[x] <= f[h[x]]
      /\ \A x, y \in S : h[x] = h[y] => x = y
  BY <1>1
<1> QED BY <1>2, SumInjected

\* And if one of them may be larger, or must be smaller, by a number, so is the sum.
LEMMA SumMoves ==
  ASSUME NEW S, IsFiniteSet(S), NEW f, NEW g, \A y \in S : f[y] \in Nat /\ g[y] \in Nat,
         NEW x \in S, NEW d \in Int, g[x] <= f[x] + d, \A y \in S \ {x} : g[y] <= f[y]
  PROVE  SumFunctionOnSet(g, S) <= SumFunctionOnSet(f, S) + d
<1>1. PICK h : h = [y \in S |-> IF y = x THEN f[x] + d ELSE f[y]]
  OBVIOUS
<1>2. /\ \A y \in S : h[y] \in Nat /\ g[y] <= h[y]
      /\ \A y \in S \ {x} : h[y] = f[y]
      /\ h[x] - f[x] = d
  <2>1. f[x] \in Nat /\ g[x] \in Nat /\ f[x] + d \in Nat
    OBVIOUS
  <2> QED BY <1>1, <2>1
<1>3. SumFunctionOnSet(g, S) <= SumFunctionOnSet(h, S)
  BY <1>2, SumBelow
<1>4. SumFunctionOnSet(h, S) = SumFunctionOnSet(f, S) + (h[x] - f[x])
  <2>1. \A y \in S : f[y] \in Int /\ h[y] \in Int
    BY <1>2
  <2>2. \A y \in S \ {x} : h[y] = f[y]
    BY <1>2
  <2> QED BY ONLY IsFiniteSet(S), x \in S, <2>1, <2>2, SumChanges
<1> QED BY <1>2, <1>3, <1>4

\* Zeros more or less do not change a sum.
LEMMA SumWithoutZeros ==
  ASSUME NEW T, IsFiniteSet(T), NEW S \in SUBSET T, NEW f, \A x \in T : f[x] \in Int,
         \A x \in T \ S : f[x] = 0
  PROVE  SumFunctionOnSet(f, T) = SumFunctionOnSet(f, S)
<1> DEFINE Bad == {t \in SUBSET T : S \subseteq t /\ SumFunctionOnSet(f, t) # SumFunctionOnSet(f, S)}
<1>0. \A t \in SUBSET T : IsFiniteSet(t) /\ Cardinality(t) \in Nat /\ SumFunctionOnSet(f, t) \in Int
  BY FS_Subset, FS_CardinalityType, SumType
<1>1. Bad = {}
  <2> SUFFICES ASSUME Bad # {} PROVE FALSE
    OBVIOUS
  <2>1. PICK t \in Bad : \A u \in Bad : Cardinality(u) >= Cardinality(t)
    BY <1>0, LeastSet
  <2>2. t \in SUBSET T /\ S \subseteq t /\ SumFunctionOnSet(f, t) # SumFunctionOnSet(f, S)
    BY <2>1
  <2>3. PICK x \in t : x \notin S
    BY <2>2
  <2>4. PICK u : u = t \ {x}
    OBVIOUS
  <2>5. u \in SUBSET T /\ S \subseteq u /\ ~(Cardinality(u) >= Cardinality(t))
    <3>1. u \in SUBSET T /\ S \subseteq u
      BY <2>2, <2>3, <2>4
    <3>2. Cardinality(u) = Cardinality(t) - 1 /\ Cardinality(t) \in Nat
      BY <1>0, <2>2, <2>4, FS_RemoveElement
    <3> QED BY <3>1, <3>2
  <2>6. SumFunctionOnSet(f, u) = SumFunctionOnSet(f, S)
    BY <2>1, <2>5
  <2>7. SumFunctionOnSet(f, t) = f[x] + SumFunctionOnSet(f, u)
    <3>1. IsFiniteSet(t) /\ \A y \in t : f[y] \in Int
      BY <1>0, <2>2
    <3> QED BY <2>4, <3>1, SumSplits
  <2>8. f[x] = 0 /\ SumFunctionOnSet(f, u) \in Int
    BY <1>0, <2>2, <2>3, <2>5
  <2> HIDE DEF Bad
  <2> QED BY <2>2, <2>6, <2>7, <2>8
<1>2. T \in SUBSET T /\ S \subseteq T
  OBVIOUS
<1> QED BY <1>1, <1>2
=============================================================================
