---------------------------- MODULE FiniteProofs ----------------------------
(***************************************************************************)
(* What the other proofs keep needing about naturals, finite sets and      *)
(* filtered lists.                                                         *)
(***************************************************************************)
EXTENDS Listings, Sequences, FiniteSetTheorems, WellFoundedInduction, TLAPS

\* Every set of naturals that is not empty has a least element: among the
\* intervals from 0 to its elements one is in no other.
LEMMA LeastNat ==
  ASSUME NEW T \in SUBSET Nat, T # {}
  PROVE  \E n \in T : \A m \in T : n <= m
  <1> DEFINE F == {0 .. n : n \in T}
  <1>1. F \subseteq FiniteSubsetsOf(Nat)
    <2>1. \A n \in Nat : 0 .. n \subseteq Nat /\ IsFiniteSet(0 .. n)
      BY FS_Interval
    <2>2. QED
      BY <2>1 DEF FiniteSubsetsOf
  <1>2. PICK x \in F : \A y \in F : <<y, x>> \notin StrictSubsetOrdering(Nat)
    <2> HIDE DEF F
    <2>1. F # {}
      BY DEF F
    <2>2. QED
      BY <1>1, <2>1, FS_StrictSubsetOrderingWellFounded, WFMin
  <1>3. PICK n \in T : x = 0 .. n
    OBVIOUS
  <1>4. ASSUME NEW m \in T PROVE n <= m
    <2>1. SUFFICES ASSUME m < n PROVE FALSE
      OBVIOUS
    <2>2. 0 .. m \subseteq 0 .. n /\ 0 .. m # 0 .. n /\ 0 .. n \subseteq Nat /\ 0..m \subseteq Nat
      BY <2>1
    <2>3. <<0 .. m, 0 .. n>> \notin StrictSubsetOrdering(Nat)
      BY <1>2, <1>3
    <2>4. QED
      BY <2>2, <2>3 DEF StrictSubsetOrdering
  <1>5. QED
    BY <1>4

\* What applies to every element of a finite set yields finitely many results.
LEMMA FiniteImage ==
  ASSUME NEW S, IsFiniteSet(S), NEW f, DOMAIN f = S
  PROVE  IsFiniteSet({f[x] : x \in S})
  <1> DEFINE T == {f[x] : x \in S}
             g == [x \in S |-> f[x]]
  <1>1. g \in Surjection(S, T)
    BY DEF Surjection
  <1> HIDE DEF g, T
  <1>2. IsFiniteSet(T)
    BY <1>1, FS_Surjection
  <1>3. QED
    BY <1>2 DEF T

-----------------------------------------------------------------------------
\* Filtered lists.

\* The positions up to one of them.
UpTo(P, i) == {j \in P : j <= i}

\* Every rank has its position, and a position has one rank.
LEMMA NthFound ==
  ASSUME NEW P \in SUBSET Nat, IsFiniteSet(P)
  PROVE  /\ Cardinality(P) \in Nat
         /\ \A k \in 1 .. Cardinality(P) : Nth(P, k) \in P /\ Cardinality(UpTo(P, Nth(P, k))) = k
         /\ \A i \in P : \E k \in 1 .. Cardinality(P) : Nth(P, k) = i
  <1> DEFINE n == Cardinality(P)
             rank == [i \in P |-> Cardinality(UpTo(P, i))]
  <1>1. n \in Nat
    BY FS_CardinalityType
  <1>2. \A i \in P : /\ IsFiniteSet(UpTo(P, i)) /\ Cardinality(UpTo(P, i)) \in Nat
                     /\ Cardinality(UpTo(P, i)) \in 1 .. n
    <2> TAKE i \in P
    <2>1. UpTo(P, i) \subseteq P /\ i \in UpTo(P, i)
      BY DEF UpTo
    <2>2. IsFiniteSet(UpTo(P, i)) /\ Cardinality(UpTo(P, i)) <= n
      BY <2>1, FS_Subset
    <2>3. Cardinality(UpTo(P, i)) \in Nat /\ Cardinality(UpTo(P, i)) # 0
      BY <2>1, <2>2, FS_CardinalityType, FS_EmptySet
    <2>4. QED
      BY <1>1, <2>2, <2>3
  <1>3. ASSUME NEW i \in P, NEW j \in P, i < j
        PROVE  rank[i] # rank[j]
    <2>0. i \in Nat /\ j \in Nat /\ \A k \in P : k \in Nat
      OBVIOUS
    <2>1. UpTo(P, i) \subseteq UpTo(P, j) /\ j \in UpTo(P, j) /\ j \notin UpTo(P, i)
      <3>1. \A k \in P : k <= i => k <= j
        BY <1>3, <2>0
      <3>2. j <= j /\ ~(j <= i)
        BY <1>3, <2>0
      <3>3. QED
        BY <3>1, <3>2 DEF UpTo
    <2>2. /\ Cardinality(UpTo(P, i)) <= Cardinality(UpTo(P, j))
          /\ Cardinality(UpTo(P, j)) = Cardinality(UpTo(P, i)) => UpTo(P, j) = UpTo(P, i)
      BY <1>2, <2>1, FS_Subset
    <2>3. QED
      BY <2>1, <2>2
  <1>4. rank \in [P -> 1 .. n]
    BY <1>2
  <1>5. \A i, j \in P : rank[i] = rank[j] => i = j
    <2>1. \A i, j \in P : i = j \/ i < j \/ j < i
      OBVIOUS
    <2> HIDE DEF rank
    <2>2. QED
      BY <1>3, <2>1
  <1>6. rank \in Injection(P, 1 .. n)
    BY <1>4, <1>5 DEF Injection, IsInjective
  <1>7. IsFiniteSet(1 .. n) /\ Cardinality(1 .. n) = n
    BY <1>1, FS_Interval
  <1>8. rank \in Surjection(P, 1 .. n)
    <2>1. Cardinality(P) = Cardinality(1 .. n) <=> rank \in Surjection(P, 1 .. n)
      BY <1>6, <1>7, FS_Injection
    <2>2. QED
      BY <1>7, <2>1
  <1>9. \A k \in 1 .. n : \E i \in P : rank[i] = k
    BY <1>8 DEF Surjection
  <1>10. \A k \in 1 .. n : Nth(P, k) \in P /\ Cardinality(UpTo(P, Nth(P, k))) = k
    BY <1>9 DEF Nth, UpTo
  <1>11. \A i \in P : Nth(P, rank[i]) = i
    <2> TAKE i \in P
    <2>1. rank[i] \in 1 .. n
      BY <1>4
    <2>2. Nth(P, rank[i]) \in P /\ Cardinality(UpTo(P, Nth(P, rank[i]))) = rank[i]
      BY <1>10, <2>1
    <2>3. rank[Nth(P, rank[i])] = rank[i]
      BY <2>2
    <2> HIDE DEF rank
    <2>4. QED
      BY <1>5, <2>2, <2>3
  <1>12. QED
    BY <1>1, <1>4, <1>10, <1>11

Held(list) == {list[i] : i \in DOMAIN list}

\* A filtered list holds what the list holds of the set, as often as the list does.
LEMMA ListedElements ==
  ASSUME NEW S, NEW list \in Seq(S), NEW set
  PROVE  /\ Listed(list, set) \in Seq(S)
         /\ Held(Listed(list, set)) = Held(list) \cap set
         /\ (\A i, j \in DOMAIN list : list[i] = list[j] => i = j)
              => \A k, l \in DOMAIN Listed(list, set) : Listed(list, set)[k] = Listed(list, set)[l] => k = l
  <1> DEFINE P == {i \in DOMAIN list : list[i] \in set}
             n == Cardinality(P)
  <1>1. Len(list) \in Nat /\ DOMAIN list = 1 .. Len(list)
    OBVIOUS
  <1>2. P \in SUBSET Nat /\ IsFiniteSet(P)
    <2>1. IsFiniteSet(1 .. Len(list))
      BY <1>1, FS_Interval
    <2>2. P \subseteq 1 .. Len(list)
      BY <1>1
    <2>3. QED
      BY <2>1, <2>2, FS_Subset
  <1>3. Listed(list, set) = [k \in 1 .. n |-> list[Nth(P, k)]]
    BY DEF Listed
  <1> HIDE DEF P
  <1>4. /\ n \in Nat
        /\ \A k \in 1 .. n : Nth(P, k) \in P /\ Cardinality(UpTo(P, Nth(P, k))) = k
        /\ \A i \in P : \E k \in 1 .. n : Nth(P, k) = i
    BY <1>2, NthFound
  <1>5. \A i \in P : i \in DOMAIN list /\ list[i] \in S /\ list[i] \in set
    BY DEF P
  <1>6. Listed(list, set) \in Seq(S)
    <2>1. \A k \in 1 .. n : list[Nth(P, k)] \in S
      BY <1>4, <1>5
    <2>2. Listed(list, set) \in [1 .. n -> S]
      BY <1>3, <2>1
    <2>3. QED
      BY <1>4, <2>2
  <1>7. DOMAIN Listed(list, set) = 1 .. n
    BY <1>3
  <1>8. \A k \in 1 .. n : Listed(list, set)[k] \in {list[i] : i \in DOMAIN list} \cap set
    BY <1>3, <1>4, <1>5
  <1>9. ASSUME NEW i \in DOMAIN list, list[i] \in set
        PROVE  \E k \in 1 .. n : Listed(list, set)[k] = list[i]
    <2>1. i \in P
      BY <1>9 DEF P
    <2>2. QED
      BY <1>3, <1>4, <2>1
  <1>10. ASSUME \A i, j \in DOMAIN list : list[i] = list[j] => i = j,
                NEW k \in 1 .. n, NEW l \in 1 .. n, Listed(list, set)[k] = Listed(list, set)[l]
         PROVE  k = l
    <2>1. Nth(P, k) = Nth(P, l)
      BY <1>3, <1>4, <1>5, <1>10
    <2>2. QED
      BY <1>4, <2>1
  <1> DEFINE out == Listed(list, set)
  <1> HIDE DEF out, n
  <1>11. {out[k] : k \in DOMAIN out} = {list[i] : i \in DOMAIN list} \cap set
    <2>1. \A k \in DOMAIN out : out[k] \in {list[i] : i \in DOMAIN list} \cap set
      BY <1>7, <1>8 DEF out
    <2>2. \A x \in {list[i] : i \in DOMAIN list} \cap set : \E k \in DOMAIN out : out[k] = x
      BY <1>7, <1>9 DEF out
    <2>3. QED
      BY <2>1, <2>2
  <1>12. QED
    BY <1>6, <1>7, <1>10, <1>11 DEF out, Held

-----------------------------------------------------------------------------
\* Iteration.

\* The first n steps of an iteration of g from a.
IteratesTo(g, a, n, h) == h[0] = a /\ \A i \in 0 .. n - 1 : h[i + 1] = g[h[i]]

\* Two records of one iteration agree as far as both go.
LEMMA IterationUnique ==
  ASSUME NEW S, NEW a \in S, NEW g \in [S -> S], NEW m \in Nat, NEW n \in Nat,
         NEW h, IteratesTo(g, a, m, h), NEW k, IteratesTo(g, a, n, k),
         NEW i \in Nat, i <= m, i <= n
  PROVE  h[i] = k[i]
  <1> DEFINE T == {j \in Nat : j <= m /\ j <= n /\ h[j] # k[j]}
  <1>1. SUFFICES ASSUME T # {} PROVE FALSE
    OBVIOUS
  <1>2. PICK j \in T : \A l \in T : j <= l
    <2>1. T \in SUBSET Nat
      OBVIOUS
    <2> HIDE DEF T
    <2>2. QED
      BY <1>1, <2>1, LeastNat
  <1>3. j # 0
    BY DEF IteratesTo
  <1>4. j - 1 \in Nat /\ j - 1 \notin T /\ j - 1 <= m /\ j - 1 <= n
    BY <1>2, <1>3
  <1>5. h[j - 1] = k[j - 1]
    BY <1>4
  <1>6. h[(j - 1) + 1] = g[h[j - 1]] /\ k[(j - 1) + 1] = g[k[j - 1]]
    BY <1>3, <1>4 DEF IteratesTo
  <1>7. QED
    BY <1>3, <1>5, <1>6

\* Iterating a function never gets stuck.
LEMMA Iterates ==
  ASSUME NEW S, NEW a \in S, NEW g \in [S -> S]
  PROVE  \E f \in [Nat -> S] : f[0] = a /\ \A n \in Nat : f[n + 1] = g[f[n]]
  <1> DEFINE Recorded(n) == \E h \in [0 .. n -> S] : IteratesTo(g, a, n, h)
             T == {n \in Nat : ~Recorded(n)}
  <1>1. \A n \in Nat : Recorded(n)
    <2>1. SUFFICES ASSUME T # {} PROVE FALSE
      OBVIOUS
    <2>2. PICK n \in T : \A m \in T : n <= m
      <3>1. T \in SUBSET Nat
        OBVIOUS
      <3> HIDE DEF T
      <3>2. QED
        BY <2>1, <3>1, LeastNat
    <2>3. n # 0
      <3>1. [i \in 0 .. 0 |-> a] \in [0 .. 0 -> S] /\ IteratesTo(g, a, 0, [i \in 0 .. 0 |-> a])
        BY DEF IteratesTo
      <3>2. QED
        BY <3>1
    <2>4. n - 1 \in Nat /\ Recorded(n - 1)
      BY <2>2, <2>3
    <2>5. PICK h \in [0 .. n - 1 -> S] : IteratesTo(g, a, n - 1, h)
      BY <2>4
    <2> DEFINE k == [i \in 0 .. n |-> IF i = n THEN g[h[n - 1]] ELSE h[i]]
    <2>6. k \in [0 .. n -> S]
      <3>1. n - 1 \in 0 .. n - 1
        BY <2>4
      <3>2. \A i \in 0 .. n : i # n => i \in 0 .. n - 1
        OBVIOUS
      <3>3. QED
        BY <3>1, <3>2
    <2>7. IteratesTo(g, a, n, k)
      <3>1. k[0] = a
        BY <2>3, <2>5 DEF IteratesTo
      <3>2. ASSUME NEW i \in 0 .. n - 1 PROVE k[i + 1] = g[k[i]]
        <4>1. i \in Nat /\ i # n /\ i \in 0 .. n /\ i + 1 \in 0 .. n /\ k[i] = h[i]
          OBVIOUS
        <4>2. CASE i + 1 = n
          <5>1. i = n - 1
            BY <4>2
          <5>2. k[i + 1] = g[h[n - 1]]
            BY <4>1, <4>2
          <5>3. QED
            BY <4>1, <5>1, <5>2
        <4>3. CASE i + 1 # n
          <5>1. i \in 0 .. (n - 1) - 1
            BY <4>3
          <5>2. h[i + 1] = g[h[i]]
            BY <2>5, <5>1 DEF IteratesTo
          <5>3. k[i + 1] = h[i + 1]
            BY <4>1, <4>3
          <5>4. QED
            BY <4>1, <5>2, <5>3
        <4>4. QED
          BY <4>2, <4>3
      <3> HIDE DEF k
      <3>3. QED
        BY <3>1, <3>2 DEF IteratesTo
    <2>8. QED
      BY <2>2, <2>6, <2>7
  <1> DEFINE upto(n) == CHOOSE h \in [0 .. n -> S] : IteratesTo(g, a, n, h)
             f == [n \in Nat |-> upto(n)[n]]
  <1>2. \A n \in Nat : upto(n) \in [0 .. n -> S] /\ IteratesTo(g, a, n, upto(n))
    BY <1>1
  <1> HIDE DEF upto, Recorded
  <1>3. f \in [Nat -> S]
    BY <1>2
  <1>4. f[0] = a
    BY <1>2 DEF IteratesTo
  <1>5. ASSUME NEW n \in Nat PROVE f[n + 1] = g[f[n]]
    <2>1. upto(n + 1)[n] = upto(n)[n]
      <3>1. n + 1 \in Nat /\ n <= n /\ n <= n + 1
        OBVIOUS
      <3>2. IteratesTo(g, a, n, upto(n)) /\ IteratesTo(g, a, n + 1, upto(n + 1))
        BY <1>2, <3>1
      <3>3. QED
        BY <3>1, <3>2, IterationUnique
    <2>2. upto(n + 1)[n + 1] = g[upto(n + 1)[n]]
      <3>1. IteratesTo(g, a, n + 1, upto(n + 1)) /\ n \in 0 .. (n + 1) - 1
        BY <1>2
      <3>2. QED
        BY <3>1 DEF IteratesTo
    <2>3. QED
      BY <2>1, <2>2
  <1> HIDE DEF f
  <1>6. QED
    BY <1>3, <1>4, <1>5

\* A growing subset of a finite set has stopped growing after as many steps as the set
\* has elements.
LEMMA GrowthEnds ==
  ASSUME NEW U, IsFiniteSet(U), NEW g \in [SUBSET U -> SUBSET U],
         \A x \in SUBSET U : x \subseteq g[x],
         NEW f \in [Nat -> SUBSET U], \A n \in Nat : f[n + 1] = g[f[n]]
  PROVE  g[f[Cardinality(U)]] = f[Cardinality(U)]
  <1> DEFINE N == Cardinality(U)
  <1>1. N \in Nat /\ \A x \in SUBSET U : IsFiniteSet(x) /\ Cardinality(x) \in Nat /\ Cardinality(x) <= N
    <2>1. \A x \in SUBSET U : IsFiniteSet(x) /\ Cardinality(x) <= N
      BY FS_Subset
    <2>2. QED
      BY <2>1, FS_CardinalityType
  <1> HIDE DEF N
  <1>2. SUFFICES ASSUME g[f[N]] # f[N] PROVE FALSE
    BY DEF N
  <1>3. ASSUME NEW n \in Nat, n <= N PROVE g[f[n]] # f[n]
    <2>1. SUFFICES ASSUME g[f[n]] = f[n] PROVE FALSE
      OBVIOUS
    <2> DEFINE T == {m \in Nat : n <= m /\ f[m] # f[n]}
    <2>2. N \in T
      BY <1>1, <1>2, <1>3, <2>1
    <2>3. PICK m \in T : \A l \in T : m <= l
      <3>1. T \in SUBSET Nat /\ T # {}
        BY <2>2
      <3> HIDE DEF T
      <3>2. QED
        BY <3>1, LeastNat
    <2>4. m # n /\ m - 1 \in Nat /\ n <= m - 1 /\ m - 1 \notin T
      BY <2>3
    <2>5. f[m - 1] = f[n]
      BY <2>4
    <2>6. f[(m - 1) + 1] = g[f[m - 1]]
      BY <2>4
    <2>7. QED
      BY <2>1, <2>3, <2>5, <2>6
  <1> DEFINE T == {n \in Nat : n <= N + 1 /\ ~(n <= Cardinality(f[n]))}
  <1>4. T = {}
    <2>1. SUFFICES ASSUME T # {} PROVE FALSE
      OBVIOUS
    <2>2. PICK n \in T : \A l \in T : n <= l
      <3>1. T \in SUBSET Nat
        OBVIOUS
      <3> HIDE DEF T
      <3>2. QED
        BY <2>1, <3>1, LeastNat
    <2>3. n # 0
      BY <1>1
    <2>4. n - 1 \in Nat /\ n - 1 <= N /\ n - 1 <= Cardinality(f[n - 1])
      BY <1>1, <2>2, <2>3
    <2>5. f[(n - 1) + 1] = g[f[n - 1]] /\ (n - 1) + 1 = n
      BY <2>4
    <2>6. f[n - 1] \subseteq f[n] /\ f[n - 1] # f[n] /\ f[n] \in SUBSET U
      BY <1>3, <2>4, <2>5
    <2>7. Cardinality(f[n - 1]) <= Cardinality(f[n]) /\ Cardinality(f[n - 1]) # Cardinality(f[n])
      BY <1>1, <2>6, FS_Subset
    <2>8. n <= Cardinality(f[n])
      <3> DEFINE before == Cardinality(f[n - 1])
                 after == Cardinality(f[n])
      <3>1. before \in Nat /\ after \in Nat
        BY <1>1, <2>4, <2>6
      <3>2. n \in Nat /\ n - 1 <= before /\ before <= after /\ before # after
        BY <2>4, <2>7
      <3> HIDE DEF before, after
      <3>3. n <= after
        BY <3>1, <3>2
      <3>4. QED
        BY <3>3 DEF after
    <2>9. QED
      BY <2>2, <2>8
  <1>5. N + 1 \in Nat /\ N + 1 \notin T /\ f[N + 1] \in SUBSET U
    BY <1>1, <1>4
  <1>6. N + 1 <= Cardinality(f[N + 1]) /\ Cardinality(f[N + 1]) <= N /\ Cardinality(f[N + 1]) \in Nat
    BY <1>1, <1>5
  <1>7. QED
    BY <1>1, <1>6


\* The first n of a list of steps, each a function of the step's number and of what
\* the step before it left.
StepsTo(g, a, n, h) == h[0] = a /\ \A i \in 1 .. n : h[i] = g[<<i, h[i - 1]>>]

\* Going through a list step by step never gets stuck.
LEMMA StepsTaken ==
  ASSUME NEW S, NEW a \in S, NEW last \in Nat, NEW g \in [(1 .. last) \X S -> S]
  PROVE  \E h \in [0 .. last -> S] : StepsTo(g, a, last, h)
  <1> DEFINE Recorded(n) == \E h \in [0 .. n -> S] : StepsTo(g, a, n, h)
             T == {n \in 0 .. last : ~Recorded(n)}
  <1>1. SUFFICES ASSUME T # {} PROVE FALSE
    OBVIOUS
  <1>2. PICK n \in T : \A m \in T : n <= m
    <2>1. T \in SUBSET Nat
      OBVIOUS
    <2> HIDE DEF T
    <2>2. QED
      BY <1>1, <2>1, LeastNat
  <1>3. n # 0
    <2>1. [i \in 0 .. 0 |-> a] \in [0 .. 0 -> S] /\ StepsTo(g, a, 0, [i \in 0 .. 0 |-> a])
      BY DEF StepsTo
    <2>2. QED
      BY <2>1
  <1>4. n - 1 \in Nat /\ n - 1 \in 0 .. last /\ Recorded(n - 1) /\ n \in 1 .. last
    BY <1>2, <1>3
  <1>5. PICK h \in [0 .. n - 1 -> S] : StepsTo(g, a, n - 1, h)
    BY <1>4
  <1> DEFINE k == [i \in 0 .. n |-> IF i = n THEN g[<<n, h[n - 1]>>] ELSE h[i]]
  <1>6. k \in [0 .. n -> S]
    <2>1. n - 1 \in 0 .. n - 1
      BY <1>4
    <2>2. g[<<n, h[n - 1]>>] \in S
      BY <1>4, <2>1
    <2>3. \A i \in 0 .. n : i # n => i \in 0 .. n - 1
      BY <1>4
    <2>4. QED
      BY <2>2, <2>3
  <1>7. k[0] = a
    BY <1>3, <1>4, <1>5 DEF StepsTo
  <1>8. ASSUME NEW i \in 1 .. n PROVE k[i] = g[<<i, k[i - 1]>>]
    <2>1. i \in 0 .. n /\ i - 1 \in 0 .. n /\ i - 1 # n /\ k[i - 1] = h[i - 1]
      BY <1>4
    <2>2. CASE i = n
      BY <2>1, <2>2
    <2>3. CASE i # n
      <3>1. i \in 1 .. n - 1
        BY <1>4, <2>3
      <3>2. h[i] = g[<<i, h[i - 1]>>]
        BY <1>5, <3>1 DEF StepsTo
      <3>3. k[i] = h[i]
        BY <2>1, <2>3
      <3>4. QED
        BY <2>1, <3>2, <3>3
    <2>4. QED
      BY <2>2, <2>3
  <1> HIDE DEF k
  <1>9. StepsTo(g, a, n, k)
    BY <1>7, <1>8 DEF StepsTo
  <1>10. QED
    BY <1>2, <1>6, <1>9

-----------------------------------------------------------------------------
\* Sets sorted by a key.

\* s has the elements of S, in the strict order of the key.
Sorts(s, S, key) ==
  /\ s \in Seq(S) /\ Held(s) = S
  /\ \A i, k \in DOMAIN s : i < k => key[s[i]] < key[s[k]]

\* Nothing else does: the sorted sequence is the one SortedBy gives.
LEMMA SortedIs ==
  ASSUME NEW S, NEW key, \A x \in S : key[x] \in Int, NEW s, Sorts(s, S, key)
  PROVE  SortedBy(S, key) = s
  <1> DEFINE n == Len(s)
             Before(i) == {y \in S : key[y] < key[s[i]]}
             UntilKey(i) == {y \in S : key[y] <= key[s[i]]}
             Front(m) == {s[i] : i \in 1 .. m}
             position(k, x) == /\ Cardinality({y \in S : key[y] < key[x]}) < k
                               /\ Cardinality({y \in S : key[y] <= key[x]}) >= k
  <1>1. /\ n \in Nat /\ DOMAIN s = 1 .. n /\ \A i \in 1 .. n : s[i] \in S /\ key[s[i]] \in Int
        /\ \A x \in S : \E i \in 1 .. n : x = s[i]
        /\ \A i, k \in 1 .. n : i < k => key[s[i]] < key[s[k]]
        /\ s = [i \in 1 .. n |-> s[i]]
    BY DEF Sorts, Held
  <1>2. \A i, k \in 1 .. n : s[i] = s[k] => i = k
    <2> SUFFICES ASSUME NEW i \in 1 .. n, NEW k \in 1 .. n, s[i] = s[k] PROVE i = k
      OBVIOUS
    <2>1. ~(i < k) /\ ~(k < i)
      BY <1>1
    <2>2. QED
      BY <1>1, <2>1
  <1>3. \A m \in 0 .. n : IsFiniteSet(Front(m)) /\ Cardinality(Front(m)) = m
    <2> SUFFICES ASSUME NEW m \in 0 .. n
                 PROVE  IsFiniteSet(Front(m)) /\ Cardinality(Front(m)) = m
      OBVIOUS
    <2> DEFINE f == [i \in 1 .. m |-> s[i]]
    <2>1. f \in Bijection(1 .. m, Front(m))
      <3>1. \A i \in 1 .. m : i \in 1 .. n
        BY <1>1
      <3>2. f \in [1 .. m -> Front(m)] /\ \A x \in Front(m) : \E i \in 1 .. m : f[i] = x
        OBVIOUS
      <3>3. \A i, k \in 1 .. m : f[i] = f[k] => i = k
        BY <1>2, <3>1
      <3> HIDE DEF f, Front
      <3>4. QED
        BY <3>2, <3>3 DEF Bijection, Injection, Surjection, IsInjective
    <2> HIDE DEF f, Front
    <2>2. IsFiniteSet(1 .. m) /\ Cardinality(1 .. m) = m
      <3>1. 1 \in Int /\ m \in Int /\ (IF 1 > m THEN 0 ELSE m - 1 + 1) = m
        BY <1>1
      <3>2. QED
        BY <3>1, FS_Interval
    <2>3. QED
      BY <2>1, <2>2, FS_Bijection DEF ExistsBijection
  <1>4. \A i \in 1 .. n : Before(i) = Front(i - 1) /\ UntilKey(i) = Front(i)
    <2> SUFFICES ASSUME NEW i \in 1 .. n
                 PROVE  Before(i) = Front(i - 1) /\ UntilKey(i) = Front(i)
      OBVIOUS
    <2>1. \A k \in 1 .. n : /\ key[s[k]] < key[s[i]] <=> k < i
                            /\ key[s[k]] <= key[s[i]] <=> k <= i
      <3> SUFFICES ASSUME NEW k \in 1 .. n
                   PROVE  /\ key[s[k]] < key[s[i]] <=> k < i
                          /\ key[s[k]] <= key[s[i]] <=> k <= i
        OBVIOUS
      <3>1. /\ key[s[k]] \in Int /\ key[s[i]] \in Int
            /\ k < i => key[s[k]] < key[s[i]]
            /\ i < k => key[s[i]] < key[s[k]]
            /\ i = k => key[s[i]] = key[s[k]]
        BY <1>1
      <3>2. QED
        BY <1>1, <3>1
    <2>2. \A k \in 1 .. n : (k < i <=> k \in 1 .. (i - 1)) /\ (k <= i <=> k \in 1 .. i)
      BY <1>1
    <2>3. (\A k \in 1 .. (i - 1) : k \in 1 .. n) /\ (\A k \in 1 .. i : k \in 1 .. n)
      BY <1>1
    <2>4. Before(i) = Front(i - 1)
      BY <1>1, <2>1, <2>2, <2>3
    <2>5. UntilKey(i) = Front(i)
      BY <1>1, <2>1, <2>2, <2>3
    <2>6. QED
      BY <2>4, <2>5
  <1>5. Cardinality(S) = n
    <2>1. S = Front(n) /\ n \in 0 .. n
      BY <1>1
    <2> HIDE DEF Front, n
    <2>2. QED
      BY <1>3, <2>1
  <1>6. \A i, k \in 1 .. n : position(k, s[i]) <=> i = k
    <2> SUFFICES ASSUME NEW i \in 1 .. n, NEW k \in 1 .. n
                 PROVE  position(k, s[i]) <=> i = k
      OBVIOUS
    <2>1. i - 1 \in 0 .. n /\ i \in 0 .. n
      BY <1>1
    <2>2. Cardinality(Before(i)) = i - 1 /\ Cardinality(UntilKey(i)) = i
      <3> HIDE DEF Before, UntilKey, Front
      <3>1. QED
        BY <1>3, <1>4, <2>1
    <2>3. position(k, s[i]) <=> i - 1 < k /\ i >= k
      BY <2>2
    <2>4. QED
      BY <1>1, <2>3
  <1> HIDE DEF position
  <1>7. \A k \in 1 .. n : (CHOOSE x \in S : position(k, x)) = s[k]
    <2> SUFFICES ASSUME NEW k \in 1 .. n
                 PROVE  (CHOOSE x \in S : position(k, x)) = s[k]
      OBVIOUS
    <2>1. s[k] \in S /\ position(k, s[k])
      BY <1>1, <1>6
    <2>2. \A x \in S : position(k, x) => x = s[k]
      BY <1>1, <1>6
    <2>3. QED
      BY <2>1, <2>2
  <1>8. SortedBy(S, key) = [k \in 1 .. n |-> CHOOSE x \in S : position(k, x)]
    BY <1>5 DEF SortedBy, position
  <1>9. QED
    BY <1>1, <1>7, <1>8

\* A finite set whose elements a key tells apart is sorted by it.
LEMMA SortedLists ==
  ASSUME NEW S, IsFiniteSet(S), NEW key, \A x \in S : key[x] \in Nat,
         \A x, y \in S : key[x] = key[y] => x = y
  PROVE  Sorts(SortedBy(S, key), S, key)
  <1> DEFINE image == [x \in S |-> key[x]]
             P == {image[x] : x \in S}
             n == Cardinality(P)
             with(i) == CHOOSE x \in S : key[x] = i
             s == [k \in 1 .. n |-> with(Nth(P, k))]
  <1>1. P \in SUBSET Nat /\ IsFiniteSet(P)
    <2>1. DOMAIN image = S /\ P \in SUBSET Nat
      OBVIOUS
    <2> HIDE DEF image
    <2>2. QED
      BY <2>1, FiniteImage
  <1>2. \A i \in P : with(i) \in S /\ key[with(i)] = i
    OBVIOUS
  <1>3. \A x \in S : key[x] \in P /\ with(key[x]) = x
    <2> SUFFICES ASSUME NEW x \in S PROVE key[x] \in P /\ with(key[x]) = x
      OBVIOUS
    <2>1. key[x] \in P
      OBVIOUS
    <2>2. QED
      BY <1>2, <2>1
  <1> HIDE DEF P, with
  <1>4. /\ n \in Nat
        /\ \A k \in 1 .. n : Nth(P, k) \in P /\ Cardinality(UpTo(P, Nth(P, k))) = k
        /\ \A i \in P : \E k \in 1 .. n : Nth(P, k) = i
    BY <1>1, NthFound
  <1>5. \A i, k \in 1 .. n : i < k => Nth(P, i) < Nth(P, k)
    <2> SUFFICES ASSUME NEW i \in 1 .. n, NEW k \in 1 .. n, i < k, ~(Nth(P, i) < Nth(P, k))
                 PROVE  FALSE
      OBVIOUS
    <2>1. /\ Nth(P, i) \in Nat /\ Nth(P, k) \in Nat
          /\ Cardinality(UpTo(P, Nth(P, i))) = i /\ Cardinality(UpTo(P, Nth(P, k))) = k
      BY <1>1, <1>4
    <2>2. UpTo(P, Nth(P, k)) \subseteq UpTo(P, Nth(P, i)) /\ UpTo(P, Nth(P, i)) \subseteq P
      <3>1. \A j \in P : j <= Nth(P, k) => j <= Nth(P, i)
        BY <1>1, <2>1
      <3>2. QED
        BY <3>1 DEF UpTo
    <2>3. k <= i
      BY <1>1, <2>1, <2>2, FS_Subset
    <2>4. QED
      BY <1>4, <2>3
  <1>6. Sorts(s, S, key)
    <2>1. s \in [1 .. n -> S] /\ \A k \in 1 .. n : key[s[k]] = Nth(P, k)
      BY <1>2, <1>4
    <2>2. s \in Seq(S) /\ DOMAIN s = 1 .. n
      BY <1>4, <2>1
    <2>3. \A x \in S : \E k \in 1 .. n : s[k] = x
      BY <1>3, <1>4
    <2> HIDE DEF s
    <2>4. Held(s) = S
      BY <2>1, <2>2, <2>3 DEF Held
    <2>5. QED
      BY <1>5, <2>1, <2>2, <2>4 DEF Sorts
  <1> HIDE DEF s
  <1>7. SortedBy(S, key) = s
    BY <1>6, SortedIs
  <1>8. QED
    BY <1>6, <1>7
=============================================================================
