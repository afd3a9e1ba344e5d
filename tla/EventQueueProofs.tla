--------------------------- MODULE EventQueueProofs ---------------------------
(***************************************************************************)
(* Proofs about EventQueue, for any finite set of threads, any keys, array *)
(* sizes and number of triggers: queued events are reported in order, and  *)
(* one signal per trigger is enough on a queue of edge and queued events.  *)
(***************************************************************************)
EXTENDS EventQueue, FiniteSetTheorems, SequenceTheorems, WellFoundedInduction, TLAPS

-----------------------------------------------------------------------------
(***************************************************************************)
(* Sums and FlattenSeq, used through their equations.                      *)
(***************************************************************************)

\* Every non-empty set of natural numbers has a smallest element.
LEMMA LeastElement ==
    ASSUME NEW T, T \subseteq Nat, T # {}
    PROVE  \E x \in T : \A y \in T : x <= y
<1> DEFINE R == {ss \in Nat \X Nat : ss[1] < ss[2]}
<1>1. IsWellFoundedOn(R, Nat)
  BY NatLessThanWellFounded DEF OpToRel
<1>2. PICK x \in T : \A y \in T : ~ (<<y, x>> \in R)
  BY <1>1, WFMin
<1>3. ASSUME NEW y \in T
      PROVE  x <= y
  <2>1. <<y, x>> \in Nat \X Nat
    OBVIOUS
  <2>2. ~ (<<y, x>>[1] < <<y, x>>[2])
    BY <1>2, <2>1
  <2>3. x \in Nat /\ y \in Nat
    OBVIOUS
  <2>4. QED
    BY <2>2, <2>3
<1>4. QED
  BY <1>3

\* Induction along a prefix of the natural numbers, on a set.
LEMMA PrefixInduction ==
    ASSUME NEW N \in Nat, NEW T, 0 \in T, \A n \in 1 .. N : n - 1 \in T => n \in T
    PROVE  \A n \in 0 .. N : n \in T
<1> DEFINE F == {n \in 0 .. N : n \notin T}
<1>1. SUFFICES ASSUME F # {}
               PROVE  FALSE
  OBVIOUS
<1>2. PICK x \in F : \A y \in F : x <= y
  <2>1. F \subseteq Nat
    OBVIOUS
  <2>2. QED
    BY <1>1, <2>1, LeastElement
<1>3. x \in 1 .. N /\ x - 1 \in 0 .. N /\ ~(x <= x - 1)
  OBVIOUS
<1>4. x - 1 \in T
  BY <1>2, <1>3
<1>5. QED
  BY <1>3, <1>4

\* The partial sums of a sequence of integers are well defined.
LEMMA SumsEquations ==
    ASSUME NEW v \in Seq(Int)
    PROVE  /\ Sums(v) \in [0 .. Len(v) -> Int]
           /\ Sums(v)[0] = 0
           /\ \A i \in 1 .. Len(v) : Sums(v)[i] = Sums(v)[i - 1] + v[i]
<1> DEFINE N == Len(v)
           Good(n) == \E g \in [0 .. n -> Int] :
                         /\ g[0] = 0
                         /\ \A i \in 1 .. n : g[i] = g[i - 1] + v[i]
           T == {n \in 0 .. N : Good(n)}
<1>0. N \in Nat /\ \A i \in 1 .. N : v[i] \in Int
  OBVIOUS
<1>1. Good(0)
  <2> DEFINE g == [i \in 0 .. 0 |-> 0]
  <2>1. g \in [0 .. 0 -> Int] /\ g[0] = 0 /\ \A i \in 1 .. 0 : g[i] = g[i - 1] + v[i]
    OBVIOUS
  <2> HIDE DEF g
  <2>2. QED
    BY <2>1
<1>2. ASSUME NEW n \in 1 .. N, Good(n - 1)
      PROVE  Good(n)
  <2>1. PICK g \in [0 .. n - 1 -> Int] :
            g[0] = 0 /\ \A i \in 1 .. n - 1 : g[i] = g[i - 1] + v[i]
    BY <1>2
  <2> DEFINE h == [i \in 0 .. n |-> IF i < n THEN g[i] ELSE g[n - 1] + v[n]]
  <2>2. h \in [0 .. n -> Int]
    BY <1>0
  <2>3. h[0] = 0
    BY <2>1
  <2>4. ASSUME NEW i \in 1 .. n
        PROVE  h[i] = h[i - 1] + v[i]
    <3>1. CASE i < n
      <4>1. h[i] = g[i] /\ h[i - 1] = g[i - 1] /\ i \in 1 .. n - 1
        BY <3>1
      <4>2. QED
        BY <2>1, <4>1
    <3>2. CASE i = n
      BY <3>2
    <3>3. QED
      BY <3>1, <3>2
  <2> HIDE DEF h
  <2>5. QED
    BY <2>2, <2>3, <2>4
<1> HIDE DEF Good
<1>3. N \in T
  <2>1. 0 \in T
    BY <1>0, <1>1
  <2>2. \A n \in 1 .. N : n - 1 \in T => n \in T
    BY <1>0, <1>2
  <2> HIDE DEF T
  <2>3. \A n \in 0 .. N : n \in T
    BY <1>0, <2>1, <2>2, PrefixInduction
  <2>4. QED
    BY <1>0, <2>3
<1>4. PICK g \in [0 .. N -> Int] :
            g[0] = 0 /\ \A i \in 1 .. N : g[i] = g[i - 1] + v[i]
  BY <1>3 DEF Good
<1> DEFINE Body(f) == [i \in 0 .. N |-> IF i = 0 THEN 0 ELSE f[i - 1] + v[i]]
<1>5. g = Body(g)
  <2>1. \A i \in 0 .. N : g[i] = Body(g)[i]
    BY <1>4
  <2>2. g = [i \in 0 .. N |-> g[i]] /\ DOMAIN Body(g) = 0 .. N
    OBVIOUS
  <2>3. QED
    BY <2>1, <2>2
<1>6. Sums(v) = CHOOSE f : f = Body(f)
  BY DEF Sums
<1>7. Sums(v) = Body(Sums(v))
  BY <1>5, <1>6
<1>8. Sums(v)[0] = 0
  BY <1>0, <1>7
<1>9. ASSUME NEW i \in 1 .. N
      PROVE  Sums(v)[i] = Sums(v)[i - 1] + v[i]
  <2>1. Sums(v)[i] = Body(Sums(v))[i]
    BY <1>7
  <2>2. i \in 0 .. N /\ i # 0
    OBVIOUS
  <2>3. QED
    BY <2>1, <2>2
<1>10. \A n \in 0 .. N : Sums(v)[n] \in Int
  <2> DEFINE S == {n \in 0 .. N : Sums(v)[n] \in Int}
  <2>1. 0 \in S
    BY <1>0, <1>8
  <2>2. \A n \in 1 .. N : n - 1 \in S => n \in S
    BY <1>0, <1>9
  <2>3. \A n \in 0 .. N : n \in S
    <3> HIDE DEF S
    <3>1. QED
      BY <1>0, <2>1, <2>2, PrefixInduction
  <2>4. QED
    BY <2>3
<1>11. Sums(v) \in [0 .. N -> Int]
  <2>1. Sums(v) = [i \in 0 .. N |-> Sums(v)[i]]
    BY <1>7
  <2>2. QED
    BY <2>1, <1>10
<1>12. QED
  BY <1>8, <1>9, <1>11

\* A sequence with one more element, at position k, has that much more sum.
LEMMA SumsInsert ==
    ASSUME NEW v \in Seq(Int), NEW w \in Seq(Int), Len(w) = Len(v) + 1,
           NEW k \in 1 .. Len(w),
           \A i \in 1 .. Len(v) : v[i] = w[IF i < k THEN i ELSE i + 1]
    PROVE  Sums(w)[Len(w)] = Sums(v)[Len(v)] + w[k]
<1> DEFINE N == Len(v)
<1>1. N \in Nat /\ Len(w) = N + 1 /\ w[k] \in Int /\ k \in 1 .. N + 1
      /\ (\A i \in 1 .. N : v[i] \in Int)
      /\ (\A i \in 1 .. N : v[i] = w[IF i < k THEN i ELSE i + 1])
  OBVIOUS
<1>2. PICK a \in [0 .. N -> Int] :
          a = Sums(v) /\ a[0] = 0 /\ \A i \in 1 .. N : a[i] = a[i - 1] + v[i]
  BY SumsEquations
<1>3. PICK d \in [0 .. Len(w) -> Int] :
          d = Sums(w) /\ d[0] = 0 /\ \A i \in 1 .. Len(w) : d[i] = d[i - 1] + w[i]
  BY SumsEquations
<1> HIDE DEF N
<1> DEFINE T == {n \in 0 .. N : IF n < k THEN d[n] = a[n] ELSE d[n + 1] = a[n] + w[k]}
<1>4. 0 \in T
  BY <1>1, <1>2, <1>3
<1>5. ASSUME NEW n \in 1 .. N, n - 1 \in T
      PROVE  n \in T
  <2>1. /\ n \in 0 .. N /\ n - 1 \in 0 .. N
        /\ n \in 1 .. Len(w) /\ n + 1 \in 1 .. Len(w) /\ (n + 1) - 1 = n
        /\ n - 1 \in 0 .. Len(w) /\ n \in 0 .. Len(w) /\ (n - 1) + 1 = n
    BY <1>1
  <2>2. a[n - 1] \in Int /\ v[n] \in Int /\ w[k] \in Int
    BY <1>1, <2>1
  <2>3. a[n] = a[n - 1] + v[n] /\ d[n] = d[n - 1] + w[n] /\ d[n + 1] = d[n] + w[n + 1]
    BY <1>2, <1>3, <2>1
  <2>4. IF n - 1 < k THEN d[n - 1] = a[n - 1] ELSE d[n] = a[n - 1] + w[k]
    BY <1>5, <2>1
  <2>5. v[n] = w[IF n < k THEN n ELSE n + 1]
    BY <1>1
  <2>6. IF n < k THEN d[n] = a[n] ELSE d[n + 1] = a[n] + w[k]
    <3>1. CASE n < k
      BY <1>1, <2>3, <2>4, <2>5, <3>1
    <3>2. CASE n = k
      <4>0. ~(n < k) /\ n - 1 < k /\ n \in Int
        BY <1>1, <3>2
      <4>1. v[n] = w[n + 1] /\ d[n - 1] = a[n - 1] /\ d[n] = d[n - 1] + w[k]
        BY <2>3, <2>4, <2>5, <3>2, <4>0
      <4>2. d[n + 1] = (a[n - 1] + w[k]) + v[n]
        BY <2>3, <4>1
      <4>3. (a[n - 1] + w[k]) + v[n] = (a[n - 1] + v[n]) + w[k]
        BY <2>2
      <4>4. d[n + 1] = a[n] + w[k]
        BY <2>3, <4>2, <4>3
      <4>5. QED
        BY <3>2, <4>4
    <3>3. CASE n > k
      <4>0. ~(n < k) /\ ~(n - 1 < k) /\ n \in Int
        BY <1>1, <3>3
      <4>1. v[n] = w[n + 1] /\ d[n] = a[n - 1] + w[k]
        BY <2>4, <2>5, <4>0
      <4>2. d[n + 1] = (a[n - 1] + w[k]) + v[n]
        BY <2>3, <4>1
      <4>3. (a[n - 1] + w[k]) + v[n] = (a[n - 1] + v[n]) + w[k]
        BY <2>2
      <4>4. d[n + 1] = a[n] + w[k]
        BY <2>3, <4>2, <4>3
      <4>5. QED
        BY <1>1, <3>3, <4>4
    <3>4. QED
      BY <1>1, <3>1, <3>2, <3>3
  <2>7. QED
    BY <2>1, <2>6
<1>6. \A n \in 0 .. N : n \in T
  <2> HIDE DEF T
  <2>1. QED
    BY <1>1, <1>4, <1>5, PrefixInduction
<1>7. IF N < k THEN d[N] = a[N] ELSE d[N + 1] = a[N] + w[k]
  <2>1. N \in T
    BY <1>1, <1>6
  <2>2. QED
    BY <2>1
<1>8. d[N + 1] = d[N] + w[N + 1]
  <2>1. N + 1 \in 1 .. Len(w) /\ (N + 1) - 1 = N
    BY <1>1
  <2>2. QED
    BY <1>3, <2>1
<1>9. d[N + 1] = a[N] + w[k]
  BY <1>1, <1>7, <1>8
<1>10. QED
  BY <1>1, <1>2, <1>3, <1>9 DEF N

\* Summing smaller elements gives a smaller sum.
LEMMA SumsCompare ==
    ASSUME NEW v \in Seq(Int), NEW w \in Seq(Int), Len(w) = Len(v),
           \A i \in 1 .. Len(v) : w[i] <= v[i]
    PROVE  /\ Sums(w)[Len(v)] <= Sums(v)[Len(v)]
           /\ \A k \in 1 .. Len(v) : w[k] < v[k] => Sums(w)[Len(v)] < Sums(v)[Len(v)]
<1> DEFINE N == Len(v)
<1>1. /\ N \in Nat /\ (\A i \in 1 .. N : v[i] \in Int /\ w[i] \in Int)
      /\ \A i \in 1 .. N : w[i] <= v[i]
  OBVIOUS
<1>2. PICK a \in [0 .. N -> Int] :
          a = Sums(v) /\ a[0] = 0 /\ \A i \in 1 .. N : a[i] = a[i - 1] + v[i]
  BY SumsEquations
<1>3. PICK d \in [0 .. N -> Int] :
          d = Sums(w) /\ d[0] = 0 /\ \A i \in 1 .. N : d[i] = d[i - 1] + w[i]
  BY SumsEquations
<1> HIDE DEF N
<1> DEFINE T == {n \in 0 .. N : d[n] <= a[n] /\ \A k \in 1 .. n : w[k] < v[k] => d[n] < a[n]}
<1>4. 0 \in T
  BY <1>1, <1>2, <1>3
<1>5. ASSUME NEW n \in 1 .. N, n - 1 \in T
      PROVE  n \in T
  <2>1. n \in 0 .. N /\ n - 1 \in 0 .. N
    BY <1>1
  <2>2. a[n - 1] \in Int /\ d[n - 1] \in Int /\ v[n] \in Int /\ w[n] \in Int /\ w[n] <= v[n]
    BY <1>1, <2>1
  <2>3. a[n] = a[n - 1] + v[n] /\ d[n] = d[n - 1] + w[n]
    BY <1>2, <1>3
  <2>4. d[n - 1] <= a[n - 1] /\ \A k \in 1 .. n - 1 : w[k] < v[k] => d[n - 1] < a[n - 1]
    BY <1>5
  <2>5. d[n] <= a[n]
    BY <2>2, <2>3, <2>4
  <2>6. ASSUME NEW k \in 1 .. n, w[k] < v[k]
        PROVE  d[n] < a[n]
    <3>1. CASE k = n
      BY <2>2, <2>3, <2>4, <2>6, <3>1
    <3>2. CASE k # n
      <4>1. k \in 1 .. n - 1
        BY <3>2
      <4>2. d[n - 1] < a[n - 1]
        BY <2>4, <2>6, <4>1
      <4>3. QED
        BY <2>2, <2>3, <4>2
    <3>3. QED
      BY <3>1, <3>2
  <2>7. QED
    BY <2>1, <2>5, <2>6
<1>6. \A n \in 0 .. N : n \in T
  <2> HIDE DEF T
  <2>1. QED
    BY <1>1, <1>4, <1>5, PrefixInduction
<1>7. N \in T
  BY <1>1, <1>6
<1>8. QED
  BY <1>2, <1>3, <1>7 DEF N

\* Zeros up to a position sum to zero there.
LEMMA SumsZero ==
    ASSUME NEW v \in Seq(Int), NEW m \in 0 .. Len(v), \A i \in 1 .. m : v[i] = 0
    PROVE  Sums(v)[m] = 0
<1> DEFINE N == Len(v)
<1>1. N \in Nat /\ m \in Nat /\ m <= N
  OBVIOUS
<1>2. PICK a \in [0 .. N -> Int] :
          a = Sums(v) /\ a[0] = 0 /\ \A i \in 1 .. N : a[i] = a[i - 1] + v[i]
  BY SumsEquations
<1> HIDE DEF N
<1> DEFINE T == {n \in 0 .. m : a[n] = 0}
<1>3. 0 \in T
  BY <1>1, <1>2
<1>4. ASSUME NEW n \in 1 .. m, n - 1 \in T
      PROVE  n \in T
  <2>1. n \in 1 .. N /\ n \in 0 .. m /\ v[n] = 0 /\ a[n - 1] = 0
    BY <1>1, <1>4
  <2>2. a[n] = a[n - 1] + v[n]
    BY <1>2, <2>1
  <2>3. QED
    BY <2>1, <2>2
<1>5. \A n \in 0 .. m : n \in T
  <2> HIDE DEF T
  <2>1. QED
    BY <1>1, <1>3, <1>4, PrefixInduction
<1>6. m \in T
  BY <1>1, <1>5
<1>7. QED
  BY <1>2, <1>6

\* The arithmetic of one position in the lemma below.
LEMMA OneMore ==
    ASSUME NEW p \in Int, NEW q \in Int, NEW x \in Int, NEW y \in Int
    PROVE  /\ p <= q /\ x <= y + 1 => p + x <= (q + y) + 1
           /\ p <= q + 1 /\ x <= y => p + x <= (q + y) + 1
           /\ p <= q /\ x <= y => p + x <= q + y
OBVIOUS

\* One element more at position k, and no other, adds at most one.
LEMMA SumsBump ==
    ASSUME NEW v \in Seq(Int), NEW w \in Seq(Int), Len(w) = Len(v), NEW k \in 1 .. Len(v),
           w[k] <= v[k] + 1, \A i \in 1 .. Len(v) : i # k => w[i] <= v[i]
    PROVE  Sums(w)[Len(v)] <= Sums(v)[Len(v)] + 1
<1> DEFINE N == Len(v)
<1>0. N \in Nat /\ k \in Nat /\ 0 < k
  OBVIOUS
<1>1. /\ N \in Nat /\ (\A i \in 1 .. N : v[i] \in Int /\ w[i] \in Int)
      /\ w[k] <= v[k] + 1 /\ \A i \in 1 .. N : i # k => w[i] <= v[i]
  OBVIOUS
<1>2. PICK a \in [0 .. N -> Int] :
          a = Sums(v) /\ a[0] = 0 /\ \A i \in 1 .. N : a[i] = a[i - 1] + v[i]
  BY SumsEquations
<1>3. PICK d \in [0 .. N -> Int] :
          d = Sums(w) /\ d[0] = 0 /\ \A i \in 1 .. N : d[i] = d[i - 1] + w[i]
  BY SumsEquations
<1> HIDE DEF N
<1> DEFINE T == {n \in 0 .. N : d[n] <= a[n] + 1 /\ (n < k => d[n] <= a[n])}
<1>4. 0 \in T
  BY <1>0, <1>2, <1>3
<1>5. ASSUME NEW n \in 1 .. N, n - 1 \in T
      PROVE  n \in T
  <2>1. n \in 0 .. N /\ n - 1 \in 0 .. N
    BY <1>1
  <2>2. a[n - 1] \in Int /\ d[n - 1] \in Int /\ v[n] \in Int /\ w[n] \in Int
    BY <1>1, <2>1
  <2>3. a[n] = a[n - 1] + v[n] /\ d[n] = d[n - 1] + w[n]
    BY <1>2, <1>3
  <2>4. d[n - 1] <= a[n - 1] + 1 /\ (n - 1 < k => d[n - 1] <= a[n - 1])
    BY <1>5
  <2>5. (n = k => w[n] <= v[n] + 1) /\ (n # k => w[n] <= v[n])
    BY <1>1
  <2>6. d[n] <= a[n] + 1 /\ (n < k => d[n] <= a[n])
    <3>1. CASE n = k
      <4>1. n - 1 < k /\ ~(n < k)
        BY <1>0, <3>1
      <4>2. d[n - 1] <= a[n - 1] /\ w[n] <= v[n] + 1
        BY <2>4, <2>5, <3>1, <4>1
      <4>3. d[n] <= a[n] + 1
        BY <2>2, <2>3, <4>2, OneMore
      <4>4. QED
        BY <4>1, <4>3
    <3>2. CASE n # k
      <4>1. w[n] <= v[n] /\ (n < k => n - 1 < k)
        BY <1>0, <2>5, <3>2
      <4>2. d[n] <= a[n] + 1
        BY <2>2, <2>3, <2>4, <4>1, OneMore
      <4>3. ASSUME n < k PROVE d[n] <= a[n]
        BY <2>2, <2>3, <2>4, <4>1, <4>3, OneMore
      <4>4. QED
        BY <4>2, <4>3
    <3>3. QED
      BY <3>1, <3>2
  <2>7. QED
    BY <2>1, <2>6
<1>6. \A n \in 0 .. N : n \in T
  <2> HIDE DEF T
  <2>1. QED
    BY <1>1, <1>4, <1>5, PrefixInduction
<1>7. N \in T
  BY <1>1, <1>6
<1>8. QED
  BY <1>2, <1>3, <1>7 DEF N

\* The larger of 0 and x.
LEMMA MaxWithZero ==
    ASSUME NEW x \in Int
    PROVE  Max({0, x}) = IF x > 0 THEN x ELSE 0
<1> DEFINE m == IF x > 0 THEN x ELSE 0
<1>1. m \in {0, x} /\ \A y \in {0, x} : m >= y
  OBVIOUS
<1>2. ASSUME NEW z \in {0, x}, \A y \in {0, x} : z >= y
      PROVE  z = m
  BY <1>2
<1>3. QED
  BY <1>1, <1>2 DEF Max

\* FlattenSeq puts the sequences one after the other.
LEMMA FlattenEquations ==
    ASSUME NEW S, NEW seqs \in Seq(Seq(S))
    PROVE  \E g \in [0 .. Len(seqs) -> Seq(S)] :
              /\ g[0] = << >>
              /\ \A i \in 1 .. Len(seqs) : g[i] = g[i - 1] \o seqs[i]
              /\ FlattenSeq(seqs) = g[Len(seqs)]
<1> DEFINE N == Len(seqs)
           Good(n) == \E g \in [0 .. n -> Seq(S)] :
                         /\ g[0] = << >>
                         /\ \A i \in 1 .. n : g[i] = g[i - 1] \o seqs[i]
           T == {n \in 0 .. N : Good(n)}
<1>0. N \in Nat /\ \A i \in 1 .. N : seqs[i] \in Seq(S)
  OBVIOUS
<1>1. Good(0)
  <2> DEFINE g == [i \in 0 .. 0 |-> << >>]
  <2>1. g \in [0 .. 0 -> Seq(S)] /\ g[0] = << >> /\ \A i \in 1 .. 0 : g[i] = g[i - 1] \o seqs[i]
    BY EmptySeq
  <2> HIDE DEF g
  <2>2. QED
    BY <2>1
<1>2. ASSUME NEW n \in 1 .. N, Good(n - 1)
      PROVE  Good(n)
  <2>1. PICK g \in [0 .. n - 1 -> Seq(S)] :
            g[0] = << >> /\ \A i \in 1 .. n - 1 : g[i] = g[i - 1] \o seqs[i]
    BY <1>2
  <2> DEFINE c == g[n - 1] \o seqs[n]
             h == [i \in 0 .. n |-> IF i < n THEN g[i] ELSE c]
  <2>2. c \in Seq(S)
    <3>1. g[n - 1] \in Seq(S) /\ seqs[n] \in Seq(S)
      BY <1>0
    <3>2. QED
      BY <3>1, ConcatProperties
  <2>3. h \in [0 .. n -> Seq(S)] /\ h[0] = << >>
    BY <2>1, <2>2
  <2>4. ASSUME NEW i \in 1 .. n
        PROVE  h[i] = h[i - 1] \o seqs[i]
    <3>1. CASE i < n
      <4>1. h[i] = g[i] /\ h[i - 1] = g[i - 1] /\ i \in 1 .. n - 1
        BY <3>1
      <4>2. QED
        BY <2>1, <4>1
    <3>2. CASE i = n
      <4>1. h[i] = c /\ h[i - 1] = g[i - 1]
        <5> HIDE DEF c
        <5>1. i \in 0 .. n /\ ~(i < n) /\ i - 1 \in 0 .. n /\ i - 1 < n
          BY <3>2
        <5>2. QED
          BY <5>1
      <4>2. c = g[i - 1] \o seqs[i]
        BY <3>2
      <4> HIDE DEF c, h
      <4>3. h[i] = g[i - 1] \o seqs[i] /\ h[i - 1] = g[i - 1]
        BY <4>1, <4>2
      <4>4. QED
        BY <4>3
    <3>3. i < n \/ i = n
      OBVIOUS
    <3> HIDE DEF h
    <3>4. QED
      BY <3>1, <3>2, <3>3, Zenon
  <2> HIDE DEF h
  <2>5. QED
    BY <2>3, <2>4
<1> HIDE DEF Good
<1>3. N \in T
  <2>1. 0 \in T
    BY <1>0, <1>1
  <2>2. \A n \in 1 .. N : n - 1 \in T => n \in T
    BY <1>0, <1>2
  <2> HIDE DEF T
  <2>3. \A n \in 0 .. N : n \in T
    BY <1>0, <2>1, <2>2, PrefixInduction
  <2>4. QED
    BY <1>0, <2>3
<1>4. PICK g \in [0 .. N -> Seq(S)] :
            g[0] = << >> /\ \A i \in 1 .. N : g[i] = g[i - 1] \o seqs[i]
  BY <1>3 DEF Good
<1>5. CASE N = 0
  <2>1. seqs = << >>
    BY <1>5, EmptySeq
  <2>2. FlattenSeq(seqs) = << >>
    BY <1>5, <2>1 DEF FlattenSeq
  <2>3. QED
    BY <1>4, <1>5, <2>2
<1>6. CASE N # 0
  <2> DEFINE Body(f) == [i \in 1 .. N |-> IF i = 1 THEN seqs[i] ELSE f[i - 1] \o seqs[i]]
             e == [i \in 1 .. N |-> g[i]]
  <2>1. e = Body(e)
    <3>1. ASSUME NEW i \in 1 .. N
          PROVE  g[i] = IF i = 1 THEN seqs[i] ELSE e[i - 1] \o seqs[i]
      <4>1. CASE i = 1
        <5>0. 1 \in 1 .. N /\ g[1 - 1] = << >>
          BY <1>4, <4>1
        <5>1. g[1] = << >> \o seqs[1] /\ seqs[1] \in Seq(S)
          <6>1. g[1] = g[1 - 1] \o seqs[1]
            BY <1>4, <5>0
          <6>2. QED
            BY <1>0, <5>0, <6>1
        <5>2. << >> \o seqs[1] = seqs[1]
          BY <5>1, ConcatEmptySeq
        <5>3. QED
          BY <4>1, <5>1, <5>2
      <4>2. CASE i # 1
        <5>1. i - 1 \in 1 .. N
          BY <1>0, <4>2
        <5>2. QED
          BY <1>4, <4>2, <5>1
      <4>3. QED
        BY <4>1, <4>2
    <3>2. QED
      BY <3>1
  <2> HIDE DEF e
  <2> DEFINE F == CHOOSE f : f = Body(f)
  <2>2. F = Body(F)
    <3> HIDE DEF Body
    <3>1. QED
      BY <2>1
  <2>3. FlattenSeq(seqs) = F[N]
    BY <1>6 DEF FlattenSeq
  <2> HIDE DEF F
  <2>4. \A i \in 1 .. N : F[i] = IF i = 1 THEN seqs[i] ELSE F[i - 1] \o seqs[i]
    BY <2>2
  <2> HIDE DEF Body
  <2> DEFINE U == {n \in 0 .. N : n = 0 \/ F[n] = g[n]}
  <2>5. ASSUME NEW n \in 1 .. N, n - 1 \in U
        PROVE  n \in U
    <3>1. F[n] = IF n = 1 THEN seqs[n] ELSE F[n - 1] \o seqs[n]
      BY <2>4
    <3>2. g[n] = g[n - 1] \o seqs[n] /\ seqs[n] \in Seq(S) /\ n \in 0 .. N
      <4>1. g[n] = g[n - 1] \o seqs[n]
        BY <1>4
      <4>2. QED
        BY <1>0, <4>1
    <3>3. CASE n = 1
      <4>1. << >> \o seqs[n] = seqs[n]
        BY <3>2, ConcatEmptySeq
      <4>2. g[n - 1] = << >>
        BY <1>4, <3>3
      <4>3. QED
        BY <3>1, <3>2, <3>3, <4>1, <4>2
    <3>4. CASE n # 1
      <4>1. n - 1 # 0 /\ F[n - 1] = g[n - 1]
        BY <2>5, <3>4
      <4>2. QED
        BY <3>1, <3>2, <3>4, <4>1
    <3>5. QED
      BY <3>3, <3>4
  <2>6. 0 \in U
    BY <1>0
  <2>7. \A n \in 0 .. N : n \in U
    <3> HIDE DEF U
    <3>1. QED
      BY <1>0, <2>5, <2>6, PrefixInduction
  <2>8. F[N] = g[N]
    BY <1>0, <1>6, <2>7
  <2>9. QED
    BY <1>4, <2>3, <2>8
<1>7. QED
  BY <1>5, <1>6

\* FlattenSeq of sequences with at most one element: the elements there are,
\* each from a place of its own.
Gathers(seqs, n, q, m) ==
    /\ m \in [1 .. Len(q) -> 1 .. n]
    /\ \A j \in 1 .. Len(q) : seqs[m[j]] = <<q[j]>>
    /\ \A i, j \in 1 .. Len(q) : m[i] = m[j] => i = j
    /\ \A i \in 1 .. n : seqs[i] # << >> => \E j \in 1 .. Len(q) : m[j] = i

\* FlattenSeq of sequences of at most one element keeps their elements in order.
LEMMA FlattenThin ==
    ASSUME NEW S, NEW seqs \in Seq(Seq(S)),
           \A i \in 1 .. Len(seqs) : seqs[i] = << >> \/ \E x \in S : seqs[i] = <<x>>
    PROVE  /\ FlattenSeq(seqs) \in Seq(S)
           /\ \E m : Gathers(seqs, Len(seqs), FlattenSeq(seqs), m)
<1> DEFINE N == Len(seqs)
<1>0. N \in Nat /\ \A i \in 1 .. N : seqs[i] = << >> \/ \E x \in S : seqs[i] = <<x>>
  OBVIOUS
<1>1. PICK g \in [0 .. N -> Seq(S)] :
          /\ g[0] = << >>
          /\ \A i \in 1 .. N : g[i] = g[i - 1] \o seqs[i]
          /\ FlattenSeq(seqs) = g[N]
  BY FlattenEquations
<1> HIDE DEF N
<1> DEFINE T == {n \in 0 .. N : \E m : Gathers(seqs, n, g[n], m)}
<1>2. 0 \in T
  <2> DEFINE m == [j \in 1 .. 0 |-> 0]
  <2>1. Len(g[0]) = 0 /\ g[0] = << >>
    BY <1>1
  <2>2. m \in [1 .. 0 -> 1 .. 0]
    OBVIOUS
  <2> HIDE DEF m
  <2>3. Gathers(seqs, 0, g[0], m)
    BY <2>1, <2>2 DEF Gathers
  <2>4. QED
    BY <1>0, <2>3
<1>3. ASSUME NEW n \in 1 .. N, n - 1 \in T
      PROVE  n \in T
  <2>1. PICK m : Gathers(seqs, n - 1, g[n - 1], m)
    BY <1>3
  <2> DEFINE p == g[n - 1]
             L == Len(p)
  <2>2. p \in Seq(S) /\ L \in Nat /\ g[n] = p \o seqs[n] /\ n \in 0 .. N /\ n \in Nat
    <3>1. p \in Seq(S) /\ n \in 0 .. N
      BY <1>0
    <3>2. g[n] = p \o seqs[n]
      BY <1>1
    <3>3. QED
      BY <3>1, <3>2
  <2> HIDE DEF p, L
  <2>3. /\ m \in [1 .. L -> 1 .. n - 1]
        /\ \A j \in 1 .. L : seqs[m[j]] = <<p[j]>>
        /\ \A i, j \in 1 .. L : m[i] = m[j] => i = j
        /\ \A i \in 1 .. n - 1 : seqs[i] # << >> => \E j \in 1 .. L : m[j] = i
    BY <2>1 DEF Gathers, p, L
  <2>4. CASE seqs[n] = << >>
    <3>1. g[n] = p
      BY <2>2, <2>4, ConcatEmptySeq
    <3>2. m \in [1 .. L -> 1 .. n]
      BY <2>2, <2>3
    <3>3. ASSUME NEW i \in 1 .. n, seqs[i] # << >>
          PROVE  \E j \in 1 .. L : m[j] = i
      <4>1. i \in 1 .. n - 1
        BY <2>2, <2>4, <3>3
      <4>2. QED
        BY <2>3, <3>3, <4>1
    <3>4. Gathers(seqs, n, g[n], m)
      BY <2>3, <3>1, <3>2, <3>3 DEF Gathers, L
    <3>5. QED
      BY <2>2, <3>4
  <2>5. ASSUME NEW x \in S, seqs[n] = <<x>>
        PROVE  n \in T
    <3> DEFINE q == g[n]
               r == [j \in 1 .. L + 1 |-> IF j <= L THEN m[j] ELSE n]
    <3>1. /\ Len(q) = L + 1
          /\ \A j \in 1 .. L : q[j] = p[j]
          /\ q[L + 1] = x
      <4>1. q = p \o <<x>> /\ <<x>> \in Seq(S) /\ Len(<<x>>) = 1 /\ <<x>>[1] = x
        BY <2>2, <2>5
      <4>2. QED
        BY <2>2, <4>1, ConcatProperties DEF L
    <3>2. r \in [1 .. L + 1 -> 1 .. n]
      BY <2>2, <2>3
    <3>3. /\ \A j \in 1 .. L : r[j] = m[j] /\ r[j] \in 1 .. n - 1 /\ j \in 1 .. L + 1
          /\ r[L + 1] = n /\ L + 1 \in 1 .. L + 1
          /\ \A j \in 1 .. L + 1 : j \in 1 .. L \/ j = L + 1
      BY <2>2, <2>3
    <3> HIDE DEF q, r
    <3>4. ASSUME NEW j \in 1 .. L + 1
          PROVE  seqs[r[j]] = <<q[j]>>
      <4>1. CASE j \in 1 .. L
        <5>1. seqs[m[j]] = <<p[j]>> /\ r[j] = m[j] /\ q[j] = p[j]
          BY <2>3, <3>1, <3>3, <4>1
        <5>2. QED
          BY <5>1
      <4>2. CASE j = L + 1
        <5>1. r[j] = n /\ q[j] = x
          BY <3>1, <3>3, <4>2
        <5>2. QED
          BY <2>5, <5>1
      <4>3. QED
        BY <3>3, <4>1, <4>2
    <3>5. ASSUME NEW i \in 1 .. L + 1, NEW j \in 1 .. L + 1, r[i] = r[j]
          PROVE  i = j
      <4>0. \A z \in 1 .. n - 1 : z # n
        BY <2>2
      <4>1. CASE i \in 1 .. L /\ j \in 1 .. L
        BY <2>3, <3>3, <3>5, <4>1
      <4>2. CASE i = L + 1 \/ j = L + 1
        BY <3>3, <3>5, <4>0, <4>2
      <4>3. QED
        BY <3>3, <4>1, <4>2
    <3>6. ASSUME NEW i \in 1 .. n, seqs[i] # << >>
          PROVE  \E j \in 1 .. L + 1 : r[j] = i
      <4>1. CASE i = n
        BY <3>3, <4>1
      <4>2. CASE i # n
        <5>1. i \in 1 .. n - 1
          BY <2>2, <4>2
        <5>2. PICK j \in 1 .. L : m[j] = i
          BY <2>3, <3>6, <5>1
        <5>3. QED
          BY <3>3, <5>2
      <4>3. QED
        BY <4>1, <4>2
    <3>7. Gathers(seqs, n, q, r)
      BY <3>1, <3>2, <3>4, <3>5, <3>6 DEF Gathers
    <3>8. QED
      BY <2>2, <3>7 DEF q
  <2>6. QED
    BY <1>0, <2>4, <2>5
<1>4. \A n \in 0 .. N : n \in T
  <2> HIDE DEF T
  <2>1. QED
    BY <1>0, <1>2, <1>3, PrefixInduction
<1>5. N \in T /\ g[N] \in Seq(S)
  BY <1>0, <1>1, <1>4
<1>6. QED
  BY <1>1, <1>5 DEF N

\* FlattenSeq of sequences of exactly one element.
LEMMA FlattenSingles ==
    ASSUME NEW S, NEW seqs \in Seq(Seq(S)),
           \A i \in 1 .. Len(seqs) : \E x \in S : seqs[i] = <<x>>
    PROVE  /\ FlattenSeq(seqs) \in Seq(S)
           /\ Len(FlattenSeq(seqs)) = Len(seqs)
           /\ \A i \in 1 .. Len(seqs) : seqs[i] = <<FlattenSeq(seqs)[i]>>
<1> DEFINE N == Len(seqs)
<1>0. N \in Nat /\ \A i \in 1 .. N : \E x \in S : seqs[i] = <<x>>
  <2>1. N \in Nat
    OBVIOUS
  <2>2. \A i \in 1 .. N : \E x \in S : seqs[i] = <<x>>
    BY Zenon
  <2>3. QED
    BY <2>1, <2>2, Zenon
<1>1. PICK g \in [0 .. N -> Seq(S)] :
          /\ g[0] = << >>
          /\ \A i \in 1 .. N : g[i] = g[i - 1] \o seqs[i]
          /\ FlattenSeq(seqs) = g[N]
  BY FlattenEquations
<1> HIDE DEF N
<1> DEFINE T == {n \in 0 .. N : Len(g[n]) = n /\ \A j \in 1 .. n : seqs[j] = <<g[n][j]>>}
<1>2. 0 \in T
  <2>1. Len(g[0]) = 0
    BY <1>1
  <2>2. QED
    BY <1>0, <2>1
<1>3. ASSUME NEW n \in 1 .. N, n - 1 \in T
      PROVE  n \in T
  <2>1. PICK x \in S : seqs[n] = <<x>>
    BY <1>0
  <2> DEFINE p == g[n - 1]
             q == g[n]
  <2>2. p \in Seq(S) /\ q = p \o seqs[n] /\ n \in 0 .. N /\ n \in Nat
    <3>1. p \in Seq(S) /\ n \in 0 .. N
      BY <1>0
    <3>2. q = p \o seqs[n]
      BY <1>1
    <3>3. QED
      BY <3>1, <3>2
  <2>3. Len(p) = n - 1 /\ \A j \in 1 .. n - 1 : seqs[j] = <<p[j]>>
    BY <1>3
  <2> HIDE DEF p
  <2>4. /\ Len(q) = n
        /\ \A j \in 1 .. n - 1 : q[j] = p[j]
        /\ q[n] = x
    <3> HIDE DEF q
    <3>1. q = p \o <<x>> /\ <<x>> \in Seq(S) /\ Len(<<x>>) = 1 /\ <<x>>[1] = x
      BY <2>1, <2>2
    <3>2. /\ Len(q) = Len(p) + 1
          /\ \A j \in 1 .. Len(p) : q[j] = p[j]
          /\ q[Len(p) + 1] = x
      BY <2>2, <3>1, ConcatProperties
    <3>3. Len(p) = n - 1 /\ (n - 1) + 1 = n
      BY <2>2, <2>3
    <3>4. QED
      BY <3>2, <3>3
  <2> HIDE DEF q
  <2>5. ASSUME NEW j \in 1 .. n
        PROVE  seqs[j] = <<q[j]>>
    <3>1. CASE j = n
      BY <2>1, <2>4, <3>1
    <3>2. CASE j # n
      <4>1. j \in 1 .. n - 1
        BY <2>2, <3>2
      <4>2. seqs[j] = <<p[j]>> /\ q[j] = p[j]
        BY <2>3, <2>4, <4>1
      <4>3. QED
        BY <4>2
    <3>3. QED
      BY <3>1, <3>2
  <2>6. QED
    BY <2>2, <2>4, <2>5 DEF q
<1>4. \A n \in 0 .. N : n \in T
  <2> HIDE DEF T
  <2>1. QED
    BY <1>0, <1>2, <1>3, PrefixInduction
<1>5. N \in T /\ g[N] \in Seq(S)
  BY <1>0, <1>1, <1>4
<1>6. QED
  BY <1>1, <1>5 DEF N

-----------------------------------------------------------------------------
(***************************************************************************)
(* The inductive invariant.  A queued event is reported from its own data  *)
(* and pending_events only as long as no deadline triggers it: timers have *)
(* keys of their own.  And a key is registered again only when nothing is  *)
(* reported under it.                                                      *)
(***************************************************************************)
Stamps == Udata \cup Nat
Mark == [data : Nat, udata : Stamps]
Event ==
    [key : Keys, kind : {"level", "edge", "queued", "timer"}, triggered : BOOLEAN,
     deadline : {"none", "running", "expired"}, data : Nat, udata : Stamps,
     pending : Seq(Mark)]

EqueueType ==
    /\ kinds \in Uses
    /\ closed \in BOOLEAN
    /\ events \in Seq(Event)
    /\ pc \in [Threads -> {"idle", "pinned", "asleep", "awake", "closing"}]
    /\ clock \in [Threads -> {"none", "running", "expired"}]
    /\ issued \in [Keys -> Nat]
    /\ reported \in [Keys -> Nat]

KeysDistinct == \A i, j \in DOMAIN events : events[i].key = events[j].key => i = j

\* An event as it can be registered under its key, with what it reported.
Sound(e, use, r) ==
    /\ e.kind \in use
    /\ e.kind = "timer" => e.data = 0 /\ r = 0
    /\ e.kind # "timer" => e.deadline = "none"
    /\ e.kind # "queued" => e.pending = << >>

\* One event of QueuedInOrder: r was reported last, n triggered last.
InOrder(e, r, n) ==
    /\ r + Len(Occurrences(e)) = n
    /\ \A j \in DOMAIN Occurrences(e) : Occurrences(e)[j].data = r + j
    /\ ~e.triggered => e.pending = << >>

\* What holds of each registered event.
Fine(e, use, r, n) == Sound(e, use, r) /\ (e.kind = "queued" => InOrder(e, r, n))

EventsFine ==
    \A i \in DOMAIN events :
        Fine(events[i], kinds[events[i].key], reported[events[i].key], issued[events[i].key])

AbsentUnreported == \A k \in Keys : ~Has(k) => reported[k] = 0

EqueueInv == EqueueType /\ KeysDistinct /\ EventsFine /\ AbsentUnreported

\* Occurrences as a sequence: the event's own first, then pending_events.
LEMMA OccurrencesFacts ==
    ASSUME NEW e \in Event
    PROVE  /\ Occurrences(e) \in Seq(Mark)
           /\ ~e.triggered => Occurrences(e) = << >>
           /\ e.triggered =>
                 /\ Len(Occurrences(e)) = 1 + Len(e.pending)
                 /\ Occurrences(e)[1] = [data |-> e.data, udata |-> e.udata]
                 /\ \A j \in 1 .. Len(e.pending) : Occurrences(e)[j + 1] = e.pending[j]
<1>1. e.data \in Nat /\ e.udata \in Stamps /\ e.pending \in Seq(Mark) /\ e.triggered \in BOOLEAN
  BY DEF Event
<1>2. CASE ~e.triggered
  BY <1>2, EmptySeq DEF Occurrences
<1>3. CASE e.triggered
  <2> DEFINE h == [data |-> e.data, udata |-> e.udata]
             one == <<h>>
  <2>1. h \in Mark
    BY <1>1 DEF Mark
  <2> HIDE DEF h
  <2>2. one \in Seq(Mark) /\ Len(one) = 1 /\ one[1] = h
    BY <2>1
  <2>3. Occurrences(e) = one \o e.pending
    BY <1>3 DEF Occurrences, h
  <2> HIDE DEF one
  <2>4. /\ one \o e.pending \in Seq(Mark)
        /\ Len(one \o e.pending) = 1 + Len(e.pending)
        /\ (one \o e.pending)[1] = h
        /\ \A j \in 1 .. Len(e.pending) : (one \o e.pending)[j + 1] = e.pending[j]
    <3>1. /\ one \o e.pending \in Seq(Mark)
          /\ Len(one \o e.pending) = Len(one) + Len(e.pending)
          /\ \A i \in 1 .. Len(one) + Len(e.pending) : (one \o e.pending)[i] =
                 IF i <= Len(one) THEN one[i] ELSE e.pending[i - Len(one)]
      BY <1>1, <2>2, ConcatProperties
    <3>2. Len(e.pending) \in Nat
      BY <1>1
    <3> DEFINE c == one \o e.pending
               p == e.pending
    <3> HIDE DEF c, p
    <3>3. \A i \in 1 .. 1 + Len(p) : c[i] = IF i <= 1 THEN one[i] ELSE p[i - 1]
      BY <2>2, <3>1 DEF c, p
    <3>4. c[1] = h /\ \A j \in 1 .. Len(p) : c[j + 1] = p[j]
      <4>1. 1 \in 1 .. 1 + Len(p)
        BY <3>2 DEF p
      <4>2. ASSUME NEW j \in 1 .. Len(p) PROVE c[j + 1] = p[j]
        <5>1. j + 1 \in 1 .. 1 + Len(p) /\ ~(j + 1 <= 1) /\ (j + 1) - 1 = j
          BY <3>2 DEF p
        <5>2. QED
          BY <3>3, <5>1
      <4>3. QED
        BY <2>2, <3>3, <4>1, <4>2
    <3>5. QED
      BY <2>2, <3>1, <3>4 DEF c, p
  <2>5. QED
    BY <1>3, <2>3, <2>4 DEF h
<1>4. QED
  BY <1>1, <1>2, <1>3

\* What GetTriggeredEvents does with a triggered edge or queued event: it
\* reports some occurrences, the others stay in their order.
Taken(e, f, o) ==
    /\ o # << >>
    /\ f.key = e.key /\ f.kind = e.kind /\ f.deadline = e.deadline
    /\ e.pending = << >> => f.pending = << >>
    /\ Len(Occurrences(f)) < Len(Occurrences(e))
    /\ \A r \in Nat, n \in Nat : InOrder(e, r, n) => InOrder(f, Last(o), n)

\* Collect does that to a triggered edge or queued event while there is room.
LEMMA CollectTakes ==
    ASSUME NEW e \in Event, e.triggered, e.kind \in {"edge", "queued"}, NEW room \in Nat \ {0}
    PROVE  \E f \in Event, o \in Seq(Nat) :
              Collect(e, room) = [out |-> o, left |-> <<f>>] /\ Taken(e, f, o)
<1> DEFINE all == Occurrences(e)
           L == Len(all)
           n == IF room < L THEN room ELSE L
           rest == SubSeq(all, n + 1, L)
           o == [i \in 1 .. n |-> all[i].data]
           last == [e EXCEPT !.triggered = FALSE, !.data = 0,
                             !.udata = all[n].udata, !.pending = << >>]
           next == [e EXCEPT !.data = rest[1].data, !.udata = rest[1].udata,
                             !.pending = Tail(rest)]
<1>0. /\ e.kind \in {"edge", "queued"} /\ e.triggered /\ e.pending \in Seq(Mark)
      /\ Len(e.pending) \in Nat
  BY DEF Event
<1>1. /\ all \in Seq(Mark) /\ L = 1 + Len(e.pending) /\ L \in Nat \ {0}
      /\ \A i \in 1 .. L : all[i] \in Mark /\ all[i].data \in Nat /\ all[i].udata \in Stamps
  <2>1. all \in Seq(Mark) /\ L = 1 + Len(e.pending)
    BY <1>0, OccurrencesFacts
  <2> HIDE DEF all
  <2>2. \A i \in 1 .. L : all[i] \in Mark
    BY <2>1
  <2>3. QED
    BY <1>0, <2>1, <2>2 DEF Mark
<1>2. n \in 1 .. L
  <2> HIDE DEF all, L
  <2>1. QED
    BY <1>1
<1>3. Collect(e, room) =
        [out |-> o, left |-> IF rest = << >> THEN <<last>> ELSE <<next>>]
  BY <1>0 DEF Collect
<1> HIDE DEF all, n
<1>4. /\ rest \in Seq(Mark) /\ Len(rest) = L - n
      /\ \A j \in 1 .. L - n : rest[j] = all[n + j]
  <2> HIDE DEF L, rest
  <2>0. n + 1 \in Nat /\ L \in Nat /\ n + 1 \in 1 .. L + 1
    BY <1>1, <1>2
  <2>1. /\ \A i \in (n + 1) .. L : i \in 1 .. L
    BY <1>1, <1>2
  <2>2. /\ rest \in Seq(Mark)
        /\ Len(rest) = IF n + 1 <= L THEN L - (n + 1) + 1 ELSE 0
        /\ \A j \in 1 .. L - (n + 1) + 1 : rest[j] = all[(n + 1) + j - 1]
    BY <1>1, <2>0, <2>1, SubSeqProperties DEF rest, L
  <2>3. /\ L - (n + 1) + 1 = L - n
        /\ \A j \in 1 .. L - n : (n + 1) + j - 1 = n + j
        /\ n + 1 <= L \/ L - n = 0
    BY <1>1, <1>2
  <2>4. QED
    BY <2>2, <2>3
<1>5. o \in Seq(Nat) /\ Len(o) = n /\ Last(o) = all[n].data /\ o # << >>
  <2>1. n \in Nat /\ n \in 1 .. n /\ \A i \in 1 .. n : i \in 1 .. L
    BY <1>1, <1>2
  <2>2. o \in [1 .. n -> Nat] /\ o[n] = all[n].data
    BY <1>1, <2>1
  <2> HIDE DEF o
  <2>3. o \in Seq(Nat)
    BY <2>1, <2>2, SeqDef
  <2>4. Len(o) = n
    BY <2>1, <2>2, <2>3, LenProperties
  <2>5. QED
    BY <2>1, <2>2, <2>3, <2>4, EmptySeq DEF Last
<1> HIDE DEF L, o
<1>6. CASE rest = << >>
  <2>1. L = n
    <3> HIDE DEF rest
    <3>1. Len(rest) = 0
      BY <1>6
    <3>2. QED
      BY <1>1, <1>2, <1>4, <3>1
  <2>2. /\ last \in Event /\ ~last.triggered /\ last.pending = << >>
        /\ last.key = e.key /\ last.kind = e.kind /\ last.deadline = e.deadline
    <3>1. all[n].udata \in Stamps
      BY <1>1, <1>2
    <3>2. << >> \in Seq(Mark)
      BY EmptySeq
    <3>3. QED
      BY <3>1, <3>2 DEF Event
  <2> HIDE DEF last
  <2>3. Occurrences(last) = << >> /\ Len(Occurrences(last)) = 0
    <3>1. Occurrences(last) = << >>
      BY <2>2, OccurrencesFacts
    <3>2. QED
      BY <3>1
  <2>4. ASSUME NEW r \in Nat, NEW m \in Nat, InOrder(e, r, m)
        PROVE  InOrder(last, Last(o), m)
    <3>1. r + L = m /\ \A j \in DOMAIN all : all[j].data = r + j
      BY <2>4 DEF InOrder, L, all
    <3>2. n \in DOMAIN all
      BY <1>1, <1>2 DEF L
    <3>3. Last(o) = m
      BY <1>5, <2>1, <3>1, <3>2
    <3>4. DOMAIN Occurrences(last) = {}
      BY <2>3
    <3>5. QED
      BY <2>2, <2>3, <3>3, <3>4 DEF InOrder
  <2>5. 0 < Len(Occurrences(e))
    BY <1>1 DEF L, all
  <2>6. Taken(e, last, o)
    BY <1>5, <2>2, <2>3, <2>4, <2>5 DEF Taken
  <2>7. Collect(e, room) = [out |-> o, left |-> <<last>>]
    BY <1>3, <1>6
  <2>8. QED
    BY <1>5, <2>2, <2>6, <2>7
<1>7. CASE rest # << >>
  <2>1. Len(rest) \in Nat \ {0} /\ Len(rest) = L - n /\ 1 \in 1 .. L - n
    <3>1. Len(rest) # 0
      BY <1>4, <1>7, EmptySeq
    <3>2. QED
      BY <1>1, <1>2, <1>4, <3>1
  <2>2. /\ rest[1] \in Mark /\ rest[1].data \in Nat /\ rest[1].udata \in Stamps
    <3>1. rest[1] \in Mark
      BY <1>4, <2>1
    <3>2. QED
      BY <3>1 DEF Mark
  <2> DEFINE tail == Tail(rest)
  <2>3. /\ tail \in Seq(Mark) /\ Len(tail) = Len(rest) - 1
        /\ \A j \in 1 .. Len(rest) - 1 : tail[j] = rest[j + 1]
    BY <1>4, <1>7, HeadTailProperties
  <2>4. /\ next \in Event /\ next.triggered /\ next.pending = tail
        /\ next.data = rest[1].data /\ next.udata = rest[1].udata
        /\ next.key = e.key /\ next.kind = e.kind /\ next.deadline = e.deadline
    <3> HIDE DEF rest
    <3>1. QED
      BY <1>0, <2>2, <2>3 DEF Event
  <2> HIDE DEF rest, tail, next
  <2> DEFINE occ == Occurrences(next)
  <2>5. Len(occ) = 1 + Len(tail) /\ occ \in Seq(Mark)
    BY <2>4, OccurrencesFacts
  <2>6. ASSUME NEW j \in 1 .. L - n
        PROVE  occ[j].data = all[n + j].data
    <3>0. rest[j] = all[n + j]
      BY <1>4
    <3>1. CASE j = 1
      <4>1. occ[1] = [data |-> next.data, udata |-> next.udata]
        BY <2>4, OccurrencesFacts
      <4>2. QED
        BY <2>4, <3>0, <3>1, <4>1
    <3>2. CASE j # 1
      <4>1. j - 1 \in 1 .. Len(tail) /\ j - 1 \in 1 .. Len(rest) - 1 /\ (j - 1) + 1 = j
        BY <1>1, <1>2, <2>1, <2>3, <3>2
      <4>2. occ[(j - 1) + 1] = tail[j - 1]
        BY <2>4, <4>1, OccurrencesFacts
      <4>3. tail[j - 1] = rest[(j - 1) + 1]
        BY <2>3, <4>1
      <4>4. QED
        BY <3>0, <4>1, <4>2, <4>3
    <3>3. QED
      BY <3>1, <3>2
  <2>7. Len(occ) = L - n
    BY <1>1, <1>2, <2>1, <2>3, <2>5
  <2>8. ASSUME NEW r \in Nat, NEW m \in Nat, InOrder(e, r, m)
        PROVE  InOrder(next, Last(o), m)
    <3>1. r + L = m /\ \A j \in DOMAIN all : all[j].data = r + j
      BY <2>8 DEF InOrder, L, all
    <3>2. n \in DOMAIN all /\ \A j \in 1 .. L - n : n + j \in DOMAIN all
      BY <1>1, <1>2 DEF L
    <3>3. Last(o) = r + n
      BY <1>5, <3>1, <3>2
    <3>4. (r + n) + Len(occ) = m
      <4>1. L \in Nat /\ n \in Nat
        BY <1>1, <1>2
      <4>2. (r + n) + (L - n) = r + L
        BY <4>1
      <4>3. QED
        BY <2>7, <3>1, <4>2
    <3>5. ASSUME NEW j \in DOMAIN occ
          PROVE  occ[j].data = (r + n) + j
      <4>1. j \in 1 .. L - n /\ j \in Nat /\ n \in Nat
        BY <1>1, <1>2, <2>5, <2>7
      <4>2. occ[j].data = r + (n + j)
        BY <2>6, <3>1, <3>2, <4>1
      <4>3. QED
        BY <4>1, <4>2
    <3>6. QED
      BY <2>4, <3>3, <3>4, <3>5 DEF InOrder
  <2>9. Len(occ) < Len(Occurrences(e))
    BY <1>1, <1>2, <2>7 DEF L, all
  <2>10. e.pending # << >>
    <3>1. L # 1
      BY <1>1, <1>2, <2>1
    <3>2. QED
      BY <1>0, <1>1, <3>1
  <2>11. Taken(e, next, o)
    BY <1>5, <2>4, <2>8, <2>9, <2>10 DEF Taken
  <2>12. Collect(e, room) = [out |-> o, left |-> <<next>>]
    BY <1>3, <1>7 DEF next, rest
  <2>13. QED
    BY <1>5, <2>4, <2>11, <2>12
<1>8. QED
  BY <1>6, <1>7

\* What the event under a key has reported after a walk that took o from it.
Reports(o, r) == IF o = << >> THEN r ELSE Last(o)

\* The walk keeps what holds of an event, and erases expired timers only.
LEMMA CollectKeeps ==
    ASSUME NEW e \in Event, NEW room \in Nat, NEW use, NEW r \in Nat, NEW n \in Nat,
           Fine(e, use, r, n)
    PROVE  /\ Reports(Collect(e, room).out, r) \in Nat
           /\ \/ /\ Collect(e, room).left = << >> /\ Reports(Collect(e, room).out, r) = 0
                 /\ e.kind = "timer"
              \/ \E f \in Event :
                    /\ Collect(e, room).left = <<f>> /\ f.key = e.key
                    /\ Fine(f, use, Reports(Collect(e, room).out, r), n)
                    /\ e.kind \in {"edge", "queued"} =>
                          /\ Len(Occurrences(f)) <= Len(Occurrences(e))
                          /\ room # 0 /\ e.triggered =>
                                Len(Occurrences(f)) < Len(Occurrences(e))
<1>0. /\ e.data \in Nat /\ e.triggered \in BOOLEAN
      /\ e.kind \in {"level", "edge", "queued", "timer"}
      /\ Len(Occurrences(e)) \in Nat
  <2>1. Occurrences(e) \in Seq(Mark)
    BY OccurrencesFacts
  <2>2. Len(Occurrences(e)) \in Nat
    BY <2>1
  <2>3. QED
    BY <2>2 DEF Event
<1>1. CASE room = 0 \/ ~e.triggered
  <2>1. Collect(e, room).out = << >> /\ Collect(e, room).left = <<e>>
    BY <1>1 DEF Collect
  <2>2. Reports(Collect(e, room).out, r) = r
    BY <2>1 DEF Reports
  <2>3. QED
    BY <1>0, <1>1, <2>1, <2>2
<1>2. CASE room # 0 /\ e.triggered /\ e.kind = "timer"
  <2>1. Collect(e, room).out = <<e.data>> /\ Collect(e, room).left = << >>
    BY <1>2 DEF Collect
  <2>2. e.data = 0
    BY <1>2 DEF Fine, Sound
  <2>3. Reports(<<e.data>>, r) = 0
    BY <2>2 DEF Reports, Last
  <2>4. QED
    BY <1>2, <2>1, <2>3
<1>3. CASE room # 0 /\ e.triggered /\ e.kind = "level"
  <2> DEFINE o == [i \in 1 .. room |-> e.data]
  <2>1. Collect(e, room).out = o /\ Collect(e, room).left = <<e>>
    BY <1>3 DEF Collect
  <2>2. o \in Seq(Nat) /\ Len(o) = room /\ o[room] = e.data
    <3>1. o \in [1 .. room -> Nat] /\ room \in 1 .. room /\ o[room] = e.data
      BY <1>0, <1>3
    <3> HIDE DEF o
    <3>2. o \in Seq(Nat)
      BY <3>1, SeqDef
    <3>3. QED
      BY <3>1, <3>2, LenProperties
  <2> HIDE DEF o
  <2>3. o # << >>
    BY <1>3, <2>2, EmptySeq
  <2>4. Reports(o, r) = e.data
    BY <2>2, <2>3 DEF Reports, Last
  <2>5. Fine(e, use, e.data, n)
    BY <1>3 DEF Fine, Sound
  <2>6. QED
    BY <1>0, <1>3, <2>1, <2>4, <2>5
<1>4. CASE room # 0 /\ e.triggered /\ e.kind \in {"edge", "queued"}
  <2>1. PICK f \in Event, o \in Seq(Nat) :
            Collect(e, room) = [out |-> o, left |-> <<f>>] /\ Taken(e, f, o)
    BY <1>4, CollectTakes
  <2>2. Collect(e, room).out = o /\ Collect(e, room).left = <<f>>
    BY <2>1
  <2>3. Reports(o, r) = Last(o) /\ Last(o) \in Nat
    <3>1. o # << >>
      BY <2>1 DEF Taken
    <3>2. Len(o) \in 1 .. Len(o)
      BY <3>1, EmptySeq
    <3>3. QED
      BY <3>1, <3>2 DEF Reports, Last
  <2>4. /\ f.key = e.key /\ f.kind = e.kind /\ f.deadline = e.deadline
        /\ e.pending = << >> => f.pending = << >>
        /\ Len(Occurrences(f)) < Len(Occurrences(e))
        /\ InOrder(e, r, n) => InOrder(f, Last(o), n)
    BY <2>1 DEF Taken
  <2>5. Fine(f, use, Last(o), n)
    BY <1>4, <2>4 DEF Fine, Sound
  <2>6. Len(Occurrences(f)) <= Len(Occurrences(e))
    <3>1. Occurrences(f) \in Seq(Mark)
      BY OccurrencesFacts
    <3>2. Len(Occurrences(f)) \in Nat
      BY <3>1
    <3>3. QED
      BY <1>0, <2>4, <3>2
  <2>7. QED
    BY <2>2, <2>3, <2>4, <2>5, <2>6
<1>5. QED
  BY <1>0, <1>1, <1>2, <1>3, <1>4

\* TriggerExpiredTimers changes timers only.
LEMMA ExpiredFacts ==
    ASSUME EqueueInv
    PROVE  LET es == TriggerExpiredTimers(events)
           IN  /\ es \in Seq(Event) /\ Len(es) = Len(events) /\ Len(events) \in Nat
               /\ DOMAIN es = 1 .. Len(events) /\ DOMAIN events = 1 .. Len(events)
               /\ \A i \in 1 .. Len(events) :
                     /\ events[i] \in Event
                     /\ es[i].key = events[i].key /\ es[i].kind = events[i].kind
                     /\ es[i].kind # "timer" => es[i] = events[i]
                     /\ Fine(es[i], kinds[es[i].key], reported[es[i].key], issued[es[i].key])
<1> DEFINE N == Len(events)
           es == TriggerExpiredTimers(events)
<1>1. N \in Nat /\ DOMAIN events = 1 .. N /\ \A i \in 1 .. N : events[i] \in Event
  BY DEF EqueueInv, EqueueType
<1>2. /\ es = [i \in 1 .. N |-> [events[i] EXCEPT !.triggered = @ \/ events[i].deadline = "expired"]]
  BY <1>1 DEF TriggerExpiredTimers
<1>3. ASSUME NEW i \in 1 .. N
      PROVE  /\ es[i] \in Event
             /\ es[i].key = events[i].key /\ es[i].kind = events[i].kind
             /\ es[i].kind # "timer" => es[i] = events[i]
             /\ Fine(es[i], kinds[es[i].key], reported[es[i].key], issued[es[i].key])
  <2> DEFINE e == events[i]
             f == es[i]
  <2>1. f = [e EXCEPT !.triggered = @ \/ e.deadline = "expired"] /\ e \in Event
    BY <1>1, <1>2
  <2>2. Fine(e, kinds[e.key], reported[e.key], issued[e.key])
    BY <1>1 DEF EqueueInv, EventsFine
  <2> HIDE DEF e, f
  <2>3. /\ f \in Event /\ f.key = e.key /\ f.kind = e.kind /\ f.data = e.data
        /\ f.deadline = e.deadline /\ f.pending = e.pending
    BY <2>1 DEF Event
  <2>4. CASE e.kind # "timer"
    <3>1. e.deadline = "none"
      BY <2>2, <2>4 DEF Fine, Sound
    <3>2. f = e
      BY <2>1, <3>1 DEF Event
    <3>3. QED
      BY <2>2, <2>3, <3>2 DEF e, f
  <2>5. CASE e.kind = "timer"
    <3>1. Fine(f, kinds[e.key], reported[e.key], issued[e.key])
      BY <2>2, <2>3, <2>5 DEF Fine, Sound
    <3>2. QED
      BY <2>3, <2>5, <3>1 DEF e, f
  <2>6. QED
    BY <2>4, <2>5
<1>4. es \in Seq(Event) /\ Len(es) = N /\ DOMAIN es = 1 .. N
  <2>1. DOMAIN es = 1 .. N
    BY <1>2
  <2>2. es \in [1 .. N -> Event]
    BY <1>2, <1>3
  <2> HIDE DEF es, N
  <2>3. es \in Seq(Event)
    BY <1>1, <2>2, SeqDef
  <2>4. QED
    BY <1>1, <2>1, <2>2, <2>3, LenProperties
<1> HIDE DEF es
<1>5. QED
  BY <1>1, <1>3, <1>4 DEF es

\* The room left is a number, and all of it is left for the first triggered event.
LEMMA RoomFacts ==
    ASSUME NEW es \in Seq(Event), NEW n \in Nat \ {0}, NEW i \in 1 .. Len(es)
    PROVE  /\ Room(es, n, i) \in Nat
           /\ (\A j \in 1 .. i - 1 : ~es[j].triggered) => Room(es, n, i) = n
<1> DEFINE N == Len(es)
           v == [j \in DOMAIN es |-> Offers(es[j], n)]
<1>1. N \in Nat /\ DOMAIN es = 1 .. N /\ i \in 1 .. N /\ \A j \in 1 .. N : es[j] \in Event
  OBVIOUS
<1>2. ASSUME NEW j \in 1 .. N
      PROVE  Offers(es[j], n) \in Int
  <2>1. Occurrences(es[j]) \in Seq(Mark)
    BY <1>1, OccurrencesFacts
  <2>2. Len(Occurrences(es[j])) \in Int
    BY <2>1
  <2>3. QED
    BY <2>2 DEF Offers
<1>3. v \in [1 .. N -> Int] /\ \A j \in 1 .. N : v[j] = Offers(es[j], n)
  BY <1>1, <1>2
<1>4. Room(es, n, i) = Max({0, n - Sums(v)[i - 1]})
  BY DEF Room
<1> HIDE DEF N, v
<1>5. v \in Seq(Int)
  BY <1>1, <1>3, SeqDef
<1>6. Len(v) = N
  BY <1>1, <1>3, <1>5, LenProperties
<1>7. i - 1 \in 0 .. Len(v)
  BY <1>1, <1>6
<1>8. Sums(v)[i - 1] \in Int
  BY <1>5, <1>7, SumsEquations
<1> DEFINE x == n - Sums(v)[i - 1]
<1>9. x \in Int
  BY <1>8
<1>10. Room(es, n, i) = IF x > 0 THEN x ELSE 0
  <2> HIDE DEF x
  <2>1. Max({0, x}) = IF x > 0 THEN x ELSE 0
    BY <1>9, MaxWithZero
  <2>2. QED
    BY <1>4, <2>1 DEF x
<1>11. ASSUME \A j \in 1 .. i - 1 : ~es[j].triggered
       PROVE  x = n
  <2>1. ASSUME NEW j \in 1 .. i - 1
        PROVE  v[j] = 0
    <3>1. j \in 1 .. N /\ ~es[j].triggered
      BY <1>1, <1>11
    <3>2. v[j] = Offers(es[j], n)
      BY <1>3, <3>1
    <3>3. QED
      BY <3>1, <3>2 DEF Offers
  <2>2. Sums(v)[i - 1] = 0
    BY <1>5, <1>7, <2>1, SumsZero
  <2>3. QED
    BY <2>2
<1> HIDE DEF x
<1>12. Room(es, n, i) \in Nat
  BY <1>9, <1>10
<1>13. ASSUME \A j \in 1 .. i - 1 : ~es[j].triggered
       PROVE  Room(es, n, i) = n
  <2>1. x = n
    BY <1>11, <1>13
  <2>2. QED
    BY <1>10, <2>1
<1>14. QED
  BY <1>12, <1>13

\* What the walk takes from event i when the array has n entries.
Got(n, i) ==
    Collect(TriggerExpiredTimers(events)[i], Room(TriggerExpiredTimers(events), n, i))

\* What each event turns into, and what the walk remembers of it.
LEMMA HarvestParts ==
    ASSUME EqueueInv, NEW n \in Nums
    PROVE  LET seqs == [i \in 1 .. Len(events) |-> Got(n, i).left]
           IN  /\ seqs \in Seq(Seq(Event)) /\ Len(seqs) = Len(events)
               /\ Harvest(n).left = FlattenSeq(seqs)
               /\ Harvest(n).last \in [Keys -> Nat]
               /\ \A k \in Keys : ~Has(k) => Harvest(n).last[k] = 0
               /\ \A i \in 1 .. Len(events) :
                     LET e == TriggerExpiredTimers(events)[i]
                         r == Harvest(n).last[events[i].key]
                     IN  \/ seqs[i] = << >> /\ r = 0 /\ e.kind = "timer"
                         \/ \E f \in Event :
                               /\ seqs[i] = <<f>> /\ f.key = events[i].key
                               /\ Fine(f, kinds[f.key], r, issued[f.key])
                               /\ e.kind \in {"edge", "queued"} =>
                                     /\ Len(Occurrences(f)) <= Len(Occurrences(e))
                                     /\ (/\ Room(TriggerExpiredTimers(events), n, i) # 0
                                         /\ e.triggered)
                                        => Len(Occurrences(f)) < Len(Occurrences(e))
<1> DEFINE N == Len(events)
           es == TriggerExpiredTimers(events)
           room(i) == Room(es, n, i)
           got == [i \in DOMAIN es |-> Collect(es[i], Room(es, n, i))]
           from(k) == {i \in DOMAIN es : es[i].key = k /\ got[i].out # << >>}
           last == [k \in Keys |-> IF from(k) = {} THEN reported[k]
                                   ELSE Last(got[CHOOSE i \in from(k) : TRUE].out)]
           seqs == [i \in 1 .. N |-> Got(n, i).left]
<1>1. /\ es \in Seq(Event) /\ Len(es) = N /\ N \in Nat
      /\ DOMAIN es = 1 .. N /\ DOMAIN events = 1 .. N
      /\ \A i \in 1 .. N :
            /\ es[i].key = events[i].key
            /\ Fine(es[i], kinds[es[i].key], reported[es[i].key], issued[es[i].key])
  BY ExpiredFacts
<1>2. n \in Nat \ {0}
  BY EqueueAssumption
<1>3. /\ reported \in [Keys -> Nat] /\ issued \in [Keys -> Nat]
      /\ KeysDistinct /\ AbsentUnreported /\ EventsFine
  BY DEF EqueueInv, EqueueType
<1>4. Harvest(n).left = FlattenSeq([i \in DOMAIN es |-> got[i].left]) /\ Harvest(n).last = last
  BY DEF Harvest
<1>5. \A i \in 1 .. N : got[i] = Got(n, i)
  BY <1>1 DEF Got
<1>6. Harvest(n).left = FlattenSeq(seqs)
  <2>1. [i \in DOMAIN es |-> got[i].left] = seqs
    <3> HIDE DEF got, es
    <3>1. QED
      BY <1>1, <1>5
  <2>2. QED
    BY <1>4, <2>1
<1> HIDE DEF es, got
<1>7. ASSUME NEW i \in 1 .. N
      PROVE  last[es[i].key] = Reports(got[i].out, reported[es[i].key]) /\ es[i].key \in Keys
  <2> DEFINE k == es[i].key
  <2>1. k \in Keys
    <3>1. es[i] \in Event
      BY <1>1
    <3>2. QED
      BY <3>1 DEF Event
  <2>2. ASSUME NEW j \in from(k) PROVE j = i
    <3>1. j \in 1 .. N /\ es[j].key = es[i].key
      BY <1>1
    <3>2. events[j].key = events[i].key
      BY <1>1, <3>1
    <3>3. QED
      BY <1>1, <1>3, <3>1, <3>2 DEF KeysDistinct
  <2>3. last[k] = IF from(k) = {} THEN reported[k]
                  ELSE Last(got[CHOOSE j \in from(k) : TRUE].out)
    BY <2>1
  <2>4. CASE got[i].out = << >>
    <3>1. from(k) = {}
      <4>1. ASSUME NEW j \in from(k) PROVE FALSE
        <5>1. j = i /\ got[j].out # << >>
          BY <2>2
        <5>2. QED
          BY <2>4, <5>1
      <4>2. QED
        BY <4>1
    <3>2. QED
      BY <2>1, <2>3, <2>4, <3>1 DEF Reports
  <2>5. CASE got[i].out # << >>
    <3>1. i \in from(k)
      BY <1>1, <2>5
    <3>2. (CHOOSE j \in from(k) : TRUE) \in from(k)
      BY <3>1
    <3>3. (CHOOSE j \in from(k) : TRUE) = i
      BY <2>2, <3>2
    <3> HIDE DEF last, from, k
    <3>4. last[k] = Last(got[i].out)
      BY <2>3, <3>1, <3>3
    <3>5. last[k] = Reports(got[i].out, reported[k])
      BY <2>5, <3>4 DEF Reports
    <3>6. QED
      BY <2>1, <3>5 DEF k
  <2>6. QED
    BY <2>1, <2>4, <2>5
<1>8. ASSUME NEW k \in Keys, ~Has(k)
      PROVE  last[k] = 0
  <2>1. from(k) = {}
    <3>1. ASSUME NEW i \in from(k) PROVE FALSE
      <4>1. i \in 1 .. N /\ es[i].key = k
        BY <1>1
      <4>2. i \in DOMAIN events /\ events[i].key = k
        BY <1>1, <4>1
      <4>3. QED
        BY <1>8, <4>2 DEF Has
    <3>2. QED
      BY <3>1
  <2>2. last[k] = reported[k]
    BY <2>1
  <2>3. QED
    BY <1>3, <1>8, <2>2 DEF AbsentUnreported
<1> HIDE DEF last
<1>9. ASSUME NEW i \in 1 .. N
      PROVE  /\ last[events[i].key] \in Nat
             /\ \/ seqs[i] = << >> /\ last[events[i].key] = 0 /\ es[i].kind = "timer"
                \/ \E f \in Event :
                      /\ seqs[i] = <<f>> /\ f.key = events[i].key
                      /\ Fine(f, kinds[f.key], last[events[i].key], issued[f.key])
                      /\ es[i].kind \in {"edge", "queued"} =>
                            /\ Len(Occurrences(f)) <= Len(Occurrences(es[i]))
                            /\ (Room(es, n, i) # 0 /\ es[i].triggered) =>
                                  Len(Occurrences(f)) < Len(Occurrences(es[i]))
  <2> DEFINE e == es[i]
             k == e.key
             g == Collect(e, Room(es, n, i))
             r == Reports(g.out, reported[k])
  <2>1. e \in Event /\ k \in Keys /\ k = events[i].key /\ Room(es, n, i) \in Nat
    <3>1. e \in Event /\ k = events[i].key
      BY <1>1
    <3>2. i \in 1 .. Len(es)
      BY <1>1
    <3>3. Room(es, n, i) \in Nat
      BY <1>1, <1>2, <3>2, RoomFacts
    <3>4. QED
      BY <1>7, <3>1, <3>3
  <2>2. got[i] = g /\ seqs[i] = g.left
    <3>1. g = Got(n, i)
      BY DEF Got, es
    <3>2. QED
      BY <1>5, <3>1
  <2>3. last[k] = r
    BY <1>7, <2>2
  <2>4. reported[k] \in Nat /\ issued[k] \in Nat
        /\ Fine(e, kinds[k], reported[k], issued[k])
    BY <1>1, <1>3, <2>1
  <2> HIDE DEF seqs, g, k
  <2>5. /\ r \in Nat
        /\ \/ g.left = << >> /\ r = 0 /\ e.kind = "timer"
           \/ \E f \in Event :
                 /\ g.left = <<f>> /\ f.key = e.key
                 /\ Fine(f, kinds[k], r, issued[k])
                 /\ e.kind \in {"edge", "queued"} =>
                       /\ Len(Occurrences(f)) <= Len(Occurrences(e))
                       /\ Room(es, n, i) # 0 /\ e.triggered =>
                             Len(Occurrences(f)) < Len(Occurrences(e))
    BY <2>1, <2>4, CollectKeeps DEF g
  <2> HIDE DEF r, e
  <2>6. CASE g.left = << >> /\ r = 0 /\ e.kind = "timer"
    BY <2>1, <2>2, <2>3, <2>5, <2>6 DEF e
  <2>7. ASSUME NEW f \in Event,
               /\ g.left = <<f>> /\ f.key = e.key
               /\ Fine(f, kinds[k], r, issued[k])
               /\ e.kind \in {"edge", "queued"} =>
                     /\ Len(Occurrences(f)) <= Len(Occurrences(e))
                     /\ Room(es, n, i) # 0 /\ e.triggered =>
                           Len(Occurrences(f)) < Len(Occurrences(e))
        PROVE  /\ seqs[i] = <<f>> /\ f.key = events[i].key
               /\ Fine(f, kinds[f.key], last[events[i].key], issued[f.key])
               /\ es[i].kind \in {"edge", "queued"} =>
                     /\ Len(Occurrences(f)) <= Len(Occurrences(es[i]))
                     /\ Room(es, n, i) # 0 /\ es[i].triggered =>
                           Len(Occurrences(f)) < Len(Occurrences(es[i]))
    BY <2>1, <2>2, <2>3, <2>7 DEF e, k
  <2>8. last[events[i].key] \in Nat
    BY <2>1, <2>3, <2>5
  <2>9. QED
    BY <2>5, <2>6, <2>7, <2>8
<1>10. seqs \in Seq(Seq(Event)) /\ Len(seqs) = N
  <2>1. ASSUME NEW i \in 1 .. N PROVE seqs[i] \in Seq(Event)
    <3> HIDE DEF seqs
    <3>1. CASE seqs[i] = << >>
      BY <3>1, EmptySeq
    <3>2. ASSUME NEW f \in Event, seqs[i] = <<f>> PROVE seqs[i] \in Seq(Event)
      <4>1. <<f>> \in Seq(Event)
        OBVIOUS
      <4>2. QED
        BY <3>2, <4>1
    <3>3. seqs[i] = << >> \/ \E f \in Event : seqs[i] = <<f>>
      BY <1>9
    <3>4. QED
      BY <3>1, <3>2, <3>3, Zenon
  <2>2. seqs = [i \in 1 .. N |-> seqs[i]]
    OBVIOUS
  <2> HIDE DEF seqs
  <2>3. seqs \in [1 .. N -> Seq(Event)]
    BY <2>1, <2>2
  <2>4. seqs \in Seq(Seq(Event))
    BY <1>1, <2>3, SeqDef
  <2>5. QED
    BY <1>1, <2>3, <2>4, LenProperties
<1>11. last \in [Keys -> Nat]
  <2>1. ASSUME NEW k \in Keys PROVE last[k] \in Nat
    <3>1. CASE Has(k)
      <4>1. PICK i \in 1 .. N : events[i].key = k
        BY <1>1, <3>1 DEF Has
      <4>2. QED
        BY <1>9, <4>1
    <3>2. CASE ~Has(k)
      BY <1>8, <3>2
    <3>3. QED
      BY <3>1, <3>2
  <2>2. last = [k \in Keys |-> last[k]]
    BY DEF last
  <2>3. QED
    BY <2>1, <2>2
<1> HIDE DEF seqs
<1>12. QED
  BY <1>4, <1>6, <1>8, <1>9, <1>10, <1>11 DEF es, seqs

-----------------------------------------------------------------------------
(***************************************************************************)
(* What the operations on m_events keep.                                   *)
(***************************************************************************)
QueueKept ==
    /\ events' \in Seq(Event) /\ issued' \in [Keys -> Nat] /\ reported' \in [Keys -> Nat]
    /\ KeysDistinct' /\ EventsFine' /\ AbsentUnreported'

\* GetTriggeredEvents.
LEMMA HarvestKeeps ==
    ASSUME EqueueInv, NEW n \in Nums,
           events' = Harvest(n).left, reported' = Harvest(n).last, UNCHANGED <<issued, kinds>>
    PROVE  QueueKept
<1> DEFINE N == Len(events)
           seqs == [i \in 1 .. N |-> Got(n, i).left]
           q == events'
           last == Harvest(n).last
<1>0. /\ seqs \in Seq(Seq(Event)) /\ Len(seqs) = N
      /\ q = FlattenSeq(seqs)
      /\ last \in [Keys -> Nat]
      /\ \A k \in Keys : ~Has(k) => last[k] = 0
      /\ \A i \in 1 .. N :
            \/ seqs[i] = << >> /\ last[events[i].key] = 0
            \/ \E f \in Event :
                  /\ seqs[i] = <<f>> /\ f.key = events[i].key
                  /\ Fine(f, kinds[f.key], last[events[i].key], issued[f.key])
  BY HarvestParts
<1>1. /\ N \in Nat /\ DOMAIN events = 1 .. N /\ issued \in [Keys -> Nat] /\ KeysDistinct
  BY DEF EqueueInv, EqueueType
<1> HIDE DEF seqs, last, N
<1>2. \A i \in 1 .. N : seqs[i] = << >> \/ \E f \in Event : seqs[i] = <<f>>
  BY <1>0
<1>3. q \in Seq(Event) /\ \E m : Gathers(seqs, N, q, m)
  <2>1. \A i \in 1 .. Len(seqs) : seqs[i] = << >> \/ \E f \in Event : seqs[i] = <<f>>
    BY <1>0, <1>2, Zenon
  <2>2. FlattenSeq(seqs) \in Seq(Event) /\ \E m : Gathers(seqs, Len(seqs), FlattenSeq(seqs), m)
    BY <1>0, <2>1, FlattenThin
  <2>3. QED
    BY <1>0, <2>2
<1>4. PICK m : Gathers(seqs, N, q, m)
  BY <1>3
<1>5. /\ m \in [1 .. Len(q) -> 1 .. N]
      /\ \A j \in 1 .. Len(q) : seqs[m[j]] = <<q[j]>>
      /\ \A i, j \in 1 .. Len(q) : m[i] = m[j] => i = j
      /\ \A i \in 1 .. N : seqs[i] # << >> => \E j \in 1 .. Len(q) : m[j] = i
  BY <1>4 DEF Gathers
<1>6. DOMAIN q = 1 .. Len(q)
  BY <1>3
<1>7. ASSUME NEW j \in 1 .. Len(q)
      PROVE  /\ m[j] \in 1 .. N /\ q[j].key = events[m[j]].key
             /\ Fine(q[j], kinds[q[j].key], last[q[j].key], issued[q[j].key])
  <2>1. m[j] \in 1 .. N /\ seqs[m[j]] = <<q[j]>>
    BY <1>5
  <2>2. seqs[m[j]] # << >>
    BY <2>1
  <2>3. PICK f \in Event : /\ seqs[m[j]] = <<f>> /\ f.key = events[m[j]].key
                           /\ Fine(f, kinds[f.key], last[events[m[j]].key], issued[f.key])
    BY <1>0, <2>1, <2>2
  <2>4. f = q[j]
    <3>1. <<f>>[1] = <<q[j]>>[1]
      BY <2>1, <2>3
    <3>2. QED
      BY <3>1
  <2>5. QED
    BY <2>1, <2>3, <2>4
<1>8. reported' = last
  BY DEF last
<1>9. KeysDistinct'
  <2>1. ASSUME NEW i \in 1 .. Len(q), NEW j \in 1 .. Len(q), q[i].key = q[j].key
        PROVE  i = j
    <3>1. events[m[i]].key = events[m[j]].key /\ m[i] \in 1 .. N /\ m[j] \in 1 .. N
      BY <1>7, <2>1
    <3>2. m[i] = m[j]
      BY <1>1, <3>1 DEF KeysDistinct
    <3>3. QED
      BY <1>5, <3>2
  <2>2. QED
    BY <1>6, <2>1 DEF KeysDistinct
<1>10. EventsFine'
  BY <1>6, <1>7, <1>8 DEF EventsFine
<1>11. AbsentUnreported'
  <2> SUFFICES ASSUME NEW k \in Keys, ~Has(k)' PROVE last[k] = 0
    BY <1>8 DEF AbsentUnreported
  <2>1. CASE ~Has(k)
    BY <1>0, <2>1
  <2>2. CASE Has(k)
    <3>1. PICK i \in 1 .. N : events[i].key = k
      BY <1>1, <2>2 DEF Has
    <3>2. CASE seqs[i] = << >>
      <4>1. ~ \E f \in Event : seqs[i] = <<f>>
        BY <3>2
      <4>2. QED
        BY <1>0, <3>1, <4>1
    <3>3. CASE seqs[i] # << >>
      <4>1. PICK j \in 1 .. Len(q) : m[j] = i
        BY <1>5, <3>3
      <4>2. q[j].key = k
        BY <1>7, <3>1, <4>1
      <4>3. Has(k)'
        BY <1>6, <4>2 DEF Has
      <4>4. QED
        BY <4>3
    <3>4. QED
      BY <3>2, <3>3
  <2>3. QED
    BY <2>1, <2>2
<1>12. QED
  BY <1>0, <1>1, <1>3, <1>8, <1>9, <1>10, <1>11 DEF QueueKept

\* The event under a registered key.
LEMMA AtFacts ==
    ASSUME EqueueInv, NEW k \in Keys, Has(k)
    PROVE  /\ At(k) \in 1 .. Len(events) /\ events[At(k)].key = k
           /\ events[At(k)] \in Event
           /\ Fine(events[At(k)], kinds[k], reported[k], issued[k])
<1>1. events \in Seq(Event) /\ DOMAIN events = 1 .. Len(events) /\ EventsFine
  BY DEF EqueueInv, EqueueType
<1>2. At(k) \in DOMAIN events /\ events[At(k)].key = k
  BY DEF Has, At
<1>3. QED
  BY <1>1, <1>2 DEF EventsFine

\* One event of m_events changes, under the same key.
LEMMA ReplaceKeeps ==
    ASSUME EqueueInv, NEW k \in Keys, Has(k), NEW f \in Event, f.key = k,
           events' = [events EXCEPT ![At(k)] = f],
           issued' \in [Keys -> Nat], \A l \in Keys : l # k => issued'[l] = issued[l],
           UNCHANGED <<kinds, reported>>, Fine(f, kinds[k], reported[k], issued'[k])
    PROVE  /\ QueueKept /\ Len(events') = Len(events)
           /\ \A i \in 1 .. Len(events) : events'[i] = IF i = At(k) THEN f ELSE events[i]
<1> DEFINE N == Len(events)
           a == At(k)
<1>1. /\ events \in Seq(Event) /\ N \in Nat /\ DOMAIN events = 1 .. N
      /\ reported \in [Keys -> Nat] /\ KeysDistinct /\ EventsFine /\ AbsentUnreported
  BY DEF EqueueInv, EqueueType
<1>2. a \in 1 .. N /\ events[a].key = k
  BY AtFacts
<1> HIDE DEF a
<1>3. /\ events' \in Seq(Event) /\ DOMAIN events' = 1 .. N /\ Len(events') = N
      /\ \A i \in 1 .. N : events'[i] = IF i = a THEN f ELSE events[i]
  <2>1. events' = [events EXCEPT ![a] = f]
    BY DEF a
  <2>2. DOMAIN events' = 1 .. N /\ \A i \in 1 .. N : events'[i] = IF i = a THEN f ELSE events[i]
    BY <1>1, <1>2, <2>1
  <2>3. events' \in Seq(Event) /\ Len(events') = Len(events)
    <3>1. events' \in [1 .. N -> Event]
      <4>1. events' = [i \in 1 .. N |-> events'[i]]
        BY <1>1, <2>1
      <4>2. \A i \in 1 .. N : events'[i] \in Event
        BY <1>1, <2>2
      <4>3. QED
        BY <4>1, <4>2
    <3>2. events' \in Seq(Event)
      BY <1>1, <3>1, SeqDef
    <3>3. QED
      BY <1>1, <3>1, <3>2, LenProperties
  <2>4. QED
    BY <2>2, <2>3
<1>4. \A i \in 1 .. N : events'[i].key = events[i].key
  BY <1>2, <1>3
<1>5. KeysDistinct'
  BY <1>1, <1>3, <1>4 DEF KeysDistinct
<1>6. ASSUME NEW i \in 1 .. N
      PROVE  Fine(events'[i], kinds[events'[i].key], reported[events'[i].key],
                  issued'[events'[i].key])
  <2>1. CASE i = a
    BY <1>3, <2>1
  <2>2. CASE i # a
    <3>1. events'[i] = events[i] /\ events[i] \in Event
      BY <1>1, <1>3, <2>2
    <3>2. events[i].key # k /\ events[i].key \in Keys
      BY <1>1, <1>2, <2>2, <3>1 DEF KeysDistinct, Event
    <3>3. issued'[events[i].key] = issued[events[i].key]
      BY <3>2
    <3>4. Fine(events[i], kinds[events[i].key], reported[events[i].key], issued[events[i].key])
      BY <1>1 DEF EventsFine
    <3>5. QED
      BY <3>1, <3>3, <3>4
  <2>3. QED
    BY <2>1, <2>2
<1>7. EventsFine'
  BY <1>3, <1>6 DEF EventsFine
<1>8. AbsentUnreported'
  <2>1. \A l \in Keys : Has(l) => Has(l)'
    BY <1>1, <1>3, <1>4 DEF Has
  <2>2. QED
    BY <1>1, <2>1 DEF AbsentUnreported
<1>9. QED
  BY <1>1, <1>3, <1>5, <1>7, <1>8 DEF QueueKept, a

\* A key is registered.
LEMMA AppendKeeps ==
    ASSUME EqueueInv, NEW k \in Keys, ~Has(k), NEW f \in Event, f.key = k,
           events' = Append(events, f),
           issued' \in [Keys -> Nat], \A l \in Keys : l # k => issued'[l] = issued[l],
           UNCHANGED <<kinds, reported>>, Fine(f, kinds[k], 0, issued'[k])
    PROVE  /\ QueueKept /\ Len(events') = Len(events) + 1
           /\ \A i \in 1 .. Len(events) : events'[i] = events[i]
           /\ events'[Len(events) + 1] = f
<1> DEFINE N == Len(events)
<1>1. /\ events \in Seq(Event) /\ N \in Nat /\ DOMAIN events = 1 .. N
      /\ reported \in [Keys -> Nat] /\ KeysDistinct /\ EventsFine /\ AbsentUnreported
  BY DEF EqueueInv, EqueueType
<1>2. /\ events' \in Seq(Event) /\ Len(events') = N + 1 /\ DOMAIN events' = 1 .. N + 1
      /\ \A i \in 1 .. N : events'[i] = events[i]
      /\ events'[N + 1] = f
  BY <1>1, AppendProperties
<1> HIDE DEF N
<1>3. \A i \in 1 .. N + 1 : i \in 1 .. N \/ i = N + 1
  BY <1>1
<1>4. \A i \in 1 .. N : events[i].key # k /\ events[i].key \in Keys
  <2>1. \A i \in 1 .. N : events[i] \in Event
    BY <1>1 DEF N
  <2>2. QED
    BY <1>1, <2>1 DEF Has, Event
<1>5. KeysDistinct'
  <2>1. ASSUME NEW i \in 1 .. N + 1, NEW j \in 1 .. N + 1, events'[i].key = events'[j].key
        PROVE  i = j
    <3>1. CASE i \in 1 .. N /\ j \in 1 .. N
      BY <1>1, <1>2, <2>1, <3>1 DEF KeysDistinct
    <3>2. CASE i = N + 1 /\ j = N + 1
      BY <3>2
    <3>3. CASE i \in 1 .. N /\ j = N + 1
      BY <1>2, <1>4, <2>1, <3>3
    <3>4. CASE i = N + 1 /\ j \in 1 .. N
      BY <1>2, <1>4, <2>1, <3>4
    <3>5. QED
      BY <1>3, <3>1, <3>2, <3>3, <3>4
  <2>2. QED
    BY <1>2, <2>1 DEF KeysDistinct
<1>6. reported[k] = 0
  BY <1>1 DEF AbsentUnreported
<1>7. ASSUME NEW i \in 1 .. N + 1
      PROVE  Fine(events'[i], kinds[events'[i].key], reported[events'[i].key],
                  issued'[events'[i].key])
  <2>1. CASE i = N + 1
    BY <1>2, <1>6, <2>1
  <2>2. CASE i \in 1 .. N
    <3>1. events'[i] = events[i] /\ issued'[events[i].key] = issued[events[i].key]
      BY <1>2, <1>4, <2>2
    <3>2. Fine(events[i], kinds[events[i].key], reported[events[i].key], issued[events[i].key])
      BY <1>1, <2>2 DEF EventsFine
    <3>3. QED
      BY <3>1, <3>2
  <2>3. QED
    BY <1>3, <2>1, <2>2
<1>8. EventsFine'
  BY <1>2, <1>7 DEF EventsFine
<1>9. AbsentUnreported'
  <2>1. \A i \in 1 .. N : i \in 1 .. N + 1
    BY <1>1
  <2>2. \A l \in Keys : Has(l) => Has(l)'
    BY <1>1, <1>2, <2>1 DEF Has
  <2>3. QED
    BY <1>1, <2>2 DEF AbsentUnreported
<1>10. QED
  BY <1>1, <1>2, <1>5, <1>8, <1>9 DEF QueueKept, N

\* RemoveAt closes the gap.
LEMMA RemoveAtFacts ==
    ASSUME NEW S, NEW s \in Seq(S), NEW a \in 1 .. Len(s)
    PROVE  /\ RemoveAt(s, a) \in Seq(S)
           /\ Len(RemoveAt(s, a)) = Len(s) - 1
           /\ \A j \in 1 .. Len(s) - 1 : RemoveAt(s, a)[j] = s[IF j < a THEN j ELSE j + 1]
<1> DEFINE N == Len(s)
           p == SubSeq(s, 1, a - 1)
           q == SubSeq(s, a + 1, N)
           r == p \o q
<1>1. N \in Nat /\ a \in 1 .. N
  OBVIOUS
<1>2. p \in Seq(S) /\ Len(p) = a - 1 /\ \A j \in 1 .. a - 1 : p[j] = s[j]
  <2>1. \A i \in 1 .. a - 1 : i \in 1 .. Len(s)
    BY <1>1
  <2>2. 1 \in Int /\ a - 1 \in Int
    BY <1>1
  <2>3. /\ p \in Seq(S)
        /\ Len(p) = IF 1 <= a - 1 THEN (a - 1) - 1 + 1 ELSE 0
        /\ \A j \in 1 .. (a - 1) - 1 + 1 : p[j] = s[1 + j - 1]
    BY <2>1, <2>2, SubSeqProperties
  <2> HIDE DEF p
  <2>4. (a - 1) - 1 + 1 = a - 1 /\ (1 <= a - 1 \/ a - 1 = 0) /\ \A j \in 1 .. a - 1 : 1 + j - 1 = j
    BY <1>1
  <2>5. QED
    BY <2>3, <2>4
<1>3. q \in Seq(S) /\ Len(q) = N - a /\ \A j \in 1 .. N - a : q[j] = s[a + j]
  <2>1. \A i \in (a + 1) .. N : i \in 1 .. Len(s)
    BY <1>1
  <2>2. a + 1 \in Int /\ N \in Int
    BY <1>1
  <2>3. /\ q \in Seq(S)
        /\ Len(q) = IF a + 1 <= N THEN N - (a + 1) + 1 ELSE 0
        /\ \A j \in 1 .. N - (a + 1) + 1 : q[j] = s[(a + 1) + j - 1]
    BY <2>1, <2>2, SubSeqProperties
  <2> HIDE DEF q, N
  <2>4. /\ N - (a + 1) + 1 = N - a /\ (a + 1 <= N \/ N - a = 0)
        /\ \A j \in 1 .. N - a : (a + 1) + j - 1 = a + j
    BY <1>1
  <2>5. QED
    BY <2>3, <2>4
<1>4. RemoveAt(s, a) = r
  BY DEF RemoveAt
<1> HIDE DEF N, p, q
<1>5. /\ r \in Seq(S) /\ Len(r) = Len(p) + Len(q)
      /\ \A j \in 1 .. Len(p) + Len(q) : r[j] = IF j <= Len(p) THEN p[j] ELSE q[j - Len(p)]
  BY <1>2, <1>3, ConcatProperties
<1> HIDE DEF r
<1>6. Len(r) = N - 1
  BY <1>1, <1>2, <1>3, <1>5
<1>7. ASSUME NEW j \in 1 .. N - 1
      PROVE  r[j] = s[IF j < a THEN j ELSE j + 1]
  <2>1. j \in 1 .. Len(p) + Len(q)
    BY <1>1, <1>2, <1>3
  <2>2. CASE j < a
    <3>1. j <= Len(p) /\ j \in 1 .. a - 1
      BY <1>1, <1>2, <2>2
    <3>2. QED
      BY <1>2, <1>5, <2>1, <2>2, <3>1
  <2>3. CASE ~(j < a)
    <3>1. /\ ~(j <= Len(p)) /\ j - Len(p) \in 1 .. N - a /\ a + (j - Len(p)) = j + 1
      BY <1>1, <1>2, <2>3
    <3>2. r[j] = q[j - Len(p)]
      BY <1>5, <2>1, <3>1
    <3>3. q[j - Len(p)] = s[a + (j - Len(p))]
      BY <1>3, <3>1
    <3>4. QED
      BY <2>3, <3>1, <3>2, <3>3
  <2>4. QED
    BY <2>2, <2>3
<1>8. QED
  BY <1>4, <1>5, <1>6, <1>7 DEF N

\* DeleteEvent.
LEMMA RemoveKeeps ==
    ASSUME EqueueInv, NEW k \in Keys, Has(k),
           events' = RemoveAt(events, At(k)),
           issued' = [issued EXCEPT ![k] = 0], reported' = [reported EXCEPT ![k] = 0],
           UNCHANGED kinds
    PROVE  QueueKept
<1> DEFINE N == Len(events)
           a == At(k)
           at(j) == IF j < a THEN j ELSE j + 1
<1>1. /\ events \in Seq(Event) /\ N \in Nat /\ DOMAIN events = 1 .. N
      /\ reported \in [Keys -> Nat] /\ issued \in [Keys -> Nat]
      /\ KeysDistinct /\ EventsFine /\ AbsentUnreported
  BY DEF EqueueInv, EqueueType
<1>2. a \in 1 .. N /\ events[a].key = k
  BY AtFacts
<1> HIDE DEF a
<1>3. /\ events' \in Seq(Event) /\ Len(events') = N - 1
      /\ \A j \in 1 .. N - 1 : events'[j] = events[at(j)]
  <2>1. events' = RemoveAt(events, a)
    BY DEF a
  <2>2. QED
    BY <1>1, <1>2, <2>1, RemoveAtFacts
<1> HIDE DEF N
<1>4. DOMAIN events' = 1 .. N - 1
  BY <1>1, <1>3
<1>5. /\ \A j \in 1 .. N - 1 : at(j) \in 1 .. N /\ at(j) # a
      /\ \A i, j \in 1 .. N - 1 : at(i) = at(j) => i = j
      /\ \A i \in 1 .. N : i # a => \E j \in 1 .. N - 1 : at(j) = i
  <2>1. \A j \in 1 .. N - 1 : at(j) \in 1 .. N /\ at(j) # a
    BY <1>1, <1>2
  <2>2. \A i, j \in 1 .. N - 1 : at(i) = at(j) => i = j
    BY <1>1, <1>2
  <2>3. ASSUME NEW i \in 1 .. N, i # a
        PROVE  \E j \in 1 .. N - 1 : at(j) = i
    <3>1. CASE i < a
      <4>1. i \in 1 .. N - 1 /\ at(i) = i
        BY <1>1, <1>2, <3>1
      <4>2. QED
        BY <4>1
    <3>2. CASE i > a
      <4>1. i - 1 \in 1 .. N - 1 /\ at(i - 1) = i
        BY <1>1, <1>2, <3>2
      <4>2. QED
        BY <4>1
    <3>3. QED
      BY <1>1, <1>2, <2>3, <3>1, <3>2
  <2>4. QED
    BY <2>1, <2>2, <2>3
<1> HIDE DEF at
<1>6. KeysDistinct'
  <2>1. ASSUME NEW i \in 1 .. N - 1, NEW j \in 1 .. N - 1, events'[i].key = events'[j].key
        PROVE  i = j
    <3>1. events[at(i)].key = events[at(j)].key /\ at(i) \in 1 .. N /\ at(j) \in 1 .. N
      BY <1>3, <1>5, <2>1
    <3>2. at(i) = at(j)
      BY <1>1, <3>1 DEF KeysDistinct
    <3>3. QED
      BY <1>5, <3>2
  <2>2. QED
    BY <1>4, <2>1 DEF KeysDistinct
<1>7. ASSUME NEW j \in 1 .. N - 1
      PROVE  Fine(events'[j], kinds[events'[j].key], reported'[events'[j].key],
                  issued'[events'[j].key])
  <2> DEFINE e == events[at(j)]
  <2>1. events'[j] = e /\ at(j) \in 1 .. N /\ at(j) # a /\ e \in Event
    <3>1. events'[j] = e /\ at(j) \in 1 .. N /\ at(j) # a
      BY <1>3, <1>5
    <3>2. QED
      BY <1>1, <3>1 DEF N
  <2>2. e.key # k /\ e.key \in Keys
    BY <1>1, <1>2, <2>1 DEF KeysDistinct, Event
  <2>3. reported'[e.key] = reported[e.key] /\ issued'[e.key] = issued[e.key]
    BY <1>1, <2>2
  <2>4. Fine(e, kinds[e.key], reported[e.key], issued[e.key])
    BY <1>1, <2>1 DEF EventsFine
  <2> HIDE DEF e
  <2>5. QED
    BY <2>1, <2>3, <2>4
<1>8. EventsFine'
  BY <1>4, <1>7 DEF EventsFine
<1>9. AbsentUnreported'
  <2> SUFFICES ASSUME NEW l \in Keys, ~Has(l)' PROVE reported'[l] = 0
    BY DEF AbsentUnreported
  <2>1. CASE l = k
    BY <1>1, <2>1
  <2>2. CASE l # k
    <3>1. ~Has(l)
      <4>1. ASSUME NEW i \in 1 .. N, events[i].key = l PROVE FALSE
        <5>1. i # a
          BY <1>2, <2>2, <4>1
        <5>2. PICK j \in 1 .. N - 1 : at(j) = i
          BY <1>5, <5>1
        <5>3. events'[j].key = l
          BY <1>3, <4>1, <5>2
        <5>4. QED
          BY <1>4, <5>3 DEF Has
      <4>2. QED
        BY <1>1, <4>1 DEF Has
    <3>2. QED
      BY <1>1, <2>2, <3>1 DEF AbsentUnreported
  <2>3. QED
    BY <2>1, <2>2
<1>10. issued' \in [Keys -> Nat] /\ reported' \in [Keys -> Nat]
  BY <1>1
<1>11. QED
  BY <1>3, <1>6, <1>8, <1>9, <1>10 DEF QueueKept

\* A second AddEvent: timers have keys of their own, so that no other event
\* gets a deadline.
LEMMA UpdatedFine ==
    ASSUME NEW e \in Event, NEW use, NEW kind \in use, NEW u \in Udata, NEW r \in Nat, NEW n \in Nat,
           Fine(e, use, r, n), "timer" \in use => use = {"timer"}
    PROVE  LET f == Updated(e, kind, u)
           IN  /\ f \in Event /\ f.key = e.key /\ Fine(f, use, r, n)
               /\ Len(Occurrences(f)) = Len(Occurrences(e))
<1> DEFINE f == Updated(e, kind, u)
           p == [i \in DOMAIN e.pending |-> [data |-> e.pending[i].data, udata |-> u]]
           M == Len(e.pending)
<1>1. e.pending \in Seq(Mark) /\ M \in Nat /\ DOMAIN e.pending = 1 .. M
  BY DEF Event
<1>2. ASSUME NEW i \in 1 .. M
      PROVE  p[i] \in Mark /\ p[i].data = e.pending[i].data
  <2>1. e.pending[i].data \in Nat
    <3>1. e.pending[i] \in Mark
      BY <1>1
    <3>2. QED
      BY <3>1 DEF Mark
  <2>2. p[i] = [data |-> e.pending[i].data, udata |-> u]
    BY <1>1
  <2>3. QED
    BY <2>1, <2>2 DEF Mark, Stamps
<1>3. p \in [1 .. M -> Mark]
  BY <1>1, <1>2
<1>4. /\ f.key = e.key /\ f.kind = e.kind /\ f.triggered = e.triggered /\ f.data = e.data
      /\ f.deadline = (IF kind = "timer" THEN "running" ELSE "none")
      /\ f.udata = u /\ f.pending = p
      /\ f = [key |-> f.key, kind |-> f.kind, triggered |-> f.triggered,
              deadline |-> f.deadline, data |-> f.data, udata |-> f.udata,
              pending |-> f.pending]
  BY DEF Updated
<1> HIDE DEF p, f
<1>5. p \in Seq(Mark)
  BY <1>1, <1>3, SeqDef
<1>6. Len(p) = M
  BY <1>1, <1>3, <1>5, LenProperties
<1>7. f \in Event
  BY <1>4, <1>5 DEF Event, Stamps
<1> DEFINE o == Occurrences(e)
           q == Occurrences(f)
<1>8. /\ Len(q) = Len(o) /\ DOMAIN q = DOMAIN o
      /\ \A j \in DOMAIN o : q[j].data = o[j].data
  <2>0. o \in Seq(Mark) /\ q \in Seq(Mark)
    BY <1>7, OccurrencesFacts
  <2>1. CASE ~e.triggered
    <3>1. o = << >> /\ q = << >>
      BY <1>4, <1>7, <2>1, OccurrencesFacts
    <3> HIDE DEF o, q
    <3>2. QED
      BY <3>1
  <2>2. CASE e.triggered
    <3>1. /\ Len(o) = 1 + M /\ Len(q) = 1 + M
          /\ o[1] = [data |-> e.data, udata |-> e.udata]
          /\ q[1] = [data |-> e.data, udata |-> u]
          /\ \A j \in 1 .. M : o[j + 1] = e.pending[j]
          /\ \A j \in 1 .. M : q[j + 1] = p[j]
      BY <1>4, <1>6, <1>7, <2>2, OccurrencesFacts
    <3> HIDE DEF o, q
    <3>2. DOMAIN q = 1 .. 1 + M /\ DOMAIN o = 1 .. 1 + M
      BY <2>0, <3>1
    <3>3. ASSUME NEW j \in 1 .. 1 + M
          PROVE  q[j].data = o[j].data
      <4>1. CASE j = 1
        BY <3>1, <4>1
      <4>2. CASE j # 1
        <5>1. j - 1 \in 1 .. M /\ (j - 1) + 1 = j
          BY <1>1, <4>2
        <5>2. o[j] = e.pending[j - 1] /\ q[j] = p[j - 1]
          BY <3>1, <5>1
        <5>3. QED
          BY <1>2, <5>1, <5>2
      <4>3. QED
        BY <4>1, <4>2
    <3>4. QED
      BY <3>1, <3>2, <3>3
  <2>3. QED
    BY <2>1, <2>2
<1>9. e.pending = << >> => p = << >>
  <2>1. ASSUME e.pending = << >> PROVE p = << >>
    <3>1. M = 0
      BY <2>1
    <3>2. QED
      BY <1>5, <1>6, <3>1, EmptySeq
  <2>2. QED
    BY <2>1
<1>10. InOrder(e, r, n) => InOrder(f, r, n)
  BY <1>4, <1>8, <1>9 DEF InOrder
<1>11. kind = "timer" => e.kind = "timer"
  BY DEF Fine, Sound
<1>12. Fine(f, use, r, n)
  BY <1>4, <1>9, <1>10, <1>11 DEF Fine, Sound
<1>13. QED
  BY <1>4, <1>7, <1>8, <1>12 DEF f

\* A fresh event has nothing to report, or the one occurrence it starts with.
LEMMA NewEventFine ==
    ASSUME NEW k \in Keys, NEW use, NEW kind \in use,
           use \subseteq {"level", "edge", "queued", "timer"},
           NEW u \in Udata, NEW raised \in BOOLEAN, raised => kind = "queued"
    PROVE  LET f == NewEvent(k, kind, u, raised)
           IN  /\ f \in Event /\ f.key = k
               /\ Fine(f, use, 0, IF raised THEN 1 ELSE 0)
               /\ Len(Occurrences(f)) \in Nat /\ Len(Occurrences(f)) <= 1
<1> DEFINE f == NewEvent(k, kind, u, raised)
<1>1. /\ f \in Event /\ f.key = k /\ f.kind = kind /\ f.triggered = raised
      /\ f.data = (IF raised THEN 1 ELSE 0) /\ f.pending = << >>
      /\ f.deadline = (IF kind = "timer" THEN "running" ELSE "none")
  <2>1. << >> \in Seq(Mark)
    BY EmptySeq
  <2>2. QED
    BY <2>1 DEF NewEvent, Event, Stamps
<1> HIDE DEF f
<1> DEFINE o == Occurrences(f)
<1>2. o \in Seq(Mark)
  BY <1>1, OccurrencesFacts
<1>3. CASE raised
  <2>1. Len(o) = 1 + Len(<< >>) /\ o[1].data = 1
    <3>1. Len(o) = 1 + Len(f.pending) /\ o[1] = [data |-> f.data, udata |-> f.udata]
      BY <1>1, <1>3, OccurrencesFacts
    <3> HIDE DEF o
    <3>2. f.data = 1
      BY <1>1, <1>3
    <3>3. QED
      BY <1>1, <3>1, <3>2
  <2> HIDE DEF o
  <2>2. Len(o) = 1 /\ DOMAIN o = {1}
    BY <1>2, <2>1
  <2>3. InOrder(f, 0, 1)
    BY <1>1, <1>3, <2>1, <2>2 DEF InOrder, o
  <2>4. Fine(f, use, 0, 1)
    BY <1>1, <1>3, <2>3 DEF Fine, Sound
  <2>5. (IF raised THEN 1 ELSE 0) = 1
    BY <1>3
  <2>6. QED
    BY <1>1, <2>2, <2>4, <2>5 DEF o, f
<1>4. CASE ~raised
  <2>1. o = << >>
    BY <1>1, <1>4, OccurrencesFacts
  <2> HIDE DEF o
  <2>2. Len(o) = 0 /\ DOMAIN o = {}
    BY <2>1
  <2>3. InOrder(f, 0, 0)
    BY <1>1, <2>2 DEF InOrder, o
  <2>4. QED
    BY <1>1, <1>4, <2>2, <2>3 DEF Fine, Sound, o, f
<1>5. QED
  BY <1>3, <1>4

\* The trigger functions: the n-th trigger continues the occurrences.
LEMMA TriggeredFine ==
    ASSUME NEW e \in Event, NEW use, NEW r \in Nat, NEW n \in Nat, Fine(e, use, r, n),
           e.kind # "timer"
    PROVE  LET f == Triggered(e, n + 1)
           IN  /\ f \in Event /\ f.key = e.key /\ Fine(f, use, r, n + 1)
               /\ Len(Occurrences(f)) <= Len(Occurrences(e)) + 1
<1> DEFINE f == Triggered(e, n + 1)
           o == Occurrences(e)
           q == Occurrences(f)
<1>1. e.pending \in Seq(Mark) /\ e.udata \in Stamps /\ e.triggered \in BOOLEAN
  BY DEF Event
<1>2. o \in Seq(Mark) /\ Len(o) \in Nat
  <2>1. o \in Seq(Mark)
    BY OccurrencesFacts
  <2> HIDE DEF o
  <2>2. QED
    BY <2>1
<1>3. CASE e.kind # "queued"
  <2>1. f = [e EXCEPT !.triggered = TRUE, !.data = n + 1, !.udata = n + 1]
    BY <1>3 DEF Triggered
  <2>0. n + 1 \in Nat /\ n + 1 \in Stamps
    BY DEF Stamps
  <2> DEFINE m == n + 1
  <2> HIDE DEF f, m
  <2>2. /\ f \in Event /\ f.key = e.key /\ f.kind = e.kind /\ f.deadline = e.deadline
        /\ f.pending = e.pending /\ f.triggered
    <3>1. f = [e EXCEPT !.triggered = TRUE, !.data = m, !.udata = m]
      BY <2>1 DEF m
    <3>2. m \in Nat /\ m \in Stamps
      BY <2>0 DEF m
    <3>3. QED
      BY <3>1, <3>2 DEF Event
  <2>3. f.pending = << >>
    BY <1>3, <2>2 DEF Fine, Sound
  <2>4. Len(q) = 1 + Len(<< >>)
    BY <2>2, <2>3, OccurrencesFacts
  <2> HIDE DEF q, o
  <2>5. Len(q) <= Len(o) + 1
    BY <1>2, <2>4
  <2>6. Fine(f, use, r, n + 1)
    BY <1>3, <2>2 DEF Fine, Sound
  <2>7. QED
    BY <2>2, <2>5, <2>6 DEF f, q, o
<1>4. CASE e.kind = "queued" /\ e.triggered
  <2> DEFINE x == [data |-> n + 1, udata |-> e.udata]
             p == Append(e.pending, x)
             M == Len(e.pending)
  <2>1. x \in Mark /\ x.data = n + 1
    BY <1>1 DEF Mark
  <2>2. f = [e EXCEPT !.pending = p]
    BY <1>4 DEF Triggered
  <2> HIDE DEF x
  <2>3. /\ p \in Seq(Mark) /\ Len(p) = M + 1 /\ M \in Nat
        /\ \A j \in 1 .. M : p[j] = e.pending[j]
        /\ p[M + 1] = x
    BY <1>1, <2>1, AppendProperties
  <2> HIDE DEF p
  <2>4. /\ f \in Event /\ f.key = e.key /\ f.kind = e.kind /\ f.deadline = e.deadline
        /\ f.pending = p /\ f.triggered /\ f.data = e.data /\ f.udata = e.udata
    BY <1>4, <2>2, <2>3 DEF Event
  <2> HIDE DEF f
  <2>5. /\ Len(o) = 1 + M /\ Len(q) = 1 + Len(p)
        /\ o[1] = [data |-> e.data, udata |-> e.udata]
        /\ q[1] = [data |-> e.data, udata |-> e.udata]
        /\ \A j \in 1 .. M : o[j + 1] = e.pending[j]
        /\ \A j \in 1 .. Len(p) : q[j + 1] = p[j]
        /\ q \in Seq(Mark)
    BY <1>4, <2>4, OccurrencesFacts
  <2>6. InOrder(e, r, n)
    BY <1>4 DEF Fine
  <2>7. r + Len(o) = n /\ \A j \in DOMAIN o : o[j].data = r + j
    BY <2>6 DEF InOrder
  <2> HIDE DEF q, o, M
  <2>8. Len(q) = Len(o) + 1 /\ DOMAIN o = 1 .. 1 + M /\ DOMAIN q = 1 .. 2 + M
    <3>1. Len(q) = 2 + M
      BY <2>3, <2>5
    <3>2. QED
      BY <1>2, <2>3, <2>5, <3>1
  <2>9. ASSUME NEW j \in 1 .. 2 + M
        PROVE  q[j].data = r + j
    <3>1. CASE j = 1
      <4>1. q[1] = o[1] /\ 1 \in DOMAIN o
        BY <2>3, <2>5, <2>8
      <4>2. QED
        BY <2>7, <3>1, <4>1
    <3>2. CASE j \in 2 .. 1 + M
      <4>1. j - 1 \in 1 .. M /\ j - 1 \in 1 .. Len(p) /\ (j - 1) + 1 = j /\ j \in DOMAIN o
        BY <2>3, <2>8, <3>2
      <4>2. q[j] = o[j]
        BY <2>3, <2>5, <4>1
      <4>3. QED
        BY <2>7, <4>1, <4>2
    <3>3. CASE j = 2 + M
      <4>1. M + 1 \in 1 .. Len(p) /\ (M + 1) + 1 = j /\ r + (1 + M) = n
        BY <2>3, <2>5, <2>7, <3>3
      <4>2. q[j] = x
        BY <2>3, <2>5, <4>1
      <4>3. r + j = n + 1
        BY <2>3, <3>3, <4>1
      <4>4. QED
        BY <2>1, <4>2, <4>3
    <3>4. QED
      BY <2>3, <3>1, <3>2, <3>3
  <2>10. InOrder(f, r, n + 1)
    <3>1. r + Len(q) = n + 1
      BY <1>2, <2>7, <2>8
    <3>2. QED
      BY <2>4, <2>8, <2>9, <3>1 DEF InOrder, q
  <2>11. Fine(f, use, r, n + 1)
    BY <1>4, <2>4, <2>10 DEF Fine, Sound
  <2>12. QED
    BY <1>2, <2>4, <2>8, <2>11 DEF f, q, o
<1>5. CASE e.kind = "queued" /\ ~e.triggered
  <2>1. f = [e EXCEPT !.triggered = TRUE, !.data = n + 1]
    BY <1>5 DEF Triggered
  <2>2. /\ f \in Event /\ f.key = e.key /\ f.kind = e.kind /\ f.deadline = e.deadline
        /\ f.pending = e.pending /\ f.triggered /\ f.data = n + 1
    <3> DEFINE m == n + 1
    <3>0. m \in Nat
      OBVIOUS
    <3> HIDE DEF f, m
    <3>1. f = [e EXCEPT !.triggered = TRUE, !.data = m]
      BY <2>1 DEF m
    <3>2. /\ f \in Event /\ f.key = e.key /\ f.kind = e.kind /\ f.deadline = e.deadline
          /\ f.pending = e.pending /\ f.triggered /\ f.data = m
      BY <3>0, <3>1 DEF Event
    <3>3. QED
      BY <3>2 DEF m
  <2> HIDE DEF f
  <2>3. InOrder(e, r, n)
    BY <1>5 DEF Fine
  <2>4. o = << >> /\ r + Len(o) = n /\ e.pending = << >>
    BY <1>5, <2>3, OccurrencesFacts DEF InOrder
  <2>5. Len(q) = 1 + Len(<< >>) /\ q[1].data = n + 1 /\ q \in Seq(Mark)
    <3>1. /\ Len(q) = 1 + Len(f.pending) /\ q[1] = [data |-> f.data, udata |-> f.udata]
          /\ q \in Seq(Mark)
      BY <2>2, OccurrencesFacts
    <3> HIDE DEF q
    <3>2. QED
      BY <2>2, <2>4, <3>1
  <2> HIDE DEF q, o
  <2>6. r = n /\ Len(q) = 1 /\ DOMAIN q = {1} /\ Len(q) <= Len(o) + 1
    BY <1>2, <2>4, <2>5
  <2>7. InOrder(f, r, n + 1)
    BY <2>2, <2>5, <2>6 DEF InOrder, q
  <2>8. Fine(f, use, r, n + 1)
    BY <1>5, <2>2, <2>7 DEF Fine, Sound
  <2>9. QED
    BY <2>2, <2>6, <2>8 DEF f, q, o
<1>6. QED
  BY <1>1, <1>3, <1>4, <1>5

-----------------------------------------------------------------------------
(***************************************************************************)
(* Every step keeps the invariant.                                         *)
(***************************************************************************)
Places == {"idle", "pinned", "asleep", "awake", "closing"}
Clocks == {"none", "running", "expired"}

\* A step that leaves m_events alone.
LEMMA StillKeeps ==
    ASSUME EqueueInv, UNCHANGED <<events, issued, reported, kinds>>
    PROVE  QueueKept
<1>1. /\ events \in Seq(Event) /\ issued \in [Keys -> Nat] /\ reported \in [Keys -> Nat]
      /\ KeysDistinct /\ EventsFine /\ AbsentUnreported
  BY DEF EqueueInv, EqueueType
<1>2. KeysDistinct'
  BY <1>1 DEF KeysDistinct
<1>3. EventsFine'
  BY <1>1 DEF EventsFine
<1>4. AbsentUnreported'
  BY <1>1 DEF AbsentUnreported, Has
<1>5. QED
  BY <1>1, <1>2, <1>3, <1>4 DEF QueueKept

\* What the guest of this behaviour registers.
LEMMA UseFacts ==
    ASSUME EqueueInv, NEW k \in Keys
    PROVE  /\ kinds[k] \subseteq {"level", "edge", "queued", "timer"}
           /\ "timer" \in kinds[k] => kinds[k] = {"timer"}
<1>1. kinds \in Uses
  BY DEF EqueueInv, EqueueType
<1>2. kinds \in [Keys -> SUBSET {"level", "edge", "queued", "timer"}]
  BY <1>1, EqueueAssumption
<1>3. QED
  BY <1>1, <1>2, EqueueAssumption

\* AddEvent, on a key that is registered and on one that is not.  What is
\* ready grows by at most one occurrence, at one place.
LEMMA AddEventKeeps ==
    ASSUME EqueueInv, NEW t \in Threads, NEW k \in Keys, NEW kind \in kinds[k], NEW u \in Udata,
           NEW raised \in BOOLEAN, AddEvent(t, k, kind, u, raised), UNCHANGED kinds
    PROVE  /\ QueueKept
           /\ \/ /\ Len(events') = Len(events)
                 /\ \A i \in 1 .. Len(events) :
                       Len(Occurrences(events'[i])) = Len(Occurrences(events[i]))
              \/ /\ Len(events') = Len(events) + 1
                 /\ \A i \in 1 .. Len(events) : events'[i] = events[i]
                 /\ Len(Occurrences(events'[Len(events) + 1])) <= 1
<1>0. issued \in [Keys -> Nat] /\ reported \in [Keys -> Nat]
  BY DEF EqueueInv, EqueueType
<1>1. /\ kinds[k] \subseteq {"level", "edge", "queued", "timer"}
      /\ "timer" \in kinds[k] => kinds[k] = {"timer"}
  BY UseFacts
<1>2. raised => kind = "queued"
  BY DEF AddEvent
<1>3. CASE /\ Has(k)
           /\ events' = [events EXCEPT ![At(k)] = Updated(@, kind, u)]
           /\ UNCHANGED <<issued, reported>>
  <2> DEFINE e == events[At(k)]
             f == Updated(e, kind, u)
  <2>1. e.key = k /\ e \in Event /\ Fine(e, kinds[k], reported[k], issued[k])
    BY <1>3, AtFacts
  <2>2. reported[k] \in Nat /\ issued[k] \in Nat
    BY <1>0
  <2> HIDE DEF e
  <2>3. /\ f \in Event /\ f.key = e.key /\ Fine(f, kinds[k], reported[k], issued[k])
        /\ Len(Occurrences(f)) = Len(Occurrences(e))
    BY <1>1, <2>1, <2>2, UpdatedFine
  <2>4. events' = [events EXCEPT ![At(k)] = f]
    BY <1>3 DEF e
  <2> HIDE DEF f
  <2>5. issued' \in [Keys -> Nat] /\ (\A l \in Keys : l # k => issued'[l] = issued[l])
        /\ Fine(f, kinds[k], reported[k], issued'[k])
    BY <1>0, <1>3, <2>3
  <2>6. /\ QueueKept /\ Len(events') = Len(events)
        /\ \A i \in 1 .. Len(events) : events'[i] = IF i = At(k) THEN f ELSE events[i]
    BY <1>3, <2>1, <2>3, <2>4, <2>5, ReplaceKeeps
  <2>7. ASSUME NEW i \in 1 .. Len(events)
        PROVE  Len(Occurrences(events'[i])) = Len(Occurrences(events[i]))
    <3>1. CASE i = At(k)
      BY <2>3, <2>6, <3>1 DEF e
    <3>2. CASE i # At(k)
      BY <2>6, <3>2
    <3>3. QED
      BY <3>1, <3>2
  <2>8. QED
    BY <2>6, <2>7
<1>4. CASE /\ ~Has(k)
           /\ events' = Append(events, NewEvent(k, kind, u, raised))
           /\ issued' = [issued EXCEPT ![k] = IF raised THEN 1 ELSE 0]
           /\ UNCHANGED reported
  <2> DEFINE f == NewEvent(k, kind, u, raised)
             n == IF raised THEN 1 ELSE 0
  <2>1. /\ f \in Event /\ f.key = k /\ Fine(f, kinds[k], 0, n)
        /\ Len(Occurrences(f)) <= 1
    BY <1>1, <1>2, NewEventFine
  <2>2. n \in Nat
    OBVIOUS
  <2> HIDE DEF f, n
  <2>3. events' = Append(events, f) /\ issued' = [issued EXCEPT ![k] = n]
    BY <1>4 DEF f, n
  <2>4. /\ issued' \in [Keys -> Nat] /\ issued'[k] = n
        /\ \A l \in Keys : l # k => issued'[l] = issued[l]
    BY <1>0, <2>2, <2>3
  <2>5. /\ QueueKept /\ Len(events') = Len(events) + 1
        /\ \A i \in 1 .. Len(events) : events'[i] = events[i]
        /\ events'[Len(events) + 1] = f
    BY <1>4, <2>1, <2>3, <2>4, AppendKeeps
  <2>6. QED
    BY <2>1, <2>5
<1>5. QED
  BY <1>3, <1>4 DEF AddEvent

\* TriggerEvent.
LEMMA TriggerEventKeeps ==
    ASSUME EqueueInv, NEW t \in Threads, NEW k \in Keys, TriggerEvent(t, k), UNCHANGED kinds
    PROVE  /\ QueueKept /\ Len(events') = Len(events)
           /\ \E a \in 1 .. Len(events) :
                 /\ Len(Occurrences(events'[a])) <= Len(Occurrences(events[a])) + 1
                 /\ \A i \in 1 .. Len(events) : i # a => events'[i] = events[i]
<1> DEFINE e == events[At(k)]
           n == issued[k]
           f == Triggered(e, n + 1)
<1>0. issued \in [Keys -> Nat] /\ reported \in [Keys -> Nat] /\ Has(k)
  BY DEF EqueueInv, EqueueType, TriggerEvent
<1>1. /\ At(k) \in 1 .. Len(events) /\ e.key = k /\ e \in Event
      /\ Fine(e, kinds[k], reported[k], n)
  BY <1>0, AtFacts
<1>2. e.kind # "timer" /\ reported[k] \in Nat /\ n \in Nat
  BY <1>0 DEF TriggerEvent
<1>3. events' = [events EXCEPT ![At(k)] = f] /\ issued' = [issued EXCEPT ![k] = n + 1]
  BY DEF TriggerEvent
<1>4. UNCHANGED reported
  BY DEF TriggerEvent
<1> HIDE DEF e, n
<1>5. /\ f \in Event /\ f.key = k /\ Fine(f, kinds[k], reported[k], n + 1)
      /\ Len(Occurrences(f)) <= Len(Occurrences(e)) + 1
  BY <1>1, <1>2, TriggeredFine
<1> HIDE DEF f
<1>6. /\ issued' \in [Keys -> Nat] /\ issued'[k] = n + 1
      /\ \A l \in Keys : l # k => issued'[l] = issued[l]
  BY <1>0, <1>2, <1>3
<1>7. /\ QueueKept /\ Len(events') = Len(events)
      /\ \A i \in 1 .. Len(events) : events'[i] = IF i = At(k) THEN f ELSE events[i]
  <2>1. Fine(f, kinds[k], reported[k], issued'[k])
    BY <1>5, <1>6
  <2>2. f \in Event /\ f.key = k
    BY <1>5
  <2>3. issued' \in [Keys -> Nat] /\ \A l \in Keys : l # k => issued'[l] = issued[l]
    BY <1>6
  <2>4. events' = [events EXCEPT ![At(k)] = f] /\ UNCHANGED <<kinds, reported>>
    BY <1>3, <1>4
  <2>5. QED
    BY <1>0, <2>1, <2>2, <2>3, <2>4, ReplaceKeeps
<1>8. Len(Occurrences(events'[At(k)])) <= Len(Occurrences(events[At(k)])) + 1
  BY <1>1, <1>5, <1>7 DEF e
<1>9. \A i \in 1 .. Len(events) : i # At(k) => events'[i] = events[i]
  BY <1>7
<1>10. QED
  BY <1>1, <1>7, <1>8, <1>9

\* A deadline passes.
LEMMA TimerDueKeeps ==
    ASSUME EqueueInv, NEW k \in Keys, TimerDue(k), UNCHANGED kinds
    PROVE  QueueKept /\ \E e \in Event : e.kind = "timer" /\ e.kind \in kinds[k]
<1> DEFINE e == events[At(k)]
           f == [e EXCEPT !.deadline = "expired"]
<1>0. /\ issued \in [Keys -> Nat] /\ events \in Seq(Event) /\ Has(k)
      /\ UNCHANGED <<issued, reported>>
  BY DEF EqueueInv, EqueueType, TimerDue
<1>1. /\ At(k) \in 1 .. Len(events) /\ e.key = k /\ e \in Event
      /\ Fine(e, kinds[k], reported[k], issued[k])
  BY <1>0, AtFacts
<1>2. e.deadline = "running"
  BY DEF TimerDue
<1>3. events' = [events EXCEPT ![At(k)] = f]
  <2>1. events' = [events EXCEPT ![At(k)].deadline = "expired"]
    BY DEF TimerDue
  <2>2. QED
    BY <1>0, <1>1, <2>1
<1> HIDE DEF e
<1>4. e.kind = "timer"
  BY <1>1, <1>2 DEF Fine, Sound
<1>5. /\ f \in Event /\ f.key = k /\ f.kind = "timer" /\ f.data = e.data /\ f.pending = e.pending
  BY <1>1, <1>4 DEF Event
<1> HIDE DEF f
<1>6. Fine(f, kinds[k], reported[k], issued'[k])
  BY <1>0, <1>1, <1>4, <1>5 DEF Fine, Sound
<1>7. issued' \in [Keys -> Nat] /\ \A l \in Keys : l # k => issued'[l] = issued[l]
  BY <1>0
<1>8. QueueKept
  BY <1>0, <1>3, <1>5, <1>6, <1>7, ReplaceKeeps
<1>9. e.kind \in kinds[k]
  BY <1>1 DEF Fine, Sound
<1>10. QED
  BY <1>1, <1>4, <1>8, <1>9

\* GetTriggeredEvents on behalf of a thread.
LEMMA ReportKeeps ==
    ASSUME EqueueInv, NEW t \in Threads, Report(t), UNCHANGED kinds
    PROVE  QueueKept
<1>1. PICK n \in Nums : events' = Harvest(n).left /\ reported' = Harvest(n).last
  BY DEF Report
<1>2. UNCHANGED <<issued, kinds>>
  BY DEF Report
<1>3. QED
  BY <1>1, <1>2, HarvestKeeps

\* How a step of thread t moves the threads.
LEMMA MovesType ==
    ASSUME pc \in [Threads -> Places], clock \in [Threads -> Clocks], NEW t \in Threads
    PROVE  /\ SignalFrom(t) => pc' \in [Threads -> Places]
           /\ Report(t) => pc' \in [Threads -> Places] /\ clock' \in [Threads -> Clocks]
<1>1. ASSUME SignalFrom(t) PROVE pc' \in [Threads -> Places]
  <2>1. ASSUME NEW u \in Asleep, pc' = [pc EXCEPT ![t] = "idle", ![u] = "awake"]
        PROVE  pc' \in [Threads -> Places]
    BY <2>1 DEF Asleep, Places
  <2>2. CASE pc' = [pc EXCEPT ![t] = "idle"]
    BY <2>2 DEF Places
  <2>3. QED
    BY <1>1, <2>1, <2>2 DEF SignalFrom
<1>2. ASSUME Report(t) PROVE pc' \in [Threads -> Places] /\ clock' \in [Threads -> Clocks]
  BY <1>2 DEF Report, Places, Clocks
<1>3. QED
  BY <1>1, <1>2

\* A queue that KernelCreateEqueue returns.
LEMMA EqueueInitInv == Init => EqueueInv
<1> SUFFICES ASSUME Init PROVE EqueueInv
  OBVIOUS
<1>1. events = << >> /\ DOMAIN events = {} /\ events \in Seq(Event)
  BY EmptySeq DEF Init
<1>2. EqueueType
  BY <1>1 DEF Init, EqueueType
<1>3. AbsentUnreported
  BY DEF Init, AbsentUnreported
<1>4. QED
  BY <1>1, <1>2, <1>3 DEF EqueueInv, KeysDistinct, EventsFine

\* One step per action: what it does to m_events, then where it leaves the threads.
LEMMA EqueueNextInv == EqueueInv /\ [Next]_vars => EqueueInv'
<1> SUFFICES ASSUME EqueueInv, [Next]_vars PROVE EqueueInv'
  OBVIOUS
<1>0. /\ kinds \in Uses /\ closed \in BOOLEAN
      /\ pc \in [Threads -> Places] /\ clock \in [Threads -> Clocks]
  BY DEF EqueueInv, EqueueType, Places, Clocks
<1>1. ASSUME kinds' = kinds, closed' \in BOOLEAN, pc' \in [Threads -> Places],
             clock' \in [Threads -> Clocks], QueueKept
      PROVE  EqueueInv'
  BY <1>0, <1>1 DEF EqueueInv, EqueueType, QueueKept, Places, Clocks
<1>2. CASE UNCHANGED vars
  <2>1. UNCHANGED <<kinds, closed, pc, clock, events, issued, reported>>
    BY <1>2 DEF vars, queueVars
  <2>2. QED
    BY <1>0, <1>1, <2>1, StillKeeps
<1>3. CASE Next
  <2>0. Step /\ kinds' = kinds
    BY <1>3 DEF Next
  <2>1. ASSUME NEW t \in Threads, Pin(t) PROVE EqueueInv'
    <3>1. QueueKept
      BY <2>0, <2>1, StillKeeps DEF Pin
    <3>2. QED
      BY <1>0, <1>1, <2>0, <2>1, <3>1 DEF Pin, Places
  <2>2. ASSUME NEW t \in Threads, Fails(t) PROVE EqueueInv'
    <3>1. QueueKept
      BY <2>0, <2>2, StillKeeps DEF Fails
    <3>2. QED
      BY <1>0, <1>1, <2>0, <2>2, <3>1 DEF Fails, Places
  <2>3. ASSUME NEW t \in Threads, NEW k \in Keys, NEW kind \in kinds[k], NEW u \in Udata,
               NEW raised \in BOOLEAN, AddEvent(t, k, kind, u, raised)
        PROVE  EqueueInv'
    <3>1. QueueKept
      BY <2>0, <2>3, AddEventKeeps
    <3>2. SignalFrom(t) /\ UNCHANGED <<closed, clock>>
      BY <2>3 DEF AddEvent
    <3>3. QED
      BY <1>0, <1>1, <2>0, <3>1, <3>2, MovesType
  <2>4. ASSUME NEW t \in Threads, NEW k \in Keys, TriggerEvent(t, k) PROVE EqueueInv'
    <3>1. QueueKept
      BY <2>0, <2>4, TriggerEventKeeps
    <3>2. SignalFrom(t) /\ UNCHANGED <<closed, clock>>
      BY <2>4 DEF TriggerEvent
    <3>3. QED
      BY <1>0, <1>1, <2>0, <3>1, <3>2, MovesType
  <2>5. ASSUME NEW t \in Threads, NEW k \in Keys, DeleteEvent(t, k) PROVE EqueueInv'
    <3>1. QueueKept
      <4>1. /\ Has(k) /\ events' = RemoveAt(events, At(k))
            /\ issued' = [issued EXCEPT ![k] = 0] /\ reported' = [reported EXCEPT ![k] = 0]
        BY <2>5 DEF DeleteEvent
      <4>2. QED
        BY <2>0, <4>1, RemoveKeeps
    <3>2. QED
      BY <1>0, <1>1, <2>0, <2>5, <3>1 DEF DeleteEvent, Places
  <2>6. ASSUME NEW t \in Threads, WaitReturns(t) PROVE EqueueInv'
    <3>1. CASE Report(t)
      <4>1. QueueKept /\ closed' = closed
        BY <2>0, <3>1, ReportKeeps DEF Report
      <4>2. QED
        BY <1>0, <1>1, <2>0, <3>1, <4>1, MovesType
    <3>2. CASE /\ pc' = [pc EXCEPT ![t] = "idle"]
               /\ UNCHANGED <<registered, closed, events, clock, issued, reported>>
      <4>1. QueueKept
        BY <2>0, <3>2, StillKeeps
      <4>2. QED
        BY <1>0, <1>1, <2>0, <3>2, <4>1 DEF Places
    <3>3. QED
      BY <2>6, <3>1, <3>2 DEF WaitReturns
  <2>7. ASSUME NEW t \in Threads, NEW d \in {"none", "running"}, WaitBlocks(t, d)
        PROVE  EqueueInv'
    <3>1. QueueKept
      BY <2>0, <2>7, StillKeeps DEF WaitBlocks
    <3>2. pc' \in [Threads -> Places] /\ clock' \in [Threads -> Clocks] /\ closed' = closed
      BY <1>0, <2>7 DEF WaitBlocks, Places, Clocks
    <3>3. QED
      BY <1>0, <1>1, <2>0, <3>1, <3>2
  <2>8. ASSUME NEW t \in Threads, Poll10ms(t) PROVE EqueueInv'
    <3>1. QueueKept
      BY <2>0, <2>8, StillKeeps DEF Poll10ms
    <3>2. QED
      BY <1>0, <1>1, <2>0, <2>8, <3>1 DEF Poll10ms, Places
  <2>9. ASSUME NEW t \in Threads, Expire(t) PROVE EqueueInv'
    <3>1. QueueKept
      BY <2>0, <2>9, StillKeeps DEF Expire
    <3>2. pc' \in [Threads -> Places] /\ clock' \in [Threads -> Clocks] /\ closed' = closed
      BY <1>0, <2>9 DEF Expire, Places, Clocks
    <3>3. QED
      BY <1>0, <1>1, <2>0, <3>1, <3>2
  <2>10. ASSUME NEW t \in Threads, Recheck(t) PROVE EqueueInv'
    <3>1. CASE Report(t)
      <4>1. QueueKept /\ closed' = closed
        BY <2>0, <3>1, ReportKeeps DEF Report
      <4>2. QED
        BY <1>0, <1>1, <2>0, <3>1, <4>1, MovesType
    <3>2. CASE /\ pc' = [pc EXCEPT ![t] = "idle"]
               /\ clock' = [clock EXCEPT ![t] = "none"]
               /\ UNCHANGED <<registered, closed, events, issued, reported>>
      <4>1. QueueKept
        BY <2>0, <3>2, StillKeeps
      <4>2. pc' \in [Threads -> Places] /\ clock' \in [Threads -> Clocks] /\ closed' = closed
        BY <1>0, <3>2 DEF Places, Clocks
      <4>3. QED
        BY <1>0, <1>1, <2>0, <4>1, <4>2
    <3>3. CASE /\ pc' = [pc EXCEPT ![t] = "asleep"]
               /\ UNCHANGED <<registered, closed, events, clock, issued, reported>>
      <4>1. QueueKept
        BY <2>0, <3>3, StillKeeps
      <4>2. QED
        BY <1>0, <1>1, <2>0, <3>3, <4>1 DEF Places
    <3>4. QED
      BY <2>10, <3>1, <3>2, <3>3 DEF Recheck
  <2>11. ASSUME NEW t \in Threads, Unregister(t) PROVE EqueueInv'
    <3>1. QueueKept
      BY <2>0, <2>11, StillKeeps DEF Unregister
    <3>2. QED
      BY <1>0, <1>1, <2>0, <2>11, <3>1 DEF Unregister, Places
  <2>12. ASSUME NEW t \in Threads, Close(t) PROVE EqueueInv'
    <3>1. events' = << >> /\ DOMAIN events' = {} /\ events' \in Seq(Event)
      BY <2>12, EmptySeq DEF Close
    <3>2. issued' \in [Keys -> Nat] /\ reported' \in [Keys -> Nat] /\ AbsentUnreported'
      BY <2>12 DEF Close, AbsentUnreported
    <3>3. QueueKept
      BY <3>1, <3>2 DEF QueueKept, KeysDistinct, EventsFine
    <3>4. pc' \in [Threads -> Places] /\ clock' = clock /\ closed' = TRUE
      BY <1>0, <2>12 DEF Close, Places
    <3>5. QED
      BY <1>0, <1>1, <2>0, <3>3, <3>4
  <2>13. ASSUME NEW k \in Keys, TimerDue(k) PROVE EqueueInv'
    <3>1. QueueKept
      BY <2>0, <2>13, TimerDueKeeps
    <3>2. QED
      BY <1>0, <1>1, <2>0, <2>13, <3>1 DEF TimerDue
  <2>14. QED
    BY <2>0, <2>1, <2>2, <2>3, <2>4, <2>5, <2>6, <2>7, <2>8, <2>9, <2>10, <2>11, <2>12,
       <2>13 DEF Step
<1>4. QED
  BY <1>2, <1>3

\* The invariant of m_events: types, one event per key, and what each event
\* and each absent key say about what was triggered and reported.
THEOREM EqueueInvariant == Spec => []EqueueInv
<1>1. QED
  BY EqueueInitInv, EqueueNextInv, PTL DEF Spec

\* No occurrence of a queued event is lost, doubled or overtaken, whatever
\* array sizes GetTriggeredEvents is called with, with any number of threads,
\* keys and triggers.
THEOREM QueuedInOrderHolds == Spec => []QueuedInOrder
<1>1. ASSUME EqueueInv PROVE QueuedInOrder
  <2>1. EventsFine
    BY <1>1 DEF EqueueInv
  <2>2. ASSUME NEW i \in DOMAIN events, events[i].kind = "queued"
        PROVE  InOrder(events[i], reported[events[i].key], issued[events[i].key])
    BY <2>1, <2>2 DEF EventsFine, Fine
  <2>3. QED
    BY <2>2 DEF QueuedInOrder, InOrder
<1>2. QED
  BY <1>1, EqueueInvariant, PTL

-----------------------------------------------------------------------------
(***************************************************************************)
(* One signal per trigger.  While a thread sleeps, each step that adds an  *)
(* occurrence wakes a thread, and an awake thread that goes back to sleep  *)
(* or leaves has taken an occurrence or found none.                        *)
(***************************************************************************)
Waiting(q) == [i \in DOMAIN q |-> Len(Occurrences(q[i]))]
ReadyOf(q) == Sums(Waiting(q))[Len(q)]

Edges == \A k \in Keys : kinds[k] \subseteq {"edge", "queued"}

ClosedEmpty == closed => events = << >>

SignalInv == EqueueInv /\ ClosedEmpty /\ SignalPerTrigger

\* The occurrences per event are a sequence of numbers.
LEMMA WaitingFacts ==
    ASSUME NEW q \in Seq(Event)
    PROVE  /\ Waiting(q) \in Seq(Int) /\ Len(Waiting(q)) = Len(q) /\ Len(q) \in Nat
           /\ \A i \in 1 .. Len(q) : /\ Waiting(q)[i] = Len(Occurrences(q[i]))
                                     /\ Waiting(q)[i] \in Nat
           /\ ReadyOf(q) \in Int
<1> DEFINE N == Len(q)
           w == Waiting(q)
<1>1. N \in Nat /\ DOMAIN q = 1 .. N /\ \A i \in 1 .. N : q[i] \in Event
  OBVIOUS
<1>2. ASSUME NEW i \in 1 .. N
      PROVE  w[i] = Len(Occurrences(q[i])) /\ w[i] \in Nat /\ w[i] \in Int
  <2>1. Occurrences(q[i]) \in Seq(Mark)
    BY <1>1, OccurrencesFacts
  <2>2. Len(Occurrences(q[i])) \in Nat
    BY <2>1
  <2>3. w[i] = Len(Occurrences(q[i]))
    BY <1>1 DEF Waiting
  <2>4. QED
    BY <2>2, <2>3
<1>3. w = [i \in 1 .. N |-> w[i]]
  BY <1>1 DEF Waiting
<1> HIDE DEF N, w
<1>4. w \in [1 .. N -> Int]
  BY <1>2, <1>3
<1>5. w \in Seq(Int)
  BY <1>1, <1>4, SeqDef
<1>6. Len(w) = N
  BY <1>1, <1>4, <1>5, LenProperties
<1>7. Sums(w) \in [0 .. N -> Int]
  BY <1>5, <1>6, SumsEquations
<1>8. Sums(w)[N] \in Int
  BY <1>1, <1>7
<1>9. QED
  BY <1>1, <1>2, <1>5, <1>6, <1>8 DEF ReadyOf, N, w

\* Ready as a function of the list of events, before and after a step.
LEMMA ReadyIs == Ready = ReadyOf(events) /\ Ready' = ReadyOf(events')
BY DEF Ready, ReadyOf, Waiting

\* Nothing triggered, nothing ready.
LEMMA NothingReady ==
    ASSUME NEW q \in Seq(Event), \A i \in 1 .. Len(q) : ~q[i].triggered
    PROVE  ReadyOf(q) = 0
<1>1. /\ Waiting(q) \in Seq(Int) /\ Len(Waiting(q)) = Len(q) /\ Len(q) \in Nat
      /\ \A i \in 1 .. Len(q) : Waiting(q)[i] = Len(Occurrences(q[i]))
  BY WaitingFacts
<1>2. ASSUME NEW i \in 1 .. Len(q)
      PROVE  Waiting(q)[i] = 0
  <2>1. q[i] \in Event /\ ~q[i].triggered
    OBVIOUS
  <2>2. Occurrences(q[i]) = << >>
    BY <2>1, OccurrencesFacts
  <2>3. Len(Occurrences(q[i])) = 0
    BY <2>2
  <2>4. QED
    BY <1>1, <2>3
<1>3. Len(q) \in 0 .. Len(Waiting(q))
  BY <1>1
<1>4. QED
  BY <1>1, <1>2, <1>3, SumsZero DEF ReadyOf

\* An empty queue and a queue on which GetTriggeredEvents finds nothing.
LEMMA NothingThere ==
    /\ ReadyOf(<< >>) = 0
    /\ EqueueInv /\ Nothing => Ready = 0
<1>1. ReadyOf(<< >>) = 0
  <2>1. << >> \in Seq(Event) /\ Len(<< >>) = 0
    BY EmptySeq
  <2>2. \A i \in 1 .. Len(<< >>) : ~<< >>[i].triggered
    BY <2>1
  <2>3. QED
    BY <2>1, <2>2, NothingReady
<1>2. ASSUME EqueueInv, Nothing PROVE Ready = 0
  <2>1. events \in Seq(Event) /\ DOMAIN events = 1 .. Len(events)
    BY <1>2 DEF EqueueInv, EqueueType
  <2>2. ASSUME NEW i \in 1 .. Len(events) PROVE ~events[i].triggered
    <3>1. ~TriggerExpiredTimers(events)[i].triggered
      BY <1>2, <2>1 DEF Nothing
    <3>2. /\ TriggerExpiredTimers(events)[i] =
               [events[i] EXCEPT !.triggered = @ \/ events[i].deadline = "expired"]
          /\ events[i] \in Event
      BY <2>1 DEF TriggerExpiredTimers
    <3>3. QED
      BY <3>1, <3>2 DEF Event
  <2>3. QED
    BY <2>1, <2>2, NothingReady, ReadyIs
<1>3. QED
  BY <1>1, <1>2

\* AddEvent adds at most one occurrence.
LEMMA AddReady ==
    ASSUME EqueueInv, NEW t \in Threads, NEW k \in Keys, NEW kind \in kinds[k], NEW u \in Udata,
           NEW raised \in BOOLEAN, AddEvent(t, k, kind, u, raised), UNCHANGED kinds
    PROVE  Ready' <= Ready + 1
<1> DEFINE N == Len(events)
           q == events'
           v == Waiting(events)
           w == Waiting(q)
<1>1. events \in Seq(Event) /\ q \in Seq(Event)
  <2>1. QueueKept
    BY AddEventKeeps
  <2>2. QED
    BY <2>1 DEF EqueueInv, EqueueType, QueueKept
<1>2. /\ v \in Seq(Int) /\ Len(v) = N /\ N \in Nat
      /\ \A i \in 1 .. N : v[i] = Len(Occurrences(events[i])) /\ v[i] \in Nat
      /\ Ready = Sums(v)[N] /\ Ready \in Int
  BY <1>1, WaitingFacts, ReadyIs DEF ReadyOf
<1>3. /\ w \in Seq(Int) /\ Len(w) = Len(q)
      /\ \A i \in 1 .. Len(q) : w[i] = Len(Occurrences(q[i])) /\ w[i] \in Nat
      /\ Ready' = Sums(w)[Len(q)] /\ Ready' \in Int
  BY <1>1, WaitingFacts, ReadyIs DEF ReadyOf
<1> HIDE DEF v, w
<1>4. CASE /\ Len(q) = N
           /\ \A i \in 1 .. N : Len(Occurrences(q[i])) = Len(Occurrences(events[i]))
  <2>1. \A i \in 1 .. Len(v) : w[i] <= v[i]
    BY <1>2, <1>3, <1>4
  <2>2. Sums(w)[Len(v)] <= Sums(v)[Len(v)]
    BY <1>2, <1>3, <1>4, <2>1, SumsCompare
  <2>3. QED
    BY <1>2, <1>3, <1>4, <2>2
<1>5. CASE /\ Len(q) = N + 1
           /\ \A i \in 1 .. N : q[i] = events[i]
           /\ Len(Occurrences(q[N + 1])) <= 1
  <2> DEFINE k1 == N + 1
  <2>1. k1 \in 1 .. Len(w) /\ Len(w) = Len(v) + 1 /\ k1 \in 1 .. Len(q)
    BY <1>2, <1>3, <1>5
  <2>2. \A i \in 1 .. Len(v) : v[i] = w[IF i < k1 THEN i ELSE i + 1]
    <3> SUFFICES ASSUME NEW i \in 1 .. Len(v) PROVE v[i] = w[IF i < k1 THEN i ELSE i + 1]
      OBVIOUS
    <3>1. i < k1 /\ i \in 1 .. N /\ i \in 1 .. Len(q)
      BY <1>2, <1>5
    <3>2. w[i] = v[i]
      BY <1>2, <1>3, <1>5, <3>1
    <3> HIDE DEF k1
    <3>3. QED
      BY <3>1, <3>2
  <2>3. w[k1] <= 1
    BY <1>3, <1>5, <2>1
  <2> HIDE DEF k1
  <2>4. Sums(w)[Len(w)] = Sums(v)[Len(v)] + w[k1]
    BY <1>2, <1>3, <2>1, <2>2, SumsInsert
  <2>5. w[k1] \in Nat
    BY <1>3, <2>1
  <2>6. QED
    BY <1>2, <1>3, <2>3, <2>4, <2>5
<1>6. QED
  BY <1>4, <1>5, AddEventKeeps

\* So does TriggerEvent.
LEMMA TriggerReady ==
    ASSUME EqueueInv, NEW t \in Threads, NEW k \in Keys, TriggerEvent(t, k), UNCHANGED kinds
    PROVE  Ready' <= Ready + 1
<1> DEFINE N == Len(events)
           q == events'
           v == Waiting(events)
           w == Waiting(q)
<1>1. /\ QueueKept /\ Len(q) = N
      /\ \E a \in 1 .. N :
            /\ Len(Occurrences(q[a])) <= Len(Occurrences(events[a])) + 1
            /\ \A i \in 1 .. N : i # a => q[i] = events[i]
  BY TriggerEventKeeps
<1>2. events \in Seq(Event) /\ q \in Seq(Event)
  BY <1>1 DEF EqueueInv, EqueueType, QueueKept
<1>3. /\ v \in Seq(Int) /\ Len(v) = N /\ N \in Nat
      /\ \A i \in 1 .. N : v[i] = Len(Occurrences(events[i])) /\ v[i] \in Nat
      /\ Ready = Sums(v)[N] /\ Ready \in Int
  BY <1>2, WaitingFacts, ReadyIs DEF ReadyOf
<1>4. /\ w \in Seq(Int) /\ Len(w) = N
      /\ \A i \in 1 .. N : w[i] = Len(Occurrences(q[i])) /\ w[i] \in Nat
      /\ Ready' = Sums(w)[N] /\ Ready' \in Int
  <2>1. /\ w \in Seq(Int) /\ Len(w) = Len(q)
        /\ \A i \in 1 .. Len(q) : w[i] = Len(Occurrences(q[i])) /\ w[i] \in Nat
        /\ Ready' = Sums(w)[Len(q)] /\ Ready' \in Int
    BY <1>2, WaitingFacts, ReadyIs DEF ReadyOf
  <2>2. QED
    BY <1>1, <2>1
<1>5. PICK a \in 1 .. N : /\ Len(Occurrences(q[a])) <= Len(Occurrences(events[a])) + 1
                          /\ \A i \in 1 .. N : i # a => q[i] = events[i]
  BY <1>1
<1> HIDE DEF v, w
<1>6. w[a] <= v[a] + 1
  BY <1>3, <1>4, <1>5
<1>7. \A i \in 1 .. Len(v) : i # a => w[i] <= v[i]
  BY <1>3, <1>4, <1>5
<1>8. a \in 1 .. Len(v) /\ Len(w) = Len(v)
  BY <1>3, <1>4
<1>9. Sums(w)[Len(v)] <= Sums(v)[Len(v)] + 1
  BY <1>3, <1>4, <1>6, <1>7, <1>8, SumsBump
<1>10. QED
  BY <1>3, <1>4, <1>9

\* DeleteEvent adds nothing.
LEMMA DeleteReady ==
    ASSUME EqueueInv, NEW t \in Threads, NEW k \in Keys, DeleteEvent(t, k)
    PROVE  Ready' <= Ready
<1> DEFINE N == Len(events)
           a == At(k)
           q == events'
           v == Waiting(q)
           w == Waiting(events)
<1>1. Has(k) /\ q = RemoveAt(events, a) /\ events \in Seq(Event)
  BY DEF DeleteEvent, EqueueInv, EqueueType
<1>2. a \in 1 .. N /\ N \in Nat
  BY <1>1, AtFacts
<1> HIDE DEF a
<1>3. /\ q \in Seq(Event) /\ Len(q) = N - 1
      /\ \A j \in 1 .. N - 1 : q[j] = events[IF j < a THEN j ELSE j + 1]
  BY <1>1, <1>2, RemoveAtFacts
<1>4. /\ w \in Seq(Int) /\ Len(w) = N
      /\ \A i \in 1 .. N : w[i] = Len(Occurrences(events[i])) /\ w[i] \in Nat
      /\ Ready = Sums(w)[N] /\ Ready \in Int
  BY <1>1, WaitingFacts, ReadyIs DEF ReadyOf
<1>5. /\ v \in Seq(Int) /\ Len(v) = N - 1
      /\ \A i \in 1 .. N - 1 : v[i] = Len(Occurrences(q[i]))
      /\ Ready' = Sums(v)[N - 1] /\ Ready' \in Int
  <2>1. /\ v \in Seq(Int) /\ Len(v) = Len(q)
        /\ \A i \in 1 .. Len(q) : v[i] = Len(Occurrences(q[i]))
        /\ Ready' = Sums(v)[Len(q)] /\ Ready' \in Int
    BY <1>3, WaitingFacts, ReadyIs DEF ReadyOf
  <2>2. QED
    BY <1>3, <2>1
<1> HIDE DEF v, w, N
<1>6. Len(w) = Len(v) + 1 /\ a \in 1 .. Len(w)
  BY <1>2, <1>4, <1>5
<1>7. ASSUME NEW i \in 1 .. Len(v)
      PROVE  v[i] = w[IF i < a THEN i ELSE i + 1]
  <2> DEFINE j == IF i < a THEN i ELSE i + 1
  <2>1. i \in 1 .. N - 1 /\ j \in 1 .. N
    BY <1>2, <1>5
  <2> HIDE DEF j
  <2>2. v[i] = Len(Occurrences(q[i])) /\ q[i] = events[j]
    BY <1>3, <1>5, <2>1 DEF j
  <2>3. w[j] = Len(Occurrences(events[j]))
    BY <1>4, <2>1
  <2>4. QED
    BY <2>2, <2>3 DEF j
<1>8. Sums(w)[Len(w)] = Sums(v)[Len(v)] + w[a]
  BY <1>4, <1>5, <1>6, <1>7, SumsInsert
<1>9. QED
  BY <1>2, <1>4, <1>5, <1>8

\* A report takes at least one occurrence and adds none.
LEMMA HarvestReady ==
    ASSUME EqueueInv, Edges, NEW n \in Nums, ~Nothing, events' = Harvest(n).left
    PROVE  Ready' < Ready
<1> DEFINE N == Len(events)
           es == TriggerExpiredTimers(events)
           seqs == [i \in 1 .. N |-> Got(n, i).left]
           q == events'
           v == Waiting(events)
           w == Waiting(q)
<1>1. /\ es \in Seq(Event) /\ Len(es) = N /\ N \in Nat
      /\ DOMAIN es = 1 .. N /\ DOMAIN events = 1 .. N
      /\ \A i \in 1 .. N :
            /\ events[i] \in Event /\ es[i].kind = events[i].kind /\ es[i].key = events[i].key
            /\ es[i].kind # "timer" => es[i] = events[i]
            /\ Fine(es[i], kinds[es[i].key], reported[es[i].key], issued[es[i].key])
  BY ExpiredFacts
<1>2. events \in Seq(Event) /\ n \in Nat \ {0}
  BY EqueueAssumption DEF EqueueInv, EqueueType
<1>3. /\ seqs \in Seq(Seq(Event)) /\ Len(seqs) = N /\ q = FlattenSeq(seqs)
      /\ \A i \in 1 .. N :
            \/ es[i].kind = "timer"
            \/ \E f \in Event :
                  /\ seqs[i] = <<f>>
                  /\ es[i].kind \in {"edge", "queued"} =>
                        /\ Len(Occurrences(f)) <= Len(Occurrences(es[i]))
                        /\ (Room(es, n, i) # 0 /\ es[i].triggered)
                              => Len(Occurrences(f)) < Len(Occurrences(es[i]))
  BY HarvestParts
<1>4. PICK first \in 1 .. N : es[first].triggered /\ \A j \in 1 .. first - 1 : ~es[j].triggered
  <2> DEFINE T == {i \in 1 .. N : es[i].triggered}
  <2>1. T # {} /\ T \subseteq Nat
    BY <1>1 DEF Nothing
  <2>2. PICK i \in T : \A j \in T : i <= j
    BY <2>1, LeastElement
  <2>3. ASSUME NEW j \in 1 .. i - 1 PROVE ~es[j].triggered
    <3>1. j \in 1 .. N /\ ~(i <= j)
      BY <1>1, <2>2
    <3>2. QED
      BY <2>2, <3>1
  <2>4. QED
    BY <2>2, <2>3
<1>5. Room(es, n, first) # 0
  BY <1>1, <1>2, <1>4, RoomFacts
<1> HIDE DEF es, seqs, N
<1>6. ASSUME NEW i \in 1 .. N
      PROVE  es[i].kind \in {"edge", "queued"} /\ es[i] = events[i]
  <2>1. es[i].kind \in kinds[es[i].key] /\ es[i].key \in Keys
    BY <1>1 DEF Fine, Sound, Event
  <2>2. QED
    BY <1>1, <2>1 DEF Edges
<1>7. ASSUME NEW i \in 1 .. N
      PROVE  \E f \in Event :
                /\ seqs[i] = <<f>>
                /\ Len(Occurrences(f)) <= Len(Occurrences(events[i]))
                /\ i = first => Len(Occurrences(f)) < Len(Occurrences(events[i]))
  <2>1. es[i].kind \in {"edge", "queued"} /\ es[i] = events[i] /\ es[i].kind # "timer"
    BY <1>6
  <2>2. QED
    BY <1>3, <1>4, <1>5, <2>1
<1>8. /\ q \in Seq(Event) /\ Len(q) = N
      /\ \A i \in 1 .. N : seqs[i] = <<q[i]>>
  <2>1. \A i \in 1 .. Len(seqs) : \E f \in Event : seqs[i] = <<f>>
    BY <1>3, <1>7
  <2>2. /\ FlattenSeq(seqs) \in Seq(Event) /\ Len(FlattenSeq(seqs)) = Len(seqs)
        /\ \A i \in 1 .. Len(seqs) : seqs[i] = <<FlattenSeq(seqs)[i]>>
    BY <1>3, <2>1, FlattenSingles
  <2>3. QED
    BY <1>3, <2>2
<1>9. ASSUME NEW i \in 1 .. N
      PROVE  /\ Len(Occurrences(q[i])) <= Len(Occurrences(events[i]))
             /\ i = first => Len(Occurrences(q[i])) < Len(Occurrences(events[i]))
  <2>1. PICK f \in Event :
                /\ seqs[i] = <<f>>
                /\ Len(Occurrences(f)) <= Len(Occurrences(events[i]))
                /\ i = first => Len(Occurrences(f)) < Len(Occurrences(events[i]))
    BY <1>7
  <2>2. <<f>>[1] = <<q[i]>>[1]
    BY <1>8, <2>1
  <2>3. f = q[i]
    BY <2>2
  <2>4. QED
    BY <2>1, <2>3
<1>10. /\ v \in Seq(Int) /\ Len(v) = N
       /\ \A i \in 1 .. N : v[i] = Len(Occurrences(events[i])) /\ v[i] \in Nat
       /\ Ready = Sums(v)[N] /\ Ready \in Int
  BY <1>2, WaitingFacts, ReadyIs DEF ReadyOf, N
<1>11. /\ w \in Seq(Int) /\ Len(w) = N
       /\ \A i \in 1 .. N : w[i] = Len(Occurrences(q[i])) /\ w[i] \in Nat
       /\ Ready' = Sums(w)[N] /\ Ready' \in Int
  <2>1. /\ w \in Seq(Int) /\ Len(w) = Len(q)
        /\ \A i \in 1 .. Len(q) : w[i] = Len(Occurrences(q[i])) /\ w[i] \in Nat
        /\ Ready' = Sums(w)[Len(q)] /\ Ready' \in Int
    BY <1>8, WaitingFacts, ReadyIs DEF ReadyOf
  <2>2. QED
    BY <1>8, <2>1
<1> HIDE DEF v, w
<1>12. (\A i \in 1 .. Len(v) : w[i] <= v[i]) /\ w[first] < v[first] /\ first \in 1 .. Len(v)
  BY <1>9, <1>10, <1>11
<1>13. Sums(w)[Len(v)] < Sums(v)[Len(v)]
  BY <1>10, <1>11, <1>12, SumsCompare
<1>14. QED
  BY <1>10, <1>11, <1>13

\* The awake threads are finitely many: Cardinality counts them.
LEMMA AwakeFacts ==
    ASSUME NEW A \in SUBSET Threads
    PROVE  /\ Cardinality(A) \in Nat
           /\ \A S \in SUBSET Threads : A \subseteq S => Cardinality(A) <= Cardinality(S)
           /\ \A u \in Threads \ A : Cardinality(A \cup {u}) = Cardinality(A) + 1
           /\ \A u \in A : Cardinality(A \ {u}) = Cardinality(A) - 1
<1>1. IsFiniteSet(Threads)
  BY EqueueAssumption
<1>2. IsFiniteSet(A)
  BY <1>1, FS_Subset
<1>3. Cardinality(A) \in Nat
  BY <1>2, FS_CardinalityType
<1>4. ASSUME NEW S \in SUBSET Threads, A \subseteq S
      PROVE  Cardinality(A) <= Cardinality(S)
  <2>1. IsFiniteSet(S)
    BY <1>1, FS_Subset
  <2>2. QED
    BY <1>4, <2>1, FS_Subset
<1>5. ASSUME NEW u \in Threads \ A
      PROVE  Cardinality(A \cup {u}) = Cardinality(A) + 1
  BY <1>2, FS_AddElement
<1>6. ASSUME NEW u \in A
      PROVE  Cardinality(A \ {u}) = Cardinality(A) - 1
  BY <1>2, FS_RemoveElement
<1>7. QED
  BY <1>3, <1>4, <1>5, <1>6

\* The second half of SignalPerTrigger.
Enough == Asleep # {} => Ready <= Cardinality(Awake)

\* The steps that keep Enough: nothing becomes ready and nobody goes to sleep
\* or leaves; an occurrence is added and a thread signalled; an awake thread
\* leaves with an occurrence; nothing is ready.
LEMMA EnoughKept ==
    ASSUME pc \in [Threads -> Places], pc' \in [Threads -> Places], NEW t \in Threads, Enough,
           Ready \in Int, Ready' \in Int
    PROVE  /\ Ready' <= Ready /\ Asleep' \subseteq Asleep /\ Awake \subseteq Awake' => Enough'
           /\ Ready' <= Ready + 1 /\ pc[t] = "pinned" /\ SignalFrom(t) => Enough'
           /\ Ready' < Ready /\ pc[t] = "awake" /\ pc' = [pc EXCEPT ![t] = "idle"] => Enough'
           /\ Ready' = 0 => Enough'
<1>1. /\ Awake \in SUBSET Threads /\ Awake' \in SUBSET Threads
      /\ Cardinality(Awake) \in Nat /\ Cardinality(Awake') \in Nat
  <2>1. Awake \in SUBSET Threads /\ Awake' \in SUBSET Threads
    BY DEF Awake
  <2>2. QED
    BY <2>1, AwakeFacts
<1>2. ASSUME Ready' <= Ready, Asleep' \subseteq Asleep, Awake \subseteq Awake'
      PROVE  Enough'
  <2>1. Cardinality(Awake) <= Cardinality(Awake')
    BY <1>1, <1>2, AwakeFacts
  <2>2. QED
    BY <1>1, <1>2, <2>1 DEF Enough
<1>3. ASSUME Ready' <= Ready + 1, pc[t] = "pinned", SignalFrom(t)
      PROVE  Enough'
  <2>1. ASSUME NEW u \in Asleep, pc' = [pc EXCEPT ![t] = "idle", ![u] = "awake"]
        PROVE  Enough'
    <3>1. u # t /\ u \in Threads \ Awake
      BY <1>3 DEF Asleep, Awake
    <3>2. Awake' = Awake \cup {u}
      BY <1>3, <2>1, <3>1 DEF Awake
    <3>3. Cardinality(Awake') = Cardinality(Awake) + 1
      BY <1>1, <3>1, <3>2, AwakeFacts
    <3>4. Ready <= Cardinality(Awake)
      BY DEF Enough
    <3>5. QED
      BY <1>1, <1>3, <3>3, <3>4 DEF Enough
  <2>2. ASSUME Asleep = {}, pc' = [pc EXCEPT ![t] = "idle"]
        PROVE  Enough'
    <3>1. Asleep' = {}
      BY <2>2 DEF Asleep
    <3>2. QED
      BY <3>1 DEF Enough
  <2>3. QED
    BY <1>3, <2>1, <2>2 DEF SignalFrom
<1>4. ASSUME Ready' < Ready, pc[t] = "awake", pc' = [pc EXCEPT ![t] = "idle"]
      PROVE  Enough'
  <2>1. t \in Awake /\ Awake' = Awake \ {t} /\ Asleep' = Asleep
    BY <1>4 DEF Awake, Asleep
  <2>2. Cardinality(Awake') = Cardinality(Awake) - 1
    BY <1>1, <2>1, AwakeFacts
  <2>3. QED
    BY <1>1, <1>4, <2>1, <2>2 DEF Enough
<1>5. ASSUME Ready' = 0 PROVE Enough'
  BY <1>1, <1>5 DEF Enough
<1>6. QED
  BY <1>2, <1>3, <1>4, <1>5

\* A thread that is not asleep or awake moves between the other places.
LEMMA MovesElsewhere ==
    ASSUME pc \in [Threads -> Places], NEW t \in Threads,
           pc[t] \in {"idle", "pinned", "closing"}, NEW p \in {"idle", "pinned", "closing"},
           pc' = [pc EXCEPT ![t] = p]
    PROVE  Asleep' \subseteq Asleep /\ Awake \subseteq Awake'
BY DEF Asleep, Awake

\* SignalPerTrigger is kept by every step, given what m_events looks like.
LEMMA SignalNextInv == SignalInv /\ EqueueInv' /\ [Next]_vars => SignalInv'
<1> SUFFICES ASSUME SignalInv, EqueueInv', [Next]_vars PROVE SignalInv'
  OBVIOUS
<1>0. /\ EqueueInv /\ ClosedEmpty /\ events \in Seq(Event) /\ events' \in Seq(Event)
      /\ pc \in [Threads -> Places] /\ pc' \in [Threads -> Places]
  BY DEF SignalInv, EqueueInv, EqueueType, Places
<1>1. Ready \in Int /\ Ready' \in Int
  BY <1>0, WaitingFacts, ReadyIs
<1>2. ASSUME events' = events PROVE Ready' = Ready
  BY <1>2, ReadyIs
<1>3. ASSUME ClosedEmpty', kinds' = kinds, Edges => Enough'
      PROVE  SignalInv'
  BY <1>3 DEF SignalInv, SignalPerTrigger, Edges, Enough
<1>4. Edges => Enough
  BY DEF SignalInv, SignalPerTrigger, Edges, Enough
<1>5. ASSUME NEW t \in Threads, Edges, Ready' <= Ready, Asleep' \subseteq Asleep,
             Awake \subseteq Awake'
      PROVE  Enough'
  BY <1>0, <1>1, <1>4, <1>5, EnoughKept
<1>6. ASSUME NEW t \in Threads, Edges, Ready' <= Ready + 1, pc[t] = "pinned", SignalFrom(t)
      PROVE  Enough'
  BY <1>0, <1>1, <1>4, <1>6, EnoughKept
<1>7. ASSUME NEW t \in Threads, Edges, Ready' < Ready, pc[t] = "awake",
             pc' = [pc EXCEPT ![t] = "idle"]
      PROVE  Enough'
  BY <1>0, <1>1, <1>4, <1>7, EnoughKept
<1>8. ASSUME NEW t \in Threads, Edges, Ready' = 0
      PROVE  Enough'
  BY <1>0, <1>1, <1>4, <1>8, EnoughKept
<1>9. ASSUME NEW t \in Threads, UNCHANGED <<closed, events, kinds>>,
             pc[t] \in {"idle", "pinned", "closing"}, NEW p \in {"idle", "pinned", "closing"},
             pc' = [pc EXCEPT ![t] = p]
      PROVE  SignalInv'
  <2>1. Asleep' \subseteq Asleep /\ Awake \subseteq Awake'
    BY <1>0, <1>9, MovesElsewhere
  <2>2. Ready' <= Ready
    BY <1>1, <1>2, <1>9
  <2>3. ClosedEmpty'
    BY <1>0, <1>9 DEF ClosedEmpty
  <2>4. QED
    BY <1>3, <1>5, <1>9, <2>1, <2>2, <2>3
<1>10. CASE UNCHANGED vars
  <2>1. UNCHANGED <<kinds, closed, pc, events>>
    BY <1>10 DEF vars, queueVars
  <2>2. Asleep' = Asleep /\ Awake' = Awake /\ Ready' = Ready
    BY <1>2, <2>1 DEF Asleep, Awake
  <2>3. ClosedEmpty'
    BY <1>0, <2>1 DEF ClosedEmpty
  <2>4. Edges => Enough'
    BY <1>4, <2>2 DEF Enough
  <2>5. QED
    BY <1>3, <2>1, <2>3, <2>4
<1>11. CASE Next
  <2>0. Step /\ kinds' = kinds
    BY <1>11 DEF Next
  <2>1. ASSUME NEW t \in Threads, Pin(t) PROVE SignalInv'
    BY <1>9, <2>0, <2>1 DEF Pin
  <2>2. ASSUME NEW t \in Threads, Fails(t) PROVE SignalInv'
    BY <1>9, <2>0, <2>2 DEF Fails
  <2>3. ASSUME NEW t \in Threads, NEW k \in Keys, NEW kind \in kinds[k], NEW u \in Udata,
               NEW raised \in BOOLEAN, AddEvent(t, k, kind, u, raised)
        PROVE  SignalInv'
    <3>1. Ready' <= Ready + 1
      BY <1>0, <2>0, <2>3, AddReady
    <3>2. pc[t] = "pinned" /\ SignalFrom(t) /\ ~closed /\ closed' = closed
      BY <2>3 DEF AddEvent
    <3>3. ClosedEmpty'
      BY <3>2 DEF ClosedEmpty
    <3>4. QED
      BY <1>3, <1>6, <2>0, <3>1, <3>2, <3>3
  <2>4. ASSUME NEW t \in Threads, NEW k \in Keys, TriggerEvent(t, k) PROVE SignalInv'
    <3>1. Ready' <= Ready + 1
      BY <1>0, <2>0, <2>4, TriggerReady
    <3>2. pc[t] = "pinned" /\ SignalFrom(t) /\ ~closed /\ closed' = closed
      BY <2>4 DEF TriggerEvent
    <3>3. ClosedEmpty'
      BY <3>2 DEF ClosedEmpty
    <3>4. QED
      BY <1>3, <1>6, <2>0, <3>1, <3>2, <3>3
  <2>5. ASSUME NEW t \in Threads, NEW k \in Keys, DeleteEvent(t, k) PROVE SignalInv'
    <3>1. Ready' <= Ready
      BY <1>0, <2>5, DeleteReady
    <3>2. /\ pc[t] = "pinned" /\ pc' = [pc EXCEPT ![t] = "idle"] /\ ~closed /\ closed' = closed
      BY <2>5 DEF DeleteEvent
    <3>3. Asleep' \subseteq Asleep /\ Awake \subseteq Awake'
      BY <1>0, <3>2, MovesElsewhere
    <3>4. ClosedEmpty'
      BY <3>2 DEF ClosedEmpty
    <3>5. QED
      BY <1>3, <1>5, <2>0, <3>1, <3>3, <3>4
  <2>6. ASSUME NEW t \in Threads, Report(t), ~closed, pc[t] \in {"pinned", "awake"}
        PROVE  SignalInv'
    <3>1. Edges => Ready' < Ready
      <4>1. PICK n \in Nums : events' = Harvest(n).left
        BY <2>6 DEF Report
      <4>2. ~Nothing
        BY <2>6 DEF Report
      <4>3. QED
        BY <1>0, <4>1, <4>2, HarvestReady
    <3>2. pc' = [pc EXCEPT ![t] = "idle"] /\ closed' = closed
      BY <2>6 DEF Report
    <3>3. ClosedEmpty'
      BY <2>6, <3>2 DEF ClosedEmpty
    <3>4. CASE pc[t] = "awake"
      BY <1>3, <1>7, <2>0, <3>1, <3>2, <3>3, <3>4
    <3>5. CASE pc[t] = "pinned"
      <4>1. Asleep' \subseteq Asleep /\ Awake \subseteq Awake'
        BY <1>0, <3>2, <3>5, MovesElsewhere
      <4>2. Edges => Ready' <= Ready
        BY <1>1, <3>1
      <4>3. QED
        BY <1>3, <1>5, <2>0, <3>3, <4>1, <4>2
    <3>6. QED
      BY <2>6, <3>4, <3>5
  <2>7. ASSUME NEW t \in Threads, Nothing \/ closed, UNCHANGED <<events, closed>>
        PROVE  SignalInv'
    <3>1. Ready = 0
      <4>1. CASE Nothing
        BY <1>0, <4>1, NothingThere
      <4>2. CASE closed
        BY <1>0, <4>2, NothingThere, ReadyIs DEF ClosedEmpty
      <4>3. QED
        BY <2>7, <4>1, <4>2
    <3>2. Ready' = 0
      BY <1>2, <2>7, <3>1
    <3>3. ClosedEmpty'
      BY <1>0, <2>7 DEF ClosedEmpty
    <3>4. QED
      BY <1>3, <1>8, <2>0, <3>2, <3>3
  <2>8. ASSUME NEW t \in Threads, WaitReturns(t) PROVE SignalInv'
    <3>1. CASE Report(t)
      BY <2>6, <2>8, <3>1 DEF WaitReturns
    <3>2. CASE Nothing /\ UNCHANGED <<events, closed>>
      BY <2>7, <3>2
    <3>3. QED
      BY <2>8, <3>1, <3>2 DEF WaitReturns
  <2>9. ASSUME NEW t \in Threads, NEW d \in {"none", "running"}, WaitBlocks(t, d)
        PROVE  SignalInv'
    BY <2>7, <2>9 DEF WaitBlocks
  <2>10. ASSUME NEW t \in Threads, Poll10ms(t) \/ Expire(t) PROVE SignalInv'
    <3>1. pc' = [pc EXCEPT ![t] = "awake"] /\ UNCHANGED <<events, closed>>
      BY <2>10 DEF Poll10ms, Expire
    <3>2. Asleep' \subseteq Asleep /\ Awake \subseteq Awake'
      BY <1>0, <3>1 DEF Asleep, Awake
    <3>3. ClosedEmpty'
      BY <1>0, <3>1 DEF ClosedEmpty
    <3>4. Ready' <= Ready
      BY <1>1, <1>2, <3>1
    <3>5. QED
      BY <1>3, <1>5, <2>0, <3>2, <3>3, <3>4
  <2>11. ASSUME NEW t \in Threads, Recheck(t) PROVE SignalInv'
    <3>1. CASE ~closed /\ Report(t)
      BY <2>6, <2>11, <3>1 DEF Recheck
    <3>2. CASE (Nothing \/ closed) /\ UNCHANGED <<events, closed>>
      BY <2>7, <3>2
    <3>3. QED
      BY <2>11, <3>1, <3>2 DEF Recheck
  <2>12. ASSUME NEW t \in Threads, Unregister(t) PROVE SignalInv'
    BY <1>9, <2>0, <2>12 DEF Unregister
  <2>13. ASSUME NEW t \in Threads, Close(t) PROVE SignalInv'
    <3>1. events' = << >>
      BY <2>13 DEF Close
    <3>2. Ready' = 0 /\ ClosedEmpty'
      BY <3>1, NothingThere, ReadyIs DEF ClosedEmpty
    <3>3. QED
      BY <1>3, <1>8, <2>0, <3>2
  <2>14. ASSUME NEW k \in Keys, TimerDue(k) PROVE SignalInv'
    <3>1. ~Edges
      BY <1>0, <2>0, <2>14, TimerDueKeeps DEF Edges
    <3>2. Has(k) /\ closed' = closed
      BY <2>14 DEF TimerDue
    <3>3. ~closed
      BY <1>0, <3>2 DEF ClosedEmpty, Has
    <3>4. ClosedEmpty'
      BY <3>2, <3>3 DEF ClosedEmpty
    <3>5. QED
      BY <1>3, <2>0, <3>1, <3>4
  <2>15. QED
    BY <2>0, <2>1, <2>2, <2>3, <2>4, <2>5, <2>8, <2>9, <2>10, <2>11, <2>12, <2>13,
       <2>14 DEF Step
<1>12. QED
  BY <1>10, <1>11

\* One notify_one per trigger is enough on a queue of edge and queued events,
\* with any number of threads, array sizes and triggers: while a thread sleeps,
\* no more occurrences are ready than threads are awake.
THEOREM SignalPerTriggerHolds == Spec => []SignalPerTrigger
<1>1. Init => SignalInv
  <2> SUFFICES ASSUME Init PROVE SignalInv
    OBVIOUS
  <2>1. EqueueInv /\ ClosedEmpty
    BY EqueueInitInv DEF Init, ClosedEmpty
  <2>2. Asleep = {}
    BY DEF Init, Asleep
  <2>3. QED
    BY <2>1, <2>2 DEF SignalInv, SignalPerTrigger
<1>2. SignalInv /\ [Next]_vars => SignalInv'
  <2>1. SignalInv => EqueueInv
    BY DEF SignalInv
  <2>2. QED
    BY <2>1, EqueueNextInv, SignalNextInv
<1>3. SignalInv => SignalPerTrigger
  BY DEF SignalInv
<1>4. QED
  BY <1>1, <1>2, <1>3, PTL DEF Spec
==============================================================================
