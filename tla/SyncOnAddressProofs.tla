-------------------------- MODULE SyncOnAddressProofs --------------------------
(***************************************************************************)
(* Proofs about SyncOnAddress, for any finite set of threads, any words    *)
(* and wake counts: the invariants of the registry, and that the portable  *)
(* implementation implements AddressWait.                                  *)
(***************************************************************************)
EXTENDS SyncOnAddress, FiniteSetTheorems, SequenceTheorems, WellFoundedInduction, TLAPS

-----------------------------------------------------------------------------
(***************************************************************************)
(* Filter.  The provers take no induction rule with an operator parameter; *)
(* the rule for sequences is stated with a set in its place.               *)
(***************************************************************************)

\* Every non-empty set of natural numbers has a smallest element.
LEMMA SmallestNat ==
    ASSUME NEW M, M \subseteq Nat, M # {}
    PROVE  \E x \in M : \A y \in M : x <= y
<1> DEFINE R == {ss \in Nat \X Nat : ss[1] < ss[2]}
<1>1. IsWellFoundedOn(R, Nat)
  BY NatLessThanWellFounded DEF OpToRel
<1>2. PICK x \in M : \A y \in M : ~ (<<y, x>> \in R)
  BY <1>1, WFMin
<1>3. ASSUME NEW y \in M PROVE x <= y
  <2>1. <<y, x>> \in Nat \X Nat /\ ~ (<<y, x>>[1] < <<y, x>>[2])
    BY <1>2
  <2> QED
    BY <2>1
<1> QED
  BY <1>3

\* A set of numbers with 0 that is closed under successor up to N reaches N.
LEMMA CountUp ==
    ASSUME NEW N \in Nat, NEW G, 0 \in G,
           \A n \in 0 .. N - 1 : n \in G => n + 1 \in G
    PROVE  0 .. N \subseteq G
<1> DEFINE M == {n \in 0 .. N : n \notin G}
<1> SUFFICES ASSUME M # {} PROVE FALSE
  OBVIOUS
<1>0. M \subseteq Nat
  OBVIOUS
<1> HIDE DEF M
<1>1. PICK x \in M : \A y \in M : x <= y
  BY <1>0, SmallestNat
<1> USE DEF M
<1>2. x # 0 /\ x - 1 \in 0 .. N - 1 /\ x - 1 \notin M
  BY <1>1
<1>3. x - 1 \in G /\ (x - 1) + 1 = x
  BY <1>2
<1> QED
  BY <1>2, <1>3

\* A set with the empty sequence that is closed under Append has them all.
LEMMA SeqInduction ==
    ASSUME NEW S, NEW P, << >> \in P,
           \A s \in Seq(S), x \in S : s \in P => Append(s, x) \in P
    PROVE  Seq(S) \subseteq P
<1> DEFINE G == {n \in Nat : \A s \in Seq(S) : Len(s) = n => s \in P}
<1>1. 0 \in G
  BY EmptySeq
<1>2. ASSUME NEW n \in Nat, n \in G PROVE n + 1 \in G
  <2> SUFFICES ASSUME NEW s \in Seq(S), Len(s) = n + 1 PROVE s \in P
    OBVIOUS
  <2>1. s # << >>
    OBVIOUS
  <2>2. PICK p \in Seq(S), x \in S : s = Append(p, x)
    BY <2>1, SequenceEmptyOrAppend
  <2>3. Len(p) = n
    BY <2>2, AppendProperties
  <2> QED
    BY <1>2, <2>2, <2>3
<1> HIDE DEF G
<1>3. ASSUME NEW s \in Seq(S) PROVE s \in P
  <2>1. Len(s) \in Nat
    OBVIOUS
  <2>2. \A n \in 0 .. Len(s) - 1 : n \in G => n + 1 \in G
    BY <1>2, <2>1
  <2>3. 0 .. Len(s) \subseteq G
    BY <1>1, <2>1, <2>2, CountUp
  <2> QED
    BY <2>1, <2>3 DEF G
<1> QED
  BY <1>3

\* What one element does to what is kept so far.
KeepNext(s, A, i, k) == IF s[i] \in A THEN Append(k, s[i]) ELSE k

\* The recursion of Kept has the solution one expects.
LEMMA KeptEquations ==
    ASSUME NEW S, NEW s \in Seq(S), NEW A
    PROVE  /\ Kept(s, A) \in [0 .. Len(s) -> Seq(S)]
           /\ Kept(s, A)[0] = << >>
           /\ \A i \in 1 .. Len(s) : Kept(s, A)[i] = KeepNext(s, A, i, Kept(s, A)[i - 1])
<1> DEFINE N == Len(s)
           Sol(n, g) == /\ g \in [0 .. n -> Seq(S)]
                        /\ g[0] = << >>
                        /\ \A i \in 1 .. n : g[i] = KeepNext(s, A, i, g[i - 1])
           G == {n \in Nat : n <= N => \E g : Sol(n, g)}
<1>0. N \in Nat /\ \A i \in 1 .. N : s[i] \in S
  OBVIOUS
<1>1. ASSUME NEW i \in 1 .. N, NEW k \in Seq(S) PROVE KeepNext(s, A, i, k) \in Seq(S)
  BY <1>0, AppendProperties DEF KeepNext
<1>2. 0 \in G
  <2> DEFINE g == [i \in 0 .. 0 |-> << >>]
  <2>1. g \in [0 .. 0 -> Seq(S)] /\ g[0] = << >> /\ \A i \in 1 .. 0 : g[i] = KeepNext(s, A, i, g[i - 1])
    BY EmptySeq
  <2> HIDE DEF g
  <2> QED
    BY <2>1
<1>3. ASSUME NEW n \in 0 .. N - 1, n \in G PROVE n + 1 \in G
  <2>0. n \in Nat /\ n <= N /\ n + 1 \in Nat
    BY <1>0
  <2>1. PICK g : Sol(n, g)
    <3> HIDE DEF Sol
    <3> QED
      BY <1>3, <2>0
  <2> DEFINE h == [i \in 0 .. n + 1 |-> IF i <= n THEN g[i] ELSE KeepNext(s, A, n + 1, g[n])]
  <2>2. KeepNext(s, A, n + 1, g[n]) \in Seq(S)
    BY <1>0, <1>1, <2>1
  <2>3. h \in [0 .. n + 1 -> Seq(S)] /\ h[0] = << >>
    BY <2>1, <2>2
  <2>4. ASSUME NEW i \in 1 .. n + 1 PROVE h[i] = KeepNext(s, A, i, h[i - 1])
    <3>1. CASE i <= n
      <4>1. h[i] = g[i] /\ h[i - 1] = g[i - 1] /\ i \in 1 .. n
        BY <3>1
      <4> QED
        BY <2>1, <4>1
    <3>2. CASE i = n + 1
      <4>1. h[i] = KeepNext(s, A, n + 1, g[n]) /\ h[i - 1] = g[n]
        BY <3>2
      <4> QED
        BY <3>2, <4>1
    <3> QED
      BY <3>1, <3>2
  <2> HIDE DEF h
  <2>5. Sol(n + 1, h)
    BY <2>3, <2>4
  <2> HIDE DEF Sol
  <2> QED
    BY <2>0, <2>5
<1> HIDE DEF G
<1>4. N \in G
  <2>1. \A n \in 0 .. N - 1 : n \in G => n + 1 \in G
    BY <1>3
  <2>2. 0 .. N \subseteq G
    BY <1>0, <1>2, <2>1, CountUp
  <2> QED
    BY <1>0, <2>2
<1>5. PICK g : Sol(N, g)
  BY <1>0, <1>4 DEF G
<1> DEFINE Body(f) == [i \in 0 .. N |-> IF i = 0 THEN << >>
                                        ELSE IF s[i] \in A THEN Append(f[i - 1], s[i]) ELSE f[i - 1]]
<1>6. g = Body(g)
  <2>1. g = [i \in 0 .. N |-> g[i]]
    BY <1>5
  <2>2. \A i \in 0 .. N : g[i] = IF i = 0 THEN << >>
                                 ELSE IF s[i] \in A THEN Append(g[i - 1], s[i]) ELSE g[i - 1]
    <3> SUFFICES ASSUME NEW i \in 0 .. N
                 PROVE  g[i] = IF i = 0 THEN << >>
                               ELSE IF s[i] \in A THEN Append(g[i - 1], s[i]) ELSE g[i - 1]
      OBVIOUS
    <3>1. CASE i = 0
      BY <1>5, <3>1
    <3>2. CASE i # 0
      <4>1. i \in 1 .. N
        BY <1>0, <3>2
      <4>2. g[i] = KeepNext(s, A, i, g[i - 1])
        BY <1>5, <4>1
      <4> QED
        BY <3>2, <4>2 DEF KeepNext
    <3> QED
      BY <3>1, <3>2
  <2> QED
    BY <2>1, <2>2
<1>7. Kept(s, A) = CHOOSE f : f = Body(f)
  BY DEF Kept
<1>8. Kept(s, A) = Body(Kept(s, A))
  <2> HIDE DEF Body
  <2> QED
    BY <1>6, <1>7
<1> DEFINE F == Kept(s, A)
<1> HIDE DEF F
<1>9. /\ DOMAIN F = 0 .. N
      /\ F = [i \in 0 .. N |-> F[i]]
      /\ F[0] = << >>
      /\ \A i \in 1 .. N : F[i] = KeepNext(s, A, i, F[i - 1])
  <2>1. F = Body(F)
    BY <1>8 DEF F
  <2>2. DOMAIN F = 0 .. N /\ F = [i \in 0 .. N |-> F[i]]
    BY <2>1
  <2>3. \A i \in 0 .. N : F[i] = IF i = 0 THEN << >>
                                 ELSE IF s[i] \in A THEN Append(F[i - 1], s[i]) ELSE F[i - 1]
    BY <2>1
  <2>4. F[0] = << >>
    BY <1>0, <2>3
  <2>5. ASSUME NEW i \in 1 .. N PROVE F[i] = KeepNext(s, A, i, F[i - 1])
    <3>1. i \in 0 .. N /\ i # 0
      BY <1>0
    <3> QED
      BY <2>3, <3>1 DEF KeepNext
  <2> QED
    BY <2>2, <2>4, <2>5
<1>10. 0 .. N \subseteq {n \in 0 .. N : F[n] \in Seq(S)}
  <2>1. 0 \in {n \in 0 .. N : F[n] \in Seq(S)}
    BY <1>0, <1>9, EmptySeq
  <2>2. \A n \in 0 .. N - 1 : n \in {m \in 0 .. N : F[m] \in Seq(S)}
                              => n + 1 \in {m \in 0 .. N : F[m] \in Seq(S)}
    <3> SUFFICES ASSUME NEW n \in 0 .. N - 1, F[n] \in Seq(S) PROVE F[n + 1] \in Seq(S)
      BY <1>0
    <3>1. n + 1 \in 1 .. N /\ (n + 1) - 1 = n
      BY <1>0
    <3> QED
      BY <1>1, <1>9, <3>1
  <2> QED
    BY <1>0, <2>1, <2>2, CountUp
<1>11. F \in [0 .. N -> Seq(S)]
  BY <1>9, <1>10
<1> QED
  BY <1>9, <1>11 DEF F

\* No element occurs twice.
Distinct(s) == \A i, j \in 1 .. Len(s) : s[i] = s[j] => i = j

\* Append as a function, and what it adds to the elements.
LEMMA AppendFacts ==
    ASSUME NEW S, NEW s \in Seq(S), NEW x \in S
    PROVE  /\ Append(s, x) \in Seq(S)
           /\ Len(Append(s, x)) = Len(s) + 1
           /\ \A i \in 1 .. Len(s) : Append(s, x)[i] = s[i]
           /\ Append(s, x)[Len(s) + 1] = x
           /\ Range(Append(s, x)) = Range(s) \cup {x}
           /\ Distinct(Append(s, x)) <=> Distinct(s) /\ x \notin Range(s)
<1> DEFINE r == Append(s, x)
           n == Len(s)
<1>1. /\ r \in Seq(S) /\ Len(r) = n + 1 /\ n \in Nat
      /\ \A i \in 1 .. n : r[i] = s[i]
      /\ r[n + 1] = x
  BY AppendProperties
<1> HIDE DEF r
<1>2. DOMAIN r = 1 .. n + 1 /\ DOMAIN s = 1 .. n
  BY <1>1
<1>3. Range(r) = Range(s) \cup {x}
  <2>1. ASSUME NEW i \in 1 .. n + 1 PROVE r[i] \in Range(s) \cup {x}
    <3>1. CASE i = n + 1
      BY <1>1, <3>1
    <3>2. CASE i # n + 1
      <4>1. i \in 1 .. n
        BY <1>1, <3>2
      <4> QED
        BY <1>1, <1>2, <4>1 DEF Range
    <3> QED
      BY <3>1, <3>2
  <2>2. ASSUME NEW i \in 1 .. n PROVE s[i] \in Range(r)
    <3>1. i \in DOMAIN r /\ r[i] = s[i]
      BY <1>1, <1>2
    <3> QED
      BY <3>1 DEF Range
  <2>3. x \in Range(r)
    <3>1. n + 1 \in DOMAIN r /\ r[n + 1] = x
      BY <1>1, <1>2
    <3> QED
      BY <3>1 DEF Range
  <2> QED
    BY <1>2, <2>1, <2>2, <2>3 DEF Range
<1>4. Distinct(r) => Distinct(s)
  BY <1>1 DEF Distinct
<1>5. Distinct(r) => x \notin Range(s)
  <2> SUFFICES ASSUME Distinct(r), NEW i \in 1 .. n, s[i] = x PROVE FALSE
    BY <1>2 DEF Range
  <2>1. i \in 1 .. n + 1 /\ n + 1 \in 1 .. n + 1 /\ i # n + 1 /\ r[i] = r[n + 1]
    BY <1>1
  <2> QED
    BY <1>1, <2>1 DEF Distinct
<1>6. Distinct(s) /\ x \notin Range(s) => Distinct(r)
  <2> SUFFICES ASSUME Distinct(s), x \notin Range(s),
                      NEW i \in 1 .. n + 1, NEW j \in 1 .. n + 1, r[i] = r[j]
               PROVE  i = j
    BY <1>1 DEF Distinct
  <2>1. \A k \in 1 .. n : s[k] # x
    BY <1>2 DEF Range
  <2> QED
    BY <1>1, <2>1 DEF Distinct
<1> QED
  BY <1>1, <1>3, <1>4, <1>5, <1>6 DEF r

\* Nothing is kept of the empty sequence.
LEMMA FilterEmpty ==
    ASSUME NEW A
    PROVE  Filter(<< >>, A) = << >>
<1>1. << >> \in Seq({}) /\ Len(<< >>) = 0
  BY EmptySeq
<1> QED
  BY <1>1, KeptEquations DEF Filter

\* What is kept of a sequence over S is a sequence over S.
LEMMA FilterType ==
    ASSUME NEW S, NEW s \in Seq(S), NEW A
    PROVE  Filter(s, A) \in Seq(S)
<1>1. Len(s) \in 0 .. Len(s)
  OBVIOUS
<1> QED
  BY <1>1, KeptEquations DEF Filter

\* Filtering commutes with Append.
LEMMA FilterAppend ==
    ASSUME NEW S, NEW s \in Seq(S), NEW x \in S, NEW A
    PROVE  Filter(Append(s, x), A) =
               IF x \in A THEN Append(Filter(s, A), x) ELSE Filter(s, A)
<1> DEFINE r == Append(s, x)
           n == Len(s)
           K == Kept(s, A)
           L == Kept(r, A)
           G == {i \in 0 .. n : L[i] = K[i]}
<1>1. n \in Nat /\ r \in Seq(S) /\ Len(r) = n + 1 /\ r[n + 1] = x /\ \A i \in 1 .. n : r[i] = s[i]
  BY AppendFacts
<1>2. K[0] = << >> /\ \A i \in 1 .. n : K[i] = KeepNext(s, A, i, K[i - 1])
  BY KeptEquations
<1> HIDE DEF r
<1>3. L[0] = << >> /\ \A i \in 1 .. n + 1 : L[i] = KeepNext(r, A, i, L[i - 1])
  <2>1. L[0] = << >> /\ \A i \in 1 .. Len(r) : L[i] = KeepNext(r, A, i, L[i - 1])
    BY <1>1, KeptEquations
  <2> HIDE DEF L
  <2> QED
    BY <1>1, <2>1
<1> HIDE DEF K, L
<1>4. 0 \in G
  BY <1>1, <1>2, <1>3
<1>5. ASSUME NEW i \in 0 .. n - 1, i \in G PROVE i + 1 \in G
  <2>1. i + 1 \in 1 .. n /\ i + 1 \in 1 .. n + 1 /\ (i + 1) - 1 = i /\ L[i] = K[i]
    BY <1>1, <1>5
  <2>2. L[i + 1] = KeepNext(r, A, i + 1, K[i])
    BY <1>3, <2>1
  <2>3. K[i + 1] = KeepNext(s, A, i + 1, K[i])
    BY <1>2, <2>1
  <2>4. L[i + 1] = K[i + 1]
    BY <1>1, <2>1, <2>2, <2>3 DEF KeepNext
  <2> QED
    BY <1>1, <2>1, <2>4
<1> HIDE DEF G
<1>6. 0 .. n \subseteq G
  <2>1. \A i \in 0 .. n - 1 : i \in G => i + 1 \in G
    BY <1>5
  <2> QED
    BY <1>1, <1>4, <2>1, CountUp
<1>7. L[n] = K[n]
  BY <1>1, <1>6 DEF G
<1>8. L[n + 1] = KeepNext(r, A, n + 1, L[n])
  <2>1. n + 1 \in 1 .. n + 1 /\ (n + 1) - 1 = n
    BY <1>1
  <2> QED
    BY <1>3, <2>1
<1>9. Filter(s, A) = K[n] /\ Filter(r, A) = L[n + 1]
  BY <1>1 DEF Filter, K, L
<1> QED
  BY <1>1, <1>7, <1>8, <1>9 DEF KeepNext, r

\* The elements that are left.
LEMMA FilterRange ==
    ASSUME NEW S, NEW s \in Seq(S), NEW A
    PROVE  Range(Filter(s, A)) = Range(s) \cap A
<1> DEFINE P == {r \in Seq(S) : Range(Filter(r, A)) = Range(r) \cap A}
<1>1. << >> \in P
  <2>1. Range(<< >>) = {}
    BY DEF Range
  <2> QED
    BY <2>1, FilterEmpty, EmptySeq
<1>2. ASSUME NEW r \in Seq(S), NEW x \in S, r \in P PROVE Append(r, x) \in P
  <2>1. Range(Append(r, x)) = Range(r) \cup {x} /\ Append(r, x) \in Seq(S)
    BY AppendFacts
  <2>2. Filter(r, A) \in Seq(S)
    BY FilterType
  <2>3. Range(Append(Filter(r, A), x)) = Range(Filter(r, A)) \cup {x}
    BY <2>2, AppendFacts
  <2>4. Filter(Append(r, x), A) = IF x \in A THEN Append(Filter(r, A), x) ELSE Filter(r, A)
    BY FilterAppend
  <2> QED
    BY <1>2, <2>1, <2>3, <2>4
<1> HIDE DEF P
<1>3. Seq(S) \subseteq P
  BY <1>1, <1>2, SeqInduction
<1> QED
  BY <1>3 DEF P

\* Filtering twice is filtering by both sets.
LEMMA FilterTwice ==
    ASSUME NEW S, NEW s \in Seq(S), NEW A, NEW B
    PROVE  Filter(Filter(s, A), B) = Filter(s, A \cap B)
<1> DEFINE P == {r \in Seq(S) : Filter(Filter(r, A), B) = Filter(r, A \cap B)}
<1>1. << >> \in P
  BY FilterEmpty, EmptySeq
<1>2. ASSUME NEW r \in Seq(S), NEW x \in S, r \in P PROVE Append(r, x) \in P
  <2>1. Append(r, x) \in Seq(S) /\ Filter(r, A) \in Seq(S)
    BY AppendFacts, FilterType
  <2>2. Filter(Append(r, x), A) = IF x \in A THEN Append(Filter(r, A), x) ELSE Filter(r, A)
    BY FilterAppend
  <2>3. Filter(Append(r, x), A \cap B) =
            IF x \in A \cap B THEN Append(Filter(r, A \cap B), x) ELSE Filter(r, A \cap B)
    BY FilterAppend
  <2>4. Filter(Append(Filter(r, A), x), B) =
            IF x \in B THEN Append(Filter(Filter(r, A), B), x) ELSE Filter(Filter(r, A), B)
    BY <2>1, FilterAppend
  <2>5. Filter(Filter(r, A), B) = Filter(r, A \cap B)
    BY <1>2
  <2>6. Filter(Filter(Append(r, x), A), B) = Filter(Append(r, x), A \cap B)
    <3>1. CASE x \in A /\ x \in B
      BY <2>2, <2>3, <2>4, <2>5, <3>1
    <3>2. CASE x \in A /\ x \notin B
      BY <2>2, <2>3, <2>4, <2>5, <3>2
    <3>3. CASE x \notin A
      BY <2>2, <2>3, <2>5, <3>3
    <3> QED
      BY <3>1, <3>2, <3>3
  <2> QED
    BY <2>1, <2>6
<1> HIDE DEF P
<1>3. Seq(S) \subseteq P
  BY <1>1, <1>2, SeqInduction
<1> QED
  BY <1>3 DEF P

\* Filter repeats nothing that was not repeated.
LEMMA FilterDistinct ==
    ASSUME NEW S, NEW s \in Seq(S), NEW A, Distinct(s)
    PROVE  Distinct(Filter(s, A))
<1> DEFINE P == {r \in Seq(S) : Distinct(r) => Distinct(Filter(r, A))}
<1>1. << >> \in P
  BY FilterEmpty, EmptySeq
<1>2. ASSUME NEW r \in Seq(S), NEW x \in S, r \in P PROVE Append(r, x) \in P
  <2>1. Append(r, x) \in Seq(S) /\ Filter(r, A) \in Seq(S)
    BY AppendFacts, FilterType
  <2> SUFFICES ASSUME Distinct(Append(r, x)) PROVE Distinct(Filter(Append(r, x), A))
    BY <2>1
  <2>2. Distinct(r) /\ x \notin Range(r)
    BY AppendFacts
  <2>3. Distinct(Filter(r, A)) /\ x \notin Range(Filter(r, A))
    BY <1>2, <2>2, FilterRange
  <2>4. Distinct(Append(Filter(r, A), x))
    BY <2>1, <2>3, AppendFacts
  <2>5. Filter(Append(r, x), A) = IF x \in A THEN Append(Filter(r, A), x) ELSE Filter(r, A)
    BY FilterAppend
  <2> QED
    BY <2>3, <2>4, <2>5
<1> HIDE DEF P
<1>3. Seq(S) \subseteq P
  BY <1>1, <1>2, SeqInduction
<1> QED
  BY <1>3 DEF P

\* The first k elements.
First(s, k) == {s[i] : i \in 1 .. k}

\* A sequence without elements is empty.
LEMMA EmptyRange ==
    ASSUME NEW S, NEW s \in Seq(S), Range(s) = {}
    PROVE  s = << >>
<1>1. Len(s) = 0
  <2> SUFFICES ASSUME Len(s) # 0 PROVE FALSE
    OBVIOUS
  <2>1. 1 \in DOMAIN s
    OBVIOUS
  <2> QED
    BY <2>1 DEF Range
<1> QED
  BY <1>1, EmptySeq

\* The elements of a prefix are the first k.
LEMMA FirstIsPrefix ==
    ASSUME NEW S, NEW s \in Seq(S), NEW k \in 0 .. Len(s)
    PROVE  ToSet(SubSeq(s, 1, k)) = First(s, k)
<1> DEFINE p == SubSeq(s, 1, k)
<1>1. Len(s) \in Nat /\ k \in Int /\ \A i \in 1 .. k : s[i] \in S
  OBVIOUS
<1>2. /\ p \in Seq(S)
      /\ Len(p) = IF 1 <= k THEN k - 1 + 1 ELSE 0
      /\ \A i \in 1 .. k - 1 + 1 : p[i] = s[1 + i - 1]
  BY <1>1, SubSeqProperties
<1> HIDE DEF p
<1>3. Len(p) = k /\ DOMAIN p = 1 .. k
  BY <1>1, <1>2
<1>4. \A i \in 1 .. k : p[i] = s[i]
  <2>1. k - 1 + 1 = k /\ \A i \in 1 .. k : 1 + i - 1 = i
    BY <1>1
  <2> QED
    BY <1>2, <2>1
<1> QED
  BY <1>3, <1>4 DEF ToSet, First, p

\* Taking a prefix away from the end of a longer sequence.
LEMMA SubSeqAppend ==
    ASSUME NEW S, NEW s \in Seq(S), NEW x \in S, NEW k \in 0 .. Len(s)
    PROVE  SubSeq(Append(s, x), k + 1, Len(s) + 1) = Append(SubSeq(s, k + 1, Len(s)), x)
<1> DEFINE n == Len(s)
           r == Append(s, x)
           a == SubSeq(r, k + 1, n + 1)
           b == SubSeq(s, k + 1, n)
           c == Append(b, x)
<1>1. n \in Nat /\ k \in Int /\ k + 1 \in Int /\ k <= n
  OBVIOUS
<1>2. /\ r \in Seq(S) /\ Len(r) = n + 1 /\ r[n + 1] = x
      /\ \A i \in 1 .. n : r[i] = s[i]
  BY AppendFacts
<1> HIDE DEF r
<1>3. (\A i \in k + 1 .. n + 1 : r[i] \in S) /\ (\A i \in k + 1 .. n : s[i] \in S)
  <2>1. ASSUME NEW i \in k + 1 .. n + 1 PROVE r[i] \in S
    <3>1. i \in 1 .. Len(r)
      BY <1>1, <1>2
    <3> QED
      BY <1>2, <3>1
  <2>2. ASSUME NEW i \in k + 1 .. n PROVE s[i] \in S
    <3>1. i \in 1 .. Len(s)
      BY <1>1
    <3> QED
      BY <3>1
  <2> QED
    BY <2>1, <2>2
<1>4. /\ a \in Seq(S)
      /\ Len(a) = IF k + 1 <= n + 1 THEN n + 1 - (k + 1) + 1 ELSE 0
      /\ \A i \in 1 .. n + 1 - (k + 1) + 1 : a[i] = r[k + 1 + i - 1]
  BY <1>1, <1>3, SubSeqProperties
<1>5. /\ b \in Seq(S)
      /\ Len(b) = IF k + 1 <= n THEN n - (k + 1) + 1 ELSE 0
      /\ \A i \in 1 .. n - (k + 1) + 1 : b[i] = s[k + 1 + i - 1]
  BY <1>1, <1>3, SubSeqProperties
<1> HIDE DEF a, b, n
<1>6. Len(a) = n - k + 1 /\ \A i \in 1 .. n - k + 1 : a[i] = r[k + i]
  <2>1. n + 1 - (k + 1) + 1 = n - k + 1 /\ \A i \in 1 .. n - k + 1 : k + 1 + i - 1 = k + i
    BY <1>1
  <2> QED
    BY <1>1, <1>4, <2>1
<1>7. Len(b) = n - k /\ \A i \in 1 .. n - k : b[i] = s[k + i]
  <2>1. n - (k + 1) + 1 = n - k /\ \A i \in 1 .. n - k : k + 1 + i - 1 = k + i
    BY <1>1
  <2>2. (IF k + 1 <= n THEN n - (k + 1) + 1 ELSE 0) = n - k
    BY <1>1
  <2> QED
    BY <1>5, <2>1, <2>2
<1>8. /\ c \in Seq(S) /\ Len(c) = n - k + 1 /\ c[n - k + 1] = x
      /\ \A i \in 1 .. n - k : c[i] = b[i]
  BY <1>5, <1>7, AppendFacts
<1> HIDE DEF c
<1>9. \A i \in 1 .. n - k + 1 : a[i] = c[i]
  <2> SUFFICES ASSUME NEW i \in 1 .. n - k + 1 PROVE a[i] = c[i]
    OBVIOUS
  <2>1. CASE i = n - k + 1
    <3>1. k + i = n + 1
      BY <1>1, <2>1
    <3> QED
      BY <1>2, <1>6, <1>8, <2>1, <3>1
  <2>2. CASE i # n - k + 1
    <3>1. i \in 1 .. n - k /\ k + i \in 1 .. n
      BY <1>1, <2>2
    <3> QED
      BY <1>2, <1>6, <1>7, <1>8, <3>1
  <2> QED
    BY <2>1, <2>2
<1>10. a = c
  BY <1>4, <1>6, <1>8, <1>9, SeqEqual
<1> QED
  BY <1>10 DEF a, b, c, r, n

\* What is left when the first k elements go.
LEMMA FilterTail ==
    ASSUME NEW S, NEW s \in Seq(S), Distinct(s), NEW k \in 0 .. Len(s)
    PROVE  Filter(s, S \ First(s, k)) = SubSeq(s, k + 1, Len(s))
<1> DEFINE P == {r \in Seq(S) :
                   Distinct(r) => \A m \in 0 .. Len(r) :
                                     Filter(r, S \ First(r, m)) = SubSeq(r, m + 1, Len(r))}
<1>1. << >> \in P
  <2>1. << >> \in Seq(S) /\ Len(<< >>) = 0
    BY EmptySeq
  <2>2. SubSeq(<< >>, 0 + 1, 0) = << >>
    BY SubSeqEmpty
  <2>3. ASSUME NEW m \in 0 .. 0 PROVE Filter(<< >>, S \ First(<< >>, m)) = SubSeq(<< >>, m + 1, 0)
    <3>1. m = 0
      OBVIOUS
    <3> QED
      BY <2>2, <3>1, FilterEmpty
  <2> QED
    BY <2>1, <2>3
<1>2. ASSUME NEW r \in Seq(S), NEW x \in S, r \in P PROVE Append(r, x) \in P
  <2> DEFINE q == Append(r, x)
             n == Len(r)
  <2>1. /\ q \in Seq(S) /\ Len(q) = n + 1 /\ n \in Nat
        /\ \A i \in 1 .. n : q[i] = r[i]
        /\ Range(q) = Range(r) \cup {x}
        /\ Distinct(q) => Distinct(r) /\ x \notin Range(r)
    BY AppendFacts
  <2>2. \A m \in 0 .. n : SubSeq(q, m + 1, n + 1) = Append(SubSeq(r, m + 1, n), x)
    BY SubSeqAppend
  <2>3. \A A : Filter(q, A) = IF x \in A THEN Append(Filter(r, A), x) ELSE Filter(r, A)
    BY FilterAppend
  <2> HIDE DEF q
  <2> SUFFICES ASSUME Distinct(q), NEW m \in 0 .. n + 1
               PROVE  Filter(q, S \ First(q, m)) = SubSeq(q, m + 1, n + 1)
    BY <2>1 DEF q
  <2>4. CASE m <= n
    <3>1. m \in 0 .. n /\ \A i \in 1 .. m : i \in 1 .. n
      BY <2>1, <2>4
    <3>2. First(q, m) = First(r, m)
      BY <2>1, <3>1 DEF First
    <3>3. First(r, m) \subseteq Range(r)
      BY <3>1 DEF First, Range
    <3>4. Filter(r, S \ First(r, m)) = SubSeq(r, m + 1, n)
      BY <1>2, <2>1, <3>1
    <3>5. x \in S \ First(q, m)
      BY <2>1, <3>2, <3>3
    <3> QED
      BY <2>2, <2>3, <3>1, <3>2, <3>4, <3>5
  <2>5. CASE m = n + 1
    <3>1. First(q, m) = Range(q)
      BY <2>1, <2>5 DEF First, Range
    <3>2. Range(Filter(q, S \ First(q, m))) = {}
      BY <2>1, <3>1, FilterRange
    <3>3. Filter(q, S \ First(q, m)) = << >>
      BY <2>1, <3>2, FilterType, EmptyRange
    <3>4. SubSeq(q, m + 1, n + 1) = << >>
      <4>1. m + 1 \in Int /\ n + 1 \in Int /\ n + 1 < m + 1
        BY <2>1, <2>5
      <4> QED
        BY <4>1, SubSeqEmpty
    <3> QED
      BY <3>3, <3>4
  <2>6. m <= n \/ m = n + 1
    BY <2>1
  <2> QED
    BY <2>4, <2>5, <2>6
<1> HIDE DEF P
<1>3. Seq(S) \subseteq P
  BY <1>1, <1>2, SeqInduction
<1> QED
  BY <1>3 DEF P

-----------------------------------------------------------------------------
(***************************************************************************)
(* The invariants of the registry.                                         *)
(***************************************************************************)

AddrTypeOK ==
    /\ registry \in Entries \cup {NoEntry}
    /\ waiters \in [Entries -> Seq(Threads)]
    /\ home \in [Threads -> Entries \cup {NoEntry}]
    /\ requested \in [Threads -> BOOLEAN]
    /\ pc \in [Threads -> {"idle", "stored", "asleep", "awake", "erasing"}]

\* The list of an entry holds the threads inside Wait that refer to the entry,
\* once each.
ListsExact ==
    \A e \in Entries :
        /\ Distinct(waiters[e])
        /\ Range(waiters[e]) = {t \in Inside : home[t] = e}

\* The threads inside refer to the entry of the registry.
HomeRegistered == \A t \in Inside : home[t] = registry /\ registry # NoEntry

\* A wake asks threads inside only, and a thread about to erase has an entry.
RequestedInside == \A t \in Threads : requested[t] => t \in Inside
EraserHasEntry == \A t \in Threads : pc[t] = "erasing" => home[t] \in Entries

\* The inductive invariant.
AddrInv ==
    /\ AddrTypeOK
    /\ ListsExact
    /\ HomeRegistered
    /\ RequestedInside
    /\ EraserHasEntry
    /\ NoEntryLeaks

\* The registry starts empty.
LEMMA AddrInitInv == Init => AddrInv
<1> SUFFICES ASSUME Init PROVE AddrInv
  OBVIOUS
<1>1. Inside = {}
  BY DEF Init, Inside
<1>2. Distinct(<< >>) /\ Range(<< >>) = {} /\ << >> \in Seq(Threads)
  BY EmptySeq DEF Distinct, Range
<1>3. AddrTypeOK
  BY <1>2 DEF Init, AddrTypeOK
<1>4. ListsExact
  BY <1>1, <1>2 DEF Init, ListsExact
<1> QED
  BY <1>1, <1>3, <1>4
     DEF Init, AddrInv, HomeRegistered, RequestedInside, EraserHasEntry, NoEntryLeaks

\* There is always memory nobody refers to, and an entry made of it has no
\* waiters.
LEMMA EntryFacts ==
    ASSUME AddrInv
    PROVE  /\ Entry \in Entries
           /\ registry # NoEntry => Entry = registry
           /\ registry = NoEntry => waiters[Entry] = << >> /\ Inside = {}
<1>1. \E e \in Entries : \A u \in Threads : home[u] # e
  <2> SUFFICES ASSUME \A e \in Entries : \E u \in Threads : home[u] = e PROVE FALSE
    OBVIOUS
  <2> DEFINE f == [e \in Entries |-> CHOOSE u \in Threads : home[u] = e]
  <2>1. \A e \in Entries : f[e] \in Threads /\ home[f[e]] = e
    OBVIOUS
  <2>2. f \in Injection(Entries, Threads)
    <3>1. f \in [Entries -> Threads]
      BY <2>1
    <3>2. \A a, b \in Entries : f[a] = f[b] => a = b
      BY <2>1
    <3> HIDE DEF f
    <3> QED
      BY <3>1, <3>2 DEF Injection, IsInjective
  <2> HIDE DEF f
  <2>3. Cardinality(Entries) <= Cardinality(Threads)
    BY <2>2, FS_Injection, AddressAssumption
  <2>4. Cardinality(Entries) \in Nat /\ Cardinality(Threads) \in Nat
    BY FS_CardinalityType, AddressAssumption
  <2> QED
    BY <2>3, <2>4, AddressAssumption
<1>2. registry = NoEntry => Entry \in Entries /\ \A u \in Threads : home[u] # Entry
  BY <1>1 DEF Entry
<1>3. registry # NoEntry => Entry = registry /\ Entry \in Entries
  BY DEF Entry, AddrInv, AddrTypeOK
<1>4. ASSUME registry = NoEntry PROVE waiters[Entry] = << >> /\ Inside = {}
  <2>1. Inside = {}
    BY <1>4 DEF AddrInv, HomeRegistered
  <2>2. Range(waiters[Entry]) = {} /\ waiters[Entry] \in Seq(Threads)
    BY <1>2, <1>4, <2>1 DEF AddrInv, ListsExact, AddrTypeOK
  <2> QED
    BY <2>1, <2>2, EmptyRange
<1> QED
  BY <1>2, <1>3, <1>4

\* A wait that passes.
LEMMA WaitPassesKeeps ==
    ASSUME AddrInv, NEW t \in Threads, NEW w, WaitPasses(t, w)
    PROVE  AddrInv'
<1> USE DEF AddrInv
<1>1. /\ Entry \in Entries
      /\ registry # NoEntry => Entry = registry
      /\ registry = NoEntry => waiters[Entry] = << >> /\ Inside = {}
  BY EntryFacts
<1>2. /\ pc[t] = "idle" /\ registry' = Entry /\ UNCHANGED <<waiters, requested>>
      /\ home' = [home EXCEPT ![t] = IF waiters[Entry] = << >> THEN Entry ELSE NoEntry]
      /\ pc' = [pc EXCEPT ![t] = IF waiters[Entry] = << >> THEN "erasing" ELSE "idle"]
  BY DEF WaitPasses
<1> DEFINE E == Entry
<1> HIDE DEF E
<1>3. /\ E \in Entries /\ registry' = E
      /\ registry # NoEntry => E = registry
      /\ registry = NoEntry => Inside = {}
      /\ home' = [home EXCEPT ![t] = IF waiters[E] = << >> THEN E ELSE NoEntry]
      /\ pc' = [pc EXCEPT ![t] = IF waiters[E] = << >> THEN "erasing" ELSE "idle"]
  BY <1>1, <1>2 DEF E
<1>4. Inside' = Inside /\ t \notin Inside
  BY <1>2, <1>3 DEF Inside, AddrTypeOK
<1>5. AddrTypeOK'
  BY <1>2, <1>3 DEF AddrTypeOK
<1>6. ListsExact'
  BY <1>2, <1>3, <1>4 DEF ListsExact, AddrTypeOK, Inside
<1>7. HomeRegistered'
  BY <1>2, <1>3, <1>4, AddressAssumption DEF HomeRegistered, AddrTypeOK, Inside
<1>8. RequestedInside' /\ EraserHasEntry'
  BY <1>2, <1>3, <1>4 DEF RequestedInside, EraserHasEntry, AddrTypeOK
<1>9. NoEntryLeaks'
  BY <1>2, <1>3 DEF NoEntryLeaks, AddrTypeOK
<1> QED
  BY <1>5, <1>6, <1>7, <1>8, <1>9

\* A wait that goes to sleep.
LEMMA WaitBlocksKeeps ==
    ASSUME AddrInv, NEW t \in Threads, NEW w, NEW d, WaitBlocks(t, w, d)
    PROVE  AddrInv'
<1> USE DEF AddrInv
<1> DEFINE E == Entry
<1>1. /\ E \in Entries
      /\ registry # NoEntry => E = registry
      /\ registry = NoEntry => waiters[E] = << >> /\ Inside = {}
  BY EntryFacts
<1>2. /\ pc[t] = "idle" /\ registry' = E /\ UNCHANGED requested
      /\ waiters' = [waiters EXCEPT ![E] = Append(@, t)]
      /\ home' = [home EXCEPT ![t] = E]
      /\ pc' = [pc EXCEPT ![t] = "asleep"]
  BY DEF WaitBlocks
<1> HIDE DEF E
<1>3. Inside' = Inside \cup {t} /\ t \notin Inside
  BY <1>2 DEF Inside, AddrTypeOK
<1>4. waiters[E] \in Seq(Threads) /\ Distinct(waiters[E]) /\ t \notin Range(waiters[E])
  BY <1>1, <1>3 DEF AddrTypeOK, ListsExact
<1>5. /\ Append(waiters[E], t) \in Seq(Threads)
      /\ Len(Append(waiters[E], t)) = Len(waiters[E]) + 1
      /\ Range(Append(waiters[E], t)) = Range(waiters[E]) \cup {t}
      /\ Distinct(Append(waiters[E], t))
  BY <1>4, AppendFacts
<1>6. Append(waiters[E], t) # << >>
  BY <1>4, <1>5
<1> DEFINE q == Append(waiters[E], t)
<1>7. /\ q \in Seq(Threads) /\ q # << >> /\ Distinct(q)
      /\ Range(q) = Range(waiters[E]) \cup {t}
      /\ waiters' = [waiters EXCEPT ![E] = q]
  BY <1>2, <1>5, <1>6
<1> HIDE DEF q
<1>8. AddrTypeOK'
  BY <1>1, <1>2, <1>7 DEF AddrTypeOK
<1>9. ListsExact'
  <2> SUFFICES ASSUME NEW e \in Entries
               PROVE  Distinct(waiters'[e]) /\ Range(waiters'[e]) = {u \in Inside' : home'[u] = e}
    BY DEF ListsExact
  <2>1. {u \in Inside' : home'[u] = e} =
            {u \in Inside : home[u] = e} \cup (IF e = E THEN {t} ELSE {})
    BY <1>2, <1>3 DEF AddrTypeOK, Inside
  <2>2. waiters'[e] = IF e = E THEN q ELSE waiters[e]
    BY <1>1, <1>7 DEF AddrTypeOK
  <2> QED
    BY <1>7, <2>1, <2>2 DEF ListsExact
<1>10. HomeRegistered'
  BY <1>1, <1>2, <1>3, AddressAssumption DEF HomeRegistered, AddrTypeOK, Inside
<1>11. RequestedInside' /\ EraserHasEntry'
  BY <1>2, <1>3 DEF RequestedInside, EraserHasEntry, AddrTypeOK
<1>12. NoEntryLeaks'
  BY <1>1, <1>2, <1>7 DEF NoEntryLeaks, AddrTypeOK
<1> QED
  BY <1>8, <1>9, <1>10, <1>11, <1>12

\* What the first half of UnregisterPortableWaiter leaves in the list.
LEMMA LeaveFacts ==
    ASSUME AddrInv, NEW t \in Inside
    PROVE  LET left == Filter(waiters[home[t]], Threads \ {t})
           IN  /\ home[t] = registry /\ registry \in Entries /\ t \in Threads
               /\ left \in Seq(Threads) /\ Distinct(left)
               /\ Range(left) = {u \in Inside : u # t}
<1>1. home[t] = registry /\ registry \in Entries /\ t \in Threads
  BY DEF AddrInv, HomeRegistered, AddrTypeOK, Inside
<1>2. /\ waiters[registry] \in Seq(Threads) /\ Distinct(waiters[registry])
      /\ Range(waiters[registry]) = {u \in Inside : home[u] = registry}
  BY <1>1 DEF AddrInv, AddrTypeOK, ListsExact
<1>3. Range(waiters[registry]) = Inside /\ Inside \subseteq Threads
  BY <1>2 DEF AddrInv, HomeRegistered, Inside
<1>4. Range(Filter(waiters[registry], Threads \ {t})) = Range(waiters[registry]) \cap (Threads \ {t})
  BY <1>2, FilterRange
<1> QED
  BY <1>1, <1>2, <1>3, <1>4, FilterType, FilterDistinct

\* A thread leaves Wait.
LEMMA LeaveKeeps ==
    ASSUME AddrInv, NEW t \in Inside, NEW res, Leave(t, res)
    PROVE  AddrInv'
<1> USE DEF AddrInv
<1> DEFINE left == Filter(waiters[home[t]], Threads \ {t})
           e == registry
<1>1. /\ home[t] = e /\ e \in Entries /\ t \in Threads
      /\ left \in Seq(Threads) /\ Distinct(left)
      /\ Range(left) = {u \in Inside : u # t}
  BY LeaveFacts
<1>2. /\ waiters' = [waiters EXCEPT ![e] = left]
      /\ home' = [home EXCEPT ![t] = IF left = << >> THEN e ELSE NoEntry]
      /\ pc' = [pc EXCEPT ![t] = IF left = << >> THEN "erasing" ELSE "idle"]
      /\ requested' = [requested EXCEPT ![t] = FALSE]
      /\ registry' = registry
  BY <1>1 DEF Leave
<1> HIDE DEF left
<1>3. Inside' = {u \in Inside : u # t}
  BY <1>1, <1>2 DEF Inside, AddrTypeOK
<1>4. AddrTypeOK'
  BY <1>1, <1>2 DEF AddrTypeOK
<1>5. ListsExact'
  <2> SUFFICES ASSUME NEW f \in Entries
               PROVE  Distinct(waiters'[f]) /\ Range(waiters'[f]) = {u \in Inside' : home'[u] = f}
    BY DEF ListsExact
  <2>1. \A u \in Inside' : home'[u] = e
    BY <1>1, <1>2, <1>3 DEF HomeRegistered, AddrTypeOK, Inside
  <2>2. CASE f = e
    BY <1>1, <1>2, <1>3, <2>1, <2>2 DEF AddrTypeOK
  <2>3. CASE f # e
    <3>1. {u \in Inside : home[u] = f} = {} /\ {u \in Inside' : home'[u] = f} = {}
      BY <2>1, <2>3 DEF HomeRegistered
    <3>2. waiters'[f] = waiters[f]
      BY <1>2, <2>3 DEF AddrTypeOK
    <3> QED
      BY <3>1, <3>2 DEF ListsExact
  <2> QED
    BY <2>2, <2>3
<1>6. HomeRegistered'
  BY <1>1, <1>2, <1>3 DEF HomeRegistered, AddrTypeOK, Inside
<1>7. RequestedInside' /\ EraserHasEntry'
  BY <1>1, <1>2, <1>3 DEF RequestedInside, EraserHasEntry, AddrTypeOK
<1>8. NoEntryLeaks'
  BY <1>1, <1>2 DEF NoEntryLeaks, AddrTypeOK
<1> QED
  BY <1>4, <1>5, <1>6, <1>7, <1>8

\* The second half of UnregisterPortableWaiter.
LEMMA EraseKeeps ==
    ASSUME AddrInv, NEW t \in Threads, Erase(t)
    PROVE  AddrInv'
<1> USE DEF AddrInv
<1>1. /\ pc[t] = "erasing" /\ home[t] \in Entries
      /\ registry' = IF registry = home[t] /\ waiters[home[t]] = << >> THEN NoEntry ELSE registry
      /\ home' = [home EXCEPT ![t] = NoEntry]
      /\ pc' = [pc EXCEPT ![t] = "idle"]
      /\ UNCHANGED <<waiters, requested>>
  BY DEF Erase, EraserHasEntry
<1>2. Inside' = Inside /\ t \notin Inside
  BY <1>1 DEF Inside, AddrTypeOK
<1>3. registry = home[t] /\ waiters[home[t]] = << >> => Inside = {}
  <2> SUFFICES ASSUME registry = home[t], waiters[home[t]] = << >> PROVE Inside = {}
    OBVIOUS
  <2>1. Range(waiters[registry]) = {}
    BY DEF Range
  <2> QED
    BY <1>1, <2>1 DEF ListsExact, HomeRegistered
<1>4. AddrTypeOK'
  BY <1>1 DEF AddrTypeOK
<1>5. ListsExact'
  BY <1>1, <1>2 DEF ListsExact, AddrTypeOK, Inside
<1>6. HomeRegistered'
  BY <1>1, <1>2, <1>3 DEF HomeRegistered, AddrTypeOK, Inside
<1>7. RequestedInside' /\ EraserHasEntry'
  BY <1>1, <1>2 DEF RequestedInside, EraserHasEntry, AddrTypeOK
<1>8. NoEntryLeaks'
  BY <1>1 DEF NoEntryLeaks, AddrTypeOK
<1> QED
  BY <1>4, <1>5, <1>6, <1>7, <1>8

\* The queue of AddressWait: the threads inside that no wake has asked.
LEMMA QueueFacts ==
    ASSUME AddrInv
    PROVE  /\ Queue \in Seq(Threads)
           /\ Distinct(Queue)
           /\ Range(Queue) = {t \in Inside : ~requested[t]}
           /\ ToSet(Queue) = {t \in Inside : ~requested[t]}
<1> USE DEF AddrInv
<1> DEFINE U == {u \in Threads : ~requested[u]}
<1>1. Range(Queue) = ToSet(Queue)
  BY DEF Range, ToSet
<1>2. CASE registry = NoEntry
  <2>1. Inside = {} /\ Queue = << >>
    BY <1>2 DEF HomeRegistered, Queue
  <2>2. << >> \in Seq(Threads) /\ Distinct(<< >>) /\ Range(<< >>) = {}
    BY EmptySeq DEF Distinct, Range
  <2> QED
    BY <1>1, <2>1, <2>2
<1>3. CASE registry # NoEntry
  <2>1. registry \in Entries
    BY <1>3 DEF AddrTypeOK
  <2>2. waiters[registry] \in Seq(Threads) /\ Distinct(waiters[registry])
    BY <2>1 DEF AddrTypeOK, ListsExact
  <2>3. Range(waiters[registry]) = Inside
    BY <2>1 DEF ListsExact, HomeRegistered
  <2>4. Queue = Filter(waiters[registry], U)
    BY <1>3 DEF Queue, Unasked
  <2>5. Range(Queue) = Inside \cap U
    BY <2>2, <2>3, <2>4, FilterRange
  <2>6. Inside \cap U = {t \in Inside : ~requested[t]}
    BY DEF Inside
  <2> QED
    BY <1>1, <2>2, <2>4, <2>5, <2>6, FilterType, FilterDistinct
<1> QED
  BY <1>2, <1>3

\* A wake with count n takes the first n of the queue, or all of a shorter one.
LEMMA TakeFacts ==
    ASSUME AddrInv, NEW n \in Nat
    PROVE  LET k == IF n < Len(Queue) THEN n ELSE Len(Queue)
           IN  /\ k \in 0 .. Len(Queue)
               /\ Take(n) = ToSet(SubSeq(Queue, 1, k))
               /\ Take(n) = First(Queue, k)
               /\ Take(n) \subseteq {t \in Inside : ~requested[t]}
<1> DEFINE k == IF n < Len(Queue) THEN n ELSE Len(Queue)
<1>1. /\ Queue \in Seq(Threads)
      /\ Range(Queue) = {t \in Inside : ~requested[t]}
  BY QueueFacts
<1>2. Len(Queue) \in Nat /\ k \in 0 .. Len(Queue)
  BY <1>1
<1>3. ToSet(SubSeq(Queue, 1, k)) = First(Queue, k)
  BY <1>1, <1>2, FirstIsPrefix
<1>4. First(Queue, k) \subseteq Range(Queue)
  BY <1>1, <1>2 DEF First, Range
<1>5. Take(n) = First(Queue, k)
  <2>1. CASE registry = NoEntry
    <3>1. Take(n) = {} /\ Queue = << >>
      BY <2>1 DEF Take, Queue
    <3>2. k = 0
      BY <1>2, <3>1
    <3>3. First(Queue, 0) = {}
      BY DEF First
    <3> QED
      BY <3>1, <3>2, <3>3
  <2>2. CASE registry # NoEntry
    <3>1. Queue = Unasked(registry)
      BY <2>2 DEF Queue
    <3>2. Take(n) = ToSet(SubSeq(Queue, 1, k))
      BY <2>2, <3>1 DEF Take
    <3> QED
      BY <1>3, <3>2
  <2> QED
    BY <2>1, <2>2
<1> QED
  BY <1>1, <1>2, <1>3, <1>4, <1>5

\* A wake asks threads inside and lets them look.
LEMMA WakeKeeps ==
    ASSUME AddrInv, NEW t \in Threads, NEW n \in Nat, Wake(t, n)
    PROVE  AddrInv'
<1> USE DEF AddrInv
<1>1. Take(n) \subseteq Inside
  BY TakeFacts
<1> DEFINE K == Take(n)
<1>2. /\ pc[t] \in {"idle", "stored"}
      /\ requested' = [u \in Threads |-> requested[u] \/ u \in K]
      /\ pc' = [u \in Threads |-> IF u = t THEN "idle"
                                  ELSE IF u \in K /\ pc[u] = "asleep" THEN "awake" ELSE pc[u]]
      /\ UNCHANGED <<registry, waiters, home>>
  BY DEF Wake
<1> HIDE DEF K
<1>3. Inside' = Inside
  BY <1>2 DEF Inside, AddrTypeOK
<1>4. AddrTypeOK'
  BY <1>2 DEF AddrTypeOK
<1>5. RequestedInside'
  BY <1>1, <1>2, <1>3 DEF RequestedInside, K
<1>6. NoEntryLeaks' /\ EraserHasEntry'
  BY <1>2 DEF NoEntryLeaks, EraserHasEntry
<1> QED
  BY <1>2, <1>3, <1>4, <1>5, <1>6 DEF ListsExact, HomeRegistered

\* A step that leaves lists, homes and wakes alone and moves nobody in or out.
LEMMA AddrKept ==
    ASSUME AddrInv, UNCHANGED <<registry, waiters, home, requested>>, AddrTypeOK',
           Inside' = Inside, \A t \in Threads : pc[t] = "erasing" <=> pc'[t] = "erasing"
    PROVE  AddrInv'
BY DEF AddrInv, ListsExact, HomeRegistered, RequestedInside, EraserHasEntry, NoEntryLeaks

\* Every step keeps the inductive invariant.
LEMMA AddrNextInv == AddrInv /\ [Next]_vars => AddrInv'
<1> SUFFICES ASSUME AddrInv, [Next]_vars PROVE AddrInv'
  OBVIOUS
<1>1. ASSUME NEW t \in Threads, NEW w \in Words, Store(t, w) PROVE AddrInv'
  <2>1. AddrTypeOK' /\ Inside' = Inside /\ \A u \in Threads : pc[u] = "erasing" <=> pc'[u] = "erasing"
    BY <1>1 DEF Store, AddrInv, AddrTypeOK, Inside
  <2> QED
    BY <1>1, <2>1, AddrKept DEF Store
<1>2. ASSUME NEW t \in Threads, NEW w \in Words, WaitPasses(t, w) PROVE AddrInv'
  BY <1>2, WaitPassesKeeps
<1>3. ASSUME NEW t \in Threads, NEW w \in Words, NEW d \in {"none", "running"}, WaitBlocks(t, w, d)
      PROVE  AddrInv'
  BY <1>3, WaitBlocksKeeps
<1>4. ASSUME NEW t \in Threads, EndSlice(t) \/ Expire(t) PROVE AddrInv'
  <2>1. AddrTypeOK' /\ Inside' = Inside /\ \A u \in Threads : pc[u] = "erasing" <=> pc'[u] = "erasing"
    BY <1>4 DEF EndSlice, Expire, AddrInv, AddrTypeOK, Inside
  <2> QED
    BY <1>4, <2>1, AddrKept DEF EndSlice, Expire
<1>5. ASSUME NEW t \in Threads, Recheck(t) PROVE AddrInv'
  <2>1. t \in Inside
    BY <1>5 DEF Recheck, Inside
  <2>2. CASE Leave(t, "OK") \/ Leave(t, "ETIMEDOUT")
    BY <2>1, <2>2, LeaveKeeps
  <2>3. CASE ~(Leave(t, "OK") \/ Leave(t, "ETIMEDOUT"))
    <3>1. pc' = [pc EXCEPT ![t] = "asleep"] /\ UNCHANGED <<registry, waiters, home, requested>>
      BY <1>5, <2>3 DEF Recheck
    <3>2. AddrTypeOK' /\ Inside' = Inside /\ \A u \in Threads : pc[u] = "erasing" <=> pc'[u] = "erasing"
      BY <2>1, <3>1 DEF AddrInv, AddrTypeOK, Inside
    <3> QED
      BY <3>1, <3>2, AddrKept
  <2> QED
    BY <2>2, <2>3
<1>6. ASSUME NEW t \in Threads, Erase(t) PROVE AddrInv'
  BY <1>6, EraseKeeps
<1>7. ASSUME NEW t \in Threads, NEW n \in WakeCounts, Wake(t, n) PROVE AddrInv'
  BY <1>7, WakeKeeps, AddressAssumption
<1>8. CASE UNCHANGED vars
  BY <1>8, AddrKept DEF vars, AddrInv, AddrTypeOK, Inside
<1> QED
  BY <1>1, <1>2, <1>3, <1>4, <1>5, <1>6, <1>7, <1>8 DEF Next

\* The inductive invariant holds in every behaviour.
LEMMA AddrInvariant == Spec => []AddrInv
BY AddrInitInv, AddrNextInv, PTL DEF Spec

\* For any number of threads: a thread inside WaitPortable is in the list of
\* the entry that the registry has for its address, so that every wake reaches
\* it, although the way out unlocks the entry before it locks the registry.
THEOREM WaitersReachableHolds == Spec => []WaitersReachable
<1>1. AddrInv => WaitersReachable
  <2> SUFFICES ASSUME AddrInv, NEW t \in Inside
               PROVE  /\ home[t] # NoEntry
                      /\ home[t] = registry
                      /\ t \in ToSet(waiters[home[t]])
    BY DEF WaitersReachable
  <2>1. home[t] = registry /\ registry \in Entries /\ registry # NoEntry
    BY DEF AddrInv, HomeRegistered, AddrTypeOK
  <2>2. t \in Range(waiters[registry])
    BY <2>1 DEF AddrInv, ListsExact
  <2> QED
    BY <2>1, <2>2 DEF Range, ToSet
<1> QED
  BY <1>1, AddrInvariant, PTL

\* For any number of threads: UnregisterPortableWaiter leaves no entry behind
\* that has neither a waiter nor a thread about to erase it.
THEOREM NoEntryLeaksHolds == Spec => []NoEntryLeaks
<1>1. AddrInv => NoEntryLeaks
  BY DEF AddrInv
<1> QED
  BY <1>1, AddrInvariant, PTL

-----------------------------------------------------------------------------
(***************************************************************************)
(* SyncOnAddress implements AddressWait.                                   *)
(***************************************************************************)

\* Initial states map to initial states.
LEMMA ImplementsInit == Init => Promise!Init
<1> SUFFICES ASSUME Init PROVE Promise!Init
  OBVIOUS
<1>1. Queue = << >> /\ {t \in Threads : requested[t]} = {}
  BY DEF Init, Queue
<1>2. expected \in [Threads -> Words]
  BY DEF Init
<1> QED
  BY <1>1, <1>2 DEF Init, Promise!Init

\* A thread that is not inside does not wait.
LEMMA OutsideNotWaiting ==
    ASSUME AddrInv, NEW t \in Threads, t \notin Inside
    PROVE  ~Promise!Waiting(t)
<1>1. t \notin ToSet(Queue)
  BY QueueFacts
<1>2. ~requested[t]
  BY DEF AddrInv, RequestedInside
<1> QED
  BY <1>1, <1>2 DEF Promise!Waiting, Promise!ToSet, ToSet

\* The queue depends on the registry, its list and the wakes.
LEMMA QueueKept ==
    ASSUME UNCHANGED <<registry, waiters, requested>>
    PROVE  Queue' = Queue /\ {u \in Threads : requested'[u]} = {u \in Threads : requested[u]}
BY DEF Queue, Unasked

\* A wait whose value differs passes.
LEMMA ImplementsPass ==
    ASSUME AddrInv, NEW t \in Threads, NEW w \in Words, WaitPasses(t, w)
    PROVE  Promise!Pass(t, w)
<1>1. t \notin Inside
  BY DEF WaitPasses, Inside
<1>2. Queue' = Queue
  <2>1. registry' = Entry /\ waiters' = waiters /\ requested' = requested
    BY DEF WaitPasses
  <2>2. CASE registry # NoEntry
    BY <2>1, <2>2, EntryFacts, QueueKept
  <2>3. CASE registry = NoEntry
    <3>1. Entry # NoEntry /\ waiters[Entry] = << >>
      BY <2>3, EntryFacts, AddressAssumption
    <3>2. Queue' = Filter(<< >>, {u \in Threads : ~requested[u]})
      BY <2>1, <3>1 DEF Queue, Unasked
    <3> QED
      BY <2>3, <3>2, FilterEmpty DEF Queue
  <2> QED
    BY <2>2, <2>3
<1> QED
  BY <1>1, <1>2, OutsideNotWaiting DEF WaitPasses, Promise!Pass

\* A wait that blocks joins the end of the abstract queue.
LEMMA ImplementsEnter ==
    ASSUME AddrInv, NEW t \in Threads, NEW w \in Words, NEW d, WaitBlocks(t, w, d)
    PROVE  Promise!Enter(t, w)
<1> DEFINE U == {u \in Threads : ~requested[u]}
           E == Entry
<1>1. t \notin Inside
  BY DEF WaitBlocks, Inside
<1>2. t \in U
  BY <1>1 DEF AddrInv, RequestedInside
<1>3. /\ E \in Entries /\ E # NoEntry
      /\ registry # NoEntry => E = registry
      /\ registry = NoEntry => waiters[E] = << >>
  BY EntryFacts, AddressAssumption
<1>4. registry' = E /\ waiters' = [waiters EXCEPT ![E] = Append(@, t)] /\ requested' = requested
  BY DEF WaitBlocks
<1> HIDE DEF E
<1>5. waiters[E] \in Seq(Threads) /\ waiters'[E] = Append(waiters[E], t)
  BY <1>3, <1>4 DEF AddrInv, AddrTypeOK
<1>6. Queue' = Filter(Append(waiters[E], t), U)
  BY <1>3, <1>4, <1>5 DEF Queue, Unasked
<1>7. Queue = Filter(waiters[E], U)
  BY <1>3, FilterEmpty DEF Queue, Unasked
<1>8. Queue' = Append(Queue, t)
  BY <1>2, <1>5, <1>6, <1>7, FilterAppend
<1> QED
  BY <1>1, <1>4, <1>8, OutsideNotWaiting DEF WaitBlocks, Promise!Enter

\* The way out of Wait: a thread that was asked returns OK, another leaves the
\* queue with what the word says.
LEMMA ImplementsLeave ==
    ASSUME AddrInv, NEW t \in Threads, Recheck(t), NEW res, Leave(t, res),
           requested[t] \/ word # expected[t] => res = "OK",
           ~requested[t] /\ word = expected[t] => res = "ETIMEDOUT"
    PROVE  Promise!Return(t) \/ Promise!Leave(t)
<1> DEFINE U == {u \in Threads : ~requested[u]}
           e == registry
           left == Filter(waiters[e], Threads \ {t})
<1>1. t \in Inside
  BY DEF Recheck, Inside
<1>2. home[t] = e /\ e \in Entries /\ e # NoEntry
  BY <1>1, LeaveFacts, AddressAssumption
<1>3. waiters[e] \in Seq(Threads)
  BY <1>2 DEF AddrInv, AddrTypeOK
<1>4. /\ waiters' = [waiters EXCEPT ![e] = left]
      /\ requested' = [requested EXCEPT ![t] = FALSE]
      /\ result' = [result EXCEPT ![t] = res]
      /\ UNCHANGED <<word, registry, expected>>
  BY <1>2 DEF Leave
<1> HIDE DEF left
<1>5. {u \in Threads : ~requested'[u]} = U \cup {t}
  BY <1>4 DEF AddrInv, AddrTypeOK
<1>6. Queue' = Filter(left, U \cup {t})
  <2>1. waiters'[e] = left
    BY <1>2, <1>4 DEF AddrInv, AddrTypeOK
  <2> QED
    BY <1>2, <1>4, <1>5, <2>1 DEF Queue, Unasked
<1>7. Queue' = Filter(waiters[e], (Threads \ {t}) \cap (U \cup {t}))
  BY <1>3, <1>6, FilterTwice DEF left
<1>8. Queue = Filter(waiters[e], U)
  BY <1>2 DEF Queue, Unasked
<1>9. CASE requested[t]
  <2>1. (Threads \ {t}) \cap (U \cup {t}) = U
    BY <1>9
  <2>2. Queue' = Queue
    BY <1>7, <1>8, <2>1
  <2>3. {u \in Threads : requested'[u]} = {u \in Threads : requested[u]} \ {t}
    BY <1>4 DEF AddrInv, AddrTypeOK
  <2> QED
    BY <1>4, <1>9, <2>2, <2>3 DEF Promise!Return
<1>10. CASE ~requested[t]
  <2>1. (Threads \ {t}) \cap (U \cup {t}) = U \cap (Threads \ {t})
    OBVIOUS
  <2>2. Queue' = Filter(Queue, Threads \ {t})
    BY <1>3, <1>7, <1>8, <2>1, FilterTwice
  <2>3. Promise!Filter(Queue, Threads \ {t}) = Filter(Queue, Threads \ {t})
    BY DEF Promise!Filter, Promise!Kept, Filter, Kept
  <2>4. {u \in Threads : requested'[u]} = {u \in Threads : requested[u]}
    BY <1>4, <1>10 DEF AddrInv, AddrTypeOK
  <2>5. t \in ToSet(Queue)
    BY <1>1, <1>10, QueueFacts
  <2>6. result' = [result EXCEPT ![t] = IF word # expected[t] THEN "OK" ELSE "ETIMEDOUT"]
    BY <1>4, <1>10
  <2> QED
    BY <1>4, <2>2, <2>3, <2>4, <2>5, <2>6 DEF Promise!Leave, Promise!ToSet, ToSet
<1> QED
  BY <1>9, <1>10

\* A wake takes the first n waiters of the abstract queue.
LEMMA ImplementsWake ==
    ASSUME AddrInv, NEW t \in Threads, NEW n \in WakeCounts, Wake(t, n)
    PROVE  Promise!Wake(n)
<1> DEFINE k == IF n < Len(Queue) THEN n ELSE Len(Queue)
           U == {u \in Threads : ~requested[u]}
<1>0. n \in Nat
  BY AddressAssumption
<1>1. /\ k \in 0 .. Len(Queue)
      /\ Take(n) = ToSet(SubSeq(Queue, 1, k))
      /\ Take(n) = First(Queue, k)
  BY <1>0, TakeFacts
<1>2. requested' = [u \in Threads |-> requested[u] \/ u \in Take(n)]
  BY DEF Wake
<1>3. Take(n) \subseteq Threads
  BY <1>0, TakeFacts DEF Inside
<1>4. {u \in Threads : requested'[u]} = {u \in Threads : requested[u]} \cup ToSet(SubSeq(Queue, 1, k))
  <2> HIDE DEF k
  <2> QED
    BY <1>1, <1>2, <1>3
<1>5. Queue' = SubSeq(Queue, k + 1, Len(Queue))
  <2>1. Queue \in Seq(Threads) /\ Distinct(Queue)
    BY QueueFacts
  <2>2. Filter(Queue, Threads \ First(Queue, k)) = SubSeq(Queue, k + 1, Len(Queue))
    BY <1>1, <2>1, FilterTail
  <2>3. Queue' = Filter(Queue, Threads \ Take(n))
    <3>1. registry' = registry /\ waiters' = waiters
      BY DEF Wake
    <3>2. CASE registry = NoEntry
      <4>1. Queue = << >> /\ Queue' = << >>
        BY <3>1, <3>2 DEF Queue
      <4> QED
        BY <4>1, FilterEmpty
    <3>3. CASE registry # NoEntry
      <4>1. waiters[registry] \in Seq(Threads)
        BY <3>3 DEF AddrInv, AddrTypeOK
      <4>2. {u \in Threads : ~requested'[u]} = U \cap (Threads \ Take(n))
        BY <1>2
      <4>3. Queue' = Filter(waiters[registry], U \cap (Threads \ Take(n)))
        BY <3>1, <3>3, <4>2 DEF Queue, Unasked
      <4>4. Queue = Filter(waiters[registry], U)
        BY <3>3 DEF Queue, Unasked
      <4> QED
        BY <4>1, <4>3, <4>4, FilterTwice
    <3> QED
      BY <3>2, <3>3
  <2> QED
    BY <1>1, <2>2, <2>3
<1>6. UNCHANGED <<word, expected, result>>
  BY DEF Wake
<1> QED
  BY <1>4, <1>5, <1>6 DEF Promise!Wake, Promise!ToSet, ToSet

\* Every step is a step of AddressWait or leaves what it sees alone.
LEMMA ImplementsNext == AddrInv /\ [Next]_vars => [Promise!Next]_(Promise!vars)
<1> SUFFICES ASSUME AddrInv, [Next]_vars PROVE Promise!Next \/ UNCHANGED Promise!vars
  OBVIOUS
<1>1. ASSUME NEW t \in Threads, NEW w \in Words, Store(t, w) PROVE Promise!Next
  <2>1. Promise!Store(w)
    BY <1>1, QueueKept DEF Store, Promise!Store
  <2> QED
    BY <2>1 DEF Promise!Next
<1>2. ASSUME NEW t \in Threads, NEW w \in Words, WaitPasses(t, w) PROVE Promise!Next
  BY <1>2, ImplementsPass DEF Promise!Next
<1>3. ASSUME NEW t \in Threads, NEW w \in Words, NEW d \in {"none", "running"}, WaitBlocks(t, w, d)
      PROVE  Promise!Next
  BY <1>3, ImplementsEnter DEF Promise!Next
<1>4. ASSUME NEW t \in Threads, EndSlice(t) \/ Expire(t) PROVE UNCHANGED Promise!vars
  BY <1>4, QueueKept DEF EndSlice, Expire, Promise!vars
<1>5. ASSUME NEW t \in Threads, Recheck(t) PROVE Promise!Next \/ UNCHANGED Promise!vars
  <2>0. requested[t] \in BOOLEAN
    BY DEF AddrInv, AddrTypeOK
  <2>1. CASE (word # expected[t] \/ requested[t]) /\ Leave(t, "OK")
    BY <1>5, <2>1, ImplementsLeave DEF Promise!Next
  <2>2. CASE word = expected[t] /\ ~requested[t] /\ Leave(t, "ETIMEDOUT")
    BY <1>5, <2>2, ImplementsLeave DEF Promise!Next
  <2>3. CASE UNCHANGED <<word, registry, waiters, home, requested, expected, clock, result>>
    BY <2>3, QueueKept DEF Promise!vars
  <2> QED
    BY <1>5, <2>1, <2>2, <2>3 DEF Recheck
<1>6. ASSUME NEW t \in Threads, Erase(t) PROVE UNCHANGED Promise!vars
  <2>1. UNCHANGED <<waiters, requested, word, expected, result>>
    BY <1>6 DEF Erase
  <2>2. Queue' = Queue
    <3>1. CASE registry' = registry
      BY <2>1, <3>1, QueueKept
    <3>2. CASE registry' # registry
      <4>1. registry' = NoEntry /\ registry # NoEntry /\ waiters[registry] = << >>
        BY <1>6, <3>2 DEF Erase
      <4> QED
        BY <4>1, FilterEmpty DEF Queue, Unasked
    <3> QED
      BY <3>1, <3>2
  <2> QED
    BY <2>1, <2>2 DEF Promise!vars
<1>7. ASSUME NEW t \in Threads, NEW n \in WakeCounts, Wake(t, n) PROVE Promise!Next
  BY <1>7, ImplementsWake DEF Promise!Next
<1>8. CASE UNCHANGED vars
  BY <1>8, QueueKept DEF vars, Promise!vars
<1> QED
  BY <1>1, <1>2, <1>3, <1>4, <1>5, <1>6, <1>7, <1>8 DEF Next

\* For any number of threads and any wake counts, WaitPortable and WakePortable
\* with their registry, lists and flags do what AddressWait promises: a wake
\* takes effect in one step on the threads that came first, those return OK,
\* and nobody else is affected.
THEOREM ImplementsAddressWaitHolds == Spec => ImplementsAddressWait
<1>1. Init => Promise!Init
  BY ImplementsInit
<1>2. AddrInv /\ [Next]_vars => [Promise!Next]_(Promise!vars)
  BY ImplementsNext
<1> QED
  BY <1>1, <1>2, AddrInvariant, PTL DEF Spec, ImplementsAddressWait, Promise!Spec
=============================================================================
