-------------------------- MODULE KernelSemaProofs --------------------------
(***************************************************************************)
(* Theorems about KernelSema, for every set of threads, every initial and  *)
(* maximal count and every width of int.                                   *)
(***************************************************************************)
EXTENDS KernelSema, FiniteSetTheorems, SequenceTheorems, WellFoundedInduction, TLAPS

-----------------------------------------------------------------------------
(***************************************************************************)
(* WakeWaiters.  The recursive function Budget is used through its         *)
(* equations only; that they have a solution is shown by looking at the    *)
(* shortest prefix of the queue that would have none.                      *)
(***************************************************************************)

\* Every non-empty set of natural numbers has a smallest element.
LEMMA LeastElement ==
    ASSUME NEW T, T \subseteq Nat, T # {}
    PROVE  \E x \in T : \A y \in T : x <= y
<1> DEFINE R == {ss \in Nat \X Nat : ss[1] < ss[2]}
<1>1. IsWellFoundedOn(R, Nat)
  BY NatLessThanWellFounded DEF OpToRel
<1>2. PICK x \in T : \A y \in T : ~ (<<y, x>> \in R)
  BY <1>1, WFMin
<1>3. ASSUME NEW y \in T
      PROVE  x <= y
  <2>1. <<y, x>> \in Nat \X Nat
    OBVIOUS
  <2>2. ~ (<<y, x>>[1] < <<y, x>>[2])
    BY <1>2, <2>1
  <2>3. x \in Nat /\ y \in Nat
    OBVIOUS
  <2>4. QED
    BY <2>2, <2>3
<1>4. QED
  BY <1>3

\* What one waiter leaves of x tokens when WakeWaiters comes to position i.
Turn(i, x) ==
    IF ~waiter[waiting[i]].ready /\ waiter[waiting[i]].need <= x
    THEN x - waiter[waiting[i]].need
    ELSE x

\* The WaitingThread behind a queue position has the type of a WaitingThread.
LEMMA QueuedType ==
    ASSUME waiting \in Seq(Threads), waiter \in [Threads -> WaitingThread],
           MaxCount \in Nat, NEW i \in 1 .. Len(waiting)
    PROVE  /\ waiting[i] \in Threads
           /\ waiter[waiting[i]].need \in Nat
           /\ waiter[waiting[i]].need <= MaxCount
           /\ waiter[waiting[i]].priority \in Nat
           /\ waiter[waiting[i]].ready \in BOOLEAN
<1>1. waiting[i] \in Threads
  OBVIOUS
<1>2. waiter[waiting[i]] \in WaitingThread
  BY <1>1
<1>3. QED
  BY <1>1, <1>2 DEF WaitingThread

\* WakeWaiters' walk is well defined: Budget(c) starts at c and takes one Turn
\* per position of the queue.
LEMMA BudgetEquations ==
    ASSUME waiting \in Seq(Threads), waiter \in [Threads -> WaitingThread],
           MaxCount \in Nat, NEW c \in Int
    PROVE  /\ Budget(c) \in [0 .. Len(waiting) -> Int]
           /\ Budget(c)[0] = c
           /\ \A i \in 1 .. Len(waiting) : Budget(c)[i] = Turn(i, Budget(c)[i - 1])
<1> DEFINE N == Len(waiting)
           Good(n) == \E g \in [0 .. n -> Int] :
                         /\ g[0] = c
                         /\ \A i \in 1 .. n : g[i] = Turn(i, g[i - 1])
<1>0. N \in Nat
  OBVIOUS
<1>1. ASSUME NEW i \in 1 .. N, NEW x \in Int
      PROVE  Turn(i, x) \in Int
  BY QueuedType DEF Turn
<1>2. Good(0)
  <2> DEFINE g == [i \in 0 .. 0 |-> c]
  <2>1. g \in [0 .. 0 -> Int]
    OBVIOUS
  <2>2. g[0] = c
    OBVIOUS
  <2>3. \A i \in 1 .. 0 : g[i] = Turn(i, g[i - 1])
    OBVIOUS
  <2> HIDE DEF g
  <2>4. QED
    BY <2>1, <2>2, <2>3
<1>3. ASSUME NEW n \in Nat, n + 1 <= N, Good(n)
      PROVE  Good(n + 1)
  <2>1. PICK g \in [0 .. n -> Int] :
            /\ g[0] = c
            /\ \A i \in 1 .. n : g[i] = Turn(i, g[i - 1])
    BY <1>3
  <2> DEFINE h == [i \in 0 .. (n + 1) |-> IF i <= n THEN g[i] ELSE Turn(n + 1, g[n])]
  <2>2. Turn(n + 1, g[n]) \in Int
    BY <1>1, <1>3
  <2>3. h \in [0 .. (n + 1) -> Int]
    BY <2>2
  <2>4. h[0] = c
    BY <2>1
  <2>5. ASSUME NEW i \in 1 .. (n + 1)
        PROVE  h[i] = Turn(i, h[i - 1])
    <3>1. CASE i <= n
      <4>1. h[i] = g[i] /\ h[i - 1] = g[i - 1] /\ i \in 1 .. n
        BY <3>1
      <4>2. QED
        BY <4>1, <2>1
    <3>2. CASE i = n + 1
      <4>1. h[i] = Turn(n + 1, g[n]) /\ h[i - 1] = g[n]
        BY <3>2
      <4>2. QED
        BY <4>1, <3>2
    <3>3. QED
      BY <3>1, <3>2
  <2>6. QED
    BY <2>3, <2>4, <2>5
<1> HIDE DEF Good
<1>4. Good(N)
  <2> DEFINE T == {n \in 0 .. N : ~ Good(n)}
  <2>1. SUFFICES ASSUME ~ Good(N)
                 PROVE  FALSE
    OBVIOUS
  <2>2. T \subseteq Nat /\ N \in T
    BY <2>1, <1>0
  <2>3. PICK x \in T : \A y \in T : x <= y
    BY <2>2, LeastElement
  <2>4. x # 0
    BY <1>2
  <2>5. x - 1 \in Nat /\ x - 1 \in 0 .. N /\ (x - 1) + 1 = x /\ x <= N
    BY <2>4, <1>0
  <2>6. Good(x - 1)
    BY <2>3, <2>5
  <2>7. Good((x - 1) + 1)
    BY <2>5, <2>6, <1>3
  <2>8. QED
    BY <2>5, <2>7
<1>5. PICK g \in [0 .. N -> Int] :
            /\ g[0] = c
            /\ \A i \in 1 .. N : g[i] = Turn(i, g[i - 1])
  BY <1>4 DEF Good
<1> DEFINE Body(f) ==
        [i \in 0 .. N |->
            IF i = 0 THEN c
            ELSE IF ~waiter[waiting[i]].ready /\ waiter[waiting[i]].need <= f[i - 1]
                 THEN f[i - 1] - waiter[waiting[i]].need
                 ELSE f[i - 1]]
<1>6. g = Body(g)
  <2>1. \A i \in 0 .. N : g[i] = Body(g)[i]
    BY <1>5 DEF Turn
  <2>2. g = [i \in 0 .. N |-> g[i]] /\ DOMAIN Body(g) = 0 .. N
    OBVIOUS
  <2>3. QED
    BY <2>1, <2>2
<1>7. Budget(c) = CHOOSE f : f = Body(f)
  BY DEF Budget
<1>8. Budget(c) = Body(Budget(c))
  BY <1>6, <1>7
<1>9. Budget(c)[0] = c
  BY <1>8, <1>0
<1>10. ASSUME NEW i \in 1 .. N
       PROVE  Budget(c)[i] = Turn(i, Budget(c)[i - 1])
  <2>1. Budget(c)[i] = Body(Budget(c))[i]
    BY <1>8
  <2>2. i \in 0 .. N /\ i # 0
    OBVIOUS
  <2>3. QED
    BY <2>1, <2>2 DEF Turn
<1>11. \A n \in 0 .. N : Budget(c)[n] \in Int
  <2> DEFINE T == {n \in 0 .. N : Budget(c)[n] \notin Int}
  <2>1. SUFFICES ASSUME T # {}
                 PROVE  FALSE
    OBVIOUS
  <2>2. PICK x \in T : \A y \in T : x <= y
    <3>1. T \subseteq Nat
      BY <1>0
    <3>2. QED
      BY <2>1, <3>1, LeastElement
  <2>3. x # 0
    BY <1>9
  <2>4. x - 1 \in 0 .. N /\ x \in 1 .. N /\ ~(x <= x - 1)
    BY <2>3, <1>0
  <2>5. Budget(c)[x - 1] \in Int
    BY <2>2, <2>4
  <2>6. QED
    BY <2>4, <2>5, <1>1, <1>10
<1>12. Budget(c) \in [0 .. N -> Int]
  <2>1. Budget(c) = [i \in 0 .. N |-> Budget(c)[i]]
    BY <1>8
  <2>2. QED
    BY <2>1, <1>11
<1>13. QED
  BY <1>9, <1>10, <1>12

\* The tokens only go down along the queue, and never below zero unless
\* WakeWaiters already started below zero.
LEMMA BudgetBounds ==
    ASSUME waiting \in Seq(Threads), waiter \in [Threads -> WaitingThread],
           MaxCount \in Nat, NEW c \in Int
    PROVE  /\ \A i, j \in 0 .. Len(waiting) : i <= j => Budget(c)[j] <= Budget(c)[i]
           /\ \A j \in 0 .. Len(waiting) : Budget(c)[j] >= c \/ Budget(c)[j] >= 0
<1> DEFINE N == Len(waiting)
           B == Budget(c)
<1>0. N \in Nat
  OBVIOUS
<1>1. /\ B \in [0 .. N -> Int]
      /\ B[0] = c
      /\ \A i \in 1 .. N : B[i] = Turn(i, B[i - 1])
  BY BudgetEquations
<1> HIDE DEF B
<1>2. ASSUME NEW i \in 1 .. N
      PROVE  /\ B[i] \in Int /\ B[i - 1] \in Int
             /\ B[i] <= B[i - 1]
             /\ B[i] = B[i - 1] \/ B[i] >= 0
  <2>1. i - 1 \in 0 .. N /\ i \in 0 .. N
    BY <1>0
  <2>2. B[i] = Turn(i, B[i - 1])
    BY <1>1
  <2>3. B[i] \in Int /\ B[i - 1] \in Int
    BY <1>1, <2>1
  <2>4. waiter[waiting[i]].need \in Nat
    BY QueuedType
  <2>5. QED
    BY <2>2, <2>3, <2>4 DEF Turn
<1>3. ASSUME NEW i \in 0 .. N
      PROVE  \A j \in 0 .. N : i <= j => B[j] <= B[i]
  <2> DEFINE T == {j \in 0 .. N : i <= j /\ ~(B[j] <= B[i])}
  <2>1. SUFFICES ASSUME T # {}
                 PROVE  FALSE
    OBVIOUS
  <2>2. PICK x \in T : \A y \in T : x <= y
    <3>1. T \subseteq Nat
      BY <1>0
    <3>2. QED
      BY <2>1, <3>1, LeastElement
  <2>3. B[i] \in Int /\ B[x] \in Int
    BY <1>1
  <2>4. x # i
    BY <2>3
  <2>5. x \in 1 .. N /\ x - 1 \in 0 .. N /\ i <= x - 1 /\ ~(x <= x - 1)
    BY <2>4, <1>0
  <2>6. B[x - 1] <= B[i]
    BY <2>2, <2>5
  <2>7. B[x] <= B[x - 1] /\ B[x - 1] \in Int
    BY <1>2, <2>5
  <2>8. QED
    BY <2>3, <2>6, <2>7
<1>4. \A j \in 0 .. N : B[j] >= c \/ B[j] >= 0
  <2> DEFINE T == {j \in 0 .. N : ~(B[j] >= c \/ B[j] >= 0)}
  <2>1. SUFFICES ASSUME T # {}
                 PROVE  FALSE
    OBVIOUS
  <2>2. PICK x \in T : \A y \in T : x <= y
    <3>1. T \subseteq Nat
      BY <1>0
    <3>2. QED
      BY <2>1, <3>1, LeastElement
  <2>3. x # 0
    BY <1>1
  <2>4. x \in 1 .. N /\ x - 1 \in 0 .. N /\ ~(x <= x - 1)
    BY <2>3, <1>0
  <2>5. B[x - 1] >= c \/ B[x - 1] >= 0
    BY <2>2, <2>4
  <2>6. QED
    BY <1>2, <2>4, <2>5
<1>5. QED
  BY <1>3, <1>4 DEF B

\* One position of WakeWaiters' walk: a waiter is granted exactly when it had
\* no result and the tokens left at its turn were enough.
LEMMA GrantedAt ==
    ASSUME waiting \in Seq(Threads), waiter \in [Threads -> WaitingThread],
           MaxCount \in Nat, NEW c \in Int, NEW i \in 1 .. Len(waiting),
           waiter[waiting[i]].need >= 1
    PROVE  Budget(c)[i] < Budget(c)[i - 1]
              <=> /\ ~waiter[waiting[i]].ready
                  /\ waiter[waiting[i]].need <= Budget(c)[i - 1]
<1>1. /\ Budget(c) \in [0 .. Len(waiting) -> Int]
      /\ Budget(c)[i] = Turn(i, Budget(c)[i - 1])
  BY BudgetEquations
<1>2. Budget(c)[i - 1] \in Int
  BY <1>1
<1>3. waiter[waiting[i]].need \in Nat
  BY QueuedType
<1>4. QED
  BY <1>1, <1>2, <1>3 DEF Turn

-----------------------------------------------------------------------------
(***************************************************************************)
(* AddWaiter and RemoveWaiter.                                             *)
(***************************************************************************)

\* Inserting one element keeps the others, in their order.
LEMMA InsertAfterFacts ==
    ASSUME NEW S, NEW q \in Seq(S), NEW k \in 0 .. Len(q), NEW t \in S
    PROVE  /\ InsertAfter(q, k, t) \in Seq(S)
           /\ Len(InsertAfter(q, k, t)) = Len(q) + 1
           /\ Range(InsertAfter(q, k, t)) = Range(q) \cup {t}
<1> DEFINE r == InsertAfter(q, k, t)
<1>1. /\ Len(q) \in Nat /\ DOMAIN q = 1 .. Len(q)
      /\ \A i \in 1 .. Len(q) : q[i] \in S
  OBVIOUS
<1>2. r \in [1 .. Len(q) + 1 -> S]
  BY <1>1 DEF InsertAfter
<1>3. r \in Seq(S) /\ Len(r) = Len(q) + 1 /\ DOMAIN r = 1 .. Len(q) + 1
  <2>1. Len(q) + 1 \in Nat
    BY <1>1
  <2>2. r \in Seq(S)
    BY <1>2, <2>1, SeqDef
  <2>3. QED
    BY <1>2, <2>1, <2>2, LenProperties
<1>4. ASSUME NEW i \in 1 .. Len(q)
      PROVE  \E j \in DOMAIN r : r[j] = q[i]
  <2>1. CASE i <= k
    <3>1. i \in DOMAIN r /\ r[i] = q[i]
      BY <1>1, <1>3, <2>1 DEF InsertAfter
    <3>2. QED
      BY <3>1
  <2>2. CASE ~(i <= k)
    <3>1. i + 1 \in DOMAIN r /\ r[i + 1] = q[(i + 1) - 1] /\ (i + 1) - 1 = i
      BY <1>1, <1>3, <2>2 DEF InsertAfter
    <3>2. QED
      BY <3>1
  <2>3. QED
    BY <2>1, <2>2
<1>5. k + 1 \in DOMAIN r /\ r[k + 1] = t
  BY <1>1, <1>3 DEF InsertAfter
<1>6. ASSUME NEW j \in DOMAIN r
      PROVE  r[j] = t \/ \E i \in DOMAIN q : r[j] = q[i]
  <2>1. CASE j <= k
    BY <1>1, <1>3, <2>1 DEF InsertAfter
  <2>2. CASE j = k + 1
    BY <1>5, <2>2
  <2>3. CASE j > k + 1
    <3>1. r[j] = q[j - 1] /\ j - 1 \in DOMAIN q
      BY <1>1, <1>3, <2>3 DEF InsertAfter
    <3>2. QED
      BY <3>1
  <2>4. QED
    BY <1>1, <1>3, <2>1, <2>2, <2>3
<1> HIDE DEF r
<1>7. Range(r) = Range(q) \cup {t}
  BY <1>1, <1>4, <1>5, <1>6 DEF Range
<1>8. QED
  BY <1>3, <1>7 DEF r

\* AddWaiter's loop stops at a position of the queue: everyone before it has a
\* priority number no larger than the new one, the next one a larger one.
LEMMA InsertPointFacts ==
    ASSUME waiting \in Seq(Threads), waiter \in [Threads -> WaitingThread],
           MaxCount \in Nat, NEW p \in Nat
    PROVE  /\ InsertPoint(p) \in 0 .. Len(waiting)
           /\ ~Fifo =>
                /\ \A i \in 1 .. InsertPoint(p) : waiter[waiting[i]].priority <= p
                /\ InsertPoint(p) < Len(waiting)
                     => waiter[waiting[InsertPoint(p) + 1]].priority > p
           /\ Fifo => InsertPoint(p) = Len(waiting)
<1>0. Len(waiting) \in Nat
  OBVIOUS
<1>1. CASE Fifo
  BY <1>0, <1>1 DEF InsertPoint
<1>2. CASE ~Fifo
  <2> DEFINE Stop(k) ==
              /\ \A i \in 1 .. k : waiter[waiting[i]].priority <= p
              /\ k < Len(waiting) => waiter[waiting[k + 1]].priority > p
             T == {i \in 1 .. Len(waiting) : waiter[waiting[i]].priority > p}
  <2>1. \E k \in 0 .. Len(waiting) : Stop(k)
    <3>1. CASE T = {}
      <4>1. ASSUME NEW i \in 1 .. Len(waiting)
            PROVE  waiter[waiting[i]].priority <= p
        <5>1. waiter[waiting[i]].priority \in Nat /\ i \notin T
          BY <3>1, QueuedType
        <5>2. QED
          BY <5>1
      <4>2. Stop(Len(waiting))
        BY <4>1, <1>0
      <4>3. QED
        BY <4>2, <1>0
    <3>2. CASE T # {}
      <4>1. PICK x \in T : \A y \in T : x <= y
        <5>1. T \subseteq Nat
          BY <1>0
        <5>2. QED
          BY <3>2, <5>1, LeastElement
      <4>2. x - 1 \in 0 .. Len(waiting) /\ (x - 1) + 1 = x
        BY <1>0
      <4>3. \A i \in 1 .. (x - 1) : waiter[waiting[i]].priority <= p
        <5>1. SUFFICES ASSUME NEW i \in 1 .. (x - 1)
                       PROVE  waiter[waiting[i]].priority <= p
          OBVIOUS
        <5>2. i \in 1 .. Len(waiting) /\ ~(x <= i)
          BY <1>0
        <5>3. i \notin T
          BY <4>1, <5>2
        <5>4. waiter[waiting[i]].priority \in Nat
          BY <5>2, QueuedType
        <5>5. QED
          BY <5>2, <5>3, <5>4
      <4>4. Stop(x - 1)
        BY <4>2, <4>3
      <4>5. QED
        BY <4>2, <4>4
    <3>3. QED
      BY <3>1, <3>2
  <2>2. InsertPoint(p) = CHOOSE k \in 0 .. Len(waiting) : Stop(k)
    BY <1>2 DEF InsertPoint
  <2> HIDE DEF Stop
  <2>3. InsertPoint(p) \in 0 .. Len(waiting) /\ Stop(InsertPoint(p))
    BY <2>1, <2>2
  <2>4. QED
    BY <1>2, <2>3 DEF Stop
<1>3. QED
  BY <1>1, <1>2

\* Inserting a new element keeps the elements pairwise distinct.
LEMMA InsertAfterDistinct ==
    ASSUME NEW S, NEW q \in Seq(S), NEW k \in 0 .. Len(q), NEW t \in S,
           \A i \in DOMAIN q : q[i] # t,
           \A i, j \in DOMAIN q : q[i] = q[j] => i = j
    PROVE  \A i, j \in 1 .. Len(q) + 1 :
              InsertAfter(q, k, t)[i] = InsertAfter(q, k, t)[j] => i = j
<1> DEFINE r == InsertAfter(q, k, t)
<1>1. /\ Len(q) \in Nat /\ DOMAIN q = 1 .. Len(q)
  OBVIOUS
<1>2. \A i \in 1 .. Len(q) + 1 :
        /\ i <= k => r[i] = q[i] /\ i \in DOMAIN q
        /\ i = k + 1 => r[i] = t
        /\ i > k + 1 => r[i] = q[i - 1] /\ i - 1 \in DOMAIN q
  BY <1>1 DEF InsertAfter
<1> HIDE DEF r
<1>3. SUFFICES ASSUME NEW i \in 1 .. Len(q) + 1, NEW j \in 1 .. Len(q) + 1, r[i] = r[j]
               PROVE  i = j
  BY DEF r
<1>4. /\ i \in Int /\ j \in Int /\ k \in Int
      /\ i <= k \/ i = k + 1 \/ i > k + 1
      /\ j <= k \/ j = k + 1 \/ j > k + 1
  BY <1>1
<1>5. CASE i = k + 1 \/ j = k + 1
  BY <1>2, <1>3, <1>4, <1>5
<1>6. CASE i <= k /\ j <= k
  BY <1>2, <1>3, <1>4, <1>6
<1>7. CASE i <= k /\ j > k + 1
  <2>1. i = j - 1
    BY <1>2, <1>3, <1>7
  <2>2. QED
    BY <2>1, <1>4, <1>7
<1>8. CASE i > k + 1 /\ j <= k
  <2>1. i - 1 = j
    BY <1>2, <1>3, <1>8
  <2>2. QED
    BY <2>1, <1>4, <1>8
<1>9. CASE i > k + 1 /\ j > k + 1
  <2>1. i - 1 = j - 1
    BY <1>2, <1>3, <1>9
  <2>2. QED
    BY <2>1, <1>4
<1>10. QED
  BY <1>4, <1>5, <1>6, <1>7, <1>8, <1>9

\* RemoveWaiter gives a queue again, whoever calls it.
LEMMA RemoveWaiterType ==
    ASSUME waiting \in Seq(Threads), NEW t
    PROVE  RemoveWaiter(t) \in Seq(Threads)
<1>1. Len(waiting) \in Nat /\ \A i \in 1 .. Len(waiting) : waiting[i] \in Threads
  OBVIOUS
<1>2. CASE Len(waiting) = 0
  <2>1. RemoveWaiter(t) \in [1 .. 0 -> Threads]
    BY <1>2 DEF RemoveWaiter
  <2>2. QED
    BY <2>1, SeqDef
<1>3. CASE Len(waiting) # 0
  <2>1. Len(waiting) - 1 \in Nat
    BY <1>1, <1>3
  <2>2. RemoveWaiter(t) \in [1 .. Len(waiting) - 1 -> Threads]
    BY <1>1 DEF RemoveWaiter
  <2>3. QED
    BY <2>1, <2>2, SeqDef
<1>4. QED
  BY <1>2, <1>3

\* RemoveWaiter takes out the caller and keeps the others, in their order.
LEMMA RemoveWaiterFacts ==
    ASSUME waiting \in Seq(Threads), NEW t \in Queued,
           \A i, j \in DOMAIN waiting : waiting[i] = waiting[j] => i = j
    PROVE  LET r == RemoveWaiter(t)
           IN  /\ DOMAIN r = 1 .. Len(waiting) - 1
               /\ Range(r) = Queued \ {t}
               /\ \E k \in DOMAIN waiting :
                     /\ waiting[k] = t
                     /\ \A i \in DOMAIN r :
                           r[i] = waiting[IF i < k THEN i ELSE i + 1]
<1> DEFINE r == RemoveWaiter(t)
           n == Len(waiting)
           k == CHOOSE i \in DOMAIN waiting : waiting[i] = t
<1>1. n \in Nat /\ DOMAIN waiting = 1 .. n
  OBVIOUS
<1>2. k \in DOMAIN waiting /\ waiting[k] = t
  BY DEF Queued, Range
<1>3. r = [i \in 1 .. n - 1 |-> IF i < k THEN waiting[i] ELSE waiting[i + 1]]
  BY DEF RemoveWaiter
<1> HIDE DEF k, r
<1>4. DOMAIN r = 1 .. n - 1
  BY <1>3
<1>5. ASSUME NEW i \in DOMAIN r
      PROVE  /\ r[i] = waiting[IF i < k THEN i ELSE i + 1]
             /\ r[i] \in Queued \ {t}
  <2>1. r[i] = waiting[IF i < k THEN i ELSE i + 1]
    BY <1>3, <1>4
  <2>2. (IF i < k THEN i ELSE i + 1) \in DOMAIN waiting
    BY <1>1, <1>2, <1>4
  <2>3. (IF i < k THEN i ELSE i + 1) # k
    BY <1>1, <1>2, <1>4
  <2>4. QED
    BY <2>1, <2>2, <2>3, <1>2 DEF Queued, Range
<1>6. ASSUME NEW i \in DOMAIN waiting, waiting[i] # t
      PROVE  \E j \in DOMAIN r : r[j] = waiting[i]
  <2>1. i # k
    BY <1>2, <1>6
  <2>2. CASE i < k
    <3>1. i \in DOMAIN r /\ r[i] = waiting[i]
      BY <1>1, <1>2, <1>3, <1>4, <2>2
    <3>2. QED
      BY <3>1
  <2>3. CASE i > k
    <3>1. i - 1 \in DOMAIN r /\ r[i - 1] = waiting[(i - 1) + 1] /\ (i - 1) + 1 = i
      BY <1>1, <1>2, <1>3, <1>4, <2>3
    <3>2. QED
      BY <3>1
  <2>4. QED
    BY <1>1, <1>2, <2>1, <2>2, <2>3
<1>7. Range(r) = Queued \ {t}
  BY <1>5, <1>6 DEF Queued, Range
<1>8. QED
  BY <1>2, <1>4, <1>5, <1>7 DEF r

-----------------------------------------------------------------------------
(***************************************************************************)
(* Type correctness.                                                       *)
(***************************************************************************)

\* An int sum or difference, and the correction Cancel makes to the ledger,
\* wrap around at most once.
LEMMA WrapType ==
    ASSUME NEW x \in Int, 0 <= x + 3 * (IntMax + 1), x < 3 * (IntMax + 1)
    PROVE  Wrap(x) \in Ints
BY SemaAssumption DEF Wrap, Ints

\* The range of the correction Cancel makes to the ledger.
LEMMA LedgerSpan ==
    ASSUME NEW m \in Int, NEW a \in Int, NEW b \in Int, NEW c \in Int,
           0 <= a + m, a < m, 0 <= b, b < m, 0 <= c + m, c < m
    PROVE  0 <= (a + b - c) + 3 * m /\ a + b - c < 3 * m
OBVIOUS

\* The guest sees OK exactly when the semaphore gave tokens.
LEMMA CodeOk ==
    ASSUME NEW r \in Results
    PROVE  /\ WaitCode[r] = "OK" <=> r = "Ok"
           /\ PollCode[r] = "OK" <=> r = "Ok"
BY DEF Results, WaitCode, PollCode

\* Settle keeps the types of the two history variables.
LEMMA SettleType ==
    ASSUME ledger \in Ints, owed \in Int, NEW n \in Ints, NEW code, Settle(n, code)
    PROVE  ledger' \in Ints /\ owed' \in Int
<1>1. ledger \in Int /\ n \in Int /\ ledger - n \in Int
  BY SemaAssumption DEF Ints
<1>2. Wrap(ledger - n) \in Ints
  BY <1>1, WrapType, SemaAssumption DEF Ints
<1>3. QED
  BY <1>2 DEF Settle

\* What Wait and Poll return without sleeping, and what they take.
LEMMA ImmediateFacts ==
    ASSUME count \in Ints, NEW n \in Ints
    PROVE  /\ Immediate(n) \in Results
           /\ Immediate(n) = "Ok" => 1 <= n /\ n <= MaxCount /\ n <= count
           /\ Immediate(n) = "TimedOut" =>
                 1 <= n /\ n <= MaxCount /\ n > count /\ status # "Deleted"
           /\ (IF Immediate(n) = "Ok" THEN count - n ELSE count) \in Ints
BY SemaAssumption DEF Ints, Immediate, Results

\* The sum KernelSignalSema compares with m_max_count, and what WakeWaiters
\* leaves of it.
LEMMA SignalFacts ==
    ASSUME TypeOK, NEW n \in Ints
    PROVE  /\ Wrap(count + n) \in Ints
           /\ Budget(Wrap(count + n))[Len(waiting)] \in Ints
           /\ Budget(Wrap(count + n))[Len(waiting)] <= Wrap(count + n)
           /\ Wrap(ledger + n) \in Ints
<1> DEFINE c == Wrap(count + n)
           N == Len(waiting)
<1>1. /\ waiting \in Seq(Threads) /\ waiter \in [Threads -> WaitingThread]
      /\ count \in Ints /\ ledger \in Ints /\ N \in Nat /\ MaxCount \in Nat
  BY SemaAssumption DEF TypeOK
<1>2. c \in Ints /\ Wrap(ledger + n) \in Ints
  BY <1>1, WrapType, SemaAssumption DEF Ints
<1>3. c \in Int
  BY <1>2, SemaAssumption DEF Ints
<1> HIDE DEF c
<1>4. /\ Budget(c) \in [0 .. N -> Int] /\ Budget(c)[0] = c
      /\ \A i, j \in 0 .. N : i <= j => Budget(c)[j] <= Budget(c)[i]
      /\ \A j \in 0 .. N : Budget(c)[j] >= c \/ Budget(c)[j] >= 0
  BY <1>1, <1>3, BudgetEquations, BudgetBounds
<1>5. /\ Budget(c)[N] \in Int /\ Budget(c)[N] <= c
      /\ Budget(c)[N] >= c \/ Budget(c)[N] >= 0
  BY <1>1, <1>4
<1>6. Budget(c)[N] \in Ints
  BY <1>2, <1>3, <1>5, SemaAssumption DEF Ints
<1>7. QED
  BY <1>2, <1>5, <1>6 DEF c

\* Giving results to a set of waiters keeps the WaitingThread records.
LEMMA DecideType ==
    ASSUME waiter \in [Threads -> WaitingThread], NEW S, NEW result \in Results,
           Decide(S, result)
    PROVE  waiter' \in [Threads -> WaitingThread]
<1>1. ASSUME NEW t \in Threads
      PROVE  [waiter[t] EXCEPT !.result = result, !.ready = TRUE] \in WaitingThread
  BY DEF WaitingThread
<1>2. QED
  BY <1>1 DEF Decide

\* The record Wait puts on its stack, before and after it is filled in.
LEMMA NewWaiterType ==
    ASSUME NEW n \in 0 .. MaxCount, NEW p \in Nat
    PROVE  /\ NoWaiter \in WaitingThread
           /\ [need |-> n, priority |-> p, result |-> "TimedOut", ready |-> FALSE]
                 \in WaitingThread
<1>1. NoWaiter \in WaitingThread
  BY SemaAssumption DEF NoWaiter, WaitingThread, Results
<1>2. QED
  BY <1>1 DEF WaitingThread, Results

\* Leaving Wait keeps the types.
LEMMA LeaveType ==
    ASSUME TypeOK, NEW t \in Threads, NEW result \in Results, Leave(t, result)
    PROVE  TypeOK'
<1> USE DEF TypeOK
<1>1. waiting' \in Seq(Threads)
  BY RemoveWaiterType DEF Leave
<1>2. waiter' \in [Threads -> WaitingThread]
  <2>1. NoWaiter \in WaitingThread
    BY SemaAssumption DEF NoWaiter, WaitingThread, Results
  <2>2. QED
    BY <2>1 DEF Leave
<1>3. waiter[t].need \in Ints
  <2>1. waiter[t] \in WaitingThread
    OBVIOUS
  <2>2. QED
    BY <2>1, SemaAssumption DEF WaitingThread, Ints
<1>4. ledger' \in Ints /\ owed' \in Int
  BY <1>3, SettleType DEF Leave
<1>5. QED
  BY <1>1, <1>2, <1>4 DEF Leave

\* Every variable of the semaphore stays in its range, for every instance.
THEOREM TypeCorrect == Spec => []TypeOK
<1>1. Init => TypeOK
  <2>1. NoWaiter \in WaitingThread
    BY SemaAssumption DEF NoWaiter, WaitingThread, Results
  <2>2. InitCount \in Ints
    BY SemaAssumption DEF Ints
  <2>3. << >> \in Seq(Threads)
    OBVIOUS
  <2>5. SUFFICES ASSUME Init
                 PROVE  TypeOK
    OBVIOUS
  <2>6. /\ waiter \in [Threads -> WaitingThread]
        /\ pc \in [Threads -> {"idle", "blocked", "polling", "deleting"}]
        /\ clock \in [Threads -> {"none", "running", "expired"}]
    BY <2>1, <2>5 DEF Init
  <2>7. freed \in BOOLEAN
    BY <2>5, Zenon DEF Init
  <2>8. status \in {"Set", "Deleted"} /\ count \in Ints
    BY <2>2, <2>5 DEF Init
  <2>9. waiting \in Seq(Threads) /\ ledger \in Ints /\ owed \in Int
    BY <2>2, <2>3, <2>5 DEF Init
  <2>10. QED
    BY <2>6, <2>7, <2>8, <2>9 DEF TypeOK
<1>2. TypeOK /\ [Next]_vars => TypeOK'
  <2>1. SUFFICES ASSUME TypeOK, [Next]_vars
                 PROVE  TypeOK'
    OBVIOUS
  <2>2. CASE UNCHANGED vars
    BY <2>1, <2>2 DEF vars, TypeOK
  <2>3. ASSUME NEW t \in Threads, NEW n \in NeedCounts, WaitReturns(t, n)
        PROVE  TypeOK'
    <3>1. n \in Ints
      BY SemaAssumption
    <3>2. count' \in Ints
      BY <2>1, <2>3, <3>1, ImmediateFacts DEF TypeOK, WaitReturns
    <3>3. ledger' \in Ints /\ owed' \in Int
      BY <2>1, <2>3, <3>1, SettleType DEF TypeOK, WaitReturns
    <3>4. QED
      BY <2>1, <2>3, <3>2, <3>3 DEF TypeOK, WaitReturns
  <2>4. ASSUME NEW t \in Threads, NEW n \in NeedCounts, Poll(t, n)
        PROVE  TypeOK'
    <3>1. n \in Ints
      BY SemaAssumption
    <3>2. count' \in Ints
      BY <2>1, <2>4, <3>1, ImmediateFacts DEF TypeOK, Poll
    <3>3. ledger' \in Ints /\ owed' \in Int
      BY <2>1, <2>4, <3>1, SettleType DEF TypeOK, Poll
    <3>4. QED
      BY <2>1, <2>4, <3>2, <3>3 DEF TypeOK, Poll
  <2>5. ASSUME NEW t \in Threads, NEW n \in NeedCounts, NEW p \in Priorities,
               NEW d \in {"none", "running"}, WaitBlocks(t, n, p, d)
        PROVE  TypeOK'
    <3> DEFINE prio == IF Fifo THEN 0 ELSE p
    <3>1. prio \in Nat
      BY SemaAssumption
    <3>2. n \in Ints /\ Immediate(n) = "TimedOut"
      BY <2>5, SemaAssumption DEF WaitBlocks
    <3>3. n \in 0 .. MaxCount
      BY <2>1, <3>2, ImmediateFacts, SemaAssumption DEF TypeOK, Ints
    <3>4. [need |-> n, priority |-> prio, result |-> "TimedOut", ready |-> FALSE]
             \in WaitingThread
      BY <3>1, <3>3, NewWaiterType
    <3>5. waiter' \in [Threads -> WaitingThread]
      BY <2>1, <2>5, <3>4 DEF TypeOK, WaitBlocks
    <3>6. InsertPoint(prio) \in 0 .. Len(waiting)
      BY <2>1, <3>1, InsertPointFacts, SemaAssumption DEF TypeOK
    <3> HIDE DEF prio
    <3>7. AddWaiter(t, prio) \in Seq(Threads)
      BY <2>1, <3>6, InsertAfterFacts DEF TypeOK, AddWaiter
    <3>8. waiting' \in Seq(Threads)
      BY <2>5, <3>7 DEF WaitBlocks, prio
    <3>9. QED
      BY <2>1, <2>5, <3>5, <3>8 DEF TypeOK, WaitBlocks
  <2>6. ASSUME NEW t \in Threads, NEW n \in SignalCounts, Signal(t, n)
        PROVE  TypeOK'
    <3>1. n \in Ints
      BY SemaAssumption
    <3>2. count' \in Ints /\ ledger' \in Ints
      BY <2>1, <2>6, <3>1, SignalFacts DEF Signal
    <3>3. waiter' \in [Threads -> WaitingThread]
      BY <2>1, <2>6, DecideType DEF TypeOK, Signal, Results
    <3>4. QED
      BY <2>1, <2>6, <3>2, <3>3 DEF TypeOK, Signal
  <2>7. ASSUME NEW t \in Threads, NEW n \in CancelCounts, Cancel(t, n)
        PROVE  TypeOK'
    <3>1. n \in Ints /\ n <= MaxCount
      BY <2>7, SemaAssumption DEF Cancel
    <3>2. count' \in Ints /\ count' >= 0
      BY <2>7, <3>1, SemaAssumption DEF Cancel, Ints
    <3>3. ledger' \in Ints
      <4>1. ledger' = Wrap(ledger + count' - count)
        BY <2>7 DEF Cancel
      <4>2. ledger + count' - count \in Int
        BY <2>1, <3>2, SemaAssumption DEF TypeOK, Ints
      <4>3. /\ 0 <= (ledger + count' - count) + 3 * (IntMax + 1)
            /\ ledger + count' - count < 3 * (IntMax + 1)
        <5>1. IntMax + 1 \in Int /\ ledger \in Int /\ count \in Int /\ count' \in Int
          BY <2>1, <3>2, SemaAssumption DEF TypeOK, Ints
        <5>2. /\ 0 <= ledger + (IntMax + 1) /\ ledger < IntMax + 1
              /\ 0 <= count + (IntMax + 1) /\ count < IntMax + 1
              /\ 0 <= count' /\ count' < IntMax + 1
          BY <2>1, <3>2, SemaAssumption DEF TypeOK, Ints
        <5>3. QED
          BY <5>1, <5>2, LedgerSpan
      <4>4. QED
        BY <4>1, <4>2, <4>3, WrapType
    <3>4. owed' \in Int
      <4>1. IsFiniteSet({u \in Threads : Pending(u)})
        BY SemaAssumption, FS_Subset
      <4>2. Cardinality({u \in Threads : Pending(u)}) \in Nat
        BY <4>1, FS_CardinalityType
      <4>3. QED
        BY <2>1, <2>7, <4>2 DEF TypeOK, Cancel
    <3>5. waiter' \in [Threads -> WaitingThread]
      BY <2>1, <2>7, DecideType DEF TypeOK, Cancel, Results
    <3>6. QED
      BY <2>1, <2>7, <3>2, <3>3, <3>4, <3>5 DEF TypeOK, Cancel
  <2>8. ASSUME NEW t \in Threads, Delete(t)
        PROVE  TypeOK'
    <3>1. waiter' \in [Threads -> WaitingThread]
      BY <2>1, <2>8, DecideType DEF TypeOK, Delete, Results
    <3>2. pc' \in [Threads -> {"idle", "blocked", "polling", "deleting"}]
      BY <2>1, <2>8 DEF TypeOK, Delete, Drain
    <3>3. freed' \in BOOLEAN
      BY <2>8, Zenon DEF Delete, Drain
    <3>4. QED
      BY <2>1, <2>8, <3>1, <3>2, <3>3 DEF TypeOK, Delete
  <2>9. ASSUME NEW t \in Threads, DeleteDrain(t)
        PROVE  TypeOK'
    BY <2>1, <2>9 DEF TypeOK, DeleteDrain
  <2>10. ASSUME NEW t \in Threads, Wake(t)
         PROVE  TypeOK'
    BY <2>1, <2>10 DEF TypeOK, Wake
  <2>11. ASSUME NEW t \in Threads, Expire(t)
         PROVE  TypeOK'
    BY <2>1, <2>11 DEF TypeOK, Expire
  <2>12. ASSUME NEW t \in Threads, Recheck(t)
         PROVE  TypeOK'
    <3>1. waiter[t].result \in Results
      BY <2>1 DEF TypeOK, WaitingThread
    <3>2. CASE Leave(t, waiter[t].result)
      BY <2>1, <3>1, <3>2, LeaveType
    <3>3. CASE Leave(t, "TimedOut")
      BY <2>1, <3>3, LeaveType DEF Results
    <3>4. CASE Block(t)
      BY <2>1, <3>4 DEF TypeOK, Block
    <3>5. QED
      BY <2>12, <3>2, <3>3, <3>4 DEF Recheck
  <2>13. QED
    BY <2>1, <2>2, <2>3, <2>4, <2>5, <2>6, <2>7, <2>8, <2>9, <2>10, <2>11, <2>12 DEF Next
<1>3. QED
  BY <1>1, <1>2, PTL DEF Spec

-----------------------------------------------------------------------------
(***************************************************************************)
(* The inductive invariant.                                                *)
(***************************************************************************)

\* One destructor runs at most, and it ends only on an empty queue.
Lifecycle ==
    /\ status = "Set" => ~freed /\ \A t \in Threads : pc[t] # "deleting"
    /\ \A t, u \in Threads : pc[t] = "deleting" /\ pc[u] = "deleting" => t = u
    /\ freed => waiting = << >> /\ \A t \in Threads : pc[t] # "deleting"

\* A queued waiter passed the checks of Wait, and has priority 0 in FIFO mode.
QueuedNeeds ==
    \A t \in Queued : waiter[t].need >= 1 /\ (Fifo => waiter[t].priority = 0)

SemaInv ==
    /\ QueueIsCallers
    /\ Lifecycle
    /\ QueuedNeeds
    /\ NoMissedGrant
    /\ PriorityOrder
    /\ CountInRange

\* Queued threads are threads.
LEMMA QueuedThreads ==
    ASSUME waiting \in Seq(Threads)
    PROVE  Queued \subseteq Threads
BY DEF Queued, Range

\* Decide touches the result and ready fields of the waiters in S only.
LEMMA DecideKeeps ==
    ASSUME waiter \in [Threads -> WaitingThread], NEW S, NEW result,
           Decide(S, result), NEW t \in Threads
    PROVE  /\ waiter'[t].need = waiter[t].need
           /\ waiter'[t].priority = waiter[t].priority
           /\ t \in S => waiter'[t].ready = TRUE /\ waiter'[t].result = result
           /\ t \notin S => waiter'[t] = waiter[t]
<1>1. waiter[t] \in WaitingThread
  OBVIOUS
<1>2. waiter'[t] = IF t \in S THEN [waiter[t] EXCEPT !.result = result, !.ready = TRUE]
                             ELSE waiter[t]
  BY DEF Decide
<1>3. QED
  BY <1>1, <1>2 DEF WaitingThread

\* A call that queues nobody and decides nothing, and takes tokens at most.
LEMMA TakeKeepsInv ==
    ASSUME TypeOK, SemaInv, count' \in Int, count' <= count, count >= 0 => count' >= 0,
           UNCHANGED <<status, freed, waiting, waiter, pc, clock>>
    PROVE  SemaInv'
<1> USE DEF SemaInv
<1>1. count \in Int /\ MaxCount \in Int
  BY SemaAssumption DEF TypeOK, Ints
<1>2. QueueIsCallers' /\ Lifecycle' /\ QueuedNeeds' /\ PriorityOrder'
  BY DEF QueueIsCallers, Lifecycle, QueuedNeeds, PriorityOrder, Queued, Range
<1>3. NoMissedGrant'
  <2>1. SUFFICES ASSUME NEW t \in Threads, Pending(t)
                 PROVE  waiter[t].need > count'
    BY DEF NoMissedGrant, Pending, Queued, Range
  <2>2. waiter[t].need > count
    BY <2>1 DEF NoMissedGrant
  <2>3. waiter[t].need \in Int
    BY SemaAssumption DEF TypeOK, WaitingThread
  <2>4. QED
    BY <1>1, <2>2, <2>3
<1>4. CountInRange'
  BY <1>1 DEF CountInRange, SignalsFit
<1>5. QED
  BY <1>2, <1>3, <1>4

\* A step that gives results to queued waiters and leaves the queue alone.
LEMMA DecideKeepsQueue ==
    ASSUME TypeOK, SemaInv, NEW S, NEW result, Decide(S, result), UNCHANGED waiting
    PROVE  QueuedNeeds' /\ PriorityOrder' /\ Queued' = Queued
<1> USE DEF SemaInv
<1>1. waiting \in Seq(Threads) /\ waiter \in [Threads -> WaitingThread]
  BY DEF TypeOK
<1>2. Queued' = Queued
  BY DEF Queued, Range
<1>3. QueuedNeeds'
  <2>1. SUFFICES ASSUME NEW t \in Queued
                 PROVE  waiter'[t].need >= 1 /\ (Fifo => waiter'[t].priority = 0)
    BY <1>2 DEF QueuedNeeds
  <2>2. t \in Threads
    BY <1>1, QueuedThreads
  <2>3. QED
    BY <1>1, <2>2, DecideKeeps DEF QueuedNeeds
<1>4. PriorityOrder'
  <2>1. SUFFICES ASSUME NEW i \in DOMAIN waiting, NEW j \in DOMAIN waiting, i < j
                 PROVE  waiter'[waiting[i]].priority <= waiter'[waiting[j]].priority
    BY DEF PriorityOrder
  <2>2. waiting[i] \in Threads /\ waiting[j] \in Threads
    BY <1>1
  <2>3. /\ waiter'[waiting[i]].priority = waiter[waiting[i]].priority
        /\ waiter'[waiting[j]].priority = waiter[waiting[j]].priority
    BY <1>1, <2>2, DecideKeeps
  <2>4. QED
    BY <2>1, <2>3 DEF PriorityOrder
<1>5. QED
  BY <1>2, <1>3, <1>4

\* KernelSignalSema: whoever is still pending afterwards needs more than what
\* WakeWaiters left.
LEMMA SignalKeepsInv ==
    ASSUME TypeOK, SemaInv, NEW t \in Threads, NEW n \in SignalCounts, Signal(t, n)
    PROVE  SemaInv'
<1> DEFINE c == Wrap(count + n)
           N == Len(waiting)
<1>1. /\ waiting \in Seq(Threads) /\ waiter \in [Threads -> WaitingThread]
      /\ N \in Nat /\ MaxCount \in Nat /\ DOMAIN waiting = 1 .. N
  BY SemaAssumption DEF TypeOK
<1>2. /\ Decide(Granted(c), "Ok") /\ UNCHANGED <<waiting, pc, status, freed>>
      /\ count' = Budget(c)[N] /\ c <= MaxCount
  BY DEF Signal
<1>3. n \in Ints
  BY SemaAssumption
<1>4. c \in Ints /\ Budget(c)[N] \in Ints /\ Budget(c)[N] <= c
  BY <1>3, SignalFacts
<1>5. c \in Int /\ count' \in Int
  BY <1>2, <1>4, SemaAssumption DEF Ints
<1>6. SignalsFit => count' >= 0
  <2>1. SUFFICES ASSUME SignalsFit
                 PROVE  count' >= 0
    OBVIOUS
  <2>2. count \in Int /\ n \in Int /\ 0 <= n /\ n <= IntMax - MaxCount
    BY <1>3, <2>1, SemaAssumption DEF SignalsFit, TypeOK, Ints
  <2>3. 0 <= count /\ count <= MaxCount
    BY <2>1 DEF SemaInv, CountInRange
  <2>4. c = count + n
    BY <2>2, <2>3, SemaAssumption DEF Wrap
  <2>5. c >= 0
    BY <2>2, <2>3, <2>4
  <2>6. Budget(c)[N] >= c \/ Budget(c)[N] >= 0
    BY <1>1, <1>5, BudgetBounds
  <2>7. QED
    BY <1>2, <1>5, <2>5, <2>6
<1> HIDE DEF c
<1>7. QueuedNeeds' /\ PriorityOrder' /\ Queued' = Queued
  BY <1>2, DecideKeepsQueue
<1>8. QueueIsCallers' /\ Lifecycle'
  BY <1>2, <1>7 DEF SemaInv, QueueIsCallers, Lifecycle
<1>9. CountInRange'
  BY <1>1, <1>2, <1>4, <1>5, <1>6 DEF CountInRange, SignalsFit
<1>10. NoMissedGrant'
  <2>1. SUFFICES ASSUME NEW u \in Threads, u \in Queued, ~waiter'[u].ready
                 PROVE  waiter'[u].need > count'
    BY <1>7 DEF NoMissedGrant, Pending
  <2>2. PICK i \in 1 .. N : u = waiting[i]
    BY <1>1, <2>1 DEF Queued, Range
  <2>3. u \notin Granted(c) /\ waiter'[u] = waiter[u]
    BY <1>1, <1>2, <2>1, DecideKeeps
  <2>4. ~(Budget(c)[i] < Budget(c)[i - 1])
    BY <1>1, <2>2, <2>3 DEF Granted
  <2>5. waiter[u].need >= 1
    BY <2>1 DEF SemaInv, QueuedNeeds
  <2>6. ~(waiter[u].need <= Budget(c)[i - 1])
    BY <1>1, <1>5, <2>1, <2>2, <2>3, <2>4, <2>5, GrantedAt
  <2>7. Budget(c) \in [0 .. N -> Int]
    BY <1>1, <1>5, BudgetEquations
  <2>8. Budget(c)[N] <= Budget(c)[i - 1]
    <3>1. i - 1 \in 0 .. N /\ N \in 0 .. N /\ i - 1 <= N
      BY <1>1
    <3>2. QED
      BY <1>1, <1>5, <3>1, BudgetBounds
  <2>9. waiter[u].need \in Int /\ Budget(c)[i - 1] \in Int
    BY <1>1, <2>2, <2>7, QueuedType
  <2>10. QED
    BY <1>2, <1>5, <2>3, <2>6, <2>8, <2>9
<1>11. QED
  BY <1>7, <1>8, <1>9, <1>10 DEF SemaInv

\* KernelCancelSema and KernelDeleteSema leave nobody pending.
LEMMA NobodyPending ==
    ASSUME TypeOK, NEW result, Decide({u \in Threads : Pending(u)}, result),
           UNCHANGED waiting
    PROVE  NoMissedGrant'
<1>1. waiting \in Seq(Threads) /\ waiter \in [Threads -> WaitingThread]
  BY DEF TypeOK
<1>2. SUFFICES ASSUME NEW u \in Threads, u \in Queued, ~waiter'[u].ready
               PROVE  FALSE
  BY DEF NoMissedGrant, Pending, Queued, Range
<1>3. u \notin {v \in Threads : Pending(v)} /\ waiter'[u] = waiter[u]
  BY <1>1, <1>2, DecideKeeps
<1>4. QED
  BY <1>2, <1>3 DEF Pending

\* A caller joins the queue: behind its equals, before the first larger
\* priority number.
LEMMA WaitBlocksKeepsInv ==
    ASSUME TypeOK, SemaInv, NEW t \in Threads, NEW n \in NeedCounts,
           NEW p \in Priorities, NEW d, WaitBlocks(t, n, p, d)
    PROVE  SemaInv'
<1> DEFINE prio == IF Fifo THEN 0 ELSE p
           N == Len(waiting)
           new == [need |-> n, priority |-> prio, result |-> "TimedOut", ready |-> FALSE]
<1>1. /\ waiting \in Seq(Threads) /\ waiter \in [Threads -> WaitingThread]
      /\ N \in Nat /\ MaxCount \in Nat /\ DOMAIN waiting = 1 .. N
      /\ pc \in [Threads -> {"idle", "blocked", "polling", "deleting"}]
  BY SemaAssumption DEF TypeOK
<1>2. prio \in Nat
  BY SemaAssumption
<1>3. n \in Ints /\ count \in Ints /\ Immediate(n) = "TimedOut"
  BY SemaAssumption DEF WaitBlocks, TypeOK
<1>4. 1 <= n /\ n > count /\ status # "Deleted"
  BY <1>3, ImmediateFacts
<1>5. PICK k \in 0 .. N :
        /\ k = InsertPoint(prio)
        /\ Fifo => k = N
        /\ ~Fifo => \A i \in 1 .. k : waiter[waiting[i]].priority <= prio
        /\ ~Fifo => (k < N => waiter[waiting[k + 1]].priority > prio)
  BY <1>1, <1>2, InsertPointFacts
<1>6. /\ waiting' = InsertAfter(waiting, k, t)
      /\ waiter' = [waiter EXCEPT ![t] = new]
      /\ pc' = [pc EXCEPT ![t] = "blocked"]
      /\ ~freed /\ pc[t] = "idle"
      /\ UNCHANGED <<status, freed, count>>
  BY <1>5 DEF WaitBlocks, AddWaiter
<1>7. new.need = n /\ new.priority = prio /\ new.ready = FALSE /\ (Fifo => prio = 0)
  OBVIOUS
<1> HIDE DEF prio, new
<1>8. t \notin Queued /\ \A i \in DOMAIN waiting : waiting[i] # t
  BY <1>5, <1>6 DEF SemaInv, QueueIsCallers, Queued, Range
<1>9. /\ waiting' \in Seq(Threads) /\ Len(waiting') = N + 1
      /\ Queued' = Queued \cup {t}
  <2>0. waiting \in Seq(Threads) /\ k \in 0 .. Len(waiting) /\ t \in Threads
    BY <1>1
  <2>1. /\ InsertAfter(waiting, k, t) \in Seq(Threads)
        /\ Len(InsertAfter(waiting, k, t)) = Len(waiting) + 1
    BY <2>0, InsertAfterFacts
  <2>2. Range(InsertAfter(waiting, k, t)) = Range(waiting) \cup {t}
    BY <2>0, InsertAfterFacts
  <2>3. QED
    BY <1>6, <2>1, <2>2 DEF Queued
<1>10. DOMAIN waiting' = 1 .. N + 1
  BY <1>9
<1>11. waiter'[t] = new /\ \A u \in Threads \ {t} : waiter'[u] = waiter[u]
  BY <1>1, <1>5, <1>6
<1>12. QueueIsCallers'
  <2>1. Queued' = {u \in Threads : pc'[u] \in {"blocked", "polling"}}
    BY <1>1, <1>5, <1>6, <1>9 DEF SemaInv, QueueIsCallers
  <2>2. \A i, j \in DOMAIN waiting' : waiting'[i] = waiting'[j] => i = j
    BY <1>1, <1>5, <1>6, <1>8, <1>10, InsertAfterDistinct DEF SemaInv, QueueIsCallers
  <2>3. QED
    BY <2>1, <2>2 DEF QueueIsCallers
<1>13. Lifecycle'
  BY <1>1, <1>5, <1>6 DEF SemaInv, Lifecycle
<1>14. QueuedNeeds'
  <2>1. SUFFICES ASSUME NEW u \in Queued'
                 PROVE  waiter'[u].need >= 1 /\ (Fifo => waiter'[u].priority = 0)
    BY DEF QueuedNeeds
  <2>2. CASE u = t
    BY <1>4, <1>7, <1>11, <2>2
  <2>3. CASE u # t
    <3>1. u \in Queued /\ waiter'[u] = waiter[u]
      BY <1>1, <1>9, <1>11, <2>3, QueuedThreads
    <3>2. QED
      BY <3>1 DEF SemaInv, QueuedNeeds
  <2>4. QED
    BY <2>2, <2>3
<1>15. NoMissedGrant'
  <2>1. SUFFICES ASSUME NEW u \in Threads, u \in Queued', ~waiter'[u].ready
                 PROVE  waiter'[u].need > count
    BY <1>5, <1>6 DEF NoMissedGrant, Pending
  <2>2. CASE u = t
    BY <1>4, <1>7, <1>11, <2>2
  <2>3. CASE u # t
    <3>1. u \in Queued /\ waiter'[u] = waiter[u]
      BY <1>9, <1>11, <2>1, <2>3
    <3>2. QED
      BY <2>1, <3>1 DEF SemaInv, NoMissedGrant, Pending
  <2>4. QED
    BY <2>2, <2>3
<1>16. PriorityOrder'
  <2> DEFINE Prio(i) == waiter'[waiting'[i]].priority
             Old(i) == waiter[waiting[i]].priority
  <2>1. ASSUME NEW i \in 1 .. N + 1
        PROVE  /\ i <= k => i \in 1 .. N /\ Prio(i) = Old(i)
               /\ i = k + 1 => Prio(i) = prio
               /\ i > k + 1 => i - 1 \in 1 .. N /\ Prio(i) = Old(i - 1)
    <3>1. /\ i <= k => i \in 1 .. N /\ waiting'[i] = waiting[i]
          /\ i = k + 1 => waiting'[i] = t
          /\ i > k + 1 => i - 1 \in 1 .. N /\ waiting'[i] = waiting[i - 1]
      BY <1>1, <1>5, <1>6 DEF InsertAfter
    <3>2. ASSUME NEW j \in 1 .. N
          PROVE  waiter'[waiting[j]] = waiter[waiting[j]]
      BY <1>1, <1>8, <1>11
    <3>3. QED
      BY <1>7, <1>11, <3>1, <3>2
  <2>2. \A i \in 1 .. N : Old(i) \in Nat
    BY <1>1, QueuedType
  <2>3. \A i, j \in 1 .. N : i < j => Old(i) <= Old(j)
    BY <1>1 DEF SemaInv, PriorityOrder
  <2>4. \A i \in 1 .. N : i <= k => Old(i) <= prio
    <3>1. CASE Fifo
      <4>1. SUFFICES ASSUME NEW i \in 1 .. N
                     PROVE  Old(i) <= prio
        OBVIOUS
      <4>2. waiting[i] \in Queued
        BY <1>1 DEF Queued, Range
      <4>3. QED
        BY <1>2, <1>7, <3>1, <4>2 DEF SemaInv, QueuedNeeds
    <3>2. CASE ~Fifo
      BY <1>1, <1>5, <1>6, <3>2
    <3>3. QED
      BY <3>1, <3>2
  <2>5. \A i \in 1 .. N : i > k => prio <= Old(i)
    <3>1. SUFFICES ASSUME NEW i \in 1 .. N, i > k
                   PROVE  prio <= Old(i)
      OBVIOUS
    <3>2. ~Fifo /\ k < N /\ k + 1 \in 1 .. N
      BY <1>1, <1>5, <1>6, <3>1
    <3>3. Old(k + 1) > prio
      BY <1>5, <1>6, <3>2
    <3>4. i = k + 1 \/ k + 1 < i
      BY <1>1, <1>5, <1>6, <3>1
    <3>5. Old(i) = Old(k + 1) \/ Old(k + 1) <= Old(i)
      BY <2>3, <3>2, <3>4
    <3>6. QED
      BY <1>2, <2>2, <3>2, <3>3, <3>5
  <2> HIDE DEF Prio, Old
  <2>6. SUFFICES ASSUME NEW i \in 1 .. N + 1, NEW j \in 1 .. N + 1, i < j
                 PROVE  Prio(i) <= Prio(j)
    BY <1>10 DEF PriorityOrder, Prio
  <2>7. k \in Int /\ N \in Int
    BY <1>1, <1>5, <1>6
  <2>8. CASE j <= k
    BY <2>1, <2>3, <2>6, <2>7, <2>8
  <2>9. CASE j = k + 1
    BY <2>1, <2>4, <2>6, <2>7, <2>9
  <2>10. CASE j > k + 1 /\ i <= k
    <3>1. Prio(j) = Old(j - 1) /\ j - 1 \in 1 .. N /\ i < j - 1
      BY <2>1, <2>6, <2>7, <2>10
    <3>2. QED
      BY <2>1, <2>3, <2>10, <3>1
  <2>11. CASE j > k + 1 /\ i = k + 1
    <3>1. Prio(j) = Old(j - 1) /\ j - 1 \in 1 .. N /\ j - 1 > k
      BY <2>1, <2>7, <2>11
    <3>2. QED
      BY <2>1, <2>5, <2>11, <3>1
  <2>12. CASE j > k + 1 /\ i > k + 1
    <3>1. /\ Prio(j) = Old(j - 1) /\ j - 1 \in 1 .. N
          /\ Prio(i) = Old(i - 1) /\ i - 1 \in 1 .. N /\ i - 1 < j - 1
      BY <2>1, <2>6, <2>7, <2>12
    <3>2. QED
      BY <2>3, <3>1
  <2>13. QED
    BY <2>7, <2>8, <2>9, <2>10, <2>11, <2>12
<1>17. CountInRange'
  BY <1>5, <1>6 DEF SemaInv, CountInRange, SignalsFit
<1>18. QED
  BY <1>12, <1>13, <1>14, <1>15, <1>16, <1>17 DEF SemaInv

\* A caller leaves the queue.
LEMMA LeaveKeepsInv ==
    ASSUME TypeOK, SemaInv, NEW t \in Threads, pc[t] = "polling", NEW result,
           Leave(t, result)
    PROVE  SemaInv'
<1> DEFINE N == Len(waiting)
<1>1. /\ waiting \in Seq(Threads) /\ waiter \in [Threads -> WaitingThread]
      /\ N \in Nat /\ DOMAIN waiting = 1 .. N
      /\ pc \in [Threads -> {"idle", "blocked", "polling", "deleting"}]
  BY DEF TypeOK
<1>2. /\ waiting' = RemoveWaiter(t)
      /\ waiter' = [waiter EXCEPT ![t] = NoWaiter]
      /\ pc' = [pc EXCEPT ![t] = "idle"]
      /\ UNCHANGED <<status, freed, count>>
  BY DEF Leave
<1>3. t \in Queued /\ \A i, j \in DOMAIN waiting : waiting[i] = waiting[j] => i = j
  BY DEF SemaInv, QueueIsCallers
<1>4. /\ DOMAIN RemoveWaiter(t) = 1 .. N - 1
      /\ Range(RemoveWaiter(t)) = Queued \ {t}
      /\ \E k \in DOMAIN waiting :
            \A i \in DOMAIN RemoveWaiter(t) :
               RemoveWaiter(t)[i] = waiting[IF i < k THEN i ELSE i + 1]
  BY <1>1, <1>3, RemoveWaiterFacts
<1>5. PICK k \in 1 .. N :
        \A i \in 1 .. N - 1 : waiting'[i] = waiting[IF i < k THEN i ELSE i + 1]
  BY <1>1, <1>2, <1>4
<1>6. DOMAIN waiting' = 1 .. N - 1 /\ Queued' = Queued \ {t}
  BY <1>2, <1>4 DEF Queued, Range
<1>7. ASSUME NEW i \in 1 .. N - 1
      PROVE  /\ (IF i < k THEN i ELSE i + 1) \in 1 .. N
             /\ waiting'[i] \in Queued \ {t}
             /\ waiting'[i] \in Threads
             /\ waiter'[waiting'[i]] = waiter[waiting[IF i < k THEN i ELSE i + 1]]
  <2>1. (IF i < k THEN i ELSE i + 1) \in 1 .. N
    BY <1>1
  <2>2. waiting'[i] \in Queued \ {t}
    BY <1>6 DEF Queued, Range
  <2>3. waiting'[i] \in Threads
    BY <1>1, <2>2, QueuedThreads
  <2>4. waiter'[waiting'[i]] = waiter[waiting'[i]]
    BY <1>1, <1>2, <2>2, <2>3
  <2>5. QED
    BY <1>5, <2>1, <2>2, <2>3, <2>4
<1>8. QueueIsCallers'
  <2>1. Queued' = {u \in Threads : pc'[u] \in {"blocked", "polling"}}
    BY <1>1, <1>2, <1>6 DEF SemaInv, QueueIsCallers
  <2>2. ASSUME NEW i \in 1 .. N - 1, NEW j \in 1 .. N - 1, waiting'[i] = waiting'[j]
        PROVE  i = j
    <3>1. (IF i < k THEN i ELSE i + 1) = (IF j < k THEN j ELSE j + 1)
      BY <1>1, <1>3, <1>5, <1>7, <2>2
    <3>2. QED
      BY <1>1, <3>1
  <2>3. QED
    BY <1>6, <2>1, <2>2 DEF QueueIsCallers
<1>9. Lifecycle'
  <2>1. freed => waiting = << >>
    BY DEF SemaInv, Lifecycle
  <2>2. ~freed
    BY <1>3, <2>1 DEF Queued, Range
  <2>3. QED
    BY <1>1, <1>2, <2>2 DEF SemaInv, Lifecycle
<1>10. ASSUME NEW u \in Queued'
       PROVE  u \in Queued /\ u \in Threads /\ waiter'[u] = waiter[u]
  <2>1. u \in Queued /\ u # t
    BY <1>6
  <2>2. u \in Threads
    BY <1>1, <2>1, QueuedThreads
  <2>3. QED
    BY <1>1, <1>2, <2>1, <2>2
<1>11. QueuedNeeds'
  BY <1>10 DEF SemaInv, QueuedNeeds
<1>12. NoMissedGrant'
  BY <1>2, <1>10 DEF SemaInv, NoMissedGrant, Pending
<1>13. PriorityOrder'
  <2>1. SUFFICES ASSUME NEW i \in 1 .. N - 1, NEW j \in 1 .. N - 1, i < j
                 PROVE  waiter'[waiting'[i]].priority <= waiter'[waiting'[j]].priority
    BY <1>6 DEF PriorityOrder
  <2>2. (IF i < k THEN i ELSE i + 1) < (IF j < k THEN j ELSE j + 1)
    BY <1>1, <2>1
  <2>3. /\ (IF i < k THEN i ELSE i + 1) \in DOMAIN waiting
        /\ (IF j < k THEN j ELSE j + 1) \in DOMAIN waiting
    BY <1>1, <1>7
  <2>4. waiter[waiting[IF i < k THEN i ELSE i + 1]].priority
          <= waiter[waiting[IF j < k THEN j ELSE j + 1]].priority
    BY <2>2, <2>3 DEF SemaInv, PriorityOrder
  <2>5. QED
    BY <1>7, <2>4
<1>14. CountInRange'
  BY <1>2 DEF SemaInv, CountInRange, SignalsFit
<1>15. QED
  BY <1>8, <1>9, <1>11, <1>12, <1>13, <1>14 DEF SemaInv

\* A thread changes its place without touching the queue: asleep or looking.
LEMMA MoveKeepsInv ==
    ASSUME TypeOK, SemaInv, NEW t \in Threads, NEW a \in {"blocked", "polling"},
           pc[t] \in {"blocked", "polling"}, pc' = [pc EXCEPT ![t] = a],
           UNCHANGED <<status, freed, count, waiting, waiter>>
    PROVE  SemaInv'
<1>1. pc \in [Threads -> {"idle", "blocked", "polling", "deleting"}]
  BY DEF TypeOK
<1>2. Queued' = Queued
  BY DEF Queued, Range
<1>3. QueueIsCallers' /\ Lifecycle'
  BY <1>1, <1>2 DEF SemaInv, QueueIsCallers, Lifecycle
<1>4. QueuedNeeds' /\ NoMissedGrant' /\ PriorityOrder' /\ CountInRange'
  BY <1>2 DEF SemaInv, QueuedNeeds, NoMissedGrant, Pending, PriorityOrder, CountInRange,
              SignalsFit
<1>5. QED
  BY <1>3, <1>4 DEF SemaInv

\* Every step of the semaphore keeps the invariant.
LEMMA StepKeepsInv ==
    ASSUME TypeOK, SemaInv, [Next]_vars
    PROVE  SemaInv'
<1>1. CASE UNCHANGED vars
  <2>1. Queued' = Queued
    BY <1>1 DEF vars, Queued, Range
  <2>2. QED
    BY <1>1, <2>1 DEF vars, SemaInv, QueueIsCallers, Lifecycle, QueuedNeeds, NoMissedGrant,
                      Pending, PriorityOrder, CountInRange, SignalsFit
<1>2. ASSUME NEW t \in Threads, NEW n \in NeedCounts, WaitReturns(t, n) \/ Poll(t, n)
      PROVE  SemaInv'
  <2>1. n \in Ints /\ n \in Int /\ count \in Ints /\ count \in Int
    BY SemaAssumption DEF TypeOK, Ints
  <2>2. /\ count' = IF Immediate(n) = "Ok" THEN count - n ELSE count
        /\ UNCHANGED <<status, freed, waiting, waiter, pc, clock>>
    BY <1>2 DEF WaitReturns, Poll
  <2>3. Immediate(n) = "Ok" => 1 <= n /\ n <= count
    BY <2>1, ImmediateFacts
  <2>4. count' \in Int /\ count' <= count /\ (count >= 0 => count' >= 0)
    BY <2>1, <2>2, <2>3
  <2>5. QED
    BY <2>2, <2>4, TakeKeepsInv
<1>3. ASSUME NEW t \in Threads, NEW n \in NeedCounts, NEW p \in Priorities,
             NEW d \in {"none", "running"}, WaitBlocks(t, n, p, d)
      PROVE  SemaInv'
  BY <1>3, WaitBlocksKeepsInv
<1>4. ASSUME NEW t \in Threads, NEW n \in SignalCounts, Signal(t, n)
      PROVE  SemaInv'
  BY <1>4, SignalKeepsInv
<1>5. ASSUME NEW t \in Threads, NEW n \in CancelCounts, Cancel(t, n)
      PROVE  SemaInv'
  <2>1. /\ Decide({u \in Threads : Pending(u)}, "Canceled")
        /\ count' = IF n < 0 THEN InitCount ELSE n
        /\ n <= MaxCount
        /\ UNCHANGED <<status, freed, waiting, pc, clock>>
    BY <1>5 DEF Cancel
  <2>2. NoMissedGrant'
    BY <2>1, NobodyPending
  <2>3. QueuedNeeds' /\ PriorityOrder' /\ Queued' = Queued
    BY <2>1, DecideKeepsQueue
  <2>4. QueueIsCallers' /\ Lifecycle'
    BY <2>1, <2>3 DEF SemaInv, QueueIsCallers, Lifecycle
  <2>5. CountInRange'
    BY <2>1, SemaAssumption DEF CountInRange, SignalsFit, Ints
  <2>6. QED
    BY <2>2, <2>3, <2>4, <2>5 DEF SemaInv
<1>6. ASSUME NEW t \in Threads, Delete(t)
      PROVE  SemaInv'
  <2>1. /\ Decide({u \in Threads : Pending(u)}, "Deleted")
        /\ status = "Set" /\ status' = "Deleted" /\ pc[t] = "idle"
        /\ pc' = [pc EXCEPT ![t] = IF waiting = << >> THEN "idle" ELSE "deleting"]
        /\ freed' <=> waiting = << >>
        /\ UNCHANGED <<count, waiting, clock>>
    BY <1>6 DEF Delete, Drain
  <2>2. NoMissedGrant'
    BY <2>1, NobodyPending
  <2>3. QueuedNeeds' /\ PriorityOrder' /\ Queued' = Queued
    BY <2>1, DecideKeepsQueue
  <2>4. pc \in [Threads -> {"idle", "blocked", "polling", "deleting"}]
    BY DEF TypeOK
  <2>5. QueueIsCallers'
    BY <2>1, <2>3, <2>4 DEF SemaInv, QueueIsCallers
  <2>6. Lifecycle'
    BY <2>1, <2>4 DEF SemaInv, Lifecycle
  <2>7. CountInRange'
    BY <2>1 DEF SemaInv, CountInRange, SignalsFit
  <2>8. QED
    BY <2>2, <2>3, <2>5, <2>6, <2>7 DEF SemaInv
<1>7. ASSUME NEW t \in Threads, DeleteDrain(t)
      PROVE  SemaInv'
  <2>1. /\ pc[t] = "deleting" /\ waiting = << >> /\ freed' = TRUE
        /\ pc' = [pc EXCEPT ![t] = "idle"]
        /\ UNCHANGED <<status, count, waiting, waiter>>
    BY <1>7 DEF DeleteDrain
  <2>2. pc \in [Threads -> {"idle", "blocked", "polling", "deleting"}]
    BY DEF TypeOK
  <2>3. Queued' = Queued
    BY <2>1 DEF Queued, Range
  <2>4. QueueIsCallers'
    BY <2>1, <2>2, <2>3 DEF SemaInv, QueueIsCallers
  <2>5. Lifecycle'
    BY <2>1, <2>2 DEF SemaInv, Lifecycle
  <2>6. QueuedNeeds' /\ NoMissedGrant' /\ PriorityOrder' /\ CountInRange'
    BY <2>1, <2>3 DEF SemaInv, QueuedNeeds, NoMissedGrant, Pending, PriorityOrder,
                      CountInRange, SignalsFit
  <2>7. QED
    BY <2>4, <2>5, <2>6 DEF SemaInv
<1>8. ASSUME NEW t \in Threads, Wake(t)
      PROVE  SemaInv'
  BY <1>8, MoveKeepsInv DEF Wake
<1>9. ASSUME NEW t \in Threads, Expire(t)
      PROVE  SemaInv'
  <2>1. UNCHANGED <<status, freed, count, waiting, waiter, pc>>
    BY <1>9 DEF Expire
  <2>2. Queued' = Queued
    BY <2>1 DEF Queued, Range
  <2>3. QED
    BY <2>1, <2>2 DEF SemaInv, QueueIsCallers, Lifecycle, QueuedNeeds, NoMissedGrant,
                      Pending, PriorityOrder, CountInRange, SignalsFit
<1>10. ASSUME NEW t \in Threads, Recheck(t)
       PROVE  SemaInv'
  <2>1. pc[t] = "polling"
    BY <1>10 DEF Recheck
  <2>2. CASE Leave(t, waiter[t].result) \/ Leave(t, "TimedOut")
    BY <2>1, <2>2, LeaveKeepsInv
  <2>3. CASE Block(t)
    BY <2>1, <2>3, MoveKeepsInv DEF Block
  <2>4. QED
    BY <1>10, <2>2, <2>3 DEF Recheck
<1>11. QED
  BY <1>1, <1>2, <1>3, <1>4, <1>5, <1>6, <1>7, <1>8, <1>9, <1>10 DEF Next

\* The invariant holds when KernelCreateSema returns.
LEMMA InitSemaInv == Init => SemaInv
<1>1. SUFFICES ASSUME Init
               PROVE  SemaInv
  OBVIOUS
<1>2. waiting = << >> /\ Queued = {}
  BY <1>1 DEF Init, Queued, Range
<1>3. QueueIsCallers /\ Lifecycle
  BY <1>1, <1>2 DEF Init, QueueIsCallers, Lifecycle
<1>4. QueuedNeeds /\ NoMissedGrant /\ PriorityOrder
  BY <1>2 DEF QueuedNeeds, NoMissedGrant, Pending, PriorityOrder
<1>5. CountInRange
  BY <1>1, SemaAssumption DEF Init, CountInRange
<1>6. QED
  BY <1>3, <1>4, <1>5 DEF SemaInv

\* The conjunction of the facts above is an invariant of the semaphore.
THEOREM SemaInvariant == Spec => []SemaInv
<1>1. TypeOK /\ SemaInv /\ [Next]_vars => SemaInv'
  BY StepKeepsInv
<1>2. QED
  BY <1>1, TypeCorrect, InitSemaInv, PTL DEF Spec

\* m_waiting_threads holds exactly the callers inside Wait, each once.
THEOREM QueueCorrect == Spec => []QueueIsCallers
<1>1. SemaInv => QueueIsCallers
  BY DEF SemaInv
<1>2. QED
  BY <1>1, SemaInvariant, PTL

\* No caller sleeps on tokens that are there: there are no lost wake-ups.
THEOREM NoLostWakeup == Spec => []NoMissedGrant
<1>1. SemaInv => NoMissedGrant
  BY DEF SemaInv
<1>2. QED
  BY <1>1, SemaInvariant, PTL

\* m_count never passes m_max_count, also when an int overflows.
THEOREM CountBounded == Spec => []CountInRange
<1>1. SemaInv => CountInRange
  BY DEF SemaInv
<1>2. QED
  BY <1>1, SemaInvariant, PTL

\* When KernelDeleteSema has freed the object nobody is inside its methods.
THEOREM DeleteSafe == Spec => []NoCallerOutlivesSema
<1>1. TypeOK /\ SemaInv => NoCallerOutlivesSema
  <2>1. SUFFICES ASSUME TypeOK, SemaInv, freed, NEW t \in Threads
                 PROVE  pc[t] = "idle"
    BY DEF NoCallerOutlivesSema
  <2>2. waiting = << >> /\ pc[t] # "deleting"
    BY <2>1 DEF SemaInv, Lifecycle
  <2>3. Queued = {}
    BY <2>2 DEF Queued, Range
  <2>4. pc[t] \notin {"blocked", "polling"}
    BY <2>1, <2>3 DEF SemaInv, QueueIsCallers
  <2>5. pc[t] \in {"idle", "blocked", "polling", "deleting"}
    BY <2>1 DEF TypeOK
  <2>6. QED
    BY <2>2, <2>4, <2>5
<1>2. QED
  BY <1>1, TypeCorrect, SemaInvariant, PTL

-----------------------------------------------------------------------------
(***************************************************************************)
(* Service order.                                                          *)
(***************************************************************************)

\* Only WakeWaiters, called by KernelSignalSema, grants a queued waiter.
LEMMA OnlySignalGrants ==
    ASSUME TypeOK, SemaInv, [Next]_vars, NEW u \in Threads, Pending(u),
           waiter'[u].ready, waiter'[u].result = "Ok"
    PROVE  \E t \in Threads, n \in SignalCounts : Signal(t, n)
<1>1. /\ waiter \in [Threads -> WaitingThread]
      /\ ~waiter[u].ready
  BY DEF TypeOK, Pending
<1>2. waiter' # waiter
  BY <1>1
<1>3. ASSUME NEW t \in Threads, NEW result, Leave(t, result)
      PROVE  FALSE
  <2>1. waiter' = [waiter EXCEPT ![t] = NoWaiter]
    BY <1>3 DEF Leave
  <2>2. CASE u = t
    BY <1>1, <2>1, <2>2 DEF NoWaiter
  <2>3. CASE u # t
    BY <1>1, <2>1, <2>3
  <2>4. QED
    BY <2>2, <2>3
<1>4. ASSUME NEW S, NEW result, Decide(S, result), result # "Ok"
      PROVE  FALSE
  <2>1. CASE u \in S
    BY <1>1, <1>4, <2>1, DecideKeeps
  <2>2. CASE u \notin S
    BY <1>1, <1>4, <2>2, DecideKeeps
  <2>3. QED
    BY <2>1, <2>2
<1>5. ASSUME NEW t \in Threads, NEW n \in NeedCounts, NEW p \in Priorities,
             NEW d \in {"none", "running"}, WaitBlocks(t, n, p, d)
      PROVE  FALSE
  <2>1. u # t
    BY <1>5 DEF SemaInv, QueueIsCallers, Pending, WaitBlocks
  <2>2. waiter'[u] = waiter[u]
    BY <1>1, <1>5, <2>1 DEF WaitBlocks
  <2>3. QED
    BY <1>1, <2>2
<1>6. ASSUME NEW t \in Threads
      PROVE  /\ ~Delete(t) /\ ~DeleteDrain(t) /\ ~Wake(t) /\ ~Expire(t) /\ ~Recheck(t)
             /\ \A n \in NeedCounts : ~WaitReturns(t, n) /\ ~Poll(t, n)
             /\ \A n \in CancelCounts : ~Cancel(t, n)
  <2>1. ~Delete(t)
    BY <1>4 DEF Delete
  <2>2. \A n \in CancelCounts : ~Cancel(t, n)
    BY <1>4 DEF Cancel
  <2>3. ~DeleteDrain(t) /\ ~Wake(t) /\ ~Expire(t)
    BY <1>2 DEF DeleteDrain, Wake, Expire
  <2>4. ~Recheck(t)
    BY <1>2, <1>3 DEF Recheck, Block
  <2>5. \A n \in NeedCounts : ~WaitReturns(t, n) /\ ~Poll(t, n)
    BY <1>2 DEF WaitReturns, Poll
  <2>6. QED
    BY <2>1, <2>2, <2>3, <2>4, <2>5
<1>7. ~UNCHANGED vars
  BY <1>2 DEF vars
<1>8. QED
  BY <1>5, <1>6, <1>7 DEF Next

\* KernelSignalSema serves a better priority first unless it needs more.
THEOREM PriorityRespected == Spec => NoPriorityInversion
<1>1. ASSUME TypeOK, SemaInv, [Next]_vars, NEW t \in Threads, NEW u \in Threads,
             Pending(t), Pending(u), waiter[t].priority < waiter[u].priority,
             waiter'[u].ready, waiter'[u].result = "Ok", Pending(t)'
      PROVE  waiter[t].need > waiter[u].need
  <2> DEFINE N == Len(waiting)
  <2>1. /\ waiting \in Seq(Threads) /\ waiter \in [Threads -> WaitingThread]
        /\ N \in Nat /\ MaxCount \in Nat /\ DOMAIN waiting = 1 .. N
    BY <1>1, SemaAssumption DEF TypeOK
  <2>2. PICK s \in Threads, n \in SignalCounts : Signal(s, n)
    BY <1>1, OnlySignalGrants
  <2>3. PICK c \in Int : Decide(Granted(c), "Ok")
    <3>1. n \in Ints
      BY SemaAssumption
    <3>2. Wrap(count + n) \in Ints
      BY <1>1, <3>1, SignalFacts
    <3>3. Wrap(count + n) \in Int
      BY <3>2, SemaAssumption DEF Ints
    <3>4. QED
      BY <2>2, <3>3 DEF Signal
  <2>4. PICK i \in 1 .. N : t = waiting[i]
    BY <1>1, <2>1 DEF Pending, Queued, Range
  <2>5. PICK j \in 1 .. N : u = waiting[j] /\ Budget(c)[j] < Budget(c)[j - 1]
    <3>1. u \in Granted(c)
      <4>1. ~waiter[u].ready
        BY <1>1 DEF Pending
      <4>2. QED
        BY <1>1, <2>1, <2>3, <4>1, DecideKeeps
    <3>2. QED
      BY <2>1, <3>1 DEF Granted
  <2>6. /\ waiter[t].need \in Int /\ waiter[u].need \in Int
        /\ waiter[t].priority \in Int /\ waiter[u].priority \in Int
    BY <2>1, <2>4, <2>5, QueuedType
  <2>7. i < j
    <3>1. i # j
      BY <1>1, <2>4, <2>5, <2>6
    <3>2. ~(j < i)
      <4>1. j < i => waiter[u].priority <= waiter[t].priority
        BY <1>1, <2>1, <2>4, <2>5 DEF SemaInv, PriorityOrder
      <4>2. QED
        BY <1>1, <2>6, <4>1
    <3>3. QED
      BY <2>1, <3>1, <3>2
  <2>8. waiter[waiting[i]].need >= 1 /\ waiter[waiting[j]].need >= 1
    BY <1>1, <2>4, <2>5 DEF SemaInv, QueuedNeeds, Pending
  <2>9. waiter[u].need <= Budget(c)[j - 1]
    BY <2>1, <2>5, <2>8, GrantedAt
  <2>10. t \notin Granted(c)
    <3>1. ~waiter'[t].ready
      BY <1>1 DEF Pending
    <3>2. QED
      BY <2>1, <2>3, <3>1, DecideKeeps
  <2>11. ~(Budget(c)[i] < Budget(c)[i - 1])
    BY <2>1, <2>4, <2>10 DEF Granted
  <2>12. ~(waiter[t].need <= Budget(c)[i - 1])
    <3>1. ~waiter[waiting[i]].ready
      BY <1>1, <2>4 DEF Pending
    <3>2. QED
      BY <2>1, <2>4, <2>8, <2>11, <3>1, GrantedAt
  <2>13. i - 1 \in 0 .. N /\ j - 1 \in 0 .. N /\ i - 1 <= j - 1
    BY <2>1, <2>7
  <2>14. /\ Budget(c)[i - 1] \in Int /\ Budget(c)[j - 1] \in Int
         /\ Budget(c)[j - 1] <= Budget(c)[i - 1]
    BY <2>1, <2>13, BudgetEquations, BudgetBounds
  <2>15. QED
    BY <2>6, <2>9, <2>12, <2>14
<1>2. TypeOK /\ SemaInv /\ [Next]_vars =>
        [\A t, u \in Threads :
          /\ Pending(t) /\ Pending(u)
          /\ waiter[t].priority < waiter[u].priority
          /\ waiter'[u].ready /\ waiter'[u].result = "Ok"
          /\ Pending(t)'
          => waiter[t].need > waiter[u].need]_vars
  BY <1>1
<1>3. QED
  BY <1>2, TypeCorrect, SemaInvariant, PTL DEF Spec, NoPriorityInversion
-----------------------------------------------------------------------------
(***************************************************************************)
(* Cancellations.  CancelAccounting needs nothing beyond SemaInv: every    *)
(* step that gives results gives them to pending waiters only, so the set  *)
(* of cancelled callers changes in Cancel and when one of them returns.    *)
(***************************************************************************)

\* The callers KernelCancelSema counted that have not returned.
Victims == {t \in Queued : waiter[t].ready /\ waiter[t].result = "Canceled"}

\* WakeWaiters grants pending waiters only.
LEMMA GrantedPending ==
    ASSUME TypeOK, SemaInv, NEW c \in Int, NEW u \in Granted(c)
    PROVE  Pending(u)
<1>1. /\ waiting \in Seq(Threads) /\ waiter \in [Threads -> WaitingThread]
      /\ MaxCount \in Nat /\ DOMAIN waiting = 1 .. Len(waiting)
  BY SemaAssumption DEF TypeOK
<1>2. PICK i \in 1 .. Len(waiting) : u = waiting[i] /\ Budget(c)[i] < Budget(c)[i - 1]
  BY <1>1 DEF Granted
<1>3. u \in Queued
  BY <1>1, <1>2 DEF Queued, Range
<1>4. waiter[waiting[i]].need >= 1
  BY <1>2, <1>3 DEF SemaInv, QueuedNeeds
<1>5. QED
  BY <1>1, <1>2, <1>3, <1>4, GrantedAt DEF Pending

\* Giving pending waiters another result than Canceled leaves the victims alone.
LEMMA DecideKeepsVictims ==
    ASSUME TypeOK, NEW S, NEW result, Decide(S, result), result # "Canceled",
           \A u \in S : Pending(u), UNCHANGED waiting
    PROVE  Victims' = Victims
<1>1. waiting \in Seq(Threads) /\ waiter \in [Threads -> WaitingThread]
  BY DEF TypeOK
<1>2. Queued' = Queued
  BY DEF Queued, Range
<1>3. ASSUME NEW u \in Queued
      PROVE  (waiter'[u].ready /\ waiter'[u].result = "Canceled")
                <=> (waiter[u].ready /\ waiter[u].result = "Canceled")
  <2>1. u \in Threads
    BY <1>1, QueuedThreads
  <2>2. CASE u \in S
    <3>1. waiter'[u].result = result /\ ~waiter[u].ready
      BY <1>1, <2>1, <2>2, DecideKeeps DEF Pending
    <3>2. QED
      BY <3>1
  <2>3. CASE u \notin S
    BY <1>1, <2>1, <2>3, DecideKeeps
  <2>4. QED
    BY <2>2, <2>3
<1>4. QED
  BY <1>2, <1>3 DEF Victims

\* A set of threads is finite.
LEMMA FiniteThreads ==
    ASSUME NEW S, S \subseteq Threads
    PROVE  IsFiniteSet(S) /\ Cardinality(S) \in Nat
BY FS_Subset, FS_CardinalityType, SemaAssumption

\* KernelCancelSema adds the waiters it reports.
LEMMA CancelVictims ==
    ASSUME TypeOK, NEW t \in Threads, NEW n \in CancelCounts, Cancel(t, n)
    PROVE  Cardinality(Victims') =
              Cardinality(Victims) + Cardinality({u \in Threads : Pending(u)})
<1> DEFINE S == {u \in Threads : Pending(u)}
<1>1. waiting \in Seq(Threads) /\ waiter \in [Threads -> WaitingThread]
  BY DEF TypeOK
<1>2. Decide(S, "Canceled") /\ UNCHANGED waiting
  BY DEF Cancel
<1>3. Queued' = Queued /\ Queued \subseteq Threads
  BY <1>1, <1>2, QueuedThreads DEF Queued, Range
<1>4. ASSUME NEW u \in Queued
      PROVE  (waiter'[u].ready /\ waiter'[u].result = "Canceled")
                <=> u \in S \/ (waiter[u].ready /\ waiter[u].result = "Canceled")
  <2>1. u \in Threads
    BY <1>3
  <2> HIDE DEF S
  <2>2. CASE u \in S
    <3>1. waiter'[u] = [waiter[u] EXCEPT !.result = "Canceled", !.ready = TRUE]
      BY <1>2, <2>1, <2>2 DEF Decide
    <3>2. waiter[u] \in WaitingThread
      BY <1>1, <2>1
    <3>3. waiter'[u].ready /\ waiter'[u].result = "Canceled"
      BY <3>1, <3>2 DEF WaitingThread
    <3>4. QED
      BY <2>2, <3>3
  <2>3. CASE u \notin S
    <3>1. waiter'[u] = waiter[u]
      BY <1>1, <1>2, <2>1, <2>3, DecideKeeps
    <3>2. QED
      BY <2>3, <3>1
  <2>4. QED
    BY <2>2, <2>3
<1>5. Victims' = Victims \cup S
  BY <1>3, <1>4 DEF Victims, Pending
<1>6. Victims \cap S = {}
  BY DEF Victims, Pending
<1>7. /\ IsFiniteSet(Victims) /\ IsFiniteSet(S)
      /\ Cardinality(Victims) \in Nat /\ Cardinality(S) \in Nat
  BY <1>3, FiniteThreads DEF Victims
<1>8. Cardinality(Victims \cup S) =
         Cardinality(Victims) + Cardinality(S) - Cardinality(Victims \cap S)
  BY <1>7, FS_Union
<1>9. Cardinality(Victims \cap S) = 0
  BY <1>6, FS_EmptySet
<1> HIDE DEF S
<1>10. Cardinality(Victims \cup S) = Cardinality(Victims) + Cardinality(S)
  BY <1>7, <1>8, <1>9
<1>11. QED
  BY <1>5, <1>10 DEF S

\* A caller that leaves takes itself off the victims, and returns ECANCELED
\* exactly when it was one.
LEMMA LeaveCounts ==
    ASSUME TypeOK, SemaInv, NEW t \in Threads, pc[t] = "polling",
           NEW result \in Results, Leave(t, result),
           result = "Canceled" <=> waiter[t].ready /\ waiter[t].result = "Canceled",
           owed = Cardinality(Victims)
    PROVE  owed' = Cardinality(Victims')
<1>1. waiting \in Seq(Threads) /\ waiter \in [Threads -> WaitingThread]
  BY DEF TypeOK
<1>2. /\ waiting' = RemoveWaiter(t)
      /\ waiter' = [waiter EXCEPT ![t] = NoWaiter]
      /\ owed' = IF WaitCode[result] = "ECANCELED" THEN owed - 1 ELSE owed
  BY DEF Leave, Settle
<1>3. t \in Queued
  BY DEF SemaInv, QueueIsCallers
<1>4. Queued' = Queued \ {t}
  BY <1>1, <1>2, <1>3, RemoveWaiterFacts DEF SemaInv, QueueIsCallers, Queued
<1>5. Victims' = Victims \ {t}
  <2>1. \A u \in Queued \ {t} : waiter'[u] = waiter[u]
    BY <1>1, <1>2, QueuedThreads
  <2>2. QED
    BY <1>4, <2>1 DEF Victims
<1>6. WaitCode[result] = "ECANCELED" <=> result = "Canceled"
  BY DEF WaitCode, Results
<1>7. result = "Canceled" <=> t \in Victims
  BY <1>3 DEF Victims
<1>8. IsFiniteSet(Victims)
  BY <1>1, QueuedThreads, FiniteThreads DEF Victims
<1>9. QED
  BY <1>2, <1>5, <1>6, <1>7, <1>8, FS_RemoveElement

\* Every step keeps the account of announced cancellations.
LEMMA StepKeepsOwed ==
    ASSUME TypeOK, SemaInv, owed = Cardinality(Victims), [Next]_vars
    PROVE  owed' = Cardinality(Victims')
<1>1. waiting \in Seq(Threads) /\ waiter \in [Threads -> WaitingThread]
  BY DEF TypeOK
<1>2. ASSUME UNCHANGED <<waiting, waiter, owed>>
      PROVE  owed' = Cardinality(Victims')
  <2>1. Victims' = Victims
    BY <1>2 DEF Victims, Queued, Range
  <2>2. QED
    BY <1>2, <2>1
<1>3. ASSUME NEW t \in Threads, NEW n \in NeedCounts, WaitReturns(t, n) \/ Poll(t, n)
      PROVE  owed' = Cardinality(Victims')
  <2>1. Immediate(n) # "Canceled"
    BY DEF Immediate
  <2>2. Immediate(n) \in Results
    BY ImmediateFacts, SemaAssumption DEF TypeOK
  <2>3. /\ WaitCode[Immediate(n)] # "ECANCELED"
        /\ PollCode[Immediate(n)] # "ECANCELED"
    BY <2>1, <2>2 DEF WaitCode, PollCode, Results
  <2>4. UNCHANGED <<waiting, waiter, owed>>
    BY <1>3, <2>3 DEF WaitReturns, Poll, Settle
  <2>5. QED
    BY <1>2, <2>4
<1>4. ASSUME NEW t \in Threads, NEW n \in NeedCounts, NEW p \in Priorities,
             NEW d \in {"none", "running"}, WaitBlocks(t, n, p, d)
      PROVE  owed' = Cardinality(Victims')
  <2> DEFINE prio == IF Fifo THEN 0 ELSE p
  <2>1. prio \in Nat /\ MaxCount \in Nat
    BY SemaAssumption
  <2>2. /\ waiting' = InsertAfter(waiting, InsertPoint(prio), t)
        /\ waiter' = [waiter EXCEPT ![t] = [need |-> n, priority |-> prio,
                                             result |-> "TimedOut", ready |-> FALSE]]
        /\ owed' = owed /\ pc[t] = "idle"
    BY <1>4 DEF WaitBlocks, AddWaiter
  <2> HIDE DEF prio
  <2>3. InsertPoint(prio) \in 0 .. Len(waiting)
    BY <1>1, <2>1, InsertPointFacts
  <2>4. Queued' = Queued \cup {t}
    BY <1>1, <2>2, <2>3, InsertAfterFacts DEF Queued
  <2>5. t \notin Queued
    BY <2>2 DEF SemaInv, QueueIsCallers
  <2>6. \A u \in Queued : waiter'[u] = waiter[u]
    BY <1>1, <2>2, <2>5, QueuedThreads
  <2>7. ~waiter'[t].ready
    BY <1>1, <2>2
  <2>8. Victims' = Victims
    BY <2>4, <2>5, <2>6, <2>7 DEF Victims
  <2>9. QED
    BY <2>2, <2>8
<1>5. ASSUME NEW t \in Threads, NEW n \in SignalCounts, Signal(t, n)
      PROVE  owed' = Cardinality(Victims')
  <2>1. n \in Ints
    BY SemaAssumption
  <2>2. Wrap(count + n) \in Int
    BY <2>1, SignalFacts, SemaAssumption DEF Ints
  <2>3. Decide(Granted(Wrap(count + n)), "Ok") /\ UNCHANGED <<waiting, owed>>
    BY <1>5 DEF Signal
  <2>4. Victims' = Victims
    BY <2>2, <2>3, GrantedPending, DecideKeepsVictims
  <2>5. QED
    BY <2>3, <2>4
<1>6. ASSUME NEW t \in Threads, NEW n \in CancelCounts, Cancel(t, n)
      PROVE  owed' = Cardinality(Victims')
  BY <1>6, CancelVictims DEF Cancel
<1>7. ASSUME NEW t \in Threads, Delete(t)
      PROVE  owed' = Cardinality(Victims')
  <2>1. Decide({u \in Threads : Pending(u)}, "Deleted") /\ UNCHANGED <<waiting, owed>>
    BY <1>7 DEF Delete
  <2>2. Victims' = Victims
    BY <2>1, DecideKeepsVictims
  <2>3. QED
    BY <2>1, <2>2
<1>8. ASSUME NEW t \in Threads, Recheck(t)
      PROVE  owed' = Cardinality(Victims')
  <2>1. pc[t] = "polling"
    BY <1>8 DEF Recheck
  <2>2. CASE waiter[t].ready /\ Leave(t, waiter[t].result)
    <3>1. waiter[t].result \in Results
      BY <1>1 DEF WaitingThread
    <3>2. QED
      BY <2>1, <2>2, <3>1, LeaveCounts
  <2>3. CASE ~waiter[t].ready /\ Leave(t, "TimedOut")
    <3>1. "TimedOut" \in Results /\ "TimedOut" # "Canceled"
      BY DEF Results
    <3>2. QED
      BY <2>1, <2>3, <3>1, LeaveCounts
  <2>4. CASE Block(t)
    BY <1>2, <2>4 DEF Block
  <2>5. QED
    BY <1>8, <2>2, <2>3, <2>4 DEF Recheck
<1>9. ASSUME NEW t \in Threads, DeleteDrain(t) \/ Wake(t) \/ Expire(t)
      PROVE  owed' = Cardinality(Victims')
  BY <1>2, <1>9 DEF DeleteDrain, Wake, Expire
<1>10. QED
  BY <1>2, <1>3, <1>4, <1>5, <1>6, <1>7, <1>8, <1>9 DEF Next, vars

\* Each thread KernelCancelSema counted, and no other, returns ECANCELED.
THEOREM CancelsAccounted == Spec => []CancelAccounting
<1>1. CancelAccounting <=> owed = Cardinality(Victims)
  BY DEF CancelAccounting, Victims
<1>2. Init => owed = Cardinality(Victims)
  <2>1. SUFFICES ASSUME Init
                 PROVE  owed = Cardinality(Victims)
    OBVIOUS
  <2>2. Victims = {} /\ owed = 0
    BY <2>1 DEF Init, Victims, Queued, Range
  <2>3. QED
    BY <2>2, FS_EmptySet
<1>3. TypeOK /\ SemaInv /\ owed = Cardinality(Victims) /\ [Next]_vars
         => (owed = Cardinality(Victims))'
  BY StepKeepsOwed
<1>4. QED
  BY <1>1, <1>2, <1>3, TypeCorrect, SemaInvariant, PTL DEF Spec

-----------------------------------------------------------------------------
(***************************************************************************)
(* Tokens.  Sums is used through its equations, like Budget.  WakeWaiters  *)
(* moves tokens from the sum it was given into grants position by          *)
(* position, and int arithmetic shifts the balance by multiples of 2^w.    *)
(***************************************************************************)

\* Induction along a prefix of the natural numbers, on a set.
LEMMA PrefixInduction ==
    ASSUME NEW N \in Nat, NEW T, 0 \in T, \A n \in 1 .. N : n - 1 \in T => n \in T
    PROVE  \A n \in 0 .. N : n \in T
<1> DEFINE F == {n \in 0 .. N : n \notin T}
<1>1. SUFFICES ASSUME F # {}
               PROVE  FALSE
  OBVIOUS
<1>2. PICK x \in F : \A y \in F : x <= y
  <2>1. F \subseteq Nat
    OBVIOUS
  <2>2. QED
    BY <1>1, <2>1, LeastElement
<1>3. x \in 1 .. N /\ x - 1 \in 0 .. N /\ ~(x <= x - 1)
  OBVIOUS
<1>4. x - 1 \in T
  BY <1>2, <1>3
<1>5. QED
  BY <1>3, <1>4

\* The partial sums of a sequence of integers are well defined.
LEMMA SumsEquations ==
    ASSUME NEW v \in Seq(Int)
    PROVE  /\ Sums(v) \in [0 .. Len(v) -> Int]
           /\ Sums(v)[0] = 0
           /\ \A i \in 1 .. Len(v) : Sums(v)[i] = Sums(v)[i - 1] + v[i]
<1> DEFINE N == Len(v)
           Good(n) == \E g \in [0 .. n -> Int] :
                         /\ g[0] = 0
                         /\ \A i \in 1 .. n : g[i] = g[i - 1] + v[i]
           T == {n \in 0 .. N : Good(n)}
<1>0. N \in Nat /\ \A i \in 1 .. N : v[i] \in Int
  OBVIOUS
<1>1. Good(0)
  <2> DEFINE g == [i \in 0 .. 0 |-> 0]
  <2>1. g \in [0 .. 0 -> Int] /\ g[0] = 0 /\ \A i \in 1 .. 0 : g[i] = g[i - 1] + v[i]
    OBVIOUS
  <2> HIDE DEF g
  <2>2. QED
    BY <2>1
<1>2. ASSUME NEW n \in 1 .. N, Good(n - 1)
      PROVE  Good(n)
  <2>1. PICK g \in [0 .. n - 1 -> Int] :
            g[0] = 0 /\ \A i \in 1 .. n - 1 : g[i] = g[i - 1] + v[i]
    BY <1>2
  <2> DEFINE h == [i \in 0 .. n |-> IF i < n THEN g[i] ELSE g[n - 1] + v[n]]
  <2>2. h \in [0 .. n -> Int]
    BY <1>0
  <2>3. h[0] = 0
    BY <2>1
  <2>4. ASSUME NEW i \in 1 .. n
        PROVE  h[i] = h[i - 1] + v[i]
    <3>1. CASE i < n
      <4>1. h[i] = g[i] /\ h[i - 1] = g[i - 1] /\ i \in 1 .. n - 1
        BY <3>1
      <4>2. QED
        BY <2>1, <4>1
    <3>2. CASE i = n
      BY <3>2
    <3>3. QED
      BY <3>1, <3>2
  <2> HIDE DEF h
  <2>5. QED
    BY <2>2, <2>3, <2>4
<1> HIDE DEF Good
<1>3. N \in T
  <2>1. 0 \in T
    BY <1>0, <1>1
  <2>2. \A n \in 1 .. N : n - 1 \in T => n \in T
    BY <1>0, <1>2
  <2> HIDE DEF T
  <2>3. \A n \in 0 .. N : n \in T
    BY <1>0, <2>1, <2>2, PrefixInduction
  <2>4. QED
    BY <1>0, <2>3
<1>4. PICK g \in [0 .. N -> Int] :
            g[0] = 0 /\ \A i \in 1 .. N : g[i] = g[i - 1] + v[i]
  BY <1>3 DEF Good
<1> DEFINE Body(f) == [i \in 0 .. N |-> IF i = 0 THEN 0 ELSE f[i - 1] + v[i]]
<1>5. g = Body(g)
  <2>1. \A i \in 0 .. N : g[i] = Body(g)[i]
    BY <1>4
  <2>2. g = [i \in 0 .. N |-> g[i]] /\ DOMAIN Body(g) = 0 .. N
    OBVIOUS
  <2>3. QED
    BY <2>1, <2>2
<1>6. Sums(v) = CHOOSE f : f = Body(f)
  BY DEF Sums
<1>7. Sums(v) = Body(Sums(v))
  BY <1>5, <1>6
<1>8. Sums(v)[0] = 0
  BY <1>0, <1>7
<1>9. ASSUME NEW i \in 1 .. N
      PROVE  Sums(v)[i] = Sums(v)[i - 1] + v[i]
  <2>1. Sums(v)[i] = Body(Sums(v))[i]
    BY <1>7
  <2>2. i \in 0 .. N /\ i # 0
    OBVIOUS
  <2>3. QED
    BY <2>1, <2>2
<1>10. \A n \in 0 .. N : Sums(v)[n] \in Int
  <2> DEFINE S == {n \in 0 .. N : Sums(v)[n] \in Int}
  <2>1. 0 \in S
    BY <1>0, <1>8
  <2>2. \A n \in 1 .. N : n - 1 \in S => n \in S
    BY <1>0, <1>9
  <2>3. \A n \in 0 .. N : n \in S
    <3> HIDE DEF S
    <3>1. QED
      BY <1>0, <2>1, <2>2, PrefixInduction
  <2>4. QED
    BY <2>3
<1>11. Sums(v) \in [0 .. N -> Int]
  <2>1. Sums(v) = [i \in 0 .. N |-> Sums(v)[i]]
    BY <1>7
  <2>2. QED
    BY <2>1, <1>10
<1>12. QED
  BY <1>8, <1>9, <1>11

\* The arithmetic of one position in the lemma below.
LEMMA Regroup ==
    ASSUME NEW x \in Int, NEW y \in Int, NEW p \in Int, NEW q \in Int, NEW r \in Int
    PROVE  (x + p - q) + (y + q - r) = (x + y) + p - r
OBVIOUS

\* When every element grows by what b drops at its position, the sum grows by
\* what b drops over the whole sequence.
LEMMA SumsShift ==
    ASSUME NEW v \in Seq(Int), NEW w \in Seq(Int), Len(w) = Len(v),
           NEW b \in [0 .. Len(v) -> Int],
           \A i \in 1 .. Len(v) : w[i] = v[i] + b[i - 1] - b[i]
    PROVE  Sums(w)[Len(v)] = Sums(v)[Len(v)] + b[0] - b[Len(v)]
<1> DEFINE N == Len(v)
<1>1. /\ N \in Nat /\ \A i \in 1 .. N : v[i] \in Int
      /\ b \in [0 .. N -> Int]
      /\ \A i \in 1 .. N : w[i] = v[i] + b[i - 1] - b[i]
  OBVIOUS
<1>2. PICK a \in [0 .. N -> Int] :
          a = Sums(v) /\ a[0] = 0 /\ \A i \in 1 .. N : a[i] = a[i - 1] + v[i]
  BY SumsEquations
<1>3. PICK d \in [0 .. N -> Int] :
          d = Sums(w) /\ d[0] = 0 /\ \A i \in 1 .. N : d[i] = d[i - 1] + w[i]
  BY SumsEquations
<1> HIDE DEF N
<1> DEFINE T == {n \in 0 .. N : d[n] = a[n] + b[0] - b[n]}
<1>4. 0 \in T
  BY <1>1, <1>2, <1>3
<1>5. ASSUME NEW n \in 1 .. N, n - 1 \in T
      PROVE  n \in T
  <2>1. n \in 0 .. N /\ n - 1 \in 0 .. N /\ 0 \in 0 .. N
    BY <1>1
  <2>2. /\ a[n - 1] \in Int /\ d[n - 1] \in Int /\ v[n] \in Int
        /\ b[0] \in Int /\ b[n - 1] \in Int /\ b[n] \in Int
    BY <1>1, <2>1
  <2>3. d[n - 1] = a[n - 1] + b[0] - b[n - 1]
    BY <1>5
  <2>4. a[n] = a[n - 1] + v[n] /\ d[n] = d[n - 1] + w[n] /\ w[n] = v[n] + b[n - 1] - b[n]
    BY <1>1, <1>2, <1>3
  <2>5. d[n] = (a[n - 1] + b[0] - b[n - 1]) + (v[n] + b[n - 1] - b[n])
    BY <2>3, <2>4
  <2>6. d[n] = a[n] + b[0] - b[n]
    <3>1. (a[n - 1] + b[0] - b[n - 1]) + (v[n] + b[n - 1] - b[n])
             = (a[n - 1] + v[n]) + b[0] - b[n]
      BY <2>2, Regroup
    <3>2. QED
      BY <2>4, <2>5, <3>1
  <2>7. QED
    BY <2>1, <2>6
<1>6. \A n \in 0 .. N : n \in T
  <2> HIDE DEF T
  <2>1. QED
    BY <1>1, <1>4, <1>5, PrefixInduction
<1>7. N \in T
  BY <1>1, <1>6
<1>8. QED
  BY <1>2, <1>3, <1>7 DEF N

\* A sequence with one more element, at position k, has that much more sum.
LEMMA SumsInsert ==
    ASSUME NEW v \in Seq(Int), NEW w \in Seq(Int), Len(w) = Len(v) + 1,
           NEW k \in 1 .. Len(w),
           \A i \in 1 .. Len(v) : v[i] = w[IF i < k THEN i ELSE i + 1]
    PROVE  Sums(w)[Len(w)] = Sums(v)[Len(v)] + w[k]
<1> DEFINE N == Len(v)
<1>1. N \in Nat /\ Len(w) = N + 1 /\ w[k] \in Int /\ k \in 1 .. N + 1
      /\ (\A i \in 1 .. N : v[i] \in Int)
      /\ (\A i \in 1 .. N : v[i] = w[IF i < k THEN i ELSE i + 1])
  OBVIOUS
<1>2. PICK a \in [0 .. N -> Int] :
          a = Sums(v) /\ a[0] = 0 /\ \A i \in 1 .. N : a[i] = a[i - 1] + v[i]
  BY SumsEquations
<1>3. PICK d \in [0 .. Len(w) -> Int] :
          d = Sums(w) /\ d[0] = 0 /\ \A i \in 1 .. Len(w) : d[i] = d[i - 1] + w[i]
  BY SumsEquations
<1> HIDE DEF N
<1> DEFINE T == {n \in 0 .. N : IF n < k THEN d[n] = a[n] ELSE d[n + 1] = a[n] + w[k]}
<1>4. 0 \in T
  BY <1>1, <1>2, <1>3
<1>5. ASSUME NEW n \in 1 .. N, n - 1 \in T
      PROVE  n \in T
  <2>1. /\ n \in 0 .. N /\ n - 1 \in 0 .. N
        /\ n \in 1 .. Len(w) /\ n + 1 \in 1 .. Len(w) /\ (n + 1) - 1 = n
        /\ n - 1 \in 0 .. Len(w) /\ n \in 0 .. Len(w) /\ (n - 1) + 1 = n
    BY <1>1
  <2>2. a[n - 1] \in Int /\ v[n] \in Int /\ w[k] \in Int
    BY <1>1, <2>1
  <2>3. a[n] = a[n - 1] + v[n] /\ d[n] = d[n - 1] + w[n] /\ d[n + 1] = d[n] + w[n + 1]
    BY <1>2, <1>3, <2>1
  <2>4. IF n - 1 < k THEN d[n - 1] = a[n - 1] ELSE d[n] = a[n - 1] + w[k]
    BY <1>5, <2>1
  <2>5. v[n] = w[IF n < k THEN n ELSE n + 1]
    BY <1>1
  <2>6. IF n < k THEN d[n] = a[n] ELSE d[n + 1] = a[n] + w[k]
    <3>1. CASE n < k
      BY <1>1, <2>3, <2>4, <2>5, <3>1
    <3>2. CASE n = k
      <4>0. ~(n < k) /\ n - 1 < k /\ n \in Int
        BY <1>1, <3>2
      <4>1. v[n] = w[n + 1] /\ d[n - 1] = a[n - 1] /\ d[n] = d[n - 1] + w[k]
        BY <2>3, <2>4, <2>5, <3>2, <4>0
      <4>2. d[n + 1] = (a[n - 1] + w[k]) + v[n]
        BY <2>3, <4>1
      <4>3. (a[n - 1] + w[k]) + v[n] = (a[n - 1] + v[n]) + w[k]
        BY <2>2
      <4>4. d[n + 1] = a[n] + w[k]
        BY <2>3, <4>2, <4>3
      <4>5. QED
        BY <3>2, <4>4
    <3>3. CASE n > k
      <4>0. ~(n < k) /\ ~(n - 1 < k) /\ n \in Int
        BY <1>1, <3>3
      <4>1. v[n] = w[n + 1] /\ d[n] = a[n - 1] + w[k]
        BY <2>4, <2>5, <4>0
      <4>2. d[n + 1] = (a[n - 1] + w[k]) + v[n]
        BY <2>3, <4>1
      <4>3. (a[n - 1] + w[k]) + v[n] = (a[n - 1] + v[n]) + w[k]
        BY <2>2
      <4>4. d[n + 1] = a[n] + w[k]
        BY <2>3, <4>2, <4>3
      <4>5. QED
        BY <1>1, <3>3, <4>4
    <3>4. QED
      BY <1>1, <3>1, <3>2, <3>3
  <2>7. QED
    BY <2>1, <2>6
<1>6. \A n \in 0 .. N : n \in T
  <2> HIDE DEF T
  <2>1. QED
    BY <1>1, <1>4, <1>5, PrefixInduction
<1>7. IF N < k THEN d[N] = a[N] ELSE d[N + 1] = a[N] + w[k]
  <2>1. N \in T
    BY <1>1, <1>6
  <2>2. QED
    BY <2>1
<1>8. d[N + 1] = d[N] + w[N + 1]
  <2>1. N + 1 \in 1 .. Len(w) /\ (N + 1) - 1 = N
    BY <1>1
  <2>2. QED
    BY <1>3, <2>1
<1>9. d[N + 1] = a[N] + w[k]
  BY <1>1, <1>7, <1>8
<1>10. QED
  BY <1>1, <1>2, <1>3, <1>9 DEF N

\* A multiple of m below m in size is zero.
LEMMA SmallMultiple ==
    ASSUME NEW m \in Nat \ {0}, NEW z \in Int, 0 <= m * z, m * z < m
    PROVE  z = 0
<1>1. CASE z >= 1
  <2>1. PICK y \in Nat : z = y + 1
    BY <1>1
  <2>2. m * z = m * y + m
    BY <2>1
  <2>3. m * y >= 0
    OBVIOUS
  <2>4. QED
    BY <2>2, <2>3
<1>2. CASE z <= -1
  <2>1. PICK y \in Nat : z = -1 - y
    BY <1>2
  <2>2. m * z = -m - m * y
    BY <2>1
  <2>3. m * y >= 0
    OBVIOUS
  <2>4. QED
    BY <2>2, <2>3
<1>3. QED
  BY <1>1, <1>2

\* A number that m divides is still divisible after a shift by multiples of m.
LEMMA ModShift ==
    ASSUME NEW m \in Nat \ {0}, NEW d \in Int, NEW k \in Int, d % m = 0,
           NEW e \in Int, e = d + m * k
    PROVE  e % m = 0
<1>1. PICK q \in Int : d = m * q
  <2>1. d = m * (d \div m) + (d % m) /\ d \div m \in Int
    OBVIOUS
  <2>2. QED
    BY <2>1
<1>2. PICK p \in Int, r \in 0 .. (m - 1) : e = m * p + r /\ r = e % m
  <2>1. /\ e = m * (e \div m) + (e % m)
        /\ e \div m \in Int /\ e % m \in 0 .. (m - 1)
    OBVIOUS
  <2>2. QED
    BY <2>1
<1>3. r = m * (q + k - p)
  BY <1>1, <1>2
<1>4. q + k - p = 0
  BY <1>3, SmallMultiple
<1>5. QED
  BY <1>2, <1>3, <1>4

\* 2^w, for ints of w bits.
Modulus == 2 * (IntMax + 1)

\* What int arithmetic makes of a number differs from it by a multiple of 2^w.
LEMMA WrapShift ==
    ASSUME NEW x \in Int
    PROVE  \E k \in Int : Wrap(x) = x + Modulus * k
<1>1. IntMax \in Nat
  BY SemaAssumption
<1>2. CASE x > IntMax
  <2>1. Wrap(x) = x + Modulus * (-1)
    BY <1>1, <1>2 DEF Wrap, Modulus
  <2>2. QED
    BY <2>1
<1>3. CASE x < -(IntMax + 1)
  <2>1. Wrap(x) = x + Modulus * 1
    BY <1>1, <1>3 DEF Wrap, Modulus
  <2>2. QED
    BY <2>1
<1>4. CASE x <= IntMax /\ x >= -(IntMax + 1)
  <2>1. Wrap(x) = x + Modulus * 0
    BY <1>1, <1>4 DEF Wrap, Modulus
  <2>2. QED
    BY <2>1
<1>5. QED
  BY <1>1, <1>2, <1>3, <1>4

\* Tokens in grants that have not been returned with.
Outstanding == Sums(Holdings)[Len(waiting)]

Balance == count + Outstanding - ledger

\* Holdings, as a function of the queue and the waiters.
HoldingsOf(q, r) ==
    [i \in 1 .. Len(q) |->
        IF r[q[i]].ready /\ r[q[i]].result = "Ok" THEN r[q[i]].need ELSE 0]

\* Holdings is a sequence of integers as long as the queue.
LEMMA HoldingsOfType ==
    ASSUME NEW q \in Seq(Threads), NEW r \in [Threads -> WaitingThread]
    PROVE  /\ HoldingsOf(q, r) \in Seq(Int)
           /\ Len(HoldingsOf(q, r)) = Len(q)
           /\ Sums(HoldingsOf(q, r))[Len(q)] \in Int
<1> DEFINE N == Len(q)
           H == HoldingsOf(q, r)
<1>1. N \in Nat
  OBVIOUS
<1>2. ASSUME NEW i \in 1 .. N
      PROVE  r[q[i]].need \in Int
  <2>1. r[q[i]] \in WaitingThread
    OBVIOUS
  <2>2. QED
    BY <2>1, SemaAssumption DEF WaitingThread
<1>3. H \in [1 .. N -> Int]
  BY <1>2 DEF HoldingsOf
<1> HIDE DEF H
<1>4. H \in Seq(Int)
  BY <1>1, <1>3, SeqDef
<1>5. Len(H) = N
  BY <1>1, <1>3, <1>4, LenProperties
<1>6. Sums(H) \in [0 .. N -> Int]
  BY <1>4, <1>5, SumsEquations
<1>7. Sums(H)[N] \in Int
  BY <1>1, <1>6
<1>8. QED
  BY <1>4, <1>5, <1>7 DEF H

\* The same for the Holdings of one state.
LEMMA HoldingsType ==
    ASSUME waiting \in Seq(Threads), waiter \in [Threads -> WaitingThread]
    PROVE  /\ Holdings \in Seq(Int) /\ Len(Holdings) = Len(waiting)
           /\ \A i \in 1 .. Len(waiting) : Holdings[i] = Holding(waiting[i])
           /\ Outstanding \in Int
<1>1. Holdings = HoldingsOf(waiting, waiter)
  BY DEF Holdings, Holding, HoldingsOf
<1>2. \A i \in 1 .. Len(waiting) : Holdings[i] = Holding(waiting[i])
  BY DEF Holdings
<1>3. QED
  BY <1>1, <1>2, HoldingsOfType DEF Outstanding

\* The same for the Holdings of the next state.
LEMMA HoldingsTypeNext ==
    ASSUME waiting' \in Seq(Threads), waiter' \in [Threads -> WaitingThread]
    PROVE  /\ Holdings' \in Seq(Int) /\ Len(Holdings') = Len(waiting')
           /\ \A i \in 1 .. Len(waiting') : Holdings'[i] = Holding(waiting[i])'
           /\ Outstanding' \in Int
<1>1. Holdings' = HoldingsOf(waiting', waiter')
  BY DEF Holdings, Holding, HoldingsOf
<1>2. \A i \in 1 .. Len(waiting') : Holdings'[i] = Holding(waiting[i])'
  BY DEF Holdings
<1>3. QED
  BY <1>1, <1>2, HoldingsOfType DEF Outstanding

\* A step that changes no caller's holding keeps the tokens in grants.
LEMMA SameHoldings ==
    ASSUME UNCHANGED waiting,
           \A i \in 1 .. Len(waiting) : Holding(waiting[i])' = Holding(waiting[i])
    PROVE  Outstanding' = Outstanding
<1>1. Holdings' = Holdings
  BY DEF Holdings
<1>2. QED
  BY <1>1 DEF Outstanding

\* A step whose effect on count, grants and ledger cancels out, up to 2^w.
Shifts == \E k \in Int : Balance' = Balance + Modulus * k

\* KernelCancelSema and KernelDeleteSema decide about pending waiters, who
\* hold nothing before and nothing afterwards.
LEMMA DecideKeepsHoldings ==
    ASSUME TypeOK, NEW S, NEW result, Decide(S, result), result # "Ok",
           \A u \in S : Pending(u), UNCHANGED waiting
    PROVE  Outstanding' = Outstanding
<1>1. waiting \in Seq(Threads) /\ waiter \in [Threads -> WaitingThread]
  BY DEF TypeOK
<1>2. ASSUME NEW u \in Threads
      PROVE  (waiter'[u].ready /\ waiter'[u].result = "Ok")
                <=> (waiter[u].ready /\ waiter[u].result = "Ok")
  <2>1. CASE u \in S
    <3>1. waiter'[u].result = result /\ ~waiter[u].ready
      BY <1>1, <2>1, DecideKeeps DEF Pending
    <3>2. QED
      BY <3>1
  <2>2. CASE u \notin S
    BY <1>1, <2>2, DecideKeeps
  <2>3. QED
    BY <2>1, <2>2
<1>3. \A u \in Threads : waiter'[u].need = waiter[u].need
  BY <1>1, DecideKeeps
<1>4. \A i \in 1 .. Len(waiting) : waiting[i] \in Threads /\ waiting'[i] = waiting[i]
  BY <1>1
<1>5. \A i \in 1 .. Len(waiting) : Holding(waiting[i])' = Holding(waiting[i])
  BY <1>2, <1>3, <1>4 DEF Holding
<1>6. QED
  BY <1>5, SameHoldings

\* WakeWaiters turns the tokens it takes out of the sum into grants.
LEMMA SignalMovesTokens ==
    ASSUME TypeOK, SemaInv, NEW c \in Int, Decide(Granted(c), "Ok"),
           TypeOK', UNCHANGED waiting
    PROVE  Outstanding' = Outstanding + c - Budget(c)[Len(waiting)]
<1> DEFINE N == Len(waiting)
<1>1. /\ waiting \in Seq(Threads) /\ waiter \in [Threads -> WaitingThread]
      /\ waiting' \in Seq(Threads) /\ waiter' \in [Threads -> WaitingThread]
      /\ N \in Nat /\ MaxCount \in Nat /\ DOMAIN waiting = 1 .. N
  BY SemaAssumption DEF TypeOK
<1>2. PICK b \in [0 .. N -> Int] :
          /\ b = Budget(c) /\ b[0] = c
          /\ \A i \in 1 .. N : b[i] = Turn(i, b[i - 1])
  BY <1>1, BudgetEquations
<1>3. PICK v \in Seq(Int) :
          v = Holdings /\ Len(v) = N /\ \A i \in 1 .. N : v[i] = Holding(waiting[i])
  BY <1>1, HoldingsType
<1>4. PICK w \in Seq(Int) :
          w = Holdings' /\ Len(w) = N /\ \A i \in 1 .. N : w[i] = Holding(waiting[i])'
  BY <1>1, HoldingsTypeNext
<1>5. ASSUME NEW i \in 1 .. N
      PROVE  w[i] = v[i] + b[i - 1] - b[i]
  <2> DEFINE u == waiting[i]
  <2>1. /\ u \in Threads /\ waiting'[i] = u /\ u \in Queued
        /\ waiter[u] \in WaitingThread /\ waiter[u].need \in Int
    <3>1. u \in Threads /\ waiter[u].need \in Int
      BY <1>1, QueuedType
    <3>2. u \in Queued
      BY <1>1 DEF Queued, Range
    <3>3. QED
      BY <1>1, <3>1, <3>2
  <2>2. b[i] \in Int /\ b[i - 1] \in Int /\ b[i] = Turn(i, b[i - 1])
    <3>1. i \in 0 .. N /\ i - 1 \in 0 .. N
      BY <1>1
    <3>2. QED
      BY <1>2, <3>1
  <2>3. waiter[waiting[i]].need >= 1
    BY <2>1 DEF SemaInv, QueuedNeeds
  <2>4. u \in Granted(c) <=> b[i] < b[i - 1]
    <3>1. \A j \in 1 .. N : waiting[j] = waiting[i] => j = i
      BY <1>1 DEF SemaInv, QueueIsCallers
    <3>2. QED
      BY <1>1, <1>2, <3>1 DEF Granted
  <2>5. v[i] = Holding(u) /\ w[i] = Holding(waiting[i])'
    BY <1>3, <1>4
  <2>6. CASE b[i] < b[i - 1]
    <3>1. ~waiter[u].ready /\ b[i] = b[i - 1] - waiter[u].need
      BY <2>1, <2>2, <2>6 DEF Turn
    <3>2. waiter'[u] = [waiter[u] EXCEPT !.result = "Ok", !.ready = TRUE]
      BY <2>1, <2>4, <2>6 DEF Decide
    <3>3. waiter'[u].ready /\ waiter'[u].result = "Ok" /\ waiter'[u].need = waiter[u].need
      BY <2>1, <3>2 DEF WaitingThread
    <3>4. w[i] = waiter[u].need /\ v[i] = 0
      BY <2>1, <2>5, <3>1, <3>3 DEF Holding
    <3>5. QED
      BY <2>1, <2>2, <3>1, <3>4
  <2>7. CASE ~(b[i] < b[i - 1])
    <3>1. b[i] = b[i - 1]
      BY <2>1, <2>2, <2>3, <2>7 DEF Turn
    <3>2. waiter'[u] = waiter[u]
      BY <2>1, <2>4, <2>7 DEF Decide
    <3>3. w[i] = v[i]
      BY <2>1, <2>5, <3>2 DEF Holding
    <3>4. v[i] \in Int
      BY <1>1, <1>3
    <3>5. QED
      BY <2>2, <3>1, <3>3, <3>4
  <2>8. QED
    BY <2>6, <2>7
<1>6. Sums(w)[N] = Sums(v)[N] + b[0] - b[N]
  <2>1. Len(w) = Len(v) /\ b \in [0 .. Len(v) -> Int]
    BY <1>3, <1>4
  <2>2. \A i \in 1 .. Len(v) : w[i] = v[i] + b[i - 1] - b[i]
    BY <1>3, <1>5
  <2>3. Sums(w)[Len(v)] = Sums(v)[Len(v)] + b[0] - b[Len(v)]
    BY <2>1, <2>2, SumsShift
  <2>4. QED
    BY <1>3, <2>3
<1>7. QED
  BY <1>2, <1>3, <1>4, <1>6 DEF Outstanding

\* The types of the numbers in the balance.
LEMMA BalanceType ==
    ASSUME TypeOK
    PROVE  /\ count \in Int /\ ledger \in Int /\ Outstanding \in Int
           /\ Modulus \in Nat \ {0}
BY HoldingsType, SemaAssumption DEF TypeOK, Ints, Modulus

\* A step that changes none of the three keeps the balance.
LEMMA StillShifts ==
    ASSUME TypeOK, UNCHANGED <<count, waiting, waiter, ledger>>
    PROVE  Shifts
<1>1. Outstanding' = Outstanding
  BY DEF Outstanding, Holdings, Holding
<1>2. count \in Int /\ ledger \in Int /\ Outstanding \in Int /\ Modulus \in Int
  BY BalanceType
<1>3. Balance' = Balance + Modulus * 0
  BY <1>1, <1>2 DEF Balance
<1>4. QED
  BY <1>3 DEF Shifts

\* A new waiter holds nothing.
LEMMA WaitBlocksShifts ==
    ASSUME TypeOK, TypeOK', SemaInv, NEW t \in Threads, NEW n \in NeedCounts,
           NEW p \in Priorities, NEW d, WaitBlocks(t, n, p, d)
    PROVE  Shifts
<1> DEFINE prio == IF Fifo THEN 0 ELSE p
           N == Len(waiting)
<1>1. /\ waiting \in Seq(Threads) /\ waiter \in [Threads -> WaitingThread]
      /\ waiting' \in Seq(Threads) /\ waiter' \in [Threads -> WaitingThread]
      /\ prio \in Nat /\ MaxCount \in Nat /\ N \in Nat /\ DOMAIN waiting = 1 .. N
  BY SemaAssumption DEF TypeOK
<1>2. /\ waiting' = InsertAfter(waiting, InsertPoint(prio), t)
      /\ waiter' = [waiter EXCEPT ![t] = [need |-> n, priority |-> prio,
                                           result |-> "TimedOut", ready |-> FALSE]]
      /\ pc[t] = "idle" /\ UNCHANGED <<count, ledger>>
  BY DEF WaitBlocks, AddWaiter
<1> HIDE DEF prio
<1>3. PICK k \in 0 .. N : k = InsertPoint(prio)
  BY <1>1, InsertPointFacts
<1>4. Len(waiting') = N + 1
  BY <1>1, <1>2, <1>3, InsertAfterFacts
<1>5. t \notin Queued
  BY <1>2 DEF SemaInv, QueueIsCallers
<1>6. PICK v \in Seq(Int) :
          v = Holdings /\ Len(v) = N /\ \A i \in 1 .. N : v[i] = Holding(waiting[i])
  BY <1>1, HoldingsType
<1>7. PICK w \in Seq(Int) :
          /\ w = Holdings' /\ Len(w) = N + 1
          /\ \A i \in 1 .. N + 1 : w[i] = Holding(waiting[i])'
  BY <1>1, <1>4, HoldingsTypeNext
<1>8. waiting'[k + 1] = t /\ \A i \in 1 .. N :
          waiting'[IF i < k + 1 THEN i ELSE i + 1] = waiting[i]
  BY <1>1, <1>2, <1>3 DEF InsertAfter
<1>9. w[k + 1] = 0
  <2>1. k + 1 \in 1 .. N + 1
    BY <1>1
  <2>2. ~waiter'[t].ready
    BY <1>1, <1>2
  <2>3. QED
    BY <1>7, <1>8, <2>1, <2>2 DEF Holding
<1>10. ASSUME NEW i \in 1 .. N
       PROVE  v[i] = w[IF i < k + 1 THEN i ELSE i + 1]
  <2> DEFINE j == IF i < k + 1 THEN i ELSE i + 1
  <2>1. j \in 1 .. N + 1
    BY <1>1
  <2>2. waiting'[j] = waiting[i]
    BY <1>8
  <2> HIDE DEF j
  <2>3. waiting[i] \in Queued /\ waiting[i] \in Threads
    <3>1. i \in DOMAIN waiting
      BY <1>1
    <3>2. waiting[i] \in Threads
      BY <1>1
    <3>3. QED
      BY <3>1, <3>2 DEF Queued, Range
  <2>4. waiter'[waiting[i]] = waiter[waiting[i]]
    BY <1>1, <1>2, <1>5, <2>3
  <2>5. w[j] = Holding(waiting[j])'
    BY <1>7, <2>1
  <2>6. w[j] = v[i]
    BY <1>6, <2>2, <2>4, <2>5 DEF Holding
  <2>7. QED
    BY <2>6 DEF j
<1>11. Sums(w)[Len(w)] = Sums(v)[Len(v)] + w[k + 1]
  <2>1. Len(w) = Len(v) + 1 /\ k + 1 \in 1 .. Len(w)
    BY <1>1, <1>6, <1>7
  <2>2. \A i \in 1 .. Len(v) : v[i] = w[IF i < k + 1 THEN i ELSE i + 1]
    BY <1>6, <1>10
  <2>3. QED
    BY <2>1, <2>2, SumsInsert
<1>12. Outstanding' = Outstanding + 0
  BY <1>4, <1>6, <1>7, <1>9, <1>11 DEF Outstanding
<1>13. count \in Int /\ ledger \in Int /\ Outstanding \in Int /\ Modulus \in Int
  BY BalanceType
<1>14. Balance' = Balance + Modulus * 0
  BY <1>2, <1>12, <1>13 DEF Balance
<1>15. QED
  BY <1>14 DEF Shifts

\* y tokens leave a grant and the ledger, which wraps by x.
LEMMA TakeBalance ==
    ASSUME NEW c \in Int, NEW o \in Int, NEW o2 \in Int, NEW l \in Int, NEW l2,
           NEW x \in Int, NEW y \in Int, o = o2 + y, l2 = (l - y) + x
    PROVE  c + o2 - l2 = (c + o - l) + (-x)
OBVIOUS

\* A caller that leaves returns with exactly what it was granted.
LEMMA LeaveShifts ==
    ASSUME TypeOK, TypeOK', SemaInv, NEW t \in Threads, pc[t] = "polling",
           NEW result \in Results, Leave(t, result),
           result = "Ok" <=> waiter[t].ready /\ waiter[t].result = "Ok"
    PROVE  Shifts
<1> DEFINE N == Len(waiting)
<1>1. /\ waiting \in Seq(Threads) /\ waiter \in [Threads -> WaitingThread]
      /\ waiting' \in Seq(Threads) /\ waiter' \in [Threads -> WaitingThread]
      /\ N \in Nat /\ DOMAIN waiting = 1 .. N
      /\ DOMAIN waiting' = 1 .. Len(waiting') /\ Len(waiting') \in Nat
  BY DEF TypeOK
<1>2. /\ waiting' = RemoveWaiter(t)
      /\ waiter' = [waiter EXCEPT ![t] = NoWaiter]
      /\ ledger' = IF WaitCode[result] = "OK" THEN Wrap(ledger - waiter[t].need) ELSE ledger
      /\ count' = count
  BY DEF Leave, Settle
<1>3. t \in Queued /\ \A i, j \in DOMAIN waiting : waiting[i] = waiting[j] => i = j
  BY DEF SemaInv, QueueIsCallers
<1>4. /\ DOMAIN waiting' = 1 .. N - 1
      /\ \E k \in DOMAIN waiting :
            /\ waiting[k] = t
            /\ \A i \in DOMAIN waiting' :
                  waiting'[i] = waiting[IF i < k THEN i ELSE i + 1]
  <2> DEFINE r == RemoveWaiter(t)
  <2>1. /\ DOMAIN r = 1 .. Len(waiting) - 1
        /\ \E k \in DOMAIN waiting :
              /\ waiting[k] = t
              /\ \A i \in DOMAIN r : r[i] = waiting[IF i < k THEN i ELSE i + 1]
    BY <1>1, <1>3, RemoveWaiterFacts
  <2> HIDE DEF r
  <2>2. waiting' = r
    BY <1>2 DEF r
  <2>3. QED
    BY <2>1, <2>2
<1>5. PICK k \in 1 .. N :
          /\ waiting[k] = t
          /\ \A i \in 1 .. N - 1 : waiting'[i] = waiting[IF i < k THEN i ELSE i + 1]
  BY <1>1, <1>4
<1>6. Len(waiting') = N - 1
  <2>1. N - 1 \in Nat
    BY <1>1
  <2>2. 1 .. Len(waiting') = 1 .. N - 1
    BY <1>1, <1>4
  <2>3. Len(waiting') <= N - 1 /\ N - 1 <= Len(waiting')
    <3>1. ASSUME NEW a \in Nat, NEW b \in Nat, 1 .. a = 1 .. b
          PROVE  a <= b
      <4>1. CASE a = 0
        BY <4>1
      <4>2. CASE a # 0
        <5>1. a \in 1 .. a
          BY <4>2
        <5>2. a \in 1 .. b
          BY <3>1, <5>1
        <5>3. QED
          BY <5>2
      <4>3. QED
        BY <4>1, <4>2
    <3>2. QED
      BY <1>1, <2>1, <2>2, <3>1
  <2>4. Len(waiting') \in Nat
    BY <1>1
  <2>5. QED
    BY <2>1, <2>3, <2>4
<1>7. PICK w \in Seq(Int) :
          w = Holdings /\ Len(w) = N /\ \A i \in 1 .. N : w[i] = Holding(waiting[i])
  BY <1>1, HoldingsType
<1>8. PICK v \in Seq(Int) :
          /\ v = Holdings' /\ Len(v) = N - 1
          /\ \A i \in 1 .. N - 1 : v[i] = Holding(waiting[i])'
  BY <1>1, <1>6, HoldingsTypeNext
<1>9. ASSUME NEW i \in 1 .. N - 1
      PROVE  v[i] = w[IF i < k THEN i ELSE i + 1]
  <2> DEFINE j == IF i < k THEN i ELSE i + 1
  <2>1. j \in 1 .. N /\ j # k
    BY <1>1
  <2>2. waiting'[i] = waiting[j]
    BY <1>5
  <2> HIDE DEF j
  <2>3. waiting[j] # t /\ waiting[j] \in Threads
    <3>1. waiting[j] # waiting[k]
      BY <1>1, <1>3, <2>1
    <3>2. waiting[j] \in Threads
      BY <1>1, <2>1
    <3>3. QED
      BY <1>5, <3>1, <3>2
  <2>4. waiter'[waiting[j]] = waiter[waiting[j]]
    BY <1>1, <1>2, <2>3
  <2>5. w[j] = Holding(waiting[j])
    BY <1>7, <2>1
  <2>6. v[i] = w[j]
    BY <1>8, <2>2, <2>4, <2>5 DEF Holding
  <2>7. QED
    BY <2>6 DEF j
<1>10. Sums(w)[Len(w)] = Sums(v)[Len(v)] + w[k]
  <2>1. Len(w) = Len(v) + 1 /\ k \in 1 .. Len(w)
    BY <1>1, <1>7, <1>8
  <2>2. \A i \in 1 .. Len(v) : v[i] = w[IF i < k THEN i ELSE i + 1]
    BY <1>8, <1>9
  <2>3. QED
    BY <2>1, <2>2, SumsInsert
<1>11. Outstanding = Outstanding' + Holding(t)
  BY <1>5, <1>6, <1>7, <1>8, <1>10 DEF Outstanding
<1>12. /\ count \in Int /\ ledger \in Int /\ Outstanding \in Int /\ Modulus \in Int
       /\ Outstanding' \in Int /\ waiter[t].need \in Int
  <2>1. waiter[t] \in WaitingThread
    BY <1>1
  <2>2. waiter[t].need \in Int
    BY <2>1, SemaAssumption DEF WaitingThread
  <2>3. QED
    BY <1>1, <2>2, BalanceType, HoldingsTypeNext
<1>13. CASE result = "Ok"
  <2>1. Holding(t) = waiter[t].need
    BY <1>13 DEF Holding
  <2>2. ledger' = Wrap(ledger - waiter[t].need)
    BY <1>2, <1>13, CodeOk
  <2>3. ledger - waiter[t].need \in Int
    BY <1>12
  <2>4. PICK m \in Int : ledger' = (ledger - waiter[t].need) + Modulus * m
    BY <2>2, <2>3, WrapShift
  <2>5. Balance' = Balance + Modulus * (-m)
    <3>1. Modulus * (-m) = -(Modulus * m) /\ Modulus * m \in Int
      BY <1>12
    <3>2. Outstanding = Outstanding' + waiter[t].need /\ count' = count
      BY <1>2, <1>11, <2>1
    <3>3. PICK c \in Int, o \in Int, o2 \in Int, l \in Int, x \in Int, y \in Int :
              /\ c = count /\ o = Outstanding /\ o2 = Outstanding' /\ l = ledger
              /\ x = Modulus * m /\ y = waiter[t].need
      BY <1>12, <3>1
    <3>4. o = o2 + y /\ ledger' = (l - y) + x
      BY <2>4, <3>2, <3>3
    <3>5. c + o2 - ledger' = (c + o - l) + (-x)
      BY <3>4, TakeBalance
    <3>6. QED
      BY <3>1, <3>2, <3>3, <3>5 DEF Balance
  <2>6. QED
    BY <2>5 DEF Shifts
<1>14. CASE result # "Ok"
  <2>1. Holding(t) = 0
    BY <1>14 DEF Holding
  <2>2. ledger' = ledger
    BY <1>2, <1>14, CodeOk
  <2>3. Balance' = Balance + Modulus * 0
    BY <1>2, <1>11, <1>12, <2>1, <2>2 DEF Balance
  <2>4. QED
    BY <2>3 DEF Shifts
<1>15. QED
  BY <1>13, <1>14

\* y tokens arrive in m_count or in grants, and in the ledger up to 2^w.
LEMMA MoveBalance ==
    ASSUME TypeOK, NEW y \in Int, NEW k \in Int, count' \in Int, Outstanding' \in Int,
           count' + Outstanding' = (count + Outstanding) + y,
           ledger' = (ledger + y) + Modulus * k
    PROVE  Shifts
<1>1. count \in Int /\ ledger \in Int /\ Outstanding \in Int /\ Modulus \in Int
  BY BalanceType
<1>2. PICK a \in Int, b \in Int, l \in Int, x \in Int :
          /\ a = count + Outstanding /\ b = count' + Outstanding' /\ l = ledger
          /\ x = Modulus * k
  <2>1. /\ count + Outstanding \in Int /\ count' + Outstanding' \in Int
        /\ Modulus * k \in Int
    BY <1>1
  <2>2. QED
    BY <1>1, <2>1
<1>3. b = a + y /\ ledger' = (l + y) + x
  BY <1>2
<1>4. b - ledger' = (a - l) + (-x)
  BY <1>3
<1>5. Modulus * (-k) = -x
  BY <1>1, <1>2
<1>6. Balance' = b - ledger' /\ Balance = a - l
  <2>1. ledger' \in Int
    BY <1>3
  <2>2. /\ Balance' = count' + (Outstanding' - ledger')
        /\ Balance = count + (Outstanding - ledger)
    BY DEF Balance
  <2>3. /\ count' + (Outstanding' - ledger') = (count' + Outstanding') - ledger'
        /\ count + (Outstanding - ledger) = (count + Outstanding) - ledger
    BY <1>1, <2>1
  <2>4. QED
    BY <1>2, <2>2, <2>3
<1>7. Balance' = Balance + Modulus * (-k) /\ -k \in Int
  BY <1>4, <1>5, <1>6
<1>8. QED
  BY <1>7 DEF Shifts

\* Every step moves as many tokens out of m_count and the grants as it takes
\* off the ledger, up to multiples of 2^w.
LEMMA StepShifts ==
    ASSUME TypeOK, TypeOK', SemaInv, [Next]_vars
    PROVE  Shifts
<1>1. /\ waiting \in Seq(Threads) /\ waiter \in [Threads -> WaitingThread]
      /\ count \in Int /\ ledger \in Int /\ Outstanding \in Int /\ Modulus \in Int
      /\ count' \in Int /\ Outstanding' \in Int
  <2>1. /\ count' \in Int
        /\ waiting' \in Seq(Threads) /\ waiter' \in [Threads -> WaitingThread]
    BY SemaAssumption DEF TypeOK, Ints
  <2>2. QED
    BY <2>1, BalanceType, HoldingsTypeNext DEF TypeOK
<1>2. ASSUME NEW t \in Threads, NEW n \in NeedCounts, WaitReturns(t, n) \/ Poll(t, n)
      PROVE  Shifts
  <2>1. n \in Ints /\ n \in Int /\ Immediate(n) \in Results
    BY ImmediateFacts, SemaAssumption DEF TypeOK, Ints
  <2>2. /\ count' = IF Immediate(n) = "Ok" THEN count - n ELSE count
        /\ ledger' = IF Immediate(n) = "Ok" THEN Wrap(ledger - n) ELSE ledger
        /\ UNCHANGED <<waiting, waiter>>
    BY <1>2, <2>1, CodeOk DEF WaitReturns, Poll, Settle
  <2>3. Outstanding' = Outstanding
    BY <2>2 DEF Outstanding, Holdings, Holding
  <2>4. CASE Immediate(n) = "Ok"
    <3>1. ledger - n \in Int /\ -n \in Int
      BY <1>1, <2>1
    <3>2. PICK k \in Int : ledger' = (ledger - n) + Modulus * k
      BY <2>2, <2>4, <3>1, WrapShift
    <3>3. count' + Outstanding' = (count + Outstanding) + (-n)
      BY <1>1, <2>1, <2>2, <2>3, <2>4
    <3>4. ledger - n = ledger + (-n)
      BY <1>1, <2>1
    <3>5. ledger' = (ledger + (-n)) + Modulus * k
      BY <3>2, <3>4
    <3>6. QED
      BY <1>1, <3>1, <3>3, <3>5, MoveBalance
  <2>5. CASE Immediate(n) # "Ok"
    BY <2>2, <2>5, StillShifts
  <2>6. QED
    BY <2>4, <2>5
<1>3. ASSUME NEW t \in Threads, NEW n \in SignalCounts, Signal(t, n)
      PROVE  Shifts
  <2> DEFINE c == Wrap(count + n)
  <2>1. n \in Ints /\ n \in Int /\ count + n \in Int /\ ledger + n \in Int
    BY <1>1, SemaAssumption DEF Ints
  <2>2. c \in Int
    BY <2>1, SignalFacts, SemaAssumption DEF Ints
  <2>3. PICK i \in Int : c = (count + n) + Modulus * i
    BY <2>1, WrapShift
  <2>4. PICK j \in Int : ledger' = (ledger + n) + Modulus * j
    BY <1>3, <2>1, WrapShift DEF Signal
  <2>5. /\ Decide(Granted(c), "Ok") /\ UNCHANGED waiting
        /\ count' = Budget(c)[Len(waiting)]
    BY <1>3 DEF Signal
  <2> HIDE DEF c
  <2>6. Outstanding' = Outstanding + c - count'
    BY <2>2, <2>5, SignalMovesTokens
  <2>7. PICK x \in Int, y \in Int, z \in Int :
            /\ x = Modulus * i /\ y = Modulus * j /\ z = n + x
            /\ y - x = Modulus * (j - i)
    BY <1>1, <2>1
  <2>8. count' + Outstanding' = (count + Outstanding) + z
    <3>1. (count + n) + x = count + (n + x)
      BY <1>1, <2>1
    <3>2. c = count + z
      BY <2>3, <2>7, <3>1
    <3>3. PICK a \in Int, b \in Int, o \in Int : a = count /\ b = count' /\ o = Outstanding
      BY <1>1
    <3>4. Outstanding' = o + (a + z) - b
      BY <2>6, <3>2, <3>3
    <3>5. b + (o + (a + z) - b) = (a + o) + z
      OBVIOUS
    <3>6. QED
      BY <3>3, <3>4, <3>5
  <2>9. PICK k \in Int : ledger' = (ledger + z) + Modulus * k
    <3>1. ledger' = (ledger + n) + y
      BY <2>4, <2>7
    <3>2. (ledger + n) + y = (ledger + (n + x)) + (y - x)
      BY <1>1, <2>1
    <3>3. ledger' = (ledger + z) + Modulus * (j - i)
      BY <2>7, <3>1, <3>2
    <3>4. j - i \in Int
      OBVIOUS
    <3>5. QED
      BY <3>3, <3>4
  <2>10. QED
    BY <1>1, <2>8, <2>9, MoveBalance
<1>4. ASSUME NEW t \in Threads, NEW n \in CancelCounts, Cancel(t, n)
      PROVE  Shifts
  <2>1. /\ Decide({u \in Threads : Pending(u)}, "Canceled") /\ UNCHANGED waiting
        /\ ledger' = Wrap(ledger + count' - count)
    BY <1>4 DEF Cancel
  <2>2. Outstanding' = Outstanding
    BY <2>1, DecideKeepsHoldings
  <2>3. ledger + count' - count \in Int /\ count' - count \in Int
    BY <1>1
  <2>4. PICK k \in Int : ledger' = (ledger + count' - count) + Modulus * k
    BY <2>1, <2>3, WrapShift
  <2>5. /\ count' + Outstanding' = (count + Outstanding) + (count' - count)
        /\ ledger + count' - count = ledger + (count' - count)
    BY <1>1, <2>2
  <2>6. QED
    BY <1>1, <2>3, <2>4, <2>5, MoveBalance
<1>5. ASSUME NEW t \in Threads, Delete(t)
      PROVE  Shifts
  <2>1. /\ Decide({u \in Threads : Pending(u)}, "Deleted")
        /\ UNCHANGED <<count, waiting, ledger>>
    BY <1>5 DEF Delete
  <2>2. Outstanding' = Outstanding
    BY <2>1, DecideKeepsHoldings
  <2>3. PICK z \in Int : z = 0 /\ Modulus * z = 0
    BY <1>1
  <2>4. count' + Outstanding' = (count + Outstanding) + z
    BY <1>1, <2>1, <2>2, <2>3
  <2>5. ledger' = (ledger + z) + Modulus * z
    BY <1>1, <2>1, <2>3
  <2>6. QED
    BY <1>1, <2>4, <2>5, MoveBalance
<1>6. ASSUME NEW t \in Threads, Recheck(t)
      PROVE  Shifts
  <2>1. pc[t] = "polling"
    BY <1>6 DEF Recheck
  <2>2. CASE waiter[t].ready /\ Leave(t, waiter[t].result)
    <3>1. waiter[t].result \in Results
      BY <1>1 DEF WaitingThread
    <3>2. QED
      BY <2>1, <2>2, <3>1, LeaveShifts
  <2>3. CASE ~waiter[t].ready /\ Leave(t, "TimedOut")
    <3>1. "TimedOut" \in Results /\ "TimedOut" # "Ok"
      BY DEF Results
    <3>2. QED
      BY <2>1, <2>3, <3>1, LeaveShifts
  <2>4. CASE Block(t)
    BY <2>4, StillShifts DEF Block
  <2>5. QED
    BY <1>6, <2>2, <2>3, <2>4 DEF Recheck
<1>7. ASSUME NEW t \in Threads, DeleteDrain(t) \/ Wake(t) \/ Expire(t)
      PROVE  Shifts
  BY <1>7, StillShifts DEF DeleteDrain, Wake, Expire
<1>8. ASSUME UNCHANGED vars
      PROVE  Shifts
  BY <1>8, StillShifts DEF vars
<1>9. QED
  BY <1>2, <1>3, <1>4, <1>5, <1>6, <1>7, <1>8, WaitBlocksShifts DEF Next

\* Tokens are neither lost nor handed out twice, modulo the width of int.
THEOREM TokensConserved == Spec => []TokenConservation
<1>1. Init => TokenConservation
  <2>1. SUFFICES ASSUME Init
                 PROVE  TokenConservation
    OBVIOUS
  <2>2. waiting = << >> /\ Len(waiting) = 0 /\ count = InitCount /\ ledger = InitCount
    BY <2>1 DEF Init
  <2>3. Holdings \in Seq(Int)
    BY <2>2 DEF Holdings
  <2>4. Sums(Holdings)[Len(waiting)] = 0
    BY <2>2, <2>3, SumsEquations
  <2>5. count + Sums(Holdings)[Len(waiting)] - ledger = 0
    BY <2>2, <2>4, SemaAssumption
  <2>6. PICK m \in Nat \ {0} : m = 2 * (IntMax + 1)
    BY SemaAssumption
  <2>7. 0 % m = 0
    <3>1. PICK q \in Int, r \in 0 .. (m - 1) : 0 = m * q + r /\ r = 0 % m
      <4>1. 0 = m * (0 \div m) + (0 % m) /\ 0 \div m \in Int /\ 0 % m \in 0 .. (m - 1)
        OBVIOUS
      <4>2. QED
        BY <4>1
    <3>2. r = m * (-q)
      <4>1. PICK x \in Int : x = m * q /\ m * (-q) = -x
        OBVIOUS
      <4>2. 0 = x + r
        BY <3>1, <4>1
      <4>3. r = -x
        BY <4>2
      <4>4. QED
        BY <4>1, <4>3
    <3>3. -q = 0
      BY <3>2, SmallMultiple
    <3>4. QED
      BY <3>1, <3>2, <3>3
  <2>8. QED
    BY <2>5, <2>6, <2>7 DEF TokenConservation
<1>2. TypeOK /\ TypeOK' /\ SemaInv /\ TokenConservation /\ [Next]_vars
         => TokenConservation'
  <2>1. SUFFICES ASSUME TypeOK, TypeOK', SemaInv, TokenConservation, [Next]_vars
                 PROVE  TokenConservation'
    OBVIOUS
  <2>2. PICK k \in Int : Balance' = Balance + Modulus * k
    BY <2>1, StepShifts DEF Shifts
  <2>3. Modulus \in Nat \ {0} /\ Balance \in Int
    BY <2>1, BalanceType DEF Balance
  <2>4. Balance' \in Int
    BY <2>2, <2>3
  <2>5. Balance % Modulus = 0
    BY <2>1 DEF TokenConservation, Balance, Outstanding, Modulus
  <2>6. Balance' % Modulus = 0
    BY <2>2, <2>3, <2>4, <2>5, ModShift
  <2>7. QED
    BY <2>6 DEF TokenConservation, Balance, Outstanding, Modulus
<1>3. QED
  BY <1>1, <1>2, TypeCorrect, SemaInvariant, PTL DEF Spec
=============================================================================
