---------------------- MODULE SyncOnAddressFutexProofs ----------------------
(***************************************************************************)
(* Proofs about SyncOnAddressFutex, for any finite set of threads and any  *)
(* values of the two halves of the word.                                   *)
(***************************************************************************)
EXTENDS SyncOnAddressFutex, FiniteSetTheorems, TLAPS

FutexTypeOK ==
    /\ pc \in [Threads -> {"idle", "stored", "calling", "parked", "polling"}]
    /\ expected \in [Threads -> Words]

\* The inductive invariant.
FutexInv == FutexTypeOK /\ NoLostStore

-----------------------------------------------------------------------------
\* FUTEX_WAKE with the largest count leaves nobody parked: there are never more
\* parked threads than threads.
LEMMA WakeAllTakesAll ==
    ASSUME NEW n, n = Cardinality(Threads),
           NEW S \in kSubset(IF n < Cardinality(Parked) THEN n ELSE Cardinality(Parked), Parked)
    PROVE  S = Parked
<1>1. IsFiniteSet(Parked) /\ Cardinality(Parked) <= Cardinality(Threads)
  BY FutexAssumption, FS_Subset DEF Parked
<1>2. Cardinality(Parked) \in Nat /\ Cardinality(Threads) \in Nat
  BY <1>1, FutexAssumption, FS_CardinalityType
<1>3. Cardinality(S) = Cardinality(Parked) /\ S \in SUBSET Parked
  BY <1>1, <1>2 DEF kSubset
<1> QED
  BY <1>1, <1>3, FS_Subset

\* At first no thread is parked.
LEMMA FutexInitInv == Init => FutexInv
BY DEF Init, FutexInv, FutexTypeOK, NoLostStore, Parked

\* Every step keeps the inductive invariant.
LEMMA FutexNextInv == FutexInv /\ [Next]_vars => FutexInv'
<1> SUFFICES ASSUME FutexInv, [Next]_vars PROVE FutexInv'
  OBVIOUS
<1> USE DEF FutexInv, FutexTypeOK
<1>1. ASSUME NEW t \in Threads, NEW w \in Words, Store(t, w) PROVE FutexInv'
  <2>1. pc'[t] = "stored"
    BY <1>1 DEF Store
  <2> QED
    BY <1>1, <2>1 DEF Store, NoLostStore, Parked
<1>2. ASSUME NEW t \in Threads, NEW w \in Words, NEW d \in {"none", "running"},
             WaitBegins(t, w, d)
      PROVE  FutexInv'
  <2>1. /\ FutexTypeOK'
        /\ \A u \in Threads : u # t => pc'[u] = pc[u] /\ expected'[u] = expected[u]
        /\ pc[t] = "idle" /\ pc'[t] # "parked" /\ word' = word
    BY <1>2 DEF WaitBegins, Return
  <2> QED
    BY <2>1 DEF NoLostStore, Parked
<1>3. ASSUME NEW t \in Threads, FutexWait(t) PROVE FutexInv'
  <2>1. /\ FutexTypeOK'
        /\ \A u \in Threads : u # t => pc'[u] = pc[u]
        /\ expected' = expected /\ word' = word /\ pc[t] = "calling"
        /\ pc'[t] = "parked" => word.lo = expected[t].lo
    BY <1>3 DEF FutexWait, Return
  <2> QED
    BY <2>1 DEF NoLostStore, Parked
<1>4. ASSUME NEW t \in Threads, SliceEnds(t) PROVE FutexInv'
  BY <1>4 DEF SliceEnds, NoLostStore, Parked
<1>5. ASSUME NEW t \in Threads, Expire(t) PROVE FutexInv'
  BY <1>5 DEF Expire, NoLostStore, Parked
<1>6. ASSUME NEW t \in Threads, NextSlice(t) PROVE FutexInv'
  <2>1. /\ FutexTypeOK'
        /\ \A u \in Threads : u # t => pc'[u] = pc[u]
        /\ expected' = expected /\ word' = word /\ pc[t] = "polling"
        /\ pc'[t] # "parked"
    BY <1>6 DEF NextSlice, Return
  <2> QED
    BY <2>1 DEF NoLostStore, Parked
<1>7. ASSUME NEW t \in Threads, NEW n \in WakeCounts, Wake(t, n) PROVE FutexInv'
  <2>1. PICK S \in kSubset(IF n < Cardinality(Parked) THEN n ELSE Cardinality(Parked), Parked) :
            pc' = [u \in Threads |-> IF u \in S \cup {t} THEN "idle" ELSE pc[u]]
    BY <1>7 DEF Wake
  <2>2. S \subseteq Parked
    BY DEF kSubset
  <2>3. FutexTypeOK' /\ word' = word /\ expected' = expected
    BY <1>7, <2>1 DEF Wake
  <2>4. CASE pc[t] = "stored"
    <3>1. S = Parked
      BY <1>7, <2>4, WakeAllTakesAll DEF Wake
    <3>2. Parked' = {}
      BY <2>1, <3>1 DEF Parked
    <3> QED
      BY <2>3, <3>2 DEF NoLostStore
  <2>5. CASE pc[t] = "idle"
    <3>1. \A u \in Threads : pc[u] = "stored" => pc'[u] = "stored"
      BY <2>1, <2>2, <2>5 DEF Parked
    <3>2. Parked' \subseteq Parked
      BY <2>1 DEF Parked
    <3> QED
      BY <2>3, <3>1, <3>2 DEF NoLostStore
  <2> QED
    BY <1>7, <2>4, <2>5 DEF Wake
<1>8. CASE UNCHANGED vars
  BY <1>8 DEF vars, NoLostStore, Parked
<1> QED
  BY <1>1, <1>2, <1>3, <1>4, <1>5, <1>6, <1>7, <1>8 DEF Next

\* WaitLinux cannot miss a store between its own look at the word and the
\* futex's, with any number of threads: whoever is parked on a low half that
\* has changed has a waker still to come.
THEOREM NoLostStoreHolds == Spec => []NoLostStore
<1>1. Init => FutexInv
  BY FutexInitInv
<1>2. FutexInv /\ [Next]_vars => FutexInv'
  BY FutexNextInv
<1>3. FutexInv => NoLostStore
  BY DEF FutexInv
<1> QED
  BY <1>1, <1>2, <1>3, PTL DEF Spec
=============================================================================
