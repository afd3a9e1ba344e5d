--------------------------- MODULE EventFlagProofs ---------------------------
(***************************************************************************)
(* Proofs about EventFlag, for any finite set of threads, any set of bits  *)
(* and any waits and patterns the guest uses.                              *)
(***************************************************************************)
EXTENDS EventFlag, FiniteSetTheorems, TLAPS

FlagTypeOK ==
    /\ status \in {"Set", "Canceled", "Deleted"}
    /\ freed \in BOOLEAN
    /\ bits \subseteq Bits
    /\ waiters \in Nat
    /\ pc \in [Threads -> {"idle", "asleep", "woken", "spinning", "draining"}]
    /\ req \in [Threads -> Request \cup {NoRequest}]
    /\ call \in [Threads -> [op : {"none", "Set", "Clear", "Cancel", "Delete"},
                             bits : SUBSET Bits]]
    /\ clock \in [Threads -> {"none", "running", "expired"}]
    /\ victims \subseteq Threads

\* m_waiting_threads counts the threads inside Wait.
WaitersCounted == waiters = Cardinality(Inside)

\* Only a thread inside Wait has a deadline.
DeadlinesInside == \A t \in Threads : clock[t] # "none" => t \in Inside

\* The inductive invariant.  The draining loops of Cancel and the destructor
\* look at the counter alone: that nobody is inside, hence that no victim is
\* left, when it reads zero is what WaitersCounted adds.
FlagInv ==
    /\ FlagTypeOK
    /\ WaitersCounted
    /\ DeadlinesInside
    /\ NoLostSet
    /\ CancelReachesVictims
    /\ WaitersLeaveBeforeFree

-----------------------------------------------------------------------------
\* Finitely many threads are inside a wait.
LEMMA InsideFinite == IsFiniteSet(Inside)
BY FS_Subset, FlagAssumption DEF Inside

\* A counter of zero means that nobody is inside.
LEMMA NoWaiterNobodyInside ==
    ASSUME WaitersCounted
    PROVE  waiters = 0 <=> Inside = {}
BY InsideFinite, FS_EmptySet DEF WaitersCounted

\* A step that neither moves a thread into or out of Wait nor touches the
\* counter keeps the count.
LEMMA CountKept ==
    ASSUME WaitersCounted, waiters' = waiters, Inside' = Inside
    PROVE  WaitersCounted'
BY DEF WaitersCounted

\* A thread that goes to sleep is one more inside, one that leaves one less.
LEMMA CountJoins ==
    ASSUME FlagTypeOK, WaitersCounted, NEW t \in Threads, t \notin Inside,
           pc' = [pc EXCEPT ![t] = "asleep"], waiters' = waiters + 1
    PROVE  WaitersCounted' /\ Inside' = Inside \cup {t}
<1>1. Inside' = Inside \cup {t}
  BY DEF Inside, FlagTypeOK
<1>2. Cardinality(Inside') = Cardinality(Inside) + 1
  BY <1>1, InsideFinite, FS_AddElement
<1> QED
  BY <1>1, <1>2 DEF WaitersCounted

\* A thread that leaves takes itself off the count of waiters.
LEMMA CountLeaves ==
    ASSUME FlagTypeOK, WaitersCounted, NEW t \in Threads, t \in Inside, Leave(t)
    PROVE  WaitersCounted' /\ Inside' = Inside \ {t} /\ waiters' \in Nat
<1>1. Inside' = Inside \ {t}
  BY DEF Inside, FlagTypeOK, Leave
<1>2. Cardinality(Inside') = Cardinality(Inside) - 1
  BY <1>1, InsideFinite, FS_RemoveElement
<1>3. Cardinality(Inside') \in Nat
  BY <1>1, InsideFinite, FS_RemoveElement, FS_CardinalityType
<1> QED
  BY <1>1, <1>2, <1>3 DEF WaitersCounted, Leave

\* Taking bits away satisfies no request.
LEMMA FewerBitsSatisfyNobody ==
    ASSUME NEW r, bits' \subseteq bits, Satisfied(r)'
    PROVE  Satisfied(r)
BY DEF Satisfied

\* Clearing never sets a bit.
LEMMA ClearBitsShrinks ==
    ASSUME NEW r \in Request \cup {NoRequest}
    PROVE  ClearBits(r) \subseteq bits
<1>1. r.clear \in {"None", "All", "Bits"}
  BY DEF Request, NoRequest
<1> QED
  BY <1>1 DEF ClearBits

-----------------------------------------------------------------------------
\* A new flag has no waiters.
LEMMA FlagInitInv == Init => FlagInv
<1> SUFFICES ASSUME Init PROVE FlagInv
  OBVIOUS
<1>1. Inside = {}
  BY DEF Init, Inside
<1>2. Cardinality(Inside) = 0
  BY <1>1, FS_EmptySet
<1>3. FlagTypeOK
  BY FlagAssumption DEF Init, FlagTypeOK, None
<1> QED
  BY <1>1, <1>2, <1>3 DEF Init, FlagInv, WaitersCounted, DeadlinesInside, NoLostSet,
     CancelReachesVictims, WaitersLeaveBeforeFree

\* Set, Clear, Cancel and the destructor, once they find m_status Set: none of
\* them moves a thread into or out of Wait, and those that add bits signal
\* everybody.
LEMMA PerformKeeps ==
    ASSUME FlagInv, NEW t \in Threads, t \notin Inside, ~freed, status = "Set",
           NEW op, NEW b \in SUBSET Bits, Perform(t, op, b),
           UNCHANGED <<waiters, req, clock>>,
           call' \in [Threads -> [op : {"none", "Set", "Clear", "Cancel", "Delete"},
                                  bits : SUBSET Bits]]
    PROVE  FlagInv'
<1> USE DEF FlagInv
<1>0. victims = {}
  BY DEF CancelReachesVictims
<1>1. CASE PerformSet(t, b)
  <2>1. Inside' = Inside
    BY <1>1 DEF PerformSet, SignalAll, Inside, FlagTypeOK
  <2>2. FlagTypeOK'
    BY <1>1 DEF PerformSet, SignalAll, FlagTypeOK
  <2>3. NoLostSet'
    BY <1>1 DEF PerformSet, SignalAll, NoLostSet
  <2> QED
    BY <1>0, <1>1, <2>1, <2>2, <2>3, CountKept
       DEF PerformSet, DeadlinesInside, CancelReachesVictims, WaitersLeaveBeforeFree
<1>2. CASE PerformClear(t, b)
  <2>1. Inside' = Inside
    BY <1>2 DEF PerformClear, Inside, FlagTypeOK
  <2>2. FlagTypeOK'
    BY <1>2 DEF PerformClear, FlagTypeOK
  <2>3. NoLostSet'
    <3> SUFFICES ASSUME NEW u \in Threads, pc'[u] = "asleep", Satisfied(req[u])'
                 PROVE  FALSE
      BY DEF NoLostSet
    <3>1. pc[u] = "asleep" /\ req'[u] = req[u]
      BY <1>2 DEF PerformClear, FlagTypeOK
    <3> QED
      BY <1>2, <3>1, FewerBitsSatisfyNobody DEF PerformClear, NoLostSet
  <2> QED
    BY <1>0, <1>2, <2>1, <2>2, <2>3, CountKept
       DEF PerformClear, DeadlinesInside, CancelReachesVictims, WaitersLeaveBeforeFree
<1>3. CASE PerformCancel(t, b)
  <2>1. Inside' = Inside
    BY <1>3 DEF PerformCancel, SignalAll, Inside, FlagTypeOK
  <2>2. FlagTypeOK'
    BY <1>3 DEF PerformCancel, SignalAll, FlagTypeOK, Inside
  <2>3. NoLostSet'
    BY <1>3 DEF PerformCancel, SignalAll, NoLostSet
  <2>4. CancelReachesVictims'
    BY <1>3, <2>1, NoWaiterNobodyInside DEF PerformCancel, CancelReachesVictims, FlagTypeOK
  <2> QED
    BY <1>3, <2>1, <2>2, <2>3, <2>4, CountKept
       DEF PerformCancel, DeadlinesInside, WaitersLeaveBeforeFree
<1>4. CASE PerformDelete(t)
  <2>1. Inside' = Inside
    BY <1>4 DEF PerformDelete, SignalAll, Inside, FlagTypeOK
  <2>2. FlagTypeOK'
    BY <1>4 DEF PerformDelete, SignalAll, FlagTypeOK
  <2>3. NoLostSet'
    BY <1>4 DEF PerformDelete, SignalAll, NoLostSet
  <2>4. WaitersLeaveBeforeFree'
    BY <1>4, <2>1, NoWaiterNobodyInside DEF PerformDelete, WaitersLeaveBeforeFree
  <2> QED
    BY <1>0, <1>4, <2>1, <2>2, <2>3, <2>4, CountKept
       DEF PerformDelete, DeadlinesInside, CancelReachesVictims
<1> QED
  BY <1>1, <1>2, <1>3, <1>4 DEF Perform

\* Set, Clear, Cancel and Delete as they arrive.
LEMMA EnterKeeps ==
    ASSUME FlagInv, NEW t \in Threads, NEW op \in {"Set", "Clear", "Cancel", "Delete"},
           NEW b \in SUBSET Bits, Enter(t, op, b)
    PROVE  FlagInv'
<1>0. t \notin Inside
  BY DEF Enter, Inside
<1>1. CASE status = "Set"
  <2>1. call' = call
    BY <1>1 DEF Enter
  <2> QED
    BY <1>0, <1>1, <2>1, PerformKeeps DEF Enter, FlagInv, FlagTypeOK
<1>2. CASE status # "Set"
  <2>1. Inside' = Inside
    BY <1>2 DEF Enter, Inside, FlagInv, FlagTypeOK
  <2>0. [op |-> op, bits |-> b] \in [op : {"none", "Set", "Clear", "Cancel", "Delete"},
                                    bits : SUBSET Bits]
    OBVIOUS
  <2> DEFINE new == [op |-> op, bits |-> b]
  <2>a. /\ pc' = [pc EXCEPT ![t] = "spinning"]
        /\ call' = [call EXCEPT ![t] = new]
        /\ UNCHANGED <<status, freed, single, bits, waiters, req, clock, victims>>
    BY <1>2 DEF Enter
  <2> HIDE DEF new
  <2>2. FlagTypeOK'
    BY <2>0, <2>a DEF FlagInv, FlagTypeOK, new
  <2>3. NoLostSet'
    BY <1>2 DEF Enter, FlagInv, FlagTypeOK, NoLostSet, Satisfied
  <2> QED
    BY <1>2, <2>1, <2>2, <2>3, CountKept
       DEF Enter, FlagInv, DeadlinesInside, CancelReachesVictims, WaitersLeaveBeforeFree
<1> QED
  BY <1>1, <1>2

\* A waiter back under m_mutex returns or goes back to sleep.
LEMMA RecheckKeeps ==
    ASSUME FlagInv, NEW t \in Threads, Recheck(t)
    PROVE  FlagInv'
<1> USE DEF FlagInv
<1>0. t \in Inside /\ req[t] \in Request \cup {NoRequest}
  BY DEF Recheck, Inside, FlagTypeOK
<1>1. CASE Leave(t)
  <2>1. WaitersCounted' /\ Inside' = Inside \ {t} /\ waiters' \in Nat
    BY <1>0, <1>1, CountLeaves
  <2>2. bits' \subseteq bits /\ UNCHANGED <<status, freed, call>> /\ victims' \subseteq victims
    BY <1>0, <1>1, ClearBitsShrinks DEF Recheck, Leave, FlagTypeOK
  <2>3. FlagTypeOK'
    BY <1>1, <2>1, <2>2 DEF Leave, FlagTypeOK
  <2>4. DeadlinesInside'
    BY <1>1, <2>1 DEF Leave, DeadlinesInside, FlagTypeOK
  <2>5. NoLostSet'
    <3> SUFFICES ASSUME NEW u \in Threads, pc'[u] = "asleep", Satisfied(req[u])'
                 PROVE  FALSE
      BY DEF NoLostSet
    <3>1. pc[u] = "asleep" /\ req'[u] = req[u]
      BY <1>1 DEF Leave, FlagTypeOK
    <3> QED
      BY <2>2, <3>1, FewerBitsSatisfyNobody DEF NoLostSet
  <2>6. CancelReachesVictims'
    <3>1. t \notin victims'
      BY <1>1 DEF Recheck, Leave, CancelReachesVictims, FlagTypeOK
    <3> QED
      BY <2>1, <2>2, <3>1 DEF CancelReachesVictims
  <2> QED
    BY <2>1, <2>2, <2>3, <2>4, <2>5, <2>6 DEF WaitersLeaveBeforeFree
<1>2. CASE ~Leave(t)
  <2>1. /\ pc' = [pc EXCEPT ![t] = "asleep"]
        /\ ~Satisfied(req[t])
        /\ UNCHANGED <<status, freed, single, bits, waiters, req, call, clock, victims>>
    BY <1>2 DEF Recheck
  <2>2. Inside' = Inside
    BY <1>0, <2>1 DEF Inside, FlagTypeOK
  <2>3. FlagTypeOK'
    BY <2>1 DEF FlagTypeOK
  <2>4. NoLostSet'
    BY <2>1 DEF NoLostSet, Satisfied, FlagTypeOK
  <2> QED
    BY <2>1, <2>2, <2>3, <2>4, CountKept
       DEF DeadlinesInside, CancelReachesVictims, WaitersLeaveBeforeFree
<1> QED
  BY <1>1, <1>2

-----------------------------------------------------------------------------
\* Every step keeps the inductive invariant.
LEMMA FlagNextInv == FlagInv /\ [Next]_vars => FlagInv'
<1> SUFFICES ASSUME FlagInv, [Next]_vars PROVE FlagInv'
  OBVIOUS
<1> USE DEF FlagInv
<1>1. ASSUME NEW t \in Threads, NEW r \in Requests, WaitReturns(t, r) PROVE FlagInv'
  <2>0. bits' \subseteq bits
    BY <1>1, ClearBitsShrinks, FlagAssumption DEF WaitReturns
  <2>1. Inside' = Inside
    BY <1>1 DEF WaitReturns, Inside
  <2>2. FlagTypeOK'
    BY <1>1, <2>0 DEF WaitReturns, FlagTypeOK
  <2>3. NoLostSet'
    BY <1>1, <2>0, FewerBitsSatisfyNobody DEF WaitReturns, NoLostSet
  <2> QED
    BY <1>1, <2>1, <2>2, <2>3, CountKept
       DEF WaitReturns, DeadlinesInside, CancelReachesVictims, WaitersLeaveBeforeFree
<1>2. ASSUME NEW t \in Threads, NEW r \in Requests, NEW d \in {"none", "running"},
             WaitBlocks(t, r, d)
      PROVE  FlagInv'
  <2>0. r \in Request /\ t \notin Inside
    BY <1>2, FlagAssumption DEF WaitBlocks, Inside
  <2>1. WaitersCounted' /\ Inside' = Inside \cup {t}
    BY <1>2, <2>0, CountJoins DEF WaitBlocks
  <2>2. FlagTypeOK'
    BY <1>2, <2>0 DEF WaitBlocks, FlagTypeOK
  <2>3. NoLostSet'
    BY <1>2 DEF WaitBlocks, NoLostSet, Satisfied, FlagTypeOK
  <2>4. DeadlinesInside'
    BY <1>2, <2>1 DEF WaitBlocks, DeadlinesInside, FlagTypeOK
  <2> QED
    BY <1>2, <2>1, <2>2, <2>3, <2>4
       DEF WaitBlocks, CancelReachesVictims, WaitersLeaveBeforeFree
<1>3. ASSUME NEW t \in Threads, Expire(t) \/ Poll10ms(t) PROVE FlagInv'
  <2>0. t \in Inside
    BY <1>3 DEF Expire, Poll10ms, DeadlinesInside, Inside
  <2>1. Inside' = Inside
    BY <1>3, <2>0 DEF Expire, Poll10ms, Inside, FlagTypeOK
  <2>2. FlagTypeOK'
    BY <1>3 DEF Expire, Poll10ms, FlagTypeOK
  <2>3. NoLostSet'
    BY <1>3 DEF Expire, Poll10ms, NoLostSet, Satisfied, FlagTypeOK
  <2>4. DeadlinesInside'
    BY <1>3, <2>0, <2>1 DEF Expire, Poll10ms, DeadlinesInside, FlagTypeOK
  <2> QED
    BY <1>3, <2>1, <2>2, <2>3, <2>4, CountKept
       DEF Expire, Poll10ms, CancelReachesVictims, WaitersLeaveBeforeFree
<1>4. ASSUME NEW t \in Threads, Recheck(t) PROVE FlagInv'
  BY <1>4, RecheckKeeps
<1>5. ASSUME NEW t \in Threads, NEW b \in Patterns, Set(t, b) \/ Clear(t, b) \/ Cancel(t, b)
      PROVE  FlagInv'
  BY <1>5, EnterKeeps, FlagAssumption DEF Set, Clear, Cancel
<1>6. ASSUME NEW t \in Threads, Delete(t) PROVE FlagInv'
  BY <1>6, EnterKeeps DEF Delete
<1>7. ASSUME NEW t \in Threads, Retry(t) PROVE FlagInv'
  <2>1. t \notin Inside /\ call[t].bits \in SUBSET Bits
    BY <1>7 DEF Retry, Inside, FlagTypeOK
  <2>2. call' \in [Threads -> [op : {"none", "Set", "Clear", "Cancel", "Delete"},
                               bits : SUBSET Bits]]
    BY <1>7 DEF Retry, None, FlagTypeOK
  <2> QED
    BY <1>7, <2>1, <2>2, PerformKeeps DEF Retry
<1>8. ASSUME NEW t \in Threads, CancelDrained(t) \/ DeleteDrained(t) PROVE FlagInv'
  <2>0. Inside = {}
    BY <1>8, NoWaiterNobodyInside DEF CancelDrained, DeleteDrained
  <2>1. Inside' = Inside
    BY <1>8 DEF CancelDrained, DeleteDrained, Inside, FlagTypeOK
  <2>2. FlagTypeOK'
    BY <1>8 DEF CancelDrained, DeleteDrained, FlagTypeOK
  <2>3. NoLostSet'
    BY <1>8, <2>0, <2>1 DEF NoLostSet, Inside
  <2> QED
    BY <1>8, <2>0, <2>1, <2>2, <2>3, CountKept
       DEF CancelDrained, DeleteDrained, DeadlinesInside, CancelReachesVictims,
           WaitersLeaveBeforeFree
<1>9. CASE UNCHANGED vars
  <2>1. Inside' = Inside
    BY <1>9 DEF vars, Inside
  <2> QED
    BY <1>9, <2>1, CountKept
       DEF vars, FlagTypeOK, DeadlinesInside, NoLostSet, Satisfied, CancelReachesVictims,
           WaitersLeaveBeforeFree
<1> QED
  BY <1>1, <1>2, <1>3, <1>4, <1>5, <1>6, <1>7, <1>8, <1>9 DEF Next

\* The inductive invariant holds in every behaviour.
LEMMA FlagInvariant == Spec => []FlagInv
<1>1. Init => FlagInv
  BY FlagInitInv
<1>2. FlagInv /\ [Next]_vars => FlagInv'
  BY FlagNextInv
<1> QED
  BY <1>1, <1>2, PTL DEF Spec

\* Nobody sleeps on bits that are there (KernelWaitEventFlag against
\* KernelSetEventFlag, KernelClearEventFlag and KernelCancelEventFlag), with
\* any number of threads and bits.
THEOREM NoLostSetHolds == Spec => []NoLostSet
<1>1. FlagInv => NoLostSet
  BY DEF FlagInv
<1> QED
  BY <1>1, FlagInvariant, PTL

\* Every thread that KernelCancelEventFlag counted is still inside, under a
\* status that makes it return ECANCELED, until it has returned.
THEOREM CancelReachesVictimsHolds == Spec => []CancelReachesVictims
<1>1. FlagInv => CancelReachesVictims
  BY DEF FlagInv
<1> QED
  BY <1>1, FlagInvariant, PTL

\* No thread is inside Wait when the destructor of the flag has returned.
THEOREM WaitersLeaveBeforeFreeHolds == Spec => []WaitersLeaveBeforeFree
<1>1. FlagInv => WaitersLeaveBeforeFree
  BY DEF FlagInv
<1> QED
  BY <1>1, FlagInvariant, PTL
=============================================================================
