----------------------------- MODULE PthreadProofs -----------------------------
(***************************************************************************)
(* Proofs about PthreadCond, PthreadRwlock, PthreadOnce and PosixSem, for  *)
(* any set of threads (a finite one for the read/write lock and the        *)
(* semaphore).                                                             *)
(***************************************************************************)
EXTENDS PthreadCond, PthreadRwlock, PthreadOnce, PosixSem, FiniteSetTheorems, SequenceTheorems,
        TLAPS

-----------------------------------------------------------------------------
(***************************************************************************)
(* The read/write lock.                                                    *)
(***************************************************************************)

\* A thread that sleeps for a read lock holds none: it would have been let in
\* as a reader, and the writer it waits for is another thread.
SleepersReadNothing == \A t \in RwThreads : rwPc[t] = "reading" => readers[t] = 0

\* The inductive invariant.  RwExclusion alone is not inductive: the bound on
\* readers needs to know that sleeping readers hold nothing.
RwInv ==
    /\ RwTypeOK
    /\ RwExclusion
    /\ RwWritersCounted
    /\ SleepersReadNothing

\* Read locks are pairs of a thread and a number: finitely many.
LEMMA ReadsHeldFinite == IsFiniteSet(ReadsHeld)
<1>1. IsFiniteSet(1 .. MaxReads)
  BY FS_Interval, RwAssumption
<1>2. IsFiniteSet(RwThreads \X (1 .. MaxReads))
  BY <1>1, FS_Product, RwAssumption
<1> QED
  BY <1>2, FS_Subset DEF ReadsHeld

\* Finitely many threads wait to write.
LEMMA WaitingFinite == IsFiniteSet(WaitingToWrite)
BY FS_Subset, RwAssumption DEF WaitingToWrite

\* One more read lock is one more pair.
LEMMA AddReaderCounts ==
    ASSUME NEW t \in RwThreads, RwTypeOK, readerCount = Cardinality(ReadsHeld),
           readers[t] < MaxReads, RwlockAddReader(t)
    PROVE  readerCount' = Cardinality(ReadsHeld')
<1> DEFINE new == <<t, readers[t] + 1>>
<1> USE RwAssumption DEF RwTypeOK
<1>1. ReadsHeld' = ReadsHeld \cup {new}
  BY DEF ReadsHeld, RwlockAddReader
<1>2. new \notin ReadsHeld
  BY DEF ReadsHeld
<1>3. Cardinality(ReadsHeld') = Cardinality(ReadsHeld) + 1
  BY <1>1, <1>2, ReadsHeldFinite, FS_AddElement
<1> QED
  BY <1>3 DEF RwlockAddReader

\* One read lock less is one pair less.
LEMMA RemoveReaderCounts ==
    ASSUME NEW t \in RwThreads, RwTypeOK, readerCount = Cardinality(ReadsHeld),
           readers[t] > 0, readers' = [readers EXCEPT ![t] = @ - 1],
           readerCount' = readerCount - 1
    PROVE  readerCount' = Cardinality(ReadsHeld') /\ readerCount' \in Nat
<1> DEFINE old == <<t, readers[t]>>
<1> USE RwAssumption DEF RwTypeOK
<1>1. ReadsHeld' = ReadsHeld \ {old}
  BY DEF ReadsHeld
<1>2. old \in ReadsHeld
  BY DEF ReadsHeld
<1>3. Cardinality(ReadsHeld') = Cardinality(ReadsHeld) - 1
  BY <1>1, <1>2, ReadsHeldFinite, FS_RemoveElement
<1>4. Cardinality(ReadsHeld') \in Nat
  BY <1>1, ReadsHeldFinite, FS_RemoveElement, FS_CardinalityType
<1> QED
  BY <1>3, <1>4

\* What lets a writer in, a reader_count of zero, means that nobody reads.
LEMMA NoCountNoReader ==
    ASSUME RwTypeOK, readerCount = Cardinality(ReadsHeld), readerCount = 0
    PROVE  \A t \in RwThreads : readers[t] = 0
<1>1. ReadsHeld = {}
  BY ReadsHeldFinite, FS_EmptySet
<1>2. SUFFICES ASSUME NEW t \in RwThreads, readers[t] # 0 PROVE FALSE
  OBVIOUS
<1>3. <<t, 1>> \in ReadsHeld
  BY <1>2, RwAssumption DEF RwTypeOK, ReadsHeld
<1> QED
  BY <1>1, <1>3

\* The initial state counts nothing.
LEMMA RwInitInv == RwInit => RwInv
<1> SUFFICES ASSUME RwInit PROVE RwInv
  OBVIOUS
<1>1. ReadsHeld = {} /\ WaitingToWrite = {}
  BY DEF RwInit, ReadsHeld, WaitingToWrite
<1>2. Cardinality(ReadsHeld) = 0 /\ Cardinality(WaitingToWrite) = 0
  BY <1>1, FS_EmptySet
<1>3. RwTypeOK
  BY RwAssumption DEF RwInit, RwTypeOK
<1> QED
  BY <1>2, <1>3 DEF RwInit, RwInv, RwExclusion, RwWritersCounted, SleepersReadNothing

\* A thread that joins the writers in the loop, or leaves them.
LEMMA WriterJoins ==
    ASSUME NEW t \in RwThreads, RwTypeOK, RwWritersCounted, rwPc[t] # "writing",
           rwPc' = [rwPc EXCEPT ![t] = "writing"], waitingWriters' = waitingWriters + 1
    PROVE  RwWritersCounted'
<1>1. WaitingToWrite' = WaitingToWrite \cup {t} /\ t \notin WaitingToWrite
  BY DEF WaitingToWrite, RwTypeOK
<1>2. Cardinality(WaitingToWrite') = Cardinality(WaitingToWrite) + 1
  BY <1>1, WaitingFinite, FS_AddElement
<1> QED
  BY <1>2 DEF RwWritersCounted

\* A writer that stops waiting takes itself off the count.
LEMMA WriterLeaves ==
    ASSUME NEW t \in RwThreads, RwTypeOK, RwWritersCounted, rwPc[t] = "writing",
           rwPc' = [rwPc EXCEPT ![t] = "none"], waitingWriters' = waitingWriters - 1
    PROVE  RwWritersCounted' /\ waitingWriters' \in Nat
<1>1. WaitingToWrite' = WaitingToWrite \ {t} /\ t \in WaitingToWrite
  BY DEF WaitingToWrite, RwTypeOK
<1>2. Cardinality(WaitingToWrite') = Cardinality(WaitingToWrite) - 1
  BY <1>1, WaitingFinite, FS_RemoveElement
<1>3. Cardinality(WaitingToWrite') \in Nat
  BY <1>1, WaitingFinite, FS_RemoveElement, FS_CardinalityType
<1> QED
  BY <1>2, <1>3 DEF RwWritersCounted

\* Every step keeps the inductive invariant.
LEMMA RwNextInv == RwInv /\ [RwNext]_rwVars => RwInv'
<1> SUFFICES ASSUME RwInv, [RwNext]_rwVars PROVE RwInv'
  OBVIOUS
<1> USE RwAssumption DEF RwInv
<1>1. ASSUME NEW t \in RwThreads, RwRead(t) PROVE RwInv'
  <2>1. readerCount' = Cardinality(ReadsHeld')
    BY <1>1, AddReaderCounts DEF RwRead, RwExclusion
  <2>2. RwTypeOK'
    BY <1>1 DEF RwRead, RwlockAddReader, RwTypeOK
  <2>3. WaitingToWrite' = WaitingToWrite
    BY <1>1 DEF RwRead, WaitingToWrite
  <2>4. RwExclusion'
    BY <1>1, <2>1 DEF RwRead, RwlockAddReader, ReadAllowed, RwExclusion, RwTypeOK
  <2>5. SleepersReadNothing'
    BY <1>1 DEF RwRead, RwlockAddReader, SleepersReadNothing, RwTypeOK
  <2> QED
    BY <1>1, <2>2, <2>3, <2>4, <2>5 DEF RwRead, RwWritersCounted
<1>2. ASSUME NEW t \in RwThreads, RwWrite(t) PROVE RwInv'
  <2>1. \A u \in RwThreads : readers[u] = 0
    BY <1>2, NoCountNoReader DEF RwWrite, WriteAllowed, RwExclusion
  <2>2. ReadsHeld' = ReadsHeld /\ WaitingToWrite' = WaitingToWrite
    BY <1>2 DEF RwWrite, ReadsHeld, WaitingToWrite
  <2> QED
    BY <1>2, <2>1, <2>2
       DEF RwWrite, RwTypeOK, RwExclusion, RwWritersCounted, SleepersReadNothing
<1>3. ASSUME NEW t \in RwThreads, NEW timed \in BOOLEAN, RwReadBlock(t, timed) PROVE RwInv'
  <2>1. readers[t] = 0
    BY <1>3 DEF RwReadBlock, ReadAllowed, RwExclusion, RwTypeOK
  <2>2. ReadsHeld' = ReadsHeld /\ WaitingToWrite' = WaitingToWrite
    BY <1>3 DEF RwReadBlock, ReadsHeld, WaitingToWrite, RwTypeOK
  <2> QED
    BY <1>3, <2>1, <2>2
       DEF RwReadBlock, RwTypeOK, RwExclusion, RwWritersCounted, SleepersReadNothing
<1>4. ASSUME NEW t \in RwThreads, NEW timed \in BOOLEAN, RwWriteBlock(t, timed) PROVE RwInv'
  <2>1. RwWritersCounted'
    BY <1>4, WriterJoins DEF RwWriteBlock
  <2>2. ReadsHeld' = ReadsHeld
    BY <1>4 DEF RwWriteBlock, ReadsHeld
  <2> QED
    BY <1>4, <2>1, <2>2 DEF RwWriteBlock, RwTypeOK, RwExclusion, SleepersReadNothing
<1>5. ASSUME NEW t \in RwThreads, RwReadPoll(t) PROVE RwInv'
  <2>1. WaitingToWrite' = WaitingToWrite
    BY <1>5 DEF RwReadPoll, RwReturn, WaitingToWrite, RwTypeOK
  <2>2. RwWritersCounted'
    BY <1>5, <2>1 DEF RwReadPoll, RwWritersCounted
  <2>3. CASE ReadAllowed(t) /\ RwlockAddReader(t)
    <3>1. readers[t] = 0
      BY <1>5 DEF RwReadPoll, SleepersReadNothing
    <3>2. readerCount' = Cardinality(ReadsHeld')
      BY <2>3, <3>1, AddReaderCounts DEF RwExclusion
    <3>3. RwTypeOK'
      BY <1>5, <2>3, <3>1 DEF RwReadPoll, RwReturn, RwlockAddReader, RwTypeOK
    <3>4. RwExclusion'
      BY <1>5, <2>3, <3>2 DEF RwReadPoll, RwlockAddReader, ReadAllowed, RwExclusion, RwTypeOK
    <3>5. SleepersReadNothing'
      BY <1>5, <2>3 DEF RwReadPoll, RwReturn, RwlockAddReader, SleepersReadNothing, RwTypeOK
    <3> QED
      BY <2>2, <3>3, <3>4, <3>5
  <2>4. CASE ~ReadAllowed(t) /\ UNCHANGED <<readers, readerCount>>
    <3>1. ReadsHeld' = ReadsHeld
      BY <2>4 DEF ReadsHeld
    <3> QED
      BY <1>5, <2>2, <2>4, <3>1
         DEF RwReadPoll, RwReturn, RwTypeOK, RwExclusion, SleepersReadNothing
  <2> QED
    BY <1>5, <2>3, <2>4 DEF RwReadPoll
<1>6. ASSUME NEW t \in RwThreads, RwWritePoll(t) PROVE RwInv'
  <2>1. RwWritersCounted' /\ waitingWriters' \in Nat
    BY <1>6, WriterLeaves DEF RwWritePoll, RwReturn
  <2>2. ReadsHeld' = ReadsHeld
    BY <1>6 DEF RwWritePoll, ReadsHeld
  <2>3. RwTypeOK'
    BY <1>6, <2>1 DEF RwWritePoll, RwReturn, RwTypeOK
  <2>4. WriteAllowed => \A u \in RwThreads : readers[u] = 0
    BY NoCountNoReader DEF WriteAllowed, RwExclusion
  <2>5. RwExclusion'
    BY <1>6, <2>2, <2>4 DEF RwWritePoll, RwExclusion
  <2>6. SleepersReadNothing'
    BY <1>6 DEF RwWritePoll, RwReturn, SleepersReadNothing, RwTypeOK
  <2> QED
    BY <2>1, <2>3, <2>5, <2>6
<1>7. ASSUME NEW t \in RwThreads, RwUnlock(t) PROVE RwInv'
  <2>1. WaitingToWrite' = WaitingToWrite
    BY <1>7 DEF RwUnlock, WaitingToWrite
  <2>2. RwWritersCounted'
    BY <1>7, <2>1 DEF RwUnlock, RwWritersCounted
  <2>3. CASE readers[t] > 0
    <3>1. readerCount' = Cardinality(ReadsHeld') /\ readerCount' \in Nat
      BY <1>7, <2>3, RemoveReaderCounts DEF RwUnlock, RwExclusion
    <3> QED
      BY <1>7, <2>2, <2>3, <3>1 DEF RwUnlock, RwTypeOK, RwExclusion, SleepersReadNothing
  <2>4. CASE ~(readers[t] > 0)
    <3>1. ReadsHeld' = ReadsHeld
      BY <1>7, <2>4 DEF RwUnlock, ReadsHeld
    <3> QED
      BY <1>7, <2>2, <2>4, <3>1 DEF RwUnlock, RwTypeOK, RwExclusion, SleepersReadNothing
  <2> QED
    BY <2>3, <2>4
<1>8. CASE UNCHANGED rwVars
  <2>1. ReadsHeld' = ReadsHeld /\ WaitingToWrite' = WaitingToWrite
    BY <1>8 DEF rwVars, ReadsHeld, WaitingToWrite
  <2> QED
    BY <1>8, <2>1
       DEF rwVars, RwTypeOK, RwExclusion, RwWritersCounted, SleepersReadNothing
<1> QED
  BY <1>1, <1>2, <1>3, <1>4, <1>5, <1>6, <1>7, <1>8 DEF RwNext, RwStep

\* The inductive invariant holds in every reachable state.
THEOREM RwInvariant == RwSpec => []RwInv
BY RwInitInv, RwNextInv, PTL DEF RwSpec

\* For any number of threads and read locks: a writer is alone, and
\* reader_count counts the read locks held.
THEOREM RwExclusionHolds == RwSpec => []RwExclusion
<1>1. RwInv => RwExclusion
  BY DEF RwInv
<1> QED
  BY <1>1, RwInvariant, PTL

\* For any number of threads: waiting_writers counts the writers that wait.
THEOREM RwWritersCountedHolds == RwSpec => []RwWritersCounted
<1>1. RwInv => RwWritersCounted
  BY DEF RwInv
<1> QED
  BY <1>1, RwInvariant, PTL

-----------------------------------------------------------------------------
(***************************************************************************)
(* pthread_once.                                                           *)
(***************************************************************************)

OnceTypeOK ==
    /\ onceState \in [Onces -> {"NEEDS_INIT", "IN_PROGRESS", "WAIT", "DONE_INIT"}]
    /\ onceCall \in [OnceThreads -> [once : Onces \cup {"none"},
                                     at : {"none", "running", "ran", "waiting", "returned"}]]
    /\ initRuns \in [Onces -> Nat]
    /\ initDone \in [Onces -> BOOLEAN]

\* A call is about an object; the state of an object tells how often its
\* routine was started, and DONE_INIT or a runner past the routine that it has
\* returned.
OncePublished ==
    /\ \A o \in Onces : /\ onceState[o] = "NEEDS_INIT" => initRuns[o] = 0
                        /\ onceState[o] = "DONE_INIT" => initDone[o]
    /\ \A t \in OnceThreads :
          /\ onceCall[t].at # "none" => onceCall[t].once \in Onces
          /\ onceCall[t].at = "ran" => initDone[onceCall[t].once]

\* The inductive invariant.
OnceInv == OnceTypeOK /\ OncePublished /\ OnceExactlyOnce

\* Before the first call the routine has not run.
LEMMA OnceInitInv == OnceInit => OnceInv
BY DEF OnceInit, OnceInv, OnceTypeOK, OncePublished, OnceExactlyOnce, NoOnceCall

\* The switch, entered by a call or by a waiter that looks again.
LEMMA OnceSwitchKeeps ==
    ASSUME OnceInv, NEW t \in OnceThreads, NEW o \in Onces, OnceSwitch(t, o)
    PROVE  OnceInv'
<1> DEFINE At(at) == [once |-> o, at |-> at]
<1>0. \A at : At(at).once = o /\ At(at).at = at
  OBVIOUS
<1>1. \A at \in {"running", "waiting", "returned"} :
          At(at) \in [once : Onces \cup {"none"},
                      at : {"none", "running", "ran", "waiting", "returned"}]
  OBVIOUS
<1>2. CASE onceState[o] = "DONE_INIT"
  <2>1. onceCall' = [onceCall EXCEPT ![t] = At("returned")] /\ UNCHANGED <<onceState, initRuns, initDone>>
    BY <1>2 DEF OnceSwitch, OnceAt
  <2> HIDE DEF At
  <2> QED
    BY <1>0, <1>1, <1>2, <2>1 DEF OnceInv, OnceTypeOK, OncePublished, OnceExactlyOnce
<1>3. CASE onceState[o] = "NEEDS_INIT"
  <2>1. /\ onceCall' = [onceCall EXCEPT ![t] = At("running")]
        /\ onceState' = [onceState EXCEPT ![o] = "IN_PROGRESS"]
        /\ initRuns' = [initRuns EXCEPT ![o] = @ + 1]
        /\ initDone' = initDone
    BY <1>3 DEF OnceSwitch, OnceAt
  <2> HIDE DEF At
  <2> QED
    BY <1>0, <1>1, <1>3, <2>1 DEF OnceInv, OnceTypeOK, OncePublished, OnceExactlyOnce
<1>4. CASE onceState[o] \in {"IN_PROGRESS", "WAIT"}
  <2>1. /\ onceCall' = [onceCall EXCEPT ![t] = At("waiting")]
        /\ onceState' = [onceState EXCEPT ![o] = "WAIT"]
        /\ UNCHANGED <<initRuns, initDone>>
    BY <1>4 DEF OnceSwitch, OnceAt
  <2> HIDE DEF At
  <2> QED
    BY <1>0, <1>1, <1>4, <2>1 DEF OnceInv, OnceTypeOK, OncePublished, OnceExactlyOnce
<1> QED
  BY <1>2, <1>3, <1>4 DEF OnceInv, OnceTypeOK

\* Every step keeps the inductive invariant.
LEMMA OnceNextInv == OnceInv /\ [OnceNext]_onceVars => OnceInv'
<1> SUFFICES ASSUME OnceInv, [OnceNext]_onceVars PROVE OnceInv'
  OBVIOUS
<1>1. ASSUME NEW t \in OnceThreads, NEW o \in Onces, OnceEnter(t, o) PROVE OnceInv'
  BY <1>1, OnceSwitchKeeps DEF OnceEnter
<1>2. ASSUME NEW t \in OnceThreads, OnceRoutineEnds(t) PROVE OnceInv'
  BY <1>2 DEF OnceRoutineEnds, OnceAt, OnceInv, OnceTypeOK, OncePublished, OnceExactlyOnce
<1>3. ASSUME NEW t \in OnceThreads, OnceFinish(t) PROVE OnceInv'
  BY <1>3 DEF OnceFinish, OnceAt, OnceInv, OnceTypeOK, OncePublished, OnceExactlyOnce
<1>4. ASSUME NEW t \in OnceThreads, OncePoll(t) PROVE OnceInv'
  <2>1. onceCall[t].once \in Onces
    BY <1>4 DEF OncePoll, OnceInv, OncePublished
  <2> QED
    BY <1>4, <2>1, OnceSwitchKeeps DEF OncePoll
<1>5. ASSUME NEW t \in OnceThreads, OnceGoOn(t) PROVE OnceInv'
  BY <1>5 DEF OnceGoOn, NoOnceCall, OnceInv, OnceTypeOK, OncePublished, OnceExactlyOnce
<1>6. CASE UNCHANGED onceVars
  BY <1>6 DEF onceVars, OnceInv, OnceTypeOK, OncePublished, OnceExactlyOnce
<1> QED
  BY <1>1, <1>2, <1>3, <1>4, <1>5, <1>6 DEF OnceNext

\* For any number of threads and once objects: a routine is started at most
\* once, and nobody returns from pthread_once before it has ended.
THEOREM OnceExactlyOnceHolds == OnceSpec => []OnceExactlyOnce
<1>1. OnceInv => OnceExactlyOnce
  BY DEF OnceInv
<1> QED
  BY <1>1, OnceInitInv, OnceNextInv, PTL DEF OnceSpec

-----------------------------------------------------------------------------
(***************************************************************************)
(* The condition variable and its mutex.                                   *)
(***************************************************************************)

CondFrame ==
    [timed : BOOLEAN, sequence : Nat, thread_sequence : Nat, recurse : Nat,
     result : {"OK", "ETIMEDOUT"}]

CondTypeOK ==
    /\ owner \in CondThreads \cup {NoThread}
    /\ count \in Nat
    /\ sequence \in Nat
    /\ waiters \in Seq(CondThreads)
    /\ condSequence \in [CondThreads -> Nat]
    /\ condPc \in [CondThreads -> {"idle", "locking", "waiting", "relocking"}]
    /\ frame \in [CondThreads -> CondFrame]
    /\ depth \in [CondThreads -> Nat]
    /\ woken \in [CondThreads -> BOOLEAN]

\* Only a recursive mutex is held more than once, also across a wait; a thread
\* in a wait does not own the mutex and remembers how deep it had it.
CondDepthKept ==
    /\ mutexType # 2 => count <= 1
    /\ \A t \in CondThreads :
          condPc[t] \in {"waiting", "relocking"} =>
              /\ owner # t
              /\ frame[t].recurse = depth[t]
              /\ frame[t].recurse > 0
              /\ mutexType # 2 => frame[t].recurse = 1

CondQueueDistinct ==
    \A i, j \in 1 .. Len(waiters) : waiters[i] = waiters[j] => i = j

\* The threads in the queue are the sleeping ones that nobody has woken, the
\* woken ones are ready and the others are not, and a result tells which.
CondQueueExact ==
    \A t \in CondThreads :
        /\ t \in Range(waiters) <=> condPc[t] = "waiting" /\ ~woken[t]
        /\ condPc[t] = "waiting" =>
               /\ frame[t].sequence <= sequence
               /\ frame[t].thread_sequence <= condSequence[t]
               /\ woken[t] <=> CondReady(t)
        /\ condPc[t] = "relocking" => (frame[t].result = "OK" <=> woken[t])

\* The inductive invariant.
CondInv ==
    /\ CondTypeOK
    /\ CondDepthKept
    /\ CondMutexDepth
    /\ CondQueueDistinct
    /\ CondQueueExact

-----------------------------------------------------------------------------
\* std::find and erase on a queue without duplicates: the thread is gone, the
\* others are still queued once each.
LEMMA RemoveFirstFacts ==
    ASSUME NEW T, NEW s \in Seq(T), NEW e,
           \A i, j \in 1 .. Len(s) : s[i] = s[j] => i = j
    PROVE  LET r == RemoveFirst(s, e)
           IN  /\ r \in Seq(T)
               /\ \A i, j \in 1 .. Len(r) : r[i] = r[j] => i = j
               /\ Range(r) = Range(s) \ {e}
<1> DEFINE r == RemoveFirst(s, e)
           n == Len(s)
<1>0. n \in Nat /\ DOMAIN s = 1 .. n /\ \A i \in 1 .. n : s[i] \in T
  OBVIOUS
<1>1. CASE \A i \in 1 .. n : s[i] # e
  <2>1. r = s
    BY <1>1 DEF RemoveFirst
  <2>2. Range(s) = Range(s) \ {e}
    BY <1>0, <1>1 DEF Range
  <2> QED
    BY <2>1, <2>2
<1>2. CASE \E i \in 1 .. n : s[i] = e
  <2>1. PICK k \in 1 .. n : s[k] = e
    BY <1>2
  <2>2. {i \in 1 .. n : s[i] = e} = {k}
    BY <2>1
  <2>3. SelectInSeq(s, LAMBDA v : v = e) = k
    <3>1. Min({k}) = k
      BY <1>0 DEF Min
    <3>2. {i \in 1 .. Len(s) : s[i] = e} = {k}
      BY <2>2
    <3> QED
      BY <3>1, <3>2 DEF SelectInSeq
  <2>4. r = SubSeq(s, 1, k - 1) \o SubSeq(s, k + 1, n)
    BY <1>2, <2>3 DEF RemoveFirst, RemoveAt
  <2> DEFINE p == SubSeq(s, 1, k - 1)
             q == SubSeq(s, k + 1, n)
  <2>5. /\ p \in Seq(T) /\ Len(p) = k - 1
        /\ \A i \in 1 .. k - 1 : p[i] = s[i]
    <3>1. 1 .. k - 1 \subseteq 1 .. n /\ k - 1 \in Int
      BY <1>0
    <3>2. \A i \in 1 .. k - 1 : 1 + i - 1 = i
      BY <1>0
    <3> QED
      BY <1>0, <3>1, <3>2
  <2>5a. /\ q \in Seq(T) /\ Len(q) = n - k
         /\ \A i \in 1 .. n - k : q[i] = s[k + i]
    <3>1. k + 1 \in Int /\ n \in Int /\ \A i \in k + 1 .. n : s[i] \in T
      BY <1>0
    <3>2. /\ q \in Seq(T)
          /\ Len(q) = IF k + 1 <= n THEN n - (k + 1) + 1 ELSE 0
          /\ \A i \in 1 .. n - (k + 1) + 1 : q[i] = s[(k + 1) + i - 1]
      BY <3>1, SubSeqProperties
    <3> HIDE DEF q
    <3>3. n - (k + 1) + 1 = n - k /\ \A i \in 1 .. n - k : (k + 1) + i - 1 = k + i
      BY <1>0
    <3>4. Len(q) = n - k
      <4>1. k \in Int /\ n \in Int /\ k <= n
        BY <1>0
      <4>2. (IF k + 1 <= n THEN n - (k + 1) + 1 ELSE 0) = n - k
        BY <4>1
      <4> QED
        BY <3>2, <4>2
    <3> QED
      BY <3>2, <3>3, <3>4
  <2> HIDE DEF p, q
  <2>5b. r = p \o q
    BY <2>4 DEF p, q
  <2> HIDE DEF r
  <2>6. r \in Seq(T) /\ Len(r) = n - 1
    <3>1. r \in Seq(T) /\ Len(r) = Len(p) + Len(q)
      BY <2>5, <2>5a, <2>5b, ConcatProperties
    <3> QED
      BY <1>0, <2>5, <2>5a, <3>1
  <2>7. \A i \in 1 .. n - 1 : r[i] = s[IF i < k THEN i ELSE i + 1]
    BY <1>0, <2>5, <2>5a, <2>5b
  <2>8. \A i, j \in 1 .. Len(r) : r[i] = r[j] => i = j
    BY <1>0, <2>6, <2>7
  <2>9. DOMAIN r = 1 .. n - 1
    BY <1>0, <2>6
  <2>10. Range(r) \subseteq Range(s) \ {e}
    <3> SUFFICES ASSUME NEW i \in 1 .. n - 1 PROVE r[i] \in Range(s) \ {e}
      BY <2>9 DEF Range
    <3>1. (IF i < k THEN i ELSE i + 1) \in 1 .. n /\ (IF i < k THEN i ELSE i + 1) # k
      BY <1>0
    <3> QED
      BY <1>0, <2>1, <2>7, <3>1 DEF Range
  <2>11. Range(s) \ {e} \subseteq Range(r)
    <3> SUFFICES ASSUME NEW i \in 1 .. n, s[i] # e PROVE s[i] \in Range(r)
      BY <1>0 DEF Range
    <3>1. CASE i < k
      <4>1. i \in 1 .. n - 1 /\ r[i] = s[i]
        BY <1>0, <2>7, <3>1
      <4> QED
        BY <2>9, <4>1 DEF Range
    <3>2. CASE i > k
      <4>1. i - 1 \in 1 .. n - 1 /\ r[i - 1] = s[i]
        BY <1>0, <2>7, <3>2
      <4> QED
        BY <2>9, <4>1 DEF Range
    <3> QED
      BY <1>0, <2>1, <3>1, <3>2
  <2> QED
    BY <2>6, <2>8, <2>10, <2>11 DEF r
<1> QED
  BY <1>1, <1>2

\* The queue invariant is what CondWakeExact says, with entries counted.
LEMMA CondQueueImpliesExact == CondInv => CondWakeExact
<1> SUFFICES ASSUME CondInv, NEW t \in CondThreads
             PROVE  LET entries == {i \in DOMAIN waiters : waiters[i] = t} IN
                    /\ condPc[t] = "waiting" =>
                           \/ ~woken[t] /\ ~CondReady(t) /\ \E i \in DOMAIN waiters : entries = {i}
                           \/ woken[t] /\ CondReady(t) /\ entries = {}
                    /\ condPc[t] # "waiting" => entries = {}
                    /\ condPc[t] = "relocking" => (frame[t].result = "OK") = woken[t]
  BY DEF CondWakeExact
<1> DEFINE entries == {i \in DOMAIN waiters : waiters[i] = t}
<1>1. DOMAIN waiters = 1 .. Len(waiters)
  BY DEF CondInv, CondTypeOK
<1>2. t \in Range(waiters) => \E i \in DOMAIN waiters : entries = {i}
  BY <1>1 DEF Range, CondInv, CondQueueDistinct
<1>3. t \notin Range(waiters) => entries = {}
  BY DEF Range
<1>4. woken[t] \in BOOLEAN
  BY DEF CondInv, CondTypeOK
<1> HIDE DEF entries
<1>5. condPc[t] = "waiting" =>
           \/ ~woken[t] /\ ~CondReady(t) /\ \E i \in DOMAIN waiters : entries = {i}
           \/ woken[t] /\ CondReady(t) /\ entries = {}
  BY <1>2, <1>3 DEF CondInv, CondQueueExact
<1>6. condPc[t] # "waiting" => entries = {}
  BY <1>3 DEF CondInv, CondQueueExact
<1>7. condPc[t] = "relocking" => (frame[t].result = "OK") = woken[t]
  BY <1>4 DEF CondInv, CondQueueExact
<1> QED
  BY <1>5, <1>6, <1>7 DEF entries

-----------------------------------------------------------------------------
\* At first no thread waits and none holds the mutex.
LEMMA CondInitInv == CondInit => CondInv
<1> SUFFICES ASSUME CondInit PROVE CondInv
  OBVIOUS
<1>1. NoFrame \in CondFrame
  BY DEF NoFrame, CondFrame
<1>2. CondTypeOK
  BY <1>1 DEF CondInit, CondTypeOK
<1>3. Range(waiters) = {} /\ Len(waiters) = 0
  BY DEF CondInit, Range
<1> QED
  BY <1>2, <1>3, CondAssumption
     DEF CondInit, CondInv, CondDepthKept, CondMutexDepth, CondQueueDistinct,
         CondQueueExact

\* The queue after CondRemoveWaiter or CondWakeWaiter.
LEMMA CondRemoveFacts ==
    ASSUME CondInv, NEW t, waiters' = RemoveFirst(waiters, t)
    PROVE  /\ waiters' \in Seq(CondThreads)
           /\ CondQueueDistinct'
           /\ Range(waiters') = Range(waiters) \ {t}
BY RemoveFirstFacts DEF CondInv, CondTypeOK, CondQueueDistinct

\* The queue after CondWaitEnter.
LEMMA CondAppendFacts ==
    ASSUME CondInv, NEW t \in CondThreads, t \notin Range(waiters),
           waiters' = Append(waiters, t)
    PROVE  /\ waiters' \in Seq(CondThreads)
           /\ CondQueueDistinct'
           /\ Range(waiters') = Range(waiters) \cup {t}
<1>1. waiters \in Seq(CondThreads) /\ Len(waiters) \in Nat /\ DOMAIN waiters = 1 .. Len(waiters)
  BY DEF CondInv, CondTypeOK
<1>2. /\ waiters' \in Seq(CondThreads) /\ Len(waiters') = Len(waiters) + 1
      /\ \A i \in 1 .. Len(waiters) : waiters'[i] = waiters[i]
      /\ waiters'[Len(waiters) + 1] = t
      /\ DOMAIN waiters' = 1 .. Len(waiters) + 1
  BY <1>1, AppendProperties
<1>3. \A i \in 1 .. Len(waiters) : waiters[i] # t
  BY <1>1 DEF Range
<1>4. CondQueueDistinct'
  BY <1>1, <1>2, <1>3 DEF CondInv, CondQueueDistinct
<1>5. Range(waiters') = Range(waiters) \cup {t}
  <2>1. \A i \in 1 .. Len(waiters) + 1 : waiters'[i] \in Range(waiters) \cup {t}
    BY <1>1, <1>2 DEF Range
  <2>2. \A i \in 1 .. Len(waiters) : waiters[i] \in Range(waiters')
    BY <1>1, <1>2 DEF Range
  <2>3. t \in Range(waiters')
    BY <1>1, <1>2 DEF Range
  <2> QED
    BY <1>1, <1>2, <2>1, <2>2, <2>3 DEF Range
<1> QED
  BY <1>2, <1>4, <1>5

-----------------------------------------------------------------------------
\* A step that leaves the queue, the sequences and the waits alone.
LEMMA CondQueueKept ==
    ASSUME CondInv, UNCHANGED <<queueVars, woken>>,
           \A t \in CondThreads :
              \/ condPc'[t] = condPc[t] /\ frame'[t] = frame[t]
              \/ condPc[t] \in {"idle", "locking"} /\ condPc'[t] \in {"idle", "locking"}
    PROVE  CondQueueDistinct' /\ CondQueueExact'
BY DEF CondInv, queueVars, CondQueueDistinct, CondQueueExact, CondReady

\* NativeMutexLock, NativeMutexTrylock and NativeMutexUnlock.
LEMMA MutexStepsKeep ==
    ASSUME CondInv, NEW t \in CondThreads,
           \/ MutexTake(t)
           \/ \E timed \in BOOLEAN : MutexBlock(t, timed)
           \/ MutexPoll(t)
           \/ MutexUnlock(t)
    PROVE  CondInv'
<1> USE CondAssumption DEF CondInv
<1>1. CASE MutexTake(t)
  <2>1. CondTypeOK'
    BY <1>1 DEF MutexTake, CondCall, Acquired, queueVars, CondTypeOK
  <2>2. CondDepthKept' /\ CondMutexDepth'
    BY <1>1 DEF MutexTake, CondCall, Acquired, CondTypeOK, CondDepthKept, CondMutexDepth
  <2> QED
    BY <1>1, <2>1, <2>2, CondQueueKept DEF MutexTake
<1>2. ASSUME NEW timed \in BOOLEAN, MutexBlock(t, timed) PROVE CondInv'
  <2>0. frame' = [frame EXCEPT ![t] = [frame[t] EXCEPT !.timed = timed]]
    BY <1>2 DEF MutexBlock
  <2>1. [frame[t] EXCEPT !.timed = timed] \in CondFrame
    <3>1. frame[t] \in CondFrame
      BY DEF CondTypeOK
    <3> QED
      BY <3>1 DEF CondFrame
  <2>2. CondTypeOK'
    BY <1>2, <2>0, <2>1 DEF MutexBlock, CondCall, CondGoto, mutexVars, queueVars, CondTypeOK
  <2>3. CondDepthKept' /\ CondMutexDepth'
    BY <1>2 DEF MutexBlock, CondCall, CondGoto, mutexVars, CondTypeOK, CondDepthKept, CondMutexDepth
  <2>4. \A u \in CondThreads :
              \/ condPc'[u] = condPc[u] /\ frame'[u] = frame[u]
              \/ condPc[u] \in {"idle", "locking"} /\ condPc'[u] \in {"idle", "locking"}
    BY <1>2, <2>0 DEF MutexBlock, CondCall, CondGoto, CondTypeOK
  <2> QED
    BY <1>2, <2>2, <2>3, <2>4, CondQueueKept DEF MutexBlock
<1>3. CASE MutexPoll(t)
  <2>1. NoFrame \in CondFrame
    BY DEF NoFrame, CondFrame
  <2>2. CondTypeOK'
    BY <1>3, <2>1 DEF MutexPoll, CondGoto, Acquired, mutexVars, queueVars, CondTypeOK
  <2>3. CondDepthKept' /\ CondMutexDepth'
    BY <1>3 DEF MutexPoll, CondGoto, Acquired, mutexVars, CondTypeOK, CondDepthKept, CondMutexDepth
  <2>4. \A u \in CondThreads :
              \/ condPc'[u] = condPc[u] /\ frame'[u] = frame[u]
              \/ condPc[u] \in {"idle", "locking"} /\ condPc'[u] \in {"idle", "locking"}
    BY <1>3 DEF MutexPoll, CondGoto, CondTypeOK
  <2> QED
    BY <1>3, <2>2, <2>3, <2>4, CondQueueKept DEF MutexPoll
<1>4. CASE MutexUnlock(t)
  <2>0. depth[t] = count /\ count > 0
    BY <1>4 DEF MutexUnlock, CondMutexDepth
  <2>1. CondTypeOK'
    BY <1>4, <2>0 DEF MutexUnlock, queueVars, CondTypeOK
  <2>2. CondDepthKept' /\ CondMutexDepth'
    BY <1>4, <2>0 DEF MutexUnlock, CondTypeOK, CondDepthKept, CondMutexDepth
  <2> QED
    BY <1>4, <2>1, <2>2, CondQueueKept DEF MutexUnlock
<1> QED
  BY <1>1, <1>2, <1>3, <1>4

\* A wait from the queue to the mutex taken back.
LEMMA CondWaitStepsKeep ==
    ASSUME CondInv, NEW t \in CondThreads,
           \/ \E timeout \in {"none", "some", "zero"} : CondWaitEnter(t, timeout)
           \/ CondWaitPoll(t)
           \/ CondRelock(t)
    PROVE  CondInv'
<1> USE CondAssumption DEF CondInv
<1>1. ASSUME NEW timeout \in {"none", "some", "zero"}, CondWaitEnter(t, timeout) PROVE CondInv'
  <2> DEFINE new == [timed |-> timeout = "some", sequence |-> sequence,
                     thread_sequence |-> condSequence[t], recurse |-> count,
                     result |-> IF timeout = "zero" THEN "ETIMEDOUT" ELSE "OK"]
  <2>1. new \in CondFrame
    BY DEF CondTypeOK, CondFrame
  <2>2. /\ new.sequence = sequence /\ new.thread_sequence = condSequence[t]
        /\ new.recurse = count /\ (timeout = "zero" => new.result = "ETIMEDOUT")
    OBVIOUS
  <2>3. frame' = [frame EXCEPT ![t] = new]
    BY <1>1 DEF CondWaitEnter
  <2> HIDE DEF new
  <2>4. /\ condPc' = [condPc EXCEPT ![t] = IF timeout = "zero" THEN "relocking" ELSE "waiting"]
        /\ woken' = [woken EXCEPT ![t] = FALSE]
        /\ owner' = NoThread /\ count' = 0 /\ owner = t /\ condPc[t] = "idle"
        /\ waiters' = IF timeout = "zero" THEN waiters ELSE Append(waiters, t)
        /\ UNCHANGED <<mutexType, sequence, condSequence, depth>>
    BY <1>1 DEF CondWaitEnter, CondCall, CondGoto
  <2>5. t \notin Range(waiters)
    BY <2>4 DEF CondQueueExact
  <2>6. /\ waiters' \in Seq(CondThreads) /\ CondQueueDistinct'
        /\ Range(waiters') = IF timeout = "zero" THEN Range(waiters) ELSE Range(waiters) \cup {t}
    BY <2>4, <2>5, CondAppendFacts DEF CondTypeOK, CondQueueDistinct
  <2>7. CondTypeOK'
    BY <2>1, <2>3, <2>4, <2>6 DEF CondTypeOK
  <2>8. CondDepthKept' /\ CondMutexDepth'
    BY <2>2, <2>3, <2>4 DEF CondTypeOK, CondDepthKept, CondMutexDepth
  <2>9. CondQueueExact'
    BY <2>2, <2>3, <2>4, <2>6 DEF CondQueueExact, CondReady, CondTypeOK
  <2> QED
    BY <2>6, <2>7, <2>8, <2>9
<1>2. CASE CondWaitPoll(t)
  <2> DEFINE new == [frame[t] EXCEPT !.result = IF CondReady(t) THEN "OK" ELSE "ETIMEDOUT"]
  <2>1. new \in CondFrame /\ new.recurse = frame[t].recurse
    <3>1. frame[t] \in CondFrame
      BY DEF CondTypeOK
    <3>2. (IF CondReady(t) THEN "OK" ELSE "ETIMEDOUT") \in {"OK", "ETIMEDOUT"}
      OBVIOUS
    <3> QED
      BY <3>1, <3>2 DEF CondFrame
  <2>2. new.result = IF CondReady(t) THEN "OK" ELSE "ETIMEDOUT"
    BY DEF CondTypeOK, CondFrame
  <2>3. frame' = [frame EXCEPT ![t] = new]
    BY <1>2 DEF CondWaitPoll
  <2> HIDE DEF new
  <2>4. /\ condPc' = [condPc EXCEPT ![t] = "relocking"]
        /\ waiters' = RemoveFirst(waiters, t) /\ condPc[t] = "waiting"
        /\ UNCHANGED <<mutexVars, sequence, condSequence, depth, woken>>
    BY <1>2 DEF CondWaitPoll, CondGoto, CondRemoveWaiter
  <2>5. waiters' \in Seq(CondThreads) /\ CondQueueDistinct' /\ Range(waiters') = Range(waiters) \ {t}
    BY <2>4, CondRemoveFacts
  <2>6. CondTypeOK'
    BY <2>1, <2>3, <2>4, <2>5 DEF CondTypeOK, mutexVars
  <2>7. CondDepthKept' /\ CondMutexDepth'
    BY <2>1, <2>3, <2>4 DEF CondTypeOK, CondDepthKept, CondMutexDepth, mutexVars
  <2>8. CondQueueExact'
    BY <2>2, <2>3, <2>4, <2>5 DEF CondQueueExact, CondReady, CondTypeOK
  <2> QED
    BY <2>5, <2>6, <2>7, <2>8
<1>3. CASE CondRelock(t)
  <2>1. NoFrame \in CondFrame
    BY DEF NoFrame, CondFrame
  <2>2. RelockCount(t) = frame[t].recurse /\ frame[t].recurse \in Nat
    BY <1>3 DEF CondRelock, RelockCount, CondDepthKept, CondTypeOK, CondFrame
  <2>3. /\ condPc' = [condPc EXCEPT ![t] = "idle"]
        /\ frame' = [frame EXCEPT ![t] = NoFrame]
        /\ woken' = [woken EXCEPT ![t] = FALSE]
        /\ owner = NoThread /\ owner' = t /\ count' = frame[t].recurse /\ condPc[t] = "relocking"
        /\ UNCHANGED <<mutexType, queueVars, depth>>
    BY <1>3, <2>2 DEF CondRelock, CondGoto
  <2>4. CondTypeOK'
    BY <2>1, <2>2, <2>3 DEF CondTypeOK, queueVars
  <2>5. CondDepthKept' /\ CondMutexDepth'
    BY <2>2, <2>3 DEF CondTypeOK, CondDepthKept, CondMutexDepth
  <2>6. CondQueueDistinct' /\ CondQueueExact'
    BY <2>3 DEF queueVars, CondQueueDistinct, CondQueueExact, CondReady, CondTypeOK
  <2> QED
    BY <2>4, <2>5, <2>6
<1> QED
  BY <1>1, <1>2, <1>3

\* PthreadCondSignal, PthreadCondSignalto and PthreadCondBroadcast.
LEMMA CondWakeStepsKeep ==
    ASSUME CondInv, NEW t \in CondThreads,
           \/ \E u \in CondThreads : CondSignal(t, u)
           \/ PthreadCondBroadcast(t)
    PROVE  CondInv'
<1> USE DEF CondInv
<1>1. ASSUME NEW u \in CondThreads, CondSignal(t, u) PROVE CondInv'
  <2>1. /\ waiters' = RemoveFirst(waiters, u) /\ u \in Range(waiters)
        /\ condSequence' = [condSequence EXCEPT ![u] = @ + 1]
        /\ woken' = [woken EXCEPT ![u] = TRUE]
        /\ UNCHANGED <<mutexVars, sequence, condPc, frame, depth>>
    BY <1>1 DEF CondSignal, CondWakeWaiter
  <2>2. waiters' \in Seq(CondThreads) /\ CondQueueDistinct' /\ Range(waiters') = Range(waiters) \ {u}
    BY <2>1, CondRemoveFacts
  <2>3. CondTypeOK'
    BY <2>1, <2>2 DEF CondTypeOK, mutexVars
  <2>4. CondDepthKept' /\ CondMutexDepth'
    BY <2>1 DEF CondDepthKept, CondMutexDepth, mutexVars
  <2>5. CondQueueExact'
    <3>1. frame[u].thread_sequence \in Nat
      BY DEF CondTypeOK, CondFrame
    <3> QED
      BY <2>1, <2>2, <3>1 DEF CondQueueExact, CondReady, CondTypeOK
  <2> QED
    BY <2>2, <2>3, <2>4, <2>5
<1>2. CASE PthreadCondBroadcast(t)
  <2>1. /\ sequence' = sequence + 1 /\ waiters' = <<>>
        /\ woken' = [u \in CondThreads |-> woken[u] \/ u \in Range(waiters)]
        /\ UNCHANGED <<mutexVars, condSequence, condPc, frame, depth>>
    BY <1>2 DEF PthreadCondBroadcast
  <2>2. Range(waiters') = {} /\ CondQueueDistinct' /\ waiters' \in Seq(CondThreads)
    BY <2>1 DEF Range, CondQueueDistinct
  <2>3. CondTypeOK'
    BY <2>1, <2>2 DEF CondTypeOK, mutexVars
  <2>4. CondDepthKept' /\ CondMutexDepth'
    BY <2>1 DEF CondDepthKept, CondMutexDepth, mutexVars
  <2>5. CondQueueExact'
    <3> SUFFICES ASSUME NEW u \in CondThreads
                 PROVE  /\ condPc[u] = "waiting" =>
                               /\ woken'[u]
                               /\ frame[u].sequence <= sequence + 1
                               /\ frame[u].sequence # sequence + 1
                        /\ condPc[u] # "waiting" => woken'[u] = woken[u]
      BY <2>1, <2>2 DEF CondQueueExact, CondReady
    <3>1. frame[u].sequence \in Nat /\ sequence \in Nat
      BY DEF CondTypeOK, CondFrame
    <3>2. woken[u] \in BOOLEAN
      BY DEF CondTypeOK
    <3>3. condPc[u] = "waiting" => frame[u].sequence <= sequence
      BY DEF CondQueueExact
    <3>4. u \in Range(waiters) <=> condPc[u] = "waiting" /\ ~woken[u]
      BY DEF CondQueueExact
    <3>5. woken'[u] = (woken[u] \/ u \in Range(waiters))
      BY <2>1
    <3>6. condPc[u] = "waiting" => woken'[u]
      BY <3>4, <3>5
    <3>7. condPc[u] # "waiting" => woken'[u] = woken[u]
      BY <3>2, <3>4, <3>5
    <3>8. condPc[u] = "waiting" =>
              frame[u].sequence <= sequence + 1 /\ frame[u].sequence # sequence + 1
      BY <3>1, <3>3
    <3> QED
      BY <3>6, <3>7, <3>8
  <2> QED
    BY <2>2, <2>3, <2>4, <2>5
<1> QED
  BY <1>1, <1>2

\* Every step keeps the inductive invariant.
LEMMA CondNextInv == CondInv /\ [CondNext]_condVars => CondInv'
<1> SUFFICES ASSUME CondInv, [CondNext]_condVars PROVE CondInv'
  OBVIOUS
<1>1. ASSUME NEW t \in CondThreads, CondStep(t) PROVE CondInv'
  <2>1. PthreadCondSignal(t) => \E u \in CondThreads : CondSignal(t, u)
    BY HeadTailProperties DEF PthreadCondSignal, CondInv, CondTypeOK
  <2> QED
    BY <1>1, <2>1, MutexStepsKeep, CondWaitStepsKeep, CondWakeStepsKeep
       DEF CondStep, PthreadCondSignalto
<1>2. CASE UNCHANGED condVars
  BY <1>2 DEF condVars, mutexVars, queueVars, CondInv, CondTypeOK, CondDepthKept, CondMutexDepth,
     CondQueueDistinct, CondQueueExact, CondReady
<1> QED
  BY <1>1, <1>2 DEF CondNext

\* The inductive invariant of the condition variable holds in every behaviour.
LEMMA CondInvariant == CondSpec => []CondInv
BY CondInitInv, CondNextInv, PTL DEF CondSpec

\* For any number of threads and calls and any nesting of the mutex: a wait
\* gives the mutex up whole and takes it back as deep as it was.
THEOREM CondMutexDepthHolds == CondSpec => []CondMutexDepth
<1>1. CondInv => CondMutexDepth
  BY DEF CondInv
<1> QED
  BY <1>1, CondInvariant, PTL

\* For any number of threads and calls: no wake of PthreadCondSignal,
\* PthreadCondSignalto or PthreadCondBroadcast is lost or invented, and a
\* wait's result says whether it was woken.
THEOREM CondWakeExactHolds == CondSpec => []CondWakeExact
BY CondQueueImpliesExact, CondInvariant, PTL

-----------------------------------------------------------------------------
(***************************************************************************)
(* The POSIX semaphore, for every largest value.                           *)
(***************************************************************************)

SemPlaces == {"idle", "asleep", "awake"}
SemInside == SemAsleep \cup SemAwake

\* m_waiters counts the threads inside the loop of Wait.
SemWaiterCount == semWaiters = Cardinality(SemInside)

\* Only a thread inside Wait has a deadline.
SemClockInside == \A t \in SemThreads : semClock[t] # "none" => t \in SemInside

\* The inductive invariant.
SemInv ==
    /\ PosixSemTypeOK
    /\ SemWaiterCount
    /\ SemClockInside
    /\ GuestMirror
    /\ NoLostPost

\* Sets of threads are finite.
LEMMA SemThreadSets ==
    ASSUME NEW S \in SUBSET SemThreads
    PROVE  IsFiniteSet(S) /\ Cardinality(S) \in Nat /\ (Cardinality(S) = 0 <=> S = {})
BY PosixSemAssumption, FS_Subset, FS_CardinalityType, FS_EmptySet

\* One thread more or less.
LEMMA SemOneThread ==
    ASSUME NEW S \in SUBSET SemThreads, NEW t \in SemThreads
    PROVE  /\ t \notin S => Cardinality(S \cup {t}) = Cardinality(S) + 1
           /\ t \in S => Cardinality(S \ {t}) = Cardinality(S) - 1
BY SemThreadSets, FS_AddElement, FS_RemoveElement

\* What moving one thread does to the two sets of waiting threads.
LEMMA SemMoveAsleep ==
    ASSUME semPc \in [SemThreads -> SemPlaces], NEW t \in SemThreads, semPc' = [semPc EXCEPT ![t] = "asleep"]
    PROVE  SemAwake' = SemAwake \ {t} /\ SemInside' = SemInside \cup {t}
BY DEF SemAsleep, SemAwake, SemInside, SemPlaces

\* A thread that was woken is inside and not asleep.
LEMMA SemMoveAwake ==
    ASSUME semPc \in [SemThreads -> SemPlaces], NEW t \in SemThreads, semPc' = [semPc EXCEPT ![t] = "awake"]
    PROVE  SemAsleep' = SemAsleep \ {t} /\ SemAwake' = SemAwake \cup {t} /\ SemInside' = SemInside \cup {t}
BY DEF SemAsleep, SemAwake, SemInside, SemPlaces

\* A thread that returns is in none of the sets.
LEMMA SemMoveIdle ==
    ASSUME semPc \in [SemThreads -> SemPlaces], NEW t \in SemThreads, semPc' = [semPc EXCEPT ![t] = "idle"]
    PROVE  SemAsleep' = SemAsleep \ {t} /\ SemAwake' = SemAwake \ {t} /\ SemInside' = SemInside \ {t}
BY DEF SemAsleep, SemAwake, SemInside, SemPlaces

\* SyncGuest after SemWaiterCount' makes the mirror right.
LEMMA SyncGuestFacts ==
    ASSUME SyncGuest, SemWaiterCount', semCount' \in 0 .. ValueMax, SemInside' \subseteq SemThreads
    PROVE  GuestMirror' /\ semGuest' \in [has_waiters : BOOLEAN, count : Nat]
<1>1. semWaiters' \in Nat /\ (semWaiters' = 0 <=> SemInside' = {})
  BY SemThreadSets DEF SemWaiterCount
<1>2. semGuest' = [has_waiters |-> semWaiters' > 0, count |-> semCount']
  BY DEF SyncGuest
<1>3. semGuest'.count = semCount' /\ (semGuest'.has_waiters <=> semWaiters' > 0)
  BY <1>2
<1>4. semWaiters' > 0 <=> SemInside' # {}
  BY <1>1
<1>5. GuestMirror'
  BY <1>3, <1>4 DEF GuestMirror, SemInside
<1>6. (semWaiters' > 0) \in BOOLEAN /\ semCount' \in Nat
  BY PosixSemAssumption
<1>7. QED
  BY <1>2, <1>5, <1>6

\* Nobody waits: the invariant about sleepers says nothing.
LEMMA SemNobodyInside ==
    ASSUME SemInside = {}
    PROVE  SemAsleep = {} /\ SemAwake = {} /\ Cardinality(SemInside) = 0
BY FS_EmptySet DEF SemInside

\* Every step keeps the invariant.
LEMMA SemNextInv ==
    ASSUME SemInv, [PosixSemNext]_semVars
    PROVE  SemInv'
<1> USE DEF SemInv
<1>0. /\ semPc \in [SemThreads -> SemPlaces] /\ semCount \in 0 .. ValueMax /\ ValueMax \in Nat
      /\ semCount \in Int /\ semWaiters \in Nat
      /\ SemAsleep \subseteq SemThreads /\ SemAwake \subseteq SemThreads /\ SemInside \subseteq SemThreads
      /\ Cardinality(SemAwake) \in Nat
  BY PosixSemAssumption, SemThreadSets DEF PosixSemTypeOK, SemPlaces, SemAsleep, SemAwake, SemInside
<1>1. CASE UNCHANGED semVars
  BY <1>1 DEF semVars, PosixSemTypeOK, SemWaiterCount, SemClockInside, GuestMirror, NoLostPost, SemInside, SemAsleep, SemAwake
<1>2. ASSUME NEW t \in SemThreads, NEW v \in InitValues, SemInit(t, v)
      PROVE  SemInv'
  <2>1. /\ semCount' = v /\ semWaiters' = 0 /\ SyncGuest /\ semLive' = TRUE
        /\ UNCHANGED <<semPc, semClock>> /\ SemInside = {}
    BY <1>2 DEF SemInit, SemInside
  <2>2. SemAsleep' = {} /\ SemAwake' = {} /\ SemInside' = {} /\ Cardinality(SemInside') = 0
    BY <2>1, SemNobodyInside DEF SemAsleep, SemAwake, SemInside
  <2>3. SemWaiterCount' /\ NoLostPost' /\ semCount' \in 0 .. ValueMax /\ SemClockInside'
    BY <2>1, <2>2, PosixSemAssumption DEF SemWaiterCount, NoLostPost, SemClockInside
  <2>4. GuestMirror' /\ semGuest' \in [has_waiters : BOOLEAN, count : Nat]
    BY <2>1, <2>2, <2>3, SyncGuestFacts
  <2>5. PosixSemTypeOK'
    BY <2>1, <2>3, <2>4 DEF PosixSemTypeOK
  <2>6. QED
    BY <2>3, <2>4, <2>5
<1>3. ASSUME NEW t \in SemThreads, SemDestroy(t)
      PROVE  SemInv'
  <2>1. /\ semLive' = FALSE /\ semGuest' = [has_waiters |-> FALSE, count |-> 0]
        /\ UNCHANGED <<semCount, semWaiters, semPc, semClock>>
    BY <1>3 DEF SemDestroy
  <2>2. SemAsleep' = SemAsleep /\ SemAwake' = SemAwake /\ SemInside' = SemInside
    BY <2>1 DEF SemAsleep, SemAwake, SemInside
  <2>3. SemWaiterCount' /\ NoLostPost' /\ GuestMirror' /\ SemClockInside'
    BY <2>1, <2>2 DEF SemWaiterCount, NoLostPost, GuestMirror, SemClockInside
  <2>4. semGuest' \in [has_waiters : BOOLEAN, count : Nat]
    BY <2>1
  <2>5. PosixSemTypeOK'
    BY <2>1, <2>4 DEF PosixSemTypeOK
  <2>6. QED
    BY <2>3, <2>5
<1>4. ASSUME NEW t \in SemThreads, SemTake(t) \/ SemRefuse(t)
      PROVE  SemInv'
  <2>1. /\ semCount' \in 0 .. ValueMax /\ semCount' <= semCount /\ SyncGuest
        /\ UNCHANGED <<semLive, semWaiters, semPc, semClock>>
    BY <1>0, <1>4 DEF SemTake, SemRefuse
  <2>2. SemAsleep' = SemAsleep /\ SemAwake' = SemAwake /\ SemInside' = SemInside
    BY <2>1 DEF SemAsleep, SemAwake, SemInside
  <2>3. SemWaiterCount' /\ NoLostPost' /\ SemClockInside'
    BY <1>0, <2>1, <2>2 DEF SemWaiterCount, NoLostPost, SemClockInside
  <2>4. GuestMirror' /\ semGuest' \in [has_waiters : BOOLEAN, count : Nat]
    BY <1>0, <2>1, <2>2, <2>3, SyncGuestFacts
  <2>5. PosixSemTypeOK'
    BY <2>1, <2>4 DEF PosixSemTypeOK
  <2>6. QED
    BY <2>3, <2>4, <2>5
<1>5. ASSUME NEW t \in SemThreads, NEW d \in {"none", "running"}, SemWait(t, d)
      PROVE  SemInv'
  <2>1. /\ semPc[t] = "idle" /\ semCount <= 0 /\ semWaiters' = semWaiters + 1 /\ SyncGuest
        /\ semPc' = [semPc EXCEPT ![t] = "asleep"]
        /\ semClock' = [semClock EXCEPT ![t] = d]
        /\ UNCHANGED <<semLive, semCount>>
    BY <1>5 DEF SemWait
  <2>2. /\ t \notin SemInside /\ SemInside' = SemInside \cup {t} /\ SemAwake' = SemAwake \ {t}
        /\ t \notin SemAwake
    BY <1>0, <2>1, SemMoveAsleep DEF SemInside, SemAsleep, SemAwake
  <2>3. SemWaiterCount' /\ SemClockInside'
    <3>1. SemWaiterCount'
      BY <1>0, <2>1, <2>2, SemOneThread DEF SemWaiterCount
    <3>2. SemClockInside'
      BY <2>1, <2>2 DEF SemClockInside, PosixSemTypeOK
    <3>3. QED
      BY <3>1, <3>2
  <2>4. NoLostPost'
    <3>1. SemAwake' = SemAwake
      BY <2>2
    <3>2. QED
      BY <1>0, <2>1, <3>1 DEF NoLostPost
  <2>5. GuestMirror' /\ semGuest' \in [has_waiters : BOOLEAN, count : Nat]
    BY <1>0, <2>1, <2>2, <2>3, SyncGuestFacts
  <2>6. PosixSemTypeOK'
    BY <1>0, <2>1, <2>5 DEF PosixSemTypeOK
  <2>7. QED
    BY <2>3, <2>4, <2>5, <2>6
<1>6. ASSUME NEW t \in SemThreads, SemPoll10ms(t) \/ SemExpire(t)
      PROVE  SemInv'
  <2>1. /\ semPc' = [semPc EXCEPT ![t] = "awake"]
        /\ semClock' \in [SemThreads -> {"none", "running", "expired"}]
        /\ \A u \in SemThreads : semClock'[u] # "none" => semClock[u] # "none"
        /\ UNCHANGED <<semLive, semCount, semWaiters, semGuest>>
    BY <1>6 DEF SemPoll10ms, SemExpire, PosixSemTypeOK
  <2>2. t \in SemInside
    BY <1>6 DEF SemPoll10ms, SemExpire, SemClockInside, SemInside, SemAsleep
  <2>3. SemAsleep' = SemAsleep \ {t} /\ SemAwake' = SemAwake \cup {t} /\ SemInside' = SemInside
    <3>1. SemAsleep' = SemAsleep \ {t} /\ SemAwake' = SemAwake \cup {t} /\ SemInside' = SemInside \cup {t}
      BY <1>0, <2>1, SemMoveAwake
    <3>2. QED
      BY <2>2, <3>1
  <2>4. SemWaiterCount' /\ SemClockInside' /\ GuestMirror'
    BY <2>1, <2>3 DEF SemWaiterCount, SemClockInside, GuestMirror, SemInside
  <2>5. NoLostPost'
    <3>1. Cardinality(SemAwake') \in Nat /\ Cardinality(SemAwake') >= Cardinality(SemAwake)
      <4>1. CASE t \in SemAwake
        <5>1. SemAwake' = SemAwake
          BY <2>3, <4>1
        <5>2. QED
          BY <1>0, <5>1
      <4>2. CASE t \notin SemAwake
        BY <1>0, <2>3, <4>2, SemOneThread
      <4>3. QED
        BY <4>1, <4>2
    <3>2. SemAsleep' # {} => SemAsleep # {}
      BY <2>3
    <3>3. QED
      BY <1>0, <2>1, <3>1, <3>2 DEF NoLostPost
  <2>6. PosixSemTypeOK'
    BY <1>0, <2>1 DEF PosixSemTypeOK, SemPlaces
  <2>7. QED
    BY <2>4, <2>5, <2>6
<1>7. ASSUME NEW t \in SemThreads, SemRecheck(t)
      PROVE  SemInv'
  <2>1. semPc[t] = "awake" /\ SyncGuest /\ UNCHANGED semLive
    BY <1>7 DEF SemRecheck
  <2>2. t \in SemAwake /\ t \notin SemAsleep /\ t \in SemInside
    BY <2>1 DEF SemAwake, SemAsleep, SemInside
  <2>3. Cardinality(SemAwake \ {t}) = Cardinality(SemAwake) - 1
    BY <1>0, <2>2, SemOneThread
  <2>4. Cardinality(SemInside \ {t}) = Cardinality(SemInside) - 1
    BY <1>0, <2>2, SemOneThread
  <2>5. CASE \/ semCount > 0 /\ semCount' = semCount - 1
             \/ semCount <= 0 /\ semCount' = semCount
    <3>1. CASE semPc' = [semPc EXCEPT ![t] = "idle"] /\ semClock' = [semClock EXCEPT ![t] = "none"]
               /\ semWaiters' = semWaiters - 1
      <4>1. SemAsleep' = SemAsleep /\ SemAwake' = SemAwake \ {t} /\ SemInside' = SemInside \ {t}
        <5>1. SemAsleep' = SemAsleep \ {t} /\ SemAwake' = SemAwake \ {t} /\ SemInside' = SemInside \ {t}
          BY <1>0, <3>1, SemMoveIdle
        <5>2. QED
          BY <2>2, <5>1
      <4>2. SemWaiterCount'
        BY <2>4, <3>1, <4>1 DEF SemWaiterCount
      <4>3. SemClockInside'
        BY <3>1, <4>1 DEF SemClockInside, PosixSemTypeOK
      <4>4. Cardinality(SemAwake') \in Nat
        BY <1>0, <4>1, SemThreadSets
      <4>5. NoLostPost'
        BY <1>0, <2>3, <2>5, <4>1, <4>4 DEF NoLostPost
      <4>6. semCount' \in 0 .. ValueMax /\ SemInside' \subseteq SemThreads
        BY <1>0, <2>5, <4>1
      <4>7. GuestMirror' /\ semGuest' \in [has_waiters : BOOLEAN, count : Nat]
        BY <2>1, <4>2, <4>6, SyncGuestFacts
      <4>8. semWaiters' \in Nat
        BY <1>0, <4>2, <4>6, SemThreadSets DEF SemWaiterCount
      <4>9. PosixSemTypeOK'
        BY <2>1, <3>1, <4>6, <4>7, <4>8 DEF PosixSemTypeOK
      <4>10. QED
        BY <4>2, <4>3, <4>5, <4>7, <4>9
    <3>2. CASE /\ semPc' = [semPc EXCEPT ![t] = "asleep"] /\ semCount <= 0
               /\ UNCHANGED <<semCount, semWaiters, semClock>>
      <4>1. SemAwake' = SemAwake \ {t} /\ SemInside' = SemInside
        <5>1. SemAwake' = SemAwake \ {t} /\ SemInside' = SemInside \cup {t}
          BY <1>0, <3>2, SemMoveAsleep
        <5>2. QED
          BY <2>2, <5>1
      <4>2. SemWaiterCount' /\ SemClockInside'
        BY <3>2, <4>1 DEF SemWaiterCount, SemClockInside
      <4>3. Cardinality(SemAwake') \in Nat
        BY <1>0, <4>1, SemThreadSets
      <4>4. NoLostPost'
        BY <1>0, <3>2, <4>3 DEF NoLostPost
      <4>5. GuestMirror' /\ semGuest' \in [has_waiters : BOOLEAN, count : Nat]
        BY <1>0, <2>1, <3>2, <4>1, <4>2, SyncGuestFacts
      <4>6. PosixSemTypeOK'
        BY <1>0, <2>1, <3>2, <4>5 DEF PosixSemTypeOK
      <4>7. QED
        BY <4>2, <4>4, <4>5, <4>6
    <3>3. QED
      BY <1>7, <3>1, <3>2 DEF SemRecheck
  <2>6. QED
    BY <1>7, <2>5 DEF SemRecheck
<1>8. ASSUME NEW t \in SemThreads, SemPost(t)
      PROVE  SemInv'
  <2>1. /\ semCount' = semCount + 1 /\ SemSignal /\ SyncGuest /\ semCount # ValueMax
        /\ UNCHANGED <<semLive, semWaiters, semClock>>
    BY <1>8 DEF SemPost
  <2>2. semCount' \in 0 .. ValueMax
    BY <1>0, <2>1
  <2>3. CASE SemAsleep = {} /\ UNCHANGED semPc
    <3>1. SemAsleep' = {} /\ SemInside' = SemInside
      BY <2>3 DEF SemAsleep, SemAwake, SemInside
    <3>2. SemWaiterCount' /\ SemClockInside' /\ NoLostPost'
      BY <2>1, <3>1 DEF SemWaiterCount, SemClockInside, NoLostPost
    <3>3. GuestMirror' /\ semGuest' \in [has_waiters : BOOLEAN, count : Nat]
      BY <1>0, <2>1, <2>2, <3>1, <3>2, SyncGuestFacts
    <3>4. PosixSemTypeOK'
      BY <2>1, <2>2, <2>3, <3>3 DEF PosixSemTypeOK
    <3>5. QED
      BY <3>2, <3>3, <3>4
  <2>4. ASSUME NEW u \in SemAsleep, semPc' = [semPc EXCEPT ![u] = "awake"]
        PROVE  SemInv'
    <3>1. u \in SemThreads /\ u \in SemInside /\ u \notin SemAwake
      BY <1>0 DEF SemAsleep, SemAwake, SemInside
    <3>2. SemAwake' = SemAwake \cup {u} /\ SemInside' = SemInside
      <4>1. SemAwake' = SemAwake \cup {u} /\ SemInside' = SemInside \cup {u}
        BY <1>0, <2>4, <3>1, SemMoveAwake
      <4>2. QED
        BY <3>1, <4>1
    <3>3. Cardinality(SemAwake') = Cardinality(SemAwake) + 1
      BY <1>0, <3>1, <3>2, SemOneThread
    <3>4. NoLostPost'
      BY <1>0, <2>1, <3>3 DEF NoLostPost
    <3>5. SemWaiterCount' /\ SemClockInside'
      BY <2>1, <3>2 DEF SemWaiterCount, SemClockInside
    <3>6. GuestMirror' /\ semGuest' \in [has_waiters : BOOLEAN, count : Nat]
      BY <1>0, <2>1, <2>2, <3>2, <3>5, SyncGuestFacts
    <3>7. PosixSemTypeOK'
      BY <1>0, <2>1, <2>2, <2>4, <3>1, <3>6 DEF PosixSemTypeOK
    <3>8. QED
      BY <3>4, <3>5, <3>6, <3>7
  <2>5. QED
    BY <2>1, <2>3, <2>4 DEF SemSignal
<1>9. QED
  BY <1>1, <1>2, <1>3, <1>4, <1>5, <1>6, <1>7, <1>8 DEF PosixSemNext

\* The invariant holds before the first sem_init.
LEMMA SemInitInv == PosixSemInit => SemInv
<1>1. SUFFICES ASSUME PosixSemInit
               PROVE  SemInv
  OBVIOUS
<1>2. SemAsleep = {} /\ SemAwake = {} /\ SemInside = {}
  BY <1>1 DEF PosixSemInit, SemAsleep, SemAwake, SemInside
<1>3. SemWaiterCount /\ SemClockInside /\ NoLostPost
  BY <1>1, <1>2, FS_EmptySet DEF PosixSemInit, SemWaiterCount, SemClockInside, NoLostPost
<1>4. GuestMirror
  BY <1>1 DEF PosixSemInit, GuestMirror
<1>5. semGuest \in [has_waiters : BOOLEAN, count : Nat]
  BY <1>1 DEF PosixSemInit
<1>6. semLive \in BOOLEAN
  BY <1>1, Zenon DEF PosixSemInit
<1>7. semCount \in 0 .. ValueMax /\ semWaiters \in Nat
  BY <1>1, PosixSemAssumption DEF PosixSemInit
<1>8. /\ semPc \in [SemThreads -> {"idle", "asleep", "awake"}]
      /\ semClock \in [SemThreads -> {"none", "running", "expired"}]
  BY <1>1 DEF PosixSemInit
<1>9. QED
  BY <1>3, <1>4, <1>5, <1>6, <1>7, <1>8 DEF SemInv, PosixSemTypeOK

\* The inductive invariant of the POSIX semaphore.
THEOREM PosixSemInvariant == PosixSemSpec => []SemInv
<1>1. SemInv /\ [PosixSemNext]_semVars => SemInv'
  BY SemNextInv
<1>2. QED
  BY <1>1, SemInitInv, PTL DEF PosixSemSpec

\* m_count stays between 0 and POSIX_SEM_VALUE_MAX, m_waiters never wraps.
THEOREM PosixTypeCorrect == PosixSemSpec => []PosixSemTypeOK
<1>1. SemInv => PosixSemTypeOK
  BY DEF SemInv
<1>2. QED
  BY <1>1, PosixSemInvariant, PTL

\* The guest's sem_t always tells the truth.
THEOREM MirrorCorrect == PosixSemSpec => []GuestMirror
<1>1. SemInv => GuestMirror
  BY DEF SemInv
<1>2. QED
  BY <1>1, PosixSemInvariant, PTL

\* One notify_one per sem_post never leaves a token beside a sleeping thread.
THEOREM PostWakesEnough == PosixSemSpec => []NoLostPost
<1>1. SemInv => NoLostPost
  BY DEF SemInv
<1>2. QED
  BY <1>1, PosixSemInvariant, PTL
=============================================================================
