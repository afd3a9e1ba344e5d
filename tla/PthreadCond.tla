------------------------------ MODULE PthreadCond ------------------------------
(***************************************************************************)
(* A pthread mutex and a condition variable used with it                   *)
(* (kernel/pthread.cpp: NativeMutexXxx, CondXxxWaiter, PthreadCondXxx).    *)
(*                                                                         *)
(* Both objects are host objects: a std::mutex m around a few fields, and  *)
(* a std::condition_variable that is only ever slept on for 10 ms, after   *)
(* which the thread looks at the fields again.  An action is one stretch   *)
(* under m.  PthreadCondTimedwait releases the guest mutex while it holds  *)
(* the condition's m, so that nothing of the condition is visible between  *)
(* the two: queueing and unlocking are one action.                         *)
(*                                                                         *)
(* Guest signal handlers that a thread runs between two polls do not touch *)
(* these objects here.  Calls refused with EPERM, EBUSY, EDEADLK or        *)
(* ETIMEDOUT before they queue change nothing and are stuttering steps.    *)
(*                                                                         *)
(* "Bug:" marks broken variants, as in KernelSema.                         *)
(***************************************************************************)
EXTENDS Integers, Sequences, SequencesExt

CONSTANTS
    CondThreads,    \* the guest threads
    MutexTypes,     \* the types a guest gives its mutex: 2 is recursive
    MaxDepth,       \* bound: how deep a guest nests a recursive mutex
    MaxCalls        \* bound: lock, wait and wake calls of all threads together

CONSTANT NoThread   \* nullptr, as an owner

ASSUME CondAssumption == NoThread \notin CondThreads

VARIABLES
    mutexType,      \* PthreadMutexPrivate::type
    owner,          \* owner
    count,          \* count
    sequence,       \* PthreadCondPrivate::sequence
    waiters,        \* waiters
    condSequence,   \* Pthread's cond_sequence
    condPc,         \* where each thread is
    frame,          \* the locals of the call a thread is in
    calls,          \* calls made so far
    depth,          \* history: locks a thread's program believes it holds
    woken           \* history: the thread's wait was signalled or broadcast

mutexVars == <<mutexType, owner, count>>
queueVars == <<sequence, waiters, condSequence>>
condVars == <<mutexVars, queueVars, condPc, frame, calls, depth, woken>>

NoFrame == [timed |-> FALSE, sequence |-> 0, thread_sequence |-> 0, recurse |-> 0, result |-> "OK"]

CondInit ==
    /\ mutexType \in MutexTypes
    /\ owner = NoThread
    /\ count = 0
    /\ sequence = 0
    /\ waiters = <<>>
    /\ condSequence = [t \in CondThreads |-> 0]
    /\ condPc = [t \in CondThreads |-> "idle"]
    /\ frame = [t \in CondThreads |-> NoFrame]
    /\ calls = 0
    /\ depth = [t \in CondThreads |-> 0]
    /\ woken = [t \in CondThreads |-> FALSE]

CondGoto(t, where) == condPc' = [condPc EXCEPT ![t] = where]

\* A thread between two calls makes another one.
CondCall(t) ==
    /\ condPc[t] = "idle"
    /\ calls < MaxCalls
    /\ calls' = calls + 1

Acquired(t) ==
    /\ owner' = t
    /\ depth' = [depth EXCEPT ![t] = @ + 1]
    /\ UNCHANGED mutexType

\* NativeMutexLock and NativeMutexTrylock when the mutex is free or the
\* caller's own recursive one.
MutexTake(t) ==
    /\ CondCall(t)
    /\ \/ owner = NoThread /\ count' = 1
       \/ owner = t /\ mutexType = 2 /\ count < MaxDepth /\ count' = count + 1
    /\ Acquired(t)
    /\ UNCHANGED <<queueVars, condPc, frame, woken>>

\* NativeMutexLock finds another owner and polls.
MutexBlock(t, timed) ==
    /\ CondCall(t)
    /\ owner \notin {NoThread, t}
    /\ frame' = [frame EXCEPT ![t].timed = timed]
    /\ CondGoto(t, "locking")
    /\ UNCHANGED <<mutexVars, queueVars, depth, woken>>

\* The owner is gone when NativeMutexLock looks again, or its time is up.
MutexPoll(t) ==
    /\ condPc[t] = "locking"
    /\ \/ owner = NoThread /\ count' = 1 /\ Acquired(t)
       \/ owner # NoThread /\ frame[t].timed /\ UNCHANGED <<mutexVars, depth>>
    /\ CondGoto(t, "idle")
    /\ frame' = [frame EXCEPT ![t] = NoFrame]
    /\ UNCHANGED <<queueVars, calls, woken>>

\* NativeMutexUnlock by the owner.
MutexUnlock(t) ==
    /\ condPc[t] = "idle" /\ owner = t
    /\ IF mutexType = 2 /\ count > 1
       THEN count' = count - 1 /\ UNCHANGED owner
       ELSE count' = 0 /\ owner' = NoThread
    /\ depth' = [depth EXCEPT ![t] = @ - 1]
    /\ UNCHANGED <<mutexType, queueVars, condPc, frame, calls, woken>>

\* PthreadCondWait, Timedwait and TimedwaitAbs up to the first sleep.  With
\* a timeout of zero the thread leaves the queue under the same lock.
CondWaitEnter(t, timeout) ==
    /\ CondCall(t)
    /\ owner = t
    /\ waiters' = IF timeout = "zero" THEN waiters ELSE Append(waiters, t)
    /\ owner' = NoThread
    /\ count' = 0
    /\ frame' = [frame EXCEPT ![t] =
                   [timed |-> timeout = "some", sequence |-> sequence,
                    thread_sequence |-> condSequence[t], recurse |-> count,
                    result |-> IF timeout = "zero" THEN "ETIMEDOUT" ELSE "OK"]]
    /\ woken' = [woken EXCEPT ![t] = FALSE]
    /\ CondGoto(t, IF timeout = "zero" THEN "relocking" ELSE "waiting")
    /\ UNCHANGED <<mutexType, sequence, condSequence, depth>>

\* Bug: the wait looks for broadcasts only.
BugReadyOnBroadcast(t) == sequence # frame[t].sequence

CondReady(t) ==
    \/ sequence # frame[t].sequence
    \/ condSequence[t] # frame[t].thread_sequence

\* CondRemoveWaiter: the thread's first entry, if there is one.
CondRemoveWaiter(t) == waiters' = RemoveFirst(waiters, t)

\* Bug: past the deadline the wait reports a timeout without looking again.
BugTimeoutWins(t) ==
    /\ condPc[t] = "waiting"
    /\ CondReady(t) \/ frame[t].timed
    /\ frame' = [frame EXCEPT ![t].result = IF ~frame[t].timed THEN "OK" ELSE "ETIMEDOUT"]
    /\ CondRemoveWaiter(t)
    /\ CondGoto(t, "relocking")
    /\ UNCHANGED <<mutexVars, sequence, condSequence, calls, depth, woken>>

\* The wait loop finds the thread ready, or past its deadline.
CondWaitPoll(t) ==
    /\ condPc[t] = "waiting"
    /\ CondReady(t) \/ frame[t].timed
    /\ frame' = [frame EXCEPT ![t].result = IF CondReady(t) THEN "OK" ELSE "ETIMEDOUT"]
    /\ CondRemoveWaiter(t)
    /\ CondGoto(t, "relocking")
    /\ UNCHANGED <<mutexVars, sequence, condSequence, calls, depth, woken>>

\* Bug: the mutex is taken back once.
BugRelockOnce(t) == 1

\* NativeMutexLockRecurse: take the mutex back, as deep as it was.
RelockCount(t) == IF frame[t].recurse > 1 THEN frame[t].recurse ELSE 1

CondRelock(t) ==
    /\ condPc[t] = "relocking"
    /\ owner = NoThread
    /\ owner' = t
    /\ count' = RelockCount(t)
    /\ CondGoto(t, "idle")
    /\ frame' = [frame EXCEPT ![t] = NoFrame]
    /\ woken' = [woken EXCEPT ![t] = FALSE]
    /\ UNCHANGED <<mutexType, queueVars, calls, depth>>

\* CondWakeWaiter.
CondWakeWaiter(u) ==
    /\ waiters' = RemoveFirst(waiters, u)
    /\ condSequence' = [condSequence EXCEPT ![u] = @ + 1]

\* PthreadCondSignal wakes the front of the queue, PthreadCondSignalto the
\* thread named, if it is queued.
CondSignal(t, u) ==
    /\ CondCall(t)
    /\ u \in Range(waiters)
    /\ CondWakeWaiter(u)
    /\ woken' = [woken EXCEPT ![u] = TRUE]
    /\ UNCHANGED <<mutexVars, sequence, condPc, frame, depth>>

PthreadCondSignal(t) == waiters # <<>> /\ CondSignal(t, Head(waiters))
PthreadCondSignalto(t, u) == CondSignal(t, u)

\* PthreadCondBroadcast.
PthreadCondBroadcast(t) ==
    /\ CondCall(t)
    /\ waiters # <<>>
    /\ sequence' = sequence + 1
    /\ waiters' = <<>>
    /\ woken' = [u \in CondThreads |-> woken[u] \/ u \in Range(waiters)]
    /\ UNCHANGED <<mutexVars, condSequence, condPc, frame, depth>>

CondStep(t) ==
    \/ MutexTake(t)
    \/ \E timed \in BOOLEAN : MutexBlock(t, timed)
    \/ MutexPoll(t)
    \/ MutexUnlock(t)
    \/ \E timeout \in {"none", "some", "zero"} : CondWaitEnter(t, timeout)
    \/ CondWaitPoll(t)
    \/ CondRelock(t)
    \/ PthreadCondSignal(t)
    \/ \E u \in CondThreads : PthreadCondSignalto(t, u)
    \/ PthreadCondBroadcast(t)

CondNext == \E t \in CondThreads : CondStep(t)

CondSpec == CondInit /\ [][CondNext]_condVars

\* Polling threads look again every 10 ms; guests release what they hold.
CondFairness ==
    \A t \in CondThreads :
        WF_condVars(MutexPoll(t) \/ CondWaitPoll(t) \/ CondRelock(t) \/ MutexUnlock(t))
-----------------------------------------------------------------------------
\* No wake is lost and none is invented (Timedwait's queue, sequence and
\* cond_sequence against Signal, Signalto and Broadcast): a thread that
\* sleeps in a wait is queued exactly once, where the next signal finds it,
\* until it is woken, and woken it is ready; and it reports OK when it was
\* woken and ETIMEDOUT when it was not, also when the deadline passes
\* between the wake and its next look.
CondWakeExact ==
    \A t \in CondThreads :
        LET entries == {i \in DOMAIN waiters : waiters[i] = t} IN
        /\ condPc[t] = "waiting" =>
               \/ ~woken[t] /\ ~CondReady(t) /\ \E i \in DOMAIN waiters : entries = {i}
               \/ woken[t] /\ CondReady(t) /\ entries = {}
        /\ condPc[t] # "waiting" => entries = {}
        /\ condPc[t] = "relocking" => (frame[t].result = "OK") = woken[t]

\* A wait gives the mutex up whole and takes it back as deep as it was
\* (NativeMutexUnlock's recurse and NativeMutexLockRecurse): outside a wait
\* the thread whose program holds locks is the owner, as many times as it
\* locked, and there is one such thread.
CondMutexDepth ==
    \A t \in CondThreads :
        condPc[t] \in {"idle", "locking"} =>
            IF owner = t THEN depth[t] = count /\ count > 0 ELSE depth[t] = 0

\* A wait that was woken, or that has a deadline, returns with the mutex.
CondWaitEnds ==
    \A t \in CondThreads :
        condPc[t] = "waiting" /\ (woken[t] \/ frame[t].timed) ~> condPc[t] = "idle" /\ owner = t
=============================================================================
