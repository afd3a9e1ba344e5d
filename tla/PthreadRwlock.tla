----------------------------- MODULE PthreadRwlock -----------------------------
(***************************************************************************)
(* A pthread read/write lock (kernel/pthread.cpp: RwlockXxxReader,         *)
(* RwlockLockCooperative, PthreadRwlockXxx).                               *)
(*                                                                         *)
(* Every call works under the host mutex m of the lock.  A call that must  *)
(* wait goes round a loop: look at the fields under m, sleep at most 10 ms *)
(* with m released, dispatch guest signals, look again.  An action is one  *)
(* round.  Guest signal handlers do not touch the lock here.  Calls that   *)
(* are refused at once (EBUSY, EDEADLK, EPERM, a timeout of zero) leave    *)
(* the lock as it was and are stuttering steps.                            *)
(*                                                                         *)
(* "Bug:" marks broken variants, as in KernelSema.                         *)
(***************************************************************************)
EXTENDS Integers, FiniteSets

CONSTANTS
    RwThreads,      \* the guest threads
    MaxReads,       \* bound: read locks one thread holds at a time
    NoWriter        \* nullptr, as a writer

ASSUME RwAssumption ==
    /\ IsFiniteSet(RwThreads)
    /\ NoWriter \notin RwThreads
    /\ MaxReads \in Nat \ {0}

VARIABLES
    writer,         \* writer
    readers,        \* the Reader entries: each thread's count, 0 for no entry
    readerCount,    \* reader_count
    waitingWriters, \* waiting_writers
    rwPc,           \* the loop a thread is in: none, for reading, for writing
    rwTimed         \* that loop has a deadline

rwVars == <<writer, readers, readerCount, waitingWriters, rwPc, rwTimed>>

RwInit ==
    /\ writer = NoWriter
    /\ readers = [t \in RwThreads |-> 0]
    /\ readerCount = 0
    /\ waitingWriters = 0
    /\ rwPc = [t \in RwThreads |-> "none"]
    /\ rwTimed = [t \in RwThreads |-> FALSE]

\* Bug: readers come in whether or not writers wait.
BugReadPastWriters(t) == writer \in {NoWriter, t}

\* The condition under which a reader gets the lock: writers that wait hold
\* newcomers back, but not a thread that reads already.
ReadAllowed(t) ==
    \/ writer = NoWriter /\ (waitingWriters = 0 \/ readers[t] > 0)
    \/ writer = t

\* Bug: readers are overlooked.
BugWriteOverReaders == writer = NoWriter

WriteAllowed == writer = NoWriter /\ readerCount = 0

\* A thread that holds the lock in either way gets EDEADLK from a write lock.
MayWrite(t) == writer # t /\ readers[t] = 0

RwlockAddReader(t) ==
    /\ readers' = [readers EXCEPT ![t] = @ + 1]
    /\ readerCount' = readerCount + 1

\* Rdlock, Timedrdlock and Tryrdlock that find the lock open.
RwRead(t) ==
    /\ rwPc[t] = "none"
    /\ readers[t] < MaxReads
    /\ ReadAllowed(t)
    /\ RwlockAddReader(t)
    /\ UNCHANGED <<writer, waitingWriters, rwPc, rwTimed>>

\* Wrlock, Timedwrlock and Trywrlock that find the lock free.
RwWrite(t) ==
    /\ rwPc[t] = "none"
    /\ MayWrite(t)
    /\ WriteAllowed
    /\ writer' = t
    /\ UNCHANGED <<readers, readerCount, waitingWriters, rwPc, rwTimed>>

\* Rdlock and Timedrdlock go to sleep.
RwReadBlock(t, timed) ==
    /\ rwPc[t] = "none"
    /\ ~ReadAllowed(t)
    /\ rwPc' = [rwPc EXCEPT ![t] = "reading"]
    /\ rwTimed' = [rwTimed EXCEPT ![t] = timed]
    /\ UNCHANGED <<writer, readers, readerCount, waitingWriters>>

\* Wrlock and Timedwrlock register and go to sleep.
RwWriteBlock(t, timed) ==
    /\ rwPc[t] = "none"
    /\ MayWrite(t)
    /\ ~WriteAllowed
    /\ waitingWriters' = waitingWriters + 1
    /\ rwPc' = [rwPc EXCEPT ![t] = "writing"]
    /\ rwTimed' = [rwTimed EXCEPT ![t] = timed]
    /\ UNCHANGED <<writer, readers, readerCount>>

RwReturn(t) ==
    /\ rwPc' = [rwPc EXCEPT ![t] = "none"]
    /\ rwTimed' = [rwTimed EXCEPT ![t] = FALSE]

\* A reader's next round: it gets the lock, or its deadline has passed.
RwReadPoll(t) ==
    /\ rwPc[t] = "reading"
    /\ \/ ReadAllowed(t) /\ RwlockAddReader(t)
       \/ ~ReadAllowed(t) /\ rwTimed[t] /\ UNCHANGED <<readers, readerCount>>
    /\ RwReturn(t)
    /\ UNCHANGED <<writer, waitingWriters>>

\* Bug: a writer that times out stays registered.
BugWriterStaysRegistered(t) ==
    /\ rwPc[t] = "writing"
    /\ \/ WriteAllowed /\ writer' = t /\ waitingWriters' = waitingWriters - 1
       \/ ~WriteAllowed /\ rwTimed[t] /\ UNCHANGED <<writer, waitingWriters>>
    /\ RwReturn(t)
    /\ UNCHANGED <<readers, readerCount>>

\* A writer's next round; either way it takes itself off waiting_writers.
RwWritePoll(t) ==
    /\ rwPc[t] = "writing"
    /\ \/ WriteAllowed /\ writer' = t
       \/ ~WriteAllowed /\ rwTimed[t] /\ UNCHANGED writer
    /\ waitingWriters' = waitingWriters - 1
    /\ RwReturn(t)
    /\ UNCHANGED <<readers, readerCount>>

\* PthreadRwlockUnlock gives a read lock back first, then the write lock.
RwUnlock(t) ==
    /\ rwPc[t] = "none"
    /\ IF readers[t] > 0
       THEN /\ readers' = [readers EXCEPT ![t] = @ - 1]
            /\ readerCount' = readerCount - 1
            /\ UNCHANGED writer
       ELSE /\ writer = t
            /\ writer' = NoWriter
            /\ UNCHANGED <<readers, readerCount>>
    /\ UNCHANGED <<waitingWriters, rwPc, rwTimed>>

RwStep(t) ==
    \/ RwRead(t)
    \/ RwWrite(t)
    \/ \E timed \in BOOLEAN : RwReadBlock(t, timed) \/ RwWriteBlock(t, timed)
    \/ RwReadPoll(t)
    \/ RwWritePoll(t)
    \/ RwUnlock(t)

RwNext == \E t \in RwThreads : RwStep(t)

RwSpec == RwInit /\ [][RwNext]_rwVars

\* A thread's last unlock leaves it with nothing.
RwLeave(t) == RwUnlock(t) /\ readers'[t] = 0 /\ writer' # t

\* Sleeping threads look again every 10 ms.  Of the guest: a thread does not
\* go on forever reading again what it reads already.
RwFairness ==
    \A t \in RwThreads :
        /\ WF_rwVars(RwReadPoll(t) \/ RwWritePoll(t))
        /\ WF_rwVars(RwUnlock(t))
        /\ SF_rwVars(RwLeave(t))
-----------------------------------------------------------------------------
RwTypeOK ==
    /\ writer \in RwThreads \cup {NoWriter}
    /\ readers \in [RwThreads -> 0 .. MaxReads]
    /\ readerCount \in Nat
    /\ waitingWriters \in Nat
    /\ rwPc \in [RwThreads -> {"none", "reading", "writing"}]
    /\ rwTimed \in [RwThreads -> BOOLEAN]

\* The read locks held, one pair for each.
ReadsHeld == {p \in RwThreads \X (1 .. MaxReads) : p[2] <= readers[p[1]]}

\* A writer is alone with the lock (RwlockLockCooperative and Unlock): while
\* one thread writes only that thread may hold read locks too, and
\* reader_count, by which writers are let in, counts every read lock held.
RwExclusion ==
    /\ \A t, u \in RwThreads : writer = t /\ readers[u] > 0 => u = t
    /\ readerCount = Cardinality(ReadsHeld)

WaitingToWrite == {t \in RwThreads : rwPc[t] = "writing"}

\* waiting_writers is the number of writers in the loop, however they leave
\* it: a registration left behind would hold readers back for ever.
RwWritersCounted == waitingWriters = Cardinality(WaitingToWrite)

\* Readers that come and go do not starve writers: while writers wait some
\* writer gets the lock, or they give up.
RwWriterGetsIn == waitingWriters > 0 ~> (writer # NoWriter \/ waitingWriters = 0)
=============================================================================
