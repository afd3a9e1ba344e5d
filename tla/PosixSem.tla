------------------------------- MODULE PosixSem -------------------------------
(***************************************************************************)
(* The POSIX semaphore of kernel/semaphore.cpp: class PosixSemPrivate, the *)
(* registry g_posix_sems that finds it from the guest's sem_t, and the     *)
(* sem_xxx and PthreadSemXxx calls.  One sem_t is modelled.                *)
(*                                                                         *)
(* Each method holds the object's m_mutex except while Wait sleeps in the  *)
(* condition variable and while it dispatches pending guest signals; an    *)
(* action is one stretch between two points where m_mutex is free.  Calls  *)
(* look the object up under g_posix_sem_mutex first and use the pointer    *)
(* after releasing it.  Guests may not destroy or initialise a semaphore   *)
(* that another thread is using, so that the lookup and what follows it    *)
(* see the same object; calls that find none (EINVAL) change nothing.      *)
(*                                                                         *)
(* "Bug:" marks broken variants, as in KernelSema.                         *)
(***************************************************************************)
EXTENDS Integers, FiniteSets

CONSTANTS
    SemThreads,    \* the guest threads that use the semaphore
    ValueMax,   \* POSIX_SEM_VALUE_MAX
    InitValues  \* the values guests pass to sem_init

\* SemInitImpl refuses values above POSIX_SEM_VALUE_MAX.
ASSUME PosixSemAssumption ==
    /\ IsFiniteSet(SemThreads)
    /\ ValueMax \in Nat \ {0}
    /\ InitValues \subseteq 0 .. ValueMax

VARIABLES
    semLive,       \* the registry has an object for the sem_t
    semCount,      \* m_count
    semWaiters,    \* m_waiters
    semGuest,      \* the sem_t in guest memory: has_waiters and count
    semPc,         \* where each thread is
    semClock       \* the deadline of each wait

semVars == <<semLive, semCount, semWaiters, semGuest, semPc, semClock>>

SemAsleep == {t \in SemThreads : semPc[t] = "asleep"}
SemAwake == {t \in SemThreads : semPc[t] = "awake"}

PosixSemInit ==
    /\ semLive = FALSE
    /\ semCount = 0
    /\ semWaiters = 0
    /\ semGuest = [has_waiters |-> FALSE, count |-> 0]
    /\ semPc = [t \in SemThreads |-> "idle"]
    /\ semClock = [t \in SemThreads |-> "none"]

\* SyncGuest copies the state of the object into the guest's sem_t.
SyncGuest == semGuest' = [has_waiters |-> semWaiters' > 0, count |-> semCount']

\* SemInitImpl: a new object, in place of the one that may be registered.
SemInit(t, value) ==
    /\ semPc[t] = "idle"
    /\ SemAsleep \cup SemAwake = {}
    /\ semLive' = TRUE
    /\ semCount' = value
    /\ semWaiters' = 0
    /\ SyncGuest
    /\ UNCHANGED <<semPc, semClock>>

\* SemDestroyImpl.
SemDestroy(t) ==
    /\ semPc[t] = "idle"
    /\ semLive
    /\ SemAsleep \cup SemAwake = {}
    /\ semLive' = FALSE
    /\ semGuest' = [has_waiters |-> FALSE, count |-> 0]
    /\ UNCHANGED <<semCount, semWaiters, semPc, semClock>>

\* Bug: TryWait takes a token without SyncGuest.
TakeUnsynced(t) ==
    /\ semLive
    /\ semPc[t] = "idle"
    /\ semCount > 0
    /\ semCount' = semCount - 1
    /\ UNCHANGED <<semLive, semWaiters, semGuest, semPc, semClock>>

\* sem_trywait, and sem_wait and sem_timedwait when a token is there.
SemTake(t) ==
    /\ semLive
    /\ semPc[t] = "idle"
    /\ semCount > 0
    /\ semCount' = semCount - 1
    /\ UNCHANGED <<semLive, semWaiters, semPc, semClock>>
    /\ SyncGuest

\* sem_trywait (EAGAIN) and a wait without time left (ETIMEDOUT).
SemRefuse(t) ==
    /\ semLive
    /\ semPc[t] = "idle"
    /\ semCount <= 0
    /\ UNCHANGED <<semLive, semCount, semWaiters, semPc, semClock>>
    /\ SyncGuest

\* sem_wait, sem_timedwait and sem_reltimedwait_np go to sleep.
SemWait(t, deadline) ==
    /\ semLive
    /\ semPc[t] = "idle"
    /\ semCount <= 0
    /\ semWaiters' = semWaiters + 1
    /\ semPc' = [semPc EXCEPT ![t] = "asleep"]
    /\ semClock' = [semClock EXCEPT ![t] = deadline]
    /\ UNCHANGED <<semLive, semCount>>
    /\ SyncGuest

\* WaitFor returns without a signal: spuriously, or after the 10 ms an endless
\* wait sleeps at a time.
SemPoll10ms(t) ==
    /\ semPc[t] = "asleep"
    /\ semPc' = [semPc EXCEPT ![t] = "awake"]
    /\ UNCHANGED <<semLive, semCount, semWaiters, semGuest, semClock>>

\* WaitFor returns because the deadline has passed.
SemExpire(t) ==
    /\ semClock[t] = "running"
    /\ semClock' = [semClock EXCEPT ![t] = "expired"]
    /\ semPc' = [semPc EXCEPT ![t] = "awake"]
    /\ UNCHANGED <<semLive, semCount, semWaiters, semGuest>>

\* Bug: the loop condition is off by one.
RecheckOffByOne(t) ==
    /\ semPc[t] = "awake"
    /\ \/ /\ semCount > 1 \/ semClock[t] = "expired"
          /\ semCount' = IF semCount > 1 THEN semCount - 1 ELSE semCount
          /\ semWaiters' = semWaiters - 1
          /\ semPc' = [semPc EXCEPT ![t] = "idle"]
          /\ semClock' = [semClock EXCEPT ![t] = "none"]
       \/ /\ semCount <= 1
          /\ semClock[t] # "expired"
          /\ semPc' = [semPc EXCEPT ![t] = "asleep"]
          /\ UNCHANGED <<semCount, semWaiters, semClock>>
    /\ UNCHANGED semLive
    /\ SyncGuest

\* Back under m_mutex after the dispatch of guest signals: take a token, or
\* time out, or sleep again.  m_waiters goes down and, to sleep, up again.
SemRecheck(t) ==
    /\ semPc[t] = "awake"
    /\ \/ /\ semCount > 0
          /\ semCount' = semCount - 1
          /\ semWaiters' = semWaiters - 1
          /\ semPc' = [semPc EXCEPT ![t] = "idle"]
          /\ semClock' = [semClock EXCEPT ![t] = "none"]
       \/ /\ semCount <= 0
          /\ semClock[t] = "expired"
          /\ semWaiters' = semWaiters - 1
          /\ semPc' = [semPc EXCEPT ![t] = "idle"]
          /\ semClock' = [semClock EXCEPT ![t] = "none"]
          /\ UNCHANGED semCount
       \/ /\ semCount <= 0
          /\ semClock[t] # "expired"
          /\ semPc' = [semPc EXCEPT ![t] = "asleep"]
          /\ UNCHANGED <<semCount, semWaiters, semClock>>
    /\ UNCHANGED semLive
    /\ SyncGuest

\* A thread calls from its own code or from a signal handler that runs while
\* it waits.
CanPost(t) == semLive /\ semPc[t] \in {"idle", "awake"}

\* notify_one: one sleeping thread wakes up, if there is one.
SemSignal ==
    \/ \E u \in SemAsleep : semPc' = [semPc EXCEPT ![u] = "awake"]
    \/ SemAsleep = {} /\ UNCHANGED semPc

\* Bug: Post signals only when the first token arrives.
PostSignalsFirst(t) ==
    /\ CanPost(t)
    /\ semCount # ValueMax
    /\ semCount' = semCount + 1
    /\ IF semCount = 0 THEN SemSignal ELSE UNCHANGED semPc
    /\ UNCHANGED <<semLive, semWaiters, semClock>>
    /\ SyncGuest

\* sem_post; at POSIX_SEM_VALUE_MAX it changes nothing (EOVERFLOW).
SemPost(t) ==
    /\ CanPost(t)
    /\ semCount # ValueMax
    /\ semCount' = semCount + 1
    /\ SemSignal
    /\ UNCHANGED <<semLive, semWaiters, semClock>>
    /\ SyncGuest

-----------------------------------------------------------------------------
PosixSemNext ==
    \E t \in SemThreads :
        \/ \E v \in InitValues : SemInit(t, v)
        \/ SemDestroy(t)
        \/ SemTake(t)
        \/ SemRefuse(t)
        \/ \E d \in {"none", "running"} : SemWait(t, d)
        \/ SemPoll10ms(t)
        \/ SemExpire(t)
        \/ SemRecheck(t)
        \/ SemPost(t)

PosixSemSpec == PosixSemInit /\ [][PosixSemNext]_semVars

\* A woken thread gets m_mutex, its signal handlers come back, endless waits
\* wake up every 10 ms and deadlines pass.
PosixSemFairness ==
    \A t \in SemThreads :
        /\ WF_semVars(SemRecheck(t))
        /\ WF_semVars(semClock[t] = "none" /\ SemPoll10ms(t))
        /\ WF_semVars(SemExpire(t))

-----------------------------------------------------------------------------
(***************************************************************************)
(* Properties.                                                             *)
(***************************************************************************)

\* Every variable stays in its range, m_count between 0 and
\* POSIX_SEM_VALUE_MAX.
PosixSemTypeOK ==
    /\ semLive \in BOOLEAN
    /\ semCount \in 0 .. ValueMax
    /\ semWaiters \in Nat
    /\ semGuest \in [has_waiters : BOOLEAN, count : Nat]
    /\ semPc \in [SemThreads -> {"idle", "asleep", "awake"}]
    /\ semClock \in [SemThreads -> {"none", "running", "expired"}]

\* What guest code reads directly from its sem_t is the truth whenever no
\* call holds m_mutex: the count, and whether somebody waits.
GuestMirror ==
    semLive => /\ semGuest.count = semCount
            /\ semGuest.has_waiters <=> SemAsleep \cup SemAwake # {}

\* sem_post signals one sleeper per token, and that is enough: while somebody
\* sleeps, each token has an awake thread that is about to look at it.
NoLostPost == SemAsleep # {} => semCount <= Cardinality(SemAwake)

\* A wait comes back, unless it has no deadline and no token stays for it.
SemWaitEnds ==
    \A t \in SemThreads :
        t \in SemAsleep \cup SemAwake
            ~> (semPc[t] = "idle" \/ (semClock[t] = "none" /\ semCount = 0))
=============================================================================
