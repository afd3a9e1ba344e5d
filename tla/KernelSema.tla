----------------------------- MODULE KernelSema -----------------------------
(***************************************************************************)
(* The kernel counting semaphore, class KernelSemaPrivate of               *)
(* kernel/semaphore.cpp, and the KernelXxxSema calls guest threads reach   *)
(* it through.                                                             *)
(*                                                                         *)
(* Every method holds m_mutex from its first line to its return, except    *)
(* where it sleeps: inside the loop of Wait (the condition variable, and   *)
(* the unlocked window in which pending guest signals are dispatched) and  *)
(* inside the two loops of the destructor.  An action below is therefore   *)
(* one stretch of code between two points where m_mutex is free.           *)
(*                                                                         *)
(* A definition whose comment starts with "Bug:" is a broken variant of    *)
(* the definition after it.  No specification uses it; PROJECT.json names  *)
(* the property that fails when it takes the place of the real one.        *)
(***************************************************************************)
EXTENDS Integers, Sequences, FiniteSets, Functions

CONSTANTS
    Threads,        \* the guest threads that use the semaphore
    InitCount,      \* KernelCreateSema's init
    MaxCount,       \* KernelCreateSema's max
    Fifo,           \* attr = 1: first come first served, otherwise by priority
    Priorities,     \* the priorities a guest thread may have when it waits
    NeedCounts,     \* the counts guests pass to KernelWaitSema and KernelPollSema
    SignalCounts,   \* the counts guests pass to KernelSignalSema
    CancelCounts,   \* the counts guests pass to KernelCancelSema
    IntMax          \* the largest int: the width of m_count is kept

Ints == -(IntMax + 1) .. IntMax

\* What KernelCreateSema accepts, and the ranges the C++ types impose.
ASSUME SemaAssumption ==
    /\ IsFiniteSet(Threads)
    /\ IntMax \in Nat
    /\ MaxCount \in 1 .. IntMax
    /\ InitCount \in 0 .. MaxCount
    /\ Fifo \in BOOLEAN
    /\ Priorities \subseteq Nat
    /\ NeedCounts \subseteq Ints
    /\ SignalCounts \subseteq Ints
    /\ CancelCounts \subseteq Ints

VARIABLES
    status,     \* m_status
    freed,      \* the destructor has returned
    count,      \* m_count
    waiting,    \* m_waiting_threads: the threads whose WaitingThread is queued
    waiter,     \* the WaitingThread on each caller's stack
    pc,         \* where each thread is
    clock,      \* the deadline of each caller's wait
    ledger,     \* history: tokens put in and not yet handed to a caller
    owed        \* history: cancellations announced and not yet returned

vars == <<status, freed, count, waiting, waiter, pc, clock, ledger, owed>>

Results == {"Ok", "TimedOut", "Canceled", "Deleted", "InvalCount"}

\* A WaitingThread before AddWaiter, with the struct's default values.
NoWaiter == [need |-> 0, priority |-> 0, result |-> "TimedOut", ready |-> FALSE]

\* What KernelWaitSema and KernelPollSema make of a Result.
WaitCode == [Ok |-> "OK", InvalCount |-> "EINVAL", TimedOut |-> "ETIMEDOUT",
             Canceled |-> "ECANCELED", Deleted |-> "EACCES"]
PollCode == [Ok |-> "OK", InvalCount |-> "EINVAL", TimedOut |-> "EBUSY",
             Canceled |-> "EBUSY", Deleted |-> "EBUSY"]

\* int addition on the two's complement hosts the emulator builds for.
Wrap(x) == IF x > IntMax THEN x - 2 * (IntMax + 1)
           ELSE IF x < -(IntMax + 1) THEN x + 2 * (IntMax + 1)
           ELSE x

Init ==
    /\ status = "Set"
    /\ freed = FALSE
    /\ count = InitCount
    /\ waiting = << >>
    /\ waiter = [t \in Threads |-> NoWaiter]
    /\ pc = [t \in Threads |-> "idle"]
    /\ clock = [t \in Threads |-> "none"]
    /\ ledger = InitCount
    /\ owed = 0

-----------------------------------------------------------------------------
(***************************************************************************)
(* The queue of waiters.                                                   *)
(***************************************************************************)
Queued == Range(waiting)

\* A queued waiter nobody has decided about yet.
Pending(t) == t \in Queued /\ ~waiter[t].ready

InsertAfter(q, k, t) ==
    [i \in 1 .. Len(q) + 1 |->
        IF i <= k THEN q[i] ELSE IF i = k + 1 THEN t ELSE q[i - 1]]

\* Bug: the queue ignores priorities.
InsertPointAtEnd(p) == Len(waiting)

\* AddWaiter stops behind the last of the leading waiters that do not yield
\* to priority p; in FIFO order it appends.
InsertPoint(p) ==
    IF Fifo THEN Len(waiting)
    ELSE CHOOSE k \in 0 .. Len(waiting) :
            /\ \A i \in 1 .. k : waiter[waiting[i]].priority <= p
            /\ k < Len(waiting) => waiter[waiting[k + 1]].priority > p

AddWaiter(t, p) == InsertAfter(waiting, InsertPoint(p), t)

\* RemoveWaiter drops the first occurrence of the caller.
RemoveWaiter(t) ==
    LET k == CHOOSE i \in DOMAIN waiting : waiting[i] = t
    IN  [i \in 1 .. Len(waiting) - 1 |-> IF i < k THEN waiting[i] ELSE waiting[i + 1]]

\* Bug: < for <= in WakeWaiters.
BudgetStrictLess(c) ==
    LET left[i \in 0 .. Len(waiting)] ==
            IF i = 0 THEN c
            ELSE IF ~waiter[waiting[i]].ready /\ waiter[waiting[i]].need < left[i - 1]
                 THEN left[i - 1] - waiter[waiting[i]].need
                 ELSE left[i - 1]
    IN  left

\* WakeWaiters walks the queue once: left[i] is what remains of c tokens after
\* it has looked at the first i waiters.
Budget(c) ==
    LET left[i \in 0 .. Len(waiting)] ==
            IF i = 0 THEN c
            ELSE IF ~waiter[waiting[i]].ready /\ waiter[waiting[i]].need <= left[i - 1]
                 THEN left[i - 1] - waiter[waiting[i]].need
                 ELSE left[i - 1]
    IN  left

\* The waiters WakeWaiters grants: those whose turn takes tokens away.
Granted(c) ==
    {waiting[i] : i \in {j \in DOMAIN waiting : Budget(c)[j] < Budget(c)[j - 1]}}

\* The waiters of S get their result; SignalAll makes them look at it.
Decide(S, result) ==
    waiter' = [t \in Threads |->
                 IF t \in S THEN [waiter[t] EXCEPT !.result = result, !.ready = TRUE]
                            ELSE waiter[t]]

\* A call that asked for n tokens returns to the guest with this code.
Settle(n, code) ==
    /\ ledger' = IF code = "OK" THEN Wrap(ledger - n) ELSE ledger
    /\ owed' = IF code = "ECANCELED" THEN owed - 1 ELSE owed

-----------------------------------------------------------------------------
(***************************************************************************)
(* KernelWaitSema and KernelPollSema.  A thread calls from its own code    *)
(* (pc "idle") or, for the calls that cannot sleep, from a guest signal    *)
(* handler dispatched in the window inside its own wait (pc "polling").    *)
(***************************************************************************)
CanCall(t) == ~freed /\ pc[t] \in {"idle", "polling"}

\* The result of Wait when it does not sleep.
Immediate(n) ==
    IF n < 1 \/ n > MaxCount THEN "InvalCount"
    ELSE IF status = "Deleted" THEN "Deleted"
    ELSE IF count >= n THEN "Ok"
    ELSE "TimedOut"

\* Wait returns without having queued a waiter.  It is a zero timeout that
\* makes "TimedOut" the result here.
WaitReturns(t, n) ==
    /\ ~freed
    /\ pc[t] = "idle"
    /\ count' = IF Immediate(n) = "Ok" THEN count - n ELSE count
    /\ Settle(n, WaitCode[Immediate(n)])
    /\ UNCHANGED <<status, freed, waiting, waiter, pc, clock>>

\* Poll is Wait with a zero timeout.
Poll(t, n) ==
    /\ CanCall(t)
    /\ count' = IF Immediate(n) = "Ok" THEN count - n ELSE count
    /\ Settle(n, PollCode[Immediate(n)])
    /\ UNCHANGED <<status, freed, waiting, waiter, pc, clock>>

\* Wait queues a waiter and sleeps, for ever or until a deadline.
WaitBlocks(t, n, p, deadline) ==
    /\ ~freed
    /\ pc[t] = "idle"
    /\ Immediate(n) = "TimedOut"
    /\ waiting' = AddWaiter(t, IF Fifo THEN 0 ELSE p)
    /\ waiter' = [waiter EXCEPT ![t] =
                     [need |-> n, priority |-> IF Fifo THEN 0 ELSE p,
                      result |-> "TimedOut", ready |-> FALSE]]
    /\ pc' = [pc EXCEPT ![t] = "blocked"]
    /\ clock' = [clock EXCEPT ![t] = deadline]
    /\ UNCHANGED <<status, freed, count, ledger, owed>>

\* WaitFor returns: SignalAll, a spurious wake-up, the deadline, or the 10 ms
\* after which an endless wait looks for pending guest signals.
Wake(t) ==
    /\ pc[t] = "blocked"
    /\ pc' = [pc EXCEPT ![t] = "polling"]
    /\ UNCHANGED <<status, freed, count, waiting, waiter, clock, ledger, owed>>

\* The deadline of a timed wait passes.
Expire(t) ==
    /\ clock[t] = "running"
    /\ clock' = [clock EXCEPT ![t] = "expired"]
    /\ UNCHANGED <<status, freed, count, waiting, waiter, pc, ledger, owed>>

\* Bug: the caller returns without RemoveWaiter.
LeaveQueued(t, result) ==
    /\ waiter' = [waiter EXCEPT ![t] = NoWaiter]
    /\ pc' = [pc EXCEPT ![t] = "idle"]
    /\ clock' = [clock EXCEPT ![t] = "none"]
    /\ Settle(waiter[t].need, WaitCode[result])
    /\ UNCHANGED <<status, freed, count, waiting>>

\* A caller leaves Wait with a result and takes its waiter off the queue.
Leave(t, result) ==
    /\ waiting' = RemoveWaiter(t)
    /\ waiter' = [waiter EXCEPT ![t] = NoWaiter]
    /\ pc' = [pc EXCEPT ![t] = "idle"]
    /\ clock' = [clock EXCEPT ![t] = "none"]
    /\ Settle(waiter[t].need, WaitCode[result])
    /\ UNCHANGED <<status, freed, count>>

\* Sleep again.
Block(t) ==
    /\ pc' = [pc EXCEPT ![t] = "blocked"]
    /\ UNCHANGED <<status, freed, count, waiting, waiter, clock, ledger, owed>>

\* Bug: the loop looks at the clock before it looks at ready.
RecheckClockFirst(t) ==
    /\ pc[t] = "polling"
    /\ IF clock[t] = "expired" THEN Leave(t, "TimedOut")
       ELSE IF waiter[t].ready THEN Leave(t, waiter[t].result)
       ELSE Block(t)

\* Bug: only a grant ends the loop early.
RecheckGrantsOnly(t) ==
    /\ pc[t] = "polling"
    /\ IF waiter[t].ready /\ waiter[t].result = "Ok" THEN Leave(t, "Ok")
       ELSE IF clock[t] = "expired" THEN Leave(t, "TimedOut")
       ELSE Block(t)

\* Back under m_mutex: the loop looks at ready first, then at the clock.
Recheck(t) ==
    /\ pc[t] = "polling"
    /\ \/ /\ waiter[t].ready
          /\ Leave(t, waiter[t].result)
       \/ /\ ~waiter[t].ready
          /\ clock[t] = "expired"
          /\ Leave(t, "TimedOut")
       \/ /\ ~waiter[t].ready
          /\ clock[t] # "expired"
          /\ Block(t)

-----------------------------------------------------------------------------
(***************************************************************************)
(* KernelSignalSema, KernelCancelSema and KernelDeleteSema.                *)
(***************************************************************************)

\* Every refused call leaves the semaphore alone; it is a stuttering step.
Signal(t, n) ==
    /\ CanCall(t)
    /\ status # "Deleted"
    /\ LET sum == Wrap(count + n)
       IN  /\ sum <= MaxCount
           /\ count' = Budget(sum)[Len(waiting)]
           /\ Decide(Granted(sum), "Ok")
    /\ ledger' = Wrap(ledger + n)
    /\ UNCHANGED <<status, freed, waiting, pc, clock, owed>>

\* *num_waiting_threads, the number Cancel reports, is added to owed.
Cancel(t, n) ==
    /\ CanCall(t)
    /\ n <= MaxCount
    /\ status # "Deleted"
    /\ count' = IF n < 0 THEN InitCount ELSE n
    /\ Decide({u \in Threads : Pending(u)}, "Canceled")
    /\ ledger' = Wrap(ledger + count' - count)
    /\ owed' = owed + Cardinality({u \in Threads : Pending(u)})
    /\ UNCHANGED <<status, freed, waiting, pc, clock>>

\* The destructor's draining loop: the memory is released at once when nobody
\* is queued, otherwise the destructor sleeps.
Drain(t) ==
    /\ freed' = (waiting = << >>)
    /\ pc' = [pc EXCEPT ![t] = IF waiting = << >> THEN "idle" ELSE "deleting"]

\* Bug: the destructor overwrites results that were already decided.
DeleteOverwrites(t) ==
    /\ ~freed
    /\ pc[t] = "idle"
    /\ status = "Set"
    /\ status' = "Deleted"
    /\ Decide(Queued, "Deleted")
    /\ Drain(t)
    /\ UNCHANGED <<count, waiting, clock, ledger, owed>>

\* Bug: the destructor leaves the waiters without a result.
DeleteSilent(t) ==
    /\ ~freed
    /\ pc[t] = "idle"
    /\ status = "Set"
    /\ status' = "Deleted"
    /\ Drain(t)
    /\ UNCHANGED <<count, waiting, waiter, clock, ledger, owed>>

\* The destructor up to where it sleeps.  Deleting a semaphore twice is
\* outside the guest's contract: the second call would use a dead object.
Delete(t) ==
    /\ ~freed
    /\ pc[t] = "idle"
    /\ status = "Set"
    /\ status' = "Deleted"
    /\ Decide({u \in Threads : Pending(u)}, "Deleted")
    /\ Drain(t)
    /\ UNCHANGED <<count, waiting, clock, ledger, owed>>

\* Bug: the destructor does not wait for the queue to empty.
DeleteAtOnce(t) ==
    /\ pc[t] = "deleting"
    /\ freed' = TRUE
    /\ pc' = [pc EXCEPT ![t] = "idle"]
    /\ UNCHANGED <<status, count, waiting, waiter, clock, ledger, owed>>

\* The sleeping destructor finds the queue empty and the memory is released.
DeleteDrain(t) ==
    /\ pc[t] = "deleting"
    /\ waiting = << >>
    /\ freed' = TRUE
    /\ pc' = [pc EXCEPT ![t] = "idle"]
    /\ UNCHANGED <<status, count, waiting, waiter, clock, ledger, owed>>

-----------------------------------------------------------------------------
Next ==
    \E t \in Threads :
        \/ \E n \in NeedCounts :
              \/ WaitReturns(t, n)
              \/ Poll(t, n)
              \/ \E p \in Priorities, d \in {"none", "running"} : WaitBlocks(t, n, p, d)
        \/ \E n \in SignalCounts : Signal(t, n)
        \/ \E n \in CancelCounts : Cancel(t, n)
        \/ Delete(t)
        \/ DeleteDrain(t)
        \/ Wake(t)
        \/ Expire(t)
        \/ Recheck(t)

Spec == Init /\ [][Next]_vars

\* WaitFor returns within its timeout, dispatched signal handlers come back,
\* a thread that wants m_mutex gets it, time passes, and the draining loop
\* polls every 10 us.  Nothing makes a guest thread call anything.
Fairness ==
    \A t \in Threads :
        /\ WF_vars(Wake(t))
        /\ WF_vars(Recheck(t))
        /\ WF_vars(Expire(t))
        /\ WF_vars(DeleteDrain(t))

FairSpec == Spec /\ Fairness

-----------------------------------------------------------------------------
(***************************************************************************)
(* Properties.                                                             *)
(***************************************************************************)
WaitingThread ==
    [need : 0 .. MaxCount, priority : Nat, result : Results, ready : BOOLEAN]

\* Every variable stays in the range of the C++ object it stands for.
TypeOK ==
    /\ status \in {"Set", "Deleted"}
    /\ freed \in BOOLEAN
    /\ count \in Ints
    /\ waiting \in Seq(Threads)
    /\ waiter \in [Threads -> WaitingThread]
    /\ pc \in [Threads -> {"idle", "blocked", "polling", "deleting"}]
    /\ clock \in [Threads -> {"none", "running", "expired"}]
    /\ ledger \in Ints
    /\ owed \in Int

\* m_waiting_threads holds the stack record of exactly the threads that are
\* inside the loop of Wait, each once: a record that stayed behind would be a
\* dangling pointer, a missing one a caller nobody can wake.
QueueIsCallers ==
    /\ Queued = {t \in Threads : pc[t] \in {"blocked", "polling"}}
    /\ \A i, j \in DOMAIN waiting : waiting[i] = waiting[j] => i = j

\* When KernelDeleteSema has released the object no thread is still inside
\* one of its methods.
NoCallerOutlivesSema == freed => \A t \in Threads : pc[t] = "idle"

\* No caller sleeps on tokens that are there: whoever is queued without a
\* result needs more than m_count holds, so no wake-up has been lost however
\* waits, polls, timeouts, signals and cancellations interleave.
NoMissedGrant == \A t \in Threads : Pending(t) => waiter[t].need > count

\* The tokens a queued caller was granted and has not returned with yet.
Holding(t) ==
    IF waiter[t].ready /\ waiter[t].result = "Ok" THEN waiter[t].need ELSE 0

Holdings == [i \in 1 .. Len(waiting) |-> Holding(waiting[i])]

\* The sums of the first 0, 1, 2, ... elements of a sequence of numbers.
Sums(v) ==
    LET sum[i \in 0 .. Len(v)] == IF i = 0 THEN 0 ELSE sum[i - 1] + v[i]
    IN  sum

\* Tokens are neither lost nor handed out twice: what was put in by
\* KernelCreateSema, KernelSignalSema and KernelCancelSema and has not been
\* taken by a call that returned OK is in m_count or in a grant on its way to
\* its caller, even when that caller's deadline passes first.  The equation is
\* modulo the width of int, since nothing bounds a signal count from above.
TokenConservation ==
    (count + Sums(Holdings)[Len(waiting)] - ledger) % (2 * (IntMax + 1)) = 0

\* Each thread that KernelCancelSema counted in *num_waiting_threads, and no
\* other, returns ECANCELED: not ETIMEDOUT when its deadline passes before it
\* runs, not EACCES when the semaphore is deleted before it runs.
CancelAccounting ==
    owed = Cardinality({t \in Queued : waiter[t].ready /\ waiter[t].result = "Canceled"})

\* Signal counts for which m_count + signal_count cannot overflow an int.
SignalsFit == \A n \in SignalCounts : 0 <= n /\ n <= IntMax - MaxCount

\* m_count never passes m_max_count, whatever is signalled; it stays
\* non-negative as long as guests signal counts that fit.
CountInRange == count <= MaxCount /\ (SignalsFit => count >= 0)

\* The queue is ordered by priority (all equal in FIFO mode).
PriorityOrder ==
    \A i, j \in DOMAIN waiting :
        i < j => waiter[waiting[i]].priority <= waiter[waiting[j]].priority

\* A signal never serves a waiter while one of strictly better priority (a
\* smaller number) stays without a result, unless that one needs more tokens.
NoPriorityInversion ==
    [][\A t, u \in Threads :
          /\ Pending(t) /\ Pending(u)
          /\ waiter[t].priority < waiter[u].priority
          /\ waiter'[u].ready /\ waiter'[u].result = "Ok"
          /\ Pending(t)'
          => waiter[t].need > waiter[u].need]_vars

\* A wait comes back when it has a deadline, signalled or not, and when it has
\* been given a result, deadline or not.
WaitEnds ==
    \A t \in Threads :
        (clock[t] # "none" \/ (pc[t] = "blocked" /\ waiter[t].ready)) ~> pc[t] = "idle"

\* KernelDeleteSema returns: its draining loop cannot wait for ever.
DeleteEnds == status = "Deleted" ~> freed
=============================================================================
