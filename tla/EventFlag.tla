------------------------------ MODULE EventFlag ------------------------------
(***************************************************************************)
(* The kernel event flag, class KernelEventFlagPrivate of                  *)
(* kernel/eventFlag.cpp: a set of bits that threads set, clear and wait    *)
(* for, with cancellation and deletion.                                    *)
(*                                                                         *)
(* Every method holds m_mutex except where it sleeps: in the condition     *)
(* variable of Wait, and in the loops of Set, Clear, Cancel and the        *)
(* destructor that poll m_status or m_waiting_threads every 10 us.  An     *)
(* action is one stretch between two points where m_mutex is free.         *)
(*                                                                         *)
(* Set, Clear and Cancel make the emulator exit when they find the flag    *)
(* already Deleted (EXIT_NOT_IMPLEMENTED): that call is not a step here.   *)
(* A guest signal handler that runs inside a wait and calls Set, Clear or  *)
(* Poll acts on the flag like another thread.                              *)
(*                                                                         *)
(* "Bug:" marks broken variants, as in KernelSema.                         *)
(***************************************************************************)
EXTENDS Integers, FiniteSets

CONSTANTS
    Threads,    \* the guest threads that use the flag
    Bits,       \* the bit positions guests use out of the 64
    InitBits,   \* KernelCreateEventFlag's init_pattern
    Requests,   \* the waits guests ask for: pattern, wait mode, clear mode
    Patterns    \* the patterns guests pass to Set, Clear and Cancel

Request ==
    [bits : (SUBSET Bits) \ {{}}, wait : {"And", "Or"}, clear : {"None", "All", "Bits"}]

\* KernelWaitEventFlag refuses an empty pattern and unknown modes.
ASSUME FlagAssumption ==
    /\ IsFiniteSet(Threads)
    /\ InitBits \subseteq Bits
    /\ Requests \subseteq Request
    /\ Patterns \subseteq SUBSET Bits

VARIABLES
    status,     \* m_status
    freed,      \* the destructor has returned
    single,     \* m_single_thread: only one thread may wait
    bits,       \* m_bits
    waiters,    \* m_waiting_threads
    pc,         \* where each thread is
    req,        \* what each waiting thread waits for
    call,       \* what each spinning thread will do
    clock,      \* the deadline of each wait
    victims     \* history: the waiters the cancellation in progress counted

vars == <<status, freed, single, bits, waiters, pc, req, call, clock, victims>>

None == [op |-> "none", bits |-> {}]
NoRequest == [bits |-> {}, wait |-> "And", clear |-> "None"]

\* Threads that are counted in m_waiting_threads: asleep in the condition
\* variable, or woken and on their way back to m_mutex.
Inside == {t \in Threads : pc[t] \in {"asleep", "woken"}}

\* KernelCreateEventFlag.
Init ==
    /\ status = "Set"
    /\ freed = FALSE
    /\ single \in BOOLEAN
    /\ bits = InitBits
    /\ waiters = 0
    /\ pc = [t \in Threads |-> "idle"]
    /\ req = [t \in Threads |-> NoRequest]
    /\ call = [t \in Threads |-> None]
    /\ clock = [t \in Threads |-> "none"]
    /\ victims = {}

-----------------------------------------------------------------------------
(***************************************************************************)
(* KernelWaitEventFlag and KernelPollEventFlag.                            *)
(***************************************************************************)
Satisfied(r) ==
    \/ r.wait = "And" /\ r.bits \subseteq bits
    \/ r.wait = "Or" /\ r.bits \cap bits # {}

\* What a successful wait leaves of the bits.
ClearBits(r) ==
    CASE r.clear = "All" -> {}
      [] r.clear = "Bits" -> bits \ r.bits
      [] r.clear = "None" -> bits

\* A single-thread flag turns a second waiter away (EPERM).
Admits == ~(single /\ waiters > 0)

\* Wait returns without sleeping: the bits are there, or the timeout is zero
\* (which is what Poll passes), or the flag has its one waiter already.
WaitReturns(t, r) ==
    /\ ~freed
    /\ pc[t] = "idle"
    /\ bits' = IF Admits /\ Satisfied(r) THEN ClearBits(r) ELSE bits
    /\ UNCHANGED <<status, freed, single, waiters, pc, req, call, clock, victims>>

\* Wait goes to sleep.  It does not look at m_status first.
WaitBlocks(t, r, deadline) ==
    /\ ~freed
    /\ pc[t] = "idle"
    /\ Admits
    /\ ~Satisfied(r)
    /\ waiters' = waiters + 1
    /\ pc' = [pc EXCEPT ![t] = "asleep"]
    /\ req' = [req EXCEPT ![t] = r]
    /\ clock' = [clock EXCEPT ![t] = deadline]
    /\ UNCHANGED <<status, freed, single, bits, call, victims>>

\* The deadline of a timed wait passes: WaitFor returns.
Expire(t) ==
    /\ clock[t] = "running"
    /\ clock' = [clock EXCEPT ![t] = "expired"]
    /\ pc' = [pc EXCEPT ![t] = "woken"]
    /\ UNCHANGED <<status, freed, single, bits, waiters, req, call, victims>>

\* The condition variable returns without a signal: spuriously or, in an
\* endless wait, because CondVar::Wait comes back every 10 ms.
Poll10ms(t) ==
    /\ pc[t] = "asleep"
    /\ pc' = [pc EXCEPT ![t] = "woken"]
    /\ UNCHANGED <<status, freed, single, bits, waiters, req, call, clock, victims>>

\* The caller returns from Wait.
Leave(t) ==
    /\ waiters' = waiters - 1
    /\ pc' = [pc EXCEPT ![t] = "idle"]
    /\ req' = [req EXCEPT ![t] = NoRequest]
    /\ clock' = [clock EXCEPT ![t] = "none"]

\* Bug: the loop looks at the bits before it looks at m_status.
RecheckBitsFirst(t) ==
    /\ pc[t] = "woken"
    /\ \/ /\ Satisfied(req[t])
          /\ Leave(t)
          /\ bits' = ClearBits(req[t])
          /\ UNCHANGED <<status, freed, single, call, victims>>
       \/ /\ ~Satisfied(req[t])
          /\ status # "Set"
          /\ Leave(t)
          /\ victims' = victims \ {t}
          /\ UNCHANGED <<status, freed, single, bits, call>>
       \/ /\ ~Satisfied(req[t])
          /\ status = "Set"
          /\ clock[t] # "expired"
          /\ pc' = [pc EXCEPT ![t] = "asleep"]
          /\ UNCHANGED <<status, freed, single, bits, waiters, req, call, clock, victims>>

\* Back under m_mutex: m_status first, then the bits, then the clock; a
\* waiter that finds none of them goes back to sleep.
Recheck(t) ==
    /\ pc[t] = "woken"
    /\ \/ /\ status # "Set"                             \* ECANCELED or EACCES
          /\ Leave(t)
          /\ victims' = IF status = "Canceled" THEN victims \ {t} ELSE victims
          /\ UNCHANGED <<status, freed, single, bits, call>>
       \/ /\ status = "Set"
          /\ Satisfied(req[t])                          \* OK
          /\ Leave(t)
          /\ bits' = ClearBits(req[t])
          /\ UNCHANGED <<status, freed, single, call, victims>>
       \/ /\ status = "Set"
          /\ ~Satisfied(req[t])
          /\ clock[t] = "expired"                       \* ETIMEDOUT
          /\ Leave(t)
          /\ UNCHANGED <<status, freed, single, bits, call, victims>>
       \/ /\ status = "Set"
          /\ ~Satisfied(req[t])
          /\ clock[t] # "expired"
          /\ pc' = [pc EXCEPT ![t] = "asleep"]
          /\ UNCHANGED <<status, freed, single, bits, waiters, req, call, clock, victims>>

-----------------------------------------------------------------------------
(***************************************************************************)
(* Set, Clear, Cancel and the destructor.  Each waits for m_status to be   *)
(* Set, then does its work.                                                *)
(***************************************************************************)

\* pc after SignalAll, with thread t at place p.
SignalAll(t, p) ==
    [u \in Threads |-> IF u = t THEN p ELSE IF pc[u] = "asleep" THEN "woken" ELSE pc[u]]

\* Bug: Set signals one waiter.
PerformSetSignal(t, b) ==
    /\ bits' = bits \cup b
    /\ \/ \E u \in Threads \ {t} :
             /\ pc[u] = "asleep"
             /\ pc' = [pc EXCEPT ![t] = "idle", ![u] = "woken"]
       \/ /\ \A u \in Threads : pc[u] # "asleep"
          /\ pc' = [pc EXCEPT ![t] = "idle"]
    /\ UNCHANGED <<status, freed, single, victims>>

PerformSet(t, b) ==
    /\ bits' = bits \cup b
    /\ pc' = SignalAll(t, "idle")
    /\ UNCHANGED <<status, freed, single, victims>>

PerformClear(t, b) ==
    /\ bits' = bits \cap b
    /\ pc' = [pc EXCEPT ![t] = "idle"]
    /\ UNCHANGED <<status, freed, single, victims>>

\* *num_waiting_threads reports the threads that become the victims.  With no
\* one to wait for m_status is Set again before m_mutex is released.
PerformCancel(t, b) ==
    /\ bits' = b
    /\ status' = IF waiters > 0 THEN "Canceled" ELSE "Set"
    /\ victims' = Inside
    /\ pc' = SignalAll(t, IF waiters > 0 THEN "draining" ELSE "idle")
    /\ UNCHANGED <<freed, single>>

\* Bug: the destructor does not wait for the waiters.
PerformDeleteAtOnce(t) ==
    /\ status' = "Deleted"
    /\ freed' = TRUE
    /\ pc' = SignalAll(t, "idle")
    /\ UNCHANGED <<single, bits, victims>>

PerformDelete(t) ==
    /\ status' = "Deleted"
    /\ freed' = (waiters = 0)
    /\ pc' = SignalAll(t, IF waiters > 0 THEN "draining" ELSE "idle")
    /\ UNCHANGED <<single, bits, victims>>

Perform(t, op, b) ==
    \/ op = "Set" /\ PerformSet(t, b)
    \/ op = "Clear" /\ PerformClear(t, b)
    \/ op = "Cancel" /\ PerformCancel(t, b)
    \/ op = "Delete" /\ PerformDelete(t)

\* A call arrives: it is carried out at once, or it starts to spin because a
\* cancellation is draining its victims.
Enter(t, op, b) ==
    /\ ~freed
    /\ pc[t] = "idle"
    /\ \/ /\ status = "Set"
          /\ Perform(t, op, b)
          /\ UNCHANGED <<waiters, req, call, clock>>
       \/ /\ status = "Canceled"
          /\ pc' = [pc EXCEPT ![t] = "spinning"]
          /\ call' = [call EXCEPT ![t] = [op |-> op, bits |-> b]]
          /\ UNCHANGED <<status, freed, single, bits, waiters, req, clock, victims>>

Set(t, b) == Enter(t, "Set", b)
Clear(t, b) == Enter(t, "Clear", b)
Cancel(t, b) == Enter(t, "Cancel", b)

\* Guests delete a flag once.
Delete(t) == (\A u \in Threads : call[u].op # "Delete") /\ Enter(t, "Delete", {})

\* A spinning call finds m_status back at Set.
Retry(t) ==
    /\ ~freed
    /\ pc[t] = "spinning"
    /\ status = "Set"
    /\ Perform(t, call[t].op, call[t].bits)
    /\ call' = [call EXCEPT ![t] = None]
    /\ UNCHANGED <<waiters, req, clock>>

\* Bug: Cancel forgets to put m_status back.
CancelDrainedStaysCanceled(t) ==
    /\ pc[t] = "draining"
    /\ status = "Canceled"
    /\ waiters = 0
    /\ pc' = [pc EXCEPT ![t] = "idle"]
    /\ UNCHANGED <<status, freed, single, bits, waiters, req, call, clock, victims>>

\* The draining loop of Cancel ends.
CancelDrained(t) ==
    /\ pc[t] = "draining"
    /\ status = "Canceled"
    /\ waiters = 0
    /\ status' = "Set"
    /\ pc' = [pc EXCEPT ![t] = "idle"]
    /\ UNCHANGED <<freed, single, bits, waiters, req, call, clock, victims>>

\* The draining loop of the destructor ends and the memory is released.
DeleteDrained(t) ==
    /\ pc[t] = "draining"
    /\ status = "Deleted"
    /\ waiters = 0
    /\ freed' = TRUE
    /\ pc' = [pc EXCEPT ![t] = "idle"]
    /\ UNCHANGED <<status, single, bits, waiters, req, call, clock, victims>>

-----------------------------------------------------------------------------
Next ==
    \E t \in Threads :
        \/ \E r \in Requests :
              \/ WaitReturns(t, r)
              \/ \E d \in {"none", "running"} : WaitBlocks(t, r, d)
        \/ Expire(t)
        \/ Poll10ms(t)
        \/ Recheck(t)
        \/ \E b \in Patterns : Set(t, b) \/ Clear(t, b) \/ Cancel(t, b)
        \/ Delete(t)
        \/ Retry(t)
        \/ CancelDrained(t)
        \/ DeleteDrained(t)

Spec == Init /\ [][Next]_vars

\* A woken thread gets m_mutex, endless waits come back every 10 ms, deadlines
\* pass, and the spinning loops poll every 10 us.  A timed wait is not assumed
\* to come back before its deadline unless it is signalled.
Fairness ==
    \A t \in Threads :
        /\ WF_vars(Recheck(t))
        /\ WF_vars(clock[t] = "none" /\ Poll10ms(t))
        /\ WF_vars(Expire(t))
        /\ WF_vars(CancelDrained(t))
        /\ WF_vars(DeleteDrained(t))
        /\ WF_vars(Retry(t))

FairSpec == Spec /\ Fairness

-----------------------------------------------------------------------------
(***************************************************************************)
(* Properties.                                                             *)
(***************************************************************************)

\* Nobody sleeps on bits that are there: a thread that is in the condition
\* variable and has not been signalled still misses some of its bits, however
\* sets, clears, cancellations and late waits interleave.
NoLostSet == \A t \in Threads : pc[t] = "asleep" => ~Satisfied(req[t])

\* Every thread that KernelCancelEventFlag counted returns ECANCELED: as long
\* as it has not, it is still inside and the flag still Canceled, so that no
\* second cancellation, set or deletion can give it another result.
CancelReachesVictims ==
    /\ victims \subseteq Inside
    /\ victims # {} => status = "Canceled"

\* When KernelDeleteEventFlag has released the flag no waiter is inside it,
\* not even one that called Wait after the deletion had started.
WaitersLeaveBeforeFree == freed => Inside = {}

\* From some time on no thread starts a wait that blocks.
WaitsPause ==
    <>[][\A t \in Threads : ~(pc[t] = "idle" /\ pc'[t] = "asleep")]_vars

\* A wait with a deadline comes back.  KernelCancelEventFlag and
\* KernelDeleteEventFlag return once threads stop coming back to wait, and a
\* Set, Clear or Cancel that met a cancellation is then carried out, unless a
\* deletion overtakes it.  Without the condition they need not: the draining
\* loop accepts newcomers, and with a thread that waits again as soon as it is
\* canceled m_waiting_threads may be positive each time the loop looks.
CallsEnd ==
    /\ \A t \in Threads : clock[t] # "none" ~> pc[t] = "idle"
    /\ WaitsPause =>
          \A t \in Threads :
              /\ pc[t] = "draining" ~> pc[t] # "draining"
              /\ pc[t] = "spinning" ~> (pc[t] # "spinning" \/ status = "Deleted")
=============================================================================
