-------------------------- MODULE SyncOnAddressFutex ---------------------------
(***************************************************************************)
(* The Linux half of kernel/syncOnAddress.cpp: WaitLinux and WakeLinux on  *)
(* a futex, for one address.                                               *)
(*                                                                         *)
(* A wait is a series of FUTEX_WAIT calls of at most 10 ms with guest      *)
(* signals dispatched in between; the futex compares the low 32 bits of    *)
(* the word only, WaitLinux compares all of Wait64's.  Wait32 is the case  *)
(* of one high half.  Unlike WaitPortable a thread leaves no trace at the  *)
(* address while it is not in the system call.                             *)
(*                                                                         *)
(* "Bug:" marks broken variants, as in KernelSema.                         *)
(***************************************************************************)
EXTENDS Integers, FiniteSets, FiniteSetsExt

CONSTANTS
    Threads,    \* the threads that use the address
    Highs,      \* the values of the high half of the word
    Lows,       \* the values of the low half of the word
    WakeCounts  \* the counts guests pass to Wake

ASSUME FutexAssumption ==
    /\ IsFiniteSet(Threads)
    /\ WakeCounts \subseteq Nat
    /\ Cardinality(Threads) \in WakeCounts

VARIABLES
    word,       \* the word at the address
    expected,   \* what each thread expects of the word
    clock,      \* the deadline of each wait
    result,     \* what each thread's latest wait returned
    pc,         \* where each thread is
    addressed   \* the threads whose latest wait had begun to sleep, and was
                \* not over, when a wake of everybody came (history)

vars == <<word, expected, clock, result, pc, addressed>>

Words == [hi : Highs, lo : Lows]

Inside == {t \in Threads : pc[t] \in {"calling", "parked", "polling"}}

Init ==
    /\ word \in Words
    /\ expected \in [Threads -> {word}]
    /\ clock = [t \in Threads |-> "none"]
    /\ result = [t \in Threads |-> "none"]
    /\ pc = [t \in Threads |-> "idle"]
    /\ addressed = {}

\* Guest code stores a new word; it calls Wake next.
Store(t, w) ==
    /\ pc[t] = "idle"
    /\ word' = w
    /\ pc' = [pc EXCEPT ![t] = "stored"]
    /\ UNCHANGED <<expected, clock, result, addressed>>

-----------------------------------------------------------------------------
(***************************************************************************)
(* WaitLinux.                                                              *)
(***************************************************************************)

Return(t, res) ==
    /\ result' = [result EXCEPT ![t] = res]
    /\ clock' = [clock EXCEPT ![t] = "none"]
    /\ pc' = [pc EXCEPT ![t] = "idle"]

\* The first look at the word ends the wait, or the thread is on its way into
\* the system call.  A timeout of zero is a deadline that passes at once: the
\* first round ignores it and makes a system call of no duration.
WaitBegins(t, w, deadline) ==
    /\ pc[t] = "idle"
    /\ expected' = [expected EXCEPT ![t] = w]
    /\ addressed' = addressed \ {t}
    /\ \/ /\ word # w
          /\ Return(t, "OK")
       \/ /\ word = w
          /\ clock' = [clock EXCEPT ![t] = deadline]
          /\ result' = [result EXCEPT ![t] = "none"]
          /\ pc' = [pc EXCEPT ![t] = "calling"]
    /\ UNCHANGED word

\* Bug: the futex is given the word it has now instead of the expected one.
FutexWaitAnyway(t) ==
    /\ pc[t] = "calling"
    /\ pc' = [pc EXCEPT ![t] = "parked"]
    /\ UNCHANGED <<word, expected, clock, result, addressed>>

\* FUTEX_WAIT compares the low half and sleeps in one step; EAGAIN is OK.
FutexWait(t) ==
    /\ pc[t] = "calling"
    /\ \/ word.lo # expected[t].lo /\ Return(t, "OK")
       \/ /\ word.lo = expected[t].lo
          /\ pc' = [pc EXCEPT ![t] = "parked"]
          /\ UNCHANGED <<clock, result>>
    /\ UNCHANGED <<word, expected, addressed>>

\* FUTEX_WAIT fails with ETIMEDOUT after at most 10 ms, or with EINTR, and
\* the thread dispatches guest signals.
SliceEnds(t) ==
    /\ pc[t] = "parked"
    /\ pc' = [pc EXCEPT ![t] = "polling"]
    /\ UNCHANGED <<word, expected, clock, result, addressed>>

\* The deadline passes.
Expire(t) ==
    /\ clock[t] = "running"
    /\ clock' = [clock EXCEPT ![t] = "expired"]
    /\ UNCHANGED <<word, expected, result, pc, addressed>>

\* Bug: the word is truncated before it is compared.
NextSliceTruncated(t) ==
    /\ pc[t] = "polling"
    /\ \/ word.lo # expected[t].lo /\ Return(t, "OK")
       \/ /\ word.lo = expected[t].lo
          /\ clock[t] = "expired"
          /\ Return(t, "ETIMEDOUT")
       \/ /\ word.lo = expected[t].lo
          /\ clock[t] # "expired"
          /\ pc' = [pc EXCEPT ![t] = "calling"]
          /\ UNCHANGED <<clock, result>>
    /\ UNCHANGED <<word, expected, addressed>>

\* The word decides first, then the deadline.  The clock is read before the
\* call and again in GetWaitSliceMicros, each time with another look at the
\* word when the deadline has passed: the last look is the one modelled.
NextSlice(t) ==
    /\ pc[t] = "polling"
    /\ \/ word # expected[t] /\ Return(t, "OK")
       \/ /\ word = expected[t]
          /\ clock[t] = "expired"
          /\ Return(t, "ETIMEDOUT")
       \/ /\ word = expected[t]
          /\ clock[t] # "expired"
          /\ pc' = [pc EXCEPT ![t] = "calling"]
          /\ UNCHANGED <<clock, result>>
    /\ UNCHANGED <<word, expected, addressed>>

-----------------------------------------------------------------------------
(***************************************************************************)
(* WakeLinux.                                                              *)
(***************************************************************************)

Parked == {t \in Threads : pc[t] = "parked"}

\* FUTEX_WAKE ends the sleep of n parked threads, or of all if there are
\* fewer: their waits return OK.  A count of zero makes no system call.
Wake(t, n) ==
    /\ \/ pc[t] = "idle"
       \/ pc[t] = "stored" /\ n = Cardinality(Threads)
    /\ \E S \in kSubset(IF n < Cardinality(Parked) THEN n ELSE Cardinality(Parked), Parked) :
          /\ result' = [u \in Threads |-> IF u \in S THEN "OK" ELSE result[u]]
          /\ clock' = [u \in Threads |-> IF u \in S THEN "none" ELSE clock[u]]
          /\ pc' = [u \in Threads |-> IF u \in S \cup {t} THEN "idle" ELSE pc[u]]
    /\ addressed' = IF n = Cardinality(Threads)
                    THEN addressed \cup {u \in Threads : /\ pc[u] \in {"parked", "polling"}
                                                         /\ clock[u] # "expired"}
                    ELSE addressed
    /\ UNCHANGED <<word, expected>>

-----------------------------------------------------------------------------
Next ==
    \E t \in Threads :
        \/ \E w \in Words : Store(t, w)
        \/ \E w \in Words, d \in {"none", "running"} : WaitBegins(t, w, d)
        \/ FutexWait(t)
        \/ SliceEnds(t)
        \/ Expire(t)
        \/ NextSlice(t)
        \/ \E n \in WakeCounts : Wake(t, n)

Spec == Init /\ [][Next]_vars

\* A system call of a slice comes back, signal handlers return and deadlines
\* pass.
Fairness ==
    \A t \in Threads :
        /\ WF_vars(FutexWait(t))
        /\ WF_vars(SliceEnds(t))
        /\ WF_vars(Expire(t))
        /\ WF_vars(NextSlice(t))

FairSpec == Spec /\ Fairness

-----------------------------------------------------------------------------
(***************************************************************************)
(* Properties.                                                             *)
(***************************************************************************)

\* A wait cannot miss a store between its own look at the word and the
\* futex's: a thread parked on a low half that has changed has a waker still
\* to come.
NoLostStore ==
    \A t \in Parked : word.lo # expected[t].lo => \E u \in Threads : pc[u] = "stored"

\* A wait returns if it has a timeout or its word has changed for good, woken
\* or not, also when only the half changed that the futex does not see.
WaitEnds ==
    \A t \in Threads :
        t \in Inside ~> (t \notin Inside \/ (clock[t] = "none" /\ word = expected[t]))

\* What TestWakeOneThenAll asks: a thread that has begun to sleep and still has
\* time left when a wake of everybody comes returns success.
WokenSucceeds == \A t \in addressed : result[t] # "ETIMEDOUT"
=============================================================================
