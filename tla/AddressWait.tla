------------------------------ MODULE AddressWait ------------------------------
(***************************************************************************)
(* What KernelSyncOnAddressWait and KernelSyncOnAddressWake promise for    *)
(* one address: the threads that wait stand in a queue, a wake takes as    *)
(* many as it asks for from its front, in one step, and whoever was taken  *)
(* returns OK.  A waiter may also leave by itself, with OK when the word   *)
(* differs from what it expects and with ETIMEDOUT when its time is over.  *)
(***************************************************************************)
EXTENDS Integers, Sequences, SequencesExt, SeqFilter

CONSTANTS
    Threads,    \* the threads that use the address
    Words,      \* the values of the word at the address
    WakeCounts  \* the counts guests pass to Wake

VARIABLES
    word,       \* the word at the address
    queue,      \* the waiting threads, the one that came first in front
    woken,      \* the threads a wake has taken and that have not returned
    expected,   \* the word each thread waits to see changed
    result      \* what each thread's latest wait returned

vars == <<word, queue, woken, expected, result>>

Waiting(t) == t \in ToSet(queue) \cup woken

Init ==
    /\ word \in Words
    /\ queue = << >>
    /\ woken = {}
    /\ expected \in [Threads -> Words]
    /\ result = [t \in Threads |-> "none"]

Store(w) ==
    /\ word' = w
    /\ UNCHANGED <<queue, woken, expected, result>>

\* A wait that ends before it queues.
Pass(t, e) ==
    /\ ~Waiting(t)
    /\ result' = [result EXCEPT ![t] = IF word # e THEN "OK" ELSE "ETIMEDOUT"]
    /\ expected' = [expected EXCEPT ![t] = e]
    /\ UNCHANGED <<word, queue, woken>>

Enter(t, e) ==
    /\ ~Waiting(t)
    /\ word = e
    /\ queue' = Append(queue, t)
    /\ expected' = [expected EXCEPT ![t] = e]
    /\ result' = [result EXCEPT ![t] = "none"]
    /\ UNCHANGED <<word, woken>>

Wake(n) ==
    LET k == IF n < Len(queue) THEN n ELSE Len(queue)
    IN  /\ woken' = woken \cup ToSet(SubSeq(queue, 1, k))
        /\ queue' = SubSeq(queue, k + 1, Len(queue))
        /\ UNCHANGED <<word, expected, result>>

Return(t) ==
    /\ t \in woken
    /\ woken' = woken \ {t}
    /\ result' = [result EXCEPT ![t] = "OK"]
    /\ UNCHANGED <<word, queue, expected>>

Leave(t) ==
    /\ t \in ToSet(queue)
    /\ queue' = Filter(queue, Threads \ {t})
    /\ result' = [result EXCEPT ![t] = IF word # expected[t] THEN "OK" ELSE "ETIMEDOUT"]
    /\ UNCHANGED <<word, woken, expected>>

Next ==
    \/ \E w \in Words : Store(w)
    \/ \E n \in WakeCounts : Wake(n)
    \/ \E t \in Threads :
          \/ \E e \in Words : Pass(t, e) \/ Enter(t, e)
          \/ Return(t)
          \/ Leave(t)

Spec == Init /\ [][Next]_vars
=============================================================================
