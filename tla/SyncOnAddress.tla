----------------------------- MODULE SyncOnAddress -----------------------------
(***************************************************************************)
(* The portable half of kernel/syncOnAddress.cpp, built where there is no  *)
(* futex: WaitPortable, WakePortable and the registry of addresses with    *)
(* waiters.  One address is modelled.                                      *)
(*                                                                         *)
(* The registry maps the address to an entry, the entry has a mutex and    *)
(* the list of waiters.  RegisterPortableWaiter holds registry.mutex while *)
(* it locks the entry, and keeps the entry locked until the waiter sleeps  *)
(* or leaves; WakePortable does the same.  UnregisterPortableWaiter        *)
(* unlocks the entry before it locks the registry to erase it, and other   *)
(* threads may come in between.  An action is a stretch in which no mutex  *)
(* is released that another thread could take to the effect.               *)
(*                                                                         *)
(* "Bug:" marks broken variants, as in KernelSema.                         *)
(***************************************************************************)
EXTENDS Integers, Sequences, FiniteSets, SequencesExt, SeqFilter

CONSTANTS
    Threads,    \* the threads that use the address
    Words,      \* the values of the word at the address
    WakeCounts, \* the counts guests pass to Wake
    Entries,    \* bound: names for the entries, more than there are threads
    NoEntry     \* no entry

ASSUME AddressAssumption ==
    /\ IsFiniteSet(Threads)
    /\ WakeCounts \subseteq Nat \ {0}
    /\ Cardinality(Threads) \in WakeCounts
    /\ IsFiniteSet(Entries)
    /\ Cardinality(Entries) > Cardinality(Threads)
    /\ NoEntry \notin Entries

VARIABLES
    word,       \* the word at the address
    registry,   \* registry.entries for the address
    waiters,    \* the list of each entry
    home,       \* the entry each thread inside Wait holds a reference to
    requested,  \* wake_requested of each thread's PortableWaiter
    expected,   \* what each thread expects of the word
    clock,      \* the deadline of each wait
    result,     \* what each thread's latest wait returned
    pc          \* where each thread is

vars == <<word, registry, waiters, home, requested, expected, clock, result, pc>>

Inside == {t \in Threads : pc[t] \in {"asleep", "awake"}}

Init ==
    /\ word \in Words
    /\ registry = NoEntry
    /\ waiters = [e \in Entries |-> << >>]
    /\ home = [t \in Threads |-> NoEntry]
    /\ requested = [t \in Threads |-> FALSE]
    /\ expected \in [Threads -> {word}]
    /\ clock = [t \in Threads |-> "none"]
    /\ result = [t \in Threads |-> "none"]
    /\ pc = [t \in Threads |-> "idle"]

\* The entry RegisterPortableWaiter finds or makes: make_shared returns memory
\* that nobody refers to.
Entry ==
    IF registry # NoEntry THEN registry
    ELSE CHOOSE e \in Entries : \A u \in Threads : home[u] # e

\* Guest code stores a new word; it calls Wake next.
Store(t, w) ==
    /\ pc[t] = "idle"
    /\ word' = w
    /\ pc' = [pc EXCEPT ![t] = "stored"]
    /\ UNCHANGED <<registry, waiters, home, requested, expected, clock, result>>

-----------------------------------------------------------------------------
(***************************************************************************)
(* WaitPortable.                                                           *)
(***************************************************************************)

\* RegisterPortableWaiter finds or makes the entry, and the first look at the
\* word and the clock (a zero timeout) sends the thread away again.  With the
\* list empty the entry has to be erased from the registry.
WaitPasses(t, w) ==
    /\ pc[t] = "idle"
    /\ registry' = Entry
    /\ home' = [home EXCEPT ![t] = IF waiters[Entry] = << >> THEN Entry ELSE NoEntry]
    /\ expected' = [expected EXCEPT ![t] = w]
    /\ result' = [result EXCEPT ![t] = IF word # w THEN "OK" ELSE "ETIMEDOUT"]
    /\ pc' = [pc EXCEPT ![t] = IF waiters[Entry] = << >> THEN "erasing" ELSE "idle"]
    /\ UNCHANGED <<word, waiters, requested, clock>>

\* RegisterPortableWaiter, and the thread goes to sleep.
WaitBlocks(t, w, deadline) ==
    /\ pc[t] = "idle"
    /\ word = w
    /\ registry' = Entry
    /\ waiters' = [waiters EXCEPT ![Entry] = Append(@, t)]
    /\ home' = [home EXCEPT ![t] = Entry]
    /\ expected' = [expected EXCEPT ![t] = w]
    /\ clock' = [clock EXCEPT ![t] = deadline]
    /\ result' = [result EXCEPT ![t] = "none"]
    /\ pc' = [pc EXCEPT ![t] = "asleep"]
    /\ UNCHANGED <<word, requested>>

\* WaitFor returns, after a signal or after at most 10 ms, and the thread
\* dispatches guest signals without the entry's mutex.
EndSlice(t) ==
    /\ pc[t] = "asleep"
    /\ pc' = [pc EXCEPT ![t] = "awake"]
    /\ UNCHANGED <<word, registry, waiters, home, requested, expected, clock, result>>

\* The deadline passes.
Expire(t) ==
    /\ clock[t] = "running"
    /\ clock' = [clock EXCEPT ![t] = "expired"]
    /\ UNCHANGED <<word, registry, waiters, home, requested, expected, result, pc>>

\* The first half of UnregisterPortableWaiter, and the result of Wait.
Leave(t, res) ==
    LET e    == home[t]
        left == Filter(waiters[e], Threads \ {t})
    IN  /\ waiters' = [waiters EXCEPT ![e] = left]
        /\ home' = [home EXCEPT ![t] = IF left = << >> THEN e ELSE NoEntry]
        /\ pc' = [pc EXCEPT ![t] = IF left = << >> THEN "erasing" ELSE "idle"]
        /\ requested' = [requested EXCEPT ![t] = FALSE]
        /\ clock' = [clock EXCEPT ![t] = "none"]
        /\ result' = [result EXCEPT ![t] = res]
        /\ UNCHANGED <<word, registry, expected>>

\* Bug: the deadline is looked at before wake_requested.
RecheckClockFirst(t) ==
    /\ pc[t] = "awake"
    /\ \/ clock[t] = "expired" /\ word = expected[t] /\ Leave(t, "ETIMEDOUT")
       \/ /\ clock[t] # "expired" \/ word # expected[t]
          /\ word # expected[t] \/ requested[t]
          /\ Leave(t, "OK")
       \/ /\ word = expected[t]
          /\ ~requested[t]
          /\ clock[t] # "expired"
          /\ pc' = [pc EXCEPT ![t] = "asleep"]
          /\ UNCHANGED <<word, registry, waiters, home, requested, expected, clock, result>>

\* Bug: the loop does not look at the word again.
RecheckWakesOnly(t) ==
    /\ pc[t] = "awake"
    /\ \/ requested[t] /\ Leave(t, "OK")
       \/ ~requested[t] /\ clock[t] = "expired" /\ Leave(t, "ETIMEDOUT")
       \/ /\ ~requested[t]
          /\ clock[t] # "expired"
          /\ pc' = [pc EXCEPT ![t] = "asleep"]
          /\ UNCHANGED <<word, registry, waiters, home, requested, expected, clock, result>>

\* Back under the entry's mutex: a changed word or a wake end the wait with
\* OK, then the deadline ends it, otherwise the thread sleeps again.  The word
\* and the clock are read one after the other; wakes wait for the mutex, and a
\* store between the two reads counts as one after the wait has ended.
Recheck(t) ==
    /\ pc[t] = "awake"
    /\ \/ (word # expected[t] \/ requested[t]) /\ Leave(t, "OK")
       \/ /\ word = expected[t]
          /\ ~requested[t]
          /\ clock[t] = "expired"
          /\ Leave(t, "ETIMEDOUT")
       \/ /\ word = expected[t]
          /\ ~requested[t]
          /\ clock[t] # "expired"
          /\ pc' = [pc EXCEPT ![t] = "asleep"]
          /\ UNCHANGED <<word, registry, waiters, home, requested, expected, clock, result>>

\* Bug: the entry is erased without another look at its waiters.
EraseUnchecked(t) ==
    /\ pc[t] = "erasing"
    /\ registry' = IF registry = home[t] THEN NoEntry ELSE registry
    /\ home' = [home EXCEPT ![t] = NoEntry]
    /\ pc' = [pc EXCEPT ![t] = "idle"]
    /\ UNCHANGED <<word, waiters, requested, expected, clock, result>>

\* Bug: the entry is never erased.
EraseNothing(t) ==
    /\ pc[t] = "erasing"
    /\ home' = [home EXCEPT ![t] = NoEntry]
    /\ pc' = [pc EXCEPT ![t] = "idle"]
    /\ UNCHANGED <<word, registry, waiters, requested, expected, clock, result>>

\* The second half of UnregisterPortableWaiter.
Erase(t) ==
    /\ pc[t] = "erasing"
    /\ registry' = IF registry = home[t] /\ waiters[home[t]] = << >> THEN NoEntry ELSE registry
    /\ home' = [home EXCEPT ![t] = NoEntry]
    /\ pc' = [pc EXCEPT ![t] = "idle"]
    /\ UNCHANGED <<word, waiters, requested, expected, clock, result>>

-----------------------------------------------------------------------------
(***************************************************************************)
(* WakePortable.                                                           *)
(***************************************************************************)

\* The waiters of an entry that no wake has asked to return.
Unasked(e) == Filter(waiters[e], {u \in Threads : ~requested[u]})

\* The waiters a wake with count n asks to return: the first n of the list
\* that were not asked before.
Take(n) ==
    IF registry = NoEntry THEN {}
    ELSE LET u == Unasked(registry)
         IN  ToSet(SubSeq(u, 1, IF n < Len(u) THEN n ELSE Len(u)))

\* Each one taken is signalled through its own condition variable.
Wake(t, n) ==
    /\ \/ pc[t] = "idle"
       \/ pc[t] = "stored" /\ n = Cardinality(Threads)
    /\ requested' = [u \in Threads |-> requested[u] \/ u \in Take(n)]
    /\ pc' = [u \in Threads |->
                IF u = t THEN "idle"
                ELSE IF u \in Take(n) /\ pc[u] = "asleep" THEN "awake" ELSE pc[u]]
    /\ UNCHANGED <<word, registry, waiters, home, expected, clock, result>>

-----------------------------------------------------------------------------
Next ==
    \E t \in Threads :
        \/ \E w \in Words : Store(t, w)
        \/ \E w \in Words :
              \/ WaitPasses(t, w)
              \/ \E d \in {"none", "running"} : WaitBlocks(t, w, d)
        \/ EndSlice(t)
        \/ Expire(t)
        \/ Recheck(t)
        \/ Erase(t)
        \/ \E n \in WakeCounts : Wake(t, n)

Spec == Init /\ [][Next]_vars

\* A sleep ends after at most 10 ms, signal handlers come back, a thread that
\* wants a mutex gets it, and deadlines pass.
Fairness ==
    \A t \in Threads :
        /\ WF_vars(EndSlice(t))
        /\ WF_vars(Expire(t))
        /\ WF_vars(Recheck(t))

FairSpec == Spec /\ Fairness

-----------------------------------------------------------------------------
(***************************************************************************)
(* Properties.                                                             *)
(***************************************************************************)

\* A thread inside Wait is in the list of the entry that the registry has for
\* its address, so that every wake reaches it, although the registry and the
\* entry are never locked together on the way out.
WaitersReachable ==
    \A t \in Inside : /\ home[t] # NoEntry
                      /\ home[t] = registry
                      /\ t \in ToSet(waiters[home[t]])

\* No entry stays in the registry without a waiter or a thread about to erase
\* it: the registry does not grow with the addresses a guest has used.
NoEntryLeaks ==
    registry # NoEntry => \/ waiters[registry] # << >>
                          \/ \E t \in Threads : pc[t] = "erasing" /\ home[t] = registry

\* The waiting threads in the order in which they came.
Queue == IF registry = NoEntry THEN << >> ELSE Unasked(registry)

Promise == INSTANCE AddressWait
           WITH queue <- Queue, woken <- {t \in Threads : requested[t]}

\* The portable implementation does what AddressWait promises: a wake takes
\* effect in one step on the threads that came first, and those return OK.
ImplementsAddressWait == Promise!Spec

\* A wait returns if it has a timeout or its word has changed for good, woken
\* or not.
WaitEnds ==
    \A t \in Threads :
        t \in Inside ~> (t \notin Inside \/ (clock[t] = "none" /\ word = expected[t]))
=============================================================================
