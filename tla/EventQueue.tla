------------------------------ MODULE EventQueue ------------------------------
(***************************************************************************)
(* The kernel event queue, class KernelEqueuePrivate of                    *)
(* kernel/eventQueue.cpp: one queue, the events registered on it, the      *)
(* threads that wait for them and the deletion of the queue.               *)
(*                                                                         *)
(* A call first looks the handle up in g_equeues and keeps a shared_ptr    *)
(* (KernelPinEqueue), then locks the queue's m_mutex: two steps, between   *)
(* which the queue may be deleted.  Under m_mutex a method runs to its     *)
(* end, except WaitForEvents, which sleeps in the condition variable.      *)
(* Handles are never used again, so that one queue shows what a handle     *)
(* can reach.                                                              *)
(*                                                                         *)
(* What the emulator registers falls in four kinds:                        *)
(*   "level"   KernelAddUserEvent: no EV_CLEAR, stays triggered;           *)
(*   "edge"    KernelAddUserEventEdge: a report resets it, triggers that   *)
(*             meet a triggered event replace its data;                    *)
(*   "queued"  AMPR, end of pipe and video out events: a report resets     *)
(*             the event, triggers that meet a triggered event wait in     *)
(*             pending_events;                                             *)
(*   "timer"   KernelAddHRTimerEvent: EV_ONESHOT with a deadline.          *)
(*                                                                         *)
(* "Bug:" marks broken variants, as in KernelSema.                         *)
(***************************************************************************)
EXTENDS Integers, Sequences, FiniteSets, SequencesExt

CONSTANTS
    Threads,    \* the threads that call into the queue
    Keys,       \* the events' keys: ident and filter
    Uses,       \* how guests use the queue: the kinds each key is registered with
    Udata,      \* the udata values that registrations pass
    Nums,       \* the array sizes guests pass to KernelWaitEqueue
    MaxIssued   \* bound: the triggers of one registered event

\* Timers have a filter of their own; AMPR events share that of user events.
ASSUME EqueueAssumption ==
    /\ IsFiniteSet(Threads)
    /\ Uses \subseteq [Keys -> SUBSET {"level", "edge", "queued", "timer"}]
    /\ \A use \in Uses, k \in Keys : "timer" \in use[k] => use[k] = {"timer"}
    /\ Nums \subseteq Nat \ {0} /\ Nums # {}
    /\ MaxIssued \in Nat

VARIABLES
    kinds,      \* how the guest of this behaviour uses the queue
    registered, \* the handle is in g_equeues
    closed,     \* m_closed
    events,     \* m_events
    pc,         \* where each thread is
    clock,      \* the deadline of each wait
    issued,     \* history: how often each registered event was triggered; a
                \* trigger's data is its number
    reported    \* history: the data each registered event reported last

queueVars == <<registered, closed, events, pc, clock, issued, reported>>
vars == <<kinds, queueVars>>

Asleep == {t \in Threads : pc[t] = "asleep"}
Awake == {t \in Threads : pc[t] = "awake"}

\* The event with key k, if it is registered.
Has(k) == \E i \in DOMAIN events : events[i].key = k
At(k) == CHOOSE i \in DOMAIN events : events[i].key = k

\* KernelCreateEqueue.
Init ==
    /\ kinds \in Uses
    /\ registered = TRUE
    /\ closed = FALSE
    /\ events = << >>
    /\ pc = [t \in Threads |-> "idle"]
    /\ clock = [t \in Threads |-> "none"]
    /\ issued = [k \in Keys |-> 0]
    /\ reported = [k \in Keys |-> 0]

\* KernelPinEqueue; a handle that is not in g_equeues is EBADF.
Pin(t) ==
    /\ pc[t] = "idle"
    /\ registered
    /\ pc' = [pc EXCEPT ![t] = "pinned"]
    /\ UNCHANGED <<registered, closed, events, clock, issued, reported>>

\* notify_one while thread t returns: at most one sleeping thread wakes up.
SignalFrom(t) ==
    \/ \E u \in Asleep : pc' = [pc EXCEPT ![t] = "idle", ![u] = "awake"]
    \/ Asleep = {} /\ pc' = [pc EXCEPT ![t] = "idle"]

\* The pinned queue turns out to be closed, or has no such event: EBADF, ENOENT.
Fails(t) ==
    /\ pc[t] = "pinned"
    /\ closed \/ \E k \in Keys : ~Has(k)
    /\ pc' = [pc EXCEPT ![t] = "idle"]
    /\ UNCHANGED <<registered, closed, events, clock, issued, reported>>

-----------------------------------------------------------------------------
(***************************************************************************)
(* AddEvent, TriggerEvent and DeleteEvent.                                 *)
(***************************************************************************)

\* A freshly registered event.  An output mode event starts triggered.
NewEvent(k, kind, u, raised) ==
    [key |-> k, kind |-> kind, triggered |-> raised,
     deadline |-> IF kind = "timer" THEN "running" ELSE "none",
     data |-> IF raised THEN 1 ELSE 0, udata |-> u, pending |-> << >>]

\* A second registration under the same key changes the deadline and udata.
Updated(e, kind, u) ==
    [key |-> e.key, kind |-> e.kind, triggered |-> e.triggered,
     deadline |-> IF kind = "timer" THEN "running" ELSE "none",
     data |-> e.data, udata |-> u,
     pending |-> [i \in DOMAIN e.pending |-> [data |-> e.pending[i].data, udata |-> u]]]

AddEvent(t, k, kind, u, raised) ==
    /\ pc[t] = "pinned"
    /\ ~closed
    /\ raised => kind = "queued"
    /\ \/ /\ Has(k)
          /\ events' = [events EXCEPT ![At(k)] = Updated(@, kind, u)]
          /\ UNCHANGED <<issued, reported>>
       \/ /\ ~Has(k)
          /\ events' = Append(events, NewEvent(k, kind, u, raised))
          /\ issued' = [issued EXCEPT ![k] = IF raised THEN 1 ELSE 0]
          /\ UNCHANGED reported
    /\ SignalFrom(t)
    /\ UNCHANGED <<registered, closed, clock>>

\* UserEventTriggerFunc, AmprEventTriggerFunc, EopEventTriggerFunc and
\* TriggerVideoOutEvent, for the n-th trigger.  What the guest passes when it
\* triggers a user event also replaces the event's udata.
Triggered(e, n) ==
    IF e.kind # "queued" THEN [e EXCEPT !.triggered = TRUE, !.data = n, !.udata = n]
    ELSE IF e.triggered
    THEN [e EXCEPT !.pending = Append(@, [data |-> n, udata |-> e.udata])]
    ELSE [e EXCEPT !.triggered = TRUE, !.data = n]

\* Nothing in the emulator triggers a timer by hand.
TriggerEvent(t, k) ==
    /\ pc[t] = "pinned"
    /\ ~closed
    /\ Has(k)
    /\ events[At(k)].kind # "timer"
    /\ issued[k] < MaxIssued
    /\ issued' = [issued EXCEPT ![k] = @ + 1]
    /\ events' = [events EXCEPT ![At(k)] = Triggered(@, issued[k] + 1)]
    /\ SignalFrom(t)
    /\ UNCHANGED <<registered, closed, clock, reported>>

\* No signal: nobody waits for an event to go away.
DeleteEvent(t, k) ==
    /\ pc[t] = "pinned"
    /\ ~closed
    /\ Has(k)
    /\ events' = RemoveAt(events, At(k))
    /\ issued' = [issued EXCEPT ![k] = 0]
    /\ reported' = [reported EXCEPT ![k] = 0]
    /\ pc' = [pc EXCEPT ![t] = "idle"]
    /\ UNCHANGED <<registered, closed, clock>>

-----------------------------------------------------------------------------
(***************************************************************************)
(* GetTriggeredEvents.                                                     *)
(***************************************************************************)

\* Bug: nobody looks at the deadlines.
TriggerExpiredTimersNever(es) == es

TriggerExpiredTimers(es) ==
    [i \in DOMAIN es |->
        [es[i] EXCEPT !.triggered = @ \/ es[i].deadline = "expired"]]

\* The occurrences an event has ready, the one in the event itself first.
Occurrences(e) ==
    IF e.triggered THEN <<[data |-> e.data, udata |-> e.udata]>> \o e.pending ELSE << >>

\* Bug: reports a queued event and forgets what is pending.
CollectDropsPending(e, room) ==
    IF room = 0 \/ ~e.triggered THEN [out |-> << >>, left |-> <<e>>]
    ELSE [out |-> <<e.data>>,
          left |-> <<[e EXCEPT !.triggered = FALSE, !.data = 0, !.pending = << >>]>>]

\* What the walk takes from event e with room left in the guest's array: the
\* numbers it reports, and what remains of the event.  A level event fills
\* the array with copies of itself.
Collect(e, room) ==
    IF room = 0 \/ ~e.triggered THEN [out |-> << >>, left |-> <<e>>]
    ELSE IF e.kind = "timer" THEN [out |-> <<e.data>>, left |-> << >>]
    ELSE IF e.kind = "level" THEN [out |-> [i \in 1 .. room |-> e.data], left |-> <<e>>]
    ELSE LET all  == Occurrences(e)
             n    == IF room < Len(all) THEN room ELSE Len(all)
             rest == SubSeq(all, n + 1, Len(all))
         IN  [out |-> [i \in 1 .. n |-> all[i].data],
              left |-> IF rest = << >>
                       THEN <<[e EXCEPT !.triggered = FALSE, !.data = 0,
                                        !.udata = all[n].udata, !.pending = << >>]>>
                       ELSE <<[e EXCEPT !.data = rest[1].data, !.udata = rest[1].udata,
                                        !.pending = Tail(rest)]>>]

\* How many entries of an array of n event e can fill.
Offers(e, n) ==
    IF ~e.triggered THEN 0 ELSE IF e.kind = "level" THEN n ELSE Len(Occurrences(e))

\* The sums of the first 0, 1, 2, ... elements of a sequence of numbers.
Sums(v) ==
    LET sum[i \in 0 .. Len(v)] == IF i = 0 THEN 0 ELSE sum[i - 1] + v[i]
    IN  sum

\* The room that is left of n entries when the walk over es reaches event i.
Room(es, n, i) ==
    LET filled == Sums([j \in DOMAIN es |-> Offers(es[j], n)])
    IN  Max({0, n - filled[i - 1]})

\* The walk over m_events with an array of n: the events that remain and the
\* last number each key reported.
Harvest(n) ==
    LET es == TriggerExpiredTimers(events)
        got == [i \in DOMAIN es |-> Collect(es[i], Room(es, n, i))]
        from(k) == {i \in DOMAIN es : es[i].key = k /\ got[i].out # << >>}
    IN  [left |-> FlattenSeq([i \in DOMAIN es |-> got[i].left]),
         last |-> [k \in Keys |-> IF from(k) = {} THEN reported[k]
                                  ELSE Last(got[CHOOSE i \in from(k) : TRUE].out)]]

\* GetTriggeredEvents would find nothing, whatever the size of the array.
Nothing == \A i \in DOMAIN events : ~TriggerExpiredTimers(events)[i].triggered

\* The calling thread returns what GetTriggeredEvents found.  The size of its
\* array matters here only, so that this is where it is chosen.
Report(t) ==
    /\ pc' = [pc EXCEPT ![t] = "idle"]
    /\ clock' = [clock EXCEPT ![t] = "none"]
    /\ UNCHANGED <<registered, closed, issued>>
    /\ ~Nothing
    /\ \E n \in Nums :
          LET h == Harvest(n) IN events' = h.left /\ reported' = h.last

-----------------------------------------------------------------------------
(***************************************************************************)
(* KernelWaitEqueue.                                                       *)
(***************************************************************************)

\* A wait that finds something, or a zero timeout that finds nothing.
WaitReturns(t) ==
    /\ pc[t] = "pinned"
    /\ ~closed
    /\ \/ Report(t)
       \/ /\ Nothing
          /\ pc' = [pc EXCEPT ![t] = "idle"]
          /\ UNCHANGED <<registered, closed, events, clock, issued, reported>>

\* WaitForEvents goes to sleep.
WaitBlocks(t, deadline) ==
    /\ pc[t] = "pinned"
    /\ ~closed
    /\ Nothing
    /\ pc' = [pc EXCEPT ![t] = "asleep"]
    /\ clock' = [clock EXCEPT ![t] = deadline]
    /\ UNCHANGED <<registered, closed, events, issued, reported>>

\* The condition variable returns without a signal: spuriously, because the
\* nearest timer is due or, in an endless wait, after 10 ms.
Poll10ms(t) ==
    /\ pc[t] = "asleep"
    /\ pc' = [pc EXCEPT ![t] = "awake"]
    /\ UNCHANGED <<registered, closed, events, clock, issued, reported>>

\* The condition variable returns because the timeout of the wait is over.
Expire(t) ==
    /\ clock[t] = "running"
    /\ clock' = [clock EXCEPT ![t] = "expired"]
    /\ pc' = [pc EXCEPT ![t] = "awake"]
    /\ UNCHANGED <<registered, closed, events, issued, reported>>

\* The steady clock passes the deadline of a timer event.
TimerDue(k) ==
    /\ Has(k)
    /\ events[At(k)].deadline = "running"
    /\ events' = [events EXCEPT ![At(k)].deadline = "expired"]
    /\ UNCHANGED <<registered, closed, pc, clock, issued, reported>>

\* Bug: at the deadline the thread leaves without another look at the events,
\* although it may have been signalled.
RecheckClockFirst(t) ==
    /\ pc[t] = "awake"
    /\ \/ /\ closed \/ clock[t] = "expired"
          /\ pc' = [pc EXCEPT ![t] = "idle"]
          /\ clock' = [clock EXCEPT ![t] = "none"]
          /\ UNCHANGED <<registered, closed, events, issued, reported>>
       \/ /\ ~closed
          /\ clock[t] # "expired"
          /\ Report(t)
       \/ /\ ~closed
          /\ clock[t] # "expired"
          /\ Nothing
          /\ pc' = [pc EXCEPT ![t] = "asleep"]
          /\ UNCHANGED <<registered, closed, events, clock, issued, reported>>

\* The loop of WaitForEvents after the condition variable: the events first
\* (a closed queue answers EBADF), then the clock, then sleep again.
Recheck(t) ==
    /\ pc[t] = "awake"
    /\ \/ /\ closed
          /\ pc' = [pc EXCEPT ![t] = "idle"]
          /\ clock' = [clock EXCEPT ![t] = "none"]
          /\ UNCHANGED <<registered, closed, events, issued, reported>>
       \/ ~closed /\ Report(t)
       \/ /\ ~closed
          /\ clock[t] = "expired"
          /\ pc' = [pc EXCEPT ![t] = "idle"]
          /\ clock' = [clock EXCEPT ![t] = "none"]
          /\ UNCHANGED <<registered, closed, events, issued, reported>>
          /\ Nothing
       \/ /\ ~closed
          /\ clock[t] # "expired"
          /\ pc' = [pc EXCEPT ![t] = "asleep"]
          /\ UNCHANGED <<registered, closed, events, clock, issued, reported>>
          /\ Nothing

-----------------------------------------------------------------------------
(***************************************************************************)
(* KernelDeleteEqueue: the handle leaves g_equeues, then the queue closes. *)
(***************************************************************************)
Unregister(t) ==
    /\ pc[t] = "idle"
    /\ registered
    /\ registered' = FALSE
    /\ pc' = [pc EXCEPT ![t] = "closing"]
    /\ UNCHANGED <<closed, events, clock, issued, reported>>

\* Every event is deleted and every waiter woken.
Close(t) ==
    /\ pc[t] = "closing"
    /\ closed' = TRUE
    /\ events' = << >>
    /\ issued' = [k \in Keys |-> 0]
    /\ reported' = [k \in Keys |-> 0]
    /\ pc' = [u \in Threads |->
                IF u = t THEN "idle" ELSE IF pc[u] = "asleep" THEN "awake" ELSE pc[u]]
    /\ UNCHANGED <<registered, clock>>

-----------------------------------------------------------------------------
Step ==
    \/ \E t \in Threads :
          \/ Pin(t)
          \/ Fails(t)
          \/ \E k \in Keys :
                \/ \E kind \in kinds[k], u \in Udata, raised \in BOOLEAN :
                      AddEvent(t, k, kind, u, raised)
                \/ TriggerEvent(t, k)
                \/ DeleteEvent(t, k)
          \/ WaitReturns(t)
          \/ \E d \in {"none", "running"} : WaitBlocks(t, d)
          \/ Poll10ms(t)
          \/ Expire(t)
          \/ Recheck(t)
          \/ Unregister(t)
          \/ Close(t)
    \/ \E k \in Keys : TimerDue(k)

Next == Step /\ UNCHANGED kinds

Spec == Init /\ [][Next]_vars

\* A thread that wants m_mutex gets it, time passes, and KernelDeleteEqueue
\* goes on to Close.  An endless wait sleeps 10 ms at a time, or until the
\* nearest timer, at most 2^32 us.  Recheck(t) can be taken exactly while t is
\* awake and only Recheck(t) ends that, so that the first conjunct is weak
\* fairness of Recheck(t), in a form that is cheap to evaluate.
Fairness ==
    /\ \A t \in Threads :
          /\ []<>(pc[t] # "awake")
          /\ WF_queueVars(clock[t] = "none" /\ Poll10ms(t))
          /\ WF_queueVars(Expire(t))
          /\ WF_queueVars(Close(t))
    /\ \A k \in Keys : WF_queueVars(TimerDue(k))

FairSpec == Spec /\ Fairness

-----------------------------------------------------------------------------
(***************************************************************************)
(* Properties.                                                             *)
(***************************************************************************)
\* No trigger of a queued event is lost, doubled or reported out of order:
\* the occurrences that are ready continue the ones that were reported, up
\* to the latest.
QueuedInOrder ==
    \A i \in DOMAIN events :
        LET e == events[i]
            o == Occurrences(e)
        IN  e.kind = "queued" =>
                /\ reported[e.key] + Len(o) = issued[e.key]
                /\ \A j \in DOMAIN o : o[j].data = reported[e.key] + j
                /\ ~e.triggered => e.pending = << >>

\* Number of occurrences that are ready.
Ready ==
    Sums([i \in DOMAIN events |-> Len(Occurrences(events[i]))])[Len(events)]

\* On a queue of edge and queued events one notify_one per trigger is enough:
\* while a thread sleeps, every occurrence that is ready has an awake thread
\* that is about to look.  (A level event or a timer may be what the awake
\* thread takes instead, and then this fails.)
SignalPerTrigger ==
    (\A k \in Keys : kinds[k] \subseteq {"edge", "queued"}) =>
        (Asleep # {} => Ready <= Cardinality(Awake))

\* Something is there for a wait: an event is triggered or a timer is due.
Due == \E i \in DOMAIN events : events[i].triggered \/ events[i].deadline = "expired"

\* Why a wait has to end: its timeout, the deletion of the queue, or something
\* that is there for it.
Ends(t) == clock[t] # "none" \/ closed \/ Due

\* A wait returns if it has a timeout, if the queue is deleted, or if something
\* stays there for it, even though the signal may have gone to another thread
\* and nobody signals when a timer is due.
WaitEnds == \A t \in Threads : (t \in Asleep /\ Ends(t)) ~> (pc[t] = "idle" \/ ~Ends(t))
=============================================================================
