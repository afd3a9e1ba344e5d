----------------------------- MODULE HostGpuProofs -----------------------------
(***************************************************************************)
(* Proofs about the command scheduler, for any number of ticks and         *)
(* deferred operations: nothing is reused or run before the GPU has passed *)
(* it, and every deferred operation runs exactly once.  They carry over to *)
(* GpuFlips, whose steps are steps of the scheduler.  And about the flips, *)
(* for any queue capacity and any number of flips, opens and closes: no    *)
(* frame is lost, shown twice or shown out of order.                       *)
(***************************************************************************)
EXTENDS GpuFlips, FiniteSetTheorems, FunctionTheorems, SequenceTheorems, WellFoundedInduction,
        TLAPS

-----------------------------------------------------------------------------
(***************************************************************************)
(* The inductive invariant.                                                *)
(***************************************************************************)
Operation == [priority : BOOLEAN, tick : Nat, at : Nat, runs : {0, 1}]

PriorityPlaces == {"top", "blocking", "asleep", "gpu", "run", "ended", "exited"}

SchedulerTypeOK ==
    /\ tick \in Nat /\ counter \in Nat /\ known \in Nat
    /\ bufferTicks \in Seq(Nat)
    /\ current \in Nat
    /\ recording \in BOOLEAN /\ stop \in BOOLEAN
    /\ pending \in Seq(Nat) /\ priority \in Seq(Nat)
    /\ active \in Nat
    /\ opState \in {"Open", "Draining", "Closed"}
    /\ prio \in PriorityPlaces
    /\ ops \in Seq(Operation)

\* The ticks: what the semaphore was last read to be is not ahead of it, it is
\* not ahead of what was submitted, and neither is any deferred operation.
TicksOrdered ==
    /\ known <= counter /\ counter < tick
    /\ \A i \in DOMAIN ops : ops[i].tick <= tick /\ ops[i].at = ops[i].tick

\* Before the first Begin nothing was recorded or deferred; then the current
\* buffer exists, and it is free when it is recorded or about to be.
BufferFree ==
    /\ current = 0 => bufferTicks = << >> /\ ~recording /\ ops = << >>
    /\ current # 0 => current \in 1 .. Len(bufferTicks)
    /\ recording => bufferTicks[current] <= counter
    /\ ~recording /\ current # 0 => caller.pc \in {"gpu", "pop"}
    /\ caller.pc = "gpu" => /\ current # 0
                            /\ recording \/ bufferTicks[current] <= caller.target
    /\ caller.pc = "pop" => current # 0 /\ bufferTicks[current] <= counter

\* What a call goes on with when its wait for the GPU is over; t is the tick.
Resumes(x, t) ==
    \/ x = Idle
    \/ x.pc = "waitPriority" /\ x.target \in Nat /\ x.target < t
    \/ x.pc = "drain" /\ x.next \in {Idle, [pc |-> "stop"]}

\* The state of the call the recording thread is in.
CallerShape ==
    /\ caller.pc \in {"idle", "gpu", "pop", "waitPriority", "waited", "drain", "stop", "notify",
                      "join"}
    /\ caller.pc = "gpu" => /\ caller.target \in Nat /\ caller.refresh \in BOOLEAN
                            /\ Resumes(caller.next, tick)
    /\ caller.pc = "pop" => Resumes(caller.next, tick)
    /\ caller.pc \in {"waitPriority", "waited"} => caller.target \in Nat /\ caller.target < tick
    /\ caller.pc = "drain" => caller.next \in {Idle, [pc |-> "stop"]}

\* The drain that Shutdown stops the priority thread after.
Ending(x) == x.pc = "drain" /\ x.next = [pc |-> "stop"]

\* Where a call can be, before, during and after Shutdown.
ShutdownShape ==
    /\ opState = "Open" => /\ caller.pc \notin {"stop", "notify", "join"}
                           /\ ~Ending(caller)
                           /\ caller.pc \in {"gpu", "pop"} => ~Ending(caller.next)
    /\ opState = "Draining" => /\ caller.pc \in {"gpu", "pop", "drain", "stop", "notify", "join"}
                               /\ caller.pc \in {"gpu", "pop"} => Ending(caller.next)
                               /\ caller.pc = "gpu" => caller.refresh
                               /\ caller.pc = "drain" => Ending(caller)
    /\ opState = "Closed" => caller = Idle
    /\ stop <=> opState = "Closed" \/ caller.pc \in {"notify", "join"}

\* Shutdown has run every pending operation when it has popped, and every
\* priority operation when it has drained.
ShutdownDrains ==
    /\ opState = "Draining" =>
         /\ caller.pc = "gpu" => \A i \in DOMAIN pending : ops[pending[i]].tick <= caller.target
         /\ caller.pc = "pop" => \A i \in DOMAIN pending : ops[pending[i]].tick <= known
         /\ caller.pc \notin {"gpu", "pop"} => pending = << >>
    /\ opState = "Closed" => pending = << >>
    /\ stop \/ caller.pc = "stop" => Drained

\* A queue q of operations of os that have not run, oldest first.
Queue(q, isPriority, os) ==
    /\ \A i \in DOMAIN q : /\ q[i] \in DOMAIN os
                           /\ os[q[i]].priority = isPriority /\ os[q[i]].runs = 0
    /\ \A i, j \in DOMAIN q : i < j => q[i] < q[j] /\ os[q[i]].tick <= os[q[j]].tick

\* The operation the priority thread is busy with.
ActiveExact ==
    /\ active # 0 <=> prio \in {"gpu", "run", "ended"}
    /\ active # 0 =>
         /\ active \in DOMAIN ops /\ ops[active].priority
         /\ ops[active].runs = IF prio = "ended" THEN 1 ELSE 0
         /\ prio # "gpu" => ops[active].tick <= counter
         /\ \A i \in DOMAIN priority : active < priority[i]

\* An operation that has not run is in its queue, or is the active one.
NoneForgotten ==
    \A i \in DOMAIN ops : ops[i].runs = 0 =>
        IF ops[i].priority THEN i = active \/ \E j \in DOMAIN priority : priority[j] = i
                           ELSE \E j \in DOMAIN pending : pending[j] = i

\* An operation has run only after the GPU; a wait for priority operations
\* that has returned has seen them run.
RanAfterGpu == \A i \in DOMAIN ops : ops[i].runs = 1 => ops[i].tick <= counter

WaitedExact ==
    caller.pc = "waited" =>
        \A i \in DOMAIN ops : ops[i].priority /\ ops[i].tick <= caller.target => ops[i].runs = 1

PendingExact == Queue(pending, FALSE, ops)
PriorityExact == Queue(priority, TRUE, ops)

SchedulerInv ==
    /\ SchedulerTypeOK
    /\ TicksOrdered
    /\ BufferFree
    /\ CallerShape
    /\ ShutdownShape
    /\ ShutdownDrains
    /\ PendingExact
    /\ PriorityExact
    /\ ActiveExact
    /\ NoneForgotten
    /\ RanAfterGpu
    /\ WaitedExact

\* What SchedulerTypeOK says of one operation.
LEMMA OpFields ==
    ASSUME SchedulerTypeOK
    PROVE  /\ Len(ops) \in Nat /\ DOMAIN ops = 1 .. Len(ops)
           /\ \A i \in 1 .. Len(ops) :
                 /\ ops[i] \in Operation
                 /\ ops[i].priority \in BOOLEAN /\ ops[i].tick \in Nat /\ ops[i].at \in Nat
                 /\ ops[i].runs \in {0, 1}
<1>1. Len(ops) \in Nat /\ DOMAIN ops = 1 .. Len(ops)
  BY DEF SchedulerTypeOK
<1>2. ASSUME NEW i \in 1 .. Len(ops) PROVE ops[i] \in Operation
  BY <1>1, ElementOfSeq DEF SchedulerTypeOK
<1> QED
  BY <1>1, <1>2 DEF Operation

\* What the invariant is for.
LEMMA SchedulerInvImplies == SchedulerInv => NothingBeforeTheGpu /\ OperationsExact
<1> SUFFICES ASSUME SchedulerInv PROVE NothingBeforeTheGpu /\ OperationsExact
  OBVIOUS
<1>1. NothingBeforeTheGpu
  <2>1. ASSUME NEW i \in DOMAIN ops, ops[i].runs > 0 PROVE ops[i].at <= counter
    <3>1. ops[i].runs = 1
      BY <2>1, OpFields DEF SchedulerInv
    <3> QED
      BY <3>1 DEF SchedulerInv, TicksOrdered, RanAfterGpu
  <2> QED
    BY <2>1 DEF NothingBeforeTheGpu, SchedulerInv, BufferFree
<1>2. ASSUME NEW i \in DOMAIN ops PROVE ops[i].runs \in {0, 1}
  BY OpFields DEF SchedulerInv
<1>3. ASSUME NEW i \in DOMAIN ops, opState = "Closed" PROVE ops[i].runs = 1
  <2>1. pending = << >> /\ priority = << >> /\ active = 0
    BY <1>3 DEF SchedulerInv, ShutdownDrains, ShutdownShape, Drained
  <2>2. DOMAIN pending = {} /\ DOMAIN priority = {} /\ i # active
    BY <2>1, OpFields DEF SchedulerInv
  <2> QED
    BY <1>2, <2>2 DEF SchedulerInv, NoneForgotten
<1> QED
  BY <1>1, <1>2, <1>3 DEF OperationsExact, SchedulerInv, WaitedExact

\* Nothing has been recorded or deferred.
LEMMA SchedulerInvInit == SchedulerInit => SchedulerInv
<1> SUFFICES ASSUME SchedulerInit PROVE SchedulerInv
  OBVIOUS
<1>1. caller.pc = "idle"
  BY DEF SchedulerInit, Idle
<1>2. SchedulerTypeOK
  BY EmptySeq DEF SchedulerInit, SchedulerTypeOK, PriorityPlaces
<1>3. TicksOrdered /\ BufferFree /\ CallerShape /\ ShutdownShape
  BY <1>1 DEF SchedulerInit, TicksOrdered, BufferFree, CallerShape, ShutdownShape, Ending
<1>4. ShutdownDrains /\ PendingExact /\ PriorityExact /\ ActiveExact /\ NoneForgotten
  BY <1>1 DEF SchedulerInit, ShutdownDrains, PendingExact, PriorityExact, Queue, ActiveExact,
     NoneForgotten
<1>5. RanAfterGpu /\ WaitedExact
  BY <1>1 DEF SchedulerInit, RanAfterGpu, WaitedExact
<1> QED
  BY <1>2, <1>3, <1>4, <1>5 DEF SchedulerInv

-----------------------------------------------------------------------------
(***************************************************************************)
(* Sequences and the queues of operations.                                 *)
(***************************************************************************)
LEMMA AppendFacts ==
    ASSUME NEW S, NEW q \in Seq(S), NEW x \in S
    PROVE  /\ Append(q, x) \in Seq(S) /\ Len(q) \in Nat
           /\ DOMAIN Append(q, x) = 1 .. Len(q) + 1 /\ DOMAIN q = 1 .. Len(q)
           /\ Len(Append(q, x)) = Len(q) + 1
           /\ \A i \in 1 .. Len(q) : Append(q, x)[i] = q[i]
           /\ Append(q, x)[Len(q) + 1] = x
OBVIOUS

\* The elements of a tail.
LEMMA TailFacts ==
    ASSUME NEW S, NEW q \in Seq(S), q # << >>
    PROVE  /\ Tail(q) \in Seq(S) /\ Len(q) \in Nat /\ Len(q) > 0
           /\ DOMAIN Tail(q) = 1 .. Len(q) - 1 /\ DOMAIN q = 1 .. Len(q)
           /\ \A i \in 1 .. Len(q) - 1 : Tail(q)[i] = q[i + 1]
           /\ Head(q) = q[1] /\ q[1] \in S
OBVIOUS

\* ps has the operations of os, of which op has run since, and perhaps more.
Extends(os, ps, op) ==
    /\ Len(os) <= Len(ps)
    /\ \A i \in 1 .. Len(os) :
          /\ ps[i].priority = os[i].priority /\ ps[i].tick = os[i].tick /\ ps[i].at = os[i].at
          /\ ps[i].runs = IF i = op THEN 1 ELSE os[i].runs

\* A queue stays one when an operation that is not in it runs, or others are added.
LEMMA QueueFrame ==
    ASSUME NEW os \in Seq(Operation), NEW ps \in Seq(Operation), NEW op, Extends(os, ps, op),
           NEW q \in Seq(Nat), NEW f, Queue(q, f, os), \A i \in DOMAIN q : q[i] # op
    PROVE  Queue(q, f, ps)
<1>1. DOMAIN os = 1 .. Len(os) /\ DOMAIN ps = 1 .. Len(ps) /\ Len(os) \in Nat /\ Len(ps) \in Nat
  OBVIOUS
<1>2. ASSUME NEW i \in DOMAIN q
      PROVE  /\ q[i] \in DOMAIN ps /\ ps[q[i]].priority = f /\ ps[q[i]].runs = 0
             /\ ps[q[i]].tick = os[q[i]].tick
  <2>1. q[i] \in 1 .. Len(os) /\ q[i] \in 1 .. Len(ps)
    BY <1>1 DEF Queue, Extends
  <2> QED
    BY <1>1, <2>1 DEF Queue, Extends
<1> QED
  BY <1>2 DEF Queue

\* A queue stays one when the newest operation joins it.
LEMMA QueueAppends ==
    ASSUME NEW os \in Seq(Operation), NEW ps \in Seq(Operation), NEW op, Extends(os, ps, op),
           NEW q \in Seq(Nat), NEW f, Queue(q, f, os), \A i \in DOMAIN q : q[i] # op,
           NEW n \in Nat, Len(os) < n, n <= Len(ps), ps[n].priority = f, ps[n].runs = 0,
           \A i \in DOMAIN os : os[i].tick <= ps[n].tick
    PROVE  Queue(Append(q, n), f, ps)
<1>1. Queue(q, f, ps)
  BY QueueFrame
<1>2. DOMAIN os = 1 .. Len(os) /\ DOMAIN ps = 1 .. Len(ps) /\ Len(os) \in Nat /\ Len(ps) \in Nat
  OBVIOUS
<1> DEFINE a == Append(q, n)
<1>3. /\ DOMAIN a = 1 .. Len(q) + 1 /\ DOMAIN q = 1 .. Len(q) /\ Len(q) \in Nat
      /\ \A i \in 1 .. Len(q) : a[i] = q[i]
      /\ a[Len(q) + 1] = n
  BY AppendFacts
<1>4. ASSUME NEW i \in DOMAIN q PROVE q[i] < n /\ ps[q[i]].tick <= ps[n].tick
  <2>1. q[i] \in 1 .. Len(os)
    BY <1>2 DEF Queue
  <2> QED
    BY <1>2, <2>1 DEF Extends
<1>5. n \in DOMAIN ps
  BY <1>2
<1> HIDE DEF a
<1>6. ASSUME NEW i \in DOMAIN a
      PROVE  a[i] \in DOMAIN ps /\ ps[a[i]].priority = f /\ ps[a[i]].runs = 0
  <2>1. CASE i \in DOMAIN q
    BY <1>1, <1>3, <2>1 DEF Queue
  <2>2. CASE i \notin DOMAIN q
    <3>1. a[i] = n
      BY <1>3, <2>2
    <3> QED
      BY <1>5, <3>1
  <2> QED
    BY <2>1, <2>2
<1>7. ASSUME NEW i \in DOMAIN a, NEW j \in DOMAIN a, i < j
      PROVE  a[i] < a[j] /\ ps[a[i]].tick <= ps[a[j]].tick
  <2>1. i \in DOMAIN q /\ a[i] = q[i]
    BY <1>3, <1>7
  <2>2. CASE j \in DOMAIN q
    BY <1>1, <1>3, <1>7, <2>1, <2>2 DEF Queue
  <2>3. CASE j \notin DOMAIN q
    <3>1. a[j] = n
      BY <1>3, <2>3
    <3> QED
      BY <1>4, <2>1, <3>1
  <2> QED
    BY <2>2, <2>3
<1> QED
  BY <1>6, <1>7 DEF Queue, a

\* The front of a queue is an operation that has not run, and older than the rest.
LEMMA QueueTail ==
    ASSUME NEW os, NEW q \in Seq(Nat), NEW f, Queue(q, f, os), q # << >>
    PROVE  /\ Queue(Tail(q), f, os) /\ Tail(q) \in Seq(Nat)
           /\ Head(q) \in DOMAIN os /\ os[Head(q)].priority = f /\ os[Head(q)].runs = 0
           /\ \A i \in DOMAIN Tail(q) : Head(q) < Tail(q)[i]
           /\ \A x : (\E i \in DOMAIN q : q[i] = x)
                       => x = Head(q) \/ \E i \in DOMAIN Tail(q) : Tail(q)[i] = x
<1> DEFINE t == Tail(q)
<1>1. /\ t \in Seq(Nat) /\ Len(q) \in Nat /\ Len(q) > 0
      /\ DOMAIN t = 1 .. Len(q) - 1 /\ DOMAIN q = 1 .. Len(q)
      /\ \A i \in 1 .. Len(q) - 1 : t[i] = q[i + 1]
      /\ Head(q) = q[1]
  BY TailFacts
<1> HIDE DEF t
<1>2. \A i \in DOMAIN t : i + 1 \in DOMAIN q /\ t[i] = q[i + 1] /\ 1 < i + 1
  BY <1>1
<1>3. 1 \in DOMAIN q
  BY <1>1
<1>4. Queue(t, f, os)
  <2>1. \A i, j \in DOMAIN t : i < j => i + 1 < j + 1
    BY <1>1
  <2> QED
    BY <1>2, <2>1 DEF Queue
<1>5. \A i \in DOMAIN t : Head(q) < t[i]
  BY <1>1, <1>2, <1>3 DEF Queue
<1>6. ASSUME NEW i \in DOMAIN q PROVE q[i] = Head(q) \/ \E j \in DOMAIN t : t[j] = q[i]
  <2>1. CASE i = 1
    BY <1>1, <2>1
  <2>2. CASE i # 1
    <3>1. i - 1 \in DOMAIN t /\ t[i - 1] = q[i]
      BY <1>1, <2>2
    <3> QED
      BY <3>1
  <2> QED
    BY <2>1, <2>2
<1>7. Head(q) \in DOMAIN os /\ os[Head(q)].priority = f /\ os[Head(q)].runs = 0
  BY <1>1, <1>3 DEF Queue
<1> QED
  BY <1>1, <1>4, <1>5, <1>6, <1>7 DEF t

-----------------------------------------------------------------------------
(***************************************************************************)
(* The steps that run or defer operations.                                 *)
(***************************************************************************)

\* One more operation of kind f: it joins queue q, which becomes r, under tick
\* t while operations are deferred at all, and has run otherwise.
Deferred(os, ps, q, r, f, open, t) ==
    /\ Len(ps) = Len(os) + 1
    /\ ps[Len(ps)].priority = f
    /\ open => /\ ps[Len(ps)].tick = t /\ ps[Len(ps)].at = t /\ ps[Len(ps)].runs = 0
               /\ r = Append(q, Len(ps))
    /\ ~open => ps[Len(ps)].tick = 0 /\ ps[Len(ps)].at = 0 /\ ps[Len(ps)].runs = 1 /\ r = q

\* Operation op has run, 0 for none, and at most one operation was deferred; q
\* is what is left of the pending ones.
OpsStep(op, q) ==
    /\ ops' \in Seq(Operation) /\ Extends(ops, ops', op)
    /\ \/ Len(ops') = Len(ops) /\ pending' = q /\ priority' = priority
       \/ Deferred(ops, ops', q, pending', FALSE, opState = "Open", tick) /\ priority' = priority
       \/ /\ Deferred(ops, ops', priority, priority', TRUE, opState = "Open", tick)
          /\ pending' = q /\ caller = Idle

\* What an appended operation makes of the list of operations.
LEMMA NewOperation ==
    ASSUME NEW os \in Seq(Operation), NEW done \in Seq(Operation), NEW op, Extends(os, done, op),
           Len(done) = Len(os), NEW x \in Operation
    PROVE  /\ Append(done, x) \in Seq(Operation) /\ Extends(os, Append(done, x), op)
           /\ Len(Append(done, x)) = Len(os) + 1 /\ Append(done, x)[Len(os) + 1] = x
<1>1. /\ Append(done, x) \in Seq(Operation) /\ Len(done) \in Nat
      /\ Len(Append(done, x)) = Len(done) + 1
      /\ \A i \in 1 .. Len(done) : Append(done, x)[i] = done[i]
      /\ Append(done, x)[Len(done) + 1] = x
  BY AppendFacts
<1> QED
  BY <1>1 DEF Extends

\* The list of operations when op has run.
LEMMA RanOperation ==
    ASSUME NEW os \in Seq(Operation), NEW op \in DOMAIN os, os[op].runs = 0
    PROVE  LET done == [os EXCEPT ![op].runs = @ + 1]
           IN  done \in Seq(Operation) /\ Extends(os, done, op) /\ Len(done) = Len(os)
<1> DEFINE done == [os EXCEPT ![op].runs = @ + 1]
<1>1. DOMAIN os = 1 .. Len(os) /\ Len(os) \in Nat /\ os[op] \in Operation
  BY ElementOfSeq
<1>2. [os[op] EXCEPT !.runs = @ + 1] \in Operation
  <2>1. os[op].runs + 1 \in {0, 1}
    OBVIOUS
  <2> QED
    BY <1>1, <2>1, SMTT(30) DEF Operation
<1>3. done = [os EXCEPT ![op] = [os[op] EXCEPT !.runs = @ + 1]]
  OBVIOUS
<1>4. done \in Seq(Operation) /\ Len(done) = Len(os)
  BY <1>1, <1>2, <1>3, ExceptSeq
<1>5. ASSUME NEW i \in 1 .. Len(os)
      PROVE  /\ done[i].priority = os[i].priority /\ done[i].tick = os[i].tick
             /\ done[i].at = os[i].at
             /\ done[i].runs = IF i = op THEN 1 ELSE os[i].runs
  BY <1>1 DEF Operation
<1> HIDE DEF done
<1>6. Extends(os, done, op)
  BY <1>1, <1>4, <1>5 DEF Extends
<1> QED
  BY <1>4, <1>6 DEF done

\* The record of an operation deferred under tick t, or run at once.
NewRecord(f, open, t) ==
    [priority |-> f, tick |-> IF open THEN t ELSE 0, at |-> IF open THEN t ELSE 0,
     runs |-> IF open THEN 0 ELSE 1]

\* The list os, of which op has run (done), gets a new record: ps; the queue q becomes r.
GetsNew(os, done, ps, op, q, r, f, open, t) ==
    /\ os \in Seq(Operation) /\ done \in Seq(Operation) /\ Extends(os, done, op) /\ Len(done) = Len(os)
    /\ f \in BOOLEAN /\ open \in BOOLEAN /\ t \in Nat
    /\ ps = Append(done, NewRecord(f, open, t))
    /\ r = IF open THEN Append(q, Len(done) + 1) ELSE q

\* A new record is a deferred operation, or one that ran at once because the queues are closed.
LEMMA NewIsDeferred ==
    ASSUME NEW os, NEW done, NEW ps, NEW op, NEW q, NEW r, NEW f, NEW open, NEW t,
           GetsNew(os, done, ps, op, q, r, f, open, t)
    PROVE  ps \in Seq(Operation) /\ Extends(os, ps, op) /\ Deferred(os, ps, q, r, f, open, t)
<1> USE DEF GetsNew
<1> DEFINE x == NewRecord(f, open, t)
<1>1. x \in Operation
  BY DEF NewRecord, Operation
<1>2. /\ x.priority = f
      /\ open => x.tick = t /\ x.at = t /\ x.runs = 0
      /\ ~open => x.tick = 0 /\ x.at = 0 /\ x.runs = 1
  BY DEF NewRecord
<1> HIDE DEF x
<1>3. /\ ps \in Seq(Operation) /\ Extends(os, ps, op)
      /\ Len(ps) = Len(os) + 1 /\ ps[Len(ps)] = x
  BY <1>1, NewOperation DEF x
<1>4. Deferred(os, ps, q, r, f, open, t)
  BY <1>2, <1>3 DEF Deferred
<1> QED
  BY <1>3, <1>4

\* A call that defers changes operations and queues as OpsStep says.
LEMMA CallerDefersStep ==
    ASSUME SchedulerInv, CallerDefers
    PROVE  OpsStep(0, pending)
<1>1. ops \in Seq(Operation) /\ tick \in Nat /\ Len(ops) \in Nat
  BY DEF SchedulerInv, SchedulerTypeOK
<1>2. Extends(ops, ops, 0)
  BY <1>1 DEF Extends
<1>3. caller = Idle
  BY DEF CallerDefers
<1>4. CASE DeferOperation(ops, pending)
  <2>1. ops' = Append(ops, NewRecord(FALSE, opState = "Open", tick))
    BY <1>4 DEF DeferOperation, DeferralTick, NewRecord
  <2>2. /\ pending' = IF opState = "Open" THEN Append(pending, Len(ops) + 1) ELSE pending
        /\ priority' = priority
    BY <1>4 DEF DeferOperation
  <2>3. /\ ops' \in Seq(Operation) /\ Extends(ops, ops', 0)
        /\ Deferred(ops, ops', pending, pending', FALSE, opState = "Open", tick)
    <3>1. GetsNew(ops, ops, ops', 0, pending, pending', FALSE, opState = "Open", tick)
      BY <1>1, <1>2, <2>1, <2>2 DEF GetsNew
    <3> QED
      BY <3>1, NewIsDeferred
  <2> QED
    BY <2>2, <2>3 DEF OpsStep
<1>5. CASE DeferPriorityOperation(ops, pending)
  <2>1. ops' = Append(ops, NewRecord(TRUE, opState = "Open", tick))
    BY <1>5 DEF DeferPriorityOperation, DeferralTick, NewRecord
  <2>2. /\ priority' = IF opState = "Open" THEN Append(priority, Len(ops) + 1) ELSE priority
        /\ pending' = pending
    BY <1>5 DEF DeferPriorityOperation
  <2>3. /\ ops' \in Seq(Operation) /\ Extends(ops, ops', 0)
        /\ Deferred(ops, ops', priority, priority', TRUE, opState = "Open", tick)
    <3>1. GetsNew(ops, ops, ops', 0, priority, priority', TRUE, opState = "Open", tick)
      BY <1>1, <1>2, <2>1, <2>2 DEF GetsNew
    <3> QED
      BY <3>1, NewIsDeferred
  <2> QED
    BY <1>3, <2>2, <2>3 DEF OpsStep
<1> QED
  BY <1>4, <1>5 DEF CallerDefers

\* The same for a callback that runs, on either thread.
LEMMA RunOperationStep ==
    ASSUME SchedulerTypeOK, NEW op \in DOMAIN ops, ops[op].runs = 0, NEW q,
           RunOperation(op, q)
    PROVE  OpsStep(op, q)
<1>1. ops \in Seq(Operation) /\ tick \in Nat /\ Len(ops) \in Nat
  BY DEF SchedulerTypeOK
<1>2. PICK done \in Seq(Operation) : /\ done = [ops EXCEPT ![op].runs = @ + 1]
                                     /\ Extends(ops, done, op) /\ Len(done) = Len(ops)
  BY <1>1, RanOperation
<1>3. \/ ops' = done /\ pending' = q /\ UNCHANGED <<priority, sleepers>>
      \/ DeferOperation(done, q)
  BY <1>2 DEF RunOperation
<1>4. CASE ops' = done /\ pending' = q /\ UNCHANGED <<priority, sleepers>>
  BY <1>2, <1>4 DEF OpsStep
<1>5. CASE DeferOperation(done, q)
  <2>1. ops' = Append(done, NewRecord(FALSE, opState = "Open", tick))
    BY <1>5 DEF DeferOperation, DeferralTick, NewRecord
  <2>2. /\ pending' = IF opState = "Open" THEN Append(q, Len(done) + 1) ELSE q
        /\ priority' = priority
    BY <1>5 DEF DeferOperation
  <2>3. /\ ops' \in Seq(Operation) /\ Extends(ops, ops', op)
        /\ Deferred(ops, ops', q, pending', FALSE, opState = "Open", tick)
    <3>1. GetsNew(ops, done, ops', op, q, pending', FALSE, opState = "Open", tick)
      BY <1>1, <1>2, <2>1, <2>2 DEF GetsNew
    <3> QED
      BY <3>1, NewIsDeferred
  <2> QED
    BY <2>2, <2>3 DEF OpsStep
<1> QED
  BY <1>3, <1>4, <1>5

\* Everything the invariant says of the operations survives such a step.
LEMMA OpsStepKeeps ==
    ASSUME SchedulerInv, NEW op \in Nat, NEW q \in Seq(Nat), OpsStep(op, q),
           UNCHANGED <<tick, counter, known, active, caller>>,
           op # 0 => op \in DOMAIN ops /\ ops[op].tick <= counter,
           Queue(q, FALSE, ops), \A i \in DOMAIN q : q[i] # op,
           \A i \in DOMAIN priority : priority[i] # op,
           \A i \in DOMAIN ops : ~ops[i].priority /\ ops[i].runs = 0 /\ i # op
                                   => \E j \in DOMAIN q : q[j] = i
    PROVE  /\ ops' \in Seq(Operation) /\ pending' \in Seq(Nat) /\ priority' \in Seq(Nat)
           /\ Extends(ops, ops', op)
           /\ TicksOrdered' /\ PendingExact' /\ PriorityExact' /\ NoneForgotten'
           /\ RanAfterGpu' /\ WaitedExact'
           /\ opState # "Open" => pending' = q /\ priority' = priority
           /\ \A i \in DOMAIN priority' : \/ i \in DOMAIN priority /\ priority'[i] = priority[i]
                                         \/ priority'[i] > Len(ops)
<1> DEFINE N == Len(ops)
           n == Len(ops')
<1>1. /\ ops \in Seq(Operation) /\ ops' \in Seq(Operation) /\ Extends(ops, ops', op)
      /\ N \in Nat /\ n \in Nat /\ DOMAIN ops = 1 .. N /\ DOMAIN ops' = 1 .. n
      /\ priority \in Seq(Nat)
  BY DEF OpsStep, SchedulerInv, SchedulerTypeOK
<1>2. tick \in Nat /\ counter \in Nat /\ known \in Nat
  BY DEF SchedulerInv, SchedulerTypeOK
<1>3. Queue(q, FALSE, ops') /\ Queue(priority, TRUE, ops')
  BY <1>1, QueueFrame DEF SchedulerInv, PriorityExact
<1>4. \A i \in 1 .. N : /\ ops'[i].priority = ops[i].priority /\ ops'[i].tick = ops[i].tick
                       /\ ops'[i].at = ops[i].at
                       /\ ops'[i].runs = IF i = op THEN 1 ELSE ops[i].runs
  BY <1>1 DEF Extends
<1>5. \/ n = N /\ pending' = q /\ priority' = priority
      \/ Deferred(ops, ops', q, pending', FALSE, opState = "Open", tick) /\ priority' = priority
      \/ /\ Deferred(ops, ops', priority, priority', TRUE, opState = "Open", tick)
         /\ pending' = q /\ caller = Idle
  BY DEF OpsStep
<1>6. \A i \in 1 .. N : ops[i].tick <= tick /\ ops[i].at = ops[i].tick /\ ops[i].tick \in Nat
  BY <1>1, OpFields DEF SchedulerInv, TicksOrdered
<1>7. \A i \in 1 .. n : i \in 1 .. N \/ (i = n /\ n = N + 1)
  <2>1. n = N \/ n = N + 1
    BY <1>5 DEF Deferred
  <2> HIDE DEF n, N
  <2> QED
    BY <1>1, <2>1
<1>8. n = N + 1 => /\ ops'[n].at = ops'[n].tick /\ ops'[n].tick <= tick
                   /\ ops'[n].runs = 1 => ops'[n].tick = 0
                   /\ ops'[n].priority => caller = Idle
                   /\ ops'[n].runs = 0 =>
                        \/ ~ops'[n].priority /\ pending' = Append(q, n)
                        \/ ops'[n].priority /\ priority' = Append(priority, n)
  <2>1. CASE n = N
    BY <1>1, <2>1
  <2>2. CASE Deferred(ops, ops', q, pending', FALSE, opState = "Open", tick)
    <3>1. CASE opState = "Open"
      BY <1>2, <2>2, <3>1 DEF Deferred
    <3>2. CASE opState # "Open"
      BY <1>2, <2>2, <3>2 DEF Deferred
    <3> QED
      BY <3>1, <3>2
  <2>3. CASE /\ Deferred(ops, ops', priority, priority', TRUE, opState = "Open", tick)
             /\ pending' = q /\ caller = Idle
    <3>1. CASE opState = "Open"
      BY <1>2, <2>3, <3>1 DEF Deferred
    <3>2. CASE opState # "Open"
      BY <1>2, <2>3, <3>2 DEF Deferred
    <3> QED
      BY <3>1, <3>2
  <2> QED
    BY <1>5, <2>1, <2>2, <2>3
<1>9. /\ pending' = q \/ (n = N + 1 /\ pending' = Append(q, n) /\ opState = "Open"
                            /\ ~ops'[n].priority /\ ops'[n].runs = 0 /\ ops'[n].tick = tick)
      /\ priority' = priority \/ (n = N + 1 /\ priority' = Append(priority, n) /\ opState = "Open"
                            /\ ops'[n].priority /\ ops'[n].runs = 0 /\ ops'[n].tick = tick)
  BY <1>1, <1>5 DEF Deferred
<1> HIDE DEF N, n
<1>10. TicksOrdered'
  <2>1. ASSUME NEW i \in 1 .. n PROVE ops'[i].tick <= tick /\ ops'[i].at = ops'[i].tick
    BY <1>4, <1>6, <1>7, <1>8
  <2> QED
    BY <1>1, <2>1 DEF SchedulerInv, TicksOrdered
<1>11. RanAfterGpu'
  <2>1. ASSUME NEW i \in 1 .. n, ops'[i].runs = 1 PROVE ops'[i].tick <= counter
    <3>1. CASE i \in 1 .. N
      <4>1. CASE i = op
        BY <1>1, <1>4, <3>1, <4>1
      <4>2. CASE i # op
        BY <1>1, <1>4, <2>1, <3>1, <4>2 DEF SchedulerInv, RanAfterGpu
      <4> QED
        BY <4>1, <4>2
    <3> QED
      BY <1>2, <1>7, <1>8, <2>1, <3>1
  <2> QED
    BY <1>1, <2>1 DEF RanAfterGpu
<1>12. WaitedExact'
  <2>1. ASSUME NEW i \in 1 .. n, caller.pc = "waited", ops'[i].priority,
               ops'[i].tick <= caller.target
        PROVE  ops'[i].runs = 1
    <3>1. caller # Idle
      BY <2>1 DEF Idle
    <3>2. i \in 1 .. N
      BY <1>7, <1>8, <2>1, <3>1
    <3> QED
      BY <1>1, <1>4, <2>1, <3>2 DEF SchedulerInv, WaitedExact
  <2> QED
    BY <1>1, <2>1 DEF WaitedExact
<1>13. PendingExact' /\ pending' \in Seq(Nat)
  <2>1. CASE pending' = q
    BY <1>3, <2>1 DEF PendingExact
  <2>2. CASE n = N + 1 /\ pending' = Append(q, n) /\ ~ops'[n].priority /\ ops'[n].runs = 0
             /\ ops'[n].tick = tick
    <3>1. N < n /\ n <= Len(ops') /\ \A i \in DOMAIN ops : ops[i].tick <= ops'[n].tick
      BY <1>1, <1>6, <2>2 DEF n
    <3>2. ops'[n].priority = FALSE
      <4>1. ops'[n] \in Operation
        BY <1>1, <2>2, ElementOfSeq
      <4> QED
        BY <2>2, <4>1 DEF Operation
    <3>3. Queue(Append(q, n), FALSE, ops')
      BY <1>1, <2>2, <3>1, <3>2, QueueAppends DEF N
    <3> QED
      BY <1>1, <2>2, <3>3, AppendFacts DEF PendingExact
  <2> QED
    BY <1>9, <2>1, <2>2
<1>14. PriorityExact' /\ priority' \in Seq(Nat)
  <2>1. CASE priority' = priority
    BY <1>1, <1>3, <2>1 DEF PriorityExact
  <2>2. CASE n = N + 1 /\ priority' = Append(priority, n) /\ ops'[n].priority /\ ops'[n].runs = 0
             /\ ops'[n].tick = tick
    <3>1. N < n /\ n <= Len(ops') /\ \A i \in DOMAIN ops : ops[i].tick <= ops'[n].tick
      BY <1>1, <1>6, <2>2 DEF n
    <3>2. ops'[n].priority = TRUE
      <4>1. ops'[n] \in Operation
        BY <1>1, <2>2, ElementOfSeq
      <4> QED
        BY <2>2, <4>1 DEF Operation
    <3>3. Queue(Append(priority, n), TRUE, ops')
      BY <1>1, <2>2, <3>1, <3>2, QueueAppends DEF N, SchedulerInv, PriorityExact
    <3> QED
      BY <1>1, <2>2, <3>3, AppendFacts DEF PriorityExact
  <2> QED
    BY <1>9, <2>1, <2>2
<1>15. \A x : /\ (\E j \in DOMAIN q : q[j] = x) => \E j \in DOMAIN pending' : pending'[j] = x
              /\ (\E j \in DOMAIN priority : priority[j] = x)
                     => \E j \in DOMAIN priority' : priority'[j] = x
  <2>1. \A x : (\E j \in DOMAIN q : q[j] = x) => \E j \in DOMAIN pending' : pending'[j] = x
    <3>1. CASE pending' = q
      BY <3>1
    <3>2. CASE pending' = Append(q, n)
      <4>1. \A j \in DOMAIN q : j \in DOMAIN pending' /\ pending'[j] = q[j]
        BY <1>1, <3>2, AppendFacts
      <4> QED
        BY <4>1
    <3> QED
      BY <1>9, <3>1, <3>2
  <2>2. \A x : (\E j \in DOMAIN priority : priority[j] = x)
                 => \E j \in DOMAIN priority' : priority'[j] = x
    <3>1. CASE priority' = priority
      BY <3>1
    <3>2. CASE priority' = Append(priority, n)
      <4>1. \A j \in DOMAIN priority : j \in DOMAIN priority' /\ priority'[j] = priority[j]
        BY <1>1, <3>2, AppendFacts
      <4> QED
        BY <4>1
    <3> QED
      BY <1>9, <3>1, <3>2
  <2> QED
    BY <2>1, <2>2
<1>16. NoneForgotten'
  <2>1. ASSUME NEW i \in 1 .. n, ops'[i].runs = 0
        PROVE  IF ops'[i].priority
               THEN i = active \/ \E j \in DOMAIN priority' : priority'[j] = i
               ELSE \E j \in DOMAIN pending' : pending'[j] = i
    <3>1. CASE i \in 1 .. N
      <4>1. i # op /\ ops[i].runs = 0 /\ ops'[i].priority = ops[i].priority
        BY <1>4, <2>1, <3>1
      <4>2. CASE ops[i].priority
        <5>1. i = active \/ \E j \in DOMAIN priority : priority[j] = i
          BY <1>1, <3>1, <4>1, <4>2 DEF SchedulerInv, NoneForgotten
        <5> QED
          BY <1>15, <4>1, <4>2, <5>1
      <4>3. CASE ~ops[i].priority
        <5>1. \E j \in DOMAIN q : q[j] = i
          BY <1>1, <3>1, <4>1, <4>3
        <5> QED
          BY <1>15, <4>1, <4>3, <5>1
      <4> QED
        BY <4>2, <4>3
    <3>2. CASE i = n /\ n = N + 1
      <4>1. CASE ~ops'[n].priority /\ pending' = Append(q, n)
        <5>1. Len(q) + 1 \in DOMAIN pending' /\ pending'[Len(q) + 1] = n
          BY <1>1, <4>1, AppendFacts
        <5> QED
          BY <3>2, <4>1, <5>1
      <4>2. CASE ops'[n].priority /\ priority' = Append(priority, n)
        <5>1. Len(priority) + 1 \in DOMAIN priority' /\ priority'[Len(priority) + 1] = n
          BY <1>1, <4>2, AppendFacts
        <5> QED
          BY <3>2, <4>2, <5>1
      <4> QED
        BY <1>8, <2>1, <3>2, <4>1, <4>2
    <3> QED
      BY <1>7, <3>1, <3>2
  <2> QED
    BY <1>1, <2>1 DEF NoneForgotten
<1>17. \A i \in DOMAIN priority' : \/ i \in DOMAIN priority /\ priority'[i] = priority[i]
                                   \/ priority'[i] > Len(ops)
  <2>1. CASE priority' = priority
    BY <2>1
  <2>2. CASE n = N + 1 /\ priority' = Append(priority, n)
    <3>1. \A i \in DOMAIN priority' :
             \/ i \in DOMAIN priority /\ priority'[i] = priority[i]
             \/ priority'[i] = n
      BY <1>1, <2>2, AppendFacts
    <3> QED
      BY <1>1, <2>2, <3>1 DEF N
  <2> QED
    BY <1>9, <2>1, <2>2
<1> QED
  BY <1>1, <1>9, <1>10, <1>11, <1>12, <1>13, <1>14, <1>16, <1>17

-----------------------------------------------------------------------------
(***************************************************************************)
(* Command buffers.                                                        *)
(***************************************************************************)

\* Every non-empty set of natural numbers has a smallest element.
LEMMA SmallestNat ==
    ASSUME NEW M, M \subseteq Nat, M # {}
    PROVE  \E x \in M : \A y \in M : x <= y
<1> DEFINE R == {ss \in Nat \X Nat : ss[1] < ss[2]}
<1>1. IsWellFoundedOn(R, Nat)
  BY NatLessThanWellFounded DEF OpToRel
<1>2. PICK x \in M : \A y \in M : ~ (<<y, x>> \in R)
  BY <1>1, WFMin
<1>3. ASSUME NEW y \in M PROVE x <= y
  <2>1. <<y, x>> \in Nat \X Nat /\ ~ (<<y, x>>[1] < <<y, x>>[2])
    BY <1>2
  <2> QED
    BY <2>1
<1> QED
  BY <1>3

\* A pool that grows keeps its buffers, and the new ones are free.
LEMMA GrownFacts ==
    ASSUME NEW ticks \in Seq(Nat)
    PROVE  /\ GrownBuffers(ticks) \in Seq(Nat) /\ Len(ticks) \in Nat
           /\ Len(GrownBuffers(ticks)) = Len(ticks) + GrowStep /\ GrowStep \in Nat \ {0}
           /\ \A i \in Len(ticks) + 1 .. Len(ticks) + GrowStep : GrownBuffers(ticks)[i] = 0
<1> DEFINE new == [i \in 1 .. GrowStep |-> 0]
<1>1. GrowStep \in Nat \ {0}
  BY SchedulerAssumption
<1>2. new \in Seq(Nat) /\ Len(new) = GrowStep
  BY <1>1, IsASeq
<1>3. \A i \in 1 .. GrowStep : new[i] = 0
  OBVIOUS
<1> HIDE DEF new
<1>4. /\ ticks \o new \in Seq(Nat) /\ Len(ticks \o new) = Len(ticks) + Len(new)
      /\ \A i \in 1 .. Len(ticks) + Len(new) :
            (ticks \o new)[i] = IF i <= Len(ticks) THEN ticks[i] ELSE new[i - Len(ticks)]
  BY <1>2, ConcatProperties
<1>5. GrownBuffers(ticks) = ticks \o new
  BY DEF GrownBuffers, new
<1> QED
  BY <1>1, <1>2, <1>3, <1>4, <1>5

\* FindReusableBuffer returns a buffer of the pool, or none.
LEMMA ReusableFacts ==
    ASSUME current \in Nat, current # 0, NEW ticks \in Seq(Nat), ticks # << >>, NEW g \in Nat
    PROVE  FindReusableBuffer(ticks, g) \in 0 .. Len(ticks)
<1> DEFINE n == Len(ticks)
           after(o) == ((current - 1 + o) % n) + 1
           reusable == {o \in 1 .. n : g >= ticks[after(o)]}
<1>1. n \in Nat /\ n > 0
  OBVIOUS
<1> HIDE DEF n
<1>2. ASSUME NEW o \in 1 .. n PROVE after(o) \in 1 .. n
  <2>1. current - 1 + o \in Nat
    BY <1>1
  <2>2. (current - 1 + o) % n \in 0 .. n - 1
    BY <1>1, <2>1
  <2> QED
    BY <1>1, <2>2
<1> HIDE DEF after
<1>3. CASE reusable = {}
  BY <1>1, <1>3 DEF FindReusableBuffer, after, n
<1>4. CASE reusable # {}
  <2>1. reusable \subseteq Nat
    BY <1>1
  <2> HIDE DEF reusable
  <2>2. \E x \in reusable : \A y \in reusable : x <= y
    BY <1>4, <2>1, SmallestNat
  <2>3. Min(reusable) \in reusable
    BY <2>2 DEF Min
  <2>4. after(Min(reusable)) \in 1 .. n
    BY <1>2, <2>3 DEF reusable
  <2>5. FindReusableBuffer(ticks, g) = after(Min(reusable))
    BY <1>4 DEF FindReusableBuffer, after, n, reusable
  <2> QED
    BY <1>1, <2>4, <2>5 DEF n
<1> QED
  BY <1>3, <1>4

\* What does not depend on the call the recording thread is in.
LEMMA CallKeeps ==
    ASSUME SchedulerInv, UNCHANGED <<pending, priority, active, prio, ops>>,
           opState' \in {"Open", "Draining", "Closed"},
           tick' \in Nat, tick <= tick', counter' \in Nat, counter <= counter', counter' < tick',
           known' \in Nat, known' <= counter',
           bufferTicks' \in Seq(Nat), current' \in Nat, recording' \in BOOLEAN, stop' \in BOOLEAN
    PROVE  /\ SchedulerTypeOK' /\ TicksOrdered' /\ PendingExact' /\ PriorityExact'
           /\ ActiveExact' /\ NoneForgotten' /\ RanAfterGpu'
<1>1. /\ tick \in Nat /\ counter \in Nat
      /\ \A i \in DOMAIN ops : ops[i].tick \in Nat
  BY OpFields DEF SchedulerInv, SchedulerTypeOK
<1>2. SchedulerTypeOK'
  BY DEF SchedulerInv, SchedulerTypeOK
<1>3. TicksOrdered' /\ RanAfterGpu'
  BY <1>1 DEF SchedulerInv, TicksOrdered, RanAfterGpu
<1>4. PendingExact' /\ PriorityExact' /\ NoneForgotten'
  BY DEF SchedulerInv, PendingExact, PriorityExact, NoneForgotten
<1>5. ActiveExact'
  BY <1>1 DEF SchedulerInv, ActiveExact
<1> QED
  BY <1>2, <1>3, <1>4, <1>5

\* The types and order of the numbers, which most steps need.
LEMMA Numbers ==
    ASSUME SchedulerInv
    PROVE  /\ tick \in Nat /\ counter \in Nat /\ known \in Nat /\ current \in Nat
           /\ known <= counter /\ counter < tick
           /\ bufferTicks \in Seq(Nat) /\ recording \in BOOLEAN /\ stop \in BOOLEAN
           /\ recording => current # 0
           /\ current # 0 => current \in 1 .. Len(bufferTicks)
BY DEF SchedulerInv, SchedulerTypeOK, TicksOrdered, BufferFree

\* Submit marks the current buffer with the tick.
LEMMA SubmitFacts ==
    ASSUME SchedulerInv, recording
    PROVE  /\ SubmitTicks \in Seq(Nat) /\ SubmitTicks # << >> /\ SubmitTicks[current] = tick
           /\ Len(SubmitTicks) = Len(bufferTicks) /\ Len(bufferTicks) \in Nat
           /\ current \in 1 .. Len(bufferTicks)
<1>1. /\ current \in 1 .. Len(bufferTicks) /\ bufferTicks \in Seq(Nat) /\ tick \in Nat
      /\ Len(bufferTicks) \in Nat
  BY Numbers
<1> QED
  BY <1>1 DEF SubmitTicks

\* Begin takes a buffer that the GPU has passed, or waits for one.
LEMMA BeginKeeps == ASSUME SchedulerInv, Begin PROVE SchedulerInv'
<1>1. bufferTicks = << >> /\ ops = << >> /\ caller = Idle /\ opState = "Open"
  BY DEF Begin, CallerMayCall, SchedulerInv, BufferFree
<1>2. /\ bufferTicks' \in Seq(Nat) /\ Len(bufferTicks') = GrowStep /\ GrowStep \in Nat \ {0}
      /\ bufferTicks'[1] = 0
  <2>1. << >> \in Seq(Nat) /\ Len(<< >>) = 0 /\ bufferTicks' = GrownBuffers(<< >>)
    BY <1>1, EmptySeq DEF Begin
  <2>2. /\ GrownBuffers(<< >>) \in Seq(Nat) /\ Len(GrownBuffers(<< >>)) = 0 + GrowStep
        /\ GrowStep \in Nat \ {0}
        /\ \A i \in 0 + 1 .. 0 + GrowStep : GrownBuffers(<< >>)[i] = 0
    BY <2>1, GrownFacts
  <2>3. 1 \in 0 + 1 .. 0 + GrowStep
    BY <2>2
  <2> QED
    BY <2>1, <2>2, <2>3
<1>3. /\ current' = 1 /\ recording' = TRUE
      /\ UNCHANGED <<tick, counter, known, pending, priority, active, opState, stop, prio, caller,
                     ops>>
  BY DEF Begin
<1>4. /\ SchedulerTypeOK' /\ TicksOrdered' /\ PendingExact' /\ PriorityExact'
      /\ ActiveExact' /\ NoneForgotten' /\ RanAfterGpu'
  BY <1>1, <1>2, <1>3, Numbers, CallKeeps
<1>5. BufferFree'
  BY <1>1, <1>2, <1>3, Numbers DEF BufferFree, Idle
<1>6. CallerShape' /\ ShutdownShape'
  BY <1>3 DEF SchedulerInv, CallerShape, ShutdownShape, Resumes
<1>7. ShutdownDrains' /\ WaitedExact'
  BY <1>3 DEF SchedulerInv, ShutdownDrains, WaitedExact, Drained
<1> QED
  BY <1>4, <1>5, <1>6, <1>7 DEF SchedulerInv

\* Flush submits and begins again.
LEMMA FlushKeeps == ASSUME SchedulerInv, Flush PROVE SchedulerInv'
<1> DEFINE near == FindReusableBuffer(SubmitTicks, known)
           found == IF near # 0 THEN near ELSE FindReusableBuffer(SubmitTicks, counter)
<1>1. caller = Idle /\ opState = "Open" /\ recording
  BY DEF Flush, CallerMayCall
<1>2. /\ bufferTicks' = IF found # 0 THEN SubmitTicks ELSE GrownBuffers(SubmitTicks)
      /\ current' = IF found # 0 THEN found ELSE Len(SubmitTicks) + 1
      /\ known' = IF near # 0 THEN known ELSE counter
      /\ caller' = WaitThenPop(bufferTicks'[current'], near # 0, Idle)
      /\ tick' = tick + 1 /\ recording' = FALSE
      /\ UNCHANGED <<counter, pending, priority, active, opState, stop, prio, ops>>
  BY DEF Flush
<1>3. /\ near \in 0 .. Len(SubmitTicks) /\ found \in 0 .. Len(SubmitTicks)
      /\ Len(SubmitTicks) \in Nat
  BY <1>1, Numbers, SubmitFacts, ReusableFacts
<1> HIDE DEF near, found
<1>4. /\ bufferTicks' \in Seq(Nat) /\ Len(bufferTicks') \in Nat
      /\ current' \in 1 .. Len(bufferTicks')
  <2>1. CASE found # 0
    BY <1>1, <1>2, <1>3, <2>1, SubmitFacts
  <2>2. CASE found = 0
    <3>1. SubmitTicks \in Seq(Nat)
      BY <1>1, SubmitFacts
    <3>2. /\ GrownBuffers(SubmitTicks) \in Seq(Nat) /\ GrowStep \in Nat \ {0}
          /\ Len(GrownBuffers(SubmitTicks)) = Len(SubmitTicks) + GrowStep
      BY <3>1, GrownFacts
    <3> QED
      BY <1>2, <1>3, <2>2, <3>2
  <2> QED
    BY <2>1, <2>2
<1>5. bufferTicks'[current'] \in Nat
  BY <1>4, ElementOfSeq
<1>6. /\ caller'.pc = "gpu" /\ caller'.target = bufferTicks'[current']
      /\ caller'.refresh \in BOOLEAN /\ caller'.next = Idle
  BY <1>2 DEF WaitThenPop
<1>7. /\ SchedulerTypeOK' /\ TicksOrdered' /\ PendingExact' /\ PriorityExact'
      /\ ActiveExact' /\ NoneForgotten' /\ RanAfterGpu'
  <2>1. /\ known' \in Nat /\ known' <= counter' /\ tick' \in Nat /\ tick <= tick'
        /\ counter' \in Nat /\ counter <= counter' /\ counter' < tick'
    BY <1>2, Numbers
  <2>2. recording' \in BOOLEAN /\ stop' \in BOOLEAN /\ opState' = "Open"
    BY <1>1, <1>2, Numbers
  <2>3. current' \in Nat
    BY <1>4
  <2> QED
    BY <1>2, <1>4, <2>1, <2>2, <2>3, CallKeeps
<1>8. BufferFree'
  BY <1>2, <1>4, <1>5, <1>6 DEF BufferFree
<1>9. CallerShape'
  BY <1>5, <1>6 DEF CallerShape, Resumes
<1>10. ShutdownShape' /\ ShutdownDrains' /\ WaitedExact'
  <2>1. ~stop /\ ~stop' /\ opState' = "Open"
    BY <1>1, <1>2 DEF SchedulerInv, ShutdownShape, Idle
  <2> QED
    BY <1>6, <2>1 DEF ShutdownShape, ShutdownDrains, WaitedExact, Ending, Idle
<1> QED
  BY <1>7, <1>8, <1>9, <1>10 DEF SchedulerInv

\* FinishCurrent, with what its caller goes on with.
LEMMA FinishCurrentKeeps ==
    ASSUME SchedulerInv, NEW next, FinishCurrent(next), caller = Idle, opState = "Open",
           UNCHANGED <<counter, known, current, pending, priority, active, stop, prio, ops>>,
           Resumes(next, tick'),
           opState' = IF Ending(next) THEN "Draining" ELSE "Open"
    PROVE  SchedulerInv'
<1>1. /\ bufferTicks' = SubmitTicks /\ tick' = tick + 1 /\ recording' = FALSE /\ recording
      /\ caller' = WaitThenPop(tick, TRUE, next)
  BY DEF FinishCurrent
<1>2. caller'.pc = "gpu" /\ caller'.target = tick /\ caller'.refresh = TRUE /\ caller'.next = next
  BY <1>1 DEF WaitThenPop
<1>3. /\ bufferTicks' \in Seq(Nat) /\ bufferTicks'[current'] = tick
      /\ current' \in 1 .. Len(bufferTicks') /\ current' # 0
  BY <1>1, Numbers, SubmitFacts
<1>4. ~stop
  BY DEF SchedulerInv, ShutdownShape, Idle
<1>5. /\ SchedulerTypeOK' /\ TicksOrdered' /\ PendingExact' /\ PriorityExact'
      /\ ActiveExact' /\ NoneForgotten' /\ RanAfterGpu'
  <2>1. opState' \in {"Open", "Draining", "Closed"}
    OBVIOUS
  <2>2. /\ known' \in Nat /\ known' <= counter' /\ tick' \in Nat /\ tick <= tick'
        /\ counter' \in Nat /\ counter <= counter' /\ counter' < tick'
        /\ current' \in Nat
    <3>1. tick' = tick + 1 /\ counter' = counter /\ known' = known /\ current' = current
      BY <1>1
    <3>2. /\ tick \in Nat /\ counter \in Nat /\ known \in Nat /\ current \in Nat
          /\ known <= counter /\ counter < tick
      BY Numbers
    <3> QED
      BY <3>1, <3>2
  <2>3. recording' \in BOOLEAN /\ stop' \in BOOLEAN
    BY <1>1, Numbers
  <2> QED
    BY <1>3, <2>1, <2>2, <2>3, CallKeeps
<1>6. BufferFree'
  <2>1. tick \in Nat /\ recording' = FALSE
    BY <1>1, Numbers
  <2> QED
    BY <1>2, <1>3, <2>1 DEF BufferFree
<1>7. CallerShape'
  BY <1>2, Numbers DEF CallerShape
<1>8. ShutdownShape' /\ WaitedExact'
  BY <1>2, <1>4 DEF ShutdownShape, WaitedExact, Ending
<1>9. ShutdownDrains'
  <2>1. ASSUME NEW i \in DOMAIN pending PROVE ops[pending[i]].tick <= tick
    BY DEF SchedulerInv, PendingExact, Queue, TicksOrdered
  <2> QED
    BY <1>2, <1>4, <2>1 DEF ShutdownDrains
<1> QED
  BY <1>5, <1>6, <1>7, <1>8, <1>9 DEF SchedulerInv

\* The calls that submit and wait.
LEMMA FinishKeeps == ASSUME SchedulerInv, UnmapMemory \/ FinishAndDrain PROVE SchedulerInv'
<1>1. caller = Idle /\ opState = "Open" /\ opState' = "Open"
  BY DEF UnmapMemory, FinishAndDrain, CallerMayCall
<1>2. UNCHANGED <<counter, known, current, pending, priority, active, stop, prio, ops>>
  BY DEF UnmapMemory, FinishAndDrain
<1>3. CASE UnmapMemory
  <2> DEFINE next == [pc |-> "waitPriority", target |-> tick]
  <2>1. FinishCurrent(next) /\ tick' = tick + 1
    BY <1>3 DEF UnmapMemory, FinishCurrent
  <2>2. ~Ending(next) /\ Resumes(next, tick')
    BY <2>1, Numbers DEF Ending, Resumes
  <2> HIDE DEF next
  <2> QED
    BY <1>1, <1>2, <2>1, <2>2, FinishCurrentKeeps
<1>4. CASE FinishAndDrain
  <2> DEFINE next == [pc |-> "drain", next |-> Idle]
  <2>1. FinishCurrent(next)
    BY <1>4 DEF FinishAndDrain
  <2>2. ~Ending(next) /\ Resumes(next, tick')
    BY DEF Ending, Resumes, Idle
  <2> HIDE DEF next
  <2> QED
    BY <1>1, <1>2, <2>1, <2>2, FinishCurrentKeeps
<1> QED
  BY <1>3, <1>4

\* The first step of Shutdown.
LEMMA ShutdownKeeps == ASSUME SchedulerInv, Shutdown PROVE SchedulerInv'
<1> DEFINE next == [pc |-> "drain", next |-> [pc |-> "stop"]]
<1>1. caller = Idle /\ opState = "Open" /\ opState' = "Draining"
  BY DEF Shutdown, CallerMayCall
<1>2. UNCHANGED <<counter, known, current, pending, priority, active, stop, prio, ops>>
  BY DEF Shutdown
<1>3. Ending(next) /\ Resumes(next, tick') /\ next.pc = "drain"
  BY DEF Ending, Resumes
<1>4. CASE recording
  <2>1. FinishCurrent(next)
    BY <1>4 DEF Shutdown
  <2> HIDE DEF next
  <2> QED
    BY <1>1, <1>2, <1>3, <2>1, FinishCurrentKeeps
<1>5. CASE ~recording
  <2>1. current = 0 /\ ops = << >> /\ bufferTicks = << >>
    BY <1>1, <1>5 DEF SchedulerInv, BufferFree, Idle
  <2>2. caller' = next /\ UNCHANGED <<tick, bufferTicks, recording>>
    BY <1>5 DEF Shutdown
  <2>3. caller'.pc = "drain" /\ caller'.next = [pc |-> "stop"]
    BY <2>2
  <2> HIDE DEF next
  <2>4. pending = << >>
    <3>1. DOMAIN ops = {}
      BY <2>1
    <3>2. DOMAIN pending = {}
      BY <3>1 DEF SchedulerInv, PendingExact, Queue
    <3>3. pending \in Seq(Nat)
      BY DEF SchedulerInv, SchedulerTypeOK
    <3> QED
      BY <3>2, <3>3
  <2>5. /\ SchedulerTypeOK' /\ TicksOrdered' /\ PendingExact' /\ PriorityExact'
        /\ ActiveExact' /\ NoneForgotten' /\ RanAfterGpu'
    BY <1>1, <1>2, <2>2, Numbers, CallKeeps
  <2>6. BufferFree' /\ CallerShape'
    BY <1>2, <1>5, <2>1, <2>2, <2>3 DEF BufferFree, CallerShape
  <2>7. ShutdownShape' /\ ShutdownDrains' /\ WaitedExact'
    <3>1. ~stop'
      BY <1>1, <1>2 DEF SchedulerInv, ShutdownShape, Idle
    <3> QED
      BY <1>1, <1>2, <2>3, <2>4, <3>1 DEF ShutdownShape, ShutdownDrains, WaitedExact, Ending
  <2> QED
    BY <2>5, <2>6, <2>7 DEF SchedulerInv
<1> QED
  BY <1>4, <1>5

\* The wait for a submitted tick, and then for the priority operations up to it.
LEMMA WaitTickKeeps == ASSUME SchedulerInv, NEW t \in 1 .. MaxTick, WaitTick(t) PROVE SchedulerInv'
<1> DEFINE next == [pc |-> "waitPriority", target |-> t]
<1>1. /\ caller = Idle /\ opState = "Open" /\ recording /\ t < tick /\ t \in Nat
      /\ caller' = WaitThenPop(t, TRUE, next)
  BY SchedulerAssumption DEF WaitTick, CallerMayCall
<1>2. UNCHANGED <<tick, counter, known, bufferTicks, current, recording, pending, priority, active,
                  opState, stop, prio, ops>>
  BY DEF WaitTick
<1>3. /\ caller'.pc = "gpu" /\ caller'.target = t /\ caller'.refresh = TRUE /\ caller'.next = next
      /\ next.pc = "waitPriority" /\ next.target = t
  BY <1>1 DEF WaitThenPop
<1> HIDE DEF next
<1>4. /\ SchedulerTypeOK' /\ TicksOrdered' /\ PendingExact' /\ PriorityExact'
      /\ ActiveExact' /\ NoneForgotten' /\ RanAfterGpu'
  BY <1>1, <1>2, Numbers, CallKeeps
<1>5. BufferFree'
  BY <1>1, <1>2, <1>3, Numbers DEF SchedulerInv, BufferFree
<1>6. CallerShape'
  BY <1>1, <1>2, <1>3 DEF CallerShape, Resumes
<1>7. ShutdownShape' /\ ShutdownDrains' /\ WaitedExact'
  <2>1. ~stop' /\ opState' = "Open"
    BY <1>1, <1>2 DEF SchedulerInv, ShutdownShape, Idle
  <2> QED
    BY <1>3, <2>1 DEF ShutdownShape, ShutdownDrains, WaitedExact, Ending
<1> QED
  BY <1>4, <1>5, <1>6, <1>7 DEF SchedulerInv

\* The wait for the GPU ends.
LEMMA GpuPassedKeeps == ASSUME SchedulerInv, GpuPassed PROVE SchedulerInv'
<1>1. /\ caller.pc = "gpu" /\ counter >= caller.target
      /\ known' = IF caller.refresh THEN counter ELSE known
      /\ caller' = [pc |-> "pop", next |-> caller.next]
  BY DEF GpuPassed
<1>2. UNCHANGED <<tick, counter, bufferTicks, current, recording, pending, priority, active,
                  opState, stop, prio, ops>>
  BY DEF GpuPassed
<1>3. caller'.pc = "pop" /\ caller'.next = caller.next
  BY <1>1
<1>4. /\ SchedulerTypeOK' /\ TicksOrdered' /\ PendingExact' /\ PriorityExact'
      /\ ActiveExact' /\ NoneForgotten' /\ RanAfterGpu'
  <2>1. known' \in Nat /\ known' <= counter
    BY <1>1, Numbers
  <2>2. opState' \in {"Open", "Draining", "Closed"}
    BY <1>2 DEF SchedulerInv, SchedulerTypeOK
  <2> QED
    BY <1>2, <2>1, <2>2, Numbers, CallKeeps
<1>5. BufferFree'
  <2>1. current # 0 /\ bufferTicks[current] <= counter
    <3>1. current # 0 /\ (recording \/ bufferTicks[current] <= caller.target)
      BY <1>1 DEF SchedulerInv, BufferFree
    <3>2. bufferTicks[current] \in Nat /\ caller.target \in Nat
      BY <1>1, <3>1, Numbers, ElementOfSeq DEF SchedulerInv, CallerShape
    <3>3. CASE recording
      BY <3>1, <3>3 DEF SchedulerInv, BufferFree
    <3>4. CASE bufferTicks[current] <= caller.target
      BY <1>1, <3>1, <3>2, <3>4, Numbers
    <3> QED
      BY <3>1, <3>3, <3>4
  <2> QED
    BY <1>2, <1>3, <2>1 DEF SchedulerInv, BufferFree
<1>6. CallerShape'
  BY <1>1, <1>2, <1>3 DEF SchedulerInv, CallerShape, Resumes
<1>7. ShutdownShape' /\ WaitedExact'
  BY <1>1, <1>2, <1>3 DEF SchedulerInv, ShutdownShape, WaitedExact, Ending, Idle
<1>8. ShutdownDrains'
  <2>1. ~stop
    BY <1>1 DEF SchedulerInv, ShutdownShape, Idle
  <2>2. opState # "Closed"
    BY <1>1 DEF SchedulerInv, ShutdownShape, Idle
  <2>3. ASSUME opState = "Draining", NEW i \in DOMAIN pending PROVE ops[pending[i]].tick <= known'
    <3>1. ops[pending[i]].tick <= caller.target /\ known' = counter
      BY <1>1, <2>3 DEF SchedulerInv, ShutdownDrains, ShutdownShape
    <3>2. ops[pending[i]].tick \in Nat /\ caller.target \in Nat
      BY <1>1, OpFields DEF SchedulerInv, PendingExact, Queue, CallerShape
    <3> QED
      BY <1>1, <3>1, <3>2, Numbers
  <2> QED
    BY <1>2, <1>3, <2>1, <2>2, <2>3 DEF ShutdownDrains
<1> QED
  BY <1>4, <1>5, <1>6, <1>7, <1>8 DEF SchedulerInv

\* A step of the recording thread that changes its call and nothing else.
LEMMA CallStepKeeps ==
    ASSUME SchedulerInv,
           UNCHANGED <<tick, counter, known, bufferTicks, current, pending, priority, active,
                       opState, prio, ops>>,
           recording' \in BOOLEAN, stop' \in BOOLEAN
    PROVE  /\ SchedulerTypeOK' /\ TicksOrdered' /\ PendingExact' /\ PriorityExact'
           /\ ActiveExact' /\ NoneForgotten' /\ RanAfterGpu'
<1>1. opState' \in {"Open", "Draining", "Closed"}
  BY DEF SchedulerInv, SchedulerTypeOK
<1> QED
  BY <1>1, Numbers, CallKeeps

\* PopPendingOperations returns to the call it is part of.
LEMMA PopEndsKeeps == ASSUME SchedulerInv, PopEnds PROVE SchedulerInv'
<1>1. caller.pc = "pop" /\ ~FrontIsFree /\ recording' = TRUE /\ caller' = caller.next
  BY DEF PopEnds
<1>2. UNCHANGED <<tick, counter, known, bufferTicks, current, pending, priority, active, opState,
                  stop, prio, ops>>
  BY DEF PopEnds
<1>3. /\ Resumes(caller', tick)
      /\ caller'.pc \in {"idle", "waitPriority", "drain"}
  BY <1>1 DEF SchedulerInv, CallerShape, Resumes, Idle
<1>4. /\ SchedulerTypeOK' /\ TicksOrdered' /\ PendingExact' /\ PriorityExact'
      /\ ActiveExact' /\ NoneForgotten' /\ RanAfterGpu'
  BY <1>1, <1>2, Numbers, CallStepKeeps
<1>5. BufferFree'
  BY <1>1, <1>2, <1>3 DEF SchedulerInv, BufferFree
<1>6. CallerShape'
  BY <1>1, <1>2, <1>3 DEF CallerShape, Resumes, Idle
<1>7. ~stop /\ opState # "Closed"
  BY <1>1 DEF SchedulerInv, ShutdownShape, Idle
<1>8. ShutdownShape' /\ WaitedExact'
  BY <1>1, <1>2, <1>3, <1>7 DEF SchedulerInv, ShutdownShape, WaitedExact, Ending
<1>9. ShutdownDrains'
  <2>1. opState = "Draining" => pending = << >>
    <3>1. SUFFICES ASSUME opState = "Draining", pending # << >> PROVE FALSE
      OBVIOUS
    <3>2. 1 \in DOMAIN pending /\ Head(pending) = pending[1]
      BY <3>1, TailFacts DEF SchedulerInv, SchedulerTypeOK
    <3>3. ops[pending[1]].tick <= known
      BY <1>1, <3>1, <3>2 DEF SchedulerInv, ShutdownDrains
    <3>4. ops[pending[1]].tick \in Nat
      BY <3>2, OpFields DEF SchedulerInv, PendingExact, Queue
    <3> QED
      BY <1>1, <3>1, <3>2, <3>3, <3>4, Numbers DEF FrontIsFree
  <2> QED
    BY <1>2, <1>3, <1>7, <2>1 DEF ShutdownDrains
<1> QED
  BY <1>4, <1>5, <1>6, <1>8, <1>9 DEF SchedulerInv

\* WaitPriorityOperations sleeps until the operations up to its tick have run.
LEMMA WaitPriorityKeeps == ASSUME SchedulerInv, WaitPriorityOperations PROVE SchedulerInv'
<1> DEFINE ready == PriorityDone(caller.target)
<1>1. /\ caller.pc = "waitPriority"
      /\ ready => caller' = [pc |-> "waited", target |-> caller.target]
      /\ ~ready => caller' = caller
  BY DEF WaitPriorityOperations, CallerWait
<1>2. UNCHANGED <<tick, counter, known, bufferTicks, current, recording, pending, priority, active,
                  opState, stop, prio, ops>>
  BY DEF WaitPriorityOperations, CallerWait
<1>3. /\ SchedulerTypeOK' /\ TicksOrdered' /\ PendingExact' /\ PriorityExact'
      /\ ActiveExact' /\ NoneForgotten' /\ RanAfterGpu'
  BY <1>2, Numbers, CallStepKeeps
<1>4. CASE ~ready
  BY <1>1, <1>2, <1>3, <1>4 DEF SchedulerInv, BufferFree, CallerShape, ShutdownShape, ShutdownDrains,
     WaitedExact, Drained
<1>5. CASE ready
  <2>1. caller'.pc = "waited" /\ caller'.target = caller.target
    BY <1>1, <1>5
  <2>2. BufferFree' /\ CallerShape' /\ ShutdownShape'
    BY <1>1, <1>2, <2>1 DEF SchedulerInv, BufferFree, CallerShape, ShutdownShape, Ending, Idle
  <2>3. ShutdownDrains'
    BY <1>1, <1>2, <2>1 DEF SchedulerInv, ShutdownShape, ShutdownDrains, Drained, Idle
  <2>4. ASSUME NEW i \in DOMAIN ops, ops[i].priority, ops[i].tick <= caller.target
        PROVE  ops[i].runs = 1
    <3>1. SUFFICES ASSUME ops[i].runs = 0 PROVE FALSE
      BY OpFields DEF SchedulerInv
    <3>2. i = active \/ \E j \in DOMAIN priority : priority[j] = i
      BY <2>4, <3>1 DEF SchedulerInv, NoneForgotten
    <3>3. i # active
      BY <1>5, <2>4, OpFields DEF PriorityDone, SchedulerInv
    <3>4. PICK j \in DOMAIN priority : priority[j] = i
      BY <3>2, <3>3
    <3>5. /\ priority # << >> /\ Head(priority) = priority[1] /\ 1 \in DOMAIN priority
          /\ j \in Nat /\ 1 <= j
      BY <3>4, TailFacts DEF SchedulerInv, SchedulerTypeOK
    <3>6. ops[priority[1]].tick <= ops[i].tick /\ priority[1] \in DOMAIN ops
      BY <3>4, <3>5, OpFields DEF SchedulerInv, PriorityExact, Queue
    <3>7. /\ ops[priority[1]].tick \in Nat /\ ops[i].tick \in Nat /\ caller.target \in Nat
          /\ ~(ops[priority[1]].tick <= caller.target)
      BY <1>1, <1>5, <3>5, <3>6, OpFields DEF SchedulerInv, CallerShape, PriorityDone
    <3> QED
      BY <2>4, <3>6, <3>7
  <2>5. WaitedExact'
    BY <1>2, <2>1, <2>4 DEF WaitedExact
  <2> QED
    BY <1>3, <2>2, <2>3, <2>5 DEF SchedulerInv
<1> QED
  BY <1>4, <1>5

\* DrainPriorityOperations sleeps until no priority operation is left.
LEMMA DrainPriorityKeeps == ASSUME SchedulerInv, DrainPriorityOperations PROVE SchedulerInv'
<1>1. /\ caller.pc = "drain"
      /\ Drained => caller' = caller.next
      /\ ~Drained => caller' = caller
  BY DEF DrainPriorityOperations, CallerWait
<1>2. UNCHANGED <<tick, counter, known, bufferTicks, current, recording, pending, priority, active,
                  opState, stop, prio, ops>>
  BY DEF DrainPriorityOperations, CallerWait
<1>3. /\ SchedulerTypeOK' /\ TicksOrdered' /\ PendingExact' /\ PriorityExact'
      /\ ActiveExact' /\ NoneForgotten' /\ RanAfterGpu'
  BY <1>2, Numbers, CallStepKeeps
<1>4. CASE ~Drained
  BY <1>1, <1>2, <1>3, <1>4 DEF SchedulerInv, BufferFree, CallerShape, ShutdownShape, ShutdownDrains,
     WaitedExact, Drained
<1>5. CASE Drained
  <2>1. caller' \in {Idle, [pc |-> "stop"]} /\ caller'.pc \in {"idle", "stop"}
    BY <1>1, <1>5 DEF SchedulerInv, CallerShape, Idle
  <2>2. caller'.pc = "stop" <=> Ending(caller)
    BY <1>1, <1>5, <2>1 DEF Ending, Idle
  <2>3. BufferFree' /\ CallerShape' /\ WaitedExact'
    BY <1>1, <1>2, <2>1 DEF SchedulerInv, BufferFree, CallerShape, WaitedExact
  <2>4. ~stop /\ opState # "Closed"
    BY <1>1 DEF SchedulerInv, ShutdownShape, Idle
  <2>5. ShutdownShape'
    BY <1>1, <1>2, <2>1, <2>2, <2>4 DEF SchedulerInv, ShutdownShape, Ending
  <2>6. ShutdownDrains'
    BY <1>1, <1>2, <1>5, <2>1, <2>4 DEF SchedulerInv, ShutdownDrains, Drained
  <2> QED
    BY <1>3, <2>3, <2>5, <2>6 DEF SchedulerInv
<1> QED
  BY <1>4, <1>5

\* The wait for priority operations is over.
LEMMA WaitReturnsKeeps == ASSUME SchedulerInv, WaitReturns PROVE SchedulerInv'
<1>1. caller.pc = "waited" /\ caller' = Idle /\ caller'.pc = "idle"
  BY DEF WaitReturns, Idle
<1>2. UNCHANGED <<tick, counter, known, bufferTicks, current, recording, pending, priority, active,
                  opState, stop, prio, ops>>
  BY DEF WaitReturns
<1>3. /\ SchedulerTypeOK' /\ TicksOrdered' /\ PendingExact' /\ PriorityExact'
      /\ ActiveExact' /\ NoneForgotten' /\ RanAfterGpu'
  BY <1>2, Numbers, CallStepKeeps
<1>4. BufferFree' /\ CallerShape' /\ ShutdownShape' /\ WaitedExact'
  BY <1>1, <1>2 DEF SchedulerInv, BufferFree, CallerShape, ShutdownShape, WaitedExact, Ending, Idle
<1>5. ShutdownDrains'
  BY <1>1, <1>2 DEF SchedulerInv, ShutdownShape, ShutdownDrains, Drained, Idle
<1> QED
  BY <1>3, <1>4, <1>5 DEF SchedulerInv

\* Shutdown asks the priority thread to stop and wakes it.
LEMMA StopKeeps == ASSUME SchedulerInv, RequestStop \/ NotifyStop PROVE SchedulerInv'
<1>1. UNCHANGED <<tick, counter, known, bufferTicks, current, recording, pending, priority, active,
                  opState, prio, ops>>
  BY DEF RequestStop, NotifyStop
<1>2. caller.pc \in {"stop", "notify"} /\ caller'.pc \in {"notify", "join"}
  BY DEF RequestStop, NotifyStop
<1>3. stop' = TRUE
  BY DEF RequestStop, NotifyStop, SchedulerInv, ShutdownShape
<1>4. /\ SchedulerTypeOK' /\ TicksOrdered' /\ PendingExact' /\ PriorityExact'
      /\ ActiveExact' /\ NoneForgotten' /\ RanAfterGpu'
  BY <1>1, <1>3, Numbers, CallStepKeeps
<1>5. opState = "Draining" /\ Drained
  <2>1. opState = "Draining"
    BY <1>2 DEF SchedulerInv, SchedulerTypeOK, ShutdownShape, Idle
  <2>2. stop \/ caller.pc = "stop"
    BY <1>2 DEF SchedulerInv, ShutdownShape
  <2> QED
    BY <2>1, <2>2 DEF SchedulerInv, ShutdownDrains
<1>6. BufferFree' /\ CallerShape' /\ WaitedExact'
  BY <1>1, <1>2 DEF SchedulerInv, BufferFree, CallerShape, WaitedExact
<1>7. ShutdownShape' /\ ShutdownDrains'
  BY <1>1, <1>2, <1>3, <1>5 DEF SchedulerInv, ShutdownShape, ShutdownDrains, Drained
<1> QED
  BY <1>4, <1>6, <1>7 DEF SchedulerInv

\* Shutdown joins the priority thread.
LEMMA JoinKeeps == ASSUME SchedulerInv, Join PROVE SchedulerInv'
<1>1. /\ caller.pc = "join" /\ opState' = "Closed" /\ caller' = Idle /\ caller'.pc = "idle"
  BY DEF Join, Idle
<1>2. UNCHANGED <<tick, counter, known, bufferTicks, current, recording, pending, priority, active,
                  stop, prio, ops>>
  BY DEF Join
<1>3. opState = "Draining" /\ stop
  BY <1>1 DEF SchedulerInv, SchedulerTypeOK, ShutdownShape, Idle
<1>4. Drained /\ pending = << >>
  BY <1>1, <1>3 DEF SchedulerInv, ShutdownDrains
<1>5. /\ SchedulerTypeOK' /\ TicksOrdered' /\ PendingExact' /\ PriorityExact'
      /\ ActiveExact' /\ NoneForgotten' /\ RanAfterGpu'
  BY <1>1, <1>2, Numbers, CallKeeps
<1>6. BufferFree' /\ CallerShape' /\ WaitedExact'
  BY <1>1, <1>2 DEF SchedulerInv, BufferFree, CallerShape, WaitedExact
<1>7. ShutdownShape' /\ ShutdownDrains'
  BY <1>1, <1>2, <1>3, <1>4 DEF ShutdownShape, ShutdownDrains, Drained, Idle
<1> QED
  BY <1>5, <1>6, <1>7 DEF SchedulerInv

\* The GPU signals a submitted tick.
LEMMA GpuFinishesKeeps == ASSUME SchedulerInv, GpuFinishes PROVE SchedulerInv'
<1>1. counter < tick - 1 /\ counter' = counter + 1
  BY DEF GpuFinishes
<1>2. UNCHANGED <<tick, known, bufferTicks, current, recording, pending, priority, active, opState,
                  stop, prio, caller, ops>>
  BY DEF GpuFinishes
<1>3. /\ SchedulerTypeOK' /\ TicksOrdered' /\ PendingExact' /\ PriorityExact'
      /\ ActiveExact' /\ NoneForgotten' /\ RanAfterGpu'
  <2>1. /\ counter' \in Nat /\ counter <= counter' /\ counter' < tick' /\ known' <= counter'
        /\ tick <= tick'
    BY <1>1, <1>2, Numbers
  <2>2. opState' \in {"Open", "Draining", "Closed"}
    BY <1>2 DEF SchedulerInv, SchedulerTypeOK
  <2> QED
    BY <1>2, <2>1, <2>2, Numbers, CallKeeps
<1>4. BufferFree'
  <2>1. current # 0 => bufferTicks[current] \in Nat
    BY Numbers, ElementOfSeq
  <2>2. current # 0 /\ bufferTicks[current] <= counter => bufferTicks[current] <= counter'
    BY <1>1, <2>1, Numbers
  <2> QED
    BY <1>2, <2>2, Numbers DEF SchedulerInv, BufferFree
<1>5. CallerShape' /\ ShutdownShape' /\ ShutdownDrains' /\ WaitedExact'
  BY <1>2 DEF SchedulerInv, CallerShape, ShutdownShape, ShutdownDrains, WaitedExact, Drained
<1> QED
  BY <1>3, <1>4, <1>5 DEF SchedulerInv

-----------------------------------------------------------------------------
(***************************************************************************)
(* Operations deferred and run, and the priority thread.                   *)
(***************************************************************************)

\* The rest of the invariant over a step that runs op or defers an operation.
LEMMA OpsStepRest ==
    ASSUME SchedulerInv, NEW op \in Nat, ops' \in Seq(Operation), Extends(ops, ops', op),
           pending' \in Seq(Nat), priority' \in Seq(Nat), current # 0,
           UNCHANGED <<tick, counter, known, bufferTicks, current, recording, active, opState,
                       stop, caller>>,
           prio' \in PriorityPlaces,
           \A i \in DOMAIN priority' : \/ i \in DOMAIN priority /\ priority'[i] = priority[i]
                                       \/ priority'[i] > Len(ops),
           active # 0 <=> prio' \in {"gpu", "run", "ended"},
           active # 0 => /\ (IF op = active THEN 1 ELSE ops[active].runs)
                               = IF prio' = "ended" THEN 1 ELSE 0
                         /\ prio' # "gpu" => ops[active].tick <= counter
    PROVE  /\ SchedulerTypeOK' /\ BufferFree' /\ CallerShape' /\ ShutdownShape' /\ ActiveExact'
<1>1. SchedulerTypeOK'
  BY DEF SchedulerInv, SchedulerTypeOK
<1>2. BufferFree'
  BY DEF SchedulerInv, BufferFree
<1>3. CallerShape' /\ ShutdownShape'
  BY DEF SchedulerInv, CallerShape, ShutdownShape
<1>4. ASSUME active # 0
      PROVE  /\ active \in DOMAIN ops' /\ ops'[active].priority
             /\ ops'[active].runs = IF prio' = "ended" THEN 1 ELSE 0
             /\ prio' # "gpu" => ops'[active].tick <= counter
             /\ \A i \in DOMAIN priority' : active < priority'[i]
  <2>1. /\ active \in 1 .. Len(ops) /\ ops[active].priority /\ Len(ops) \in Nat
        /\ \A i \in DOMAIN priority : active < priority[i]
    BY <1>4, OpFields DEF SchedulerInv, ActiveExact
  <2>2. /\ ops'[active].priority = ops[active].priority /\ ops'[active].tick = ops[active].tick
        /\ ops'[active].runs = IF active = op THEN 1 ELSE ops[active].runs
        /\ Len(ops) <= Len(ops')
    BY <2>1 DEF Extends
  <2>3. active \in DOMAIN ops'
    BY <2>1, <2>2
  <2>4. ASSUME NEW i \in DOMAIN priority' PROVE active < priority'[i]
    <3>1. CASE i \in DOMAIN priority /\ priority'[i] = priority[i]
      BY <2>1, <3>1
    <3>2. CASE priority'[i] > Len(ops)
      <4>1. priority'[i] \in Nat
        BY ElementOfSeq
      <4> QED
        BY <2>1, <3>2, <4>1
    <3> QED
      BY <3>1, <3>2
  <2> QED
    BY <1>4, <2>1, <2>2, <2>3, <2>4
<1>5. ActiveExact'
  BY <1>4 DEF ActiveExact
<1> QED
  BY <1>1, <1>2, <1>3, <1>5

\* The recording thread defers an operation.
LEMMA CallerDefersKeeps == ASSUME SchedulerInv, CallerDefers PROVE SchedulerInv'
<1>1. UNCHANGED <<tick, counter, known, bufferTicks, current, recording, active, opState, stop,
                  prio, caller>>
  BY DEF CallerDefers
<1>2. caller = Idle /\ caller.pc = "idle" /\ current # 0
  BY Numbers DEF CallerDefers, Idle
<1>3. OpsStep(0, pending)
  BY CallerDefersStep
<1>4. /\ pending \in Seq(Nat) /\ Queue(pending, FALSE, ops)
      /\ \A i \in DOMAIN pending : pending[i] # 0
      /\ \A i \in DOMAIN priority : priority[i] # 0
  BY OpFields DEF SchedulerInv, SchedulerTypeOK, PendingExact, PriorityExact, Queue
<1>5. \A i \in DOMAIN ops : ~ops[i].priority /\ ops[i].runs = 0 /\ i # 0
                               => \E j \in DOMAIN pending : pending[j] = i
  BY DEF SchedulerInv, NoneForgotten
<1>6. /\ ops' \in Seq(Operation) /\ pending' \in Seq(Nat) /\ priority' \in Seq(Nat)
      /\ Extends(ops, ops', 0)
      /\ TicksOrdered' /\ PendingExact' /\ PriorityExact' /\ NoneForgotten'
      /\ RanAfterGpu' /\ WaitedExact'
      /\ opState # "Open" => pending' = pending /\ priority' = priority
      /\ \A i \in DOMAIN priority' : \/ i \in DOMAIN priority /\ priority'[i] = priority[i]
                                     \/ priority'[i] > Len(ops)
  BY <1>1, <1>3, <1>4, <1>5, OpsStepKeeps
<1>7. /\ prio' \in PriorityPlaces
      /\ active # 0 <=> prio' \in {"gpu", "run", "ended"}
      /\ active # 0 => /\ (IF 0 = active THEN 1 ELSE ops[active].runs)
                               = IF prio' = "ended" THEN 1 ELSE 0
                       /\ prio' # "gpu" => ops[active].tick <= counter
  BY <1>1 DEF SchedulerInv, SchedulerTypeOK, ActiveExact
<1>8. SchedulerTypeOK' /\ BufferFree' /\ CallerShape' /\ ShutdownShape' /\ ActiveExact'
  BY <1>1, <1>2, <1>6, <1>7, OpsStepRest
<1>9. ShutdownDrains'
  <2>1. opState \in {"Open", "Closed"}
    BY DEF CallerDefers
  <2>2. CASE opState = "Open"
    <3>1. ~stop
      BY <1>2, <2>2 DEF SchedulerInv, ShutdownShape
    <3> QED
      BY <1>1, <1>2, <2>2, <3>1 DEF ShutdownDrains
  <2>3. CASE opState = "Closed"
    BY <1>1, <1>2, <1>6, <2>3 DEF SchedulerInv, ShutdownDrains, Drained
  <2> QED
    BY <2>1, <2>2, <2>3
<1> QED
  BY <1>6, <1>8, <1>9 DEF SchedulerInv

\* An operation of the pending queue runs on the recording thread.
LEMMA PopPendingKeeps == ASSUME SchedulerInv, PopPendingOperation PROVE SchedulerInv'
<1> DEFINE op == Head(pending)
           q == Tail(pending)
<1>1. UNCHANGED <<tick, counter, known, bufferTicks, current, recording, active, opState, stop,
                  prio, caller>>
  BY DEF PopPendingOperation
<1>2. /\ caller.pc = "pop" /\ pending # << >> /\ known >= ops[op].tick
      /\ RunOperation(op, q)
  BY DEF PopPendingOperation, FrontIsFree
<1>3. /\ Queue(q, FALSE, ops) /\ q \in Seq(Nat)
      /\ op \in DOMAIN ops /\ ops[op].priority = FALSE /\ ops[op].runs = 0
      /\ \A i \in DOMAIN q : op < q[i]
      /\ \A x : (\E i \in DOMAIN pending : pending[i] = x)
                  => x = op \/ \E i \in DOMAIN q : q[i] = x
  <2>1. pending \in Seq(Nat) /\ Queue(pending, FALSE, ops)
    BY DEF SchedulerInv, SchedulerTypeOK, PendingExact
  <2> QED
    BY <1>2, <2>1, QueueTail
<1>4. \A i \in DOMAIN q : \E j \in DOMAIN pending : q[i] = pending[j]
  <2>1. \A i \in DOMAIN q : i + 1 \in DOMAIN pending /\ q[i] = pending[i + 1]
    BY <1>2, TailFacts DEF SchedulerInv, SchedulerTypeOK
  <2> QED
    BY <2>1
<1>5. OpsStep(op, q)
  <2> HIDE DEF op, q
  <2> QED
    BY <1>2, <1>3, RunOperationStep DEF SchedulerInv
<1>6. op \in Nat /\ ops[op].tick \in Nat /\ \A i \in DOMAIN q : q[i] \in Nat
  BY <1>3, OpFields, ElementOfSeq DEF SchedulerInv
<1>7. /\ ops[op].tick <= counter
      /\ \A i \in DOMAIN q : q[i] # op
  <2> HIDE DEF op, q
  <2>1. ops[op].tick <= counter
    BY <1>2, <1>6, Numbers
  <2> QED
    BY <1>3, <1>6, <2>1
<1>8. op # active /\ \A i \in DOMAIN priority : priority[i] # op
  <2> HIDE DEF op, q
  <2>1. active = 0 \/ ops[active].priority = TRUE
    BY OpFields DEF SchedulerInv, ActiveExact
  <2>2. op # active
    BY <1>3, <2>1, OpFields DEF SchedulerInv
  <2>3. \A i \in DOMAIN priority : ops[priority[i]].priority = TRUE
    BY DEF SchedulerInv, PriorityExact, Queue
  <2> QED
    BY <1>3, <2>2, <2>3
<1> HIDE DEF op, q
<1>9. \A i \in DOMAIN ops : ~ops[i].priority /\ ops[i].runs = 0 /\ i # op
                               => \E j \in DOMAIN q : q[j] = i
  BY <1>3 DEF SchedulerInv, NoneForgotten
<1>10. /\ ops' \in Seq(Operation) /\ pending' \in Seq(Nat) /\ priority' \in Seq(Nat)
       /\ Extends(ops, ops', op)
       /\ TicksOrdered' /\ PendingExact' /\ PriorityExact' /\ NoneForgotten'
       /\ RanAfterGpu' /\ WaitedExact'
       /\ opState # "Open" => pending' = q /\ priority' = priority
       /\ \A i \in DOMAIN priority' : \/ i \in DOMAIN priority /\ priority'[i] = priority[i]
                                      \/ priority'[i] > Len(ops)
  BY <1>1, <1>3, <1>5, <1>6, <1>7, <1>8, <1>9, OpsStepKeeps
<1>11. /\ prio' \in PriorityPlaces
       /\ active # 0 <=> prio' \in {"gpu", "run", "ended"}
       /\ active # 0 => /\ (IF op = active THEN 1 ELSE ops[active].runs)
                                = IF prio' = "ended" THEN 1 ELSE 0
                        /\ prio' # "gpu" => ops[active].tick <= counter
  BY <1>1, <1>8 DEF SchedulerInv, SchedulerTypeOK, ActiveExact
<1>12. current # 0
  BY <1>2 DEF SchedulerInv, BufferFree
<1>13. SchedulerTypeOK' /\ BufferFree' /\ CallerShape' /\ ShutdownShape' /\ ActiveExact'
  BY <1>1, <1>6, <1>10, <1>11, <1>12, OpsStepRest
<1>14. ShutdownDrains'
  <2>1. ~stop /\ opState # "Closed"
    BY <1>2 DEF SchedulerInv, ShutdownShape, Idle
  <2>2. ASSUME opState = "Draining", NEW i \in DOMAIN pending'
        PROVE  ops'[pending'[i]].tick <= known
    <3>1. pending' = q
      BY <1>10, <2>2
    <3>2. PICK j \in DOMAIN pending : q[i] = pending[j]
      BY <1>4, <2>2, <3>1
    <3>3. ops[q[i]].tick <= known
      BY <1>2, <2>2, <3>2 DEF SchedulerInv, ShutdownDrains
    <3>4. q[i] \in 1 .. Len(ops)
      BY <1>3, <2>2, <3>1, OpFields DEF Queue, SchedulerInv
    <3>5. ops'[q[i]].tick = ops[q[i]].tick
      BY <1>10, <3>4 DEF Extends
    <3> QED
      BY <3>1, <3>3, <3>5
  <2> QED
    BY <1>1, <1>2, <2>1, <2>2 DEF ShutdownDrains
<1> QED
  BY <1>10, <1>13, <1>14 DEF SchedulerInv

\* A step of the priority thread that leaves the operations alone.
LEMMA PriorityStepKeeps ==
    ASSUME SchedulerInv,
           UNCHANGED <<tick, counter, bufferTicks, current, recording, pending, opState, stop,
                       caller, ops>>,
           known' \in Nat, known <= known', known' <= counter,
           priority' \in Seq(Nat), PriorityExact', active' \in Nat, ActiveExact',
           prio' \in PriorityPlaces, NoneForgotten', Drained => Drained'
    PROVE  SchedulerInv'
<1>1. SchedulerTypeOK'
  BY DEF SchedulerInv, SchedulerTypeOK
<1>2. TicksOrdered' /\ RanAfterGpu'
  BY DEF SchedulerInv, TicksOrdered, RanAfterGpu
<1>3. BufferFree' /\ CallerShape' /\ ShutdownShape' /\ WaitedExact' /\ PendingExact'
  BY DEF SchedulerInv, BufferFree, CallerShape, ShutdownShape, WaitedExact, PendingExact
<1>4. ASSUME NEW i \in DOMAIN pending, ops[pending[i]].tick <= known
      PROVE  ops[pending[i]].tick <= known'
  <2>1. ops[pending[i]].tick \in Nat
    BY OpFields DEF SchedulerInv, PendingExact, Queue
  <2> QED
    BY <1>4, <2>1, Numbers
<1>5. ShutdownDrains'
  BY <1>4 DEF SchedulerInv, ShutdownDrains
<1> QED
  BY <1>1, <1>2, <1>3, <1>5 DEF SchedulerInv

\* The priority thread takes the front of its queue.
LEMMA PriorityNextKeeps == ASSUME SchedulerInv, PriorityNext PROVE SchedulerInv'
<1>1. /\ prio = "top"
      /\ UNCHANGED <<tick, counter, known, bufferTicks, current, recording, pending, opState, stop,
                     caller, ops>>
  BY DEF PriorityNext
<1>2. active = 0 /\ active \in Nat /\ priority \in Seq(Nat)
  BY <1>1 DEF SchedulerInv, ActiveExact, SchedulerTypeOK
<1>3. known' \in Nat /\ known <= known' /\ known' <= counter
  BY <1>1, Numbers
<1>4. CASE prio' \in {"exited", "blocking"} /\ UNCHANGED <<priority, active>>
  <2>1. PriorityExact' /\ NoneForgotten' /\ (Drained => Drained')
    BY <1>1, <1>4 DEF SchedulerInv, PriorityExact, NoneForgotten, Drained
  <2>2. ActiveExact' /\ prio' \in PriorityPlaces
    BY <1>2, <1>4 DEF ActiveExact, PriorityPlaces
  <2> QED
    BY <1>1, <1>2, <1>3, <1>4, <2>1, <2>2, PriorityStepKeeps
<1>5. CASE priority # << >> /\ active' = Head(priority) /\ priority' = Tail(priority)
           /\ prio' = "gpu"
  <2>1. /\ Queue(priority', TRUE, ops) /\ priority' \in Seq(Nat)
        /\ active' \in DOMAIN ops /\ ops[active'].priority = TRUE /\ ops[active'].runs = 0
        /\ \A i \in DOMAIN priority' : active' < priority'[i]
        /\ \A x : (\E i \in DOMAIN priority : priority[i] = x)
                    => x = active' \/ \E i \in DOMAIN priority' : priority'[i] = x
    <3>1. /\ Queue(Tail(priority), TRUE, ops) /\ Tail(priority) \in Seq(Nat)
          /\ Head(priority) \in DOMAIN ops /\ ops[Head(priority)].priority = TRUE
          /\ ops[Head(priority)].runs = 0
          /\ \A i \in DOMAIN Tail(priority) : Head(priority) < Tail(priority)[i]
          /\ \A x : (\E i \in DOMAIN priority : priority[i] = x)
                      => x = Head(priority) \/ \E i \in DOMAIN Tail(priority) : Tail(priority)[i] = x
      BY <1>2, <1>5, QueueTail DEF SchedulerInv, PriorityExact
    <3> QED
      BY <1>5, <3>1
  <2>2. active' \in Nat /\ active' # 0 /\ \A i \in DOMAIN ops : i # 0
    BY <2>1, OpFields DEF SchedulerInv
  <2>3. PriorityExact'
    BY <1>1, <2>1 DEF PriorityExact
  <2>4. ActiveExact'
    BY <1>1, <1>5, <2>1, <2>2 DEF ActiveExact
  <2>5. NoneForgotten'
    BY <1>1, <1>2, <2>1, <2>2 DEF SchedulerInv, NoneForgotten
  <2>6. ~Drained /\ prio' \in PriorityPlaces
    BY <1>5 DEF Drained, PriorityPlaces
  <2> QED
    BY <1>1, <1>3, <2>1, <2>2, <2>3, <2>4, <2>5, <2>6, PriorityStepKeeps
<1> QED
  BY <1>4, <1>5 DEF PriorityNext

\* The priority thread sleeps on m_operation_available and wakes.
LEMMA PrioritySleepKeeps == ASSUME SchedulerInv, PrioritySleep \/ PriorityWakes PROVE SchedulerInv'
<1>1. /\ prio \in {"blocking", "asleep"} /\ prio' \in {"asleep", "top"}
      /\ UNCHANGED <<tick, counter, known, bufferTicks, current, recording, pending, priority,
                     active, opState, stop, caller, ops>>
  BY DEF PrioritySleep, PriorityWakes
<1>2. /\ active \in Nat /\ priority \in Seq(Nat) /\ active = 0
      /\ known' \in Nat /\ known <= known' /\ known' <= counter
  BY <1>1, Numbers DEF SchedulerInv, SchedulerTypeOK, ActiveExact
<1>3. /\ PriorityExact' /\ NoneForgotten' /\ (Drained => Drained')
  BY <1>1 DEF SchedulerInv, PriorityExact, NoneForgotten, Drained
<1>4. ActiveExact' /\ prio' \in PriorityPlaces
  BY <1>1, <1>2 DEF ActiveExact, PriorityPlaces
<1> QED
  BY <1>1, <1>2, <1>3, <1>4, PriorityStepKeeps

\* The GPU has passed the tick of the active operation.
LEMMA PriorityGpuPassedKeeps == ASSUME SchedulerInv, PriorityGpuPassed PROVE SchedulerInv'
<1>1. /\ prio = "gpu" /\ prio' = "run" /\ counter >= ops[active].tick
      /\ known' = IF known >= ops[active].tick THEN known ELSE counter
      /\ UNCHANGED <<tick, counter, bufferTicks, current, recording, pending, priority,
                     active, opState, stop, caller, ops>>
  BY DEF PriorityGpuPassed
<1>2. active \in Nat /\ priority \in Seq(Nat)
  BY DEF SchedulerInv, SchedulerTypeOK
<1>3. known' \in Nat /\ known <= known' /\ known' <= counter
  BY <1>1, Numbers
<1>4. PriorityExact' /\ NoneForgotten' /\ (Drained => Drained')
  BY <1>1 DEF SchedulerInv, PriorityExact, NoneForgotten, Drained
<1>5. active # 0 => ops[active].tick \in Nat
  BY OpFields DEF SchedulerInv, ActiveExact
<1>6. active # 0 => ops[active].tick <= counter
  BY <1>1, <1>5, Numbers
<1>7. ActiveExact' /\ prio' \in PriorityPlaces
  BY <1>1, <1>6 DEF SchedulerInv, ActiveExact, PriorityPlaces
<1> QED
  BY <1>1, <1>2, <1>3, <1>4, <1>7, PriorityStepKeeps

\* The priority thread is done with its operation and wakes the sleepers.
LEMMA PriorityEndsKeeps == ASSUME SchedulerInv, PriorityEnds PROVE SchedulerInv'
<1>1. /\ prio = "ended" /\ prio' = "top" /\ active' = 0
      /\ UNCHANGED <<tick, counter, known, bufferTicks, current, recording, pending, priority,
                     opState, stop, caller, ops>>
  BY DEF PriorityEnds
<1>2. active # 0 /\ ops[active].runs = 1 /\ priority \in Seq(Nat)
  BY <1>1 DEF SchedulerInv, ActiveExact, SchedulerTypeOK
<1>3. known' \in Nat /\ known <= known' /\ known' <= counter
  BY <1>1, Numbers
<1>4. PriorityExact' /\ ~Drained
  BY <1>1, <1>2 DEF SchedulerInv, PriorityExact, Drained
<1>5. NoneForgotten'
  BY <1>1, <1>2 DEF SchedulerInv, NoneForgotten
<1>6. ActiveExact' /\ prio' \in PriorityPlaces
  BY <1>1 DEF ActiveExact, PriorityPlaces
<1> QED
  BY <1>1, <1>2, <1>3, <1>4, <1>5, <1>6, PriorityStepKeeps

\* The priority thread runs the operation it took off the queue.  It finds no
\* stop requested: Shutdown drains before it stops the thread.
LEMMA PriorityRunKeeps == ASSUME SchedulerInv, PriorityRun PROVE SchedulerInv'
<1>1. /\ prio = "run" /\ prio' = "ended"
      /\ UNCHANGED <<tick, counter, known, bufferTicks, current, recording, active, opState,
                     stop, caller>>
  BY DEF PriorityRun
<1>2. /\ active # 0 /\ active \in DOMAIN ops /\ ops[active].priority = TRUE
      /\ ops[active].runs = 0 /\ ops[active].tick <= counter
      /\ \A i \in DOMAIN priority : active < priority[i]
  BY <1>1, OpFields DEF SchedulerInv, ActiveExact
<1>3. ~stop /\ caller.pc # "stop"
  BY <1>2 DEF SchedulerInv, ShutdownDrains, Drained
<1>4. RunOperation(active, pending)
  BY <1>3 DEF PriorityRun
<1>5. OpsStep(active, pending)
  BY <1>2, <1>4, RunOperationStep DEF SchedulerInv
<1>6. active \in Nat /\ pending \in Seq(Nat) /\ Queue(pending, FALSE, ops)
  BY DEF SchedulerInv, SchedulerTypeOK, PendingExact
<1>7. \A i \in DOMAIN pending : pending[i] # active
  BY <1>2 DEF SchedulerInv, PendingExact, Queue
<1>8. \A i \in DOMAIN priority : priority[i] # active
  <2>1. \A i \in DOMAIN priority : priority[i] \in Nat
    BY ElementOfSeq DEF SchedulerInv, SchedulerTypeOK
  <2> QED
    BY <1>2, <1>6, <2>1
<1>9. \A i \in DOMAIN ops : ~ops[i].priority /\ ops[i].runs = 0 /\ i # active
                               => \E j \in DOMAIN pending : pending[j] = i
  BY DEF SchedulerInv, NoneForgotten
<1>10. /\ ops' \in Seq(Operation) /\ pending' \in Seq(Nat) /\ priority' \in Seq(Nat)
       /\ Extends(ops, ops', active)
       /\ TicksOrdered' /\ PendingExact' /\ PriorityExact' /\ NoneForgotten'
       /\ RanAfterGpu' /\ WaitedExact'
       /\ opState # "Open" => pending' = pending /\ priority' = priority
       /\ \A i \in DOMAIN priority' : \/ i \in DOMAIN priority /\ priority'[i] = priority[i]
                                      \/ priority'[i] > Len(ops)
  BY <1>1, <1>2, <1>5, <1>6, <1>7, <1>8, <1>9, OpsStepKeeps
<1>11. /\ prio' \in PriorityPlaces
       /\ active # 0 <=> prio' \in {"gpu", "run", "ended"}
       /\ active # 0 => /\ (IF active = active THEN 1 ELSE ops[active].runs)
                                = IF prio' = "ended" THEN 1 ELSE 0
                        /\ prio' # "gpu" => ops[active].tick <= counter
  BY <1>1, <1>2 DEF PriorityPlaces
<1>12. current # 0
  BY <1>2, OpFields DEF SchedulerInv, BufferFree
<1>13. SchedulerTypeOK' /\ BufferFree' /\ CallerShape' /\ ShutdownShape' /\ ActiveExact'
  BY <1>1, <1>6, <1>10, <1>11, <1>12, OpsStepRest
<1>14. ShutdownDrains'
  <2>1. opState # "Closed"
    BY <1>3 DEF SchedulerInv, ShutdownShape
  <2>2. ASSUME opState = "Draining", NEW i \in DOMAIN pending'
        PROVE  i \in DOMAIN pending /\ ops'[pending'[i]].tick = ops[pending[i]].tick
    <3>1. pending' = pending
      BY <1>10, <2>2
    <3>2. pending[i] \in 1 .. Len(ops)
      BY <2>2, <3>1, OpFields DEF SchedulerInv, PendingExact, Queue
    <3> QED
      BY <1>10, <2>2, <3>1, <3>2 DEF Extends
  <2>3. opState = "Draining" => pending' = pending
    BY <1>10
  <2> QED
    BY <1>1, <1>3, <2>1, <2>2, <2>3 DEF SchedulerInv, ShutdownDrains
<1> QED
  BY <1>10, <1>13, <1>14 DEF SchedulerInv

-----------------------------------------------------------------------------
\* Every step keeps the inductive invariant.
LEMMA SchedulerStep == SchedulerInv /\ [SchedulerNext]_schedulerVars => SchedulerInv'
<1> SUFFICES ASSUME SchedulerInv, [SchedulerNext]_schedulerVars PROVE SchedulerInv'
  OBVIOUS
<1>1. CASE CallerCalls
  BY <1>1, BeginKeeps, FlushKeeps, FinishKeeps, CallerDefersKeeps, ShutdownKeeps, WaitTickKeeps
     DEF CallerCalls
<1>2. CASE CallerStep
  BY <1>2, GpuPassedKeeps, PopPendingKeeps, PopEndsKeeps, WaitPriorityKeeps, DrainPriorityKeeps,
     WaitReturnsKeeps, StopKeeps, JoinKeeps DEF CallerStep
<1>3. CASE PriorityStep
  BY <1>3, PriorityNextKeeps, PrioritySleepKeeps, PriorityGpuPassedKeeps, PriorityRunKeeps,
     PriorityEndsKeeps DEF PriorityStep
<1>4. CASE GpuFinishes
  BY <1>4, GpuFinishesKeeps
<1>5. CASE UNCHANGED schedulerVars
  BY <1>5, ZenonT(60) DEF schedulerVars, SchedulerInv, SchedulerTypeOK, TicksOrdered, BufferFree, CallerShape,
     ShutdownShape, ShutdownDrains, PendingExact, PriorityExact, ActiveExact, NoneForgotten,
     RanAfterGpu, WaitedExact, Drained
<1> QED
  BY <1>1, <1>2, <1>3, <1>4, <1>5 DEF SchedulerNext

\* No buffer is recorded that the GPU still executes, and no deferred operation
\* runs before the GPU has finished the buffer it was deferred under, however
\* often the pool grows and whichever thread runs the operation.
THEOREM NothingBeforeTheGpuHolds == SchedulerSpec => []NothingBeforeTheGpu
<1>1. SchedulerInit => SchedulerInv
  BY SchedulerInvInit
<1>2. SchedulerInv /\ [SchedulerNext]_schedulerVars => SchedulerInv'
  BY SchedulerStep
<1>3. SchedulerInv => NothingBeforeTheGpu
  BY SchedulerInvImplies
<1> QED
  BY <1>1, <1>2, <1>3, PTL DEF SchedulerSpec

\* Every deferred operation runs at most once, WaitPriorityOperations(t) has seen
\* every priority operation up to t run, and Shutdown leaves none behind.
THEOREM OperationsExactHolds == SchedulerSpec => []OperationsExact
<1>1. SchedulerInit => SchedulerInv
  BY SchedulerInvInit
<1>2. SchedulerInv /\ [SchedulerNext]_schedulerVars => SchedulerInv'
  BY SchedulerStep
<1>3. SchedulerInv => OperationsExact
  BY SchedulerInvImplies
<1> QED
  BY <1>1, <1>2, <1>3, PTL DEF SchedulerSpec

-----------------------------------------------------------------------------
(***************************************************************************)
(* Flips use the scheduler as its specification allows: every step of      *)
(* GpuFlips is a step of the scheduler or leaves it alone.                 *)
(***************************************************************************)

\* Nothing in GpuFlips shuts the scheduler down.
LEMMA FlipsStep ==
    ASSUME opState = "Open", [FlipsNext]_allVars
    PROVE  [SchedulerNext]_schedulerVars /\ opState' = "Open"
<1> USE DEF schedulerVars
<1>1. CASE GuestStep \/ SubmitFlipPreparation \/ CloserThread \/ PresentThread
  BY <1>1 DEF GuestStep, SubmitFlipPreparation, CloserThread, PresentThread
<1>2. CASE SchedulerThreads
  <2>1. SchedulerNext
    BY <1>2 DEF SchedulerThreads, SchedulerNext, CallerCalls, CallerStep, PriorityStep
  <2>2. opState' = opState
    BY <1>2 DEF SchedulerThreads, Begin, GpuPassed, PopEnds, PriorityNext, PrioritySleep,
       PriorityWakes, PriorityGpuPassed, PriorityEnds, GpuFinishes
  <2> QED
    BY <2>1, <2>2
<1>3. CASE PriorityCompletes
  BY <1>3 DEF PriorityCompletes, SchedulerNext, PriorityStep, PriorityRun
<1>4. CASE GpuSignals
  <2>1. CASE gpu.source = "GpuEop"
    <3>1. CallerDefers /\ opState' = opState
      BY <1>4, <2>1 DEF GpuSignals, GpuAt, CallerDefers
    <3> QED
      BY <3>1 DEF SchedulerNext, CallerCalls
  <2>2. CASE gpu.source # "GpuEop"
    BY <1>4, <2>2 DEF GpuSignals
  <2> QED
    BY <2>1, <2>2
<1>5. CASE GpuFlushes \/ \E index \in Indices : WaitFlipDone(index)
  <2>1. Flush
    BY <1>5 DEF GpuFlushes, WaitFlipDone
  <2> QED
    BY <2>1 DEF SchedulerNext, CallerCalls, Flush
<1>6. CASE UNCHANGED schedulerVars
  BY <1>6
<1>7. CASE GpuWork \/ GpuCommands
  <2>1. CASE \/ WaitForSubmitSlot \/ GpuFlipFails \/ GpuTakesPreparation \/ GpuClaims
             \/ GpuChecksPort \/ GpuRecords \/ GpuCompletes \/ FlipWait \/ GpuFlipFull
             \/ \E index \in Indices : GpuFlipReserve(index)
    BY <2>1 DEF WaitForSubmitSlot, GpuFlipFails, GpuTakesPreparation, GpuClaims, GpuChecksPort,
       GpuRecords, GpuCompletes, FlipWait, GpuFlipFull, GpuFlipReserve
  <2> QED
    BY <1>4, <1>5, <1>7, <2>1 DEF GpuWork, GpuCommands
<1> QED
  BY <1>1, <1>2, <1>3, <1>6, <1>7 DEF FlipsNext, allVars

\* The whole path of a flip, from submission to presentation, implements the
\* scheduler's specification without its fairness.
THEOREM FlipsImplementScheduler ==
    FlipsSpec => SchedulerInit /\ [][SchedulerNext]_schedulerVars
<1>1. SchedulerInit => opState = "Open"
  BY DEF SchedulerInit
<1>2. opState = "Open" /\ [FlipsNext]_allVars => [SchedulerNext]_schedulerVars /\ (opState = "Open")'
  BY FlipsStep
<1> QED
  BY <1>1, <1>2, PTL DEF FlipsSpec

\* The guarantees of the scheduler hold while flips are prepared and completed
\* through it.
THEOREM FlipsKeepScheduler == FlipsSpec => [](NothingBeforeTheGpu /\ OperationsExact)
<1>1. SchedulerInit => SchedulerInv
  BY SchedulerInvInit
<1>2. SchedulerInv /\ [SchedulerNext]_schedulerVars => SchedulerInv'
  BY SchedulerStep
<1>3. SchedulerInv => NothingBeforeTheGpu /\ OperationsExact
  BY SchedulerInvImplies
<1> QED
  BY <1>1, <1>2, <1>3, FlipsImplementScheduler, PTL

-----------------------------------------------------------------------------
(***************************************************************************)
(* Queues: what the recursive function Filter returns.                     *)
(***************************************************************************)

\* A set of numbers with 0 that is closed under successor up to N reaches N.
LEMMA CountUp ==
    ASSUME NEW N \in Nat, NEW G, 0 \in G,
           \A n \in 0 .. N - 1 : n \in G => n + 1 \in G
    PROVE  0 .. N \subseteq G
<1> DEFINE M == {n \in 0 .. N : n \notin G}
<1> SUFFICES ASSUME M # {} PROVE FALSE
  OBVIOUS
<1>0. M \subseteq Nat
  OBVIOUS
<1> HIDE DEF M
<1>1. PICK x \in M : \A y \in M : x <= y
  BY <1>0, SmallestNat
<1> USE DEF M
<1>2. x # 0 /\ x - 1 \in 0 .. N - 1 /\ x - 1 \notin M
  BY <1>1
<1>3. x - 1 \in G /\ (x - 1) + 1 = x
  BY <1>2
<1> QED
  BY <1>2, <1>3

\* A set with the empty sequence that is closed under Append has them all.
LEMMA SeqInduction ==
    ASSUME NEW S, NEW P, << >> \in P,
           \A s \in Seq(S), x \in S : s \in P => Append(s, x) \in P
    PROVE  Seq(S) \subseteq P
<1> DEFINE G == {n \in Nat : \A s \in Seq(S) : Len(s) = n => s \in P}
<1>1. 0 \in G
  BY EmptySeq
<1>2. ASSUME NEW n \in Nat, n \in G PROVE n + 1 \in G
  <2> SUFFICES ASSUME NEW s \in Seq(S), Len(s) = n + 1 PROVE s \in P
    OBVIOUS
  <2>1. s # << >>
    OBVIOUS
  <2>2. PICK p \in Seq(S), x \in S : s = Append(p, x)
    BY <2>1, SequenceEmptyOrAppend
  <2>3. Len(p) = n
    BY <2>2, AppendProperties
  <2> QED
    BY <1>2, <2>2, <2>3
<1> HIDE DEF G
<1>3. ASSUME NEW s \in Seq(S) PROVE s \in P
  <2>1. Len(s) \in Nat
    OBVIOUS
  <2>2. \A n \in 0 .. Len(s) - 1 : n \in G => n + 1 \in G
    BY <1>2, <2>1
  <2>3. 0 .. Len(s) \subseteq G
    BY <1>1, <2>1, <2>2, CountUp
  <2> QED
    BY <2>1, <2>3 DEF G
<1> QED
  BY <1>3

\* What one element does to what is kept so far.
KeepNext(s, A, i, k) == IF s[i] \in A THEN Append(k, s[i]) ELSE k

\* The recursion of Kept has the solution one expects.
LEMMA KeptEquations ==
    ASSUME NEW S, NEW s \in Seq(S), NEW A
    PROVE  /\ Kept(s, A) \in [0 .. Len(s) -> Seq(S)]
           /\ Kept(s, A)[0] = << >>
           /\ \A i \in 1 .. Len(s) : Kept(s, A)[i] = KeepNext(s, A, i, Kept(s, A)[i - 1])
<1> DEFINE N == Len(s)
           Sol(n, g) == /\ g \in [0 .. n -> Seq(S)]
                        /\ g[0] = << >>
                        /\ \A i \in 1 .. n : g[i] = KeepNext(s, A, i, g[i - 1])
           G == {n \in Nat : n <= N => \E g : Sol(n, g)}
<1>0. N \in Nat /\ \A i \in 1 .. N : s[i] \in S
  OBVIOUS
<1>1. ASSUME NEW i \in 1 .. N, NEW k \in Seq(S) PROVE KeepNext(s, A, i, k) \in Seq(S)
  BY <1>0, AppendProperties DEF KeepNext
<1>2. 0 \in G
  <2> DEFINE g == [i \in 0 .. 0 |-> << >>]
  <2>1. g \in [0 .. 0 -> Seq(S)] /\ g[0] = << >> /\ \A i \in 1 .. 0 : g[i] = KeepNext(s, A, i, g[i - 1])
    BY EmptySeq
  <2> HIDE DEF g
  <2> QED
    BY <2>1
<1>3. ASSUME NEW n \in 0 .. N - 1, n \in G PROVE n + 1 \in G
  <2>0. n \in Nat /\ n <= N /\ n + 1 \in Nat
    BY <1>0
  <2>1. PICK g : Sol(n, g)
    <3> HIDE DEF Sol
    <3> QED
      BY <1>3, <2>0
  <2> DEFINE h == [i \in 0 .. n + 1 |-> IF i <= n THEN g[i] ELSE KeepNext(s, A, n + 1, g[n])]
  <2>2. KeepNext(s, A, n + 1, g[n]) \in Seq(S)
    BY <1>0, <1>1, <2>1
  <2>3. h \in [0 .. n + 1 -> Seq(S)] /\ h[0] = << >>
    BY <2>1, <2>2
  <2>4. ASSUME NEW i \in 1 .. n + 1 PROVE h[i] = KeepNext(s, A, i, h[i - 1])
    <3>1. CASE i <= n
      <4>1. h[i] = g[i] /\ h[i - 1] = g[i - 1] /\ i \in 1 .. n
        BY <3>1
      <4> QED
        BY <2>1, <4>1
    <3>2. CASE i = n + 1
      <4>1. h[i] = KeepNext(s, A, n + 1, g[n]) /\ h[i - 1] = g[n]
        BY <3>2
      <4> QED
        BY <3>2, <4>1
    <3> QED
      BY <3>1, <3>2
  <2> HIDE DEF h
  <2>5. Sol(n + 1, h)
    BY <2>3, <2>4
  <2> HIDE DEF Sol
  <2> QED
    BY <2>0, <2>5
<1> HIDE DEF G
<1>4. N \in G
  <2>1. \A n \in 0 .. N - 1 : n \in G => n + 1 \in G
    BY <1>3
  <2>2. 0 .. N \subseteq G
    BY <1>0, <1>2, <2>1, CountUp
  <2> QED
    BY <1>0, <2>2
<1>5. PICK g : Sol(N, g)
  BY <1>0, <1>4 DEF G
<1> DEFINE Body(f) == [i \in 0 .. N |-> IF i = 0 THEN << >>
                                        ELSE IF s[i] \in A THEN Append(f[i - 1], s[i]) ELSE f[i - 1]]
<1>6. g = Body(g)
  <2>1. g = [i \in 0 .. N |-> g[i]]
    BY <1>5
  <2>2. \A i \in 0 .. N : g[i] = IF i = 0 THEN << >>
                                 ELSE IF s[i] \in A THEN Append(g[i - 1], s[i]) ELSE g[i - 1]
    <3> SUFFICES ASSUME NEW i \in 0 .. N
                 PROVE  g[i] = IF i = 0 THEN << >>
                               ELSE IF s[i] \in A THEN Append(g[i - 1], s[i]) ELSE g[i - 1]
      OBVIOUS
    <3>1. CASE i = 0
      BY <1>5, <3>1
    <3>2. CASE i # 0
      <4>1. i \in 1 .. N
        BY <1>0, <3>2
      <4>2. g[i] = KeepNext(s, A, i, g[i - 1])
        BY <1>5, <4>1
      <4> QED
        BY <3>2, <4>2 DEF KeepNext
    <3> QED
      BY <3>1, <3>2
  <2> QED
    BY <2>1, <2>2
<1>7. Kept(s, A) = CHOOSE f : f = Body(f)
  BY DEF Kept
<1>8. Kept(s, A) = Body(Kept(s, A))
  <2> HIDE DEF Body
  <2> QED
    BY <1>6, <1>7
<1> DEFINE F == Kept(s, A)
<1> HIDE DEF F
<1>9. /\ DOMAIN F = 0 .. N
      /\ F = [i \in 0 .. N |-> F[i]]
      /\ F[0] = << >>
      /\ \A i \in 1 .. N : F[i] = KeepNext(s, A, i, F[i - 1])
  <2>1. F = Body(F)
    BY <1>8 DEF F
  <2>2. DOMAIN F = 0 .. N /\ F = [i \in 0 .. N |-> F[i]]
    BY <2>1
  <2>3. \A i \in 0 .. N : F[i] = IF i = 0 THEN << >>
                                 ELSE IF s[i] \in A THEN Append(F[i - 1], s[i]) ELSE F[i - 1]
    BY <2>1
  <2>4. F[0] = << >>
    BY <1>0, <2>3
  <2>5. ASSUME NEW i \in 1 .. N PROVE F[i] = KeepNext(s, A, i, F[i - 1])
    <3>1. i \in 0 .. N /\ i # 0
      BY <1>0
    <3> QED
      BY <2>3, <3>1 DEF KeepNext
  <2> QED
    BY <2>2, <2>4, <2>5
<1>10. 0 .. N \subseteq {n \in 0 .. N : F[n] \in Seq(S)}
  <2>1. 0 \in {n \in 0 .. N : F[n] \in Seq(S)}
    BY <1>0, <1>9, EmptySeq
  <2>2. \A n \in 0 .. N - 1 : n \in {m \in 0 .. N : F[m] \in Seq(S)}
                              => n + 1 \in {m \in 0 .. N : F[m] \in Seq(S)}
    <3> SUFFICES ASSUME NEW n \in 0 .. N - 1, F[n] \in Seq(S) PROVE F[n + 1] \in Seq(S)
      BY <1>0
    <3>1. n + 1 \in 1 .. N /\ (n + 1) - 1 = n
      BY <1>0
    <3> QED
      BY <1>1, <1>9, <3>1
  <2> QED
    BY <1>0, <2>1, <2>2, CountUp
<1>11. F \in [0 .. N -> Seq(S)]
  BY <1>9, <1>10
<1> QED
  BY <1>9, <1>11 DEF F

\* Nothing is kept of the empty sequence.
LEMMA FilterEmpty ==
    ASSUME NEW A
    PROVE  Filter(<< >>, A) = << >>
<1>1. << >> \in Seq({}) /\ Len(<< >>) = 0
  BY EmptySeq
<1> QED
  BY <1>1, KeptEquations DEF Filter

\* What is kept of a sequence over S is a sequence over S.
LEMMA FilterType ==
    ASSUME NEW S, NEW s \in Seq(S), NEW A
    PROVE  Filter(s, A) \in Seq(S)
<1>1. Len(s) \in 0 .. Len(s)
  OBVIOUS
<1> QED
  BY <1>1, KeptEquations DEF Filter

\* Filtering commutes with Append.
LEMMA FilterAppend ==
    ASSUME NEW S, NEW s \in Seq(S), NEW x \in S, NEW A
    PROVE  Filter(Append(s, x), A) =
               IF x \in A THEN Append(Filter(s, A), x) ELSE Filter(s, A)
<1> DEFINE r == Append(s, x)
           n == Len(s)
           K == Kept(s, A)
           L == Kept(r, A)
           G == {i \in 0 .. n : L[i] = K[i]}
<1>1. n \in Nat /\ r \in Seq(S) /\ Len(r) = n + 1 /\ r[n + 1] = x /\ \A i \in 1 .. n : r[i] = s[i]
  BY AppendFacts
<1>2. K[0] = << >> /\ \A i \in 1 .. n : K[i] = KeepNext(s, A, i, K[i - 1])
  BY KeptEquations
<1> HIDE DEF r
<1>3. L[0] = << >> /\ \A i \in 1 .. n + 1 : L[i] = KeepNext(r, A, i, L[i - 1])
  <2>1. L[0] = << >> /\ \A i \in 1 .. Len(r) : L[i] = KeepNext(r, A, i, L[i - 1])
    BY <1>1, KeptEquations
  <2> HIDE DEF L
  <2> QED
    BY <1>1, <2>1
<1> HIDE DEF K, L
<1>4. 0 \in G
  BY <1>1, <1>2, <1>3
<1>5. ASSUME NEW i \in 0 .. n - 1, i \in G PROVE i + 1 \in G
  <2>1. i + 1 \in 1 .. n /\ i + 1 \in 1 .. n + 1 /\ (i + 1) - 1 = i /\ L[i] = K[i]
    BY <1>1, <1>5
  <2>2. L[i + 1] = KeepNext(r, A, i + 1, K[i])
    BY <1>3, <2>1
  <2>3. K[i + 1] = KeepNext(s, A, i + 1, K[i])
    BY <1>2, <2>1
  <2>4. L[i + 1] = K[i + 1]
    BY <1>1, <2>1, <2>2, <2>3 DEF KeepNext
  <2> QED
    BY <1>1, <2>1, <2>4
<1> HIDE DEF G
<1>6. 0 .. n \subseteq G
  <2>1. \A i \in 0 .. n - 1 : i \in G => i + 1 \in G
    BY <1>5
  <2> QED
    BY <1>1, <1>4, <2>1, CountUp
<1>7. L[n] = K[n]
  BY <1>1, <1>6 DEF G
<1>8. L[n + 1] = KeepNext(r, A, n + 1, L[n])
  <2>1. n + 1 \in 1 .. n + 1 /\ (n + 1) - 1 = n
    BY <1>1
  <2> QED
    BY <1>3, <2>1
<1>9. Filter(s, A) = K[n] /\ Filter(r, A) = L[n + 1]
  BY <1>1 DEF Filter, K, L
<1> QED
  BY <1>1, <1>7, <1>8, <1>9 DEF KeepNext, r

\* Where the elements that are left were: e finds them in s, in their order.
Embeds(e, f, s, A) ==
    /\ e \in [1 .. Len(f) -> 1 .. Len(s)]
    /\ \A i \in 1 .. Len(f) : f[i] = s[e[i]] /\ s[e[i]] \in A
    /\ \A i, j \in 1 .. Len(f) : i < j => e[i] < e[j]
    /\ \A k \in 1 .. Len(s) : s[k] \in A => \E i \in 1 .. Len(f) : e[i] = k

\* Filter keeps the elements of A, all of them and in their order.
LEMMA FilterEmbeds ==
    ASSUME NEW S, NEW s \in Seq(S), NEW A
    PROVE  \E e : Embeds(e, Filter(s, A), s, A)
<1> DEFINE P == {r \in Seq(S) : \E e : Embeds(e, Filter(r, A), r, A)}
<1>1. << >> \in P
  <2>1. Filter(<< >>, A) = << >> /\ << >> \in Seq(S)
    BY FilterEmpty, EmptySeq
  <2> DEFINE e == [i \in 1 .. 0 |-> 0]
  <2>2. Embeds(e, << >>, << >>, A)
    BY DEF Embeds
  <2> HIDE DEF e
  <2> QED
    BY <2>1, <2>2
<1>2. ASSUME NEW r \in Seq(S), NEW x \in S, r \in P PROVE Append(r, x) \in P
  <2> DEFINE f == Filter(r, A)
             n == Len(f)
             m == Len(r)
             r1 == Append(r, x)
  <2>1. PICK e : Embeds(e, f, r, A)
    BY <1>2
  <2>2. f \in Seq(S) /\ n \in Nat /\ m \in Nat
    BY FilterType
  <2>3. /\ r1 \in Seq(S) /\ Len(r1) = m + 1 /\ r1[m + 1] = x
        /\ \A i \in 1 .. m : r1[i] = r[i]
    BY AppendFacts
  <2>4. Filter(r1, A) = IF x \in A THEN Append(f, x) ELSE f
    BY FilterAppend
  <2>5. CASE x \in A
    <3> DEFINE f1 == Append(f, x)
               e1 == [i \in 1 .. n + 1 |-> IF i = n + 1 THEN m + 1 ELSE e[i]]
    <3>1. /\ f1 \in Seq(S) /\ Len(f1) = n + 1 /\ f1[n + 1] = x
          /\ \A i \in 1 .. n : f1[i] = f[i]
      BY <2>2, AppendFacts
    <3>2. e1[n + 1] = m + 1 /\ \A i \in 1 .. n : e1[i] = e[i] /\ e[i] \in 1 .. m
      BY <2>1, <2>2 DEF Embeds
    <3>3. e1 \in [1 .. n + 1 -> 1 .. m + 1]
      BY <2>1, <2>2 DEF Embeds
    <3> HIDE DEF e1, f1, r1, f, n, m
    <3>4. \A i \in 1 .. n + 1 : f1[i] = r1[e1[i]] /\ r1[e1[i]] \in A
      <4> SUFFICES ASSUME NEW i \in 1 .. n + 1 PROVE f1[i] = r1[e1[i]] /\ r1[e1[i]] \in A
        OBVIOUS
      <4>1. CASE i = n + 1
        BY <2>3, <2>5, <3>1, <3>2, <4>1
      <4>2. CASE i # n + 1
        <5>1. i \in 1 .. n
          BY <2>2, <4>2
        <5> QED
          BY <2>1, <2>3, <3>1, <3>2, <5>1 DEF Embeds, n
      <4> QED
        BY <4>1, <4>2
    <3>5. \A i, j \in 1 .. n + 1 : i < j => e1[i] < e1[j]
      <4> SUFFICES ASSUME NEW i \in 1 .. n + 1, NEW j \in 1 .. n + 1, i < j PROVE e1[i] < e1[j]
        OBVIOUS
      <4>1. i \in 1 .. n
        BY <2>2
      <4>2. CASE j = n + 1
        BY <2>2, <3>2, <4>1, <4>2
      <4>3. CASE j # n + 1
        <5>1. j \in 1 .. n
          BY <2>2, <4>3
        <5> QED
          BY <2>1, <3>2, <4>1, <5>1 DEF Embeds, n
      <4> QED
        BY <4>2, <4>3
    <3>6. \A k \in 1 .. m + 1 : r1[k] \in A => \E i \in 1 .. n + 1 : e1[i] = k
      <4> SUFFICES ASSUME NEW k \in 1 .. m + 1, r1[k] \in A PROVE \E i \in 1 .. n + 1 : e1[i] = k
        OBVIOUS
      <4>1. CASE k = m + 1
        <5>1. n + 1 \in 1 .. n + 1
          BY <2>2
        <5> QED
          BY <3>2, <4>1, <5>1
      <4>2. CASE k # m + 1
        <5>1. k \in 1 .. m /\ r[k] \in A
          BY <2>2, <2>3, <4>2
        <5>2. PICK i \in 1 .. n : e[i] = k
          BY <2>1, <5>1 DEF Embeds, n, m
        <5>3. i \in 1 .. n + 1 /\ e1[i] = k
          BY <2>2, <3>2, <5>2
        <5> QED
          BY <5>3
      <4> QED
        BY <4>1, <4>2
    <3>7. Embeds(e1, f1, r1, A)
      BY <2>3, <3>1, <3>3, <3>4, <3>5, <3>6 DEF Embeds
    <3>8. Filter(r1, A) = f1
      BY <2>4, <2>5 DEF f1, f, r1
    <3> QED
      BY <2>3, <3>7, <3>8 DEF r1
  <2>6. CASE x \notin A
    <3>1. Embeds(e, f, r1, A)
      <4> HIDE DEF f, r1, m, n
      <4>1. e \in [1 .. n -> 1 .. m + 1]
        BY <2>1, <2>2 DEF Embeds, n, m
      <4>2. \A i \in 1 .. n : e[i] \in 1 .. m /\ r1[e[i]] = r[e[i]]
        BY <2>1, <2>3 DEF Embeds, n, m
      <4>3. \A k \in 1 .. m + 1 : r1[k] \in A => k \in 1 .. m /\ r[k] \in A
        BY <2>2, <2>3, <2>6
      <4> QED
        BY <2>1, <2>3, <4>1, <4>2, <4>3 DEF Embeds, n, m
    <3>2. Filter(r1, A) = f
      BY <2>4, <2>6
    <3> HIDE DEF f, r1
    <3> QED
      BY <2>3, <3>1, <3>2 DEF r1
  <2> QED
    BY <2>5, <2>6
<1> HIDE DEF P
<1>3. Seq(S) \subseteq P
  BY <1>1, <1>2, SeqInduction
<1> QED
  BY <1>3 DEF P
-----------------------------------------------------------------------------
(***************************************************************************)
(* The inductive invariant of the flips.                                   *)
(***************************************************************************)

\* A request in one of the queues, and the places of the threads.
FlipRequest ==
    [id : Nat \ {0}, generation : Nat, source : {"GpuEop", "Cpu"}, index : Indices,
     state : {"Reserved", "Recording", "Ready", "Presenting"}, frame : BOOLEAN, claim : Nat]

PortState ==
    [opened : BOOLEAN, closing : BOOLEAN, generation : Nat, rate : Nat, wait : Nat,
     flipPending : Nat, gcQueue : Nat]

GuestState == [call : {"none", "SetFlipRate", "SubmitFlip"}, id : Nat]

PresentState ==
    [pc : {"flip", "vblank"}] \union [pc : {"due", "present"}, request : FlipRequest]

Working == {"claim", "check", "record", "drop", "signal", "flush", "complete"}

GpuPlace ==
    [pc : {"idle", "slot", "retry", "exit"}] \union [pc : {"done"}, index : Indices]
        \union [pc : Working, id : Nat \ {0}, source : {"GpuEop", "Cpu"}]

FlipTypeOK ==
    /\ port \in PortState
    /\ requests \in Seq(FlipRequest) /\ cpuRequests \in Seq(FlipRequest)
    /\ cancelled \in Seq(FlipRequest)
    /\ processing \in BOOLEAN
    /\ present \in PresentState
    /\ closer \in {"idle", "cancel", "reset"}
    /\ guest \in GuestState
    /\ frames \in Seq({"none", "held", "shown", "discarded"})
    /\ prepared \in Nat /\ shown \in Nat
    /\ gpu \in GpuPlace
    /\ preparations \in Seq(Nat \ {0}) /\ completes \in Seq(Nat \ {0})

\* Every request is in one queue, once, and its number was given out by Reserve.
DistinctIds(q) == \A i, j \in DOMAIN q : q[i].id = q[j].id => i = j

Apart(q, r) == \A i \in DOMAIN q : \A j \in DOMAIN r : q[i].id # r[j].id

Numbered(q) == \A i \in DOMAIN q : q[i].id <= Len(frames)

IdsExact ==
    /\ DistinctIds(requests) /\ DistinctIds(cpuRequests) /\ DistinctIds(cancelled)
    /\ Apart(requests, cpuRequests) /\ Apart(requests, cancelled) /\ Apart(cpuRequests, cancelled)
    /\ Numbered(requests) /\ Numbered(cpuRequests) /\ Numbered(cancelled)

\* The port is open, closing or was never opened; the queues hold requests of an open port, or
\* of the one that is being closed.
PortLife ==
    /\ port.opened => ~port.closing /\ closer = "idle"
    /\ guest # NoCall => port.opened \/ port.closing
    /\ ~port.opened /\ closer # "cancel" => requests = <<>> /\ cpuRequests = <<>>
    /\ port.opened => /\ \A i \in DOMAIN requests : requests[i].generation = port.generation
                      /\ \A i \in DOMAIN cpuRequests : cpuRequests[i].generation = port.generation

\* The request the present thread works on is the front of the queue.
PresentFront ==
    present.pc \in {"due", "present"} =>
        /\ processing /\ 1 \in DOMAIN requests
        /\ present.request.state = "Ready"
        /\ requests[1] = IF present.pc = "due" THEN present.request
                         ELSE [present.request EXCEPT !.state = "Presenting"]
        /\ present.pc = "present" => PortCurrent(present.request.generation)

\* The requests nobody has completed: reserved by a guest thread, on the way to the GPU thread,
\* in its hands, or left to a priority operation.  Each is in one of these places.
GpuHolds == gpu.pc \in Working /\ ~(gpu.pc = "flush" /\ gpu.source = "GpuEop")

Uncompleted ==
    {id \in Nat \ {0} :
        \/ guest.id = id
        \/ \E i \in DOMAIN preparations : preparations[i] = id
        \/ GpuHolds /\ gpu.id = id
        \/ \E i \in DOMAIN completes : ops[i].runs = 0 /\ completes[i] = id}

OnePlace ==
    /\ \A i, j \in DOMAIN preparations : preparations[i] = preparations[j] => i = j
    /\ \A i, j \in DOMAIN completes :
          ops[i].runs = 0 /\ ops[j].runs = 0 /\ completes[i] = completes[j] => i = j
    /\ \A i \in DOMAIN preparations :
          /\ preparations[i] <= Len(frames) /\ preparations[i] # guest.id
          /\ GpuHolds => preparations[i] # gpu.id
          /\ \A j \in DOMAIN completes : ops[j].runs = 0 => completes[j] # preparations[i]
    /\ \A j \in DOMAIN completes : ops[j].runs = 0 =>
          /\ completes[j] <= Len(frames) /\ completes[j] # guest.id
          /\ GpuHolds => completes[j] # gpu.id
    /\ guest.id <= Len(frames)
    /\ GpuHolds => gpu.id <= Len(frames) /\ gpu.id # guest.id
    /\ gpu.pc = "complete" => gpu.source = "Cpu"
    /\ Len(completes) = Len(ops)

\* Who has completed a request has none of these places; who has claimed it, none of the first.
Unclaimed ==
    {id \in Nat \ {0} :
        \/ guest.id = id
        \/ \E i \in DOMAIN preparations : preparations[i] = id
        \/ gpu.pc = "claim" /\ gpu.id = id}

Settled(q) == \A i \in DOMAIN q : ~InPreparation(q[i]) => q[i].id \notin Uncompleted

Progress ==
    /\ Settled(requests) /\ Settled(cpuRequests) /\ Settled(cancelled)
    /\ \A i \in DOMAIN requests : requests[i].state = "Recording" => requests[i].id \notin Unclaimed

\* Claims follow the order of the queue, in which only the last request may wait for its claim.
Claims ==
    /\ shown <= prepared
    /\ \A i \in DOMAIN requests :
          /\ requests[i].claim <= prepared
          /\ requests[i].state # "Reserved" => requests[i].claim > shown
          /\ requests[i].state = "Reserved" =>
                i = Len(requests) /\ gpu.pc = "claim" /\ gpu.id = requests[i].id
    /\ \A i, j \in DOMAIN requests :
          i < j /\ requests[j].state # "Reserved" => requests[i].claim < requests[j].claim

\* A request has its frame once it is beyond Prepare, and none before its claim; one that is
\* dropped is no request of an open port.
Framed ==
    /\ \A i \in DOMAIN requests : requests[i].state = "Reserved" => ~requests[i].frame
    /\ \A i \in DOMAIN requests :
          \/ requests[i].frame
          \/ requests[i].state = "Reserved"
          \/ gpu.pc \in {"check", "record", "drop"} /\ gpu.id = requests[i].id
    /\ \A i \in DOMAIN cpuRequests :
          /\ ~cpuRequests[i].frame /\ cpuRequests[i].state = "Reserved"
          /\ cpuRequests[i].source = "Cpu"
    /\ gpu.pc = "drop" /\ port.opened => \A i \in DOMAIN requests : requests[i].id # gpu.id

\* A frame is held exactly by the request that has it.
HeldExact ==
    \A id \in DOMAIN frames :
        frames[id] = "held" <=> \/ \E i \in DOMAIN requests : requests[i].id = id /\ requests[i].frame
                                \/ \E i \in DOMAIN cancelled : cancelled[i].id = id /\ cancelled[i].frame

\* The counters of an open port.
CountsExact ==
    port.opened => port.flipPending = NumRequests /\ port.gcQueue = Cardinality(EopIndices)

FlipInv ==
    /\ FlipTypeOK /\ IdsExact /\ PortLife /\ PresentFront /\ OnePlace /\ Progress
    /\ Claims /\ Framed /\ HeldExact /\ CountsExact

\* What the types say of a queue and of a request.
LEMMA QueueElements ==
    ASSUME NEW q \in Seq(FlipRequest)
    PROVE  /\ Len(q) \in Nat /\ DOMAIN q = 1 .. Len(q)
           /\ \A i \in DOMAIN q : q[i] \in FlipRequest
           /\ ToSet(q) = {q[i] : i \in DOMAIN q}
           /\ q = << >> <=> DOMAIN q = {}
           /\ q # << >> <=> 1 \in DOMAIN q
<1>1. Len(q) \in Nat /\ DOMAIN q = 1 .. Len(q)
  OBVIOUS
<1>2. \A i \in DOMAIN q : q[i] \in FlipRequest
  BY <1>1, ElementOfSeq
<1>3. q = << >> <=> Len(q) = 0
  OBVIOUS
<1> QED
  BY <1>1, <1>2, <1>3 DEF ToSet

\* The fields of a request.
LEMMA RequestFields ==
    ASSUME NEW r \in FlipRequest
    PROVE  /\ r.id \in Nat \ {0} /\ r.generation \in Nat /\ r.source \in {"GpuEop", "Cpu"}
           /\ r.state \in {"Reserved", "Recording", "Ready", "Presenting"}
           /\ r.frame \in BOOLEAN /\ r.claim \in Nat
BY DEF FlipRequest

\* As numbers are distinct, Entry finds the request that has the number.
LEMMA EntryAt ==
    ASSUME NEW q \in Seq(FlipRequest), DistinctIds(q), NEW k \in DOMAIN q
    PROVE  Entry(q, q[k].id) = q[k]
<1>1. /\ q[k] \in ToSet(q)
      /\ \A r \in ToSet(q) : r.id = q[k].id => r = q[k]
  BY QueueElements DEF DistinctIds
<1> QED
  BY <1>1 DEF Entry

\* As numbers are distinct, Update replaces one request.
LEMMA UpdateAt ==
    ASSUME NEW q \in Seq(FlipRequest), DistinctIds(q), NEW k \in DOMAIN q,
           NEW r \in FlipRequest, r.id = q[k].id
    PROVE  /\ Update(q, r) \in Seq(FlipRequest) /\ Len(Update(q, r)) = Len(q)
           /\ DOMAIN Update(q, r) = DOMAIN q
           /\ Update(q, r)[k] = r
           /\ \A i \in DOMAIN q : i # k => Update(q, r)[i] = q[i]
           /\ \A i \in DOMAIN q : Update(q, r)[i].id = q[i].id
<1> DEFINE u == Update(q, r)
<1>1. DOMAIN q = 1 .. Len(q) /\ Len(q) \in Nat /\ \A i \in DOMAIN q : q[i] \in FlipRequest
  BY QueueElements
<1>2. u = [i \in 1 .. Len(q) |-> IF q[i].id = r.id THEN r ELSE q[i]]
  BY <1>1 DEF Update
<1>3. u \in Seq(FlipRequest) /\ Len(u) = Len(q) /\ DOMAIN u = DOMAIN q
  BY <1>1, <1>2, IsASeq
<1>4. \A i \in DOMAIN q : u[i] = IF i = k THEN r ELSE q[i]
  BY <1>1, <1>2 DEF DistinctIds
<1> HIDE DEF u
<1> QED
  BY <1>3, <1>4 DEF u

\* Filtering keeps a queue's order and the numbers of its requests apart.
LEMMA FilterQueue ==
    ASSUME NEW q \in Seq(FlipRequest), DistinctIds(q), NEW A, NEW f, f = Filter(q, A)
    PROVE  /\ f \in Seq(FlipRequest) /\ DistinctIds(f)
           /\ \A i \in DOMAIN f : f[i] \in A /\ \E k \in DOMAIN q : f[i] = q[k]
           /\ \A k \in DOMAIN q : q[k] \in A => \E i \in DOMAIN f : f[i] = q[k]
           /\ \A i, j \in DOMAIN f : i < j =>
                 \E k, l \in DOMAIN q : k < l /\ f[i] = q[k] /\ f[j] = q[l]
           /\ 1 \in DOMAIN q /\ q[1] \in A => 1 \in DOMAIN f /\ f[1] = q[1]
<1>1. f \in Seq(FlipRequest)
  BY FilterType
<1>2. PICK e : Embeds(e, f, q, A)
  BY FilterEmbeds
<1>3. /\ DOMAIN q = 1 .. Len(q) /\ Len(q) \in Nat /\ DOMAIN f = 1 .. Len(f) /\ Len(f) \in Nat
  BY <1>1, QueueElements
<1>4. \A i \in DOMAIN f : e[i] \in DOMAIN q /\ f[i] = q[e[i]] /\ f[i] \in A
  BY <1>2, <1>3 DEF Embeds
<1>5. \A i, j \in DOMAIN f : i < j => e[i] < e[j]
  BY <1>2, <1>3 DEF Embeds
<1>6. \A k \in DOMAIN q : q[k] \in A => \E i \in DOMAIN f : e[i] = k
  BY <1>2, <1>3 DEF Embeds
<1>7. DistinctIds(f)
  <2> SUFFICES ASSUME NEW i \in DOMAIN f, NEW j \in DOMAIN f, f[i].id = f[j].id PROVE i = j
    BY DEF DistinctIds
  <2>1. e[i] = e[j] /\ e[i] \in Nat
    BY <1>3, <1>4 DEF DistinctIds
  <2> QED
    BY <1>3, <1>5, <2>1
<1>8. ASSUME 1 \in DOMAIN q, q[1] \in A PROVE 1 \in DOMAIN f /\ f[1] = q[1]
  <2>2. PICK i \in DOMAIN f : e[i] = 1
    BY <1>6, <1>8
  <2>3. 1 \in DOMAIN f
    BY <1>3, <2>2
  <2>4. i = 1
    BY <1>3, <1>4, <1>5, <2>2, <2>3
  <2> QED
    BY <1>4, <2>2, <2>3, <2>4
<1>9. ASSUME NEW i \in DOMAIN f, NEW j \in DOMAIN f, i < j
      PROVE  \E k, l \in DOMAIN q : k < l /\ f[i] = q[k] /\ f[j] = q[l]
  BY <1>4, <1>5, <1>9
<1>10. \A k \in DOMAIN q : q[k] \in A => \E i \in DOMAIN f : f[i] = q[k]
  BY <1>4, <1>6
<1> QED
  BY <1>1, <1>4, <1>7, <1>8, <1>9, <1>10

\* f is q without its k-th request.
Removed(f, q, k) ==
    /\ f \in Seq(FlipRequest) /\ DistinctIds(f) /\ Len(f) = Len(q) - 1
    /\ \A i \in DOMAIN f : \E l \in DOMAIN q : f[i] = q[l] /\ l # k
    /\ \A l \in DOMAIN q : l # k => \E i \in DOMAIN f : f[i] = q[l]
    /\ \A i, j \in DOMAIN f : i < j =>
          \E l, m \in DOMAIN q : l < m /\ f[i] = q[l] /\ f[j] = q[m]
    /\ k # 1 => 1 \in DOMAIN f /\ f[1] = q[1]

\* As numbers are distinct, Without removes one request.
LEMMA WithoutFacts ==
    ASSUME NEW q \in Seq(FlipRequest), DistinctIds(q), NEW k \in DOMAIN q,
           NEW f, f = Without(q, q[k].id)
    PROVE  Removed(f, q, k)
<1>0. PICK A : A = {r \in ToSet(q) : r.id # q[k].id}
  OBVIOUS
<1>1. f = Filter(q, A)
  BY <1>0 DEF Without
<1>2. /\ DOMAIN q = 1 .. Len(q) /\ Len(q) \in Nat /\ \A l \in DOMAIN q : q[l] \in FlipRequest
      /\ \A l \in DOMAIN q : q[l] \in A <=> l # k
  BY <1>0, QueueElements DEF DistinctIds
<1>3. /\ f \in Seq(FlipRequest) /\ DistinctIds(f)
      /\ \A i \in DOMAIN f : f[i] \in A /\ \E l \in DOMAIN q : f[i] = q[l]
      /\ \A l \in DOMAIN q : q[l] \in A => \E i \in DOMAIN f : f[i] = q[l]
      /\ \A i, j \in DOMAIN f : i < j =>
            \E l, m \in DOMAIN q : l < m /\ f[i] = q[l] /\ f[j] = q[m]
      /\ 1 \in DOMAIN q /\ q[1] \in A => 1 \in DOMAIN f /\ f[1] = q[1]
  BY <1>1, FilterQueue
<1>4. \A i \in DOMAIN f : \E l \in DOMAIN q : f[i] = q[l] /\ l # k
  BY <1>2, <1>3
<1>5. \A l \in DOMAIN q : l # k => \E i \in DOMAIN f : f[i] = q[l]
  BY <1>2, <1>3
<1>6. k # 1 => 1 \in DOMAIN f /\ f[1] = q[1]
  <2>1. k # 1 => 1 \in DOMAIN q
    BY <1>2
  <2> QED
    BY <1>2, <1>3, <2>1
<1>7. Len(f) = Len(q) - 1
  <2>1. DOMAIN f = 1 .. Len(f) /\ Len(f) \in Nat
    BY <1>3, QueueElements
  <2> DEFINE at == [i \in 1 .. Len(f) |-> CHOOSE l \in DOMAIN q : f[i] = q[l] /\ l # k]
             T == 1 .. Len(q) \ {k}
  <2>2. \A i \in 1 .. Len(f) : at[i] \in T /\ f[i] = q[at[i]]
    BY <1>2, <1>4, <2>1
  <2> HIDE DEF at
  <2>3. at \in [1 .. Len(f) -> T]
    BY <2>2 DEF at
  <2>4. \A i, j \in 1 .. Len(f) : at[i] = at[j] => i = j
    <3> SUFFICES ASSUME NEW i \in 1 .. Len(f), NEW j \in 1 .. Len(f), at[i] = at[j] PROVE i = j
      OBVIOUS
    <3>1. f[i].id = f[j].id
      BY <2>2
    <3> QED
      BY <1>3, <2>1, <3>1 DEF DistinctIds
  <2>5. \A l \in T : \E i \in 1 .. Len(f) : at[i] = l
    <3> SUFFICES ASSUME NEW l \in T PROVE \E i \in 1 .. Len(f) : at[i] = l
      OBVIOUS
    <3>1. PICK i \in 1 .. Len(f) : f[i] = q[l]
      BY <1>2, <1>5, <2>1
    <3>2. at[i] = l
      <4>1. PICK m \in T : m = at[i]
        BY <2>2
      <4>2. m \in DOMAIN q /\ l \in DOMAIN q /\ q[m] = q[l]
        BY <1>2, <2>2, <3>1, <4>1
      <4>3. m = l
        BY <4>2 DEF DistinctIds
      <4> QED
        BY <4>1, <4>3
    <3> QED
      BY <3>2
  <2>6. ExistsBijection(1 .. Len(f), T)
    <3> HIDE DEF T
    <3>1. at \in Bijection(1 .. Len(f), T)
      BY <2>3, <2>4, <2>5, Fun_IsBij
    <3> QED
      BY <3>1 DEF ExistsBijection
  <2>7. IsFiniteSet(1 .. Len(f)) /\ Cardinality(1 .. Len(f)) = Len(f)
    <3>0. Len(f) \in Int
      BY <2>1
    <3>1. Cardinality(1 .. Len(f)) = IF 1 > Len(f) THEN 0 ELSE Len(f) - 1 + 1
      BY <3>0, FS_Interval
    <3>2. IsFiniteSet(1 .. Len(f))
      BY <3>0, FS_Interval
    <3> QED
      BY <2>1, <3>1, <3>2
  <2>8. Cardinality(T) = Len(f)
    BY <2>6, <2>7, FS_Bijection
  <2>9. IsFiniteSet(1 .. Len(q)) /\ Cardinality(1 .. Len(q)) = Len(q)
    <3>1. Cardinality(1 .. Len(q)) = IF 1 > Len(q) THEN 0 ELSE Len(q) - 1 + 1
      BY <1>2, FS_Interval
    <3>2. IsFiniteSet(1 .. Len(q))
      BY <1>2, FS_Interval
    <3> QED
      BY <1>2, <3>1, <3>2
  <2>10. Cardinality(T) = Len(q) - 1
    BY <1>2, <2>9, FS_RemoveElement, ZenonT(60)
  <2> QED
    BY <2>8, <2>10
<1> QED
  BY <1>3, <1>4, <1>5, <1>6, <1>7 DEF Removed

\* What the types say of where the GPU thread is.
LEMMA GpuPlaces ==
    ASSUME gpu \in GpuPlace
    PROVE  /\ gpu.pc \in {"idle", "slot", "retry", "exit", "done"} \union Working
           /\ gpu.pc \in Working => /\ gpu.id \in Nat \ {0} /\ gpu.source \in {"GpuEop", "Cpu"}
                                    /\ gpu \in [pc : Working, id : Nat \ {0}, source : {"GpuEop", "Cpu"}]
BY DEF GpuPlace, Working

-----------------------------------------------------------------------------
(* Steps that leave the queues alone.                                        *)

\* A step that changes none of the variables the invariant is about.
LEMMA FlipsStay ==
    ASSUME FlipInv, UNCHANGED <<port, requests, cpuRequests, cancelled, processing, present, closer,
                                guest, frames, prepared, shown, gpu, preparations, completes, ops>>
    PROVE  FlipInv'
BY DEF FlipInv, FlipTypeOK, IdsExact, DistinctIds, Apart, Numbered, PortLife, PresentFront, PortCurrent,
   OnePlace, GpuHolds, Settled, Uncompleted, Unclaimed, Progress, Claims, Framed, HeldExact, CountsExact, NumRequests,
   EopIndices

\* Progress stays when the queues do and no request is taken up again.
LEMMA ProgressStays ==
    ASSUME FlipInv, UNCHANGED <<requests, cpuRequests, cancelled>>,
           Uncompleted' \subseteq Uncompleted, Unclaimed' \subseteq Unclaimed
    PROVE  Progress'
BY DEF FlipInv, Settled, Progress, InPreparation

\* The GPU thread waits, or has nothing to do.
LEMMA GpuRests ==
    ASSUME FlipInv, UNCHANGED <<port, requests, cpuRequests, cancelled, processing, present, closer,
                                guest, frames, prepared, shown, preparations, completes, ops>>,
           gpu.pc \notin Working, gpu'.pc \notin Working, gpu' \in GpuPlace
    PROVE  FlipInv'
<1>1. ~GpuHolds /\ ~GpuHolds'
  BY DEF GpuHolds
<1>2. FlipTypeOK' /\ IdsExact' /\ PortLife' /\ PresentFront'
  BY DEF FlipInv, FlipTypeOK, IdsExact, DistinctIds, Apart, Numbered, PortLife, PresentFront, PortCurrent
<1>3. OnePlace'
  BY <1>1 DEF FlipInv, OnePlace, Working
<1>5. gpu.pc \notin {"claim", "check", "record", "drop"} /\ gpu'.pc \notin {"claim", "check", "record", "drop"}
  BY DEF Working
<1>4. Progress'
  BY <1>1, <1>5, ProgressStays DEF Uncompleted, Unclaimed
<1>6. Claims' /\ Framed'
  BY <1>5 DEF FlipInv, Claims, Framed
<1>7. HeldExact' /\ CountsExact'
  BY DEF FlipInv, HeldExact, CountsExact, NumRequests, EopIndices
<1> QED
  BY <1>2, <1>3, <1>4, <1>6, <1>7 DEF FlipInv

\* Waiting for a slot or for a flip changes only where the GPU thread is.
LEMMA GpuWaits ==
    ASSUME FlipInv, \/ GpuFlipFull \/ GpuFlipFails \/ WaitForSubmitSlot \/ FlipWait
                    \/ \E index \in Indices : WaitFlipDone(index)
    PROVE  FlipInv'
<1>1. UNCHANGED <<port, requests, cpuRequests, cancelled, processing, present, closer,
                  guest, frames, prepared, shown, preparations, completes, ops>>
  BY DEF GpuFlipFull, GpuFlipFails, WaitForSubmitSlot, FlipWait, WaitFlipDone, flipVars, schedulerVars, Flush
<1>2. gpu.pc \notin Working
  BY DEF GpuFlipFull, GpuFlipFails, WaitForSubmitSlot, FlipWait, WaitFlipDone, GpuAt, Working
<1>3. gpu' \in GpuPlace /\ gpu'.pc \notin Working
  <2>1. gpu \in GpuPlace
    BY DEF FlipInv, FlipTypeOK
  <2>2. CASE \/ gpu' = gpu \/ \E p \in {"idle", "slot", "retry", "exit"} : gpu' = [pc |-> p]
             \/ \E index \in Indices : gpu' = [pc |-> "done", index |-> index]
    BY <1>2, <2>1, <2>2 DEF GpuPlace, Working
  <2> QED
    BY <2>2 DEF GpuFlipFull, GpuFlipFails, WaitForSubmitSlot, FlipWait, WaitFlipDone
<1> QED
  BY <1>1, <1>2, <1>3, GpuRests

\* A guest thread looks its port up, is refused, or sets the rate.
LEMMA GuestCalls ==
    ASSUME FlipInv, \/ GetPort("SetFlipRate") \/ GetPort("SubmitFlip") \/ SubmitFlipRefused
                    \/ \E rate \in FlipRates : SetFlipRate(rate),
           UNCHANGED <<gpu, preparations, completes, ops>>
    PROVE  FlipInv'
<1>1. UNCHANGED <<requests, cpuRequests, cancelled, processing, present, closer, frames, prepared, shown>>
  BY DEF GetPort, SubmitFlipRefused, SetFlipRate
<1>2. guest'.id = 0 /\ guest' \in GuestState
  <2>1. \E call \in {"none", "SetFlipRate", "SubmitFlip"} : guest' = [call |-> call, id |-> 0]
    BY DEF GetPort, SubmitFlipRefused, SetFlipRate, NoCall
  <2> QED
    BY <2>1 DEF GuestState
<1>3. guest' # NoCall => port.opened
  BY DEF GetPort, SubmitFlipRefused, SetFlipRate
<1>4. /\ port' \in PortState /\ port'.opened = port.opened /\ port'.closing = port.closing
      /\ port'.generation = port.generation /\ port'.flipPending = port.flipPending
      /\ port'.gcQueue = port.gcQueue
  <2>1. port \in PortState
    BY DEF FlipInv, FlipTypeOK
  <2>2. CASE port' = port
    BY <2>1, <2>2
  <2>3. ASSUME NEW rate \in FlipRates, SetFlipRate(rate)
        PROVE  /\ port' \in PortState /\ port'.opened = port.opened /\ port'.closing = port.closing
               /\ port'.generation = port.generation /\ port'.flipPending = port.flipPending
               /\ port'.gcQueue = port.gcQueue
    <3>1. rate \in Nat
      BY FlipAssumption
    <3> QED
      BY <2>1, <2>3, <3>1 DEF SetFlipRate, PortState
  <2> QED
    BY <2>2, <2>3 DEF GetPort, SubmitFlipRefused
<1>5. FlipTypeOK' /\ IdsExact'
  BY <1>1, <1>2, <1>4 DEF FlipInv, FlipTypeOK, IdsExact, DistinctIds, Apart, Numbered
<1>6. PortLife' /\ PresentFront'
  BY <1>1, <1>3, <1>4 DEF FlipInv, PortLife, PresentFront, PortCurrent
<1>7. OnePlace'
  <2>1. \A i \in DOMAIN preparations : preparations[i] # 0
    BY ElementOfSeq DEF FlipInv, FlipTypeOK
  <2>2. \A i \in DOMAIN completes : completes[i] # 0
    BY ElementOfSeq DEF FlipInv, FlipTypeOK
  <2>3. GpuHolds => gpu.id # 0
    BY GpuPlaces DEF FlipInv, FlipTypeOK, GpuHolds
  <2>4. Len(frames) \in Nat
    BY DEF FlipInv, FlipTypeOK
  <2> QED
    BY <1>1, <1>2, <2>1, <2>2, <2>3, <2>4 DEF FlipInv, OnePlace, GpuHolds
<1>8. Progress'
  BY <1>1, <1>2, ProgressStays DEF Uncompleted, Unclaimed, GpuHolds
<1>9. Claims' /\ Framed' /\ HeldExact' /\ CountsExact'
  BY <1>1, <1>4 DEF FlipInv, Claims, Framed, HeldExact, CountsExact, NumRequests, EopIndices
<1> QED
  BY <1>5, <1>6, <1>7, <1>8, <1>9 DEF FlipInv

\* The port is opened, with nothing left in the queues.
LEMMA OpenKeeps ==
    ASSUME FlipInv, Open, UNCHANGED <<gpu, preparations, completes, ops>>
    PROVE  FlipInv'
<1>1. UNCHANGED <<requests, cpuRequests, cancelled, processing, present, closer, guest, frames,
                  prepared, shown>>
  BY DEF Open
<1>2. /\ port' \in PortState /\ port'.opened /\ ~port'.closing /\ port'.flipPending = 0
      /\ port'.gcQueue = 0 /\ closer = "idle" /\ ~port.opened /\ present.pc # "present"
  <2>1. port \in PortState /\ port.generation \in Nat
    BY DEF FlipInv, FlipTypeOK, PortState
  <2>2. port' = [opened |-> TRUE, closing |-> FALSE, generation |-> port.generation + 1, rate |-> 0,
                 wait |-> 0, flipPending |-> 0, gcQueue |-> 0]
    BY DEF Open, ClosedPort
  <2>3. closer = "idle" /\ ~port.opened /\ present.pc # "present"
    BY DEF Open, DriverMutexFree, PortMutexFree
  <2> QED
    BY <2>1, <2>2, <2>3 DEF PortState
<1>3. requests = << >> /\ cpuRequests = << >>
  BY <1>2 DEF FlipInv, PortLife
<1>4. DOMAIN requests = {} /\ DOMAIN cpuRequests = {} /\ NumRequests' = 0
  BY <1>1, <1>3, QueueElements DEF FlipInv, FlipTypeOK, NumRequests
<1>5. FlipTypeOK' /\ IdsExact'
  BY <1>1, <1>2 DEF FlipInv, FlipTypeOK, IdsExact, DistinctIds, Apart, Numbered
<1>6. PortLife' /\ PresentFront'
  BY <1>1, <1>2, <1>4 DEF FlipInv, PortLife, PresentFront
<1>7. OnePlace'
  BY <1>1 DEF FlipInv, OnePlace, GpuHolds
<1>8. Progress'
  BY <1>1, ProgressStays DEF Uncompleted, Unclaimed, GpuHolds
<1>9. Claims' /\ Framed' /\ HeldExact'
  BY <1>1, <1>4 DEF FlipInv, Claims, Framed, HeldExact
<1>10. CountsExact'
  <2>1. EopIndices' = {}
    BY <1>1, <1>4 DEF EopIndices
  <2> QED
    BY <1>2, <1>4, <2>1, FS_EmptySet DEF CountsExact
<1> QED
  BY <1>5, <1>6, <1>7, <1>8, <1>9, <1>10 DEF FlipInv

\* The port is no longer open; its requests wait for Cancel.
LEMMA CloseKeeps ==
    ASSUME FlipInv, Close, UNCHANGED <<gpu, preparations, completes, ops>>
    PROVE  FlipInv'
<1>1. UNCHANGED <<requests, cpuRequests, cancelled, processing, present, guest, frames,
                  prepared, shown>>
  BY DEF Close
<1>2. /\ port' \in PortState /\ ~port'.opened /\ port'.closing /\ closer' = "cancel"
      /\ present.pc # "present"
  <2>1. port \in PortState /\ port.generation + 1 \in Nat
    BY DEF FlipInv, FlipTypeOK, PortState
  <2>2. port' = [port EXCEPT !.opened = FALSE, !.closing = TRUE, !.generation = port.generation + 1,
                             !.rate = 0, !.wait = 0]
    BY DEF Close
  <2>3. port' \in PortState /\ ~port'.opened /\ port'.closing
    BY <2>1, <2>2 DEF PortState
  <2> QED
    BY <2>3 DEF Close, PortMutexFree
<1>3. FlipTypeOK' /\ IdsExact'
  BY <1>1, <1>2 DEF FlipInv, FlipTypeOK, IdsExact, DistinctIds, Apart, Numbered
<1>4. PortLife' /\ PresentFront'
  BY <1>1, <1>2 DEF FlipInv, PortLife, PresentFront
<1>5. OnePlace'
  BY <1>1 DEF FlipInv, OnePlace, GpuHolds
<1>6. Progress'
  BY <1>1, ProgressStays DEF Uncompleted, Unclaimed, GpuHolds
<1>7. Claims' /\ Framed' /\ HeldExact' /\ CountsExact'
  BY <1>1, <1>2 DEF FlipInv, Claims, Framed, HeldExact, CountsExact
<1> QED
  BY <1>3, <1>4, <1>5, <1>6, <1>7 DEF FlipInv

\* Close ends: the counts are reset.
LEMMA CancelResetKeeps ==
    ASSUME FlipInv, CancelReset, UNCHANGED <<gpu, preparations, completes, ops>>
    PROVE  FlipInv'
<1>1. UNCHANGED <<requests, cpuRequests, cancelled, processing, present, guest, frames,
                  prepared, shown>>
  BY DEF CancelReset
<1>2. /\ port' \in PortState /\ ~port'.opened /\ port'.closing = port.closing /\ closer' = "idle"
      /\ present.pc # "present" /\ ~port.opened /\ closer = "reset"
  BY DEF CancelReset, FlipInv, FlipTypeOK, PortState, PortMutexFree, PortLife
<1>3. FlipTypeOK' /\ IdsExact'
  BY <1>1, <1>2 DEF FlipInv, FlipTypeOK, IdsExact, DistinctIds, Apart, Numbered
<1>4. PortLife' /\ PresentFront'
  BY <1>1, <1>2 DEF FlipInv, PortLife, PresentFront
<1>5. OnePlace'
  BY <1>1 DEF FlipInv, OnePlace, GpuHolds
<1>6. Progress'
  BY <1>1, ProgressStays DEF Uncompleted, Unclaimed, GpuHolds
<1>7. Claims' /\ Framed' /\ HeldExact' /\ CountsExact'
  BY <1>1, <1>2 DEF FlipInv, Claims, Framed, HeldExact, CountsExact
<1> QED
  BY <1>3, <1>4, <1>5, <1>6, <1>7 DEF FlipInv

\* The vblank ends, or the present thread takes the front of the queue.
LEMMA VblankKeeps ==
    ASSUME FlipInv, VblankEnd \/ FlipTake, UNCHANGED <<gpu, preparations, completes, ops>>
    PROVE  FlipInv'
<1>1. UNCHANGED <<requests, cpuRequests, cancelled, closer, guest, frames, prepared, shown>>
  BY DEF VblankEnd, FlipTake
<1>2. /\ port' \in PortState /\ port'.opened = port.opened /\ port'.closing = port.closing
      /\ port'.generation = port.generation /\ port'.flipPending = port.flipPending
      /\ port'.gcQueue = port.gcQueue
  <2>1. port \in PortState /\ port.wait \in Nat
    BY DEF FlipInv, FlipTypeOK, PortState
  <2>2. port' = port \/ \E w \in Nat : port' = [port EXCEPT !.wait = w]
    <3>1. (IF port.opened /\ port.wait > 0 THEN port.wait - 1 ELSE port.wait) \in Nat
      BY <2>1
    <3> QED
      BY <3>1 DEF VblankEnd, FlipTake
  <2> QED
    BY <2>1, <2>2 DEF PortState
<1>3. /\ processing' \in BOOLEAN /\ present' \in PresentState
      /\ PresentFront'
  <2>1. CASE VblankEnd
    <3>1. present' = [pc |-> "flip"] /\ processing' = processing
      BY <2>1 DEF VblankEnd
    <3> QED
      BY <3>1 DEF FlipInv, FlipTypeOK, PresentState, PresentFront
  <2>2. CASE FlipTake
    <3>1. present' = [pc |-> "due", request |-> requests[1]] /\ processing' = TRUE /\ requests # << >>
      BY <2>2 DEF FlipTake, FrontReady
    <3>2. 1 \in DOMAIN requests /\ requests[1] \in FlipRequest
      BY <3>1, QueueElements DEF FlipInv, FlipTypeOK
    <3>3. requests[1].state = "Ready"
      BY <2>2 DEF FlipTake, FrontReady
    <3> QED
      BY <1>1, <3>1, <3>2, <3>3 DEF PresentState, PresentFront
  <2> QED
    BY <2>1, <2>2
<1>4. FlipTypeOK' /\ IdsExact'
  BY <1>1, <1>2, <1>3 DEF FlipInv, FlipTypeOK, IdsExact, DistinctIds, Apart, Numbered
<1>5. PortLife' /\ OnePlace'
  BY <1>1, <1>2 DEF FlipInv, PortLife, OnePlace, GpuHolds
<1>6. Progress'
  BY <1>1, ProgressStays DEF Uncompleted, Unclaimed, GpuHolds
<1>7. Claims' /\ Framed' /\ HeldExact' /\ CountsExact'
  BY <1>1, <1>2 DEF FlipInv, Claims, Framed, HeldExact, CountsExact, NumRequests, EopIndices
<1> QED
  BY <1>3, <1>4, <1>5, <1>6, <1>7 DEF FlipInv

\* The flip of a guest thread is on its way to the GPU thread.
LEMMA SubmitPreparationKeeps ==
    ASSUME FlipInv, SubmitFlipPreparation
    PROVE  FlipInv'
<1>1. UNCHANGED <<port, requests, cpuRequests, cancelled, processing, present, closer, frames,
                  prepared, shown, gpu, completes, ops>>
  BY DEF SubmitFlipPreparation, schedulerVars
<1>2. /\ guest' = NoCall /\ guest'.id = 0 /\ guest.id \in Nat \ {0}
      /\ preparations' = Append(preparations, guest.id) /\ guest' \in GuestState
  BY DEF SubmitFlipPreparation, FlipInv, FlipTypeOK, GuestState, NoCall
<1>3. /\ preparations' \in Seq(Nat \ {0}) /\ Len(preparations) \in Nat
      /\ DOMAIN preparations' = 1 .. Len(preparations) + 1
      /\ DOMAIN preparations = 1 .. Len(preparations)
      /\ \A i \in DOMAIN preparations : preparations'[i] = preparations[i]
      /\ preparations'[Len(preparations) + 1] = guest.id
  BY <1>2, AppendFacts DEF FlipInv, FlipTypeOK
<1>4. \A i \in DOMAIN preparations' :
         \/ i \in DOMAIN preparations /\ preparations'[i] = preparations[i]
         \/ i = Len(preparations) + 1 /\ preparations'[i] = guest.id
  BY <1>3
<1>5. FlipTypeOK' /\ IdsExact'
  BY <1>1, <1>2, <1>3 DEF FlipInv, FlipTypeOK, IdsExact, DistinctIds, Apart, Numbered
<1>6. PortLife' /\ PresentFront'
  BY <1>1, <1>2 DEF FlipInv, PortLife, PresentFront, PortCurrent
<1>7. OnePlace'
  <2>1. \A i \in DOMAIN completes : completes[i] # 0
    BY ElementOfSeq DEF FlipInv, FlipTypeOK
  <2>2. GpuHolds => gpu.id # 0
    BY GpuPlaces DEF FlipInv, FlipTypeOK, GpuHolds
  <2>3. Len(frames) \in Nat /\ GpuHolds' = GpuHolds
    BY <1>1 DEF FlipInv, FlipTypeOK, GpuHolds
  <2>4. \A i \in DOMAIN preparations' : preparations'[i] # 0
    BY <1>3, ElementOfSeq
  <2>5. \A i, j \in DOMAIN preparations' : preparations'[i] = preparations'[j] => i = j
    BY <1>4 DEF FlipInv, OnePlace
  <2>6. \A i \in DOMAIN preparations' :
            /\ preparations'[i] <= Len(frames)
            /\ GpuHolds => preparations'[i] # gpu.id
            /\ \A j \in DOMAIN completes : ops[j].runs = 0 => completes[j] # preparations'[i]
    BY <1>4 DEF FlipInv, OnePlace
  <2> QED
    BY <1>1, <1>2, <2>1, <2>2, <2>3, <2>4, <2>5, <2>6 DEF FlipInv, OnePlace
<1>8. Progress'
  <2>1. Uncompleted' \subseteq Uncompleted /\ Unclaimed' \subseteq Unclaimed
    BY <1>1, <1>2, <1>4 DEF Uncompleted, Unclaimed, GpuHolds
  <2> QED
    BY <1>1, <2>1, ProgressStays
<1>9. Claims' /\ Framed' /\ HeldExact' /\ CountsExact'
  BY <1>1 DEF FlipInv, Claims, Framed, HeldExact, CountsExact, NumRequests, EopIndices
<1> QED
  BY <1>5, <1>6, <1>7, <1>8, <1>9 DEF FlipInv

\* The GPU thread takes it up.
LEMMA TakesPreparationKeeps ==
    ASSUME FlipInv, GpuTakesPreparation
    PROVE  FlipInv'
<1>1. UNCHANGED <<port, requests, cpuRequests, cancelled, processing, present, closer, frames,
                  prepared, shown, guest, completes, ops>>
  BY DEF GpuTakesPreparation, schedulerVars, flipVars
<1>2. /\ gpu.pc = "idle" /\ preparations # << >> /\ preparations' = Tail(preparations)
      /\ gpu' = [pc |-> "claim", id |-> Head(preparations), source |-> "Cpu"]
  BY DEF GpuTakesPreparation, GpuAt
<1>3. /\ preparations' \in Seq(Nat \ {0}) /\ Len(preparations) \in Nat /\ Len(preparations) > 0
      /\ DOMAIN preparations' = 1 .. Len(preparations) - 1
      /\ DOMAIN preparations = 1 .. Len(preparations)
      /\ \A i \in 1 .. Len(preparations) - 1 : preparations'[i] = preparations[i + 1]
      /\ Head(preparations) = preparations[1] /\ preparations[1] \in Nat \ {0}
  BY <1>2, TailFacts DEF FlipInv, FlipTypeOK
<1>4. /\ \A i \in DOMAIN preparations' :
            i + 1 \in DOMAIN preparations /\ i + 1 # 1 /\ preparations'[i] = preparations[i + 1]
      /\ 1 \in DOMAIN preparations
  BY <1>3
<1>5. gpu' \in GpuPlace /\ gpu'.id = preparations[1] /\ gpu'.pc = "claim" /\ gpu'.source = "Cpu"
  BY <1>2, <1>3 DEF GpuPlace, Working
<1>6. ~GpuHolds /\ GpuHolds'
  BY <1>2, <1>5 DEF GpuHolds, Working
<1>7. FlipTypeOK' /\ IdsExact'
  BY <1>1, <1>3, <1>5 DEF FlipInv, FlipTypeOK, IdsExact, DistinctIds, Apart, Numbered
<1>8. PortLife' /\ PresentFront'
  BY <1>1 DEF FlipInv, PortLife, PresentFront, PortCurrent
<1>9. OnePlace'
  <2>1. \A i, j \in DOMAIN preparations' : preparations'[i] = preparations'[j] => i = j
    BY <1>3, <1>4 DEF FlipInv, OnePlace
  <2>2. \A i \in DOMAIN preparations' :
            /\ preparations'[i] <= Len(frames) /\ preparations'[i] # guest.id
            /\ preparations'[i] # preparations[1]
            /\ \A j \in DOMAIN completes : ops[j].runs = 0 => completes[j] # preparations'[i]
    BY <1>4 DEF FlipInv, OnePlace
  <2>3. /\ preparations[1] <= Len(frames) /\ preparations[1] # guest.id
        /\ \A j \in DOMAIN completes : ops[j].runs = 0 => completes[j] # preparations[1]
    BY <1>4 DEF FlipInv, OnePlace
  <2> QED
    BY <1>1, <1>5, <1>6, <2>1, <2>2, <2>3 DEF FlipInv, OnePlace
<1>10. Progress'
  <2>1. Uncompleted' \subseteq Uncompleted /\ Unclaimed' \subseteq Unclaimed
    BY <1>1, <1>4, <1>5, <1>6 DEF Uncompleted, Unclaimed
  <2> QED
    BY <1>1, <2>1, ProgressStays
<1>11. Claims' /\ Framed'
  BY <1>1, <1>2, <1>5 DEF FlipInv, Claims, Framed
<1>12. HeldExact' /\ CountsExact'
  BY <1>1 DEF FlipInv, HeldExact, CountsExact, NumRequests, EopIndices
<1> QED
  BY <1>7, <1>8, <1>9, <1>10, <1>11, <1>12 DEF FlipInv

-----------------------------------------------------------------------------
(* The GPU thread between the queues and the scheduler.                      *)

\* The GPU thread goes on with its request.
GpuGoes(places) ==
    /\ gpu \in [pc : Working, id : Nat \ {0}, source : {"GpuEop", "Cpu"}]
    /\ gpu' \in [pc : Working, id : Nat \ {0}, source : {"GpuEop", "Cpu"}]
    /\ gpu'.id = gpu.id /\ gpu'.source = gpu.source /\ gpu'.pc \in places

\* An update of gpu.pc takes the request along.
LEMMA GpuMoves ==
    ASSUME gpu \in GpuPlace, gpu.pc \in Working, NEW places, NEW pc \in Working, pc \in places,
           gpu' = [gpu EXCEPT !.pc = pc]
    PROVE  GpuGoes(places) /\ gpu' \in GpuPlace
<1>1. gpu \in [pc : Working, id : Nat \ {0}, source : {"GpuEop", "Cpu"}]
  BY GpuPlaces
<1> QED
  BY <1>1 DEF GpuGoes, GpuPlace

\* It looks at the port: a request of an open port is recorded.
LEMMA ChecksPortKeeps ==
    ASSUME FlipInv, GpuChecksPort
    PROVE  FlipInv'
<1>1. UNCHANGED <<port, requests, cpuRequests, cancelled, processing, present, closer, frames,
                  prepared, shown, guest, preparations, completes, ops>>
  BY DEF GpuChecksPort, schedulerVars, flipVars
<1> DEFINE r == Entry(requests \o cancelled, gpu.id)
           next == IF PortCurrent(r.generation) THEN "record" ELSE "drop"
<1>2. gpu.pc = "check" /\ gpu \in GpuPlace /\ gpu' = [gpu EXCEPT !.pc = next]
  BY DEF GpuChecksPort, FlipInv, FlipTypeOK
<1>3. next \in Working /\ next \in {"record", "drop"} /\ gpu.pc \in Working
  BY <1>2 DEF Working
<1>4. GpuGoes({"record", "drop"}) /\ gpu' \in GpuPlace
  <2> HIDE DEF next
  <2> QED
    BY <1>2, <1>3, GpuMoves
<1>5. gpu'.pc = next
  <2>1. gpu \in [pc : Working, id : Nat \ {0}, source : {"GpuEop", "Cpu"}]
    BY <1>2, <1>3, GpuPlaces
  <2> HIDE DEF next
  <2> QED
    BY <1>2, <2>1
<1>6. GpuHolds /\ GpuHolds'
  BY <1>2, <1>3, <1>4 DEF GpuHolds, GpuGoes
<1>7. FlipTypeOK' /\ IdsExact' /\ PortLife' /\ PresentFront'
  BY <1>1, <1>4 DEF FlipInv, FlipTypeOK, IdsExact, DistinctIds, Apart, Numbered, PortLife, PresentFront,
     PortCurrent
<1>8. OnePlace'
  BY <1>1, <1>4, <1>6 DEF FlipInv, OnePlace, GpuGoes
<1>9. Progress'
  <2>1. Uncompleted' \subseteq Uncompleted /\ Unclaimed' \subseteq Unclaimed
    BY <1>1, <1>4, <1>6 DEF Uncompleted, Unclaimed, GpuGoes
  <2> QED
    BY <1>1, <2>1, ProgressStays
<1>10. Claims'
  BY <1>1, <1>2, <1>4 DEF FlipInv, Claims, GpuGoes
<1>11. Framed'
  <2>1. ASSUME gpu'.pc = "drop", port.opened, NEW k \in DOMAIN requests, requests[k].id = gpu.id
        PROVE  FALSE
    <3>1. r = requests[k]
      <4> DEFINE all == requests \o cancelled
      <4>1. requests \in Seq(FlipRequest) /\ cancelled \in Seq(FlipRequest)
        BY DEF FlipInv, FlipTypeOK
      <4>2. /\ all \in Seq(FlipRequest) /\ Len(all) = Len(requests) + Len(cancelled)
            /\ Len(requests) \in Nat /\ Len(cancelled) \in Nat
            /\ \A i \in 1 .. Len(requests) + Len(cancelled) :
                  all[i] = IF i <= Len(requests) THEN requests[i] ELSE cancelled[i - Len(requests)]
        BY <4>1, ConcatProperties
      <4>3. DOMAIN all = 1 .. Len(requests) + Len(cancelled) /\ DOMAIN requests = 1 .. Len(requests)
            /\ DOMAIN cancelled = 1 .. Len(cancelled)
        BY <4>1, <4>2, QueueElements
      <4> HIDE DEF all
      <4>4. \A i \in DOMAIN all : \/ i \in DOMAIN requests /\ all[i] = requests[i]
                                  \/ i - Len(requests) \in DOMAIN cancelled
                                     /\ all[i] = cancelled[i - Len(requests)]
        BY <4>2, <4>3
      <4>5. \A i, j \in DOMAIN all : i - Len(requests) = j - Len(requests) => i = j
        BY <4>2, <4>3
      <4>6. DistinctIds(all)
        <5> SUFFICES ASSUME NEW i \in DOMAIN all, NEW j \in DOMAIN all, all[i].id = all[j].id
                     PROVE  i = j
          BY DEF DistinctIds
        <5> QED
          BY <4>4, <4>5 DEF FlipInv, IdsExact, DistinctIds, Apart
      <4>7. k \in DOMAIN all /\ all[k] = requests[k]
        BY <4>2, <4>3
      <4> QED
        BY <2>1, <4>2, <4>6, <4>7, EntryAt DEF all
    <3>2. r.generation = port.generation /\ ~port.closing
      BY <2>1, <3>1 DEF FlipInv, PortLife
    <3>3. PortCurrent(r.generation)
      BY <2>1, <3>2 DEF PortCurrent
    <3> QED
      BY <1>5, <2>1, <3>3
  <2>2. gpu'.id = gpu.id /\ gpu'.pc \in {"check", "record", "drop"}
    BY <1>4 DEF GpuGoes
  <2> QED
    BY <1>1, <1>2, <2>1, <2>2 DEF FlipInv, Framed
<1>12. HeldExact' /\ CountsExact'
  BY <1>1 DEF FlipInv, HeldExact, CountsExact, NumRequests, EopIndices
<1> QED
  BY <1>7, <1>8, <1>9, <1>10, <1>11, <1>12 DEF FlipInv

\* The end-of-pipe signal leaves a flip of the command stream to a priority operation.
LEMMA SignalsKeeps ==
    ASSUME FlipInv, SchedulerInv, opState = "Open", GpuSignals
    PROVE  FlipInv'
<1>1. UNCHANGED <<port, requests, cpuRequests, cancelled, processing, present, closer, frames,
                  prepared, shown, guest, preparations>>
  BY DEF GpuSignals, flipVars
<1>2. gpu.pc = "signal" /\ gpu \in GpuPlace /\ gpu' = [gpu EXCEPT !.pc = "flush"]
  BY DEF GpuSignals, GpuAt, FlipInv, FlipTypeOK
<1>3. GpuGoes({"flush"}) /\ gpu' \in GpuPlace
  <2>1. "flush" \in Working /\ "flush" \in {"flush"} /\ gpu.pc \in Working
    BY <1>2 DEF Working
  <2> QED
    BY <1>2, <2>1, GpuMoves
<1>4. gpu'.pc = "flush" /\ gpu'.id = gpu.id /\ gpu'.source = gpu.source /\ gpu.id \in Nat \ {0}
      /\ gpu.source \in {"GpuEop", "Cpu"}
  BY <1>3 DEF GpuGoes
<1>5. GpuHolds /\ (GpuHolds' <=> gpu.source = "Cpu")
  BY <1>2, <1>4 DEF GpuHolds, Working
<1>6. /\ completes' \in Seq(Nat \ {0}) /\ Len(completes') = Len(ops')
      /\ DOMAIN completes \subseteq DOMAIN completes'
      /\ \A i \in DOMAIN completes : completes'[i] = completes[i] /\ ops'[i].runs = ops[i].runs
      /\ \A i \in DOMAIN completes' \ DOMAIN completes :
            /\ completes'[i] = gpu.id /\ gpu.source = "GpuEop"
            /\ \A j \in DOMAIN completes' \ DOMAIN completes : i = j
  <2>0. /\ completes \in Seq(Nat \ {0}) /\ Len(completes) = Len(ops) /\ ops \in Seq(Operation)
        /\ Len(ops) \in Nat /\ DOMAIN completes = 1 .. Len(ops)
    BY DEF FlipInv, FlipTypeOK, OnePlace, SchedulerInv, SchedulerTypeOK
  <2>1. CASE gpu.source = "GpuEop"
    <3> DEFINE x == [priority |-> TRUE, tick |-> DeferralTick, at |-> tick, runs |-> 0]
    <3>1. completes' = Append(completes, gpu.id) /\ ops' = Append(ops, x)
      BY <2>1 DEF GpuSignals, DeferPriorityOperation
    <3>2. x \in Operation
      BY DEF Operation, DeferralTick, SchedulerInv, SchedulerTypeOK
    <3> HIDE DEF x
    <3>3. Len(ops') = Len(ops) + 1 /\ \A i \in 1 .. Len(ops) : ops'[i] = ops[i]
      BY <2>0, <3>1, <3>2, AppendFacts
    <3>4. /\ completes' \in Seq(Nat \ {0}) /\ Len(completes') = Len(ops) + 1
          /\ DOMAIN completes' = 1 .. Len(ops) + 1
          /\ \A i \in 1 .. Len(ops) : completes'[i] = completes[i]
          /\ completes'[Len(ops) + 1] = gpu.id
      BY <1>4, <2>0, <3>1, AppendFacts
    <3> QED
      BY <2>0, <2>1, <3>3, <3>4
  <2>2. CASE gpu.source # "GpuEop"
    BY <2>0, <2>2 DEF GpuSignals, schedulerVars
  <2> QED
    BY <2>1, <2>2
<1>7. FlipTypeOK' /\ IdsExact' /\ PortLife' /\ PresentFront'
  BY <1>1, <1>3, <1>6 DEF FlipInv, FlipTypeOK, IdsExact, DistinctIds, Apart, Numbered, PortLife, PresentFront,
     PortCurrent
<1>8. OnePlace'
  <2>1. \A i, j \in DOMAIN completes' :
            ops'[i].runs = 0 /\ ops'[j].runs = 0 /\ completes'[i] = completes'[j] => i = j
    BY <1>5, <1>6, SMTT(30) DEF FlipInv, OnePlace
  <2>2. \A i \in DOMAIN preparations : \A j \in DOMAIN completes' :
            ops'[j].runs = 0 => completes'[j] # preparations[i]
    BY <1>5, <1>6 DEF FlipInv, OnePlace
  <2>3. \A j \in DOMAIN completes' : ops'[j].runs = 0 =>
            /\ completes'[j] <= Len(frames) /\ completes'[j] # guest.id
            /\ gpu.source = "Cpu" => completes'[j] # gpu.id
    BY <1>5, <1>6 DEF FlipInv, OnePlace
  <2> QED
    BY <1>1, <1>4, <1>5, <1>6, <2>1, <2>2, <2>3 DEF FlipInv, OnePlace
<1>9. Progress'
  <2>1. Uncompleted' \subseteq Uncompleted /\ Unclaimed' \subseteq Unclaimed
    BY <1>1, <1>4, <1>5, <1>6 DEF Uncompleted, Unclaimed
  <2> QED
    BY <1>1, <2>1, ProgressStays
<1>10. Claims' /\ Framed'
  BY <1>1, <1>2, <1>4 DEF FlipInv, Claims, Framed
<1>12. HeldExact' /\ CountsExact'
  BY <1>1 DEF FlipInv, HeldExact, CountsExact, NumRequests, EopIndices
<1> QED
  BY <1>7, <1>8, <1>9, <1>10, <1>12 DEF FlipInv

\* The flush lets go of a flip of the command stream; one of a guest thread is completed next.
LEMMA FlushesKeeps ==
    ASSUME FlipInv, GpuFlushes
    PROVE  FlipInv'
<1>1. UNCHANGED <<port, requests, cpuRequests, cancelled, processing, present, closer, frames,
                  prepared, shown, guest, preparations, completes, ops>>
  BY DEF GpuFlushes, flipVars, Flush
<1>2. gpu.pc = "flush" /\ gpu \in GpuPlace /\ gpu.pc \in Working
  BY DEF GpuFlushes, GpuAt, FlipInv, FlipTypeOK, Working
<1>3. /\ gpu.id \in Nat \ {0} /\ gpu.source \in {"GpuEop", "Cpu"}
      /\ gpu \in [pc : Working, id : Nat \ {0}, source : {"GpuEop", "Cpu"}]
  BY <1>2, GpuPlaces
<1>4. CASE gpu.source = "Cpu"
  <2>1. gpu' = [gpu EXCEPT !.pc = "complete"]
    BY <1>4 DEF GpuFlushes
  <2>2. gpu' \in GpuPlace /\ gpu'.pc = "complete" /\ gpu'.id = gpu.id /\ gpu'.source = "Cpu"
    BY <1>3, <1>4, <2>1 DEF GpuPlace, Working
  <2>3. GpuHolds /\ GpuHolds'
    BY <1>2, <1>4, <2>2 DEF GpuHolds, Working
  <2>7. FlipTypeOK' /\ IdsExact' /\ PortLife' /\ PresentFront'
    BY <1>1, <2>2 DEF FlipInv, FlipTypeOK, IdsExact, DistinctIds, Apart, Numbered, PortLife, PresentFront,
       PortCurrent
  <2>8. OnePlace'
    BY <1>1, <2>2, <2>3 DEF FlipInv, OnePlace
  <2>9. Progress'
    BY <1>1, <2>2, <2>3, ProgressStays DEF Uncompleted, Unclaimed
  <2>10. Claims' /\ Framed'
    BY <1>1, <1>2, <2>2 DEF FlipInv, Claims, Framed
  <2>11. HeldExact' /\ CountsExact'
    BY <1>1 DEF FlipInv, HeldExact, CountsExact, NumRequests, EopIndices
  <2> QED
    BY <2>7, <2>8, <2>9, <2>10, <2>11 DEF FlipInv
<1>5. CASE gpu.source # "Cpu"
  <2>1. gpu' = [pc |-> "idle"]
    BY <1>5 DEF GpuFlushes
  <2>2. gpu' \in GpuPlace /\ gpu'.pc = "idle"
    BY <2>1 DEF GpuPlace
  <2>3. ~GpuHolds /\ ~GpuHolds'
    BY <1>2, <1>3, <1>5, <2>2 DEF GpuHolds, Working
  <2>7. FlipTypeOK' /\ IdsExact' /\ PortLife' /\ PresentFront'
    BY <1>1, <2>2 DEF FlipInv, FlipTypeOK, IdsExact, DistinctIds, Apart, Numbered, PortLife, PresentFront,
       PortCurrent
  <2>8. OnePlace'
    BY <1>1, <2>2, <2>3 DEF FlipInv, OnePlace
  <2>9. Progress'
    BY <1>1, <2>2, <2>3, ProgressStays DEF Uncompleted, Unclaimed
  <2>10. Claims' /\ Framed'
    BY <1>1, <1>2, <2>2 DEF FlipInv, Claims, Framed
  <2>11. HeldExact' /\ CountsExact'
    BY <1>1 DEF FlipInv, HeldExact, CountsExact, NumRequests, EopIndices
  <2> QED
    BY <2>7, <2>8, <2>9, <2>10, <2>11 DEF FlipInv
<1> QED
  BY <1>4, <1>5

-----------------------------------------------------------------------------
(* Steps that change a request where it is.                                  *)

\* The places of the uncompleted requests stay when their holders do.
LEMMA PlacesStay ==
    ASSUME FlipInv, UNCHANGED <<guest, gpu, preparations, completes, ops>>, Len(frames') = Len(frames)
    PROVE  /\ OnePlace' /\ Uncompleted' = Uncompleted /\ Unclaimed' = Unclaimed
           /\ GpuHolds' = GpuHolds
BY DEF FlipInv, OnePlace, Uncompleted, Unclaimed, GpuHolds

\* A request of m_requests is changed in place.
LEMMA UpdateKeeps ==
    ASSUME FlipInv, NEW k \in DOMAIN requests, NEW r \in FlipRequest, r.id = requests[k].id,
           r.generation = requests[k].generation, r.source = requests[k].source,
           requests' = Update(requests, r), UNCHANGED <<port, cpuRequests, cancelled, closer, guest>>,
           Len(frames') = Len(frames)
    PROVE  /\ requests' \in Seq(FlipRequest) /\ Len(requests') = Len(requests)
           /\ DOMAIN requests' = DOMAIN requests /\ requests'[k] = r
           /\ \A i \in DOMAIN requests : i # k => requests'[i] = requests[i]
           /\ \A i \in DOMAIN requests : requests'[i].id = requests[i].id
           /\ IdsExact' /\ PortLife' /\ CountsExact'
<1>1. /\ requests' \in Seq(FlipRequest) /\ Len(requests') = Len(requests)
      /\ DOMAIN requests' = DOMAIN requests /\ requests'[k] = r
      /\ \A i \in DOMAIN requests : i # k => requests'[i] = requests[i]
      /\ \A i \in DOMAIN requests : requests'[i].id = requests[i].id
  BY UpdateAt DEF FlipInv, FlipTypeOK, IdsExact
<1>2. \A i \in DOMAIN requests : /\ requests'[i].generation = requests[i].generation
                                 /\ requests'[i].source = requests[i].source
  BY <1>1
<1>3. IdsExact'
  BY <1>1 DEF FlipInv, IdsExact, DistinctIds, Apart, Numbered
<1>4. PortLife'
  <2>1. requests = << >> => requests' = << >>
    BY <1>1, QueueElements DEF FlipInv, FlipTypeOK
  <2> QED
    BY <1>1, <1>2, <2>1 DEF FlipInv, PortLife
<1>5. CountsExact'
  <2>1. EopIndices' = EopIndices
    BY <1>1, <1>2 DEF EopIndices
  <2> QED
    BY <1>1, <2>1 DEF FlipInv, CountsExact, NumRequests
<1> QED
  BY <1>1, <1>3, <1>4, <1>5

\* The present thread finds its flip due, or puts it off to a later vblank.
LEMMA FlipDueKeeps ==
    ASSUME FlipInv, FlipDue, UNCHANGED <<gpu, preparations, completes, ops>>
    PROVE  FlipInv'
<1>1. UNCHANGED <<port, cpuRequests, cancelled, closer, guest, frames, prepared, shown>>
  BY DEF FlipDue
<1>2. /\ present.pc = "due" /\ 1 \in DOMAIN requests /\ requests[1] = present.request
      /\ present.request.state = "Ready" /\ processing
  BY DEF FlipDue, FlipInv, PresentFront
<1>3. OnePlace' /\ Uncompleted' = Uncompleted /\ Unclaimed' = Unclaimed
  BY <1>1, PlacesStay
<1>4. CASE ~(PortCurrent(present.request.generation) /\ port.wait = 0)
  <2>1. UNCHANGED requests /\ present' = [pc |-> "vblank"] /\ processing' = FALSE
    BY <1>4 DEF FlipDue
  <2>2. FlipTypeOK' /\ IdsExact' /\ PortLife' /\ PresentFront'
    BY <1>1, <2>1, ZenonT(60) DEF FlipInv, FlipTypeOK, PresentState, IdsExact, DistinctIds, Apart, Numbered,
       PortLife, PresentFront
  <2>3. Progress'
    BY <1>1, <1>3, <2>1, ProgressStays
  <2>4. Claims' /\ Framed' /\ HeldExact' /\ CountsExact'
    BY <1>1, <2>1 DEF FlipInv, Claims, Framed, HeldExact, CountsExact, NumRequests, EopIndices
  <2> QED
    BY <1>3, <2>2, <2>3, <2>4 DEF FlipInv
<1>5. CASE PortCurrent(present.request.generation) /\ port.wait = 0
  <2> DEFINE r == [present.request EXCEPT !.state = "Presenting"]
  <2>1. requests' = Update(requests, r) /\ present' = [present EXCEPT !.pc = "present"] /\ UNCHANGED processing
    BY <1>5 DEF FlipDue
  <2>2. present.request \in FlipRequest /\ present \in [pc : {"due", "present"}, request : FlipRequest]
    BY <1>2 DEF FlipInv, FlipTypeOK, PresentState
  <2>3. /\ r \in FlipRequest /\ r.id = requests[1].id /\ r.generation = requests[1].generation
        /\ r.source = requests[1].source /\ r.state = "Presenting" /\ r.frame = requests[1].frame
        /\ r.claim = requests[1].claim
    BY <1>2, <2>2 DEF FlipRequest
  <2>4. /\ present' \in PresentState /\ present'.pc = "present" /\ present'.request = present.request
    BY <2>1, <2>2 DEF PresentState
  <2>5. [present'.request EXCEPT !.state = "Presenting"] = r
    BY <2>4
  <2> HIDE DEF r
  <2>6. /\ requests' \in Seq(FlipRequest) /\ Len(requests') = Len(requests)
        /\ DOMAIN requests' = DOMAIN requests /\ requests'[1] = r
        /\ \A i \in DOMAIN requests : i # 1 => requests'[i] = requests[i]
        /\ \A i \in DOMAIN requests : requests'[i].id = requests[i].id
        /\ IdsExact' /\ PortLife' /\ CountsExact'
    BY <1>1, <1>2, <2>1, <2>3, UpdateKeeps
  <2>7. \A i \in DOMAIN requests :
           /\ requests'[i].frame = requests[i].frame /\ requests'[i].claim = requests[i].claim
           /\ \/ requests'[i].state = requests[i].state
              \/ requests[i].state = "Ready" /\ requests'[i].state = "Presenting"
    <3> TAKE i \in DOMAIN requests
    <3>1. CASE i = 1
      BY <1>2, <2>3, <2>6, <3>1
    <3>2. CASE i # 1
      BY <2>6, <3>2
    <3> QED
      BY <3>1, <3>2
  <2>8. FlipTypeOK'
    BY <1>1, <2>1, <2>4, <2>6 DEF FlipInv, FlipTypeOK
  <2>9. PresentFront'
    BY <1>1, <1>2, <1>5, <2>1, <2>4, <2>5, <2>6 DEF PresentFront, PortCurrent
  <2>10. Progress'
    BY <1>1, <1>3, <2>6, <2>7 DEF FlipInv, Progress, Settled, InPreparation
  <2>11. Claims' /\ Framed'
    BY <1>1, <2>6, <2>7 DEF FlipInv, Claims, Framed
  <2>12. HeldExact'
    BY <1>1, <2>6, <2>7 DEF FlipInv, HeldExact
  <2> QED
    BY <1>3, <2>6, <2>8, <2>9, <2>10, <2>11, <2>12 DEF FlipInv
<1> QED
  BY <1>4, <1>5

-----------------------------------------------------------------------------
(* A presentation.                                                           *)

\* The end-of-pipe requests of a queue.
EopOf(q) == {i \in DOMAIN q : q[i].source = "GpuEop"}

\* There are finitely many of them.
LEMMA EopFinite ==
    ASSUME NEW q \in Seq(FlipRequest)
    PROVE  IsFiniteSet(EopOf(q)) /\ Cardinality(EopOf(q)) \in Nat
<1>1. Len(q) \in Int /\ DOMAIN q = 1 .. Len(q)
  BY QueueElements
<1>2. IsFiniteSet(1 .. Len(q))
  BY <1>1, FS_Interval
<1>3. EopOf(q) \subseteq 1 .. Len(q)
  BY <1>1 DEF EopOf
<1>4. IsFiniteSet(EopOf(q))
  BY <1>2, <1>3, FS_Subset
<1> QED
  BY <1>4, FS_CardinalityType

\* Without its front the queue has one of them less, or as many.
LEMMA EopTail ==
    ASSUME NEW q \in Seq(FlipRequest), 1 \in DOMAIN q
    PROVE  /\ q[1].source = "GpuEop" =>
                 Cardinality(EopOf(q)) > 0 /\ Cardinality(EopOf(Tail(q))) = Cardinality(EopOf(q)) - 1
           /\ q[1].source # "GpuEop" => Cardinality(EopOf(Tail(q))) = Cardinality(EopOf(q))
<1> DEFINE t == Tail(q)
           B == EopOf(q) \ {1}
           up == [i \in EopOf(t) |-> i + 1]
<1>1. /\ Len(q) \in Nat /\ DOMAIN q = 1 .. Len(q) /\ q # << >>
  BY QueueElements
<1>2. /\ t \in Seq(FlipRequest) /\ DOMAIN t = 1 .. Len(q) - 1
      /\ \A i \in 1 .. Len(q) - 1 : t[i] = q[i + 1]
  BY <1>1, TailFacts
<1>3. IsFiniteSet(EopOf(t)) /\ IsFiniteSet(EopOf(q)) /\ Cardinality(EopOf(q)) \in Nat
  BY <1>2, EopFinite
<1> HIDE DEF t
<1>4. up \in [EopOf(t) -> B]
  BY <1>1, <1>2 DEF EopOf
<1>5. \A i, j \in EopOf(t) : up[i] = up[j] => i = j
  BY <1>2 DEF EopOf
<1>6. \A k \in B : \E i \in EopOf(t) : up[i] = k
  <2> SUFFICES ASSUME NEW k \in B PROVE k - 1 \in EopOf(t) /\ up[k - 1] = k
    OBVIOUS
  <2>1. k \in 1 .. Len(q) /\ k # 1 /\ q[k].source = "GpuEop"
    BY <1>1 DEF EopOf
  <2>2. k - 1 \in 1 .. Len(q) - 1 /\ t[k - 1] = q[k]
    BY <1>1, <1>2, <2>1
  <2>3. k - 1 \in EopOf(t)
    BY <1>2, <2>1, <2>2 DEF EopOf
  <2> QED
    BY <2>1, <2>3
<1> HIDE DEF up, B
<1>7. ExistsBijection(EopOf(t), B)
  <2>1. up \in Bijection(EopOf(t), B)
    BY <1>4, <1>5, <1>6, Fun_IsBij
  <2> QED
    BY <2>1 DEF ExistsBijection
<1>8. Cardinality(B) = Cardinality(EopOf(t))
  BY <1>3, <1>7, FS_Bijection
<1>9. CASE q[1].source = "GpuEop"
  <2>1. 1 \in EopOf(q)
    BY <1>9 DEF EopOf
  <2>2. Cardinality(B) = Cardinality(EopOf(q)) - 1
    BY <1>3, <2>1, FS_RemoveElement DEF B
  <2>3. Cardinality(EopOf(q)) # 0
    BY <1>3, <2>1, FS_EmptySet
  <2> QED
    BY <1>3, <1>8, <1>9, <2>2, <2>3 DEF t
<1>10. CASE q[1].source # "GpuEop"
  <2>1. B = EopOf(q)
    BY <1>10 DEF EopOf, B
  <2> QED
    BY <1>8, <1>10, <2>1 DEF t
<1> QED
  BY <1>9, <1>10

\* The front request is shown and leaves the queue; its frame was held, so that it is shown once.
LEMMA FlipPresentKeeps ==
    ASSUME FlipInv, FlipPresent, UNCHANGED <<gpu, preparations, completes, ops>>
    PROVE  FlipInv'
<1> DEFINE r == present.request
<1>1. /\ UNCHANGED <<cpuRequests, cancelled, closer, guest, prepared>> /\ requests' = Tail(requests)
      /\ processing' = FALSE /\ present' = [pc |-> "vblank"] /\ shown' = r.claim
      /\ frames' = [frames EXCEPT ![r.id] = IF @ = "held" THEN "shown" ELSE "twice"]
      /\ port' = [port EXCEPT !.wait = port.rate + 1, !.flipPending = NumRequests - 1,
                              !.gcQueue = GcQueueAfter(r)]
  BY DEF FlipPresent
<1>2. /\ present.pc = "present" /\ 1 \in DOMAIN requests /\ port.opened /\ ~port.closing
      /\ requests[1] = [r EXCEPT !.state = "Presenting"] /\ r \in FlipRequest
  BY DEF FlipPresent, FlipInv, FlipTypeOK, PresentState, PresentFront, PortCurrent
<1>3. /\ r.id = requests[1].id /\ r.source = requests[1].source /\ r.claim = requests[1].claim
      /\ requests[1].state = "Presenting" /\ r.id \in Nat \ {0} /\ r.claim \in Nat
  BY <1>2 DEF FlipRequest
<1> HIDE DEF r
<1>4. /\ requests \in Seq(FlipRequest) /\ Len(requests) \in Nat /\ DOMAIN requests = 1 .. Len(requests)
      /\ requests # << >> /\ cpuRequests \in Seq(FlipRequest) /\ Len(cpuRequests) \in Nat
  BY <1>2, QueueElements DEF FlipInv, FlipTypeOK
<1>5. /\ requests' \in Seq(FlipRequest) /\ DOMAIN requests' = 1 .. Len(requests) - 1
      /\ Len(requests') = Len(requests) - 1
      /\ \A i \in DOMAIN requests' :
            i \in Nat /\ i + 1 \in DOMAIN requests /\ i + 1 # 1 /\ requests'[i] = requests[i + 1]
  <2>1. /\ requests' \in Seq(FlipRequest) /\ DOMAIN requests' = 1 .. Len(requests) - 1
        /\ \A i \in 1 .. Len(requests) - 1 : requests'[i] = requests[i + 1]
    BY <1>1, <1>4, TailFacts
  <2>2. Len(requests') \in Nat /\ DOMAIN requests' = 1 .. Len(requests')
    BY <2>1, QueueElements
  <2>3. Len(requests') = Len(requests) - 1
    BY <1>1, <1>4
  <2> QED
    BY <1>4, <2>1, <2>3
<1>6. \A k \in DOMAIN requests : k # 1 => \E i \in DOMAIN requests' : i + 1 = k
  <2> SUFFICES ASSUME NEW k \in DOMAIN requests, k # 1 PROVE k - 1 \in DOMAIN requests' /\ (k - 1) + 1 = k
    OBVIOUS
  <2> QED
    BY <1>4, <1>5
<1>7. requests[1].frame
  <2>1. requests[1].id \notin Uncompleted
    BY <1>2, <1>3 DEF FlipInv, Progress, Settled, InPreparation
  <2>2. ~(gpu.pc \in {"check", "record", "drop"} /\ gpu.id = requests[1].id)
    BY <1>3, <2>1 DEF Uncompleted, GpuHolds, Working
  <2> QED
    BY <1>2, <1>3, <2>2 DEF FlipInv, Framed
<1>8. /\ frames \in Seq({"none", "held", "shown", "discarded"}) /\ Len(frames) \in Nat
      /\ DOMAIN frames = 1 .. Len(frames) /\ r.id \in DOMAIN frames
  <2>1. /\ frames \in Seq({"none", "held", "shown", "discarded"}) /\ Len(frames) \in Nat
        /\ DOMAIN frames = 1 .. Len(frames)
    BY DEF FlipInv, FlipTypeOK
  <2>2. r.id <= Len(frames)
    BY <1>2, <1>3 DEF FlipInv, IdsExact, Numbered
  <2> QED
    BY <1>3, <2>1, <2>2
<1>9. frames[r.id] = "held"
  BY <1>2, <1>3, <1>7, <1>8 DEF FlipInv, HeldExact
<1>10. frames' = [frames EXCEPT ![r.id] = "shown"]
  BY <1>1, <1>9
<1>11. /\ frames' \in Seq({"none", "held", "shown", "discarded"}) /\ Len(frames') = Len(frames)
       /\ DOMAIN frames' = DOMAIN frames /\ frames'[r.id] = "shown"
       /\ \A id \in DOMAIN frames : id # r.id => frames'[id] = frames[id]
  BY <1>8, <1>10
<1>12. /\ port' \in PortState /\ port'.opened /\ ~port'.closing /\ port'.generation = port.generation
       /\ port'.flipPending = NumRequests' /\ port'.gcQueue = Cardinality(EopIndices')
  <2>1. port \in PortState /\ port.rate + 1 \in Nat /\ port.gcQueue \in Nat
    BY DEF FlipInv, FlipTypeOK, PortState
  <2>2. NumRequests - 1 = NumRequests' /\ NumRequests' \in Nat
    BY <1>1, <1>4, <1>5 DEF NumRequests
  <2>3. /\ EopIndices = EopOf(requests) /\ EopIndices' = EopOf(requests')
        /\ Cardinality(EopOf(requests')) \in Nat /\ port.gcQueue = Cardinality(EopOf(requests))
    <3>1. EopIndices = EopOf(requests) /\ EopIndices' = EopOf(requests')
      BY DEF EopIndices, EopOf
    <3>2. Cardinality(EopOf(requests')) \in Nat
      BY <1>5, EopFinite
    <3> QED
      BY <1>2, <3>1, <3>2 DEF FlipInv, CountsExact
  <2>4. GcQueueAfter(r) = Cardinality(EopOf(requests'))
    <3>1. /\ requests[1].source = "GpuEop" =>
                 /\ Cardinality(EopOf(requests)) > 0
                 /\ Cardinality(EopOf(requests')) = Cardinality(EopOf(requests)) - 1
          /\ requests[1].source # "GpuEop" =>
                 Cardinality(EopOf(requests')) = Cardinality(EopOf(requests))
      BY <1>1, <1>2, <1>4, EopTail
    <3> QED
      BY <1>3, <2>1, <2>3, <3>1 DEF GcQueueAfter
  <2>5. port' = [port EXCEPT !.wait = port.rate + 1, !.flipPending = NumRequests',
                             !.gcQueue = Cardinality(EopOf(requests'))]
    BY <1>1, <2>2, <2>4
  <2> QED
    BY <1>2, <2>1, <2>2, <2>3, <2>5 DEF PortState
<1>13. OnePlace' /\ Uncompleted' = Uncompleted /\ Unclaimed' = Unclaimed
  BY <1>1, <1>11, PlacesStay
<1>14. FlipTypeOK' /\ PresentFront'
  BY <1>1, <1>3, <1>5, <1>11, <1>12 DEF FlipInv, FlipTypeOK, PresentState, PresentFront
<1>15. IdsExact'
  <2>1. DistinctIds(requests)'
    <3> SUFFICES ASSUME NEW i \in DOMAIN requests', NEW j \in DOMAIN requests', requests'[i].id = requests'[j].id
                 PROVE  i = j
      BY DEF DistinctIds
    <3>1. i + 1 = j + 1 /\ i \in Nat /\ j \in Nat
      BY <1>5 DEF FlipInv, IdsExact, DistinctIds
    <3> QED
      BY <3>1
  <2> QED
    BY <1>1, <1>5, <1>11, <2>1 DEF FlipInv, IdsExact, DistinctIds, Apart, Numbered
<1>16. PortLife'
  BY <1>1, <1>2, <1>5, <1>12 DEF FlipInv, PortLife
<1>17. Progress'
  BY <1>1, <1>5, <1>13 DEF FlipInv, Progress, Settled, InPreparation
<1>18. Claims'
  <2>1. r.claim <= prepared /\ prepared \in Nat
    BY <1>2, <1>3 DEF FlipInv, FlipTypeOK, Claims
  <2>2. ASSUME NEW i \in DOMAIN requests'
        PROVE  /\ requests'[i].claim <= prepared
               /\ requests'[i].state # "Reserved" => requests'[i].claim > r.claim
               /\ requests'[i].state = "Reserved" =>
                     i = Len(requests') /\ gpu.pc = "claim" /\ gpu.id = requests'[i].id
    <3>1. i \in Nat /\ i + 1 \in DOMAIN requests /\ 1 < i + 1 /\ requests'[i] = requests[i + 1]
      BY <1>5
    <3>2. requests[i + 1].claim \in Nat /\ requests[1].claim \in Nat
      BY <1>2, <1>4, <3>1, QueueElements, RequestFields
    <3>3. requests[i + 1].state # "Reserved" => requests[1].claim < requests[i + 1].claim
      BY <1>2, <3>1 DEF FlipInv, Claims
    <3>4. requests[i + 1].state = "Reserved" => i + 1 = Len(requests) /\ gpu.pc = "claim" /\ gpu.id = requests[i + 1].id
      BY <3>1 DEF FlipInv, Claims
    <3>5. requests[i + 1].claim <= prepared
      BY <3>1 DEF FlipInv, Claims
    <3> QED
      BY <1>3, <1>4, <1>5, <3>1, <3>2, <3>3, <3>4, <3>5
  <2>3. ASSUME NEW i \in DOMAIN requests', NEW j \in DOMAIN requests', i < j, requests'[j].state # "Reserved"
        PROVE  requests'[i].claim < requests'[j].claim
    <3>1. i + 1 < j + 1
      BY <1>5, <2>3
    <3> QED
      BY <1>5, <2>3, <3>1 DEF FlipInv, Claims
  <2> QED
    BY <1>1, <2>1, <2>2, <2>3 DEF Claims
<1>19. Framed'
  BY <1>1, <1>2, <1>5, <1>12 DEF FlipInv, Framed
<1>20. HeldExact'
  <2> SUFFICES ASSUME NEW id \in DOMAIN frames
               PROVE  frames'[id] = "held" <=>
                          \/ \E i \in DOMAIN requests' : requests'[i].id = id /\ requests'[i].frame
                          \/ \E i \in DOMAIN cancelled : cancelled[i].id = id /\ cancelled[i].frame
    BY <1>1, <1>11 DEF HeldExact
  <2>1. CASE id = r.id
    <3>0. 1 \in DOMAIN requests /\ requests[1].id = id
      BY <1>2, <1>3, <2>1
    <3>1. \A i \in DOMAIN requests' : requests'[i].id # id
      BY <1>5, <3>0 DEF FlipInv, IdsExact, DistinctIds
    <3>2. \A i \in DOMAIN cancelled : cancelled[i].id # id
      BY <3>0 DEF FlipInv, IdsExact, Apart
    <3> QED
      BY <1>11, <2>1, <3>1, <3>2
  <2>2. CASE id # r.id
    <3>1. (\E i \in DOMAIN requests' : requests'[i].id = id /\ requests'[i].frame)
             <=> (\E i \in DOMAIN requests : requests[i].id = id /\ requests[i].frame)
      BY <1>3, <1>5, <1>6, <2>2
    <3> QED
      BY <1>11, <2>2, <3>1 DEF FlipInv, HeldExact
  <2> QED
    BY <2>1, <2>2
<1>21. CountsExact'
  BY <1>12 DEF CountsExact
<1> QED
  BY <1>13, <1>14, <1>15, <1>16, <1>17, <1>18, <1>19, <1>20, <1>21 DEF FlipInv

-----------------------------------------------------------------------------
(* FlipQueue::Cancel.                                                        *)

\* c is p followed by q.
Joined(c, p, q) ==
    /\ c \in Seq(FlipRequest) /\ Len(c) = Len(p) + Len(q)
    /\ \A i \in 1 .. Len(p) + Len(q) : c[i] = IF i <= Len(p) THEN p[i] ELSE q[i - Len(p)]

From(r, q) == \E k \in DOMAIN q : r = q[k]

\* The concatenation of two queues has the requests of both, each once.
LEMMA ConcatQueue ==
    ASSUME NEW p \in Seq(FlipRequest), NEW q \in Seq(FlipRequest), DistinctIds(p), DistinctIds(q),
           Apart(p, q), NEW c, Joined(c, p, q)
    PROVE  /\ c \in Seq(FlipRequest) /\ DistinctIds(c)
           /\ \A i \in DOMAIN c : From(c[i], p) \/ From(c[i], q)
           /\ \A k \in DOMAIN p : \E i \in DOMAIN c : c[i] = p[k]
           /\ \A k \in DOMAIN q : \E i \in DOMAIN c : c[i] = q[k]
<1>1. /\ c \in Seq(FlipRequest) /\ Len(c) = Len(p) + Len(q) /\ Len(p) \in Nat /\ Len(q) \in Nat
      /\ \A i \in 1 .. Len(p) + Len(q) : c[i] = IF i <= Len(p) THEN p[i] ELSE q[i - Len(p)]
  BY QueueElements DEF Joined
<1>2. DOMAIN c = 1 .. Len(p) + Len(q) /\ DOMAIN p = 1 .. Len(p) /\ DOMAIN q = 1 .. Len(q)
  BY <1>1, QueueElements
<1>3. \A i \in DOMAIN c : \/ i \in DOMAIN p /\ c[i] = p[i]
                          \/ i - Len(p) \in DOMAIN q /\ c[i] = q[i - Len(p)]
  BY <1>1, <1>2
<1>4. \A i, j \in DOMAIN c : i - Len(p) = j - Len(p) => i = j
  BY <1>1, <1>2
<1>5. DistinctIds(c)
  <2> SUFFICES ASSUME NEW i \in DOMAIN c, NEW j \in DOMAIN c, c[i].id = c[j].id
               PROVE  i = j
    BY DEF DistinctIds
  <2> QED
    BY <1>3, <1>4 DEF DistinctIds, Apart
<1>6. \A k \in DOMAIN p : k \in DOMAIN c /\ c[k] = p[k]
  BY <1>1, <1>2
<1>7. \A k \in DOMAIN q : k + Len(p) \in DOMAIN c /\ c[k + Len(p)] = q[k]
  BY <1>1, <1>2
<1>8. \A i \in DOMAIN c : From(c[i], p) \/ From(c[i], q)
  BY <1>3 DEF From
<1> QED
  BY <1>1, <1>5, <1>6, <1>7, <1>8

\* Cancel moves what is in preparation to m_cancelled_requests and gives back the frames of the rest.
LEMMA CancelKeeps ==
    ASSUME FlipInv, Cancel, UNCHANGED <<gpu, preparations, completes, ops>>
    PROVE  FlipInv'
<1>a. PICK all : all = requests \o cpuRequests
  OBVIOUS
<1>b. PICK A : A = {r \in ToSet(all) : InPreparation(r)}
  OBVIOUS
<1>c. PICK D : D = {r \in ToSet(all) : ~InPreparation(r)}
  OBVIOUS
<1>d. PICK kept : kept = Filter(all, A)
  OBVIOUS
<1>1. /\ UNCHANGED <<port, processing, present, guest, prepared, shown>>
      /\ requests' = << >> /\ cpuRequests' = << >> /\ closer' = "reset"
      /\ cancelled' = cancelled \o kept /\ frames' = Discard(D)
  BY <1>a, <1>b, <1>c, <1>d DEF Cancel
<1>2. requests \in Seq(FlipRequest) /\ cpuRequests \in Seq(FlipRequest) /\ cancelled \in Seq(FlipRequest)
  BY DEF FlipInv, FlipTypeOK
<1>3. closer = "cancel" /\ ~port.opened /\ present.pc \notin {"due", "present"}
  <2>1. closer = "cancel" /\ ~CancelWaits
    BY DEF Cancel
  <2>2. 1 \in DOMAIN requests => requests # << >>
    BY <1>2, QueueElements
  <2> QED
    BY <2>1, <2>2 DEF FlipInv, PresentFront, PortLife, CancelWaits
<1>4. /\ all \in Seq(FlipRequest) /\ DistinctIds(all)
      /\ \A i \in DOMAIN all : \/ \E k \in DOMAIN requests : all[i] = requests[k]
                               \/ \E k \in DOMAIN cpuRequests : all[i] = cpuRequests[k]
      /\ \A k \in DOMAIN requests : \E i \in DOMAIN all : all[i] = requests[k]
      /\ \A k \in DOMAIN cpuRequests : \E i \in DOMAIN all : all[i] = cpuRequests[k]
  <2>1. DistinctIds(requests) /\ DistinctIds(cpuRequests) /\ Apart(requests, cpuRequests)
    BY DEF FlipInv, IdsExact
  <2>2. Joined(all, requests, cpuRequests)
    BY <1>a, <1>2, ConcatProperties DEF Joined
  <2>3. \A i \in DOMAIN all : From(all[i], requests) \/ From(all[i], cpuRequests)
    BY <1>2, <2>1, <2>2, ConcatQueue
  <2>4. \A i \in DOMAIN all : \/ \E k \in DOMAIN requests : all[i] = requests[k]
                              \/ \E k \in DOMAIN cpuRequests : all[i] = cpuRequests[k]
    BY <2>3 DEF From
  <2> QED
    BY <1>2, <2>1, <2>2, <2>4, ConcatQueue
<1>5. /\ \A r \in D : ~InPreparation(r) /\ \E i \in DOMAIN all : r = all[i]
      /\ \A i \in DOMAIN all : ~InPreparation(all[i]) => all[i] \in D
      /\ \A r \in A : InPreparation(r)
      /\ \A i \in DOMAIN all : InPreparation(all[i]) => all[i] \in A
  <2>1. ToSet(all) = {all[i] : i \in DOMAIN all}
    BY <1>4, QueueElements
  <2> QED
    BY <1>b, <1>c, <2>1
<1>6. /\ kept \in Seq(FlipRequest) /\ DistinctIds(kept)
      /\ \A i \in DOMAIN kept : kept[i] \in A /\ \E k \in DOMAIN all : kept[i] = all[k]
      /\ \A k \in DOMAIN all : all[k] \in A => \E i \in DOMAIN kept : kept[i] = all[k]
  BY <1>d, <1>4, FilterQueue
<1>7. \A i \in DOMAIN cancelled : \A k \in DOMAIN all : cancelled[i].id # all[k].id
  BY <1>4 DEF FlipInv, IdsExact, Apart
<1>8. /\ cancelled' \in Seq(FlipRequest) /\ DistinctIds(cancelled')
      /\ \A i \in DOMAIN cancelled' : \/ \E k \in DOMAIN cancelled : cancelled'[i] = cancelled[k]
                                      \/ \E k \in DOMAIN kept : cancelled'[i] = kept[k]
      /\ \A k \in DOMAIN cancelled : \E i \in DOMAIN cancelled' : cancelled'[i] = cancelled[k]
      /\ \A k \in DOMAIN kept : \E i \in DOMAIN cancelled' : cancelled'[i] = kept[k]
  <2>1. Apart(cancelled, kept)
    BY <1>6, <1>7 DEF Apart
  <2>2. DistinctIds(cancelled) /\ kept \in Seq(FlipRequest) /\ DistinctIds(kept)
    BY <1>6 DEF FlipInv, IdsExact
  <2>3. Joined(cancelled', cancelled, kept)
    BY <1>1, <1>2, <2>2, ConcatProperties DEF Joined
  <2>4. \A i \in DOMAIN cancelled' : From(cancelled'[i], cancelled) \/ From(cancelled'[i], kept)
    BY <1>2, <2>1, <2>2, <2>3, ConcatQueue
  <2>5. \A i \in DOMAIN cancelled' : \/ \E k \in DOMAIN cancelled : cancelled'[i] = cancelled[k]
                                     \/ \E k \in DOMAIN kept : cancelled'[i] = kept[k]
    BY <2>4 DEF From
  <2> QED
    BY <1>2, <2>1, <2>2, <2>3, <2>5, ConcatQueue
<1>9. \A r \in D : r.frame => \E k \in DOMAIN requests : r = requests[k]
  BY <1>4, <1>5 DEF FlipInv, Framed
<1>10. /\ DOMAIN frames' = DOMAIN frames
       /\ \A id \in DOMAIN frames :
             frames'[id] = IF \E r \in D : r.id = id /\ r.frame
                           THEN IF frames[id] = "held" THEN "discarded" ELSE "twice"
                           ELSE frames[id]
  BY <1>1 DEF Discard
<1>11. \A id \in DOMAIN frames : (\E r \in D : r.id = id /\ r.frame) => frames[id] = "held"
  BY <1>9 DEF FlipInv, HeldExact
<1>12. frames' \in Seq({"none", "held", "shown", "discarded"}) /\ Len(frames') = Len(frames)
  <2>1. /\ Len(frames) \in Nat /\ DOMAIN frames = 1 .. Len(frames)
        /\ \A id \in DOMAIN frames : frames[id] \in {"none", "held", "shown", "discarded"}
    BY ElementOfSeq DEF FlipInv, FlipTypeOK
  <2>2. \A id \in 1 .. Len(frames) : frames'[id] \in {"none", "held", "shown", "discarded"}
    BY <1>10, <1>11, <2>1
  <2>3. frames' = [id \in 1 .. Len(frames) |-> frames'[id]]
    BY <1>1, <2>1 DEF Discard
  <2>4. [id \in 1 .. Len(frames) |-> frames'[id]] \in Seq({"none", "held", "shown", "discarded"})
    BY <2>1, <2>2, IsASeq
  <2>5. frames' \in Seq({"none", "held", "shown", "discarded"})
    BY <2>3, <2>4
  <2>6. Len(frames') \in Nat /\ DOMAIN frames' = 1 .. Len(frames')
    BY <2>5
  <2> QED
    BY <1>10, <2>1, <2>5, <2>6
<1>13. OnePlace' /\ Uncompleted' = Uncompleted /\ Unclaimed' = Unclaimed
  BY <1>1, <1>12, PlacesStay
<1>14. /\ DOMAIN requests' = {} /\ DOMAIN cpuRequests' = {}
       /\ requests' \in Seq(FlipRequest) /\ cpuRequests' \in Seq(FlipRequest)
  BY <1>1, EmptySeq
<1>15. FlipTypeOK'
  BY <1>1, <1>8, <1>12, <1>14 DEF FlipInv, FlipTypeOK
<1>16. IdsExact'
  <2>1. Numbered(cancelled)'
    <3>1. \A k \in DOMAIN all : all[k].id <= Len(frames)
      BY <1>4 DEF FlipInv, IdsExact, Numbered
    <3> QED
      BY <1>6, <1>8, <1>12, <3>1 DEF FlipInv, IdsExact, Numbered
  <2> QED
    BY <1>8, <1>14, <2>1 DEF IdsExact, DistinctIds, Apart, Numbered
<1>17. PortLife' /\ PresentFront' /\ CountsExact'
  BY <1>1, <1>3 DEF FlipInv, PortLife, PresentFront, CountsExact
<1>18. Progress'
  <2>1. Settled(cancelled)'
    <3>1. \A i \in DOMAIN kept : InPreparation(kept[i])
      BY <1>5, <1>6
    <3>2. \A i \in DOMAIN cancelled' : ~InPreparation(cancelled'[i]) => cancelled'[i].id \notin Uncompleted
      BY <1>8, <3>1 DEF FlipInv, Progress, Settled
    <3> QED
      BY <1>13, <3>2 DEF Settled, InPreparation
  <2> QED
    BY <1>14, <2>1 DEF Progress, Settled
<1>19. Claims' /\ Framed'
  BY <1>1, <1>14 DEF FlipInv, Claims, Framed
<1>20. HeldExact'
  <2> SUFFICES ASSUME NEW id \in DOMAIN frames
               PROVE  frames'[id] = "held" <=>
                          \E i \in DOMAIN cancelled' : cancelled'[i].id = id /\ cancelled'[i].frame
    BY <1>10, <1>14 DEF HeldExact
  <2>1. ASSUME frames'[id] = "held"
        PROVE  \E i \in DOMAIN cancelled' : cancelled'[i].id = id /\ cancelled'[i].frame
    <3>1. frames[id] = "held" /\ ~\E r \in D : r.id = id /\ r.frame
      BY <1>10, <2>1
    <3>2. CASE \E i \in DOMAIN cancelled : cancelled[i].id = id /\ cancelled[i].frame
      BY <1>8, <3>2
    <3>3. CASE \E i \in DOMAIN requests : requests[i].id = id /\ requests[i].frame
      <4>1. PICK k \in DOMAIN all : all[k].id = id /\ all[k].frame
        BY <1>4, <3>3
      <4>2. all[k] \in A
        BY <1>5, <3>1, <4>1
      <4>3. PICK i \in DOMAIN kept : kept[i] = all[k]
        BY <1>6, <4>2
      <4>4. PICK j \in DOMAIN cancelled' : cancelled'[j] = kept[i]
        BY <1>8
      <4> QED
        BY <4>1, <4>3, <4>4
    <3> QED
      BY <3>1, <3>2, <3>3 DEF FlipInv, HeldExact
  <2>2. ASSUME NEW i \in DOMAIN cancelled', cancelled'[i].id = id, cancelled'[i].frame
        PROVE  frames'[id] = "held"
    <3>1. ASSUME NEW k \in DOMAIN cancelled, cancelled'[i] = cancelled[k] PROVE frames'[id] = "held"
      <4>1. frames[id] = "held"
        BY <2>2, <3>1 DEF FlipInv, HeldExact
      <4>2. ~\E r \in D : r.id = id
        BY <1>5, <1>7, <2>2, <3>1
      <4> QED
        BY <1>10, <4>1, <4>2
    <3>2. ASSUME NEW k \in DOMAIN kept, cancelled'[i] = kept[k] PROVE frames'[id] = "held"
      <4>1. PICK l \in DOMAIN all : kept[k] = all[l] /\ InPreparation(all[l])
        BY <1>5, <1>6
      <4>2. all[l].id = id /\ all[l].frame
        BY <2>2, <3>2, <4>1
      <4>3. \E j \in DOMAIN requests : all[l] = requests[j]
        BY <1>4, <4>2 DEF FlipInv, Framed
      <4>4. frames[id] = "held"
        BY <4>2, <4>3 DEF FlipInv, HeldExact
      <4>5. ~\E r \in D : r.id = id
        BY <1>4, <1>5, <4>1, <4>2 DEF DistinctIds
      <4> QED
        BY <1>10, <4>4, <4>5
    <3> QED
      BY <1>8, <3>1, <3>2
  <2> QED
    BY <2>1, <2>2
<1> QED
  BY <1>13, <1>15, <1>16, <1>17, <1>18, <1>19, <1>20 DEF FlipInv

-----------------------------------------------------------------------------
(* FlipQueue::Reserve, for a guest thread and for the GPU thread.            *)

\* The new request, and the number that no other request has.
LEMMA ReserveFacts ==
    ASSUME FlipInv, NEW source \in {"GpuEop", "Cpu"}, NEW index \in Indices, Reserve(source, index),
           NEW r, r = Request(source, index), port.opened
    PROVE  /\ r \in FlipRequest /\ r.id = NextId /\ r.state = "Reserved" /\ r.frame = FALSE
           /\ r.claim = 0 /\ r.source = source /\ r.generation = port.generation
           /\ NextId = Len(frames) + 1 /\ NextId \in Nat \ {0}
           /\ frames' \in Seq({"none", "held", "shown", "discarded"})
           /\ Len(frames) \in Nat /\ Len(frames') = Len(frames) + 1
           /\ DOMAIN frames' = DOMAIN frames \union {NextId} /\ NextId \notin DOMAIN frames
           /\ \A id \in DOMAIN frames : frames'[id] = frames[id]
           /\ frames'[NextId] = "none"
           /\ \A i \in DOMAIN requests : requests[i].id # NextId /\ requests[i].id <= Len(frames')
           /\ \A i \in DOMAIN cpuRequests : cpuRequests[i].id # NextId /\ cpuRequests[i].id <= Len(frames')
           /\ \A i \in DOMAIN cancelled : cancelled[i].id # NextId /\ cancelled[i].id <= Len(frames')
           /\ NumRequests \in Nat
           /\ port' \in PortState /\ port'.opened /\ port'.closing = port.closing
           /\ port'.generation = port.generation /\ port'.flipPending = NumRequests + 1
           /\ port'.gcQueue = IF source = "GpuEop" THEN port.gcQueue + 1 ELSE port.gcQueue
<1>1. /\ frames \in Seq({"none", "held", "shown", "discarded"}) /\ Len(frames) \in Nat
      /\ DOMAIN frames = 1 .. Len(frames) /\ NextId = Len(frames) + 1
  BY DEF FlipInv, FlipTypeOK, NextId
<1>2. frames' = Append(frames, "none")
  BY DEF Reserve
<1>3. /\ frames' \in Seq({"none", "held", "shown", "discarded"}) /\ Len(frames') = Len(frames) + 1
      /\ DOMAIN frames' = DOMAIN frames \union {NextId} /\ NextId \notin DOMAIN frames
      /\ \A id \in DOMAIN frames : frames'[id] = frames[id]
      /\ frames'[NextId] = "none"
  BY <1>1, <1>2, AppendFacts
<1>4. port \in PortState /\ port.gcQueue \in Nat /\ port.generation \in Nat
  BY DEF FlipInv, FlipTypeOK, PortState
<1>5. /\ r \in FlipRequest /\ r.id = NextId /\ r.state = "Reserved" /\ r.frame = FALSE
      /\ r.claim = 0 /\ r.source = source /\ r.generation = port.generation
  BY <1>1, <1>4 DEF Request, FlipRequest
<1>6. NumRequests \in Nat
  BY QueueElements DEF NumRequests, FlipInv, FlipTypeOK
<1>7. /\ port' \in PortState /\ port'.opened /\ port'.closing = port.closing
      /\ port'.generation = port.generation /\ port'.flipPending = NumRequests + 1
      /\ port'.gcQueue = IF source = "GpuEop" THEN port.gcQueue + 1 ELSE port.gcQueue
  <2>0. /\ NumRequests + 1 \in Nat
        /\ (IF source = "GpuEop" THEN port.gcQueue + 1 ELSE port.gcQueue) \in Nat
    BY <1>4, <1>6
  <2>1. PICK n \in Nat, g \in Nat :
            n = NumRequests + 1 /\ g = IF source = "GpuEop" THEN port.gcQueue + 1 ELSE port.gcQueue
    BY <2>0
  <2>2. port' = [port EXCEPT !.flipPending = n, !.gcQueue = g]
    BY <2>1 DEF Reserve
  <2> QED
    BY <1>4, <2>1, <2>2 DEF PortState
<1>8. /\ \A i \in DOMAIN requests : requests[i].id \in Nat /\ requests[i].id <= Len(frames)
      /\ \A i \in DOMAIN cpuRequests : cpuRequests[i].id \in Nat /\ cpuRequests[i].id <= Len(frames)
      /\ \A i \in DOMAIN cancelled : cancelled[i].id \in Nat /\ cancelled[i].id <= Len(frames)
  BY QueueElements, RequestFields DEF FlipInv, FlipTypeOK, IdsExact, Numbered
<1>9. /\ \A i \in DOMAIN requests : requests[i].id # NextId /\ requests[i].id <= Len(frames')
      /\ \A i \in DOMAIN cpuRequests : cpuRequests[i].id # NextId /\ cpuRequests[i].id <= Len(frames')
      /\ \A i \in DOMAIN cancelled : cancelled[i].id # NextId /\ cancelled[i].id <= Len(frames')
  BY <1>1, <1>3, <1>8
<1> QED
  BY <1>1, <1>3, <1>5, <1>6, <1>7, <1>9

\* The places of the other requests have other numbers.
LEMMA ReservePlaces ==
    ASSUME FlipInv, Len(frames') = Len(frames) + 1
    PROVE  /\ \A i \in DOMAIN preparations : preparations[i] # NextId /\ preparations[i] <= Len(frames')
           /\ \A i \in DOMAIN completes : ops[i].runs = 0 =>
                 completes[i] # NextId /\ completes[i] <= Len(frames')
           /\ guest.id # NextId /\ guest.id <= Len(frames')
           /\ GpuHolds => gpu.id # NextId /\ gpu.id <= Len(frames')
           /\ NextId <= Len(frames')
<1>1. Len(frames) \in Nat
  BY DEF FlipInv, FlipTypeOK
<1>2. \A i \in DOMAIN preparations : preparations[i] \in Nat /\ preparations[i] <= Len(frames)
  BY ElementOfSeq DEF FlipInv, FlipTypeOK, OnePlace
<1>3. \A i \in DOMAIN completes : completes[i] \in Nat /\ (ops[i].runs = 0 => completes[i] <= Len(frames))
  BY ElementOfSeq DEF FlipInv, FlipTypeOK, OnePlace
<1>4. guest.id \in Nat /\ guest.id <= Len(frames)
  BY DEF FlipInv, FlipTypeOK, GuestState, OnePlace
<1>5. GpuHolds => gpu.id \in Nat /\ gpu.id <= Len(frames)
  BY GpuPlaces DEF FlipInv, FlipTypeOK, GpuHolds, OnePlace
<1> QED
  BY <1>1, <1>2, <1>3, <1>4, <1>5 DEF NextId

\* A guest thread reserves a flip.
LEMMA SubmitReserveKeeps ==
    ASSUME FlipInv, NEW index \in Indices, SubmitFlipReserve(index), UNCHANGED <<gpu, preparations, completes, ops>>
    PROVE  FlipInv'
<1> DEFINE r == Request("Cpu", index)
<1>1. /\ cpuRequests' = Append(cpuRequests, r) /\ Reserve("Cpu", index)
      /\ UNCHANGED <<requests, cancelled, processing, present, closer, prepared, shown>>
      /\ guest' = [guest EXCEPT !.id = NextId] /\ guest.call = "SubmitFlip" /\ guest.id = 0
  BY DEF SubmitFlipReserve, Reserve
<1>2. port.opened /\ ~port.closing
  BY <1>1 DEF FlipInv, PortLife, NoCall, Reserve
<1> HIDE DEF r
<1>3. /\ r \in FlipRequest /\ r.id = NextId /\ r.state = "Reserved" /\ r.frame = FALSE
      /\ r.claim = 0 /\ r.source = "Cpu" /\ r.generation = port.generation
      /\ NextId = Len(frames) + 1 /\ NextId \in Nat \ {0}
      /\ frames' \in Seq({"none", "held", "shown", "discarded"})
      /\ Len(frames) \in Nat /\ Len(frames') = Len(frames) + 1
      /\ DOMAIN frames' = DOMAIN frames \union {NextId} /\ NextId \notin DOMAIN frames
      /\ \A id \in DOMAIN frames : frames'[id] = frames[id]
      /\ frames'[NextId] = "none"
  BY <1>1, <1>2, ReserveFacts, ZenonT(60) DEF r
<1>4. /\ \A i \in DOMAIN requests : requests[i].id # NextId /\ requests[i].id <= Len(frames')
      /\ \A i \in DOMAIN cpuRequests : cpuRequests[i].id # NextId /\ cpuRequests[i].id <= Len(frames')
      /\ \A i \in DOMAIN cancelled : cancelled[i].id # NextId /\ cancelled[i].id <= Len(frames')
  BY <1>1, <1>2, ReserveFacts, ZenonT(60) DEF r
<1>5. /\ NumRequests \in Nat
      /\ port' \in PortState /\ port'.opened /\ port'.closing = port.closing
      /\ port'.generation = port.generation /\ port'.flipPending = NumRequests + 1
      /\ port'.gcQueue = port.gcQueue
  BY <1>1, <1>2, ReserveFacts, ZenonT(60) DEF r
<1>6. /\ cpuRequests' \in Seq(FlipRequest) /\ Len(cpuRequests') = Len(cpuRequests) + 1
      /\ \A i \in DOMAIN cpuRequests' : \/ i \in DOMAIN cpuRequests /\ cpuRequests'[i] = cpuRequests[i]
                                        \/ i = Len(cpuRequests) + 1 /\ cpuRequests'[i] = r
      /\ Len(cpuRequests) \in Nat
  <2>1. cpuRequests \in Seq(FlipRequest)
    BY DEF FlipInv, FlipTypeOK
  <2> QED
    BY <1>1, <1>3, <2>1, AppendFacts
<1>7. guest' \in GuestState /\ guest'.id = NextId
  BY <1>1, <1>3 DEF FlipInv, FlipTypeOK, GuestState
<1>8. FlipTypeOK'
  BY <1>1, <1>3, <1>5, <1>6, <1>7 DEF FlipInv, FlipTypeOK
<1>9. IdsExact'
  <2>1. DistinctIds(cpuRequests')
    BY <1>3, <1>4, <1>6 DEF FlipInv, IdsExact, DistinctIds
  <2>2. Apart(requests, cpuRequests') /\ Apart(cpuRequests', cancelled)
    BY <1>3, <1>4, <1>6 DEF FlipInv, IdsExact, Apart
  <2>3. \A i \in DOMAIN cpuRequests' : cpuRequests'[i].id <= Len(frames')
    BY <1>3, <1>4, <1>6
  <2> QED
    BY <1>1, <1>4, <2>1, <2>2, <2>3 DEF FlipInv, IdsExact, DistinctIds, Apart, Numbered
<1>10. PortLife' /\ PresentFront'
  BY <1>1, <1>2, <1>3, <1>5, <1>6 DEF FlipInv, PortLife, PresentFront, PortCurrent
<1>11. /\ \A i \in DOMAIN preparations : preparations[i] # NextId /\ preparations[i] <= Len(frames')
       /\ \A i \in DOMAIN completes : ops[i].runs = 0 => completes[i] # NextId /\ completes[i] <= Len(frames')
       /\ GpuHolds => gpu.id # NextId /\ gpu.id <= Len(frames')
       /\ NextId <= Len(frames')
  BY <1>3, ReservePlaces
<1>12. OnePlace'
  <2>1. GpuHolds' = GpuHolds
    BY DEF GpuHolds
  <2> QED
    BY <1>7, <1>11, <2>1 DEF FlipInv, OnePlace
<1>13. Uncompleted' \subseteq Uncompleted \union {NextId} /\ Unclaimed' \subseteq Unclaimed \union {NextId}
  BY <1>1, <1>7 DEF Uncompleted, Unclaimed, GpuHolds
<1>14. Progress'
  <2>1. Settled(requests)' /\ Settled(cancelled)'
    BY <1>1, <1>4, <1>13 DEF FlipInv, Progress, Settled, InPreparation
  <2>2. Settled(cpuRequests)'
    BY <1>3, <1>4, <1>6, <1>13 DEF FlipInv, Progress, Settled, InPreparation
  <2> QED
    BY <1>1, <1>4, <1>13, <2>1, <2>2 DEF FlipInv, Progress
<1>15. Claims' /\ Framed'
  BY <1>1, <1>2, <1>3, <1>5, <1>6 DEF FlipInv, Claims, Framed
<1>16. HeldExact'
  BY <1>1, <1>3, <1>4 DEF FlipInv, HeldExact
<1>17. CountsExact'
  <2>1. NumRequests' = NumRequests + 1 /\ EopIndices' = EopIndices
    BY <1>1, <1>6, QueueElements DEF NumRequests, EopIndices, FlipInv, FlipTypeOK
  <2> QED
    BY <1>2, <1>5, <2>1 DEF FlipInv, CountsExact
<1> QED
  BY <1>8, <1>9, <1>10, <1>12, <1>14, <1>15, <1>16, <1>17 DEF FlipInv

\* The GPU thread reserves a flip of the command stream.
LEMMA GpuReserveKeeps ==
    ASSUME FlipInv, NEW index \in Indices, GpuFlipReserve(index)
    PROVE  FlipInv'
<1> DEFINE r == Request("GpuEop", index)
<1>1. /\ requests' = Append(requests, r) /\ Reserve("GpuEop", index)
      /\ UNCHANGED <<cpuRequests, cancelled, processing, present, closer, prepared, shown, guest,
                     preparations, completes, ops>>
      /\ gpu' = [pc |-> "claim", id |-> NextId, source |-> "GpuEop"] /\ gpu.pc \in {"idle", "retry"}
  BY DEF GpuFlipReserve, Reserve, GpuAt, schedulerVars
<1>2. port.opened /\ ~port.closing /\ present.pc # "present"
  BY DEF GpuFlipReserve, PortFound, Reserve, PortMutexFree
<1> HIDE DEF r
<1>3. /\ r \in FlipRequest /\ r.id = NextId /\ r.state = "Reserved" /\ r.frame = FALSE
      /\ r.claim = 0 /\ r.source = "GpuEop" /\ r.generation = port.generation
      /\ NextId = Len(frames) + 1 /\ NextId \in Nat \ {0}
      /\ frames' \in Seq({"none", "held", "shown", "discarded"})
      /\ Len(frames) \in Nat /\ Len(frames') = Len(frames) + 1
      /\ DOMAIN frames' = DOMAIN frames \union {NextId} /\ NextId \notin DOMAIN frames
      /\ \A id \in DOMAIN frames : frames'[id] = frames[id]
      /\ frames'[NextId] = "none"
  BY <1>1, <1>2, ReserveFacts, ZenonT(60) DEF r
<1>4. /\ \A i \in DOMAIN requests : requests[i].id # NextId /\ requests[i].id <= Len(frames')
      /\ \A i \in DOMAIN cpuRequests : cpuRequests[i].id # NextId /\ cpuRequests[i].id <= Len(frames')
      /\ \A i \in DOMAIN cancelled : cancelled[i].id # NextId /\ cancelled[i].id <= Len(frames')
  BY <1>1, <1>2, ReserveFacts, ZenonT(60) DEF r
<1>5. /\ NumRequests \in Nat
      /\ port' \in PortState /\ port'.opened /\ port'.closing = port.closing
      /\ port'.generation = port.generation /\ port'.flipPending = NumRequests + 1
      /\ port'.gcQueue = port.gcQueue + 1
  BY <1>1, <1>2, ReserveFacts, ZenonT(60) DEF r
<1>6. /\ requests' \in Seq(FlipRequest) /\ Len(requests') = Len(requests) + 1
      /\ \A i \in DOMAIN requests' : \/ i \in DOMAIN requests /\ requests'[i] = requests[i]
                                     \/ i = Len(requests) + 1 /\ requests'[i] = r
      /\ \A i \in DOMAIN requests : i \in DOMAIN requests' /\ requests'[i] = requests[i]
      /\ Len(requests) \in Nat /\ DOMAIN requests = 1 .. Len(requests)
      /\ Len(requests) + 1 \in DOMAIN requests' /\ requests'[Len(requests) + 1] = r
  <2>1. requests \in Seq(FlipRequest)
    BY DEF FlipInv, FlipTypeOK
  <2> QED
    BY <1>1, <1>3, <2>1, AppendFacts
<1>7. gpu' \in GpuPlace /\ gpu'.pc = "claim" /\ gpu'.id = NextId /\ gpu'.source = "GpuEop"
  BY <1>1, <1>3 DEF GpuPlace, Working
<1>8. FlipTypeOK'
  BY <1>1, <1>3, <1>5, <1>6, <1>7 DEF FlipInv, FlipTypeOK
<1>9. IdsExact'
  <2>1. DistinctIds(requests')
    BY <1>3, <1>4, <1>6 DEF FlipInv, IdsExact, DistinctIds
  <2>2. Apart(requests', cpuRequests) /\ Apart(requests', cancelled)
    BY <1>3, <1>4, <1>6 DEF FlipInv, IdsExact, Apart
  <2>3. \A i \in DOMAIN requests' : requests'[i].id <= Len(frames')
    BY <1>3, <1>4, <1>6
  <2> QED
    BY <1>1, <1>4, <2>1, <2>2, <2>3 DEF FlipInv, IdsExact, DistinctIds, Apart, Numbered
<1>10. PortLife'
  BY <1>1, <1>2, <1>3, <1>5, <1>6 DEF FlipInv, PortLife
<1>11. PresentFront'
  BY <1>1, <1>2, <1>6 DEF FlipInv, PresentFront
<1>12. /\ \A i \in DOMAIN preparations : preparations[i] # NextId /\ preparations[i] <= Len(frames')
       /\ \A i \in DOMAIN completes : ops[i].runs = 0 => completes[i] # NextId /\ completes[i] <= Len(frames')
       /\ guest.id # NextId /\ guest.id <= Len(frames')
       /\ NextId <= Len(frames')
  BY <1>3, ReservePlaces
<1>13. ~GpuHolds /\ GpuHolds'
  BY <1>1, <1>7 DEF GpuHolds, Working
<1>14. OnePlace'
  BY <1>1, <1>7, <1>12, <1>13 DEF FlipInv, OnePlace
<1>15. Uncompleted' \subseteq Uncompleted \union {NextId} /\ Unclaimed' \subseteq Unclaimed \union {NextId}
  BY <1>1, <1>7 DEF Uncompleted, Unclaimed, GpuHolds
<1>16. Progress'
  <2>1. Settled(cpuRequests)' /\ Settled(cancelled)'
    BY <1>1, <1>4, <1>15 DEF FlipInv, Progress, Settled, InPreparation
  <2>2. Settled(requests)'
    BY <1>3, <1>4, <1>6, <1>15 DEF FlipInv, Progress, Settled, InPreparation
  <2>3. \A i \in DOMAIN requests' : requests'[i].state = "Recording" => requests'[i].id \notin Unclaimed'
    BY <1>3, <1>4, <1>6, <1>15 DEF FlipInv, Progress
  <2> QED
    BY <2>1, <2>2, <2>3 DEF Progress
<1>17. Claims'
  <2>1. \A i \in DOMAIN requests : requests[i].state # "Reserved"
    BY <1>1 DEF FlipInv, Claims
  <2>2. prepared \in Nat
    BY DEF FlipInv, FlipTypeOK
  <2>3. \A i \in DOMAIN requests' :
            /\ requests'[i].claim <= prepared
            /\ requests'[i].state # "Reserved" => requests'[i].claim > shown
            /\ requests'[i].state = "Reserved" =>
                  i = Len(requests') /\ gpu'.pc = "claim" /\ gpu'.id = requests'[i].id
    BY <1>3, <1>6, <1>7, <2>1, <2>2 DEF FlipInv, Claims
  <2>4. ASSUME NEW i \in DOMAIN requests', NEW j \in DOMAIN requests', i < j, requests'[j].state # "Reserved"
        PROVE  requests'[i].claim < requests'[j].claim
    <3>1. j \in DOMAIN requests /\ requests'[j] = requests[j]
      BY <1>3, <1>6, <2>4
    <3>2. i \in DOMAIN requests /\ requests'[i] = requests[i]
      BY <1>6, <2>4, <3>1
    <3> QED
      BY <2>4, <3>1, <3>2 DEF FlipInv, Claims
  <2> QED
    BY <1>1, <2>3, <2>4 DEF FlipInv, Claims
<1>18. Framed'
  BY <1>1, <1>3, <1>6, <1>7, SMTT(30) DEF FlipInv, Framed
<1>19. HeldExact'
  <2> SUFFICES ASSUME NEW id \in DOMAIN frames'
               PROVE  frames'[id] = "held" <=>
                          \/ \E i \in DOMAIN requests' : requests'[i].id = id /\ requests'[i].frame
                          \/ \E i \in DOMAIN cancelled : cancelled[i].id = id /\ cancelled[i].frame
    BY <1>1 DEF HeldExact
  <2>1. (\E i \in DOMAIN requests' : requests'[i].id = id /\ requests'[i].frame)
            <=> (\E i \in DOMAIN requests : requests[i].id = id /\ requests[i].frame)
    BY <1>3, <1>6
  <2>2. CASE id = NextId
    BY <1>3, <1>4, <2>1, <2>2
  <2>3. CASE id \in DOMAIN frames
    BY <1>3, <2>1, <2>3 DEF FlipInv, HeldExact
  <2> QED
    BY <1>3, <2>2, <2>3
<1>20. CountsExact'
  <2>1. NumRequests' = NumRequests + 1
    BY <1>1, <1>6, QueueElements DEF NumRequests, FlipInv, FlipTypeOK
  <2>2. EopIndices' = EopIndices \union {Len(requests) + 1} /\ Len(requests) + 1 \notin EopIndices
    BY <1>3, <1>6 DEF EopIndices
  <2>3. IsFiniteSet(EopIndices)
    BY EopFinite DEF EopIndices, EopOf, FlipInv, FlipTypeOK
  <2>4. Cardinality(EopIndices') = Cardinality(EopIndices) + 1
    BY <2>2, <2>3, FS_AddElement
  <2> QED
    BY <1>2, <1>5, <2>1, <2>4 DEF FlipInv, CountsExact
<1> QED
  BY <1>8, <1>9, <1>10, <1>11, <1>14, <1>16, <1>17, <1>18, <1>19, <1>20 DEF FlipInv

-----------------------------------------------------------------------------
(* FlipQueue::Prepare.                                                       *)

\* What the claim does to the places, whichever queue the request is in.
LEMMA ClaimPlaces ==
    ASSUME FlipInv, GpuClaims
    PROVE  /\ gpu.pc = "claim" /\ gpu.id \in Nat \ {0} /\ prepared' = prepared + 1
           /\ UNCHANGED <<port, processing, present, closer, guest, frames, shown, preparations, completes, ops>>
           /\ gpu' \in GpuPlace /\ gpu'.id = gpu.id
           /\ gpu'.pc = IF Has(cancelled, gpu.id) THEN "signal" ELSE "check"
           /\ OnePlace' /\ Uncompleted' = Uncompleted
           /\ Unclaimed' \subseteq Unclaimed /\ gpu.id \notin Unclaimed' /\ gpu.id \in Unclaimed
           /\ gpu.id \in Uncompleted
<1>1. /\ gpu.pc = "claim" /\ prepared' = prepared + 1
      /\ UNCHANGED <<port, processing, present, closer, guest, frames, shown, preparations, completes, ops>>
  BY DEF GpuClaims, PrepareClaim, schedulerVars
<1> DEFINE next == IF Has(cancelled, gpu.id) THEN "signal" ELSE "check"
<1>2. gpu' = [gpu EXCEPT !.pc = next] /\ next \in {"signal", "check"}
  BY DEF GpuClaims
<1>3. gpu \in [pc : Working, id : Nat \ {0}, source : {"GpuEop", "Cpu"}]
  BY <1>1, GpuPlaces DEF FlipInv, FlipTypeOK, Working
<1>4. gpu' \in GpuPlace /\ gpu'.id = gpu.id /\ gpu'.pc = next /\ gpu'.source = gpu.source /\ gpu.id \in Nat \ {0}
  <2> HIDE DEF next
  <2> QED
    BY <1>2, <1>3 DEF GpuPlace, Working
<1>5. GpuHolds /\ GpuHolds'
  BY <1>1, <1>2, <1>4 DEF GpuHolds, Working
<1>6. OnePlace'
  BY <1>1, <1>2, <1>4, <1>5 DEF FlipInv, OnePlace
<1>7. Uncompleted' = Uncompleted /\ gpu.id \in Uncompleted
  BY <1>1, <1>4, <1>5 DEF Uncompleted
<1>8. Unclaimed' \subseteq Unclaimed /\ gpu.id \in Unclaimed
  BY <1>1, <1>2, <1>4 DEF Unclaimed
<1>9. gpu.id \notin Unclaimed'
  BY <1>1, <1>2, <1>4, <1>5 DEF FlipInv, OnePlace, Unclaimed
<1> QED
  BY <1>1, <1>4, <1>6, <1>7, <1>8, <1>9

\* The request is the last one of m_requests: a flip of the command stream.
LEMMA ClaimRequestKeeps ==
    ASSUME FlipInv, GpuClaims, NEW k \in DOMAIN requests, requests[k].id = gpu.id,
           requests' = Update(requests, [Entry(requests, gpu.id) EXCEPT !.state = "Recording", !.claim = prepared']),
           UNCHANGED <<cpuRequests, cancelled>>
    PROVE  FlipInv'
<1>1. /\ gpu.pc = "claim" /\ gpu.id \in Nat \ {0} /\ prepared' = prepared + 1
      /\ UNCHANGED <<port, processing, present, closer, guest, frames, shown, preparations, completes, ops>>
      /\ gpu' \in GpuPlace /\ gpu'.id = gpu.id
      /\ gpu'.pc = IF Has(cancelled, gpu.id) THEN "signal" ELSE "check"
      /\ OnePlace' /\ Uncompleted' = Uncompleted
      /\ Unclaimed' \subseteq Unclaimed /\ gpu.id \notin Unclaimed' /\ gpu.id \in Unclaimed
      /\ gpu.id \in Uncompleted
  BY ClaimPlaces
<1>2. gpu'.pc = "check"
  BY <1>1 DEF FlipInv, IdsExact, Apart, Has
<1>3. /\ requests \in Seq(FlipRequest) /\ requests[k] \in FlipRequest /\ Len(requests) \in Nat
      /\ DOMAIN requests = 1 .. Len(requests) /\ prepared \in Nat /\ shown \in Nat
      /\ \A i \in DOMAIN requests : requests[i].claim \in Nat
  BY QueueElements, RequestFields DEF FlipInv, FlipTypeOK
<1>4. requests[k].state = "Reserved" /\ k = Len(requests)
  <2>1. requests[k].state \in {"Reserved", "Recording"}
    BY <1>1 DEF FlipInv, Progress, Settled, InPreparation
  <2>2. requests[k].state # "Recording"
    BY <1>1 DEF FlipInv, Progress
  <2> QED
    BY <2>1, <2>2 DEF FlipInv, Claims
<1>4r. PICK r : r = [requests[k] EXCEPT !.state = "Recording", !.claim = prepared + 1]
  OBVIOUS
<1>5. requests' = Update(requests, r)
  <2>1. Entry(requests, gpu.id) = requests[k]
    BY <1>3, EntryAt DEF FlipInv, IdsExact
  <2> QED
    BY <1>1, <1>4r, <2>1
<1>6. /\ r \in FlipRequest /\ r.id = requests[k].id /\ r.generation = requests[k].generation
      /\ r.source = requests[k].source /\ r.state = "Recording" /\ r.frame = requests[k].frame
      /\ r.claim = prepared + 1
  <2>1. PICK n \in Nat : n = prepared + 1
    BY <1>3
  <2>2. PICK q \in FlipRequest : q = requests[k]
    BY <1>3
  <2>3. r = [q EXCEPT !.state = "Recording", !.claim = n]
    BY <1>4r, <2>1, <2>2
  <2>4. /\ r \in FlipRequest /\ r.id = q.id /\ r.generation = q.generation /\ r.source = q.source
        /\ r.state = "Recording" /\ r.frame = q.frame /\ r.claim = n
    BY <2>3 DEF FlipRequest
  <2> QED
    BY <2>1, <2>2, <2>4
<1>7. /\ requests' \in Seq(FlipRequest) /\ Len(requests') = Len(requests)
      /\ DOMAIN requests' = DOMAIN requests /\ requests'[k] = r
      /\ \A i \in DOMAIN requests : i # k => requests'[i] = requests[i]
      /\ \A i \in DOMAIN requests : requests'[i].id = requests[i].id
      /\ IdsExact' /\ PortLife' /\ CountsExact'
  BY <1>1, <1>5, <1>6, UpdateKeeps
<1>8. \A i \in DOMAIN requests : i # k => requests[i].state # "Reserved" /\ requests[i].id # gpu.id
  BY <1>4 DEF FlipInv, Claims, IdsExact, DistinctIds
<1>9. FlipTypeOK'
  BY <1>1, <1>3, <1>7 DEF FlipInv, FlipTypeOK
<1>10. PresentFront'
  <2> SUFFICES ASSUME present.pc \in {"due", "present"} PROVE PresentFront'
    BY <1>1 DEF PresentFront
  <2>1. requests[1].state \in {"Ready", "Presenting"}
    <3>1. CASE present.pc = "due"
      BY <3>1 DEF FlipInv, PresentFront
    <3>2. CASE present.pc # "due"
      <4>1. present.request \in FlipRequest
        BY DEF FlipInv, FlipTypeOK, PresentState
      <4> QED
        BY <3>2, <4>1 DEF FlipInv, PresentFront, FlipRequest
    <3> QED
      BY <3>1, <3>2
  <2>2. k # 1
    BY <1>4, <2>1
  <2>3. 1 \in DOMAIN requests /\ requests'[1] = requests[1]
    BY <1>7, <2>2 DEF FlipInv, PresentFront
  <2> QED
    BY <1>1, <1>7, <2>3 DEF FlipInv, PresentFront, PortCurrent
<1>11. Progress'
  <2>1. Settled(requests)' /\ Settled(cpuRequests)' /\ Settled(cancelled)'
    BY <1>1, <1>6, <1>7 DEF FlipInv, Progress, Settled, InPreparation
  <2>2. \A i \in DOMAIN requests' : requests'[i].state = "Recording" => requests'[i].id \notin Unclaimed'
    BY <1>1, <1>6, <1>7 DEF FlipInv, Progress
  <2> QED
    BY <2>1, <2>2 DEF Progress
<1>12. Claims'
  <2>1. \A i \in DOMAIN requests' :
            /\ requests'[i].claim <= prepared + 1 /\ requests'[i].state # "Reserved"
            /\ requests'[i].claim > shown
    BY <1>3, <1>6, <1>7, <1>8 DEF FlipInv, Claims
  <2>2. ASSUME NEW i \in DOMAIN requests', NEW j \in DOMAIN requests', i < j
        PROVE  requests'[i].claim < requests'[j].claim
    <3>1. i # k /\ requests'[i] = requests[i] /\ requests[i].claim <= prepared
      BY <1>3, <1>4, <1>7, <2>2 DEF FlipInv, Claims
    <3>2. CASE j = k
      BY <1>3, <1>6, <1>7, <3>1, <3>2
    <3>3. CASE j # k
      BY <1>7, <1>8, <2>2, <3>1, <3>3 DEF FlipInv, Claims
    <3> QED
      BY <3>2, <3>3
  <2>3. shown <= prepared + 1
    BY <1>3 DEF FlipInv, Claims
  <2> QED
    BY <1>1, <2>1, <2>2, <2>3 DEF Claims
<1>13. Framed'
  <2>1. \A i \in DOMAIN requests' : requests'[i].frame \/ requests'[i].id = gpu.id
    BY <1>1, <1>7, <1>8 DEF FlipInv, Framed
  <2>2. \A i \in DOMAIN requests' : requests'[i].state # "Reserved"
    BY <1>6, <1>7, <1>8
  <2> QED
    BY <1>1, <1>2, <2>1, <2>2 DEF FlipInv, Framed
<1>14. HeldExact'
  <2>1. \A i \in DOMAIN requests : requests'[i].frame = requests[i].frame
    BY <1>6, <1>7
  <2> QED
    BY <1>1, <1>7, <2>1 DEF FlipInv, HeldExact
<1> QED
  BY <1>1, <1>7, <1>9, <1>10, <1>11, <1>12, <1>13, <1>14 DEF FlipInv

\* The port was closed before the claim.
LEMMA ClaimCancelledKeeps ==
    ASSUME FlipInv, GpuClaims, NEW k \in DOMAIN cancelled, cancelled[k].id = gpu.id,
           cancelled' = Update(cancelled, [Entry(cancelled, gpu.id) EXCEPT !.state = "Recording", !.claim = prepared']),
           UNCHANGED <<requests, cpuRequests>>
    PROVE  FlipInv'
<1>1. /\ gpu.pc = "claim" /\ gpu.id \in Nat \ {0} /\ prepared' = prepared + 1
      /\ UNCHANGED <<port, processing, present, closer, guest, frames, shown, preparations, completes, ops>>
      /\ gpu' \in GpuPlace /\ gpu'.id = gpu.id
      /\ gpu'.pc = IF Has(cancelled, gpu.id) THEN "signal" ELSE "check"
      /\ OnePlace' /\ Uncompleted' = Uncompleted
      /\ Unclaimed' \subseteq Unclaimed /\ gpu.id \notin Unclaimed' /\ gpu.id \in Unclaimed
      /\ gpu.id \in Uncompleted
  BY ClaimPlaces
<1>2. gpu'.pc = "signal"
  BY <1>1 DEF Has
<1>3. /\ cancelled \in Seq(FlipRequest) /\ cancelled[k] \in FlipRequest /\ prepared \in Nat /\ shown \in Nat
      /\ \A i \in DOMAIN requests : requests[i].claim \in Nat
  BY QueueElements, RequestFields DEF FlipInv, FlipTypeOK
<1>4r. PICK r : r = [cancelled[k] EXCEPT !.state = "Recording", !.claim = prepared + 1]
  OBVIOUS
<1>5. cancelled' = Update(cancelled, r)
  <2>1. Entry(cancelled, gpu.id) = cancelled[k]
    BY <1>3, EntryAt DEF FlipInv, IdsExact
  <2> QED
    BY <1>1, <1>4r, <2>1
<1>6. /\ r \in FlipRequest /\ r.id = cancelled[k].id /\ r.state = "Recording" /\ r.frame = cancelled[k].frame
  <2>1. PICK n \in Nat : n = prepared + 1
    BY <1>3
  <2>2. PICK q \in FlipRequest : q = cancelled[k]
    BY <1>3
  <2>3. r = [q EXCEPT !.state = "Recording", !.claim = n]
    BY <1>4r, <2>1, <2>2
  <2>4. /\ r \in FlipRequest /\ r.id = q.id /\ r.generation = q.generation /\ r.source = q.source
        /\ r.state = "Recording" /\ r.frame = q.frame /\ r.claim = n
    BY <2>3 DEF FlipRequest
  <2> QED
    BY <2>1, <2>2, <2>4
<1>7. /\ cancelled' \in Seq(FlipRequest) /\ DOMAIN cancelled' = DOMAIN cancelled /\ cancelled'[k] = r
      /\ \A i \in DOMAIN cancelled : i # k => cancelled'[i] = cancelled[i]
      /\ \A i \in DOMAIN cancelled : cancelled'[i].id = cancelled[i].id
  BY <1>3, <1>5, <1>6, UpdateAt DEF FlipInv, IdsExact
<1>8. FlipTypeOK' /\ IdsExact'
  <2>1. FlipTypeOK'
    BY <1>1, <1>3, <1>7 DEF FlipInv, FlipTypeOK
  <2>2. IdsExact'
    BY <1>1, <1>7 DEF FlipInv, IdsExact, DistinctIds, Apart, Numbered
  <2> QED
    BY <2>1, <2>2
<1>9. PortLife' /\ PresentFront' /\ CountsExact'
  BY <1>1 DEF FlipInv, PortLife, PresentFront, PortCurrent, CountsExact, NumRequests, EopIndices
<1>10. Progress'
  BY <1>1, <1>6, <1>7 DEF FlipInv, Progress, Settled, InPreparation
<1>11. \A i \in DOMAIN requests : requests[i].state # "Reserved" /\ requests[i].frame
  BY <1>1 DEF FlipInv, Claims, Framed, IdsExact, Apart
<1>12. Claims'
  BY <1>1, <1>3, <1>11 DEF FlipInv, Claims
<1>13. Framed'
  BY <1>1, <1>2, <1>11 DEF FlipInv, Framed
<1>14. HeldExact'
  <2>1. \A i \in DOMAIN cancelled : cancelled'[i].frame = cancelled[i].frame
    BY <1>6, <1>7
  <2>2. \A id : (\E i \in DOMAIN cancelled' : cancelled'[i].id = id /\ cancelled'[i].frame)
                   <=> (\E i \in DOMAIN cancelled : cancelled[i].id = id /\ cancelled[i].frame)
    BY <1>7, <2>1
  <2> QED
    BY <1>1, <2>2 DEF FlipInv, HeldExact
<1> QED
  BY <1>1, <1>8, <1>9, <1>10, <1>12, <1>13, <1>14 DEF FlipInv

\* A flip of a guest thread joins m_requests.
ClaimsCpu(k) ==
    /\ requests' = Append(requests, [Entry(cpuRequests, gpu.id) EXCEPT !.state = "Recording", !.claim = prepared'])
    /\ cpuRequests' = Without(cpuRequests, cpuRequests[k].id)

\* It is the last of the queue, and its claim the highest so far.
LEMMA ClaimCpuKeeps ==
    ASSUME FlipInv, GpuClaims, NEW k \in DOMAIN cpuRequests, cpuRequests[k].id = gpu.id,
           ClaimsCpu(k), UNCHANGED cancelled
    PROVE  FlipInv'
<1>1. /\ gpu.pc = "claim" /\ gpu.id \in Nat \ {0} /\ prepared' = prepared + 1
      /\ UNCHANGED <<port, processing, present, closer, guest, frames, shown, preparations, completes, ops>>
      /\ gpu' \in GpuPlace /\ gpu'.id = gpu.id
      /\ gpu'.pc = IF Has(cancelled, gpu.id) THEN "signal" ELSE "check"
      /\ OnePlace' /\ Uncompleted' = Uncompleted
      /\ Unclaimed' \subseteq Unclaimed /\ gpu.id \notin Unclaimed' /\ gpu.id \in Unclaimed
      /\ gpu.id \in Uncompleted
  BY ClaimPlaces
<1>2. gpu'.pc = "check"
  BY <1>1 DEF FlipInv, IdsExact, Apart, Has
<1>3. /\ requests \in Seq(FlipRequest) /\ cpuRequests \in Seq(FlipRequest) /\ DistinctIds(cpuRequests)
      /\ cpuRequests[k] \in FlipRequest
      /\ Len(requests) \in Nat /\ DOMAIN requests = 1 .. Len(requests) /\ Len(cpuRequests) \in Nat
      /\ prepared \in Nat /\ shown \in Nat
      /\ \A i \in DOMAIN requests : requests[i].claim \in Nat
  BY QueueElements, RequestFields DEF FlipInv, FlipTypeOK, IdsExact
<1>4. PICK r : r = [cpuRequests[k] EXCEPT !.state = "Recording", !.claim = prepared + 1]
  OBVIOUS
<1>5. requests' = Append(requests, r)
  <2>1. Entry(cpuRequests, gpu.id) = cpuRequests[k]
    BY <1>3, EntryAt
  <2> QED
    BY <1>1, <1>4, <2>1 DEF ClaimsCpu
<1>6. /\ r \in FlipRequest /\ r.id = gpu.id /\ r.generation = cpuRequests[k].generation
      /\ r.source = "Cpu" /\ r.state = "Recording" /\ ~r.frame /\ r.claim = prepared + 1
  <2>1. PICK n \in Nat : n = prepared + 1
    BY <1>3
  <2>2. PICK q \in FlipRequest : q = cpuRequests[k]
    BY <1>3
  <2>3. r = [q EXCEPT !.state = "Recording", !.claim = n]
    BY <1>4, <2>1, <2>2
  <2>4. /\ r \in FlipRequest /\ r.id = q.id /\ r.generation = q.generation /\ r.source = q.source
        /\ r.state = "Recording" /\ r.frame = q.frame /\ r.claim = n
    BY <2>3 DEF FlipRequest
  <2>5. ~cpuRequests[k].frame /\ cpuRequests[k].source = "Cpu"
    BY DEF FlipInv, Framed
  <2> QED
    BY <2>1, <2>2, <2>4, <2>5
<1>7. /\ requests' \in Seq(FlipRequest) /\ Len(requests') = Len(requests) + 1
      /\ DOMAIN requests' = 1 .. Len(requests) + 1
      /\ \A i \in DOMAIN requests' : \/ i \in DOMAIN requests /\ requests'[i] = requests[i]
                                     \/ i = Len(requests) + 1 /\ requests'[i] = r
      /\ \A i \in DOMAIN requests : i \in DOMAIN requests' /\ requests'[i] = requests[i]
  BY <1>3, <1>5, <1>6, AppendFacts
<1>8. /\ cpuRequests' \in Seq(FlipRequest) /\ DistinctIds(cpuRequests')
      /\ Len(cpuRequests') = Len(cpuRequests) - 1
      /\ \A i \in DOMAIN cpuRequests' : \E l \in DOMAIN cpuRequests : cpuRequests'[i] = cpuRequests[l] /\ l # k
  <2>1. cpuRequests' = Without(cpuRequests, cpuRequests[k].id)
    BY DEF ClaimsCpu
  <2>0. cpuRequests \in Seq(FlipRequest) /\ DistinctIds(cpuRequests)
    BY <1>3
  <2>2. Removed(cpuRequests', cpuRequests, k)
    BY <2>0, <2>1, WithoutFacts
  <2> QED
    BY <2>2 DEF Removed
<1>9. \A i \in DOMAIN cpuRequests' : cpuRequests'[i].id # gpu.id
  BY <1>3, <1>8 DEF DistinctIds
<1>10. \A i \in DOMAIN requests : requests[i].state # "Reserved" /\ requests[i].frame /\ requests[i].id # gpu.id
  BY <1>1 DEF FlipInv, Claims, Framed, IdsExact, Apart
<1>11. \A i \in DOMAIN cancelled : cancelled[i].id # gpu.id
  BY DEF FlipInv, IdsExact, Apart
<1>12. FlipTypeOK'
  BY <1>1, <1>3, <1>7, <1>8 DEF FlipInv, FlipTypeOK
<1>13. IdsExact'
  <2>1. DistinctIds(requests')
    BY <1>6, <1>7, <1>10 DEF FlipInv, IdsExact, DistinctIds
  <2>2. Apart(requests', cancelled)
    BY <1>6, <1>7, <1>11 DEF FlipInv, IdsExact, Apart
  <2>3. Apart(requests', cpuRequests')
    BY <1>6, <1>7, <1>8, <1>9 DEF FlipInv, IdsExact, Apart
  <2>4. Apart(cpuRequests', cancelled)
    BY <1>8 DEF FlipInv, IdsExact, Apart
  <2>5. \A i \in DOMAIN requests' : requests'[i].id <= Len(frames)
    BY <1>6, <1>7 DEF FlipInv, IdsExact, Numbered
  <2>6. \A i \in DOMAIN cpuRequests' : cpuRequests'[i].id <= Len(frames)
    BY <1>8 DEF FlipInv, IdsExact, Numbered
  <2> QED
    BY <1>1, <1>8, <2>1, <2>2, <2>3, <2>4, <2>5, <2>6 DEF FlipInv, IdsExact, DistinctIds, Apart, Numbered
<1>14. PortLife'
  <2>1. ~(~port.opened /\ closer # "cancel")
    <3>1. cpuRequests # << >>
      BY <1>3, QueueElements
    <3> QED
      BY <3>1 DEF FlipInv, PortLife
  <2>2. port.opened => \A i \in DOMAIN requests' : requests'[i].generation = port.generation
    BY <1>6, <1>7 DEF FlipInv, PortLife
  <2>3. port.opened => \A i \in DOMAIN cpuRequests' : cpuRequests'[i].generation = port.generation
    BY <1>8 DEF FlipInv, PortLife
  <2> QED
    BY <1>1, <2>1, <2>2, <2>3 DEF FlipInv, PortLife
<1>15. PresentFront'
  BY <1>1, <1>7 DEF FlipInv, PresentFront, PortCurrent
<1>16. Progress'
  <2>1. Settled(requests)'
    BY <1>1, <1>6, <1>7 DEF FlipInv, Progress, Settled, InPreparation
  <2>2. Settled(cancelled)'
    BY <1>1 DEF FlipInv, Progress, Settled, InPreparation
  <2>3. Settled(cpuRequests)'
    BY <1>1, <1>8 DEF FlipInv, Progress, Settled, InPreparation
  <2>4. \A i \in DOMAIN requests' : requests'[i].state = "Recording" => requests'[i].id \notin Unclaimed'
    BY <1>1, <1>6, <1>7 DEF FlipInv, Progress
  <2> QED
    BY <2>1, <2>2, <2>3, <2>4 DEF Progress
<1>17. Claims'
  <2>1. \A i \in DOMAIN requests' :
            /\ requests'[i].claim <= prepared + 1 /\ requests'[i].state # "Reserved"
            /\ requests'[i].claim > shown
    BY <1>3, <1>6, <1>7, <1>10 DEF FlipInv, Claims
  <2>2. ASSUME NEW i \in DOMAIN requests', NEW j \in DOMAIN requests', i < j
        PROVE  requests'[i].claim < requests'[j].claim
    <3>1. i \in DOMAIN requests /\ requests'[i] = requests[i] /\ requests[i].claim <= prepared
      BY <1>3, <1>7, <2>2 DEF FlipInv, Claims
    <3>2. CASE j = Len(requests) + 1
      BY <1>3, <1>6, <1>7, <3>1, <3>2
    <3>3. CASE j \in DOMAIN requests
      BY <1>7, <1>10, <2>2, <3>1, <3>3 DEF FlipInv, Claims
    <3> QED
      BY <1>7, <3>2, <3>3
  <2>3. shown <= prepared + 1
    BY <1>3 DEF FlipInv, Claims
  <2> QED
    BY <1>1, <2>1, <2>2, <2>3 DEF Claims
<1>18. Framed'
  <2>1. \A i \in DOMAIN requests' : requests'[i].frame \/ requests'[i].id = gpu.id
    BY <1>6, <1>7, <1>10
  <2>2. \A i \in DOMAIN cpuRequests' : /\ ~cpuRequests'[i].frame /\ cpuRequests'[i].state = "Reserved"
                                       /\ cpuRequests'[i].source = "Cpu"
    BY <1>8 DEF FlipInv, Framed
  <2>3. \A i \in DOMAIN requests' : requests'[i].state # "Reserved"
    BY <1>6, <1>7, <1>10
  <2> QED
    BY <1>1, <1>2, <2>1, <2>2, <2>3 DEF Framed
<1>19. HeldExact'
  <2>1. \A id : (\E i \in DOMAIN requests' : requests'[i].id = id /\ requests'[i].frame)
                   <=> (\E i \in DOMAIN requests : requests[i].id = id /\ requests[i].frame)
    BY <1>6, <1>7
  <2> QED
    BY <1>1, <2>1 DEF FlipInv, HeldExact
<1>20. CountsExact'
  <2>1. NumRequests' = NumRequests
    BY <1>3, <1>7, <1>8 DEF NumRequests
  <2>2. EopIndices' = EopIndices
    BY <1>6, <1>7 DEF EopIndices
  <2> QED
    BY <1>1, <2>1, <2>2 DEF FlipInv, CountsExact
<1> QED
  BY <1>1, <1>12, <1>13, <1>14, <1>15, <1>16, <1>17, <1>18, <1>19, <1>20 DEF FlipInv

\* The first section of Prepare finds the request in one of the three queues.
LEMMA ClaimsKeeps ==
    ASSUME FlipInv, GpuClaims
    PROVE  FlipInv'
<1>1. CASE /\ Has(requests, gpu.id)
           /\ requests' = Update(requests, [Entry(requests, gpu.id) EXCEPT !.state = "Recording", !.claim = prepared'])
           /\ UNCHANGED <<cpuRequests, cancelled>>
  <2>1. PICK k \in DOMAIN requests : requests[k].id = gpu.id
    BY <1>1 DEF Has
  <2> QED
    BY <1>1, <2>1, ClaimRequestKeeps
<1>2. CASE /\ Has(cpuRequests, gpu.id)
           /\ requests' = Append(requests, [Entry(cpuRequests, gpu.id) EXCEPT !.state = "Recording", !.claim = prepared'])
           /\ cpuRequests' = Without(cpuRequests, gpu.id)
           /\ UNCHANGED cancelled
  <2>1. PICK k \in DOMAIN cpuRequests : cpuRequests[k].id = gpu.id
    BY <1>2 DEF Has
  <2> QED
    BY <1>2, <2>1, ClaimCpuKeeps DEF ClaimsCpu
<1>3. CASE /\ Has(cancelled, gpu.id)
           /\ cancelled' = Update(cancelled, [Entry(cancelled, gpu.id) EXCEPT !.state = "Recording", !.claim = prepared'])
           /\ UNCHANGED <<requests, cpuRequests>>
  <2>1. PICK k \in DOMAIN cancelled : cancelled[k].id = gpu.id
    BY <1>3 DEF Has
  <2> QED
    BY <1>3, <2>1, ClaimCancelledKeeps
<1> QED
  BY <1>1, <1>2, <1>3 DEF GpuClaims, PrepareClaim

\* The end of Prepare: the request goes on to its end-of-pipe signal.
LEMMA RecordPlaces ==
    ASSUME FlipInv, GpuRecords, Len(frames') = Len(frames)
    PROVE  /\ gpu.pc \in {"record", "drop"} /\ gpu.id \in Nat \ {0} /\ gpu.id \in DOMAIN frames
           /\ UNCHANGED <<port, cpuRequests, processing, present, closer, guest, prepared, shown, preparations,
                          completes, ops>>
           /\ gpu' \in GpuPlace /\ gpu'.id = gpu.id /\ gpu'.pc = "signal"
           /\ OnePlace' /\ Uncompleted' = Uncompleted /\ Unclaimed' = Unclaimed /\ gpu.id \in Uncompleted
<1>1. /\ gpu.pc \in {"record", "drop"}
      /\ UNCHANGED <<port, cpuRequests, processing, present, closer, guest, prepared, shown, preparations,
                     completes, ops>>
  BY DEF GpuRecords, PrepareFrame, PrepareDrop, schedulerVars
<1>2. gpu' = [gpu EXCEPT !.pc = "signal"]
  BY DEF GpuRecords
<1>3. gpu \in [pc : Working, id : Nat \ {0}, source : {"GpuEop", "Cpu"}]
  BY <1>1, GpuPlaces DEF FlipInv, FlipTypeOK, Working
<1>4. gpu' \in GpuPlace /\ gpu'.id = gpu.id /\ gpu'.pc = "signal" /\ gpu'.source = gpu.source /\ gpu.id \in Nat \ {0}
  BY <1>2, <1>3 DEF GpuPlace, Working
<1>5. GpuHolds /\ GpuHolds'
  BY <1>1, <1>4 DEF GpuHolds, Working
<1>6. OnePlace'
  BY <1>1, <1>4, <1>5 DEF FlipInv, OnePlace
<1>7. Uncompleted' = Uncompleted /\ gpu.id \in Uncompleted
  BY <1>1, <1>4, <1>5 DEF Uncompleted
<1>8. Unclaimed' = Unclaimed
  BY <1>1, <1>4 DEF Unclaimed
<1>9. gpu.id \in DOMAIN frames
  <2>1. DOMAIN frames = 1 .. Len(frames) /\ Len(frames) \in Nat
    BY DEF FlipInv, FlipTypeOK
  <2> QED
    BY <1>4, <1>5, <2>1 DEF FlipInv, OnePlace
<1> QED
  BY <1>1, <1>4, <1>6, <1>7, <1>8, <1>9

\* What the invariant says of the request that the GPU thread records or drops.
LEMMA RecordedRequest ==
    ASSUME FlipInv, gpu.pc \in {"record", "drop"}, gpu.id \in Uncompleted
    PROVE  /\ \A i \in DOMAIN requests : requests[i].state # "Reserved"
           /\ \A i \in DOMAIN requests : requests[i].id # gpu.id => requests[i].frame
           /\ \A i \in DOMAIN requests : requests[i].id = gpu.id => requests[i].state = "Recording"
           /\ \A i \in DOMAIN cancelled : cancelled[i].id = gpu.id => InPreparation(cancelled[i])
           /\ present.pc \in {"due", "present"} => 1 \in DOMAIN requests /\ requests[1].id # gpu.id
<1>1. \A i \in DOMAIN requests : requests[i].state # "Reserved"
  BY DEF FlipInv, Claims
<1>2. \A i \in DOMAIN requests : requests[i].id # gpu.id => requests[i].frame
  BY <1>1 DEF FlipInv, Framed
<1>3. \A i \in DOMAIN requests : requests[i].id = gpu.id => requests[i].state = "Recording"
  BY <1>1 DEF FlipInv, Progress, Settled, InPreparation
<1>4. \A i \in DOMAIN cancelled : cancelled[i].id = gpu.id => InPreparation(cancelled[i])
  BY DEF FlipInv, Progress, Settled
<1>5. ASSUME present.pc \in {"due", "present"} PROVE 1 \in DOMAIN requests /\ requests[1].id # gpu.id
  <2>1. requests[1].state # "Recording"
    <3>1. CASE present.pc = "due"
      BY <3>1 DEF FlipInv, PresentFront
    <3>2. CASE present.pc # "due"
      <4>1. present.request \in FlipRequest
        BY <1>5 DEF FlipInv, FlipTypeOK, PresentState
      <4> QED
        BY <1>5, <3>2, <4>1 DEF FlipInv, PresentFront, FlipRequest
    <3> QED
      BY <3>1, <3>2
  <2>2. 1 \in DOMAIN requests
    BY <1>5 DEF FlipInv, PresentFront
  <2> QED
    BY <1>3, <2>1, <2>2
<1> QED
  BY <1>1, <1>2, <1>3, <1>4, <1>5

\* Its frame is held from now on.
LEMMA HeldFrame ==
    ASSUME FlipInv, NEW id \in DOMAIN frames, frames' = [frames EXCEPT ![id] = "held"]
    PROVE  /\ frames' \in Seq({"none", "held", "shown", "discarded"}) /\ Len(frames') = Len(frames)
           /\ DOMAIN frames' = DOMAIN frames /\ frames'[id] = "held"
           /\ \A n \in DOMAIN frames : n # id => frames'[n] = frames[n]
<1>1. frames \in Seq({"none", "held", "shown", "discarded"})
  BY DEF FlipInv, FlipTypeOK
<1> QED
  BY <1>1

\* The frame reaches the k-th request of a queue.
FramesRequest(k, r) ==
    /\ r = [requests[k] EXCEPT !.frame = TRUE] /\ requests' = Update(requests, r)
    /\ frames' = [frames EXCEPT ![gpu.id] = "held"]

\* The frame is handed to a request that is still queued, ...
LEMMA FrameRequestKeeps ==
    ASSUME FlipInv, GpuRecords, NEW k \in DOMAIN requests, requests[k].id = gpu.id, NEW r,
           FramesRequest(k, r), UNCHANGED cancelled
    PROVE  FlipInv'
<1>0. Len(frames') = Len(frames) /\ requests' = Update(requests, r)
  BY DEF FlipInv, FlipTypeOK, FramesRequest
<1>1. /\ gpu.pc \in {"record", "drop"} /\ gpu.id \in Nat \ {0} /\ gpu.id \in DOMAIN frames
      /\ UNCHANGED <<port, cpuRequests, processing, present, closer, guest, prepared, shown, preparations,
                     completes, ops>>
      /\ gpu' \in GpuPlace /\ gpu'.id = gpu.id /\ gpu'.pc = "signal"
      /\ OnePlace' /\ Uncompleted' = Uncompleted /\ Unclaimed' = Unclaimed /\ gpu.id \in Uncompleted
  BY <1>0, RecordPlaces
<1>2. /\ \A i \in DOMAIN requests : requests[i].state # "Reserved"
      /\ \A i \in DOMAIN requests : requests[i].id # gpu.id => requests[i].frame
      /\ requests[k].state = "Recording"
      /\ present.pc \in {"due", "present"} => 1 \in DOMAIN requests /\ requests[1].id # gpu.id
  BY <1>1, RecordedRequest
<1>3. requests[k] \in FlipRequest
  BY QueueElements DEF FlipInv, FlipTypeOK
<1>4. /\ r \in FlipRequest /\ r.id = requests[k].id /\ r.generation = requests[k].generation
      /\ r.source = requests[k].source /\ r.state = requests[k].state /\ r.frame = TRUE
      /\ r.claim = requests[k].claim
  BY <1>3 DEF FlipRequest, FramesRequest
<1>5. /\ requests' \in Seq(FlipRequest) /\ Len(requests') = Len(requests)
      /\ DOMAIN requests' = DOMAIN requests /\ requests'[k] = r
      /\ \A i \in DOMAIN requests : i # k => requests'[i] = requests[i]
      /\ \A i \in DOMAIN requests : requests'[i].id = requests[i].id
      /\ IdsExact' /\ PortLife' /\ CountsExact'
  BY <1>0, <1>1, <1>4, UpdateKeeps
<1>6. /\ frames' \in Seq({"none", "held", "shown", "discarded"}) /\ Len(frames') = Len(frames)
      /\ DOMAIN frames' = DOMAIN frames /\ frames'[gpu.id] = "held"
      /\ \A n \in DOMAIN frames : n # gpu.id => frames'[n] = frames[n]
  BY <1>1, HeldFrame DEF FramesRequest
<1>7. \A i \in DOMAIN requests : requests'[i].state = requests[i].state /\ requests'[i].claim = requests[i].claim
  BY <1>4, <1>5
<1>8. \A i \in DOMAIN requests : requests'[i].frame
  BY <1>2, <1>4, <1>5 DEF FlipInv, IdsExact, DistinctIds
<1>9. FlipTypeOK'
  BY <1>1, <1>5, <1>6 DEF FlipInv, FlipTypeOK
<1>10. PresentFront'
  <2>1. present.pc \in {"due", "present"} => requests'[1] = requests[1]
    BY <1>2, <1>5
  <2> QED
    BY <1>1, <1>5, <2>1 DEF FlipInv, PresentFront, PortCurrent
<1>11. Progress'
  BY <1>1, <1>5, <1>7 DEF FlipInv, Progress, Settled, InPreparation
<1>12. Claims'
  BY <1>1, <1>2, <1>5, <1>7 DEF FlipInv, Claims
<1>13. Framed'
  BY <1>1, <1>2, <1>5, <1>7, <1>8 DEF FlipInv, Framed
<1>14. HeldExact'
  <2> SUFFICES ASSUME NEW id \in DOMAIN frames
               PROVE  frames'[id] = "held" <=>
                          \/ \E i \in DOMAIN requests' : requests'[i].id = id /\ requests'[i].frame
                          \/ \E i \in DOMAIN cancelled : cancelled[i].id = id /\ cancelled[i].frame
    BY <1>6 DEF HeldExact
  <2>1. CASE id = gpu.id
    BY <1>5, <1>6, <1>8, <2>1
  <2>2. CASE id # gpu.id
    <3>1. (\E i \in DOMAIN requests' : requests'[i].id = id /\ requests'[i].frame)
             <=> (\E i \in DOMAIN requests : requests[i].id = id /\ requests[i].frame)
      BY <1>2, <1>5, <1>8, <2>2
    <3> QED
      BY <1>6, <2>2, <3>1 DEF FlipInv, HeldExact
  <2> QED
    BY <2>1, <2>2
<1> QED
  BY <1>1, <1>5, <1>9, <1>10, <1>11, <1>12, <1>13, <1>14 DEF FlipInv

FramesCancelled(k, r) ==
    /\ r = [cancelled[k] EXCEPT !.frame = TRUE] /\ cancelled' = Update(cancelled, r)
    /\ frames' = [frames EXCEPT ![gpu.id] = "held"]

\* ... or to one that was cancelled while it was recorded.
LEMMA FrameCancelledKeeps ==
    ASSUME FlipInv, GpuRecords, NEW k \in DOMAIN cancelled, cancelled[k].id = gpu.id, NEW r,
           FramesCancelled(k, r), UNCHANGED requests
    PROVE  FlipInv'
<1>0. Len(frames') = Len(frames) /\ cancelled' = Update(cancelled, r)
  BY DEF FlipInv, FlipTypeOK, FramesCancelled
<1>1. /\ gpu.pc \in {"record", "drop"} /\ gpu.id \in Nat \ {0} /\ gpu.id \in DOMAIN frames
      /\ UNCHANGED <<port, cpuRequests, processing, present, closer, guest, prepared, shown, preparations,
                     completes, ops>>
      /\ gpu' \in GpuPlace /\ gpu'.id = gpu.id /\ gpu'.pc = "signal"
      /\ OnePlace' /\ Uncompleted' = Uncompleted /\ Unclaimed' = Unclaimed /\ gpu.id \in Uncompleted
  BY <1>0, RecordPlaces
<1>2. /\ \A i \in DOMAIN requests : requests[i].state # "Reserved"
      /\ \A i \in DOMAIN requests : requests[i].id # gpu.id => requests[i].frame
  BY <1>1, RecordedRequest
<1>3. cancelled[k] \in FlipRequest /\ cancelled \in Seq(FlipRequest) /\ DistinctIds(cancelled)
  BY QueueElements DEF FlipInv, FlipTypeOK, IdsExact
<1>4. r \in FlipRequest /\ r.id = cancelled[k].id /\ r.state = cancelled[k].state /\ r.frame = TRUE
  BY <1>3 DEF FlipRequest, FramesCancelled
<1>5. /\ cancelled' \in Seq(FlipRequest) /\ DOMAIN cancelled' = DOMAIN cancelled /\ cancelled'[k] = r
      /\ \A i \in DOMAIN cancelled : i # k => cancelled'[i] = cancelled[i]
      /\ \A i \in DOMAIN cancelled : cancelled'[i].id = cancelled[i].id
  BY <1>0, <1>3, <1>4, UpdateAt
<1>6. /\ frames' \in Seq({"none", "held", "shown", "discarded"}) /\ Len(frames') = Len(frames)
      /\ DOMAIN frames' = DOMAIN frames /\ frames'[gpu.id] = "held"
      /\ \A n \in DOMAIN frames : n # gpu.id => frames'[n] = frames[n]
  BY <1>1, HeldFrame DEF FramesCancelled
<1>7. \A i \in DOMAIN requests : requests[i].id # gpu.id
  BY DEF FlipInv, IdsExact, Apart
<1>8. FlipTypeOK'
  BY <1>1, <1>5, <1>6 DEF FlipInv, FlipTypeOK
<1>9. IdsExact'
  BY <1>0, <1>1, <1>5 DEF FlipInv, IdsExact, DistinctIds, Apart, Numbered
<1>10. PortLife' /\ PresentFront' /\ CountsExact'
  BY <1>1 DEF FlipInv, PortLife, PresentFront, PortCurrent, CountsExact, NumRequests, EopIndices
<1>11. Progress'
  <2>1. \A i \in DOMAIN cancelled : cancelled'[i].state = cancelled[i].state
    BY <1>4, <1>5
  <2> QED
    BY <1>1, <1>5, <2>1 DEF FlipInv, Progress, Settled, InPreparation
<1>12. Claims'
  BY <1>1, <1>2 DEF FlipInv, Claims
<1>13. Framed'
  BY <1>1, <1>2, <1>7 DEF FlipInv, Framed
<1>14. HeldExact'
  <2> SUFFICES ASSUME NEW id \in DOMAIN frames
               PROVE  frames'[id] = "held" <=>
                          \/ \E i \in DOMAIN requests : requests[i].id = id /\ requests[i].frame
                          \/ \E i \in DOMAIN cancelled' : cancelled'[i].id = id /\ cancelled'[i].frame
    BY <1>6 DEF HeldExact
  <2>1. CASE id = gpu.id
    BY <1>4, <1>5, <1>6, <2>1
  <2>2. CASE id # gpu.id
    <3>1. (\E i \in DOMAIN cancelled' : cancelled'[i].id = id /\ cancelled'[i].frame)
             <=> (\E i \in DOMAIN cancelled : cancelled[i].id = id /\ cancelled[i].frame)
      BY <1>4, <1>5, <2>2
    <3> QED
      BY <1>6, <2>2, <3>1 DEF FlipInv, HeldExact
  <2> QED
    BY <2>1, <2>2
<1> QED
  BY <1>1, <1>8, <1>9, <1>10, <1>11, <1>12, <1>13, <1>14 DEF FlipInv

\* The port of the request is gone: the request is kept for Complete alone.
DropsRequest(k) ==
    /\ cancelled' = Append(cancelled, Entry(requests, gpu.id))
    /\ requests' = Without(requests, requests[k].id)

\* It can only happen while Close is about to cancel the queue.
LEMMA DropRequestKeeps ==
    ASSUME FlipInv, GpuRecords, gpu.pc = "drop", NEW k \in DOMAIN requests, requests[k].id = gpu.id,
           DropsRequest(k), UNCHANGED frames
    PROVE  FlipInv'
<1>1. /\ gpu.id \in Nat \ {0} /\ gpu.id \in DOMAIN frames
      /\ UNCHANGED <<port, cpuRequests, processing, present, closer, guest, prepared, shown, preparations,
                     completes, ops>>
      /\ gpu' \in GpuPlace /\ gpu'.id = gpu.id /\ gpu'.pc = "signal"
      /\ OnePlace' /\ Uncompleted' = Uncompleted /\ Unclaimed' = Unclaimed /\ gpu.id \in Uncompleted
  BY RecordPlaces
<1>2. /\ \A i \in DOMAIN requests : requests[i].state # "Reserved"
      /\ \A i \in DOMAIN requests : requests[i].id # gpu.id => requests[i].frame
      /\ requests[k].state = "Recording"
      /\ present.pc \in {"due", "present"} => 1 \in DOMAIN requests /\ requests[1].id # gpu.id
  BY <1>1, RecordedRequest
<1>3. ~port.opened /\ closer = "cancel"
  <2>1. requests # << >>
    BY QueueElements DEF FlipInv, FlipTypeOK
  <2> QED
    BY <2>1 DEF FlipInv, Framed, PortLife
<1>4. /\ requests \in Seq(FlipRequest) /\ DistinctIds(requests) /\ requests[k] \in FlipRequest
      /\ cancelled \in Seq(FlipRequest)
  BY QueueElements DEF FlipInv, FlipTypeOK, IdsExact
<1>5. Removed(requests', requests, k)
  <2>1. requests' = Without(requests, requests[k].id)
    BY DEF DropsRequest
  <2> QED
    BY <1>4, <2>1, WithoutFacts
<1>6. cancelled' = Append(cancelled, requests[k])
  <2>1. Entry(requests, gpu.id) = requests[k]
    BY <1>4, EntryAt
  <2> QED
    BY <2>1 DEF DropsRequest
<1>7. /\ cancelled' \in Seq(FlipRequest)
      /\ \A i \in DOMAIN cancelled' : \/ i \in DOMAIN cancelled /\ cancelled'[i] = cancelled[i]
                                      \/ i = Len(cancelled) + 1 /\ cancelled'[i] = requests[k]
      /\ \A i \in DOMAIN cancelled : i \in DOMAIN cancelled' /\ cancelled'[i] = cancelled[i]
      /\ Len(cancelled) + 1 \in DOMAIN cancelled' /\ cancelled'[Len(cancelled) + 1] = requests[k]
  BY <1>4, <1>6, AppendFacts
<1>8. /\ requests' \in Seq(FlipRequest) /\ DistinctIds(requests')
      /\ \A i \in DOMAIN requests' : \E l \in DOMAIN requests : requests'[i] = requests[l] /\ l # k
      /\ \A l \in DOMAIN requests : l # k => \E i \in DOMAIN requests' : requests'[i] = requests[l]
      /\ k # 1 => 1 \in DOMAIN requests' /\ requests'[1] = requests[1]
  BY <1>5 DEF Removed
<1>9. \A i \in DOMAIN requests' : requests'[i].id # gpu.id
  BY <1>4, <1>8, ZenonT(60) DEF DistinctIds
<1>10. FlipTypeOK'
  BY <1>1, <1>7, <1>8 DEF FlipInv, FlipTypeOK
<1>11. IdsExact'
  <2>1. DistinctIds(cancelled')
    BY <1>7 DEF FlipInv, IdsExact, DistinctIds, Apart
  <2>2. Apart(requests', cancelled')
    <3> SUFFICES ASSUME NEW i \in DOMAIN requests', NEW j \in DOMAIN cancelled' PROVE requests'[i].id # cancelled'[j].id
      BY DEF Apart
    <3>1. PICK l \in DOMAIN requests : requests'[i] = requests[l] /\ l # k
      BY <1>8
    <3>2. CASE cancelled'[j] = requests[k]
      BY <1>9, <3>2
    <3>3. CASE j \in DOMAIN cancelled /\ cancelled'[j] = cancelled[j]
      BY <3>1, <3>3 DEF FlipInv, IdsExact, Apart
    <3> QED
      BY <1>7, <3>2, <3>3
  <2>3. Apart(requests', cpuRequests)
    BY <1>8 DEF FlipInv, IdsExact, Apart
  <2>4. Apart(cpuRequests, cancelled')
    BY <1>7 DEF FlipInv, IdsExact, Apart
  <2>5. \A i \in DOMAIN requests' : requests'[i].id <= Len(frames)
    BY <1>8 DEF FlipInv, IdsExact, Numbered
  <2>6. \A i \in DOMAIN cancelled' : cancelled'[i].id <= Len(frames)
    BY <1>7 DEF FlipInv, IdsExact, Numbered
  <2> QED
    BY <1>1, <1>8, <2>1, <2>2, <2>3, <2>4, <2>5, <2>6 DEF FlipInv, IdsExact, DistinctIds, Apart, Numbered
<1>12. PortLife' /\ CountsExact'
  BY <1>1, <1>3 DEF FlipInv, PortLife, CountsExact
<1>13. PresentFront'
  BY <1>1, <1>2, <1>8 DEF FlipInv, PresentFront, PortCurrent
<1>14. Progress'
  <2>1. Settled(requests)'
    BY <1>1, <1>8 DEF FlipInv, Progress, Settled, InPreparation
  <2>2. Settled(cancelled)'
    BY <1>1, <1>2, <1>7 DEF FlipInv, Progress, Settled, InPreparation
  <2>3. Settled(cpuRequests)'
    BY <1>1 DEF FlipInv, Progress, Settled, InPreparation
  <2>4. \A i \in DOMAIN requests' : requests'[i].state = "Recording" => requests'[i].id \notin Unclaimed'
    BY <1>1, <1>8 DEF FlipInv, Progress
  <2> QED
    BY <2>1, <2>2, <2>3, <2>4 DEF Progress
<1>15. Claims'
  <2>1. \A i \in DOMAIN requests' : /\ requests'[i].claim <= prepared /\ requests'[i].state # "Reserved"
                                    /\ requests'[i].claim > shown
    BY <1>2, <1>8 DEF FlipInv, Claims
  <2>2. \A i, j \in DOMAIN requests' : i < j => requests'[i].claim < requests'[j].claim
    <3> SUFFICES ASSUME NEW i \in DOMAIN requests', NEW j \in DOMAIN requests', i < j
                 PROVE  requests'[i].claim < requests'[j].claim
      OBVIOUS
    <3>1. PICK l \in DOMAIN requests, m \in DOMAIN requests : l < m /\ requests'[i] = requests[l] /\ requests'[j] = requests[m]
      BY <1>5 DEF Removed
    <3> QED
      BY <1>2, <3>1 DEF FlipInv, Claims
  <2> QED
    BY <1>1, <2>1, <2>2 DEF FlipInv, Claims
<1>16. Framed'
  <2>1. \A i \in DOMAIN requests' : requests'[i].frame
    BY <1>2, <1>8, <1>9
  <2>2. \A i \in DOMAIN requests' : requests'[i].state # "Reserved"
    BY <1>2, <1>8
  <2> QED
    BY <1>1, <2>1, <2>2 DEF FlipInv, Framed
<1>17. HeldExact'
  <2> SUFFICES ASSUME NEW id \in DOMAIN frames
               PROVE  frames[id] = "held" <=>
                          \/ \E i \in DOMAIN requests' : requests'[i].id = id /\ requests'[i].frame
                          \/ \E i \in DOMAIN cancelled' : cancelled'[i].id = id /\ cancelled'[i].frame
    BY DEF HeldExact
  <2>1. frames[id] = "held" <=> \/ \E i \in DOMAIN requests : requests[i].id = id /\ requests[i].frame
                                \/ \E i \in DOMAIN cancelled : cancelled[i].id = id /\ cancelled[i].frame
    BY DEF FlipInv, HeldExact
  <2>2. ASSUME NEW i \in DOMAIN requests, requests[i].id = id, requests[i].frame
        PROVE  \/ \E j \in DOMAIN requests' : requests'[j].id = id /\ requests'[j].frame
               \/ \E j \in DOMAIN cancelled' : cancelled'[j].id = id /\ cancelled'[j].frame
    <3>1. CASE i = k
      BY <1>7, <2>2, <3>1
    <3>2. CASE i # k
      BY <1>8, <2>2, <3>2
    <3> QED
      BY <3>1, <3>2
  <2>3. ASSUME NEW i \in DOMAIN cancelled, cancelled[i].id = id, cancelled[i].frame
        PROVE  \E j \in DOMAIN cancelled' : cancelled'[j].id = id /\ cancelled'[j].frame
    BY <1>7, <2>3
  <2>4. ASSUME NEW i \in DOMAIN requests', requests'[i].id = id, requests'[i].frame
        PROVE  \E j \in DOMAIN requests : requests[j].id = id /\ requests[j].frame
    BY <1>8, <2>4
  <2>5. ASSUME NEW i \in DOMAIN cancelled', cancelled'[i].id = id, cancelled'[i].frame
        PROVE  \/ \E j \in DOMAIN requests : requests[j].id = id /\ requests[j].frame
               \/ \E j \in DOMAIN cancelled : cancelled[j].id = id /\ cancelled[j].frame
    BY <1>7, <2>5
  <2> QED
    BY <2>1, <2>2, <2>3, <2>4, <2>5
<1> QED
  BY <1>1, <1>10, <1>11, <1>12, <1>13, <1>14, <1>15, <1>16, <1>17 DEF FlipInv

\* Cancel was faster: the request is no longer in m_requests.
LEMMA DropNothingKeeps ==
    ASSUME FlipInv, GpuRecords, gpu.pc = "drop", ~Has(requests, gpu.id), UNCHANGED <<requests, cancelled, frames>>
    PROVE  FlipInv'
<1>1. /\ gpu.id \in Nat \ {0} /\ gpu.id \in DOMAIN frames
      /\ UNCHANGED <<port, cpuRequests, processing, present, closer, guest, prepared, shown, preparations,
                     completes, ops>>
      /\ gpu' \in GpuPlace /\ gpu'.id = gpu.id /\ gpu'.pc = "signal"
      /\ OnePlace' /\ Uncompleted' = Uncompleted /\ Unclaimed' = Unclaimed /\ gpu.id \in Uncompleted
  BY RecordPlaces
<1>2. \A i \in DOMAIN requests : requests[i].state # "Reserved" /\ requests[i].frame
  BY <1>1, RecordedRequest DEF Has
<1>3. FlipTypeOK' /\ IdsExact' /\ PortLife' /\ PresentFront'
  BY <1>1 DEF FlipInv, FlipTypeOK, IdsExact, DistinctIds, Apart, Numbered, PortLife, PresentFront, PortCurrent
<1>4. Progress'
  BY <1>1, ProgressStays
<1>5. Claims' /\ Framed'
  BY <1>1, <1>2 DEF FlipInv, Claims, Framed
<1>6. HeldExact' /\ CountsExact'
  BY <1>1 DEF FlipInv, HeldExact, CountsExact, NumRequests, EopIndices
<1> QED
  BY <1>1, <1>3, <1>4, <1>5, <1>6 DEF FlipInv

\* The last section of Prepare.
LEMMA RecordsKeeps ==
    ASSUME FlipInv, GpuRecords
    PROVE  FlipInv'
<1>0. requests \in Seq(FlipRequest) /\ cancelled \in Seq(FlipRequest) /\ DistinctIds(requests) /\ DistinctIds(cancelled)
  BY DEF FlipInv, FlipTypeOK, IdsExact
<1>1. CASE PrepareFrame(gpu.id)
  <2>1. frames' = [frames EXCEPT ![gpu.id] = "held"]
    BY <1>1 DEF PrepareFrame
  <2>2. CASE /\ Has(requests, gpu.id) /\ UNCHANGED cancelled
             /\ requests' = Update(requests, [Entry(requests, gpu.id) EXCEPT !.frame = TRUE])
    <3>1. PICK k \in DOMAIN requests : requests[k].id = gpu.id
      BY <2>2 DEF Has
    <3>2. Entry(requests, gpu.id) = requests[k]
      BY <1>0, <3>1, EntryAt
    <3>3. PICK r : r = [requests[k] EXCEPT !.frame = TRUE]
      OBVIOUS
    <3>4. FramesRequest(k, r)
      BY <2>1, <2>2, <3>2, <3>3 DEF FramesRequest
    <3> QED
      BY <2>2, <3>1, <3>4, FrameRequestKeeps
  <2>3. CASE /\ Has(cancelled, gpu.id) /\ UNCHANGED requests
             /\ cancelled' = Update(cancelled, [Entry(cancelled, gpu.id) EXCEPT !.frame = TRUE])
    <3>1. PICK k \in DOMAIN cancelled : cancelled[k].id = gpu.id
      BY <2>3 DEF Has
    <3>2. Entry(cancelled, gpu.id) = cancelled[k]
      BY <1>0, <3>1, EntryAt
    <3>3. PICK r : r = [cancelled[k] EXCEPT !.frame = TRUE]
      OBVIOUS
    <3>4. FramesCancelled(k, r)
      BY <2>1, <2>3, <3>2, <3>3 DEF FramesCancelled
    <3> QED
      BY <2>3, <3>1, <3>4, FrameCancelledKeeps
  <2> QED
    BY <1>1, <2>2, <2>3 DEF PrepareFrame
<1>2. CASE gpu.pc = "drop" /\ PrepareDrop(gpu.id)
  <2>1. UNCHANGED frames
    BY <1>2 DEF PrepareDrop
  <2>2. CASE Has(requests, gpu.id)
    <3>1. PICK k \in DOMAIN requests : requests[k].id = gpu.id
      BY <2>2 DEF Has
    <3>2. DropsRequest(k)
      BY <1>2, <2>2, <3>1 DEF PrepareDrop, DropsRequest
    <3> QED
      BY <1>2, <2>1, <3>1, <3>2, DropRequestKeeps
  <2>3. CASE ~Has(requests, gpu.id)
    <3>1. UNCHANGED <<requests, cancelled>>
      BY <1>2, <2>3 DEF PrepareDrop
    <3> QED
      BY <1>2, <2>1, <2>3, <3>1, DropNothingKeeps
  <2> QED
    BY <2>2, <2>3
<1> QED
  BY <1>1, <1>2 DEF GpuRecords

-----------------------------------------------------------------------------
(* FlipQueue::Complete, by the GPU thread or by the priority thread.         *)

\* Somebody lets go of request id, which was claimed, and of no other.
LetsGo(id) ==
    /\ id \in Uncompleted /\ Uncompleted' \subseteq Uncompleted \ {id} /\ Unclaimed' \subseteq Unclaimed
    /\ gpu.pc \in {"claim", "check", "record", "drop"} => gpu.id # id
    /\ gpu' \in GpuPlace
    /\ gpu' = gpu \/ (gpu.pc = "complete" /\ gpu'.pc = "idle")
    /\ UNCHANGED <<preparations, completes>>

\* The k-th request is ready.
CompletesRequest(k, r) ==
    r = [requests[k] EXCEPT !.state = "Ready"] /\ requests' = Update(requests, r)

\* A queued request becomes ready to be presented.
LEMMA CompleteRequestKeeps ==
    ASSUME FlipInv, OnePlace', NEW k \in DOMAIN requests, LetsGo(requests[k].id), NEW r, CompletesRequest(k, r),
           UNCHANGED <<port, cpuRequests, cancelled, processing, present, closer, guest, frames, prepared, shown>>
    PROVE  FlipInv'
<1>1. requests[k] \in FlipRequest
  BY QueueElements DEF FlipInv, FlipTypeOK
<1>2. /\ r \in FlipRequest /\ r.id = requests[k].id /\ r.generation = requests[k].generation
      /\ r.source = requests[k].source /\ r.state = "Ready" /\ r.frame = requests[k].frame
      /\ r.claim = requests[k].claim
  BY <1>1 DEF FlipRequest, CompletesRequest
<1>3. /\ requests' \in Seq(FlipRequest) /\ Len(requests') = Len(requests)
      /\ DOMAIN requests' = DOMAIN requests /\ requests'[k] = r
      /\ \A i \in DOMAIN requests : i # k => requests'[i] = requests[i]
      /\ \A i \in DOMAIN requests : requests'[i].id = requests[i].id
      /\ IdsExact' /\ PortLife' /\ CountsExact'
  BY <1>2, UpdateKeeps DEF CompletesRequest
<1>4. requests[k].state = "Recording"
  <2>1. requests[k].state \in {"Reserved", "Recording"}
    BY DEF LetsGo, FlipInv, Progress, Settled, InPreparation
  <2>2. requests[k].state # "Reserved"
    BY DEF LetsGo, FlipInv, Claims
  <2> QED
    BY <2>1, <2>2
<1>5. requests[k].frame
  BY <1>4 DEF LetsGo, FlipInv, Framed
<1>6. \A i \in DOMAIN requests : i # k => requests[i].id # requests[k].id
  BY DEF FlipInv, IdsExact, DistinctIds
<1>7. \A i \in DOMAIN requests :
         /\ requests'[i].frame = requests[i].frame /\ requests'[i].claim = requests[i].claim
         /\ requests'[i].state = "Reserved" <=> requests[i].state = "Reserved"
  <2> TAKE i \in DOMAIN requests
  <2>1. CASE i = k
    BY <1>2, <1>3, <1>4, <2>1
  <2>2. CASE i # k
    BY <1>3, <2>2
  <2> QED
    BY <2>1, <2>2
<1>8. FlipTypeOK'
  BY <1>3 DEF LetsGo, FlipInv, FlipTypeOK
<1>9. PresentFront'
  <2> SUFFICES ASSUME present.pc \in {"due", "present"} PROVE PresentFront'
    BY DEF PresentFront
  <2>1. requests[1].state \in {"Ready", "Presenting"}
    <3>1. CASE present.pc = "due"
      BY <3>1 DEF FlipInv, PresentFront
    <3>2. CASE present.pc # "due"
      <4>1. present.request \in FlipRequest
        BY DEF FlipInv, FlipTypeOK, PresentState
      <4> QED
        BY <3>2, <4>1 DEF FlipInv, PresentFront, FlipRequest
    <3> QED
      BY <3>1, <3>2
  <2>2. k # 1
    BY <1>4, <2>1
  <2>3. 1 \in DOMAIN requests /\ requests'[1] = requests[1]
    BY <1>3, <2>2 DEF FlipInv, PresentFront
  <2> QED
    BY <1>3, <2>3 DEF FlipInv, PresentFront, PortCurrent
<1>10. Progress'
  <2>1. Settled(requests)'
    BY <1>2, <1>3 DEF LetsGo, FlipInv, Progress, Settled, InPreparation
  <2>2. Settled(cpuRequests)' /\ Settled(cancelled)'
    BY DEF LetsGo, FlipInv, Progress, Settled, InPreparation
  <2>3. \A i \in DOMAIN requests' : requests'[i].state = "Recording" => requests'[i].id \notin Unclaimed'
    BY <1>2, <1>3 DEF LetsGo, FlipInv, Progress
  <2> QED
    BY <2>1, <2>2, <2>3 DEF Progress
<1>11. Claims'
  <2>1. \A i \in DOMAIN requests' :
            /\ requests'[i].claim <= prepared
            /\ requests'[i].state # "Reserved" => requests'[i].claim > shown
    BY <1>3, <1>7 DEF FlipInv, Claims
  <2>2. \A i \in DOMAIN requests' : requests'[i].state = "Reserved" =>
            i = Len(requests') /\ gpu'.pc = "claim" /\ gpu'.id = requests'[i].id
    BY <1>3, <1>7 DEF LetsGo, FlipInv, Claims
  <2>3. \A i, j \in DOMAIN requests' :
            i < j /\ requests'[j].state # "Reserved" => requests'[i].claim < requests'[j].claim
    BY <1>3, <1>7 DEF FlipInv, Claims
  <2> QED
    BY <2>1, <2>2, <2>3 DEF FlipInv, Claims
<1>12. Framed'
  <2>1. \A i \in DOMAIN requests' :
            \/ requests'[i].frame
            \/ requests'[i].state = "Reserved"
            \/ gpu'.pc \in {"check", "record", "drop"} /\ gpu'.id = requests'[i].id
    BY <1>3, <1>7 DEF LetsGo, FlipInv, Framed
  <2>2. gpu'.pc = "drop" /\ port.opened => \A i \in DOMAIN requests' : requests'[i].id # gpu'.id
    BY <1>3 DEF LetsGo, FlipInv, Framed
  <2>3. \A i \in DOMAIN requests' : requests'[i].state = "Reserved" => ~requests'[i].frame
    BY <1>3, <1>7 DEF FlipInv, Framed
  <2> QED
    BY <2>1, <2>2, <2>3 DEF FlipInv, Framed
<1>13. HeldExact'
  BY <1>3, <1>7 DEF FlipInv, HeldExact
<1> QED
  BY <1>3, <1>8, <1>9, <1>10, <1>11, <1>12, <1>13 DEF FlipInv

\* The port was closed meanwhile: the frame is given back.
CompletesCancelled(k) ==
    cancelled' = Without(cancelled, cancelled[k].id) /\ frames' = Discard({cancelled[k]})

\* The frame of a cancelled request is given back once, and no other is.
LEMMA CompleteFrames ==
    ASSUME FlipInv, NEW k \in DOMAIN cancelled, CompletesCancelled(k)
    PROVE  /\ frames' \in Seq({"none", "held", "shown", "discarded"}) /\ Len(frames') = Len(frames)
           /\ DOMAIN frames' = DOMAIN frames
           /\ \A id \in DOMAIN frames : id # cancelled[k].id => frames'[id] = frames[id]
           /\ cancelled[k].id \in DOMAIN frames => frames'[cancelled[k].id] # "held"
<1>1. /\ DOMAIN frames' = DOMAIN frames
      /\ \A id \in DOMAIN frames :
             frames'[id] = IF cancelled[k].id = id /\ cancelled[k].frame
                           THEN IF frames[id] = "held" THEN "discarded" ELSE "twice"
                           ELSE frames[id]
  BY DEF CompletesCancelled, Discard
<1>2. \A id \in DOMAIN frames : cancelled[k].id = id => (frames[id] = "held" <=> cancelled[k].frame)
  BY DEF FlipInv, HeldExact, IdsExact, Apart, DistinctIds
<1>3. /\ Len(frames) \in Nat /\ DOMAIN frames = 1 .. Len(frames)
      /\ \A id \in DOMAIN frames : frames[id] \in {"none", "held", "shown", "discarded"}
  BY ElementOfSeq DEF FlipInv, FlipTypeOK
<1>4. \A id \in 1 .. Len(frames) : frames'[id] \in {"none", "held", "shown", "discarded"}
  BY <1>1, <1>2, <1>3
<1>5. frames' = [id \in 1 .. Len(frames) |-> frames'[id]]
  BY <1>3 DEF CompletesCancelled, Discard
<1>6. [id \in 1 .. Len(frames) |-> frames'[id]] \in Seq({"none", "held", "shown", "discarded"})
  BY <1>3, <1>4, IsASeq
<1>7. frames' \in Seq({"none", "held", "shown", "discarded"})
  BY <1>5, <1>6
<1>8. Len(frames') \in Nat /\ DOMAIN frames' = 1 .. Len(frames')
  BY <1>7
<1>9. Len(frames') = Len(frames)
  BY <1>1, <1>3, <1>8
<1> QED
  BY <1>1, <1>2, <1>7, <1>9

\* A cancelled request leaves the queue with its frame.
LEMMA CompleteCancelledKeeps ==
    ASSUME FlipInv, OnePlace', NEW k \in DOMAIN cancelled, LetsGo(cancelled[k].id), CompletesCancelled(k),
           UNCHANGED <<port, requests, cpuRequests, processing, present, closer, guest, prepared, shown>>
    PROVE  FlipInv'
<1>1. /\ frames' \in Seq({"none", "held", "shown", "discarded"}) /\ Len(frames') = Len(frames)
      /\ DOMAIN frames' = DOMAIN frames
      /\ \A id \in DOMAIN frames : id # cancelled[k].id => frames'[id] = frames[id]
      /\ cancelled[k].id \in DOMAIN frames => frames'[cancelled[k].id] # "held"
  BY CompleteFrames
<1>2. Removed(cancelled', cancelled, k)
  <2>1. cancelled \in Seq(FlipRequest) /\ DistinctIds(cancelled) /\ cancelled' = Without(cancelled, cancelled[k].id)
    BY DEF FlipInv, FlipTypeOK, IdsExact, CompletesCancelled
  <2> QED
    BY <2>1, WithoutFacts
<1>3. /\ cancelled' \in Seq(FlipRequest) /\ DistinctIds(cancelled')
      /\ \A i \in DOMAIN cancelled' : \E l \in DOMAIN cancelled : cancelled'[i] = cancelled[l] /\ l # k
      /\ \A l \in DOMAIN cancelled : l # k => \E i \in DOMAIN cancelled' : cancelled'[i] = cancelled[l]
  BY <1>2 DEF Removed
<1>4. FlipTypeOK'
  BY <1>1, <1>3 DEF LetsGo, FlipInv, FlipTypeOK
<1>5. IdsExact'
  BY <1>1, <1>3 DEF FlipInv, IdsExact, DistinctIds, Apart, Numbered
<1>6. PortLife' /\ PresentFront' /\ CountsExact'
  BY DEF FlipInv, PortLife, PresentFront, PortCurrent, CountsExact, NumRequests, EopIndices
<1>7. Progress'
  <2>1. Settled(cancelled)'
    BY <1>3 DEF LetsGo, FlipInv, Progress, Settled, InPreparation
  <2>2. Settled(requests)' /\ Settled(cpuRequests)'
    BY DEF LetsGo, FlipInv, Progress, Settled, InPreparation
  <2>3. \A i \in DOMAIN requests : requests[i].state = "Recording" => requests[i].id \notin Unclaimed'
    BY DEF LetsGo, FlipInv, Progress
  <2> QED
    BY <2>1, <2>2, <2>3 DEF Progress
<1>8. Claims' /\ Framed'
  BY DEF LetsGo, FlipInv, Claims, Framed
<1>9. HeldExact'
  <2> SUFFICES ASSUME NEW id \in DOMAIN frames
               PROVE  frames'[id] = "held" <=>
                          \/ \E i \in DOMAIN requests : requests[i].id = id /\ requests[i].frame
                          \/ \E i \in DOMAIN cancelled' : cancelled'[i].id = id /\ cancelled'[i].frame
    BY <1>1 DEF HeldExact
  <2>1. CASE id = cancelled[k].id
    <3>1. \A i \in DOMAIN requests : requests[i].id # id
      BY <2>1 DEF FlipInv, IdsExact, Apart
    <3>2. \A i \in DOMAIN cancelled' : cancelled'[i].id # id
      BY <1>3, <2>1 DEF FlipInv, IdsExact, DistinctIds
    <3> QED
      BY <1>1, <2>1, <3>1, <3>2
  <2>2. CASE id # cancelled[k].id
    <3>1. (\E i \in DOMAIN cancelled' : cancelled'[i].id = id /\ cancelled'[i].frame)
             <=> (\E i \in DOMAIN cancelled : cancelled[i].id = id /\ cancelled[i].frame)
      BY <1>3, <2>2
    <3> QED
      BY <1>1, <2>2, <3>1 DEF FlipInv, HeldExact
  <2> QED
    BY <2>1, <2>2
<1> QED
  BY <1>4, <1>5, <1>6, <1>7, <1>8, <1>9 DEF FlipInv

\* FlipQueue::Complete finds the request in one of two queues.
LEMMA CompleteKeeps ==
    ASSUME FlipInv, NEW id, LetsGo(id), Complete(id), Len(frames') = Len(frames) => OnePlace'
    PROVE  FlipInv'
<1>0. requests \in Seq(FlipRequest) /\ cancelled \in Seq(FlipRequest) /\ DistinctIds(requests) /\ DistinctIds(cancelled)
  BY DEF FlipInv, FlipTypeOK, IdsExact
<1>1. UNCHANGED <<port, cpuRequests, processing, present, closer, guest, prepared, shown>>
  BY DEF Complete
<1>2. CASE /\ Has(requests, id) /\ UNCHANGED <<cancelled, frames>>
           /\ requests' = Update(requests, [Entry(requests, id) EXCEPT !.state = "Ready"])
  <2>1. PICK k \in DOMAIN requests : requests[k].id = id
    BY <1>2 DEF Has
  <2>2. Entry(requests, id) = requests[k]
    BY <1>0, <2>1, EntryAt
  <2>3. PICK r : r = [requests[k] EXCEPT !.state = "Ready"]
    OBVIOUS
  <2>4. CompletesRequest(k, r)
    BY <1>2, <2>2, <2>3 DEF CompletesRequest
  <2>5. LetsGo(requests[k].id) /\ OnePlace'
    BY <1>2, <2>1
  <2> QED
    BY <1>1, <1>2, <2>4, <2>5, CompleteRequestKeeps
<1>3. CASE /\ Has(cancelled, id) /\ UNCHANGED requests
           /\ cancelled' = Without(cancelled, id) /\ frames' = Discard({Entry(cancelled, id)})
  <2>1. PICK k \in DOMAIN cancelled : cancelled[k].id = id
    BY <1>3 DEF Has
  <2>2. Entry(cancelled, id) = cancelled[k]
    BY <1>0, <2>1, EntryAt
  <2>3. CompletesCancelled(k)
    BY <1>3, <2>1, <2>2 DEF CompletesCancelled
  <2>4. LetsGo(cancelled[k].id) /\ OnePlace'
    BY <2>1, <2>3, CompleteFrames
  <2> QED
    BY <1>1, <1>3, <2>3, <2>4, CompleteCancelledKeeps
<1> QED
  BY <1>2, <1>3 DEF Complete

\* PrepareCpuFlip completes the flip of a guest thread.
LEMMA GpuCompletesKeeps ==
    ASSUME FlipInv, GpuCompletes
    PROVE  FlipInv'
<1>1. /\ gpu.pc = "complete" /\ Complete(gpu.id) /\ gpu' = [pc |-> "idle"]
      /\ UNCHANGED <<guest, preparations, completes, ops>>
  BY DEF GpuCompletes, GpuAt, Complete, schedulerVars
<1>2. gpu' \in GpuPlace /\ gpu'.pc = "idle"
  BY <1>1 DEF GpuPlace
<1>3. GpuHolds /\ ~GpuHolds' /\ gpu.id \in Nat \ {0}
  BY <1>1, <1>2, GpuPlaces DEF FlipInv, FlipTypeOK, GpuHolds, Working
<1>4. gpu.id \in Uncompleted
  BY <1>3 DEF Uncompleted
<1>5. Uncompleted' \subseteq Uncompleted \ {gpu.id}
  BY <1>1, <1>3 DEF FlipInv, OnePlace, Uncompleted
<1>6. Unclaimed' \subseteq Unclaimed
  BY <1>1, <1>2 DEF Unclaimed
<1>7. LetsGo(gpu.id)
  BY <1>1, <1>2, <1>4, <1>5, <1>6 DEF LetsGo
<1>8. Len(frames') = Len(frames) => OnePlace'
  BY <1>1, <1>2, <1>3 DEF FlipInv, OnePlace
<1> QED
  BY <1>1, <1>7, <1>8, CompleteKeeps

\* A priority operation completes a flip of the command stream.
LEMMA PriorityCompletesKeeps ==
    ASSUME FlipInv, SchedulerInv, PriorityCompletes
    PROVE  FlipInv'
<1>1. /\ PriorityRun /\ Len(ops') = Len(ops) /\ Complete(completes[active])
      /\ UNCHANGED <<gpu, preparations, completes, guest>>
  BY DEF PriorityCompletes, gpuVars, Complete
<1>2. active # 0 /\ active \in DOMAIN ops /\ ops[active].runs = 0
  BY <1>1 DEF PriorityRun, SchedulerInv, ActiveExact
<1>3. RunOperation(active, pending)
  <2>1. ~stop
    BY <1>2 DEF SchedulerInv, ShutdownDrains, Drained
  <2> QED
    BY <1>1, <2>1 DEF PriorityRun
<1>4. Extends(ops, ops', active)
  <2>1. OpsStep(active, pending)
    BY <1>2, <1>3, RunOperationStep DEF SchedulerInv
  <2> QED
    BY <2>1 DEF OpsStep
<1>5. /\ ops \in Seq(Operation) /\ DOMAIN ops = 1 .. Len(ops) /\ completes \in Seq(Nat \ {0})
      /\ DOMAIN completes = DOMAIN ops
  BY DEF SchedulerInv, SchedulerTypeOK, FlipInv, FlipTypeOK, OnePlace
<1>6. \A i \in DOMAIN completes : ops'[i].runs = 0 => ops[i].runs = 0 /\ i # active
  BY <1>4, <1>5 DEF Extends
<1>7. PICK id : id = completes[active]
  OBVIOUS
<1>8. id \in Nat \ {0}
  BY <1>2, <1>5, <1>7, ElementOfSeq
<1>9. id \in Uncompleted
  BY <1>2, <1>5, <1>7, <1>8 DEF Uncompleted
<1>10. /\ GpuHolds' = GpuHolds /\ guest.id # id /\ (GpuHolds => gpu.id # id)
       /\ \A i \in DOMAIN preparations : preparations[i] # id
       /\ \A i \in DOMAIN completes : ops'[i].runs = 0 => completes[i] # id
  BY <1>1, <1>2, <1>5, <1>6, <1>7 DEF GpuHolds, FlipInv, OnePlace
<1>11. Uncompleted' \subseteq Uncompleted \ {id}
  BY <1>1, <1>6, <1>10 DEF Uncompleted
<1>12. Unclaimed' \subseteq Unclaimed
  BY <1>1 DEF Unclaimed
<1>13. gpu.pc \in {"claim", "check", "record", "drop"} => gpu.id # id
  BY <1>10 DEF GpuHolds, Working
<1>14. LetsGo(id)
  BY <1>1, <1>9, <1>11, <1>12, <1>13 DEF LetsGo, FlipInv, FlipTypeOK
<1>15. Len(frames') = Len(frames) => OnePlace'
  BY <1>1, <1>5, <1>6, <1>10 DEF FlipInv, OnePlace
<1> QED
  BY <1>1, <1>7, <1>14, <1>15, CompleteKeeps

-----------------------------------------------------------------------------
(* The invariant, and what it says of the frames and of the counts.          *)

\* The port is closed and nothing has been submitted.
LEMMA FlipInvInit == SchedulerInit /\ FlipInit /\ GpuInit => FlipInv
<1> SUFFICES ASSUME SchedulerInit, FlipInit, GpuInit PROVE FlipInv
  OBVIOUS
<1>1. /\ port = ClosedPort /\ requests = << >> /\ cpuRequests = << >> /\ cancelled = << >>
      /\ processing = FALSE /\ present = [pc |-> "flip"] /\ closer = "idle" /\ guest = NoCall
      /\ frames = << >> /\ prepared = 0 /\ shown = 0 /\ gpu = [pc |-> "idle"]
      /\ preparations = << >> /\ completes = << >> /\ ops = << >>
  BY DEF SchedulerInit, FlipInit, GpuInit
<1>2. FlipTypeOK
  <2>1. port \in PortState /\ present \in PresentState /\ guest \in GuestState /\ gpu \in GpuPlace
    BY <1>1 DEF ClosedPort, PortState, PresentState, NoCall, GuestState, GpuPlace
  <2> QED
    BY <1>1, <2>1, EmptySeq DEF FlipTypeOK
<1>3. /\ DOMAIN requests = {} /\ DOMAIN cpuRequests = {} /\ DOMAIN cancelled = {} /\ DOMAIN frames = {}
      /\ DOMAIN preparations = {} /\ DOMAIN completes = {} /\ Len(frames) = 0 /\ Len(completes) = Len(ops)
  BY <1>1
<1>4. /\ ~port.opened /\ guest.id = 0 /\ gpu.pc = "idle" /\ present.pc = "flip" /\ ~GpuHolds
  BY <1>1 DEF ClosedPort, NoCall, GpuHolds, Working
<1>5. IdsExact /\ Progress /\ Framed /\ HeldExact
  BY <1>3, <1>4 DEF IdsExact, DistinctIds, Apart, Numbered, Progress, Settled, Framed, HeldExact
<1>6. PortLife /\ PresentFront /\ Claims /\ CountsExact
  BY <1>1, <1>3, <1>4 DEF PortLife, PresentFront, Claims, CountsExact
<1>7. OnePlace
  BY <1>3, <1>4 DEF OnePlace
<1> QED
  BY <1>2, <1>5, <1>6, <1>7 DEF FlipInv

\* What the invariant is for.
LEMMA FlipInvImplies == FlipInv => FramesExact /\ PortCounts
<1> SUFFICES ASSUME FlipInv PROVE FramesExact /\ PortCounts
  OBVIOUS
<1>1. requests \in Seq(FlipRequest) /\ cancelled \in Seq(FlipRequest) /\ DistinctIds(requests)
      /\ DistinctIds(cancelled) /\ Apart(requests, cancelled)
  BY DEF FlipInv, FlipTypeOK, IdsExact
<1>2. PICK all : all = requests \o cancelled
  OBVIOUS
<1>3. /\ all \in Seq(FlipRequest)
      /\ \A i \in DOMAIN all : From(all[i], requests) \/ From(all[i], cancelled)
      /\ \A k \in DOMAIN requests : \E i \in DOMAIN all : all[i] = requests[k]
      /\ \A k \in DOMAIN cancelled : \E i \in DOMAIN all : all[i] = cancelled[k]
  <2>1. Joined(all, requests, cancelled)
    BY <1>1, <1>2, ConcatProperties DEF Joined
  <2> QED
    BY <1>1, <2>1, ConcatQueue
<1>4. ToSet(all) = {all[i] : i \in DOMAIN all} /\ ToSet(requests) = {requests[i] : i \in DOMAIN requests}
  BY <1>1, <1>3, QueueElements
<1>5. FramesExact
  <2>1. ASSUME NEW id \in DOMAIN frames
        PROVE  /\ frames[id] # "twice"
               /\ frames[id] = "held" <=> \E r \in ToSet(all) : r.id = id /\ r.frame
    <3>1. frames[id] # "twice"
      <4>1. frames[id] \in {"none", "held", "shown", "discarded"}
        BY ElementOfSeq DEF FlipInv, FlipTypeOK
      <4> QED
        BY <4>1
    <3>2. frames[id] = "held" <=> \/ \E i \in DOMAIN requests : requests[i].id = id /\ requests[i].frame
                                  \/ \E i \in DOMAIN cancelled : cancelled[i].id = id /\ cancelled[i].frame
      BY DEF FlipInv, HeldExact
    <3>3. (\E r \in ToSet(all) : r.id = id /\ r.frame) <=> \E i \in DOMAIN all : all[i].id = id /\ all[i].frame
      BY <1>4
    <3>4. ASSUME NEW i \in DOMAIN all, all[i].id = id, all[i].frame
          PROVE  \/ \E k \in DOMAIN requests : requests[k].id = id /\ requests[k].frame
                 \/ \E k \in DOMAIN cancelled : cancelled[k].id = id /\ cancelled[k].frame
      BY <1>3, <3>4 DEF From
    <3>5. ASSUME NEW k \in DOMAIN requests, requests[k].id = id, requests[k].frame
          PROVE  \E i \in DOMAIN all : all[i].id = id /\ all[i].frame
      BY <1>3, <3>5
    <3>6. ASSUME NEW k \in DOMAIN cancelled, cancelled[k].id = id, cancelled[k].frame
          PROVE  \E i \in DOMAIN all : all[i].id = id /\ all[i].frame
      BY <1>3, <3>6
    <3> QED
      BY <3>1, <3>2, <3>3, <3>4, <3>5, <3>6
  <2>2. ASSUME NEW i \in DOMAIN requests, requests[i].frame PROVE requests[i].claim > shown
    BY <2>2 DEF FlipInv, Claims, Framed
  <2> QED
    BY <1>2, <1>4, <2>1, <2>2 DEF FramesExact
<1>6. PortCounts
  <2>1. ASSUME present.pc \in {"due", "present"} PROVE requests # << >> /\ requests[1].id = present.request.id
    <3>1. 1 \in DOMAIN requests /\ requests # << >>
      BY <1>1, <2>1, QueueElements DEF FlipInv, PresentFront
    <3>2. present.request \in FlipRequest
      BY <2>1 DEF FlipInv, FlipTypeOK, PresentState
    <3>3. requests[1].id = present.request.id
      BY <2>1, <3>2 DEF FlipInv, PresentFront, FlipRequest
    <3> QED
      BY <3>1, <3>3
  <2> QED
    BY <2>1 DEF PortCounts, FlipInv, CountsExact, PresentFront
<1> QED
  BY <1>5, <1>6

\* Every step of the guests, of the port, of the GPU and of the scheduler's threads.
LEMMA FlipInvStep ==
    ASSUME FlipInv, SchedulerInv, opState = "Open", [FlipsNext]_allVars
    PROVE  FlipInv'
<1>1. CASE GuestStep
  <2>1. UNCHANGED <<gpu, preparations, completes, ops>>
    BY <1>1 DEF GuestStep, schedulerVars, gpuVars
  <2>2. CASE \E index \in Indices : SubmitFlipReserve(index)
    BY <2>1, <2>2, SubmitReserveKeeps
  <2> QED
    BY <1>1, <2>1, <2>2, OpenKeeps, CloseKeeps, GuestCalls DEF GuestStep
<1>2. CASE SubmitFlipPreparation
  BY <1>2, SubmitPreparationKeeps
<1>3. CASE CloserThread
  <2>1. UNCHANGED <<gpu, preparations, completes, ops>>
    BY <1>3 DEF CloserThread, schedulerVars, gpuVars
  <2>2. CASE CancelSleep
    BY <2>1, <2>2, FlipsStay DEF CancelSleep
  <2> QED
    BY <1>3, <2>1, <2>2, CancelKeeps, CancelResetKeeps DEF CloserThread, CloserStep
<1>4. CASE PresentThread
  <2>1. UNCHANGED <<gpu, preparations, completes, ops>>
    BY <1>4 DEF PresentThread, schedulerVars, gpuVars
  <2> QED
    BY <1>4, <2>1, VblankKeeps, FlipDueKeeps, FlipPresentKeeps DEF PresentThread, PresentStep
<1>5. CASE SchedulerThreads
  <2>1. ops' = ops
    BY <1>5 DEF SchedulerThreads, Begin, GpuPassed, PopEnds, PriorityNext, PrioritySleep,
       PriorityWakes, PriorityGpuPassed, PriorityEnds, GpuFinishes
  <2>2. UNCHANGED <<port, requests, cpuRequests, cancelled, processing, present, closer,
                    guest, frames, prepared, shown, gpu, preparations, completes>>
    BY <1>5 DEF SchedulerThreads, flipVars, gpuVars
  <2> QED
    BY <2>1, <2>2, FlipsStay
<1>6. CASE PriorityCompletes
  BY <1>6, PriorityCompletesKeeps
<1>7. CASE GpuWork \/ GpuCommands
  <2>1. CASE \/ GpuFlipFull \/ GpuFlipFails \/ WaitForSubmitSlot \/ FlipWait
             \/ \E index \in Indices : WaitFlipDone(index)
    BY <2>1, GpuWaits
  <2>2. CASE \E index \in Indices : GpuFlipReserve(index)
    BY <2>2, GpuReserveKeeps
  <2>3. CASE GpuTakesPreparation \/ GpuClaims \/ GpuChecksPort \/ GpuRecords
    BY <2>3, TakesPreparationKeeps, ClaimsKeeps, ChecksPortKeeps, RecordsKeeps
  <2>4. CASE GpuSignals \/ GpuFlushes \/ GpuCompletes
    BY <2>4, SignalsKeeps, FlushesKeeps, GpuCompletesKeeps
  <2> QED
    BY <1>7, <2>1, <2>2, <2>3, <2>4 DEF GpuWork, GpuCommands
<1>8. CASE UNCHANGED allVars
  <2>1. UNCHANGED <<port, requests, cpuRequests, cancelled, processing, present, closer,
                    guest, frames, prepared, shown, gpu, preparations, completes, ops>>
    BY <1>8 DEF allVars, schedulerVars, flipVars, gpuVars
  <2> QED
    BY <2>1, FlipsStay
<1> QED
  BY <1>1, <1>2, <1>3, <1>4, <1>5, <1>6, <1>7, <1>8 DEF FlipsNext

\* The two invariants together; nothing shuts the scheduler down.
LEMMA FlipInvHolds == FlipsSpec => []FlipInv
<1>1. SchedulerInit /\ FlipInit /\ GpuInit => FlipInv /\ SchedulerInv /\ opState = "Open"
  BY FlipInvInit, SchedulerInvInit DEF SchedulerInit
<1>2. FlipInv /\ SchedulerInv /\ opState = "Open" /\ [FlipsNext]_allVars =>
          FlipInv' /\ SchedulerInv' /\ (opState = "Open")'
  <2> SUFFICES ASSUME FlipInv, SchedulerInv, opState = "Open", [FlipsNext]_allVars
               PROVE  FlipInv' /\ SchedulerInv' /\ (opState = "Open")'
    OBVIOUS
  <2>1. FlipInv'
    BY FlipInvStep
  <2>2. [SchedulerNext]_schedulerVars /\ opState' = "Open"
    BY FlipsStep
  <2> QED
    BY <2>1, <2>2, SchedulerStep
<1> QED
  BY <1>1, <1>2, PTL DEF FlipsSpec

\* FramesExact: whatever threads meet in Prepare, Complete, Flip and Cancel, a frame is held
\* exactly while one queued request has it, is never presented or given back twice, and
\* frames appear in the order of the claims.
THEOREM FramesExactHolds == FlipsSpec => []FramesExact
<1>1. FlipInv => FramesExact
  BY FlipInvImplies
<1> QED
  BY <1>1, FlipInvHolds, PTL

\* PortCounts: the counters VideoOutGetFlipStatus reads are those of the queue, and the
\* present thread's request stays at its front: no EXIT of FlipQueue::Flip is reached.
THEOREM PortCountsHolds == FlipsSpec => []PortCounts
<1>1. FlipInv => PortCounts
  BY FlipInvImplies
<1> QED
  BY <1>1, FlipInvHolds, PTL
=============================================================================
