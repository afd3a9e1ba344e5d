--------------------------- MODULE CommandScheduler ---------------------------
(***************************************************************************)
(* The command scheduler of the host GPU (commandScheduler.cpp) with its   *)
(* timeline semaphore (masterSemaphore.cpp): command buffers recorded by   *)
(* one thread at a time, submitted with increasing ticks, recycled when    *)
(* the GPU has passed their tick, and operations deferred until then.      *)
(* Normal operations run on the recording thread, inside the calls that    *)
(* wait or begin a buffer; priority operations run on a thread of their    *)
(* own.                                                                    *)
(*                                                                         *)
(* The recording thread is the GPU thread, and the main thread once the    *)
(* GPU thread has been joined (renderContext.cpp:21-47): one caller.  A    *)
(* callback may itself defer a normal operation, on either thread; the     *)
(* code's callbacks defer no priority operation.                           *)
(*                                                                         *)
(* m_operation_mutex is held across steps in one place only: the priority  *)
(* thread evaluates its wait predicate, and blocks, in two steps.          *)
(***************************************************************************)
EXTENDS Integers, Sequences, FiniteSets, FiniteSetsExt

CONSTANTS
    MaxTick,    \* bound: the last tick a behaviour submits
    MaxOps,     \* bound: operations deferred in a behaviour
    GrowStep    \* CommandBufferGrowStep

ASSUME SchedulerAssumption == MaxTick \in Nat /\ MaxOps \in Nat /\ GrowStep \in Nat \ {0}

VARIABLES
    tick,         \* m_master.CurrentTick(): what the next submission signals
    counter,      \* the timeline semaphore's value: the last tick the GPU finished
    known,        \* m_gpu_tick: the last value read from the semaphore
    bufferTicks,  \* m_buffer_ticks
    current,      \* m_current, counted from 1; 0 before the first Begin
    recording,    \* m_recording
    pending,      \* m_pending_operations
    priority,     \* m_priority_operations
    active,       \* the operation m_priority_active announces, 0 for none
    opState,      \* m_operation_state
    stop,         \* the stop token of the priority thread
    prio,         \* where the priority thread is
    sleepers,     \* the threads asleep on m_operation_available
    caller,       \* where the recording thread is, inside a call
    ops           \* every operation deferred so far, the tick it is filed under, the tick
                  \* that was being recorded (history), and how often it ran

schedulerVars == <<tick, counter, known, bufferTicks, current, recording, pending, priority,
                   active, opState, stop, prio, sleepers, caller, ops>>

Idle == [pc |-> "idle"]

SchedulerInit ==
    /\ tick = 1 /\ counter = 0 /\ known = 0
    /\ bufferTicks = <<>> /\ current = 0 /\ recording = FALSE
    /\ pending = <<>> /\ priority = <<>> /\ active = 0
    /\ opState = "Open" /\ stop = FALSE
    /\ prio = "top" /\ sleepers = {} /\ caller = Idle
    /\ ops = <<>>

(* The priority thread holds m_operation_mutex between its predicate and its sleep. *)
OperationMutexFree == prio # "blocking"

-----------------------------------------------------------------------------
(* Deferring.  `done` is `ops` with what the running callback has counted,   *)
(* `queue` what is left of m_pending_operations.                             *)

NotifyOne ==
    \/ sleepers = {} /\ UNCHANGED sleepers
    \/ \E t \in sleepers : sleepers' = sleepers \ {t}

\* Bug: an operation is filed under the last tick submitted.
BugLastTick == tick - 1

(* An operation waits for the buffer that is being recorded. *)
DeferralTick == tick

DeferOperation(done, queue) ==
    /\ Len(done) < MaxOps
    /\ UNCHANGED <<priority, sleepers>>
    /\ IF opState = "Open"
       THEN /\ ops' = Append(done, [priority |-> FALSE, tick |-> DeferralTick, at |-> tick,
                                 runs |-> 0])
            /\ pending' = Append(queue, Len(done) + 1)
       ELSE /\ ops' = Append(done, [priority |-> FALSE, tick |-> 0, at |-> 0, runs |-> 1])
            /\ pending' = queue

DeferPriorityOperation(done, queue) ==
    /\ Len(done) < MaxOps
    /\ pending' = queue
    /\ IF opState = "Open"
       THEN /\ ops' = Append(done, [priority |-> TRUE, tick |-> DeferralTick, at |-> tick,
                                 runs |-> 0])
            /\ priority' = Append(priority, Len(done) + 1)
            /\ NotifyOne
       ELSE /\ ops' = Append(done, [priority |-> TRUE, tick |-> 0, at |-> 0, runs |-> 1])
            /\ UNCHANGED <<priority, sleepers>>

RunOperation(op, queue) ==
    LET done == [ops EXCEPT ![op].runs = @ + 1]
    IN  \/ ops' = done /\ pending' = queue /\ UNCHANGED <<priority, sleepers>>
        \/ DeferOperation(done, queue)

-----------------------------------------------------------------------------
(* Submitting and beginning command buffers.                                 *)

GrownBuffers(ticks) == ticks \o [i \in 1..GrowStep |-> 0]

SubmitTicks == [bufferTicks EXCEPT ![current] = tick]

(* The first buffer after the current one whose tick the GPU has passed. *)
FindReusableBuffer(ticks, gpuTick) ==
    LET n         == Len(ticks)
        after(o)  == ((current - 1 + o) % n) + 1
        reusable  == {o \in 1..n : gpuTick >= ticks[after(o)]}
    IN  IF reusable = {} THEN 0 ELSE after(Min(reusable))

CallerMayCall == caller = Idle /\ OperationMutexFree /\ opState = "Open"

Begin ==
    /\ CallerMayCall /\ current = 0
    /\ bufferTicks' = GrownBuffers(bufferTicks)
    /\ current' = 1
    /\ recording' = TRUE
    /\ UNCHANGED <<tick, counter, known, pending, priority, active, opState, stop, prio,
                   sleepers, caller, ops>>

(* A wait for the GPU to pass `target`, then PopPendingOperations, then `next`. *)
WaitThenPop(target, refresh, next) ==
    [pc |-> "gpu", target |-> target, refresh |-> refresh, next |-> next]

(* SubmitCurrent and BeginNext.  The caller owns the frame until its pop ends.  One step:  *)
(* that the GPU reaches the new tick before the buffers are looked through is left out; in *)
(* the code the current buffer may then be found free at once.                             *)
Flush ==
    /\ CallerMayCall /\ recording /\ tick < MaxTick
    /\ LET near  == FindReusableBuffer(SubmitTicks, known)
           found == IF near # 0 THEN near ELSE FindReusableBuffer(SubmitTicks, counter)
       IN  /\ bufferTicks' = IF found # 0 THEN SubmitTicks ELSE GrownBuffers(SubmitTicks)
           /\ current' = IF found # 0 THEN found ELSE Len(SubmitTicks) + 1
           /\ known' = IF near # 0 THEN known ELSE counter
           /\ caller' = WaitThenPop(bufferTicks'[current'], near # 0, Idle)
    /\ tick' = tick + 1
    /\ recording' = FALSE
    /\ UNCHANGED <<counter, pending, priority, active, opState, stop, prio, sleepers, ops>>

(* FinishCurrent, and the Finish of Shutdown, submit, wait for that submission and begin  *)
(* the same buffer again.                                                                 *)
FinishCurrent(next) ==
    /\ recording /\ tick < MaxTick
    /\ bufferTicks' = SubmitTicks
    /\ tick' = tick + 1
    /\ recording' = FALSE
    /\ caller' = WaitThenPop(tick, TRUE, next)

(* GpuResourceManager::UnmapMemory: finish, then wait for that tick's priority operations. *)
UnmapMemory ==
    /\ CallerMayCall
    /\ FinishCurrent([pc |-> "waitPriority", target |-> tick])
    /\ UNCHANGED <<counter, known, current, pending, priority, active, opState, stop, prio,
                   sleepers, ops>>

(* TextureCache::DownloadImage and RenderContext::ShutdownGpu: finish, then drain. *)
FinishAndDrain ==
    /\ CallerMayCall
    /\ FinishCurrent([pc |-> "drain", next |-> Idle])
    /\ UNCHANGED <<counter, known, current, pending, priority, active, opState, stop, prio,
                   sleepers, ops>>

(* StreamBuffer::WaitPendingOperations: Wait(t) for an earlier tick, then its operations. *)
WaitTick(t) ==
    /\ CallerMayCall /\ recording /\ t < tick
    /\ caller' = WaitThenPop(t, TRUE, [pc |-> "waitPriority", target |-> t])
    /\ UNCHANGED <<tick, counter, known, bufferTicks, current, recording, pending, priority,
                   active, opState, stop, prio, sleepers, ops>>

GpuPassed ==
    /\ caller.pc = "gpu" /\ counter >= caller.target
    /\ known' = IF caller.refresh THEN counter ELSE known
    /\ caller' = [pc |-> "pop", next |-> caller.next]
    /\ UNCHANGED <<tick, counter, bufferTicks, current, recording, pending, priority, active,
                   opState, stop, prio, sleepers, ops>>

(* The oldest pending operation is one the GPU is known to have passed. *)
FrontIsFree == pending # <<>> /\ known >= ops[Head(pending)].tick

PopPendingOperation ==
    /\ caller.pc = "pop" /\ OperationMutexFree
    /\ FrontIsFree
    /\ RunOperation(Head(pending), Tail(pending))
    /\ UNCHANGED <<tick, counter, known, bufferTicks, current, recording, active, opState,
                   stop, prio, caller>>

PopEnds ==
    /\ caller.pc = "pop" /\ OperationMutexFree
    /\ ~FrontIsFree
    /\ recording' = TRUE
    /\ caller' = caller.next
    /\ UNCHANGED <<tick, counter, known, bufferTicks, current, pending, priority, active,
                   opState, stop, prio, sleepers, ops>>

(* A deferral by the recording thread itself; after Shutdown the operation runs at once. *)
CallerDefers ==
    /\ caller = Idle /\ OperationMutexFree /\ recording /\ opState \in {"Open", "Closed"}
    /\ DeferOperation(ops, pending) \/ DeferPriorityOperation(ops, pending)
    /\ UNCHANGED <<tick, counter, known, bufferTicks, current, recording, active, opState,
                   stop, prio, caller>>

-----------------------------------------------------------------------------
(* Waiting for priority operations.                                          *)

\* Bug: the operation that left the queue is forgotten.
BugForgetsActive(t) == ~(priority # <<>> /\ ops[Head(priority)].tick <= t)

PriorityDone(t) ==
    /\ ~(active # 0 /\ ops[active].tick <= t)
    /\ ~(priority # <<>> /\ ops[Head(priority)].tick <= t)

Drained == priority = <<>> /\ active = 0

CallerAwake == OperationMutexFree /\ "caller" \notin sleepers

(* The caller's turn in a wait loop: leave when its predicate holds, sleep otherwise. *)
CallerWait(pc, ready, next) ==
    /\ caller.pc = pc /\ CallerAwake
    /\ IF ready THEN caller' = next /\ UNCHANGED sleepers
                ELSE sleepers' = sleepers \union {"caller"} /\ UNCHANGED caller
    /\ UNCHANGED <<tick, counter, known, bufferTicks, current, recording, pending, priority,
                   active, opState, stop, prio, ops>>

WaitPriorityOperations ==
    caller.pc = "waitPriority"
        /\ CallerWait("waitPriority", PriorityDone(caller.target),
                      [pc |-> "waited", target |-> caller.target])

DrainPriorityOperations ==
    caller.pc = "drain" /\ CallerWait("drain", Drained, caller.next)

WaitReturns ==
    /\ caller.pc = "waited"
    /\ caller' = Idle
    /\ UNCHANGED <<tick, counter, known, bufferTicks, current, recording, pending, priority,
                   active, opState, stop, prio, sleepers, ops>>

-----------------------------------------------------------------------------
(* The priority thread.                                                      *)

(* The loop condition and the wait predicate, with the lock held. *)
PriorityNext ==
    /\ prio = "top"
    /\ IF stop THEN prio' = "exited" /\ UNCHANGED <<priority, active>>
       ELSE IF priority # <<>>
            THEN /\ active' = Head(priority)
                 /\ priority' = Tail(priority)
                 /\ prio' = "gpu"
            ELSE prio' = "blocking" /\ UNCHANGED <<priority, active>>
    /\ UNCHANGED <<tick, counter, known, bufferTicks, current, recording, pending, opState,
                   stop, sleepers, caller, ops>>

PrioritySleep ==
    /\ prio = "blocking"
    /\ sleepers' = sleepers \union {"priority"}
    /\ prio' = "asleep"
    /\ UNCHANGED <<tick, counter, known, bufferTicks, current, recording, pending, priority,
                   active, opState, stop, caller, ops>>

PriorityWakes ==
    /\ prio = "asleep" /\ "priority" \notin sleepers
    /\ prio' = "top"
    /\ UNCHANGED <<tick, counter, known, bufferTicks, current, recording, pending, priority,
                   active, opState, stop, sleepers, caller, ops>>

(* m_master.Wait(operation.tick). *)
PriorityGpuPassed ==
    /\ prio = "gpu" /\ counter >= ops[active].tick
    /\ known' = IF known >= ops[active].tick THEN known ELSE counter
    /\ prio' = "run"
    /\ UNCHANGED <<tick, counter, bufferTicks, current, recording, pending, priority, active,
                   opState, stop, sleepers, caller, ops>>

PriorityRun ==
    /\ prio = "run"
    /\ IF stop THEN UNCHANGED <<ops, pending, priority, sleepers>>
               ELSE RunOperation(active, pending)
    /\ prio' = "ended"
    /\ UNCHANGED <<tick, counter, known, bufferTicks, current, recording, active, opState,
                   stop, caller>>

\* Bug: nobody is told.
BugEndsSilently ==
    /\ prio = "ended"
    /\ active' = 0
    /\ prio' = "top"
    /\ UNCHANGED <<tick, counter, known, bufferTicks, current, recording, pending, priority,
                   opState, stop, sleepers, caller, ops>>

PriorityEnds ==
    /\ prio = "ended"
    /\ active' = 0
    /\ sleepers' = {}
    /\ prio' = "top"
    /\ UNCHANGED <<tick, counter, known, bufferTicks, current, recording, pending, priority,
                   opState, stop, caller, ops>>

-----------------------------------------------------------------------------
(* Shutdown: drain, stop and join the priority thread.                       *)

Shutdown ==
    /\ CallerMayCall
    /\ opState' = "Draining"
    /\ IF recording
       THEN FinishCurrent([pc |-> "drain", next |-> [pc |-> "stop"]])
       ELSE /\ caller' = [pc |-> "drain", next |-> [pc |-> "stop"]]
            /\ UNCHANGED <<tick, bufferTicks, recording>>
    /\ UNCHANGED <<counter, known, current, pending, priority, active, stop, prio, sleepers,
                   ops>>

RequestStop ==
    /\ caller.pc = "stop"
    /\ stop' = TRUE
    /\ caller' = [pc |-> "notify"]
    /\ UNCHANGED <<tick, counter, known, bufferTicks, current, recording, pending, priority,
                   active, opState, prio, sleepers, ops>>

(* notify_all, without the mutex. *)
NotifyStop ==
    /\ caller.pc = "notify"
    /\ sleepers' = {}
    /\ caller' = [pc |-> "join"]
    /\ UNCHANGED <<tick, counter, known, bufferTicks, current, recording, pending, priority,
                   active, opState, stop, prio, ops>>

Join ==
    /\ caller.pc = "join" /\ prio = "exited"
    /\ opState' = "Closed"
    /\ caller' = Idle
    /\ UNCHANGED <<tick, counter, known, bufferTicks, current, recording, pending, priority,
                   active, stop, prio, sleepers, ops>>

(* The GPU finishes the next submission (external: the Vulkan queue). *)
GpuFinishes ==
    /\ counter < tick - 1
    /\ counter' = counter + 1
    /\ UNCHANGED <<tick, known, bufferTicks, current, recording, pending, priority, active,
                   opState, stop, prio, sleepers, caller, ops>>

-----------------------------------------------------------------------------
CallerStep ==
    \/ GpuPassed \/ PopPendingOperation \/ PopEnds
    \/ WaitPriorityOperations \/ DrainPriorityOperations \/ WaitReturns
    \/ RequestStop \/ NotifyStop \/ Join

PriorityStep ==
    \/ PriorityNext \/ PrioritySleep \/ PriorityWakes \/ PriorityGpuPassed \/ PriorityRun
    \/ PriorityEnds

CallerCalls ==
    \/ Begin \/ Flush \/ UnmapMemory \/ FinishAndDrain \/ CallerDefers \/ Shutdown
    \/ \E t \in 1..MaxTick : WaitTick(t)

SchedulerNext == CallerCalls \/ CallerStep \/ PriorityStep \/ GpuFinishes

(* Both threads run and the GPU finishes what it is given; nobody has to call. *)
SchedulerFairness ==
    WF_schedulerVars(CallerStep) /\ WF_schedulerVars(PriorityStep)
        /\ WF_schedulerVars(GpuFinishes)

SchedulerSpec == SchedulerInit /\ [][SchedulerNext]_schedulerVars /\ SchedulerFairness

-----------------------------------------------------------------------------
(* A buffer that is being recorded is not one the GPU still executes, and an operation *)
(* deferred while a buffer was recorded has not run before the GPU finished that buffer *)
(* (SubmitCurrent, FindReusableBuffer, PopPendingOperations).                           *)
NothingBeforeTheGpu ==
    /\ recording => bufferTicks[current] <= counter
    /\ \A i \in DOMAIN ops : ops[i].runs > 0 => ops[i].at <= counter

(* An operation runs at most once; WaitPriorityOperations(t) returns when every priority *)
(* operation deferred for a tick up to t has run, although only the head of the queue    *)
(* and the active tick are inspected; and when Shutdown has joined the priority thread,  *)
(* every operation ever deferred, by callers or by callbacks, has run.                   *)
OperationsExact ==
    \A i \in DOMAIN ops :
        /\ ops[i].runs <= 1
        /\ caller.pc = "waited" /\ ops[i].priority /\ ops[i].tick <= caller.target
               => ops[i].runs = 1
        /\ opState = "Closed" => ops[i].runs = 1

(* No thread misses a wake-up: when nothing but a new call can happen, the recording    *)
(* thread has returned from its call, or waits in Shutdown for the priority thread to   *)
(* exit, and every priority operation whose tick has been submitted has run.  (Neither  *)
(* thread can spin.)                                                                    *)
SchedulerSettles ==
    ~ENABLED (CallerStep \/ PriorityStep \/ GpuFinishes) =>
        /\ caller = Idle \/ caller.pc = "join"
        /\ \A i \in DOMAIN ops :
               ops[i].priority /\ ops[i].tick < tick => ops[i].runs = 1

(* commandScheduler.cpp:120-121, on a Shutdown that is under way: "The owning thread will *)
(* finish shutdown after this callback returns."                                          *)
ShutdownFinishes == opState = "Draining" ~> opState = "Closed"
=============================================================================
