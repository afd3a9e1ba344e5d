# Verification of the emulator's kernel objects and GPU back end

MagnusPS5 runs guest programs for a console on a PC. Guest code is native code
in host threads; what it calls (kernel objects, graphics, audio, files) is
reimplemented in C++ under `src/src/`. Whether a game hangs, loses a frame,
shows stale memory or dies at random is decided in two places: the monitors of
`src/src/kernel/` that every guest thread goes through, and the host side of
the GPU, where guest threads, the thread that runs the guest's command stream,
the present thread and the host GPU meet (command scheduler, flip queue, page
protection and buffer cache). This project specifies both in TLA+, checks them
with TLC on small instances, and proves with TLAPS, for every number of threads,
every count, every queue capacity and every number of pages, the safety
properties of all the monitors, of the command scheduler, of the flips and of
the caches of guest memory, and the refinement of the abstract wait on an
address.

* [Inventory](#inventory)
* [Modules](#modules): what state and which actions stand for which code
* [Runs](#runs): what TLC checks, with which bounds and which fairness
* [Proofs](#proofs): what TLAPS establishes, and along which argument
* [Findings](#findings)
* [Limits](#limits): what is only checked, and what is not modelled
* [Plan](#plan)

## Inventory

### Synchronisation objects (modelled)

| Component | State | Operations | What makes it correct |
|---|---|---|---|
| Kernel semaphore, `kernel/semaphore.cpp` `KernelSemaPrivate` | `m_status`, `m_count`, the queue `m_waiting_threads` of pointers to records on the callers' stacks | create, wait (need, timeout), poll, signal, cancel, delete | no lost wake-up, no lost or doubled token, the queue is exactly the callers, cancel reports whom it cancels, nobody inside a freed object, priority order |
| POSIX semaphore, same file, `PosixSemPrivate` | `m_count`, `m_waiters`, a copy of both in the guest's `sem_t`, the registry `g_posix_sems` | init, destroy, wait, timedwait, trywait, post, getvalue | one `notify_one` per post is enough, the copy in guest memory is right, the count keeps its bounds |
| Event flag, `kernel/eventFlag.cpp` | `m_bits`, `m_status`, `m_waiting_threads` | wait and poll (and/or, clear modes), set, clear, cancel, delete | no sleeper beside its bits, cancellation reaches the threads it counted, deletion waits for late waiters |
| Event queue, `kernel/eventQueue.cpp` | `m_events` with trigger state, timers and pending occurrences; `m_closed`; the handle table `g_equeues` | add, trigger, delete event; wait; delete queue; HR timers | queued occurrences reported once and in order, enough signals, waits end |
| Mutex and condition variable, `kernel/pthread.cpp` | `owner`, `count`; `waiters`, `sequence`, each thread's `cond_sequence` | lock, trylock, timed lock, unlock; wait, timed waits, signal, signalto, broadcast | a wait returns OK exactly when it was woken, gives the mutex back as deep as it was, and returns |
| Read/write lock, same file | `writer`, readers per thread, `reader_count`, `waiting_writers` | read, write, try and timed variants, unlock | writers exclude everybody, writers are not starved, a writer that gives up is forgotten |
| Once, same file | a state per object, one condition variable for all | `pthread_once` | the routine runs once, nobody returns before it has |
| Wait on address, `kernel/syncOnAddress.cpp` | portable: registry of entries with lists of waiters; Linux: nothing but the kernel's futex | wait (32 or 64 bits), wake n | a wake acts on the threads that came first and those return success; no registry entry leaks or is split in two |

These objects do not call each other. They share three things: the host layer
`common/threads.cpp` (recursive mutex, condition variable), the clock, and the
rule that a sleeping guest thread comes back every 10 ms, leaves the lock and
runs pending guest signal handlers (`KernelDispatchPendingSignals`), which may
call into the object the thread sleeps on. The graphics code reaches the event
queues from its own threads: end-of-pipe and flip completions trigger events.

### Host GPU (modelled)

| Component | State | Operations | What makes it correct |
|---|---|---|---|
| Command scheduler, `renderer/commandScheduler.cpp`, `masterSemaphore.cpp` | the tick being recorded, the GPU's timeline counter and the last value read of it, command buffers with the tick that frees each, pending and priority operations, the state of shutdown | begin, flush, finish, wait, defer, defer with priority, wait for and drain priority operations, shutdown | nothing runs, and no buffer is reused, before the GPU has passed it; every operation runs once; nobody misses a wake-up |
| Flip queue and ports, `presentation/videoOut.cpp` | port (open, closing, generation, counts), requests of the GPU and of guests, cancelled ones, the frames they hold | open, close, submit, prepare, complete, wait for a slot, wait for a flip, present, cancel | no frame leaks or is freed twice, counts agree with the queue, flips end |
| GPU thread, `guest_gpu/graphicsRun.cpp`, `renderer/sync.cpp` | its place in a flip; commands and preparations from other threads | flips of the command stream and of guests, WaitFlipDone | it neither strands a flip nor waits for itself |
| Page and memory tracking, `pageManager.cpp`, `regionManager.h`, `memoryTracker.h` | watcher counts and host protection per page, CPU and GPU dirty pages | mark, clear, unmark, restore | protection follows the watchers exactly |
| Buffer cache and image tracking, `cache/bufferCache.cpp`, `textureCache.cpp`, `gpuResourceManager.cpp` | cached buffers, GPU-modified ranges, deferred downloads, what an image watches and whether it is dirty | fault, invalidate, upload, GPU write, read back, unmap, garbage collection, refresh | nobody reads a stale value, but for the two cases under Findings and Limits |

How they interact: a flip of the command stream is reserved in the flip queue,
prepared on the GPU thread, and completed by a priority operation of the
scheduler when the GPU has passed its tick; the present thread shows it at a
vblank, while guests open and close ports. A guest access to a protected page
faults into the cache, which may send a command to the GPU thread and wait; the
GPU thread runs deferred downloads of the scheduler inside its own calls.

### Other parts

| Component | State and operations | Hard behaviour |
|---|---|---|
| Thread life cycle, keys, attributes, `kernel/pthread.cpp` | host threads, tables | start and exit of host threads |
| Guest signals, `libs/libKernel.cpp` | handler and mask tables, pending bits | asynchronous delivery at safe points (their effect on the monitors is modelled) |
| Guest memory, `kernel/memory.cpp` | direct and flexible memory maps | splitting and merging of ranges, sequential under one mutex |
| End-of-pipe registrations, `renderContext.cpp` | list of registered queues | walked as a copy while guests delete and register |
| Command processor, `graphicsRun.cpp`, `pm4Handlers.cpp` | rings, register state | waits on memory and suspension; the rest is tables |
| Images the GPU renders to, pipelines, draw recording | Vulkan objects | depends on formats and sizes |
| Shader recompiler, loader, audio, network, file system, window, other libraries | parsers, translators, host I/O | sequential or host-bound |

`PROJECT.json` lists all of them with the reason for what is left out, and,
under `hazards`, what is hard to test in the code at the line where it bites.

## Modules

Every specification follows the same rule: a method of a monitor holds its
mutex except where it sleeps, so that an action is one stretch of code between
two points where the mutex is free. Where the code uses two locks one after the
other (handle table and queue, entry and registry) the stretches are separate
actions. `pc[t]` says where a thread is: outside (`idle`), asleep in the
condition variable, out of it and on the way back to the mutex (the window in
which signal handlers run), draining, spinning, and so on. Time is abstract: a
wait has no deadline (`none`), one that is still ahead (`running`) or one that
has passed (`expired`), and `Expire` may happen at any moment, so that every
race of a deadline with a signal is explored. A condition variable may return
for no reason, as `std::condition_variable_any` may.

A definition whose comment begins with "Bug:" is a broken variant of the
definition below it. No specification uses it; `PROJECT.json` (`mutants`) pairs
each property with the variant that violates it, which shows that the property
can fail.

**KernelSema.** `waiting` is `m_waiting_threads`, `waiter` the `WaitingThread`
records on the callers' stacks. `WaitReturns`, `Poll` and `WaitBlocks` are
`Wait` up to its return or its sleep; `Wake`, `Recheck` are its loop; `Signal`
with `Budget` and `Granted` is `Signal` and `WakeWaiters` (one walk over the
queue, granting whoever fits in what is left); `Cancel`, `Delete` and
`DeleteDrain` the rest. `m_count` keeps the width of an int (`IntMax`, `Wrap`)
because `KernelSignalSema` refuses neither negative counts nor sums that
overflow. Two history variables, `ledger` and `owed`, record what calls
returned to the guest; no guard reads them.

**PosixSem.** `guest` is the `sem_t` in guest memory, written by `SyncGuest` at
the end of each stretch. `notify_one` wakes one sleeper (`Signal`). Destroying
or re-initialising a semaphore that a thread waits on breaks the contract of
`sem_destroy`; it is excluded by a guard of `SemInit` and `SemDestroy`.

**EventFlag.** `Enter` is the common beginning of `Set`, `Clear`, `Cancel` and
the destructor: carried out when `m_status` is Set, spinning (every 10 us)
while a cancellation drains. `Retry` is the spinning call that gets its turn;
`CancelDrained` and `DeleteDrained` end the draining loops. `single` is
`m_single_thread`, chosen by the creator. A call that finds the flag Deleted
makes the emulator exit (`EXIT_NOT_IMPLEMENTED`) and is not a step. `victims`
is history: whom the cancellation in progress counted.

**EventQueue.** A call is `Pin` (the lookup in `g_equeues`, which keeps a
`shared_ptr`) followed by the method under `m_mutex`; the queue may close in
between. Events are of the four kinds that the emulator registers (level and
edge user events, queued events, one-shot timers). `Harvest` is the
loop of `GetTriggeredEvents` over the events with an array of limited size:
`Offers` what an event has for it, `Room` what earlier events leave of the
array, `Collect` what it takes from one event. A key is used with user and queued
events or with timers, which have a filter of their own. `issued` and `reported` are history: each
trigger's data is its number, so that a lost, doubled or reordered report shows.

**AddressWait** is what waiting on an address promises: a queue of threads, a
wake that takes the first n in one step, success for whoever was taken.
**SyncOnAddress** is the portable implementation (registry, entries, waiter
lists, erasure of empty entries in a second critical section) and refines
AddressWait: the abstract queue is the concatenation of the entries' lists
without the threads already asked to return, and `woken` is the set of those.
`SeqFilter` holds the one list operation both need (`std::list::remove`, a loop
that skips elements) as a recursive function that proofs can unfold.
**SyncOnAddressFutex** is the Linux implementation on FUTEX_WAIT slices of
10 ms; it does not refine AddressWait (see Finding).

**PthreadCond** has one mutex (of a normal or a recursive type) and one
condition variable. Both are host monitors polled every 10 ms, so that an action
is one stretch under the inner `std::mutex`; since PthreadCondTimedwait holds the
condition's lock while it releases the guest mutex, queueing and unlocking are
one action (`CondWaitEnter`). `CondReady` is the test of `sequence` and
`cond_sequence`; `CondRelock` takes the mutex back `RelockCount` deep. `depth`
and `woken` are history: what the guest believes it holds, and whether somebody
woke it. **PthreadRwlock** keeps the per-thread reads, their total and
`waiting_writers` separately, as the code does. **PthreadOnce** has several once
objects on the one condition variable of the emulator.

**CommandScheduler.** `tick` is the tick that the next submission will signal,
`counter` what the GPU has reached (moved by `GpuFinishes`, the environment),
`known` what the scheduler last read. `caller` is the recording thread inside a
call, `prio` the priority thread; `sleepers` are the threads asleep on
`m_operation_available`, on which three predicates wait, so that `NotifyOne`
may wake the wrong one. Callbacks may defer again while they run
(`RunOperation`). `ops` keeps each operation with the tick it is filed under,
the tick at which it was deferred and how often it ran.

**FlipQueue** is `VideoOutConfig` and `FlipQueue` of one port: actions of guest
threads, of the thread that closes the port, of the present thread and the
pieces (`PrepareClaim`, `PrepareFrame`, `Complete`, ...) that **GpuFlips**, the
composition with CommandScheduler, performs on the GPU thread and as a priority
operation. A request that reaches an `EXIT` of the code ends the behaviour
(`gpu.pc = "exit"`) or violates `PortCounts`.

**PageTracking** is the page manager and the dirty bits of one region.
`UpdateWatchers` is the whole of `UpdateRegionWatchers`: counts, and the joined
runs of pages protected with one call each (a recursive function over the
pages). **BufferCoherence** adds guest threads, the caches and the GPU thread.
Contents are abstract: `copies[p]` is the set of places (`mem`, `buf`, images)
that hold the last value written to page `p`. An access is refused or allowed by
the host protection; a refused one goes through `HandleFault` and is tried
again. `spoiled` marks pages that are used while the download of their dropped
buffer is pending (see Findings); `halted` is an `EXIT`, among them the one that
ends an upload in which a due download enters the memory tracker again
(`ReenterUpload`). A GPU write takes its pages out of every image; only a
formatted one marks the images (`MarkImages`), and the auxiliary field `missed`
of an image keeps the pages it has lost that way while it was clean.

`MCxxx` modules give the constants of the runs; `xxxProofs` hold the theorems,
`PthreadProofs` also those of PosixSem, `HostGpuProofs` those of CommandScheduler
and GpuFlips, `BufferCoherenceProofs` those of PageTracking and BufferCoherence.

## Runs

Threads are model values. `CHECK_DEADLOCK FALSE` everywhere: guests may stop
calling, and a deleted object accepts no more calls. Symmetry under permutation
of the threads is used in runs without liveness properties only.

| Run | Instance | Checks |
|---|---|---|
| `sema_safety` | 3 threads, two priorities, max 2, needs 0..3, signals 1 and 2, cancels -1, 0, 3 | `QueueIsCallers`, `NoCallerOutlivesSema`, `NoMissedGrant`, `TokenConservation`, `CancelAccounting`, `NoPriorityInversion` |
| `sema_liveness` | 3 threads, FIFO, max 1 in 2-bit ints, signals -1 and IntMax | `TokenConservation` under overflow, `WaitEnds`, `DeleteEnds` |
| `event_flag` | 3 threads, 2 bits, all wait and clear modes | `NoLostSet`, `CancelReachesVictims`, `WaitersLeaveBeforeFree`, `CallsEnd` |
| `event_queue` | 3 threads, four pairs of event kinds, arrays of 1 and 2, 2 triggers per registration | `QueuedInOrder`, `SignalPerTrigger`, `WaitEnds` |
| `address_wait` | 3 threads, 2 words, wakes of 1 and of everybody, 4 entries | `WaitersReachable`, `NoEntryLeaks`, `ImplementsAddressWait`, `WaitEnds` |
| `futex` | 2 threads, 2 x 2 word halves, wakes of 0, 1, 2 | `NoLostStore`, `WaitEnds` |
| `futex_lost_wake` | 2 threads, one high half | `WokenSucceeds`, violated |
| `pthread` | one object per behaviour. Condition: 3 threads, normal and recursive mutex to depth 2, 7 calls. Rwlock: 3 threads, 2 reads each. Once: 3 threads, 2 objects. `sem_t`: 4 threads, largest value 3 | `CondWakeExact`, `CondMutexDepth`, `CondWaitEnds`; `RwExclusion`, `RwWritersCounted`, `RwWriterGetsIn`; `OnceExactlyOnce`; `GuestMirror`, `NoLostPost`, `SemWaitEnds` |
| `host_gpu` | flips: 3 flips and up to 3 generations of the port (4 together), queue of 2; or operations: 4 ticks, 3 operations, buffers grown by 2 | `NothingBeforeTheGpu`, `OperationsExact`, `SchedulerSettles`, `FramesExact`, `PortCounts`, `FlipsSettle` |
| `scheduler_shutdown` | 2 ticks, 1 operation | `ShutdownFinishes`, violated |
| `guest_memory` | 3 pages in blocks of 2, 2 guest threads, an image across the blocks, 1 pending download | `WatchersExact`, `Coherent` |
| `buffer_owner` | the same | `ReadbackFindsOwner`, violated |

Why the bounds are enough:

* Three threads give the semaphore two waiters of different need or priority
  and one caller, or one waiter, one deleter and one latecomer; a lost wake-up
  or an inversion needs no more than that. Signal handlers add a caller without
  adding a thread, because a thread in the window of its own wait may call.
  Needs 0 and 3 lie outside both guards, cancel counts on each side of theirs.
* `NoLostPost` compares the number of tokens with the number of awake threads:
  four threads allow two of each on either side, and one whose deadline passes
  at the same time. `SignalPerTrigger` does the same with three, of which one
  triggers; a larger instance (`MaxIssued` 3) was run once and passed, and the
  theorem covers the rest.
* Overflow does not depend on the width; an int of two bits reaches it at once.
* The flag's two bits let "and" and "or" requests differ and compete.
* Two events of different kinds and arrays of one and two entries reach every
  branch of the walk: an array that ends before, inside and after
  a run of pending occurrences.
* At most one entry per thread, and one in the registry, can be referenced;
  four entries for three threads is therefore no restriction (the ASSUME of
  SyncOnAddress demands it).
* The wake-up races of a condition wait need a waiter, a signaller and a second
  waiter or locker; seven calls let the third thread wait again after a timeout.
  The four pthread objects share no state, so that a behaviour about one of them
  loses nothing (`MCPthread` explores the sum and not the product).
* A queue of two flips is full with two, so that the third flip meets every
  wait for a slot; two generations and a close reach each stage of a request
  with the port closed and opened again. Ticks are bounded by `MaxTick`; the
  flips to come always keep the ticks they need.
* Page runs differ only in where protection changes: three pages give a run
  that is cut, one that spans a page in between and one that starts late. The
  image crosses a block boundary, so that it can be half in a buffer. The second
  guest thread is restricted to faults on the page that image and buffer share,
  while the other block has no buffer and the image has missed no write. An image
  that has missed a write of its page in the first block is followed while the
  other block has no buffer; a behaviour with a spoiled page, or with the other
  page missed, is cut (`Bounded`). Without that the instance does not finish in
  minutes; the theorems have no such bound.
* `MaxIssued` is a bound inside a guard (`TriggerEvent`): the code has no
  limit on pending occurrences. `MaxCalls`, `MaxDepth`, `MaxTick`, `MaxOps`,
  `MaxFlips`, `MaxGeneration` and `MaxRetired` bound the pthread and GPU models in the
  same way.

Fairness. Liveness is checked under fairness of steps that the code performs
without help: a sleeping thread comes back (a slice or poll interval
of 10 ms, or the wait's own timeout), a thread that is awake gets the mutex,
deadlines pass, the 10 us loops look again. The mutexes are free infinitely
often because every critical section ends, and signal handlers are assumed to
return. No guest call is assumed to happen, except that guests unlock what they
hold: `CondFairness` assumes unlocks of the mutex, and `RwFairness` unlocks of the
rwlock and (strongly) that a reader does not go on for ever locking again what it
reads already, without which no implementation lets a writer in. In EventQueue
the weak fairness of a thread that wants the mutex is written as "it is not awake
for ever", which is the same and cheaper to check. For timed waits no early return is
assumed: in PosixSem, EventFlag and EventQueue only an endless wait is fair in
its 10 ms poll.

`EventFlag!CallsEnd` holds under a condition which is part of the property: the
loops of Cancel and of the destructor end *if* threads stop coming back to
wait. `Wait` does not look at `m_status` before it sleeps, so that a thread that
waits again whenever it is cancelled may keep `m_waiting_threads` positive at
each look of the loop; without the condition TLC finds that behaviour.

Similarly `EventQueue!SignalPerTrigger` is stated for queues of edge and queued
events. With a level event or a timer the thread that was signalled may take
that one and leave the new occurrence to sleepers, who then find it at their
next poll (`WaitEnds` shows they do, unless they are in a timed wait, which
ends at its timeout).

`SchedulerSettles` and `FlipsSettle` are liveness stated as an invariant: in a
state where nothing but a new call of a guest is enabled, everything that was
asked for has been done. No thread of these modules can spin, every step of the
program uses up ticks, operations or requests, and so the program does reach
such a state when guests stop calling; a missed wake-up or a cycle of waiting
threads is then a state with nothing enabled and something left over.
`FlipsSettle` names one exception, `WaitsForItself`: WaitFlipDone, on the GPU
thread, for a buffer index whose CPU flip is queued behind it.

## Proofs

The constants are arbitrary subject to the named assumptions of the modules
(`SemaAssumption`, `PosixSemAssumption`, `FlagAssumption`, `EqueueAssumption`, `AddressAssumption`,
`FutexAssumption`, `CondAssumption`, `RwAssumption`, `SchedulerAssumption`,
`FlipAssumption`, `LastPageAssumption`, `CoherenceAssumption`): finitely many
threads, counts that are ints, what KernelCreateSema and sem_init check, a pool
that grows by at least one buffer, finitely many images, none of which is
guest memory or a buffer.
TLC evaluates them on the runs, and each inductive invariant below was checked
by TLC on the instance of a run before it was proved.

Three techniques recur. *Recursive functions* (`Budget`, `Sums`, `Kept`) are used
through their equations, and that the equations have a solution is a lemma.
*Induction* is stated over a set instead of an operator, which the provers cannot
instantiate: the least number at which a fact fails (`LeastElement`,
`SmallestNat`), or a set of numbers or sequences closed under one more step
(`PrefixInduction`, `CountUp`, `SeqInduction`, `SubsetInduction`). *Counters* of the code are
compared with the cardinality of the set of threads they stand for, which a step
changes by one element.

**KernelSemaProofs.** `TypeCorrect` (`TypeOK`) first, because the other steps
need the types. Then the inductive invariant

    SemaInv == QueueIsCallers /\ Lifecycle /\ QueuedNeeds
               /\ NoMissedGrant /\ PriorityOrder /\ CountInRange

`NoMissedGrant` alone is not inductive. That a signal leaves no satisfiable
waiter behind depends on each queued waiter being examined once
(`QueueIsCallers`, no duplicates), and on needs being positive (`QueuedNeeds`,
from the guard of Wait): only then is a grant the same as a drop of the budget.
`Lifecycle` ties `freed`, `m_status` and the deleting thread together, and gives
`NoCallerOutlivesSema`. `PriorityOrder` makes the walk meet the better priority
first, with at least as much budget, which is `NoPriorityInversion`. The walk is
`Budget`: `BudgetEquations`, `BudgetBounds` (it never grows, and never falls
below zero from above) and `GrantedAt` (a waiter is granted when its need fits).

`CancelAccounting` is inductive together with `SemaInv`: decisions are made about
pending waiters only (`GrantedPending`, `DecideKeepsVictims`), so the set of
cancelled callers grows by the disjoint set that Cancel counts and loses the
caller that returns. For `TokenConservation` the tokens in grants are the sum of
`Holdings` along the queue. WakeWaiters raises each element by what `Budget`
drops at its position, so that the sum rises by what m_count loses
(`SumsShift`, `SignalMovesTokens`); a caller that joins or leaves inserts or
removes one element (`SumsInsert`); and every wrapped addition shifts the balance
by a multiple of 2^w (`WrapShift`, `ModShift`).

Results: `TypeCorrect`, `SemaInvariant`, `QueueCorrect`, `NoLostWakeup`,
`CountBounded`, `DeleteSafe`, `PriorityRespected`, `CancelsAccounted`,
`TokensConserved`: every safety property of the two semaphore runs.

**EventFlagProofs.** The inductive invariant

    FlagInv == FlagTypeOK /\ WaitersCounted /\ DeadlinesInside /\ NoLostSet
               /\ CancelReachesVictims /\ WaitersLeaveBeforeFree

The draining loops of Cancel and of the destructor look at `m_waiting_threads`;
that zero there means nobody inside is `WaitersCounted`, a cardinality. Fewer
bits satisfy no request that more bits did not (`FewerBitsSatisfyNobody`), so
that clearing and taking bits cannot strand a sleeper.

Results: `NoLostSetHolds`, `CancelReachesVictimsHolds`,
`WaitersLeaveBeforeFreeHolds`.

**EventQueueProofs.** The inductive invariant

    EqueueInv == EqueueType /\ KeysDistinct /\ EventsFine /\ AbsentUnreported

`EventsFine` holds of each registered event: its kind is one its key is used
with, only queued events have pending occurrences, and those of a queued event
continue what was reported (`InOrder`). It needs three more facts. A key has at
most one event (`KeysDistinct`), or two would share what was reported. A key
without an event has reported nothing (`AbsentUnreported`), or a new
registration would begin in the middle. And no deadline triggers a queued
event: HR timers have a filter of their own (`eventQueue.cpp:532`), which is the
assumption on `Uses`. The walk of GetTriggeredEvents is taken apart by lemmas:
what `Collect` leaves of one event (`CollectKeeps`), the room that is left for
it (`RoomFacts`, through the equations of `Sums`), and that joining what is left
of all events keeps their order (`FlattenThin`, through the equations of
`FlattenSeq`).

For `SignalPerTrigger` the count of `NoLostPost` becomes a sum over the events:
AddEvent and TriggerEvent raise one element by at most one (`SumsInsert`,
`SumsBump`) and wake a thread, a report lowers at least the first triggered
event, for which the whole array is free (`HarvestReady`, `SumsCompare`), and an
awake thread that leaves without a report has found nothing. A closed queue is
empty (`ClosedEmpty`), so that the waits it ends leave nothing behind.

Results: `EqueueInvariant`, `QueuedInOrderHolds`, `SignalPerTriggerHolds`.

**SyncOnAddressProofs.** The inductive invariant

    AddrInv == AddrTypeOK /\ ListsExact /\ HomeRegistered /\ RequestedInside
               /\ EraserHasEntry /\ NoEntryLeaks

The way out of WaitPortable unlocks the entry before it locks the registry to
erase it, and another thread may come back to the entry in between. What keeps
the registry whole is that the list of an entry is exactly the threads inside
that refer to it (`ListsExact`) and that they refer to the registered entry
(`HomeRegistered`); both together say that an entry with a waiter is never
erased. `ImplementsAddressWaitHolds` is the step simulation: at most one entry
has waiters, so that the abstract queue, the concatenation of all lists, is the
list of that one without the threads already asked; a store, a wait, a timeout
and a return map to the abstract action or to a stutter, and the loop of
WakePortable (`Take`) to one abstract wake, because filtering the first n of a
list without duplicates out of it leaves the rest in order.

Results: `WaitersReachableHolds`, `NoEntryLeaksHolds`,
`ImplementsAddressWaitHolds`.

**SyncOnAddressFutexProofs.** `NoLostStore` is inductive with the types: a wake
by count takes everybody when the count is at least their number
(`WakeAllTakesAll`). Result: `NoLostStoreHolds`.

**PthreadProofs**, POSIX semaphore. The inductive invariant

    SemInv == PosixSemTypeOK /\ WaiterCount /\ ClockInside /\ GuestMirror /\ NoLostPost

`GuestMirror` speaks of the threads that wait while `SyncGuest` copies
`m_waiters`, so `WaiterCount` (`m_waiters` is their number) is needed; a
deadline can only wake a thread that is inside (`ClockInside`). For `NoLostPost`
the argument is a count: a post adds one token and one awake thread, an awake
thread that leaves or goes back to sleep either takes a token or has found none.

Results: `PosixSemInvariant`, `PosixTypeCorrect`, `MirrorCorrect`,
`PostWakesEnough`.

**PthreadProofs**, pthread objects. For the rwlock

    RwInv == RwTypeOK /\ RwExclusion /\ RwWritersCounted /\ SleepersReadNothing

`RwExclusion` says that `reader_count` is the number of read locks held; as a
set of pairs (thread, depth) it has a cardinality, and each action adds or
removes one pair. The same argument with the set of threads that wait to write
gives `RwWritersCounted`. `SleepersReadNothing` is the strengthening: a thread
that sleeps for a read lock holds none, or its bound would not hold when it gets
in. For once, `OnceInv` adds that a call beyond its wait belongs to an object
whose state says so (`OncePublished`). For the condition variable

    CondInv == CondTypeOK /\ CondDepthKept /\ CondMutexDepth
               /\ CondQueueDistinct /\ CondQueueExact

A wait is woken when the queue no longer has it, when one of the two sequence
numbers has moved since it came, and when history says so; `CondQueueExact` is
that the three agree, for which the queue must be free of duplicates.
`CondDepthKept` says what a thread in a wait remembers of the mutex.

Results: `RwInvariant`, `RwExclusionHolds`, `RwWritersCountedHolds`,
`OnceExactlyOnceHolds`, `CondMutexDepthHolds`, `CondWakeExactHolds`.

**HostGpuProofs.** The inductive invariant `SchedulerInv` of the command
scheduler has twelve parts. Ticks are ordered: what was read of the semaphore is
not ahead of it, and it is behind the tick being recorded (`TicksOrdered`). The
current buffer exists and is free when it is recorded or about to be
(`BufferFree`). A suspended call and a shutdown in progress have one of few
shapes, with what they have drained so far (`CallerShape`, `ShutdownShape`,
`ShutdownDrains`). The queues hold operations that have not run, each once,
oldest first with ascending ticks (`PendingExact`, `PriorityExact`), the active
operation precedes the queued ones (`ActiveExact`), and every operation that has
not run is in one of these places (`NoneForgotten`). The order of ticks in the
queues is what makes it enough to look at the front, and what makes
WaitPriorityOperations(t) right when the front is beyond t. Callbacks that defer
again are covered once for all the places that run them (`OpsStep`,
`OpsStepKeeps`). `FlipsImplementScheduler` shows that each step of GpuFlips, in
which flips are completed by priority operations, is a step of the scheduler or
leaves its variables alone, so that the two guarantees hold there as well
(`FlipsKeepScheduler`).

On top of `SchedulerInv`, `FlipInv` is the inductive invariant of the flips. A
request is in one of the three queues, once, under a number that Reserve gave out
(`IdsExact`), and the queues are empty unless the port is open or Close has yet to
cancel them (`PortLife`). Until it is completed, a request is in the hands of one
party: the guest thread that reserved it, the submission queue, the GPU thread or
a deferred operation that has not run (`OnePlace`); what is not in preparation any
more is in nobody's hands, and what was claimed is not on its way to the GPU
thread (`Progress`). That is what makes Complete find a request it has not
completed, and where "an operation runs once" of `SchedulerInv` is used. Claims
ascend along the queue, in which only the last request, the one the GPU thread is
about to claim, may be unclaimed (`Claims`): frames are shown in the order of the
claims. A request has no frame before its claim and has one when the GPU thread is
through with Prepare; one that Prepare drops because its port is gone cannot be a
request of the open port (`Framed`). A presentation therefore finds a held frame. The request
the present thread works on is the front of the queue although the queue is
unlocked meanwhile (`PresentFront`), because a drop in Prepare removes another
one and Cancel waits. `HeldExact` and `CountsExact` are the two results in the
form in which they are inductive. The queue operations rest on what `Filter`
returns (`FilterEmbeds`), and on numbers being distinct (`EntryAt`, `UpdateAt`,
`WithoutFacts`).

Results: `NothingBeforeTheGpuHolds`, `OperationsExactHolds`,
`FlipsImplementScheduler`, `FlipsKeepScheduler`, `FramesExactHolds`,
`PortCountsHolds`.

**BufferCoherenceProofs.** Two invariants, the second on top of the first. The
first carries `WatchersExact`:

    WatchInv == TypeOK /\ WatchersExact /\ Owners /\ CommandsWait

UpdateRegionWatchers adds or removes one watcher per page of a mask and protects
pages in runs. That the result is exact
(`WalkProtects`, `CpuOwnsExact`, ...) is an induction along the walk: behind the page it has reached,
and outside the pending run, every page has the protection its counts ask for,
and the pages of the run all ask for the protection the run carries
(`WalkInv`). Then a call is exact when what it adds or removes is what the
ownership of its pages gains or loses: the code filters its masks by the bits
that change, and so a page must never be owned by both sides. That this is so
when the GPU takes a range it cleared two steps earlier, while guest threads
invalidate pages, is `Owners`: a page is GPU-dirty only in ranges the cache
records, with a buffer or a pending download, and each task of the GPU thread
keeps the range it works on. `CommandsWait` says that the thread of every queued
command waits for it, so that the answer moves no other thread.

The second invariant carries `Coherent`:

    CoherenceInv == Contents /\ Work /\ Pending

`Contents` states for guest memory, buffers and images when each is current; it
implies `Coherent` because the protection is exact (`WatchInv`). `Work` is what
holds between the steps of one GPU task: an image is watched before it is copied
and is dirty while it is not watched (`TrackedOrDirty`, `ImageTask`), staged
pages the GPU does not own were current when staged (`Staged`), pages are read
back before they are given to the CPU (`GivenCurrent`). `Pending` is about
buffers: they do not overlap, a page with neither a buffer nor a pending
download is the CPU's, and a pending download brings every page the GPU owns
its last value, unless the page was used in between (`spoiled`). What a clean
image misses by unformatted writes (`MarkImagesFacts`) is taken back by the next
refresh; until then the clause of `Contents` about images speaks of the other
pages, as `Coherent` does.

Results: `WatchersExactHolds`, `CoherentHolds`.

## Findings

`futex_lost_wake`: on Linux a wait leaves the futex every 10 ms to dispatch
guest signals (`syncOnAddress.cpp:113`) and nothing at the address shows that it
is still waiting. A Wake in that window finds nobody; if the word is unchanged
the thread goes back to sleep and reports a timeout, or sleeps for ever.
`src/tests/SyncOnAddressTests.cpp:160` says that "explicitly woken waiters
return success". The trace: a thread waits and parks, its slice ends, another
wakes everybody, the deadline passes, the first returns ETIMEDOUT. The portable
implementation keeps its list entry during the window and does not have this
behaviour (`ImplementsAddressWait`). Guests that always store before they wake,
as the usual primitives do, are not affected: `futex` shows that their waits
end (`WaitEnds`) and miss no store (`NoLostStore`).

`scheduler_shutdown`: `CommandScheduler::Shutdown` calls `request_stop` and
`notify_all` (`commandScheduler.cpp:135-136`) without `m_operation_mutex`. The
priority thread may have evaluated its predicate (line 305) and not yet be
asleep; a plain `std::condition_variable` does not look at the stop token, so
that it sleeps on, and `join` in the next line never returns. The comment at
lines 120-121 promises that "The owning thread will finish shutdown after this
callback returns." In the trace
the drain has just ended, and the priority thread is on its way back to sleep.

`buffer_owner`: `RunGarbageCollector` erases a buffer that the GPU has written at
once (`bufferCache.cpp:859`) and leaves its download to a deferred operation
(`QueueGarbageDownload`). Until that has run, the pages are GPU-owned and have no
buffer. A guest read that faults then reaches the `EXIT` "invalidation readback
has no buffer owner" (line 299). `Coherent` leaves out pages that are used in
this window (`spoiled`); outside it the caches are coherent, but for images
and unformatted writes (see Limits).

## Limits

Only model-checked, because out of the prover's reach: liveness, and
`SchedulerSettles` and `FlipsSettle`, which speak of what is enabled. Proved for
an instance of any size but not run on more than the bounds above: everything
listed under Proofs.

Abstracted: the values of time (so that overflow in the conversion of timeouts,
`semaphore.cpp:240`, is a hazard without a property), names and attributes of
objects, logging, null and malformed arguments, error codes beyond those that
properties tell apart. A second deletion of the same semaphore, and any use of
one that has been deleted, is outside the guest's contract; so is destroying a
POSIX semaphore in use. Each is a guard with a comment. The type invariants of
KernelSema and PosixSem are theorems of their own, those of the other modules
parts of the inductive invariants.

Known and not covered: a guest signal handler that cancels or deletes the event
flag its own thread waits on never returns (`eventFlag.cpp:230`); one that waits
on a condition variable inside a condition wait overwrites `waiting_cond` of its
thread (`pthread.cpp:469`), which POSIX does not allow it to do; a level event
fills the guest's array by itself (`eventQueue.cpp:105`), as the model has it.

Of guest memory: the hot page escape (an environment variable that stops
protecting pages after three faults) is off; images the GPU renders to and their
downloads, hashes of partly written pages and anything finer than a page are left
out. `Coherent` does not hold of a clean image whose pages the GPU writes through
an unformatted buffer: `descriptors.cpp:107` passes whether the resource is
formatted, `bufferCache.cpp:510` marks images for formatted writes only, and
nothing makes the image take the pages until something else makes it dirty. The
image is stale in the code and has lost its copy in the model, and the property
names these pages (`missed`) as its exception, since no document says that images
follow such writes. The `EXIT` that `ReenterUpload` reaches (`memoryTracker.h:143`)
is a hazard without a property for the same reason. `TryReadBacking`, which
serves a small read of pages the CPU owns without the cache, changes nothing and
is not a step; when it fails, the code goes on as in `ObtainBuffer`. The two
`EXIT`s of a readback without a buffer (`bufferCache.cpp:299` and `303`) are one,
and faults of the GPU thread itself, which it would serve without a command, are
left out. The seven bits of the write watchers (`pageManager.cpp:173` ends the
process at 127) are not modelled: by `WatchersExact` it takes more than 126
tracked images on one page to use them up. Of video out: buffer and event registrations, flip status.
`CommandScheduler!Flush` submits and chooses the next buffer in one step, which
leaves out only that the GPU finishes in between; the code may then reuse a
buffer where the model has another one.

Not modelled: see the inventory and `components`. The repository has 147,000
lines of implementation, of which the larger part is tables (packet handlers,
instruction translators, format conversions), host I/O (files, sockets, audio,
windows) and stubs of system libraries. They are sequential and their hard cases
are in data that a small instance could not keep faithfully, so that the models
cover a small share of the lines: the parts in which threads meet.

## Plan

Done: the kernel's synchronisation objects, pthread objects, command scheduler,
flips, page tracking and buffer coherence, and the proofs above. Left, in this
order:

1. **End-of-pipe and video out event registrations** composed with EventQueue:
   the copy that `TriggerEopEvent` walks against deletion and registration.
2. **Images the GPU renders to**, as a third owner of pages in BufferCoherence.
3. **Thread life cycle** with joins, and the signal tables.
