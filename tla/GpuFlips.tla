------------------------------- MODULE GpuFlips -------------------------------
(***************************************************************************)
(* Flips from submission to presentation: the GPU thread between the       *)
(* command scheduler and the flip queue (CommandProcessor::Flip,           *)
(* PrepareCpuFlip and WaitFlipDone of graphicsRun.cpp, PrepareVideoOutFlip *)
(* of sync.cpp).                                                           *)
(*                                                                         *)
(* A flip of the command stream is reserved and prepared on the GPU        *)
(* thread and completed by a priority operation of the scheduler, once the *)
(* GPU has executed the commands before it.  A flip of a guest thread is   *)
(* queued for the GPU thread, which prepares it, submits and completes it. *)
(***************************************************************************)
EXTENDS CommandScheduler, FlipQueue

VARIABLES
    gpu,          \* where the GPU thread is
    preparations, \* the FlipPreparation submissions the GPU thread has not taken
    completes     \* the flip each deferred operation completes

gpuVars == <<gpu, preparations, completes>>
allVars == <<schedulerVars, flipVars, gpuVars>>

GpuInit ==
    /\ gpu = [pc |-> "idle"]
    /\ preparations = <<>>
    /\ completes = <<>>

(* VideoOutSubmitFlip's last step: SubmitFlipPreparation. *)
SubmitFlipPreparation ==
    /\ guest.id # 0
    /\ preparations' = Append(preparations, guest.id)
    /\ guest' = NoCall
    /\ UNCHANGED <<port, requests, cpuRequests, cancelled, processing, present, closer,
                   asleep, frames, prepared, shown, schedulerVars, gpu, completes>>

(* The GPU thread is at `pc` and the scheduler call it made has returned. *)
GpuAt(pc) == gpu.pc = pc /\ caller = Idle /\ recording

-----------------------------------------------------------------------------
(* A flip of the command stream.  PrepareVideoOutFlip reserves, or waits for a slot and *)
(* tries again; any other refusal is an EXIT.                                           *)

PortFound == DriverMutexFree /\ port.opened

GpuFlipReserve(index) ==
    /\ GpuAt("idle") \/ GpuAt("retry")
    /\ PortFound /\ Reserve("GpuEop", index)
    /\ gpu' = [pc |-> "claim", id |-> NextId, source |-> "GpuEop"]
    /\ UNCHANGED <<guest, schedulerVars, preparations, completes>>

GpuFlipFull ==
    /\ GpuAt("idle") \/ GpuAt("retry")
    /\ PortFound /\ PortMutexFree /\ QueueFull /\ NextId <= MaxFlips
    /\ gpu' = [pc |-> "slot"]
    /\ UNCHANGED <<flipVars, schedulerVars, preparations, completes>>

(* WaitForSubmitSlot.  A queue filled by CPU flips alone would wait for this thread. *)
WaitForSubmitSlot ==
    /\ GpuAt("slot") /\ "slot" \notin asleep
    /\ \/ ~QueueFull /\ gpu' = [pc |-> "retry"] /\ UNCHANGED asleep
       \/ QueueFull /\ requests # <<>> /\ asleep' = asleep \union {"slot"} /\ UNCHANGED gpu
       \/ QueueFull /\ requests = <<>> /\ gpu' = [pc |-> "exit"] /\ UNCHANGED asleep
    /\ UNCHANGED <<port, requests, cpuRequests, cancelled, processing, present, closer,
                   guest, frames, prepared, shown, schedulerVars, preparations, completes>>

(* The port was closed, or the bound on flips was reached, while the thread waited. *)
GpuFlipFails ==
    /\ GpuAt("retry")
    /\ (DriverMutexFree /\ ~port.opened) \/ NextId > MaxFlips
    /\ gpu' = [pc |-> "exit"]
    /\ UNCHANGED <<flipVars, schedulerVars, preparations, completes>>

(* A flip of a guest thread, taken from the submission queue. *)
GpuTakesPreparation ==
    /\ GpuAt("idle") /\ preparations # <<>>
    /\ gpu' = [pc |-> "claim", id |-> Head(preparations), source |-> "Cpu"]
    /\ preparations' = Tail(preparations)
    /\ UNCHANGED <<flipVars, schedulerVars, completes>>

-----------------------------------------------------------------------------
(* FlipQueue::Prepare, for both.                                             *)

GpuClaims ==
    /\ gpu.pc = "claim"
    /\ PrepareClaim(gpu.id)
    /\ gpu' = [gpu EXCEPT !.pc = IF Has(cancelled, gpu.id) THEN "signal" ELSE "check"]
    /\ UNCHANGED <<schedulerVars, preparations, completes>>

GpuChecksPort ==
    /\ gpu.pc = "check" /\ PortMutexFree
    /\ LET r == Entry(requests \o cancelled, gpu.id)
       IN  gpu' = [gpu EXCEPT !.pc = IF PortCurrent(r.generation) THEN "record" ELSE "drop"]
    /\ UNCHANGED <<flipVars, schedulerVars, preparations, completes>>

GpuRecords ==
    /\ \/ gpu.pc = "record" /\ PrepareFrame(gpu.id)
       \/ gpu.pc = "drop" /\ PrepareDrop(gpu.id)
    /\ gpu' = [gpu EXCEPT !.pc = "signal"]
    /\ UNCHANGED <<schedulerVars, preparations, completes>>

(* RecordEndOfPipeSignal: a flip of the command stream is completed by a priority operation. *)
GpuSignals ==
    /\ GpuAt("signal") /\ OperationMutexFree
    /\ IF gpu.source = "GpuEop"
       THEN /\ DeferPriorityOperation(ops, pending)
            /\ completes' = Append(completes, gpu.id)
            /\ UNCHANGED <<tick, counter, known, bufferTicks, current, recording, active,
                           opState, stop, prio, caller>>
       ELSE UNCHANGED <<schedulerVars, completes>>
    /\ gpu' = [gpu EXCEPT !.pc = "flush"]
    /\ UNCHANGED <<flipVars, preparations>>

(* GetScheduler().Flush() ends every flip; PrepareCpuFlip then completes its own. *)
GpuFlushes ==
    /\ GpuAt("flush") /\ Flush
    /\ gpu' = IF gpu.source = "Cpu" THEN [gpu EXCEPT !.pc = "complete"] ELSE [pc |-> "idle"]
    /\ UNCHANGED <<flipVars, preparations, completes>>

GpuCompletes ==
    /\ GpuAt("complete")
    /\ Complete(gpu.id)
    /\ gpu' = [pc |-> "idle"]
    /\ UNCHANGED <<schedulerVars, preparations, completes>>

(* CommandProcessor::WaitFlipDone: flush, then FlipQueue::Wait.  The ticks that the flips *)
(* to come need are kept.                                                                 *)
WaitFlipDone(index) ==
    /\ GpuAt("idle") /\ PortFound /\ tick + MaxFlips - prepared < MaxTick
    /\ Flush
    /\ gpu' = [pc |-> "done", index |-> index]
    /\ UNCHANGED <<flipVars, preparations, completes>>

Names(queue, index) == \E i \in DOMAIN queue : queue[i].index = index

FlipWait ==
    /\ GpuAt("done") /\ "gpu" \notin asleep
    /\ IF Names(requests, gpu.index) \/ Names(cpuRequests, gpu.index)
       THEN asleep' = asleep \union {"gpu"} /\ UNCHANGED gpu
       ELSE gpu' = [pc |-> "idle"] /\ UNCHANGED asleep
    /\ UNCHANGED <<port, requests, cpuRequests, cancelled, processing, present, closer,
                   guest, frames, prepared, shown, schedulerVars, preparations, completes>>

-----------------------------------------------------------------------------
(* The other threads.                                                        *)

(* The callback of a flip's priority operation is FlipQueue::Complete. *)
PriorityCompletes ==
    /\ PriorityRun /\ Len(ops') = Len(ops)
    /\ Complete(completes[active])
    /\ UNCHANGED gpuVars

GuestStep ==
    /\ \/ Open \/ Close \/ GetPort("SetFlipRate") \/ SubmitFlipRefused
       \/ NextId <= MaxFlips /\ GetPort("SubmitFlip")
       \/ \E rate \in FlipRates : SetFlipRate(rate)
       \/ \E index \in Indices : SubmitFlipReserve(index)
    /\ UNCHANGED <<schedulerVars, gpuVars>>

CloserThread == CloserStep /\ UNCHANGED <<schedulerVars, gpuVars>>
PresentThread == PresentStep /\ UNCHANGED <<schedulerVars, gpuVars>>

SchedulerThreads ==
    /\ \/ Begin \/ GpuPassed \/ PopEnds
       \/ PriorityNext \/ PrioritySleep \/ PriorityWakes \/ PriorityGpuPassed \/ PriorityEnds
       \/ GpuFinishes
    /\ UNCHANGED <<flipVars, gpuVars>>

GpuWork ==
    \/ WaitForSubmitSlot \/ GpuFlipFails \/ GpuTakesPreparation \/ GpuClaims \/ GpuChecksPort
    \/ GpuRecords \/ GpuSignals \/ GpuFlushes \/ GpuCompletes \/ FlipWait
    \/ \E index \in Indices : gpu.pc = "retry" /\ GpuFlipReserve(index)
    \/ gpu.pc = "retry" /\ GpuFlipFull

GpuCommands ==
    \/ \E index \in Indices : gpu.pc = "idle" /\ (GpuFlipReserve(index) \/ WaitFlipDone(index))
    \/ gpu.pc = "idle" /\ GpuFlipFull

(* After an EXIT nothing runs. *)
FlipsNext ==
    /\ gpu.pc # "exit"
    /\ \/ GuestStep \/ SubmitFlipPreparation \/ CloserThread \/ PresentThread
       \/ SchedulerThreads \/ PriorityCompletes \/ GpuWork \/ GpuCommands

(* What the program does by itself: guests need not call, and the command stream need not *)
(* hold another flip.                                                                     *)
ProgramStep ==
    \/ SubmitFlipPreparation \/ CloserThread \/ PresentThread \/ SchedulerThreads
    \/ PriorityCompletes \/ GpuWork

FlipsSpec == SchedulerInit /\ FlipInit /\ GpuInit /\ [][FlipsNext]_allVars

-----------------------------------------------------------------------------
(* No frame leaks and none is presented or given back twice, whatever Close meets: a frame *)
(* is held exactly as long as one queue has a request with it, and frames appear in the    *)
(* order their requests were prepared.                                                     *)
FramesExact ==
    /\ \A id \in DOMAIN frames :
           /\ frames[id] # "twice"
           /\ frames[id] = "held" <=>
                  \E r \in ToSet(requests \o cancelled) : r.id = id /\ r.frame
    /\ \A r \in ToSet(requests) : r.frame => r.claim > shown

(* The requests that flips of the command stream made. *)
EopIndices == {i \in DOMAIN requests : requests[i].source = "GpuEop"}

(* flipPendingNum and gcQueueNum of an open port count its requests, and the request the *)
(* present thread took stays the front of the queue and a request of the open port until *)
(* it is presented: the EXITs of FlipQueue::Flip and Cancel are never reached.           *)
PortCounts ==
    /\ port.opened => /\ port.flipPending = NumRequests
                      /\ port.gcQueue = Cardinality(EopIndices)
    /\ present.pc \in {"due", "present"} =>
           requests # <<>> /\ requests[1].id = present.request.id
    /\ present.pc = "present" => PortCurrent(present.request.generation)

(* WaitFlipDone is waiting for a CPU flip that only its own thread can prepare. *)
WaitsForItself == gpu.pc = "done" /\ Names(cpuRequests, gpu.index)

(* No flip is stranded by threads that wait for each other or missed a wake-up: when the *)
(* program can only wait for guests, every flip has been presented or given back, unless *)
(* the GPU thread waits in WaitFlipDone for a CPU flip queued behind it.  (No thread can *)
(* spin, so that the program does come to such a state when guests stop calling.)        *)
FlipsSettle ==
    ~ENABLED <<ProgramStep>>_allVars =>
        \/ requests = <<>> /\ cpuRequests = <<>> /\ cancelled = <<>> /\ preparations = <<>>
        \/ gpu.pc = "exit" \/ WaitsForItself
=============================================================================
