------------------------------ MODULE FlipQueue ------------------------------
(***************************************************************************)
(* The video-out port and its flip queue (videoOut.cpp).  A flip request   *)
(* is reserved by a guest thread or by the GPU thread, prepared (a frame   *)
(* recorded for it) on the GPU thread, completed when its commands are     *)
(* done, and presented by the present thread at a vblank, or cancelled     *)
(* when the port is closed.                                                *)
(*                                                                         *)
(* Locks held across steps: the driver's m_mutex by Close, the port's      *)
(* mutex by a presentation.  FlipQueue::m_mutex never is.  One port, as    *)
(* VIDEO_OUT_NUM_MAX allows.                                               *)
(***************************************************************************)
EXTENDS Integers, Sequences, FiniteSets, SequencesExt, SeqFilter

CONSTANTS
    FlipQueueCapacity,   \* VIDEO_OUT_FLIP_QUEUE_CAPACITY
    Indices,             \* the display buffers flips name
    FlipRates,           \* the rates VideoOutSetFlipRate is called with
    MaxFlips,            \* bound: requests reserved in a behaviour
    MaxGeneration        \* bound: opens and closes of the port

ASSUME FlipAssumption ==
    /\ FlipQueueCapacity \in Nat \ {0} /\ FlipRates \subseteq 0..2
    /\ MaxFlips \in Nat /\ MaxGeneration \in Nat

VARIABLES
    port,         \* VideoOutConfig
    requests,     \* m_requests
    cpuRequests,  \* m_cpu_requests
    cancelled,    \* m_cancelled_requests
    processing,   \* m_processing
    present,      \* where the present thread is, with the request it took
    closer,       \* where the guest thread that opens and closes the port is
    guest,        \* the call the other guest thread is in, with the request it reserved
    asleep,       \* "closer", "gpu": on m_done_cond_var; "slot": on m_submit_slot_cond_var
    frames,       \* what became of the frame of each request
    prepared,     \* history: how many requests the GPU thread has claimed
    shown         \* history: the claim number of the last request presented

flipVars == <<port, requests, cpuRequests, cancelled, processing, present, closer, guest,
              asleep, frames, prepared, shown>>

(* `wait` is next_flip_vblank less the vblank count, not below zero. *)
ClosedPort == [opened |-> FALSE, closing |-> FALSE, generation |-> 0, rate |-> 0, wait |-> 0,
               flipPending |-> 0, gcQueue |-> 0]

NoCall == [call |-> "none", id |-> 0]

FlipInit ==
    /\ port = ClosedPort
    /\ requests = <<>> /\ cpuRequests = <<>> /\ cancelled = <<>>
    /\ processing = FALSE /\ present = [pc |-> "flip"]
    /\ closer = "idle" /\ guest = NoCall
    /\ asleep = {} /\ frames = <<>> /\ prepared = 0 /\ shown = 0

DriverMutexFree == closer = "idle"
PortMutexFree == present.pc # "present"

(* DriverState().Get(handle), on which a guest call relies in a later step. *)
GetPort(call) ==
    /\ guest = NoCall /\ DriverMutexFree /\ port.opened
    /\ guest' = [call |-> call, id |-> 0]
    /\ UNCHANGED <<port, requests, cpuRequests, cancelled, processing, present, closer,
                   asleep, frames, prepared, shown>>

NumRequests == Len(requests) + Len(cpuRequests)
NextId == Len(frames) + 1

Has(queue, id) == \E i \in DOMAIN queue : queue[i].id = id
Without(queue, id) == Filter(queue, {r \in ToSet(queue) : r.id # id})
Entry(queue, id) == CHOOSE r \in ToSet(queue) : r.id = id
Update(queue, r) == [i \in DOMAIN queue |-> IF queue[i].id = r.id THEN r ELSE queue[i]]

-----------------------------------------------------------------------------
(* Opening and closing the port.                                             *)

(* Open expects what Close left: EXIT_IF(config.flip_rate != 0) ends the program. *)
Open ==
    /\ DriverMutexFree /\ PortMutexFree /\ ~port.opened /\ port.generation < MaxGeneration
    /\ port.rate = 0
    /\ port' = [ClosedPort EXCEPT !.opened = TRUE, !.generation = port.generation + 1]
    /\ UNCHANGED <<requests, cpuRequests, cancelled, processing, present, closer, guest,
                   asleep, frames, prepared, shown>>

(* The handle was valid at GetPort; nothing is checked under the port's mutex. *)
SetFlipRate(rate) ==
    /\ guest.call = "SetFlipRate" /\ PortMutexFree
    /\ port' = [port EXCEPT !.rate = rate, !.wait = 0]
    /\ guest' = NoCall
    /\ UNCHANGED <<requests, cpuRequests, cancelled, processing, present, closer, asleep,
                   frames, prepared, shown>>

Close ==
    /\ DriverMutexFree /\ PortMutexFree /\ port.opened /\ port.generation < MaxGeneration
    /\ port' = [port EXCEPT !.opened = FALSE, !.closing = TRUE, !.generation = @ + 1,
                            !.rate = 0, !.wait = 0]
    /\ closer' = "cancel"
    /\ UNCHANGED <<requests, cpuRequests, cancelled, processing, present, guest, asleep,
                   frames, prepared, shown>>

(* FlipQueue::Cancel: wait for a presentation in progress, ... *)
\* Bug: a presentation in progress is not waited for.
BugCancelAtOnce == FALSE

CancelWaits == processing /\ requests # <<>>

CancelSleep ==
    /\ closer = "cancel" /\ "closer" \notin asleep /\ CancelWaits
    /\ asleep' = asleep \union {"closer"}
    /\ UNCHANGED <<port, requests, cpuRequests, cancelled, processing, present, closer,
                   guest, frames, prepared, shown>>

(* ... keep what is still being prepared for Prepare and Complete to find, drop the rest. *)
InPreparation(r) == r.state \in {"Reserved", "Recording"}

(* m_presenter.Discard of the frames of `dropped`. *)
Discard(dropped) ==
    [id \in DOMAIN frames |->
        IF \E r \in dropped : r.id = id /\ r.frame
        THEN IF frames[id] = "held" THEN "discarded" ELSE "twice"
        ELSE frames[id]]

Cancel ==
    /\ closer = "cancel" /\ "closer" \notin asleep /\ ~CancelWaits
    /\ LET all == requests \o cpuRequests
       IN  /\ cancelled' = cancelled \o Filter(all, {r \in ToSet(all) : InPreparation(r)})
           /\ frames' = Discard({r \in ToSet(all) : ~InPreparation(r)})
    /\ requests' = <<>> /\ cpuRequests' = <<>>
    /\ asleep' = {}
    /\ closer' = "reset"
    /\ UNCHANGED <<port, processing, present, guest, prepared, shown>>

CancelReset ==
    /\ closer = "reset" /\ PortMutexFree
    /\ port' = [port EXCEPT !.flipPending = 0, !.gcQueue = 0]
    /\ closer' = "idle"
    /\ UNCHANGED <<requests, cpuRequests, cancelled, processing, present, guest, asleep,
                   frames, prepared, shown>>

-----------------------------------------------------------------------------
(* Reserving, preparing and completing a request.                            *)

Request(source, index) ==
    [id |-> NextId, generation |-> port.generation, source |-> source, index |-> index,
     state |-> "Reserved", frame |-> FALSE, claim |-> 0]

QueueFull == NumRequests >= FlipQueueCapacity

(* ReserveFlipRequest under the port's mutex, and FlipQueue::Reserve. *)
Reserve(source, index) ==
    /\ PortMutexFree /\ ~port.closing /\ ~QueueFull /\ NextId <= MaxFlips
    /\ IF source = "GpuEop"
       THEN requests' = Append(requests, Request(source, index)) /\ UNCHANGED cpuRequests
       ELSE cpuRequests' = Append(cpuRequests, Request(source, index)) /\ UNCHANGED requests
    /\ port' = [port EXCEPT !.flipPending = NumRequests + 1,
                            !.gcQueue = IF source = "GpuEop" THEN @ + 1 ELSE @]
    /\ frames' = Append(frames, "none")
    /\ UNCHANGED <<cancelled, processing, present, closer, asleep, prepared, shown>>

(* VideoOutSubmitFlip after GetPort: refused, or reserved and then handed to the GPU. *)
SubmitFlipRefused ==
    /\ guest.call = "SubmitFlip" /\ guest.id = 0 /\ PortMutexFree
    /\ port.closing \/ QueueFull \/ NextId > MaxFlips
    /\ guest' = NoCall
    /\ UNCHANGED <<port, requests, cpuRequests, cancelled, processing, present, closer,
                   asleep, frames, prepared, shown>>

SubmitFlipReserve(index) ==
    /\ guest.call = "SubmitFlip" /\ guest.id = 0 /\ Reserve("Cpu", index)
    /\ guest' = [guest EXCEPT !.id = NextId]

(* Prepare, first section: claim the request; a CPU request joins the queue here. *)
PrepareClaim(id) ==
    /\ prepared' = prepared + 1
    /\ LET claimed(queue) == [Entry(queue, id) EXCEPT !.state = "Recording", !.claim = prepared']
       IN  \/ /\ Has(requests, id)
              /\ requests' = Update(requests, claimed(requests))
              /\ UNCHANGED <<cpuRequests, cancelled>>
           \/ /\ Has(cpuRequests, id)
              /\ requests' = Append(requests, claimed(cpuRequests))
              /\ cpuRequests' = Without(cpuRequests, id)
              /\ UNCHANGED cancelled
           \/ /\ Has(cancelled, id)
              /\ cancelled' = Update(cancelled, claimed(cancelled))
              /\ UNCHANGED <<requests, cpuRequests>>
    /\ UNCHANGED <<port, processing, present, closer, guest, asleep, frames, shown>>

PortCurrent(generation) ==
    port.opened /\ ~port.closing /\ port.generation = generation

(* Prepare, last section: the port went away, ... *)
PrepareDrop(id) ==
    /\ IF Has(requests, id)
       THEN /\ cancelled' = Append(cancelled, Entry(requests, id))
            /\ requests' = Without(requests, id)
       ELSE UNCHANGED <<requests, cancelled>>
    /\ UNCHANGED <<port, cpuRequests, processing, present, closer, guest, asleep, frames,
                   prepared, shown>>

(* ... or the recorded frame is handed to the request, wherever it is by now. *)
PrepareFrame(id) ==
    /\ LET framed(queue) == [Entry(queue, id) EXCEPT !.frame = TRUE]
       IN  \/ /\ Has(requests, id)
              /\ requests' = Update(requests, framed(requests))
              /\ UNCHANGED cancelled
           \/ /\ Has(cancelled, id)
              /\ cancelled' = Update(cancelled, framed(cancelled))
              /\ UNCHANGED requests
    /\ frames' = [frames EXCEPT ![id] = "held"]
    /\ UNCHANGED <<port, cpuRequests, processing, present, closer, guest, asleep, prepared,
                   shown>>

\* Bug: the frame of a cancelled request is forgotten.
BugCompleteLeaks(id) ==
    /\ \/ /\ Has(requests, id)
          /\ requests' = Update(requests, [Entry(requests, id) EXCEPT !.state = "Ready"])
          /\ UNCHANGED <<cancelled, asleep>>
       \/ /\ Has(cancelled, id)
          /\ cancelled' = Without(cancelled, id)
          /\ asleep' = asleep \intersect {"slot"}
          /\ UNCHANGED requests
    /\ UNCHANGED <<port, cpuRequests, processing, present, closer, guest, frames, prepared,
                   shown>>

Complete(id) ==
    /\ \/ /\ Has(requests, id)
          /\ requests' = Update(requests, [Entry(requests, id) EXCEPT !.state = "Ready"])
          /\ UNCHANGED <<cancelled, frames, asleep>>
       \/ /\ Has(cancelled, id)
          /\ cancelled' = Without(cancelled, id)
          /\ frames' = Discard({Entry(cancelled, id)})
          /\ asleep' = asleep \intersect {"slot"}
          /\ UNCHANGED requests
    /\ UNCHANGED <<port, cpuRequests, processing, present, closer, guest, prepared, shown>>

-----------------------------------------------------------------------------
(* The present thread: a flip attempt, then the vblank.                      *)

FrontReady == requests # <<>> /\ requests[1].state = "Ready"

FlipTake ==
    /\ present.pc = "flip" /\ FrontReady
    /\ processing' = TRUE
    /\ present' = [pc |-> "due", request |-> requests[1]]
    /\ UNCHANGED <<port, requests, cpuRequests, cancelled, closer, guest, asleep, frames,
                   prepared, shown>>

(* IsFlipDueLocked, under the port's mutex, which a due flip keeps. *)
FlipDue ==
    /\ present.pc = "due"
    /\ IF PortCurrent(present.request.generation) /\ port.wait = 0
       THEN /\ requests' = Update(requests, [present.request EXCEPT !.state = "Presenting"])
            /\ present' = [present EXCEPT !.pc = "present"]
            /\ UNCHANGED <<processing, asleep>>
       ELSE /\ processing' = FALSE
            /\ asleep' = asleep \intersect {"slot"}
            /\ present' = [pc |-> "vblank"]
            /\ UNCHANGED requests
    /\ UNCHANGED <<port, cpuRequests, cancelled, closer, guest, frames, prepared, shown>>

GcQueueAfter(r) ==
    IF r.source = "GpuEop" /\ port.gcQueue > 0 THEN port.gcQueue - 1 ELSE port.gcQueue

\* Bug: the thread that waits for a slot is not signalled.
BugNoSlotSignal == asleep \intersect {"slot"}

(* Who still sleeps once a flip is done: both condition variables are signalled. *)
AsleepAfterFlip == {}

FlipPresent ==
    /\ present.pc = "present"
    /\ LET r == present.request
       IN  /\ frames' = [frames EXCEPT ![r.id] = IF @ = "held" THEN "shown" ELSE "twice"]
           /\ shown' = r.claim
           /\ port' = [port EXCEPT !.wait = port.rate + 1, !.flipPending = NumRequests - 1,
                                   !.gcQueue = GcQueueAfter(r)]
    /\ requests' = Tail(requests)
    /\ processing' = FALSE
    /\ asleep' = AsleepAfterFlip
    /\ present' = [pc |-> "vblank"]
    /\ UNCHANGED <<cpuRequests, cancelled, closer, guest, prepared>>

(* VblankEnd, after a flip or when there is none to try, counts the vblank of an open *)
(* port; the next VblankBegin follows.                                                *)
VblankEnd ==
    /\ present.pc = "vblank" \/ (present.pc = "flip" /\ ~FrontReady)
    /\ DriverMutexFree
    /\ port' = [port EXCEPT !.wait = IF port.opened /\ @ > 0 THEN @ - 1 ELSE @]
    /\ present' = [pc |-> "flip"]
    /\ UNCHANGED <<requests, cpuRequests, cancelled, processing, closer, guest, asleep,
                   frames, prepared, shown>>

PresentStep == FlipTake \/ FlipDue \/ FlipPresent \/ VblankEnd
CloserStep == CancelSleep \/ Cancel \/ CancelReset
=============================================================================
