------------------------------- MODULE MCHostGpu -------------------------------
(***************************************************************************)
(* The host GPU side for TLC.  A behaviour is about one scenario: flips,   *)
(* through the scheduler, or any operations deferred to the scheduler.     *)
(***************************************************************************)
EXTENDS GpuFlips

CONSTANTS
    FlipBudget,     \* bound: flips reserved plus opens and closes of the port
    OperationTicks  \* bound: the ticks of a behaviour about operations

VARIABLE scenario

Init ==
    /\ SchedulerInit /\ FlipInit /\ GpuInit
    /\ scenario \in {"flips", "operations"}

Next ==
    /\ \/ /\ scenario = "flips" /\ FlipsNext
          /\ Len(frames') + port'.generation <= FlipBudget
       \/ /\ scenario = "operations" /\ SchedulerNext /\ UNCHANGED <<flipVars, gpuVars>>
          /\ tick' <= OperationTicks
    /\ UNCHANGED scenario

Spec == Init /\ [][Next]_<<allVars, scenario>>
=============================================================================
