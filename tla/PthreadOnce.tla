------------------------------ MODULE PthreadOnce ------------------------------
(***************************************************************************)
(* pthread_once (kernel/pthread.cpp) on two once objects, which share one  *)
(* host mutex and one condition variable.  An action is one stretch under  *)
(* the mutex; the guest's routine runs with the mutex free.  A waiter      *)
(* sleeps at most 10 ms before it looks at the state again.  Routines do   *)
(* not call pthread_once on the object they initialise.                    *)
(*                                                                         *)
(* "Bug:" marks broken variants, as in KernelSema.                         *)
(***************************************************************************)
EXTENDS Integers

CONSTANTS
    OnceThreads,    \* the guest threads
    Onces           \* the once objects

VARIABLES
    onceState,      \* PthreadOnce::state
    onceCall,       \* per thread: the object and where the call is
    initRuns,       \* history: times the routine of an object was started
    initDone        \* history: it has returned

onceVars == <<onceState, onceCall, initRuns, initDone>>

NoOnceCall == [once |-> "none", at |-> "none"]

OnceInit ==
    /\ onceState = [o \in Onces |-> "NEEDS_INIT"]
    /\ onceCall = [t \in OnceThreads |-> NoOnceCall]
    /\ initRuns = [o \in Onces |-> 0]
    /\ initDone = [o \in Onces |-> FALSE]

OnceAt(t, o, at) == onceCall' = [onceCall EXCEPT ![t] = [once |-> o, at |-> at]]

\* Bug: a routine that another thread has started counts as done.
BugStartedIsDone(t, o) ==
    /\ \/ onceState[o] # "NEEDS_INIT" /\ OnceAt(t, o, "returned") /\ UNCHANGED <<onceState, initRuns>>
       \/ /\ onceState[o] = "NEEDS_INIT"
          /\ onceState' = [onceState EXCEPT ![o] = "IN_PROGRESS"]
          /\ initRuns' = [initRuns EXCEPT ![o] = @ + 1]
          /\ OnceAt(t, o, "running")
    /\ UNCHANGED initDone

\* The switch on the state: return, start the routine, or wait.
OnceSwitch(t, o) ==
    /\ \/ /\ onceState[o] = "DONE_INIT"
          /\ OnceAt(t, o, "returned")
          /\ UNCHANGED <<onceState, initRuns>>
       \/ /\ onceState[o] = "NEEDS_INIT"
          /\ onceState' = [onceState EXCEPT ![o] = "IN_PROGRESS"]
          /\ initRuns' = [initRuns EXCEPT ![o] = @ + 1]
          /\ OnceAt(t, o, "running")
       \/ /\ onceState[o] \in {"IN_PROGRESS", "WAIT"}
          /\ onceState' = [onceState EXCEPT ![o] = "WAIT"]
          /\ OnceAt(t, o, "waiting")
          /\ UNCHANGED initRuns
    /\ UNCHANGED initDone

OnceEnter(t, o) == onceCall[t].at = "none" /\ OnceSwitch(t, o)

\* The guest's routine returns.
OnceRoutineEnds(t) ==
    /\ onceCall[t].at = "running"
    /\ initDone' = [initDone EXCEPT ![onceCall[t].once] = TRUE]
    /\ OnceAt(t, onceCall[t].once, "ran")
    /\ UNCHANGED <<onceState, initRuns>>

\* The runner publishes that, wakes everyone and returns.
OnceFinish(t) ==
    /\ onceCall[t].at = "ran"
    /\ onceState' = [onceState EXCEPT ![onceCall[t].once] = "DONE_INIT"]
    /\ OnceAt(t, onceCall[t].once, "returned")
    /\ UNCHANGED <<initRuns, initDone>>

\* A waiter finds that the state is WAIT no longer and goes round the switch.
OncePoll(t) ==
    /\ onceCall[t].at = "waiting"
    /\ onceState[onceCall[t].once] # "WAIT"
    /\ OnceSwitch(t, onceCall[t].once)

\* The guest thread goes on; it may call again.
OnceGoOn(t) ==
    /\ onceCall[t].at = "returned"
    /\ onceCall' = [onceCall EXCEPT ![t] = NoOnceCall]
    /\ UNCHANGED <<onceState, initRuns, initDone>>

OnceNext ==
    \E t \in OnceThreads :
        \/ \E o \in Onces : OnceEnter(t, o)
        \/ OnceRoutineEnds(t)
        \/ OnceFinish(t)
        \/ OncePoll(t)
        \/ OnceGoOn(t)

OnceSpec == OnceInit /\ [][OnceNext]_onceVars
-----------------------------------------------------------------------------
\* Whoever comes back from pthread_once, whichever way through the switch it
\* took, comes back after the one run of the routine has finished.
OnceExactlyOnce ==
    /\ \A o \in Onces : initRuns[o] <= 1
    /\ \A t \in OnceThreads : onceCall[t].at = "returned" => initDone[onceCall[t].once]
=============================================================================
