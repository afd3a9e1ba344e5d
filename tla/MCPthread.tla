------------------------------- MODULE MCPthread -------------------------------
(***************************************************************************)
(* The pthread objects for TLC.  A mutex with its condition variable, a    *)
(* read/write lock, once objects and a POSIX semaphore share no state, so  *)
(* that a behaviour uses one of the four: the state graph is their sum,    *)
(* not their product.                                                      *)
(***************************************************************************)
EXTENDS PthreadCond, PthreadRwlock, PthreadOnce, PosixSem

CONSTANTS t1, t2, t3, t4, o1, o2

VARIABLE object     \* the object this behaviour is about

ThreeThreads == {t1, t2, t3}

FourThreads == {t1, t2, t3, t4}

Init ==
    /\ CondInit /\ RwInit /\ OnceInit /\ PosixSemInit
    /\ object \in {"cond", "rwlock", "once", "sem"}

Next ==
    /\ \/ object = "cond" /\ CondNext /\ UNCHANGED <<rwVars, onceVars, semVars>>
       \/ object = "rwlock" /\ RwNext /\ UNCHANGED <<condVars, onceVars, semVars>>
       \/ object = "once" /\ OnceNext /\ UNCHANGED <<condVars, rwVars, semVars>>
       \/ object = "sem" /\ PosixSemNext /\ UNCHANGED <<condVars, rwVars, onceVars>>
    /\ UNCHANGED object

Spec ==
    /\ Init
    /\ [][Next]_<<condVars, rwVars, onceVars, semVars, object>>
    /\ CondFairness /\ RwFairness /\ PosixSemFairness
=============================================================================
