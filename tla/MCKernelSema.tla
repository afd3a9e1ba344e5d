---------------------------- MODULE MCKernelSema ----------------------------
(***************************************************************************)
(* Small instances of KernelSema for TLC.                                  *)
(***************************************************************************)
EXTENDS KernelSema, TLC

CONSTANTS t1, t2, t3

ThreeThreads == {t1, t2, t3}

\* Threads differ only by what they call.
ThreadSymmetry == Permutations(Threads)

\* Counts on both sides of every guard: 0 and MaxCount + 1 are refused.
MCNeedCounts == {0, 1, 2, 3}
MCCancelCounts == {-1, 0, 3}

\* Signal counts that KernelSignalSema does not refuse although they are
\* negative or overflow an int.
MCWildSignals == {-1, IntMax}
=============================================================================
