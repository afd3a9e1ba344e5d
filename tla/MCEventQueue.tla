----------------------------- MODULE MCEventQueue -----------------------------
(***************************************************************************)
(* A small instance of EventQueue for TLC.                                 *)
(***************************************************************************)
EXTENDS EventQueue

CONSTANTS t1, t2, t3, user, queued, timer

\* A queue with events of these kinds under the three keys.
Use(u, q, t) ==
    [k \in {user, queued, timer} |-> CASE k = user -> u [] k = queued -> q [] k = timer -> t]

\* A queue on which nothing stays triggered by itself; a level event and a
\* timer, the two kinds a signal may miss; each of these beside a queued event.
GuestUses ==
    {Use({"edge"}, {"queued"}, {}), Use({"level"}, {}, {"timer"}),
     Use({"level"}, {"queued"}, {}), Use({}, {"queued"}, {"timer"})}
=============================================================================
