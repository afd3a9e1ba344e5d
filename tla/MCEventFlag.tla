----------------------------- MODULE MCEventFlag -----------------------------
(***************************************************************************)
(* Small instances of EventFlag for TLC.                                   *)
(***************************************************************************)
EXTENDS EventFlag

CONSTANTS t1, t2, t3

ThreeThreads == {t1, t2, t3}

\* Both wait modes and all three clear modes; one request waits for a bit the
\* other requests also want.
MCRequests ==
    {[bits |-> {0}, wait |-> "Or", clear |-> "None"],
     [bits |-> {0, 1}, wait |-> "And", clear |-> "Bits"],
     [bits |-> {0, 1}, wait |-> "Or", clear |-> "All"]}

MCPatterns == {{}, {0}, {1}}
=============================================================================
