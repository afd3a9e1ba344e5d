------------------------------- MODULE SeqFilter -------------------------------
(***************************************************************************)
(* The elements of a sequence that are in a set, in their order: what      *)
(* std::list::remove leaves, and what a loop over a list that skips some   *)
(* elements visits.  Written as a recursive function, which proofs can     *)
(* unfold.                                                                 *)
(***************************************************************************)
EXTENDS Integers, Sequences

\* Kept(s, A)[i] is what the first i elements contribute.
Kept(s, A) ==
    LET kept[i \in 0 .. Len(s)] ==
            IF i = 0 THEN << >>
            ELSE IF s[i] \in A THEN Append(kept[i - 1], s[i]) ELSE kept[i - 1]
    IN  kept

Filter(s, A) == Kept(s, A)[Len(s)]
=============================================================================
