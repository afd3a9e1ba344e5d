--------------------------- MODULE MCBufferCoherence ---------------------------
(***************************************************************************)
(* A small region of guest memory for TLC.                                 *)
(***************************************************************************)
EXTENDS BufferCoherence

CONSTANTS c1, c2, image

\* An image over the end of one block and the start of the next.
AcrossBlocks == [i \in {image} |-> {1, 2}]

\* The second thread only faults on page 1, and only while the other block has no buffer and the
\* image has missed no write; neither is an image that has missed a write followed once the other
\* block has a buffer, nor once it has missed both pages, nor any behaviour with a spoiled page.
Bounded ==
    /\ spoiled = {} /\ 2 \notin images[image].missed
    /\ cpu[c2] # Running => cpu[c2].page = 1 /\ cpu[c2].at # "unmap" /\ images[image].missed = {}
    /\ (cpu[c2] # Running \/ images[image].missed # {}) => 2 \notin Registered \union RetiredPages
=============================================================================
