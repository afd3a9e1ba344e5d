---------------------------- MODULE MCSyncOnAddress ----------------------------
(***************************************************************************)
(* Small instances of SyncOnAddress for TLC.                               *)
(***************************************************************************)
EXTENDS SyncOnAddress

CONSTANTS t1, t2, t3
=============================================================================
