------------------------- MODULE MCSyncOnAddressFutex --------------------------
(***************************************************************************)
(* Small instances of SyncOnAddressFutex for TLC.                          *)
(***************************************************************************)
EXTENDS SyncOnAddressFutex

CONSTANTS t1, t2
=============================================================================
