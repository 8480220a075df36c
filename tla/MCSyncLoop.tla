----------------------------- MODULE MCSyncLoop -----------------------------
(* Instances of SyncLoop for TLC.                                          *)
EXTENDS SyncLoop

CONSTANTS r1, r2, n1
=============================================================================
