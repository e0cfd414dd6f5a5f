---------------------------- MODULE MCSyncStatus ----------------------------
(* SyncStatus for TLC; the configurations give the constants. *)
EXTENDS SyncStatus
=============================================================================
