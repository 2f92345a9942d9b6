----------------------------- MODULE MCSyncLoop -----------------------------
(* Three Gateway keys for two workers: one key more than can be in flight. *)
EXTENDS SyncLoop, TLC
=============================================================================
