-------------------------- MODULE MCSyncScheduler --------------------------
(* Small instances of SyncScheduler. *)
EXTENDS SyncScheduler

CONSTANTS l1, l2, l3

MCHash == [l \in Library |-> CASE l = l1 -> 1 [] l = l2 -> 0 [] OTHER -> 2]
=============================================================================
