-------------------------- MODULE MCSyncLifecycle --------------------------
(* SyncLifecycle on small instances; the .cfg files choose the bounds.     *)
EXTENDS SyncLifecycle
=============================================================================
