---------------------------- MODULE MCSyncMutex ----------------------------
(* Instances of SyncMutex. *)
EXTENDS SyncMutex

CONSTANTS c1, c2

OneOrTwo == {{c1}, {c1, c2}}
Two == {{c1, c2}}
=============================================================================
