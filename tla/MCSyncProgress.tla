--------------------------- MODULE MCSyncProgress ---------------------------
(* Small instances of SyncProgress. *)
EXTENDS SyncProgress, TLC

(* The calls of a page are interchangeable. *)
Interchangeable == Permutations(Calls)

=============================================================================
