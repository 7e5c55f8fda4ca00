---------------------------- MODULE MCAuditTrail ----------------------------
(***************************************************************************)
(* Small instances of AuditTrail: two events, a replay of the server's and *)
(* one of another process.  The events are ordered, hence not symmetric.   *)
(***************************************************************************)
EXTENDS AuditTrail

=============================================================================
