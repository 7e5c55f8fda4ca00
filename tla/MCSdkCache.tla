----------------------------- MODULE MCSdkCache -----------------------------
(* A small instance of SdkCache alone. *)
EXTENDS SdkCache

=============================================================================
